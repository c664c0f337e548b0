---------------------------- MODULE Observations ----------------------------
(***************************************************************************)
(* The structured observation protocol (SVOP) of scirust-verify-numerics:  *)
(* what a line of output says, and what is made of all the lines.          *)
(*                                                                         *)
(* A line is Plain (no marker), Broken (a marker, then something that is   *)
(* no object of the protocol) or the record of the fields it carries.  A   *)
(* number in a line is finite: JSON has no other.                          *)
(***************************************************************************)
EXTENDS Numerics, SequencesExt

CONSTANTS Plain, Broken, Malformed

Text == {"blank", "hex", "text"}

NonEmpty(text) == text # "blank"

(* A fingerprint is named as such, or is the value when that is a string.  *)
FingerprintText(line) ==
  IF line.fingerprint # Nothing THEN line.fingerprint ELSE line.value

IsValid(line) ==
  /\ NonEmpty(line.name)
  /\ \/ /\ line.kind = "numeric_comparison"
        /\ Nothing \notin {line.expected, line.observed}
     \/ /\ line.kind = "fingerprint"
        /\ FingerprintText(line) = "hex"
     \/ /\ line.kind = "metric"
        /\ line.value = "number" /\ line.unit # Nothing /\ NonEmpty(line.unit)
     \/ /\ line.kind = "property"
        /\ line.holds # Nothing /\ line.description # Nothing /\ NonEmpty(line.description)

(* A valid line as an observation of the model.                            *)
ToModelObservation(line) ==
  CASE line.kind = "numeric_comparison" ->
         [kind |-> line.kind, name |-> line.name, unit |-> line.unit,
          value |-> [expected |-> line.expected, observed |-> line.observed]]
    [] line.kind = "fingerprint" ->
         [kind |-> line.kind, name |-> line.name, unit |-> Nothing,
          value |-> FingerprintText(line)]
    [] line.kind = "metric" ->
         [kind |-> line.kind, name |-> line.name, unit |-> line.unit, value |-> line.value]
    [] line.kind = "property" ->
         [kind |-> line.kind, name |-> line.name, unit |-> line.description,
          value |-> line.holds]

IsMarked(line) == line # Plain

IsSound(line) == line # Broken /\ IsValid(line)

MarkedIn(lines) == {k \in DOMAIN lines : IsMarked(lines[k])}

(* One marked line that is not sound, and nothing is made of the others.   *)
Parses(lines) == \A k \in MarkedIn(lines) : IsSound(lines[k])

(* The observations come in the order of their lines.                      *)
ParseObservations(lines) ==
  LET marked == MarkedIn(lines)
      Line(i) == lines[CHOOSE k \in marked : Cardinality({j \in marked : j < k}) = i - 1]
  IN IF Parses(lines)
       THEN [i \in 1..Cardinality(marked) |-> ToModelObservation(Line(i))]
       ELSE Malformed

=============================================================================
