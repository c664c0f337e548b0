----------------------------- MODULE Determinism -----------------------------
(***************************************************************************)
(* The determinism engine (scirust-verify-determinism, execute): one       *)
(* program is executed several times, once more for every thread level,    *)
(* the fingerprints of its outputs are compared, and every execution and   *)
(* the comparison become evidence of the run.                              *)
(*                                                                         *)
(* Of an output the runner keeps the part below the capture limit, its     *)
(* head; SHA-256 is injective, so a digest of a head is the head.          *)
(***************************************************************************)
EXTENDS Verdicts, Sequences, Naturals, FiniteSets

CONSTANTS
  Configurations, \* what [determinism] of a manifest says
  Captured,       \* what is captured of an output
  EmptyHead,      \* ... of a program that could not be started
  Observations,   \* what parse_observations makes of a head
  Unparseable,    \* ... when a line of it is malformed
  NotYet,
  MaxFaults       \* bound: calls of the runner or the store that fail

Modes == {"stdout_digest", "structured"}

ASSUME DeterminismAssumption ==
  /\ \A c \in Configurations :
       /\ c.runs \in Nat /\ c.runs >= 2 /\ c.mode \in Modes
       /\ c.thread_levels \in Seq(Nat \ {0})
  /\ EmptyHead \in Captured
  /\ DOMAIN Observations = Captured
  /\ NotYet \notin Verdict \cup {"pipeline_failure"}
  /\ MaxFaults \in Nat

VARIABLES
  config,
  executions,   \* history: what each execution really was
  logs,         \* the logs in the run: what the file of a label holds
  records,      \* evidence of the executions, in their order
  fingerprints, \* a fingerprint for each label
  tally,        \* all_ok, any_timeout and successful_runs
  comparison,   \* evidence of the comparison
  outcome,      \* of the check
  faults

vars == <<config, executions, logs, records, fingerprints, tally, comparison, outcome,
          faults>>

(* The run matrix: repetitions, then thread levels.                        *)
Labels == [i \in 1..config.runs |-> <<"run", i>>]
          \o [i \in 1..Len(config.thread_levels) |-> <<"threads", config.thread_levels[i]>>]

Execution == [label : {Labels[i] : i \in 1..Len(Labels)}, exit : ExitStatus,
              head : Captured]

Init ==
  /\ config \in Configurations
  /\ executions = <<>> /\ logs = <<>> /\ records = <<>> /\ fingerprints = <<>>
  /\ tally = [all_ok |-> TRUE, any_timeout |-> FALSE, successful_runs |-> 0]
  /\ comparison = NotYet /\ outcome = NotYet
  /\ faults = 0

(* fingerprint_of; output that does not parse has a fingerprint as well.   *)
FingerprintOf(head) ==
  IF config.mode = "structured" THEN Observations[head] ELSE head

StatusOf(exit) ==
  CASE exit = "timed_out" -> "timed_out"
    [] exit = "zero" -> "ok"
    [] OTHER -> "failed"

Bind(f, x, y) == [z \in DOMAIN f \cup {x} |-> IF z = x THEN y ELSE f[z]]

Executing == outcome = NotYet /\ Len(executions) < Len(Labels)

Ends(exit, head) == exit = "spawn_failed" => head = EmptyHead

Count(x) ==
  tally' = [all_ok |-> tally.all_ok /\ x.exit = "zero",
            any_timeout |-> tally.any_timeout \/ x.exit = "timed_out",
            successful_runs |-> tally.successful_runs + (IF x.exit = "zero" THEN 1 ELSE 0)]

(* The logs are written before the record; two executions with one label   *)
(* share the files and the entry of the map.                               *)
Keep_SuccessfulPrints(x) ==
  /\ logs' = Bind(logs, x.label, x.head)
  /\ records' = Append(records, [label |-> x.label, digest |-> x.head,
                                 status |-> StatusOf(x.exit)])
  /\ fingerprints' = IF x.exit = "zero"
                       THEN Bind(fingerprints, x.label, FingerprintOf(x.head))
                       ELSE fingerprints

Keep(x) ==
  /\ logs' = Bind(logs, x.label, x.head)
  /\ records' = Append(records, [label |-> x.label, digest |-> x.head,
                                 status |-> StatusOf(x.exit)])
  /\ fingerprints' = Bind(fingerprints, x.label, FingerprintOf(x.head))

Execute(x) ==
  /\ Executing
  /\ x.label = Labels[Len(executions) + 1]
  /\ Ends(x.exit, x.head)
  /\ executions' = Append(executions, x)
  /\ Count(x)
  /\ Keep(x)
  /\ UNCHANGED <<config, comparison, outcome, faults>>

(* An error of the runner, or of the store with or without the log written,*)
(* aborts the run.                                                         *)
Abort ==
  /\ outcome = NotYet
  /\ faults < MaxFaults /\ faults' = faults + 1
  /\ outcome' = "pipeline_failure"
  /\ \/ UNCHANGED logs
     \/ /\ Executing
        /\ \E head \in Captured : logs' = Bind(logs, Labels[Len(executions) + 1], head)
  /\ UNCHANGED <<config, executions, records, fingerprints, tally, comparison>>

Values(prints) == {prints[l] : l \in DOMAIN prints}

Conclude(any_timeout, successful_runs, distinct) ==
  CASE any_timeout \/ successful_runs < 2 -> "not_verified"
    [] ~any_timeout /\ successful_runs >= 2 /\ distinct = 1 -> "verified"
    [] OTHER -> "failed"

Inputs_Successful == {i \in 1..Len(records) : records[i].status = "ok"}

(* The comparison is derived from all the executions.                      *)
Inputs == 1..Len(records)

Compare ==
  /\ outcome = NotYet /\ Len(executions) = Len(Labels)
  /\ LET distinct == Cardinality(Values(fingerprints))
     IN /\ comparison' = [derived_from |-> Inputs, fingerprints |-> fingerprints,
                          status |-> IF /\ tally.all_ok /\ distinct = 1
                                        /\ tally.successful_runs >= 2
                                       THEN "ok" ELSE "failed"]
        /\ outcome' = Conclude(tally.any_timeout, tally.successful_runs, distinct)
  /\ UNCHANGED <<config, executions, logs, records, fingerprints, tally, faults>>

Finished == outcome # NotYet /\ UNCHANGED vars

Next ==
  \/ \E x \in Execution : Execute(x)
  \/ Abort
  \/ Compare
  \/ Finished

Spec == Init /\ [][Next]_vars

-----------------------------------------------------------------------------
(* Properties.                                                             *)

(* What finalize demands of the attachments: every log still holds the     *)
(* bytes its record states.  Otherwise the run is never sealed.            *)
LogsIntact == \A i \in 1..Len(records) : logs[records[i].label] = records[i].digest

Parses(head) == Observations[head] # Unparseable

SameOutput(x, y) ==
  IF config.mode = "structured" THEN Observations[x.head] = Observations[y.head]
                                ELSE x.head = y.head

(* In a run that can be sealed `verified` is earned: no execution timed    *)
(* out, two succeeded, and the bytes or the observations of all, those     *)
(* under a thread level that is named twice included, were the same.       *)
(* Structured outputs that do not parse count as the same, so none of them *)
(* parses if one does not; an execution that failed is verified with the   *)
(* others, and the evidence of the comparison tells that there was one.    *)
VerifiedIsEarned ==
  outcome = "verified" /\ LogsIntact =>
    LET all == 1..Len(executions)
    IN /\ \A i \in all : executions[i].exit # "timed_out"
       /\ Cardinality({i \in all : executions[i].exit = "zero"}) >= 2
       /\ \A i, j \in all :
            /\ SameOutput(executions[i], executions[j])
            /\ config.mode = "structured" =>
                 (Parses(executions[i].head) <=> Parses(executions[j].head))
       /\ comparison.status = "ok" <=> \A i \in all : executions[i].exit = "zero"

(* README.md: output that does not parse is insufficient evidence, and not *)
(* verified.                                                               *)
UnparseableIsNotVerified ==
  outcome = "verified" /\ LogsIntact /\ config.mode = "structured" =>
    \A i \in 1..Len(executions) : Parses(executions[i].head)

(* The evidence of such a run is enough to come to its outcome again: from *)
(* the records the comparison is derived from and the logs they name.      *)
EvidenceSupportsOutcome ==
  outcome \in Verdict /\ LogsIntact =>
    LET inputs == comparison.derived_from
        With(status) == {i \in inputs : records[i].status = status}
    IN outcome = Conclude(With("timed_out") # {}, Cardinality(With("ok")),
                          Cardinality({FingerprintOf(logs[records[i].label]) : i \in inputs}))

=============================================================================
