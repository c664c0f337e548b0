-------------------------- MODULE ScirustProtocol --------------------------
(***************************************************************************)
(* The SciRust bridge: how the summary of its test protocol is parsed      *)
(* (scirust/lib.rs), and the documents `ingest scirust` makes of its gates *)
(* (scirust_ingest.rs).  A summary is the sequence of its lines; a gate    *)
(* line carries the gate's id, its status and whether it is required.      *)
(***************************************************************************)
EXTENDS ToolEvidence, Verdicts

CONSTANT EvidenceName   \* EvidenceId::sequential: the names of records, in order

GateStatus == {"PASS", "FAIL", "SKIP"}

ToVerdict_SkipPasses == [PASS |-> "verified", FAIL |-> "failed", SKIP |-> "verified"]

ToVerdict == [PASS |-> "verified", FAIL |-> "failed", SKIP |-> "skipped"]

KnownSlugs ==
  [fmt |-> "fmt_clean", clippy |-> "lint_clean", build |-> "builds",
   check |-> "builds", test |-> "tests_pass", doc |-> "docs_build",
   deny |-> "dependency_policy_passes", determinism |-> "deterministic",
   gpu |-> "cpu_gpu_parity"]

SlugOf(gate) == IF gate.id \in DOMAIN KnownSlugs THEN KnownSlugs[gate.id] ELSE gate.id

SummaryAttachment == "logs/scirust-summary.txt"

(* One read of the summary, and no look at what kind of file it is.        *)
Looks == <<1>>

(* parse: one line of another shape, of an unknown key, status or verdict  *)
(* refuses the whole summary.                                              *)
LineParses(line) ==
  \/ line.key \in {"blank", "metadata"}
  \/ line.key = "verdict" /\ line.value \in {"PASS", "PASS_WITH_GAPS", "FAIL"}
  \/ line.key = "gate" /\ line.gate.status \in GateStatus

Parses(summary) == \A i \in DOMAIN summary : LineParses(summary[i])

(* The gates, in the order of their lines.                                 *)
GateLines(summary) == {l \in DOMAIN summary : summary[l].key = "gate"}

Gates(summary) ==
  [i \in 1..Cardinality(GateLines(summary)) |->
     summary[CHOOSE l \in GateLines(summary) :
               Cardinality({k \in GateLines(summary) : k < l}) = i - 1].gate]

(* claim_map: the level of a slug is that of its most demanding gate.  The *)
(* verdict it combines too is not used by the import.                      *)
SlugIsRequired(gates, slug) ==
  \E i \in DOMAIN gates : SlugOf(gates[i]) = slug /\ gates[i].required

ClaimOf(gate) == <<SlugOf(gate), gate.id>>

CheckOf(gate) == <<"scirust", gate.id>>

LevelOf(gates, gate) ==
  IF SlugIsRequired(gates, SlugOf(gate)) THEN "required" ELSE "optional"

(* The gate found for the i-th check, looked up by its name: the first one *)
(* of that name.                                                           *)
FoundGate(gates, i) ==
  gates[CHOOSE j \in DOMAIN gates :
          gates[j].id = gates[i].id /\ \A k \in 1..(j - 1) : gates[k].id # gates[i].id]

(* One record per gate, after and derived from the one of the summary.     *)
GateEvidence(gates) ==
  [i \in DOMAIN gates |->
     [attachments |-> {}, derived_from |-> {EvidenceName[1]}, inputs |-> <<>>,
      facts |-> [gate |-> gates[i].id, status |-> FoundGate(gates, i).status]]]

SummaryEvidence(summary) ==
  [attachments |-> {[path |-> SummaryAttachment, payload |-> summary.bytes]},
   derived_from |-> {}, inputs |-> <<>>, facts |-> <<>>]

GateExecutions(gates) ==
  [i \in DOMAIN gates |->
     [check |-> CheckOf(gates[i]), evidence_ids |-> {EvidenceName[i + 1]},
      outcome |-> ToVerdict[FoundGate(gates, i).status]]]

(* The chain of conditions at the end of ingest, over the outcomes of the  *)
(* executions that support a claim.                                        *)
CombinedVerdict(outcomes) ==
  CASE outcomes = {} -> "not_verified"
    [] "failed" \in outcomes -> "failed"
    [] outcomes # {} /\ "failed" \notin outcomes /\ "not_verified" \in outcomes -> "not_verified"
    [] "verified" \in outcomes /\ outcomes \cap {"failed", "not_verified"} = {} -> "verified"
    [] outcomes = {"unsupported"} -> "unsupported"
    [] OTHER -> "skipped"

Evaluations(gates) ==
  LET executions == GateExecutions(gates)
  IN {[claim |-> ClaimOf(gates[i]), level |-> LevelOf(gates, gates[i]),
       verdict |-> CombinedVerdict({executions[j].outcome :
                     j \in {k \in DOMAIN gates : ClaimOf(gates[k]) = ClaimOf(gates[i])}})]
      : i \in DOMAIN gates}

(* ingest_scirust refuses what cannot be read or parsed.                   *)
Accepts(seen) == Doc(seen[1]).utf8 /\ Parses(Doc(seen[1]).lines)

Documents(seen) ==
  LET gates == Gates(Doc(seen[1]).lines)
  IN [artifact |-> [content_digest |-> <<>>],
      plan |-> [checks |-> [k \in {CheckOf(gates[i]) : i \in DOMAIN gates} |->
                  {ClaimOf(gates[i]) : i \in {j \in DOMAIN gates : CheckOf(gates[j]) = k}}],
                sound |-> TRUE],
      claims |-> [claims |-> {ClaimOf(gates[i]) : i \in DOMAIN gates}],
      evidence |-> <<SummaryEvidence(seen[1])>> \o GateEvidence(gates),
      handed |-> [p \in {SummaryAttachment} |-> seen[1].bytes],
      executions |-> GateExecutions(gates),
      evaluations |-> Evaluations(gates)]

(* overall_from_evals, and the exit code ingest_scirust makes of it.       *)
OverallVerdict(evaluations) ==
  AggregateDossierVerdict({[level |-> e.level, verdict |-> e.verdict] : e \in evaluations})

ExitCode(evaluations) == IF ExitSuccess(OverallVerdict(evaluations)) THEN 0 ELSE 1

=============================================================================
