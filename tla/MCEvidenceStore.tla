-------------------------- MODULE MCEvidenceStore --------------------------
(* Values for TLC of the constants of EvidenceStore.                       *)
EXTENDS EvidenceStore, TLC

CONSTANTS e1, e2, l1, b1, b2, k1, c1

(* One check with a log: what a command check leaves in the store.         *)
OnePlan == {[checks |-> [k \in {k1} |-> {c1}], sound |-> TRUE]}
OneClaimSet == {[claims |-> {c1}]}
OneExecution == {[check |-> k1, evidence_ids |-> {e1}]}
LogRecord == {[e \in EvidenceIds |->
  [attachments |-> {[path |-> l1, payload |-> b1]}, derived_from |-> {}]]}

(* Two records that compete for one id.                                    *)
TwoRecords == LogRecord \cup {[e \in EvidenceIds |-> [attachments |-> {}, derived_from |-> {}]]}

NoExecutions == {[executions |-> {}]}

(* Documents finalize must refuse, beside those it accepts.                *)
AnyPlan == {[checks |-> [k \in {k1} |-> {c1}], sound |-> s] : s \in BOOLEAN}
AnyClaimSet == {[claims |-> {c1}], [claims |-> {}]}
TwoExecutions == OneExecution \cup {[check |-> k1, evidence_ids |-> {}]}

(* Two records that name the same log with different bytes, as two checks  *)
(* whose names sanitize to one file do; the second derives from the first. *)
SharedLog == {[e \in EvidenceIds |->
  [attachments |-> {[path |-> l1, payload |-> IF e = e1 THEN b1 ELSE b2]},
   derived_from |-> d[e]]] : d \in [EvidenceIds -> {{}, {e1}}]}

(* One order for every traversal, or one in which only the files nobody    *)
(* else writes are ordered, and come first.                                *)
Listing == <<"run.json", "artifact.json", "plan.json", "claims.json",
             "executions.json", "leftover.tmp", e1, e2, l1, "report.md">>
Position(p) == CHOOSE i \in DOMAIN Listing : Listing[i] = p
InListingOrder == {x \in Path \X Path : Position(x[1]) < Position(x[2])}
StrayableLast == {x \in InListingOrder : x[1] \notin Strayable}

=============================================================================
