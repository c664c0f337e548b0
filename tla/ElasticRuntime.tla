--------------------------- MODULE ElasticRuntime ---------------------------
(***************************************************************************)
(* The ElasticXxx bridge: which runtime evidence it accepts                *)
(* (adapters/elastic_runtime.rs), and the documents its program writes     *)
(* about it (elastic_runtime_main.rs).                                     *)
(***************************************************************************)
EXTENDS ToolEvidence

Looks == <<1, 1>>

EventKindPresent(events, kind) == \E i \in DOMAIN events : events[i] = kind

(* A cycle says what it decided, and its events say what was executed.     *)
CycleIsCoherent(cycle) ==
  /\ ~(cycle.committed /\ cycle.rolled_back)
  /\ Len(cycle.events) <= ItemLimit
  /\ cycle.committed = EventKindPresent(cycle.events, "CommitExecuted")
  /\ cycle.rolled_back = EventKindPresent(cycle.events, "RollbackExecuted")

ResourceIds(controllers) == [i \in DOMAIN controllers |-> controllers[i].resource]

(* ingest_value: what it refuses.  envelope stands for the schema, the     *)
(* command, the source and the version, which have one value each.         *)
Conforms(result) ==
  /\ result.envelope
  /\ IsListWithin(ResourceIds(result.controllers), 0)
  /\ \A i \in DOMAIN result.controllers :
       LET controller == result.controllers[i]
       IN /\ Len(controller.events) <= ItemLimit
          /\ Len(controller.cycles) <= ItemLimit
          /\ \A j \in DOMAIN controller.cycles : CycleIsCoherent(controller.cycles[j])

Cycles(result) ==
  {c \in (DOMAIN result.controllers) \X (1..ItemLimit) :
     c[2] \in DOMAIN result.controllers[c[1]].cycles}

CycleAt(result, c) == result.controllers[c[1]].cycles[c[2]]

(* ingest_value: what it counts, from the flags of the cycles.             *)
Counts(result) ==
  [commits |-> Cardinality({c \in Cycles(result) : CycleAt(result, c).committed}),
   rollbacks |-> Cardinality({c \in Cycles(result) : CycleAt(result, c).rolled_back})]

(* ingest_elastic_runtime                                                  *)
Accepts(seen) ==
  /\ LooksRegular(seen[1]) /\ ReadsBounded(seen[2])
  /\ Doc(seen[2]).json
  /\ Conforms(Doc(seen[2]))

Evidence(seen) ==
  [attachments |-> {}, derived_from |-> {},
   inputs |-> <<Digest(seen[2])>>,
   facts |-> Counts(Doc(seen[2]))]

Check == "elastic-runtime:evidence-v1"
Claim == "elastic_runtime_evidence_contract"

Documents(seen) ==
  OneClaimDocuments(Check, Claim, Digest(seen[2]), Evidence(seen), NoPayload)

=============================================================================
