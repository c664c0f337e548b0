-------------------------- MODULE DeterminismProofs --------------------------
(***************************************************************************)
(* Proofs about Determinism, for any configuration, any program and any    *)
(* number of executions: `verified` is earned, and the evidence is enough  *)
(* to come to the outcome again.                                           *)
(***************************************************************************)
EXTENDS Determinism, FiniteSetTheorems, SequenceTheorems, TLAPS

-----------------------------------------------------------------------------
(* The inductive invariant.                                                *)

Indices == 1..Len(executions)

WithExit(exit) == {i \in Indices : executions[i].exit = exit}

IsRecordOf(record, x) ==
  record = [label |-> x.label, digest |-> x.head, status |-> StatusOf(x.exit)]

TypeOK ==
  /\ config \in Configurations
  /\ executions \in Seq([label : {Labels[i] : i \in 1..Len(Labels)}, exit : ExitStatus,
                         head : Captured])
  /\ records \in Seq([label : {Labels[i] : i \in 1..Len(Labels)}, digest : Captured,
                      status : {"ok", "failed", "timed_out"}])
  /\ tally \in [all_ok : BOOLEAN, any_timeout : BOOLEAN, successful_runs : Nat]
  /\ outcome \in Verdict \cup {"pipeline_failure", NotYet}

(* Every execution has its record, and the tally counts them.              *)
RecordsAreTrue ==
  /\ Len(records) = Len(executions)
  /\ \A i \in Indices : IsRecordOf(records[i], executions[i])
  /\ tally.all_ok <=> \A i \in Indices : executions[i].exit = "zero"
  /\ tally.any_timeout <=> WithExit("timed_out") # {}
  /\ tally.successful_runs = Cardinality(WithExit("zero"))

(* There is a fingerprint for each label that was executed, of what its    *)
(* log holds, until an execution fails half way.                           *)
PrintsAreOfLogs ==
  /\ IsFiniteSet(Values(fingerprints))
  /\ DOMAIN fingerprints = {executions[i].label : i \in Indices}
  /\ outcome # "pipeline_failure" =>
       /\ DOMAIN logs = DOMAIN fingerprints
       /\ \A l \in DOMAIN fingerprints : fingerprints[l] = FingerprintOf(logs[l])

(* The outcome follows from what the comparison was derived from.          *)
OutcomeFollows ==
  outcome \in Verdict =>
    /\ comparison.derived_from = 1..Len(records)
    /\ outcome = Conclude(tally.any_timeout, tally.successful_runs,
                          Cardinality(Values(fingerprints)))
    /\ comparison.status = IF /\ tally.all_ok /\ Cardinality(Values(fingerprints)) = 1
                               /\ tally.successful_runs >= 2
                              THEN "ok" ELSE "failed"

IInv == TypeOK /\ RecordsAreTrue /\ PrintsAreOfLogs /\ OutcomeFollows

-----------------------------------------------------------------------------
(* One more execution.                                                     *)

LEMMA BindValues ==
  ASSUME NEW f, NEW x, NEW y
  PROVE  /\ DOMAIN Bind(f, x, y) = DOMAIN f \cup {x}
         /\ Bind(f, x, y)[x] = y
         /\ \A z \in DOMAIN f \ {x} : Bind(f, x, y)[z] = f[z]
         /\ Values(Bind(f, x, y)) \subseteq Values(f) \cup {y}
BY DEF Bind, Values

LEMMA WithExitGrows ==
  ASSUME TypeOK, NEW x, executions' = Append(executions, x), NEW exit
  PROVE  /\ WithExit(exit)' = WithExit(exit)
                                \cup (IF x.exit = exit THEN {Len(executions) + 1} ELSE {})
         /\ Len(executions) + 1 \notin WithExit(exit)
         /\ IsFiniteSet(WithExit(exit))
         /\ Cardinality(WithExit(exit)') =
              Cardinality(WithExit(exit)) + (IF x.exit = exit THEN 1 ELSE 0)
<1>1. /\ Len(executions) \in Nat /\ Len(executions') = Len(executions) + 1
      /\ executions'[Len(executions) + 1] = x
      /\ \A i \in 1..Len(executions) : executions'[i] = executions[i]
  BY DEF TypeOK
<1>2. WithExit(exit)' = WithExit(exit)
                          \cup (IF x.exit = exit THEN {Len(executions) + 1} ELSE {})
  BY <1>1 DEF WithExit, Indices
<1>3. Len(executions) + 1 \notin WithExit(exit)
  BY <1>1 DEF WithExit, Indices
<1>4. IsFiniteSet(WithExit(exit))
  <2>1. IsFiniteSet(1..Len(executions))
    BY <1>1, FS_Interval
  <2>2. WithExit(exit) \in SUBSET (1..Len(executions))
    BY DEF WithExit, Indices
  <2> QED
    BY <2>1, <2>2, FS_Subset
<1>5. Cardinality(WithExit(exit)') =
        Cardinality(WithExit(exit)) + (IF x.exit = exit THEN 1 ELSE 0)
  <2>1. Cardinality(WithExit(exit)) \in Nat
    BY <1>4, FS_CardinalityType
  <2>2. Cardinality(WithExit(exit) \cup {Len(executions) + 1}) = Cardinality(WithExit(exit)) + 1
    BY <1>3, <1>4, FS_AddElement
  <2>3. CASE x.exit = exit
    BY <1>2, <2>1, <2>2, <2>3
  <2>4. CASE x.exit # exit
    <3>1. WithExit(exit)' = WithExit(exit)
      BY <1>2, <2>4
    <3> QED
      BY <2>1, <2>4, <3>1
  <2> QED
    BY <2>3, <2>4
<1> QED
  BY <1>2, <1>3, <1>4, <1>5

LEMMA ExecuteKeeps ==
  ASSUME IInv, NEW x \in Execution, Execute(x)
  PROVE  IInv'
<1> DEFINE n == Len(executions)
           record == [label |-> x.label, digest |-> x.head, status |-> StatusOf(x.exit)]
<1> USE DEF IInv
<1>1. /\ outcome = NotYet /\ UNCHANGED <<config, comparison, outcome>>
      /\ executions' = Append(executions, x)
      /\ records' = Append(records, record)
      /\ logs' = Bind(logs, x.label, x.head)
      /\ fingerprints' = Bind(fingerprints, x.label, FingerprintOf(x.head))
      /\ tally' = [all_ok |-> tally.all_ok /\ x.exit = "zero",
                   any_timeout |-> tally.any_timeout \/ x.exit = "timed_out",
                   successful_runs |-> tally.successful_runs
                                         + (IF x.exit = "zero" THEN 1 ELSE 0)]
  BY DEF Execute, Executing, Keep, Count
<1>2. Labels' = Labels
  BY <1>1 DEF Labels
<1>3. /\ x \in [label : {Labels[i] : i \in 1..Len(Labels)}, exit : ExitStatus, head : Captured]
      /\ record \in [label : {Labels[i] : i \in 1..Len(Labels)}, digest : Captured,
                     status : {"ok", "failed", "timed_out"}]
  <2>1. x \in [label : {Labels[i] : i \in 1..Len(Labels)}, exit : ExitStatus, head : Captured]
    BY DEF Execution
  <2>2. StatusOf(x.exit) \in {"ok", "failed", "timed_out"}
    BY DEF StatusOf
  <2> QED
    BY <2>1, <2>2
<1>4. TypeOK'
  <2>1. /\ executions' \in Seq([label : {Labels[i] : i \in 1..Len(Labels)},
                                exit : ExitStatus, head : Captured])
        /\ records' \in Seq([label : {Labels[i] : i \in 1..Len(Labels)}, digest : Captured,
                             status : {"ok", "failed", "timed_out"}])
    BY <1>1, <1>3, AppendProperties DEF TypeOK
  <2>2. tally' \in [all_ok : BOOLEAN, any_timeout : BOOLEAN, successful_runs : Nat]
    BY <1>1 DEF TypeOK
  <2> QED
    BY <1>1, <1>2, <2>1, <2>2 DEF TypeOK
<1>5. /\ n \in Nat /\ Len(executions') = n + 1 /\ Indices' = Indices \cup {n + 1}
      /\ executions'[n + 1] = x /\ \A i \in Indices : executions'[i] = executions[i]
      /\ Len(records') = n + 1
      /\ records'[n + 1] = record /\ \A i \in Indices : records'[i] = records[i]
  <2> HIDE DEF record
  <2>1. n \in Nat /\ Len(records) = n
    BY DEF TypeOK, RecordsAreTrue
  <2>2. /\ Len(executions') = n + 1 /\ executions'[n + 1] = x
        /\ \A i \in 1..n : executions'[i] = executions[i]
    BY <1>1 DEF TypeOK
  <2>3. /\ Len(records') = n + 1 /\ records'[n + 1] = record
        /\ \A i \in 1..n : records'[i] = records[i]
    BY <1>1, <2>1 DEF TypeOK
  <2> QED
    BY <2>1, <2>2, <2>3 DEF Indices
<1>6. RecordsAreTrue'
  <2>1. ASSUME NEW i \in Indices' PROVE IsRecordOf(records'[i], executions'[i])
    BY <1>5 DEF RecordsAreTrue, IsRecordOf
  <2>2. tally'.any_timeout <=> WithExit("timed_out")' # {}
    <3>1. WithExit("timed_out")' = WithExit("timed_out")
                                   \cup (IF x.exit = "timed_out" THEN {n + 1} ELSE {})
      BY <1>1, WithExitGrows
    <3> QED
      BY <1>1, <3>1 DEF RecordsAreTrue
  <2>3. tally'.successful_runs = Cardinality(WithExit("zero"))'
    BY <1>1, WithExitGrows DEF RecordsAreTrue
  <2>4. tally'.all_ok <=> \A i \in Indices' : executions'[i].exit = "zero"
    <3>1. tally'.all_ok <=> tally.all_ok /\ x.exit = "zero"
      BY <1>1, Zenon
    <3>2. tally.all_ok <=> \A i \in Indices : executions[i].exit = "zero"
      BY DEF RecordsAreTrue
    <3>3. (\A i \in Indices' : executions'[i].exit = "zero")
             <=> (\A i \in Indices : executions[i].exit = "zero") /\ x.exit = "zero"
      BY <1>5
    <3> QED
      BY <3>1, <3>2, <3>3, Zenon
  <2> QED
    BY <1>5, <2>1, <2>2, <2>3, <2>4 DEF RecordsAreTrue, IsRecordOf
<1>b. /\ DOMAIN fingerprints' = DOMAIN fingerprints \cup {x.label}
      /\ fingerprints'[x.label] = FingerprintOf(x.head)
      /\ \A l \in DOMAIN fingerprints \ {x.label} : fingerprints'[l] = fingerprints[l]
  <2>1. fingerprints' = Bind(fingerprints, x.label, FingerprintOf(x.head))
    BY <1>1
  <2> QED
    BY <2>1 DEF Bind
<1>7. PrintsAreOfLogs'
  <2>1. IsFiniteSet(Values(fingerprints'))
    <3>1. IsFiniteSet(Values(fingerprints) \cup {FingerprintOf(x.head)})
      BY FS_AddElement DEF PrintsAreOfLogs
    <3>2. Values(fingerprints') \subseteq Values(fingerprints) \cup {FingerprintOf(x.head)}
      BY <1>1, BindValues
    <3> QED
      BY <3>1, <3>2, FS_Subset
  <2>2. DOMAIN fingerprints' = {executions'[i].label : i \in Indices'}
    <3>1. DOMAIN fingerprints' = DOMAIN fingerprints \cup {x.label}
      BY <1>b
    <3>2. DOMAIN fingerprints = {executions[i].label : i \in Indices}
      BY DEF PrintsAreOfLogs
    <3>3. {executions'[i].label : i \in Indices'}
            = {executions[i].label : i \in Indices} \cup {x.label}
      BY <1>5
    <3> QED
      BY <3>1, <3>2, <3>3
  <2>3. /\ DOMAIN logs' = DOMAIN fingerprints'
        /\ \A l \in DOMAIN fingerprints' : fingerprints'[l] = FingerprintOf(logs'[l])
    <3>1. DOMAIN logs = DOMAIN fingerprints
          /\ \A l \in DOMAIN fingerprints : fingerprints[l] = FingerprintOf(logs[l])
      BY <1>1, DeterminismAssumption DEF PrintsAreOfLogs
    <3>2. /\ DOMAIN logs' = DOMAIN logs \cup {x.label} /\ logs'[x.label] = x.head
          /\ \A l \in DOMAIN logs \ {x.label} : logs'[l] = logs[l]
      <4>1. logs' = Bind(logs, x.label, x.head)
        BY <1>1
      <4> QED
        BY <4>1 DEF Bind
    <3> QED
      BY <1>b, <3>1, <3>2
  <2>4. \A h : FingerprintOf(h)' = FingerprintOf(h)
    BY <1>1 DEF FingerprintOf
  <2> QED
    BY <2>1, <2>2, <2>3, <2>4 DEF PrintsAreOfLogs, FingerprintOf
<1>8. OutcomeFollows'
  BY <1>1, DeterminismAssumption DEF OutcomeFollows
<1> QED
  BY <1>4, <1>6, <1>7, <1>8

-----------------------------------------------------------------------------
(* The theorems.                                                           *)

LEMMA InitKeeps == Init => IInv
<1> SUFFICES ASSUME Init PROVE IInv
  OBVIOUS
<1> USE DEF Init
<1>1. Len(executions) = 0 /\ Indices = {} /\ \A exit : WithExit(exit) = {}
  BY DEF Indices, WithExit
<1>2. TypeOK
  BY DEF TypeOK
<1>3. RecordsAreTrue
  BY <1>1, FS_EmptySet DEF RecordsAreTrue
<1>4. Values(fingerprints) = {}
  BY DEF Values
<1>5. PrintsAreOfLogs
  <2>1. DOMAIN fingerprints = {} /\ DOMAIN logs = {}
    OBVIOUS
  <2>2. {executions[i].label : i \in Indices} = {}
    BY <1>1
  <2> QED
    BY <1>4, <2>1, <2>2, FS_EmptySet DEF PrintsAreOfLogs
<1>6. OutcomeFollows
  BY DeterminismAssumption DEF OutcomeFollows
<1> QED
  BY <1>2, <1>3, <1>5, <1>6 DEF IInv

LEMMA NextKeeps == IInv /\ [Next]_vars => IInv'
<1> SUFFICES ASSUME IInv, [Next]_vars PROVE IInv'
  OBVIOUS
<1>1. ASSUME NEW x \in Execution, Execute(x) PROVE IInv'
  BY <1>1, ExecuteKeeps
<1>2. CASE Abort
  <2>1. /\ outcome' = "pipeline_failure"
        /\ UNCHANGED <<config, executions, records, fingerprints, tally, comparison>>
    BY <1>2 DEF Abort
  <2>a. Labels' = Labels
    BY <2>1 DEF Labels
  <2>2. TypeOK' /\ RecordsAreTrue'
    <3>1. TypeOK'
      BY <2>1, <2>a DEF IInv, TypeOK
    <3>2. RecordsAreTrue'
      BY <2>1 DEF IInv, RecordsAreTrue, Indices, WithExit, IsRecordOf
    <3> QED
      BY <3>1, <3>2
  <2>3. PrintsAreOfLogs' /\ OutcomeFollows'
    BY <2>1 DEF IInv, PrintsAreOfLogs, OutcomeFollows, Values, Indices, Verdict
  <2> QED
    BY <2>2, <2>3 DEF IInv
<1>3. CASE Compare
  <2>1. /\ UNCHANGED <<config, executions, logs, records, fingerprints, tally>>
        /\ comparison'.derived_from = 1..Len(records)
        /\ outcome = NotYet
        /\ outcome' = Conclude(tally.any_timeout, tally.successful_runs,
                               Cardinality(Values(fingerprints)))
        /\ comparison'.status = IF /\ tally.all_ok /\ Cardinality(Values(fingerprints)) = 1
                                   /\ tally.successful_runs >= 2
                                  THEN "ok" ELSE "failed"
    BY <1>3 DEF Compare, Inputs
  <2>2. outcome' \in Verdict
    BY <2>1 DEF Conclude, Verdict
  <2>a. Labels' = Labels
    BY <2>1 DEF Labels
  <2>3. TypeOK' /\ RecordsAreTrue'
    <3>1. TypeOK'
      BY <2>1, <2>2, <2>a DEF IInv, TypeOK
    <3>2. RecordsAreTrue'
      BY <2>1 DEF IInv, RecordsAreTrue, Indices, WithExit, IsRecordOf
    <3> QED
      BY <3>1, <3>2
  <2>4. PrintsAreOfLogs'
    BY <2>1, <2>2, DeterminismAssumption
    DEF IInv, PrintsAreOfLogs, Values, Indices, FingerprintOf
  <2>5. OutcomeFollows'
    BY <2>1 DEF OutcomeFollows, Values
  <2> QED
    BY <2>3, <2>4, <2>5 DEF IInv
<1>4. CASE UNCHANGED vars
  <2>1. Labels' = Labels
    BY <1>4 DEF vars, Labels
  <2>2. TypeOK' /\ RecordsAreTrue'
    <3>1. TypeOK'
      BY <1>4, <2>1 DEF vars, IInv, TypeOK
    <3>2. RecordsAreTrue'
      BY <1>4 DEF vars, IInv, RecordsAreTrue, Indices, WithExit, IsRecordOf
    <3> QED
      BY <3>1, <3>2
  <2>3. PrintsAreOfLogs' /\ OutcomeFollows'
    BY <1>4 DEF vars, IInv, PrintsAreOfLogs, OutcomeFollows, Indices, Values, FingerprintOf
  <2> QED
    BY <2>2, <2>3 DEF IInv
<1> QED
  BY <1>1, <1>2, <1>3, <1>4 DEF Next, Finished

(* Every execution has a true record and counts once, and the outcome      *)
(* follows from them, in every reachable state.                            *)
THEOREM RecordsHold == Spec => []IInv
BY InitKeeps, NextKeeps, PTL DEF Spec

LEMMA LogsTellPrints ==
  ASSUME IInv, outcome \in Verdict, LogsIntact, NEW i \in Indices
  PROVE  /\ executions[i].label \in DOMAIN fingerprints
         /\ FingerprintOf(logs[records[i].label]) = fingerprints[executions[i].label]
         /\ FingerprintOf(executions[i].head) = fingerprints[executions[i].label]
<1>1. records[i].label = executions[i].label /\ records[i].digest = executions[i].head
  <2>1. IsRecordOf(records[i], executions[i])
    BY DEF IInv, RecordsAreTrue
  <2> QED
    BY <2>1 DEF IsRecordOf
<1>2. logs[records[i].label] = records[i].digest
  BY DEF LogsIntact, IInv, RecordsAreTrue, Indices
<1>3. executions[i].label \in DOMAIN fingerprints /\ outcome # "pipeline_failure"
  BY DEF IInv, PrintsAreOfLogs, Verdict
<1> QED
  BY <1>1, <1>2, <1>3 DEF IInv, PrintsAreOfLogs

LEMMA ConcludeVerified ==
  ASSUME NEW any_timeout \in BOOLEAN, NEW successful_runs \in Nat, NEW distinct,
         Conclude(any_timeout, successful_runs, distinct) = "verified"
  PROVE  ~any_timeout /\ ~(successful_runs < 2) /\ distinct = 1
BY DEF Conclude

(* In a run that can be sealed `verified` is earned: no execution timed    *)
(* out, two succeeded, the outputs of all were the same, where structured  *)
(* ones that do not parse are the same as each other and as nothing else,  *)
(* and an execution that failed shows in the evidence of the comparison.   *)
THEOREM VerifiedMeansDeterministic == Spec => []VerifiedIsEarned
<1>1. IInv => VerifiedIsEarned
  <2> SUFFICES ASSUME IInv, outcome = "verified", LogsIntact
               PROVE  /\ \A i \in Indices : executions[i].exit # "timed_out"
                      /\ Cardinality(WithExit("zero")) >= 2
                      /\ \A i, j \in Indices :
                           /\ SameOutput(executions[i], executions[j])
                           /\ config.mode = "structured" =>
                                (Parses(executions[i].head) <=> Parses(executions[j].head))
                      /\ comparison.status = "ok"
                           <=> \A i \in Indices : executions[i].exit = "zero"
    BY DEF VerifiedIsEarned, Indices, WithExit
  <2>1. /\ outcome \in Verdict
        /\ Conclude(tally.any_timeout, tally.successful_runs,
                    Cardinality(Values(fingerprints))) = "verified"
    BY DEF IInv, OutcomeFollows, Verdict
  <2>2. /\ ~tally.any_timeout /\ ~(tally.successful_runs < 2)
        /\ Cardinality(Values(fingerprints)) = 1
    BY <2>1, ConcludeVerified DEF IInv, TypeOK
  <2>3. PICK value : Values(fingerprints) = {value}
    BY <2>2, FS_Singleton DEF IInv, PrintsAreOfLogs
  <2>4. \A i, j \in Indices :
          FingerprintOf(executions[i].head) = FingerprintOf(executions[j].head)
    BY <2>1, <2>3, LogsTellPrints DEF Values
  <2>5. \A i, j \in Indices :
          /\ SameOutput(executions[i], executions[j])
          /\ config.mode = "structured" =>
               (Parses(executions[i].head) <=> Parses(executions[j].head))
    BY <2>4 DEF FingerprintOf, SameOutput, Parses
  <2>6. comparison.status = "ok" <=> tally.all_ok
    BY <2>1, <2>2 DEF IInv, OutcomeFollows, TypeOK
  <2> QED
    BY <2>2, <2>5, <2>6 DEF IInv, RecordsAreTrue, WithExit, TypeOK
<1> QED
  BY <1>1, RecordsHold, PTL

(* The evidence of such a run is enough to come to its outcome again.      *)
THEOREM EvidenceIsEnough == Spec => []EvidenceSupportsOutcome
<1>1. IInv => EvidenceSupportsOutcome
  <2> DEFINE With(status) == {i \in comparison.derived_from : records[i].status = status}
             prints == {FingerprintOf(logs[records[i].label]) : i \in comparison.derived_from}
  <2> SUFFICES ASSUME IInv, outcome \in Verdict, LogsIntact
               PROVE  outcome = Conclude(With("timed_out") # {}, Cardinality(With("ok")),
                                         Cardinality(prints))
    BY DEF EvidenceSupportsOutcome
  <2>1. comparison.derived_from = Indices
    BY DEF IInv, OutcomeFollows, RecordsAreTrue, Indices
  <2>2. ASSUME NEW i \in Indices PROVE records[i].status = StatusOf(executions[i].exit)
    <3>1. IsRecordOf(records[i], executions[i])
      BY DEF IInv, RecordsAreTrue
    <3> QED
      BY <3>1 DEF IsRecordOf
  <2>3. \A exit : /\ StatusOf(exit) = "timed_out" <=> exit = "timed_out"
                  /\ StatusOf(exit) = "ok" <=> exit = "zero"
    BY DEF StatusOf
  <2>4. With("timed_out") = WithExit("timed_out") /\ With("ok") = WithExit("zero")
    BY <2>1, <2>2, <2>3 DEF WithExit
  <2>5. prints = Values(fingerprints)
    <3>1. DOMAIN fingerprints = {executions[i].label : i \in Indices}
      BY DEF IInv, PrintsAreOfLogs
    <3>2. \A i \in Indices :
            FingerprintOf(logs[records[i].label]) = fingerprints[executions[i].label]
      BY LogsTellPrints
    <3> QED
      BY <2>1, <3>1, <3>2 DEF Values
  <2>6. outcome = Conclude(tally.any_timeout, tally.successful_runs,
                           Cardinality(Values(fingerprints)))
    BY DEF IInv, OutcomeFollows
  <2>7. tally.any_timeout = (WithExit("timed_out") # {})
        /\ tally.successful_runs = Cardinality(WithExit("zero"))
    BY DEF IInv, RecordsAreTrue, TypeOK
  <2> HIDE DEF With, prints
  <2> QED
    BY <2>4, <2>5, <2>6, <2>7
<1> QED
  BY RecordsHold, <1>1, PTL

=============================================================================
