------------------------- MODULE CommandCheckProofs -------------------------
(***************************************************************************)
(* Proofs about CommandChecks, for every set of projects, every float      *)
(* format and every number of failing calls: its types, that the logs of a *)
(* finalized run are those of its own commands, and that the outcome of a  *)
(* check follows from what its command wrote.  The lemmas about numbers,   *)
(* sequences and floats come first where they are needed: natural          *)
(* induction is proved from the pigeonhole principle, and the laws of the  *)
(* powers of two from counting subsets.                                    *)
(***************************************************************************)
EXTENDS CommandChecks, FiniteSetTheorems, FunctionTheorems, TLAPS

IsSequence(s) == \E S : s \in Seq(S)

(* The histories grow together.                                            *)
Shape ==
  /\ project \in Projects
  /\ IsSequence(ran) /\ IsSequence(executions) /\ IsSequence(evidence)
  /\ Len(ran) = Len(executions)
  /\ Len(executions) <= Len(project.checks)
  /\ Len(evidence) <= Len(ran)
  /\ run \in {"running", "aborted", "finalized", "refused"}
  /\ faults \in 0..MaxFaults

(* Every outcome is a verdict.                                             *)
Outcomes == \A i \in 1..Len(executions) : executions[i].outcome \in Verdict

(* A command that ran has a record, of its own output at its own path.     *)
HasRecord(i) ==
  \E k \in 1..Len(evidence) :
    /\ evidence[k].attachment.path = LogPath(project.checks[i].id)
    /\ evidence[k].attachment.digest = ran[i].captured.lines

Recorded == \A i \in 1..Len(ran) : HasRun(i) => HasRecord(i)

(* What is finalized was found intact.                                     *)
Intact == run = "finalized" => \A k \in 1..Len(evidence) : IsIntact(evidence[k])

IInv == Shape /\ Outcomes /\ Recorded /\ Intact

(* The end of a sequence that grows by one.                                *)
LEMMA Grown ==
  ASSUME NEW s, IsSequence(s), NEW x
  PROVE  /\ IsSequence(Append(s, x))
         /\ Len(s) \in Nat
         /\ Len(Append(s, x)) = Len(s) + 1
         /\ DOMAIN Append(s, x) = 1..(Len(s) + 1)
         /\ Append(s, x)[Len(s) + 1] = x
         /\ \A i \in 1..Len(s) : Append(s, x)[i] = s[i]
<1>1. PICK S : s \in Seq(S) BY DEF IsSequence
<1>2. s \in Seq(S \cup {x}) BY <1>1
<1>3. Append(s, x) \in Seq(S \cup {x}) BY <1>2
<1> QED BY <1>1, <1>2, <1>3 DEF IsSequence

(* What an exit is taken for is a verdict.                                 *)
LEMMA ExitsAreVerdicts ==
  ASSUME NEW check, NEW exit, NEW lines
  PROVE  Execution(check, exit, lines).outcome \in Verdict
<1>1. \A expect : InterpretExit(exit, expect) \in Verdict
  BY Zenon DEF InterpretExit, Verdict
<1>2. \A expect, contradicted : CommandOutcome(exit, expect, contradicted) \in Verdict
  BY <1>1, Zenon DEF CommandOutcome, Verdict
<1> QED BY <1>1, <1>2 DEF Execution, Judged, Counted

LEMMA InitialStates == Init => IInv
<1> SUFFICES ASSUME Init PROVE IInv OBVIOUS
<1>1. IsSequence(<<>>)
  <2>1. <<>> \in Seq({}) OBVIOUS
  <2> QED BY <2>1 DEF IsSequence
<1>2. Len(project.checks) >= 0
  BY ProjectsAreWellFormed DEF Init
<1>3. Shape
  BY <1>1, <1>2, ProjectsAreWellFormed DEF Init, Shape
<1>4. Outcomes /\ Recorded /\ Intact
  BY DEF Init, Outcomes, Recorded, Intact
<1> QED BY <1>3, <1>4 DEF IInv

(* A command that ran is recorded last, and the records before it stay.    *)
LEMMA ExecutionsAreRecorded ==
  ASSUME IInv, NEW exit, NEW lines, ExecuteCommand(exit, lines)
  PROVE  IInv'
<1>1. PICK capture \in Captures(lines) :
        /\ ran' = Append(ran, [exit |-> exit, wrote |-> lines, captured |-> capture])
        /\ evidence' = Append(evidence, Record(CurrentCheck, exit, capture))
        /\ executions' = Append(executions, Execution(CurrentCheck, exit, capture.lines))
  BY DEF ExecuteCommand
<1>2. /\ run = "running" /\ Len(executions) < Len(project.checks)
      /\ project' = project /\ run' = run /\ faults' = faults
  BY DEF ExecuteCommand, IsExecuting
<1>3. /\ IsSequence(ran) /\ IsSequence(executions) /\ IsSequence(evidence)
      /\ Len(ran) = Len(executions)
  BY DEF IInv, Shape
<1>4. /\ IsSequence(ran') /\ Len(ran') = Len(ran) + 1 /\ Len(ran) \in Nat
      /\ ran'[Len(ran) + 1] = [exit |-> exit, wrote |-> lines, captured |-> capture]
      /\ \A i \in 1..Len(ran) : ran'[i] = ran[i]
  BY <1>1, <1>3, Grown
<1>5. /\ IsSequence(executions') /\ Len(executions') = Len(executions) + 1
      /\ executions'[Len(executions) + 1] = Execution(CurrentCheck, exit, capture.lines)
      /\ \A i \in 1..Len(executions) : executions'[i] = executions[i]
  BY <1>1, <1>3, Grown
<1>6. /\ IsSequence(evidence') /\ Len(evidence') = Len(evidence) + 1 /\ Len(evidence) \in Nat
      /\ evidence'[Len(evidence) + 1] = Record(CurrentCheck, exit, capture)
      /\ \A i \in 1..Len(evidence) : evidence'[i] = evidence[i]
  BY <1>1, <1>3, Grown
<1>7. Shape'
  <2>1. Len(project.checks) \in Nat
    BY ProjectsAreWellFormed DEF IInv, Shape
  <2> QED BY <1>2, <1>3, <1>4, <1>5, <1>6, <2>1 DEF IInv, Shape
<1>8. Outcomes'
  <2> SUFFICES ASSUME NEW i \in 1..Len(executions') PROVE executions'[i].outcome \in Verdict
    BY DEF Outcomes
  <2>1. CASE i \in 1..Len(executions) BY <1>5, <2>1 DEF IInv, Outcomes
  <2>2. CASE i = Len(executions) + 1 BY <1>5, <2>2, ExitsAreVerdicts
  <2> QED BY <1>3, <1>4, <1>5, <2>1, <2>2
<1>9. Recorded'
  <2> SUFFICES ASSUME NEW i \in 1..Len(ran'), HasRun(i)'
               PROVE  HasRecord(i)'
    BY DEF Recorded
  <2>1. CASE i \in 1..Len(ran)
    <3>1. HasRun(i) BY <1>4, <2>1 DEF HasRun
    <3>2. PICK k \in 1..Len(evidence) :
            /\ evidence[k].attachment.path = LogPath(project.checks[i].id)
            /\ evidence[k].attachment.digest = ran[i].captured.lines
      BY <2>1, <3>1 DEF IInv, Recorded, HasRecord
    <3>3. evidence'[k] = evidence[k] /\ ran'[i] = ran[i] BY <1>4, <1>6, <2>1
    <3>4. k \in 1..Len(evidence') BY <1>6
    <3> QED BY <1>2, <3>2, <3>3, <3>4 DEF HasRecord
  <2>2. CASE i = Len(ran) + 1
    <3>1. CurrentCheck = project.checks[i] BY <1>3, <2>2 DEF CurrentCheck
    <3>2. /\ evidence'[Len(evidence) + 1].attachment.path = LogPath(project.checks[i].id)
          /\ evidence'[Len(evidence) + 1].attachment.digest = capture.lines
      BY <1>6, <3>1 DEF Record
    <3>3. ran'[i].captured.lines = capture.lines BY <1>4, <2>2
    <3>4. Len(evidence) + 1 \in 1..Len(evidence') BY <1>6
    <3> QED BY <1>2, <3>2, <3>3, <3>4 DEF HasRecord
  <2> QED BY <1>4, <2>1, <2>2
<1>10. Intact'
  BY <1>2 DEF Intact
<1> QED BY <1>7, <1>8, <1>9, <1>10 DEF IInv

(* A check that is skipped did not run.                                    *)
LEMMA SkippedChecksHaveNotRun ==
  ASSUME IInv, SkipCommand
  PROVE  IInv'
<1>1. /\ ran' = Append(ran, [exit |-> Nothing])
      /\ executions' = Append(executions, [outcome |-> "skipped", observations |-> <<>>])
      /\ run = "running" /\ Len(executions) < Len(project.checks)
      /\ project' = project /\ run' = run /\ faults' = faults /\ evidence' = evidence
  BY DEF SkipCommand, IsExecuting
<1>2. /\ IsSequence(ran) /\ IsSequence(executions)
      /\ Len(ran) = Len(executions)
  BY DEF IInv, Shape
<1>3. /\ IsSequence(ran') /\ Len(ran') = Len(ran) + 1 /\ Len(ran) \in Nat
      /\ ran'[Len(ran) + 1] = [exit |-> Nothing]
      /\ \A i \in 1..Len(ran) : ran'[i] = ran[i]
  BY <1>1, <1>2, Grown
<1>4. /\ IsSequence(executions') /\ Len(executions') = Len(executions) + 1
      /\ executions'[Len(executions) + 1] = [outcome |-> "skipped", observations |-> <<>>]
      /\ \A i \in 1..Len(executions) : executions'[i] = executions[i]
  BY <1>1, <1>2, Grown
<1>5. Shape'
  <2>1. Len(project.checks) \in Nat /\ IsSequence(evidence) /\ Len(evidence) <= Len(ran)
    BY ProjectsAreWellFormed DEF IInv, Shape
  <2>2. Len(evidence) \in Nat BY <2>1 DEF IsSequence
  <2> QED BY <1>1, <1>2, <1>3, <1>4, <2>1, <2>2 DEF IInv, Shape
<1>6. Outcomes'
  <2> SUFFICES ASSUME NEW i \in 1..Len(executions') PROVE executions'[i].outcome \in Verdict
    BY DEF Outcomes
  <2>1. CASE i \in 1..Len(executions) BY <1>4, <2>1 DEF IInv, Outcomes
  <2>2. CASE i = Len(executions) + 1 BY <1>4, <2>2 DEF Verdict
  <2> QED BY <1>2, <1>3, <1>4, <2>1, <2>2
<1>7. Recorded'
  <2> SUFFICES ASSUME NEW i \in 1..Len(ran'), HasRun(i)'
               PROVE  HasRecord(i)'
    BY DEF Recorded
  <2>1. i # Len(ran) + 1 BY <1>3 DEF HasRun
  <2>2. i \in 1..Len(ran) BY <1>3, <2>1
  <2>3. HasRun(i) /\ ran'[i] = ran[i] BY <1>3, <2>2 DEF HasRun
  <2>4. HasRecord(i) BY <2>2, <2>3 DEF IInv, Recorded
  <2> QED BY <1>1, <2>3, <2>4 DEF HasRecord
<1>8. Intact'
  BY <1>1 DEF Intact
<1> QED BY <1>5, <1>6, <1>7, <1>8 DEF IInv

(* The inductive invariant.                                                *)
LEMMA Invariance == IInv /\ [Next]_vars => IInv'
<1> SUFFICES ASSUME IInv, [Next]_vars PROVE IInv' OBVIOUS
<1>1. ASSUME NEW end \in project.ends, ExecuteCommand(end.exit, end.lines) PROVE IInv'
  BY <1>1, ExecutionsAreRecorded
<1>2. CASE SkipCommand
  BY <1>2, SkippedChecksHaveNotRun
<1>3. CASE AbortRun
  <2>1. /\ UNCHANGED <<project, ran, evidence, executions>>
        /\ run' = "aborted" /\ faults < MaxFaults /\ faults' = faults + 1
    BY <1>3 DEF AbortRun
  <2>2. Shape'
    BY <2>1, ProjectsAreWellFormed DEF IInv, Shape
  <2>3. Outcomes' /\ Recorded' /\ Intact'
    BY <2>1 DEF IInv, Outcomes, Recorded, HasRun, HasRecord, Intact
  <2> QED BY <2>2, <2>3 DEF IInv
<1>4. CASE Finalize
  <2>1. /\ UNCHANGED <<project, ran, logs, evidence, executions, faults>>
        /\ \/ run' = "refused"
           \/ run' = "finalized" /\ \A k \in DOMAIN evidence : IsIntact(evidence[k])
    BY <1>4 DEF Finalize
  <2>2. Shape'
    BY <2>1 DEF IInv, Shape
  <2>3. Outcomes' /\ Recorded'
    BY <2>1 DEF IInv, Outcomes, Recorded, HasRun, HasRecord
  <2>4. DOMAIN evidence = 1..Len(evidence)
    BY DEF IInv, Shape, IsSequence
  <2>5. Intact'
    BY <2>1, <2>4 DEF Intact, IsIntact
  <2> QED BY <2>2, <2>3, <2>5 DEF IInv
<1>5. CASE UNCHANGED vars
  BY <1>5 DEF vars, IInv, Shape, Outcomes, Recorded, HasRun, HasRecord, Intact, IsIntact
<1> QED BY <1>1, <1>2, <1>3, <1>4, <1>5 DEF Next, Finished

(* The types of all variables: every execution has its history, every      *)
(* outcome is a verdict.                                                   *)
THEOREM CheckTypes == Spec => []TypeOK
<1>1. IInv => TypeOK
  <2> SUFFICES ASSUME IInv PROVE TypeOK OBVIOUS
  <2>1. IsSequence(executions) /\ IsSequence(evidence) BY DEF IInv, Shape
  <2>2. /\ Len(executions) \in Nat /\ Len(evidence) \in Nat
        /\ DOMAIN executions = 1..Len(executions)
    BY <2>1 DEF IsSequence
  <2>3. Len(project.checks) \in Nat
    BY ProjectsAreWellFormed DEF IInv, Shape
  <2> QED BY <2>2, <2>3 DEF IInv, Shape, Outcomes, TypeOK
<1> QED BY <1>1, InitialStates, Invariance, PTL DEF Spec

(* When a run is finalized every log holds what the command of its own     *)
(* check wrote, whatever ids the checks have: two of them that share a     *)
(* path and differ in their output keep the run from being finalized.      *)
THEOREM LogsAreOwn == Spec => []FinalizedLogsAreOwn
<1>1. IInv => FinalizedLogsAreOwn
  <2> SUFFICES ASSUME IInv, run = "finalized", NEW i \in DOMAIN ran, HasRun(i)
               PROVE  logs[LogPath(project.checks[i].id)] = ran[i].captured.lines
    BY DEF FinalizedLogsAreOwn
  <2>1. i \in 1..Len(ran) BY DEF IInv, Shape, IsSequence
  <2>2. PICK k \in 1..Len(evidence) :
          /\ evidence[k].attachment.path = LogPath(project.checks[i].id)
          /\ evidence[k].attachment.digest = ran[i].captured.lines
    BY <2>1 DEF IInv, Recorded, HasRecord
  <2>3. logs[evidence[k].attachment.path] = evidence[k].attachment.digest
    BY DEF IInv, Intact, IsIntact
  <2> QED BY <2>2, <2>3
<1> QED BY <1>1, InitialStates, Invariance, PTL DEF Spec

-----------------------------------------------------------------------------
(* Numbers.                                                                *)

(* Induction over the natural numbers, for a set: a hole at k would make k *)
(* + 1 numbers fit into k places.                                          *)
LEMMA Induction ==
  ASSUME NEW S \in SUBSET Nat, 0 \in S, \A n \in S : n + 1 \in S
  PROVE  S = Nat
<1> SUFFICES ASSUME NEW k \in Nat, k \notin S PROVE FALSE
  OBVIOUS
<1> DEFINE f == [x \in 0..k |-> IF x \in S THEN x + 1 ELSE x]
<1>1. f \in [0..k -> 1..k]
  <2> SUFFICES ASSUME NEW x \in 0..k PROVE (IF x \in S THEN x + 1 ELSE x) \in 1..k
    OBVIOUS
  <2>1. CASE x \in S
    BY <2>1
  <2>2. CASE x \notin S
    BY <2>2
  <2> QED
    BY <2>1, <2>2
<1>2. \A x, y \in 0..k : f[x] = f[y] => x = y
  <2> SUFFICES ASSUME NEW x \in 0..k, NEW y \in 0..k, f[x] = f[y] PROVE x = y
    OBVIOUS
  <2>1. CASE x \in S /\ y \notin S
    BY <2>1
  <2>2. CASE x \notin S /\ y \in S
    BY <2>2
  <2> QED
    BY <2>1, <2>2
<1>3. /\ IsFiniteSet(0..k) /\ Cardinality(0..k) = k + 1
      /\ IsFiniteSet(1..k) /\ Cardinality(1..k) = k
  <2>1. 0 \in Int /\ 1 \in Int /\ k \in Int
    OBVIOUS
  <2>2. IsFiniteSet(0..k) /\ Cardinality(0..k) = IF 0 > k THEN 0 ELSE k - 0 + 1
    BY <2>1, FS_Interval
  <2>3. IsFiniteSet(1..k) /\ Cardinality(1..k) = IF 1 > k THEN 0 ELSE k - 1 + 1
    BY <2>1, FS_Interval
  <2> QED
    BY <2>2, <2>3
<1>4. \E x, y \in 0..k : x # y /\ f[x] = f[y]
  <2>1. Cardinality(1..k) < Cardinality(0..k)
    BY <1>3
  <2> HIDE DEF f
  <2> QED
    BY <1>1, <1>3, <2>1, FS_PigeonHole
<1> QED
  BY <1>2, <1>4

(* There are 2^n sets of n things; one thing more doubles them.            *)
LEMMA PowersOfTwo ==
  ASSUME NEW n \in Nat
  PROVE  2^n \in Nat /\ 2^n >= 1 /\ 2^(n + 1) = 2 * 2^n /\ 2^0 = 1
<1> DEFINE Subsets(m) == SUBSET (1..m)
           m == n + 1
           A == Subsets(n)
           B == {s \cup {m} : s \in A}
           f == [s \in A |-> s \cup {m}]
<1>1. ASSUME NEW k \in Nat
      PROVE  IsFiniteSet(Subsets(k)) /\ Cardinality(Subsets(k)) = 2^k /\ 2^k \in Nat
  <2>1. 1 \in Int /\ k \in Int
    OBVIOUS
  <2>2. IsFiniteSet(1..k) /\ Cardinality(1..k) = IF 1 > k THEN 0 ELSE k - 1 + 1
    BY <2>1, FS_Interval
  <2>3. Cardinality(1..k) = k
    BY <2>2
  <2> QED
    BY <2>2, <2>3, FS_SUBSET, FS_CardinalityType
<1>2. m \in Nat
  OBVIOUS
<1>3. f \in Bijection(A, B)
  <2>1. f \in [A -> B]
    OBVIOUS
  <2>2. \A s, t \in A : f[s] = f[t] => s = t
    <3> SUFFICES ASSUME NEW s \in A, NEW t \in A, f[s] = f[t] PROVE s = t
      OBVIOUS
    <3>1. m \notin s /\ m \notin t
      OBVIOUS
    <3>2. s \cup {m} = t \cup {m}
      OBVIOUS
    <3> HIDE DEF m
    <3> QED
      BY <3>1, <3>2
  <2>3. \A t \in B : \E s \in A : f[s] = t
    OBVIOUS
  <2> HIDE DEF f, A, B
  <2>4. f \in Injection(A, B)
    BY <2>1, <2>2 DEF Injection, IsInjective
  <2>5. f \in Surjection(A, B)
    BY <2>1, <2>3 DEF Surjection
  <2> QED
    BY <2>4, <2>5 DEF Bijection
<1>4. A \cap B = {}
  OBVIOUS
<1>5. A \cup B = Subsets(m)
  <2>1. A \cup B \subseteq Subsets(m)
    <3>1. \A i \in 1..n : i \in 1..m
      OBVIOUS
    <3>2. m \in 1..m
      OBVIOUS
    <3> HIDE DEF m
    <3> QED
      BY <3>1, <3>2
  <2>2. ASSUME NEW t \in Subsets(m), m \in t PROVE t \in B
    <3>1. t \ {m} \in A
      OBVIOUS
    <3>2. t = (t \ {m}) \cup {m}
      BY <2>2
    <3> QED
      BY <3>1, <3>2
  <2>3. ASSUME NEW t \in Subsets(m), m \notin t PROVE t \in A
    BY <2>3
  <2> HIDE DEF A, B, Subsets
  <2> QED
    BY <2>1, <2>2, <2>3
<1> HIDE DEF A, B, f, m, Subsets
<1>6. IsFiniteSet(A) /\ Cardinality(A) = 2^n /\ 2^n \in Nat
  BY <1>1 DEF A
<1>7. IsFiniteSet(B) /\ Cardinality(B) = 2^n
  BY <1>3, <1>6, FS_Bijection DEF ExistsBijection
<1>8. Cardinality(A \cup B) = Cardinality(A) + Cardinality(B) - Cardinality(A \cap B)
  BY <1>6, <1>7, FS_Union
<1>9. Cardinality({}) = 0
  BY FS_EmptySet
<1>10. 2^m = 2 * 2^n
  <2>1. Cardinality(Subsets(m)) = 2^m /\ 2^m \in Nat
    BY <1>1, <1>2
  <2>2. 2^m = 2^n + 2^n - 0
    BY <2>1, <1>4, <1>5, <1>6, <1>7, <1>8, <1>9
  <2> QED
    BY <2>2, <1>6
<1>11. 2^n >= 1
  <2>1. {} \in A
    BY DEF A, Subsets
  <2>2. A # {} => Cardinality(A) # 0
    BY <1>6, FS_EmptySet
  <2> QED
    BY <2>1, <2>2, <1>6
<1>12. 2^0 = 1
  <2>1. Subsets(0) = {{}}
    BY DEF Subsets
  <2>2. Cardinality({{}}) = 1
    BY FS_Singleton
  <2>3. Cardinality(Subsets(0)) = 2^0
    BY <1>1
  <2> QED
    BY <2>1, <2>2, <2>3
<1> QED
  BY <1>6, <1>10, <1>11, <1>12 DEF m

(* Exponents add up.                                                       *)
LEMMA SumOfExponents ==
  ASSUME NEW m \in Nat, NEW n \in Nat
  PROVE  2^(m + n) = 2^m * 2^n
<1> DEFINE S == {k \in Nat : 2^(m + k) = 2^m * 2^k}
<1>1. 0 \in S
  <2>1. m + 0 = m /\ 2^0 = 1 /\ 2^m \in Nat
    BY PowersOfTwo
  <2> QED
    BY <2>1
<1>2. ASSUME NEW k \in S PROVE k + 1 \in S
  <2> DEFINE j == m + k
  <2>1. j \in Nat /\ m + (k + 1) = j + 1
    OBVIOUS
  <2> HIDE DEF j
  <2>2. 2^(j + 1) = 2 * 2^j /\ 2^(k + 1) = 2 * 2^k /\ 2^m \in Nat /\ 2^k \in Nat /\ 2^j \in Nat
    BY <2>1, PowersOfTwo
  <2>3. 2^j = 2^m * 2^k
    BY DEF j
  <2>4. 2 * (2^m * 2^k) = 2^m * (2 * 2^k)
    BY <2>2
  <2>5. 2^(m + (k + 1)) = 2^m * 2^(k + 1)
    BY <2>1, <2>2, <2>3, <2>4
  <2> QED
    BY <2>5
<1>3. S = Nat
  <2> HIDE DEF S
  <2>1. S \in SUBSET Nat
    BY DEF S
  <2> QED
    BY <1>1, <1>2, <2>1, Induction
<1> QED
  BY <1>3

(* Multiplication preserves the order.                                     *)
LEMMA Products ==
  ASSUME NEW a \in Nat, NEW b \in Nat, NEW n \in Nat
  PROVE  /\ a * n \in Nat
         /\ a <= b => a * n <= b * n
         /\ a < b /\ n >= 1 => a * n < b * n
<1>1. a * n \in Nat
  OBVIOUS
<1>2. ASSUME a <= b PROVE a * n <= b * n
  <2>1. (b - a) * n >= 0
    BY <1>2
  <2>2. b * n = a * n + (b - a) * n
    OBVIOUS
  <2> QED
    BY <2>1, <2>2
<1>3. ASSUME a < b, n >= 1 PROVE a * n < b * n
  <2>1. (b - a) * n >= 1
    BY <1>3
  <2>2. b * n = a * n + (b - a) * n
    OBVIOUS
  <2> QED
    BY <2>1, <2>2
<1> QED
  BY <1>1, <1>2, <1>3

(* Quotient and remainder exist and are unique.                            *)
LEMMA Division ==
  ASSUME NEW n \in Nat, NEW d \in Nat \ {0}
  PROVE  /\ n \div d \in Nat /\ n % d \in 0..(d - 1) /\ n = d * (n \div d) + (n % d)
         /\ \A q, r \in Nat : r < d /\ n = d * q + r => n \div d = q /\ n % d = r
<1>1. n \div d \in Nat /\ n % d \in 0..(d - 1) /\ n = d * (n \div d) + (n % d)
  OBVIOUS
<1>2. ASSUME NEW q \in Nat, NEW r \in Nat, r < d, n = d * q + r PROVE n \div d = q
  <2> DEFINE k == n \div d
             f == n % d
  <2>1. k \in Nat /\ f \in 0..(d - 1) /\ n = d * k + f
    BY <1>1
  <2> HIDE DEF k, f
  <2>2. d * (k - q) = r - f
    BY <2>1, <1>2
  <2>3. ASSUME k < q PROVE FALSE
    <3>1. d * (q - k) >= d
      BY <2>1, <2>3
    <3> QED
      BY <2>1, <2>2, <3>1, <1>2
  <2>4. ASSUME q < k PROVE FALSE
    <3>1. d * (k - q) >= d
      BY <2>1, <2>4
    <3> QED
      BY <2>1, <2>2, <3>1, <1>2
  <2> QED
    BY <2>1, <2>3, <2>4 DEF k
<1> QED
  BY <1>1, <1>2

(* A set of natural numbers has a least one.                               *)
LEMMA LeastElement ==
  ASSUME NEW S \in SUBSET Nat, S # {}
  PROVE  \E least \in S : \A n \in S : least <= n
<1> SUFFICES ASSUME \A m \in S : \E n \in S : n < m PROVE FALSE
  OBVIOUS
<1> DEFINE T == {n \in Nat : \A s \in S : n <= s}
<1>1. 0 \in T
  OBVIOUS
<1>2. ASSUME NEW n \in T PROVE n + 1 \in T
  <2>1. n \notin S
    OBVIOUS
  <2> QED
    BY <2>1
<1>3. T = Nat
  <2> HIDE DEF T
  <2>1. T \in SUBSET Nat
    BY DEF T
  <2> QED
    BY <1>1, <1>2, <2>1, Induction
<1>4. PICK s \in S : TRUE
  OBVIOUS
<1>5. s + 1 <= s
  BY <1>3, <1>4
<1> QED
  BY <1>4, <1>5

-----------------------------------------------------------------------------
(* Flattening a sequence of sequences.                                     *)

(* f is what FlattenSeq makes of the first sequences.                      *)
IsFlattened(f, seqs, n) ==
  \A i \in 1..n : f[i] = IF i = 1 THEN seqs[i] ELSE f[i - 1] \o seqs[i]

(* The n sequences lie in flat one after the other, the i-th of them behind *)
(* off[i - 1] others.                                                       *)
HasOffsets(flat, seqs, n, off) ==
  /\ Len(flat) = off[n]
  /\ \A i \in 1..n : off[i] = off[i - 1] + Len(seqs[i])
  /\ \A i, j \in 0..n : i <= j => off[i] <= off[j]
  /\ \A i \in 1..n : \A j \in 1..Len(seqs[i]) : flat[off[i - 1] + j] = seqs[i][j]
  /\ \A p \in 1..Len(flat) : \E i \in 1..n : \E j \in 1..Len(seqs[i]) : p = off[i - 1] + j

(* Every prefix of the sequences can be flattened.                         *)
LEMMA PrefixesAreFlattened ==
  ASSUME NEW S, NEW n \in Nat, NEW seqs \in [1..n -> Seq(S)], NEW m \in Nat, m <= n
  PROVE  \E f \in [1..m -> Seq(S)] : IsFlattened(f, seqs, m)
<1> DEFINE T == {k \in Nat : k <= n => \E f \in [1..k -> Seq(S)] : IsFlattened(f, seqs, k)}
<1>1. 0 \in T
  <2> DEFINE f == [i \in 1..0 |-> <<>>]
  <2>1. f \in [1..0 -> Seq(S)] /\ IsFlattened(f, seqs, 0)
    BY DEF IsFlattened
  <2> QED
    BY <2>1
<1>2. ASSUME NEW k \in T PROVE k + 1 \in T
  <2> DEFINE l == k + 1
  <2> SUFFICES ASSUME l <= n PROVE \E f \in [1..l -> Seq(S)] : IsFlattened(f, seqs, l)
    OBVIOUS
  <2>1. k \in Nat /\ l \in 1..n /\ l - 1 = k /\ k <= n
    OBVIOUS
  <2>2. PICK f \in [1..k -> Seq(S)] : IsFlattened(f, seqs, k)
    BY <2>1
  <2> DEFINE last == IF l = 1 THEN seqs[l] ELSE f[k] \o seqs[l]
             g == [i \in 1..l |-> IF i = l THEN last ELSE f[i]]
  <2>3. \A i \in 1..l : i # l => i \in 1..k
    BY <2>1
  <2>4. last \in Seq(S)
    <3>1. l # 1 => k \in 1..k
      BY <2>1
    <3>2. seqs[l] \in Seq(S) /\ (l # 1 => f[k] \in Seq(S))
      BY <2>1, <3>1
    <3> HIDE DEF l
    <3> QED
      BY <3>2
  <2>5. g \in [1..l -> Seq(S)]
    <3> HIDE DEF last, l
    <3> QED
      BY <2>3, <2>4
  <2>6. ASSUME NEW i \in 1..l PROVE g[i] = IF i = 1 THEN seqs[i] ELSE g[i - 1] \o seqs[i]
    <3>1. CASE i = l
      <4>1. l # 1 => l - 1 \in 1..l /\ l - 1 # l
        BY <2>1
      <4>2. l # 1 => g[l - 1] = f[k]
        <5> HIDE DEF last, l
        <5> QED
          BY <2>1, <4>1
      <4>3. g[l] = last
        <5>1. l \in 1..l
          BY <2>1
        <5> HIDE DEF last, l
        <5> QED
          BY <5>1
      <4> HIDE DEF g, l
      <4> QED
        BY <3>1, <4>2, <4>3
    <3>2. CASE i # l
      <4>1. i \in 1..k /\ i \in Nat
        BY <2>3, <3>2
      <4>2. f[i] = IF i = 1 THEN seqs[i] ELSE f[i - 1] \o seqs[i]
        BY <2>2, <4>1 DEF IsFlattened
      <4>3. i # 1 => i - 1 \in 1..l /\ i - 1 # l
        BY <4>1, <2>1
      <4>4. g[i] = f[i] /\ (i # 1 => g[i - 1] = f[i - 1])
        <5> HIDE DEF last, l
        <5> QED
          BY <3>2, <4>3
      <4> HIDE DEF g
      <4> QED
        BY <4>2, <4>4
    <3> QED
      BY <3>1, <3>2
  <2>7. IsFlattened(g, seqs, l)
    <3> HIDE DEF g, l
    <3> QED
      BY <2>6 DEF IsFlattened
  <2> HIDE DEF g, l
  <2> QED
    BY <2>5, <2>7
<1>3. T = Nat
  <2> HIDE DEF T
  <2>1. T \in SUBSET Nat
    BY DEF T
  <2> QED
    BY <1>1, <1>2, <2>1, Induction
<1> QED
  BY <1>3

(* The recursion of FlattenSeq has a solution, so it is what CHOOSE finds. *)
LEMMA FlattenSeqIsLast ==
  ASSUME NEW S, NEW n \in Nat, n > 0, NEW seqs \in [1..n -> Seq(S)]
  PROVE  \E f \in [1..n -> Seq(S)] : IsFlattened(f, seqs, n) /\ FlattenSeq(seqs) = f[n]
<1>1. Len(seqs) = n
  OBVIOUS
<1> DEFINE Unfolded(f) == [i \in 1..n |-> IF i = 1 THEN seqs[i] ELSE f[i - 1] \o seqs[i]]
           flatten == CHOOSE f : f = Unfolded(f)
<1>2. FlattenSeq(seqs) = flatten[n]
  BY <1>1 DEF FlattenSeq
<1>3. PICK f \in [1..n -> Seq(S)] : IsFlattened(f, seqs, n)
  <2>1. n <= n
    OBVIOUS
  <2> QED
    BY <2>1, PrefixesAreFlattened
<1>4. f = Unfolded(f)
  BY <1>3 DEF IsFlattened
<1>5. flatten = Unfolded(flatten)
  <2> HIDE DEF Unfolded
  <2> QED
    BY <1>4
<1>6. IsFlattened(flatten, seqs, n)
  BY <1>5 DEF IsFlattened
<1>7. flatten \in [1..n -> Seq(S)]
  <2> DEFINE T == {k \in Nat : k \in 1..n => flatten[k] \in Seq(S)}
  <2>1. 0 \in T
    OBVIOUS
  <2> HIDE DEF flatten
  <2>2. ASSUME NEW k \in T PROVE k + 1 \in T
    <3> DEFINE l == k + 1
    <3> SUFFICES ASSUME l \in 1..n PROVE flatten[l] \in Seq(S)
      OBVIOUS
    <3>1. l - 1 = k /\ (l # 1 => k \in 1..n)
      OBVIOUS
    <3>2. flatten[l] = IF l = 1 THEN seqs[l] ELSE flatten[k] \o seqs[l]
      <4>1. flatten[l] = IF l = 1 THEN seqs[l] ELSE flatten[l - 1] \o seqs[l]
        <5> HIDE DEF l
        <5> QED
          BY <1>6 DEF IsFlattened
      <4> QED
        BY <4>1, <3>1
    <3>3. l # 1 => flatten[k] \in Seq(S)
      BY <3>1
    <3> HIDE DEF l
    <3> QED
      BY <3>2, <3>3
  <2>3. T = Nat
    <3> HIDE DEF T
    <3>1. T \in SUBSET Nat
      BY DEF T
    <3> QED
      BY <2>1, <2>2, <3>1, Induction
  <2>4. ASSUME NEW k \in 1..n PROVE flatten[k] \in Seq(S)
    <3>1. k \in T
      <4> HIDE DEF T
      <4> QED
        BY <2>3
    <3> QED
      BY <3>1
  <2>5. flatten = [i \in 1..n |-> flatten[i]]
    BY <1>5
  <2> QED
    BY <2>4, <2>5
<1> HIDE DEF flatten
<1> QED
  BY <1>2, <1>6, <1>7

(* Where the elements of each sequence are in the flattened one.           *)
LEMMA Flattening ==
  ASSUME NEW S, NEW n \in Nat, NEW seqs \in [1..n -> Seq(S)]
  PROVE  /\ FlattenSeq(seqs) \in Seq(S)
         /\ \E off \in [0..n -> Nat] : HasOffsets(FlattenSeq(seqs), seqs, n, off)
<1> DEFINE flat == FlattenSeq(seqs)
<1> SUFFICES flat \in Seq(S) /\ \E off \in [0..n -> Nat] : HasOffsets(flat, seqs, n, off)
  OBVIOUS
<1> HIDE DEF flat
<1>1. CASE n = 0
  <2> DEFINE off == [i \in 0..0 |-> 0]
  <2>1. Len(seqs) = 0 /\ seqs \in Seq(S)
    BY <1>1
  <2>2. FlattenSeq(seqs) = seqs
    BY <2>1 DEF FlattenSeq
  <2>3. off \in [0..n -> Nat] /\ off[0] = 0
    BY <1>1
  <2>4. 1..n = {} /\ 1..Len(seqs) = {} /\ \A i \in 0..n : i = 0
    BY <1>1, <2>1
  <2> HIDE DEF off
  <2>5. flat \in Seq(S) /\ HasOffsets(flat, seqs, n, off)
    <3>1. flat = seqs /\ Len(seqs) = off[n]
      BY <1>1, <2>1, <2>2, <2>3 DEF flat
    <3>2. \A i, j \in 0..n : i <= j => off[i] <= off[j]
      BY <2>3, <2>4
    <3> QED
      BY <2>1, <2>4, <3>1, <3>2 DEF HasOffsets
  <2> QED
    BY <2>3, <2>5
<1>2. CASE n > 0
  <2>1. PICK f \in [1..n -> Seq(S)] : IsFlattened(f, seqs, n) /\ FlattenSeq(seqs) = f[n]
    BY <1>2, FlattenSeqIsLast
  <2> DEFINE off == [i \in 0..n |-> IF i = 0 THEN 0 ELSE Len(f[i])]
  <2>2. \A i \in 1..n : f[i] \in Seq(S) /\ Len(f[i]) \in Nat /\ seqs[i] \in Seq(S) /\ Len(seqs[i]) \in Nat
    BY <2>1
  <2>3. off \in [0..n -> Nat] /\ off[0] = 0 /\ \A i \in 1..n : off[i] = Len(f[i])
    <3>1. \A i \in 0..n : i # 0 => i \in 1..n
      OBVIOUS
    <3> QED
      BY <2>2, <3>1
  <2> HIDE DEF off
  <2>4. ASSUME NEW i \in 1..n
        PROVE  /\ off[i] = off[i - 1] + Len(seqs[i])
               /\ \A j \in 1..Len(seqs[i]) : f[i][off[i - 1] + j] = seqs[i][j]
               /\ i > 1 => \A p \in 1..off[i - 1] : f[i][p] = f[i - 1][p]
    <3>1. f[i] = IF i = 1 THEN seqs[i] ELSE f[i - 1] \o seqs[i]
      BY <2>1 DEF IsFlattened
    <3>2. CASE i = 1
      BY <2>2, <2>3, <3>1, <3>2
    <3>3. CASE i # 1
      <4> DEFINE a == f[i - 1]
                 b == seqs[i]
      <4>1. i - 1 \in 1..n /\ off[i - 1] = Len(a) /\ off[i] = Len(f[i]) /\ a \in Seq(S) /\ b \in Seq(S)
        <5>1. i - 1 \in 1..n
          BY <3>3
        <5> QED
          BY <5>1, <2>2, <2>3
      <4>2. f[i] = a \o b
        BY <3>1, <3>3
      <4> HIDE DEF a, b
      <4>3. Len(a \o b) = Len(a) + Len(b) /\ \A p \in 1..(Len(a) + Len(b)) : (a \o b)[p] = IF p <= Len(a) THEN a[p] ELSE b[p - Len(a)]
        BY <4>1
      <4>4. \A j \in 1..Len(b) : Len(a) + j \in 1..(Len(a) + Len(b)) /\ ~(Len(a) + j <= Len(a)) /\ Len(a) + j - Len(a) = j
        BY <4>1
      <4>5. \A p \in 1..Len(a) : p \in 1..(Len(a) + Len(b)) /\ p <= Len(a)
        BY <4>1
      <4>6. \A j \in 1..Len(b) : (a \o b)[Len(a) + j] = b[j]
        BY <4>3, <4>4
      <4>7. \A p \in 1..Len(a) : (a \o b)[p] = a[p]
        BY <4>3, <4>5
      <4> QED
        BY <4>1, <4>2, <4>3, <4>6, <4>7 DEF a, b
    <3> QED
      BY <3>2, <3>3
  <2>5. \A i, j \in 0..n : i <= j => off[i] <= off[j]
    <3> SUFFICES ASSUME NEW i \in 0..n PROVE \A j \in 0..n : i <= j => off[i] <= off[j]
      OBVIOUS
    <3> DEFINE T == {k \in Nat : k \in 0..n /\ i <= k => off[i] <= off[k]}
    <3>1. 0 \in T
      BY <2>3
    <3>2. ASSUME NEW k \in T PROVE k + 1 \in T
      <4> DEFINE l == k + 1
      <4> SUFFICES ASSUME l \in 0..n, i <= l PROVE off[i] <= off[l]
        OBVIOUS
      <4>1. l \in 1..n /\ k \in 0..n /\ l - 1 = k /\ (i # l => i <= k)
        OBVIOUS
      <4>2. off[l] = off[k] + Len(seqs[l])
        <5>1. off[l] = off[l - 1] + Len(seqs[l])
          <6> HIDE DEF l
          <6> QED
            BY <4>1, <2>4
        <5> QED
          BY <5>1, <4>1
      <4>3. i # l => off[i] <= off[k]
        BY <4>1
      <4>4. off[i] \in Nat /\ off[k] \in Nat /\ off[l] \in Nat /\ Len(seqs[l]) \in Nat
        <5> HIDE DEF l
        <5> QED
          BY <4>1, <2>2, <2>3
      <4> HIDE DEF l
      <4> QED
        BY <4>2, <4>3, <4>4
    <3>3. T = Nat
      <4> HIDE DEF T
      <4>1. T \in SUBSET Nat
        BY DEF T
      <4> QED
        BY <3>1, <3>2, <4>1, Induction
    <3>4. ASSUME NEW j \in 0..n, i <= j PROVE off[i] <= off[j]
      <4>1. j \in T
        <5> HIDE DEF T
        <5> QED
          BY <3>3
      <4> QED
        BY <4>1, <3>4
    <3> QED
      BY <3>4
  <2>6. ASSUME NEW i \in 1..n, NEW p \in 1..off[i] PROVE f[n][p] = f[i][p]
    <3> DEFINE T == {k \in Nat : k \in i..n => f[k][p] = f[i][p]}
    <3>1. 0 \in T
      OBVIOUS
    <3>2. ASSUME NEW k \in T PROVE k + 1 \in T
      <4> DEFINE l == k + 1
      <4> SUFFICES ASSUME l \in i..n PROVE f[l][p] = f[i][p]
        OBVIOUS
      <4>1. CASE l # i
        <5>1. l \in 1..n /\ k \in i..n /\ l - 1 = k /\ l > 1 /\ k \in 0..n /\ i \in 0..n /\ i <= k
          BY <4>1
        <5>2. f[k][p] = f[i][p]
          BY <5>1
        <5>3. p \in 1..off[k]
          <6>1. off[i] <= off[k] /\ off[i] \in Nat /\ off[k] \in Nat
            BY <5>1, <2>3, <2>5
          <6> QED
            BY <6>1
        <5>4. \A q \in 1..off[k] : f[l][q] = f[k][q]
          <6>1. \A q \in 1..off[l - 1] : f[l][q] = f[l - 1][q]
            <7> HIDE DEF l
            <7> QED
              BY <5>1, <2>4
          <6> QED
            BY <6>1, <5>1
        <5> QED
          BY <5>2, <5>3, <5>4
      <4>2. CASE l = i
        BY <4>2
      <4> QED
        BY <4>1, <4>2
    <3>3. T = Nat
      <4> HIDE DEF T
      <4>1. T \in SUBSET Nat
        BY DEF T
      <4> QED
        BY <3>1, <3>2, <4>1, Induction
    <3>4. n \in T
      <4> HIDE DEF T
      <4> QED
        BY <3>3
    <3> QED
      BY <3>4
  <2>7. ASSUME NEW i \in 1..n, NEW j \in 1..Len(seqs[i]) PROVE f[n][off[i - 1] + j] = seqs[i][j]
    <3>1. i - 1 \in 0..n /\ off[i - 1] \in Nat /\ off[i] \in Nat /\ Len(seqs[i]) \in Nat
      <4>1. i - 1 \in 0..n
        OBVIOUS
      <4> QED
        BY <4>1, <2>2, <2>3
    <3> DEFINE q == off[i - 1] + j
    <3>2. q \in 1..off[i]
      BY <3>1, <2>4, SMTT(30)
    <3>3. f[i][q] = seqs[i][j]
      BY <2>4
    <3> HIDE DEF q
    <3>4. f[n][q] = f[i][q]
      BY <3>2, <2>6
    <3> QED
      BY <3>3, <3>4 DEF q
  <2>8. ASSUME NEW p \in 1..off[n]
        PROVE  \E i \in 1..n : \E j \in 1..Len(seqs[i]) : p = off[i - 1] + j
    <3> DEFINE T == {i \in Nat : i \in 0..n => off[i] < p}
    <3> SUFFICES ASSUME \A i \in 1..n : \A j \in 1..Len(seqs[i]) : p # off[i - 1] + j PROVE FALSE
      OBVIOUS
    <3>1. 0 \in T
      BY <2>3
    <3>2. ASSUME NEW k \in T PROVE k + 1 \in T
      <4> DEFINE l == k + 1
      <4> SUFFICES ASSUME l \in 0..n PROVE off[l] < p
        OBVIOUS
      <4>1. l \in 1..n /\ k \in 0..n /\ l - 1 = k /\ off[k] < p
        OBVIOUS
      <4>2. off[k] \in Nat /\ off[l] \in Nat /\ Len(seqs[l]) \in Nat
        <5> HIDE DEF l
        <5> QED
          BY <4>1, <2>2, <2>3
      <4>3. off[l] = off[k] + Len(seqs[l]) /\ \A j \in 1..Len(seqs[l]) : p # off[k] + j
        <5>1. off[l] = off[l - 1] + Len(seqs[l]) /\ \A j \in 1..Len(seqs[l]) : p # off[l - 1] + j
          <6> HIDE DEF l
          <6> QED
            BY <4>1, <2>4
        <5> QED
          BY <5>1, <4>1
      <4> HIDE DEF l
      <4> DEFINE j == p - off[k]
      <4>4. p \in Nat /\ j \in Nat /\ j >= 1 /\ p = off[k] + j
        BY <4>1, <4>2, SMTT(30)
      <4> HIDE DEF j
      <4>5. j \notin 1..Len(seqs[l])
        BY <4>3, <4>4
      <4>6. j > Len(seqs[l])
        BY <4>2, <4>4, <4>5
      <4> QED
        BY <4>2, <4>3, <4>4, <4>6, SMTT(30)
    <3>3. T = Nat
      <4> HIDE DEF T
      <4>1. T \in SUBSET Nat
        BY DEF T
      <4> QED
        BY <3>1, <3>2, <4>1, Induction
    <3>4. n \in T
      <4> HIDE DEF T
      <4> QED
        BY <3>3
    <3>5. off[n] < p /\ off[n] \in Nat
      BY <3>4, <2>3
    <3> QED
      BY <3>5
  <2>9. f[n] \in Seq(S) /\ Len(f[n]) = off[n]
    <3>1. n \in 1..n
      BY <1>2
    <3> QED
      BY <3>1, <2>2, <2>3
  <2>10. flat \in Seq(S) /\ HasOffsets(flat, seqs, n, off)
    <3>1. flat = f[n]
      BY <2>1 DEF flat
    <3>2. \A i \in 1..n : off[i] = off[i - 1] + Len(seqs[i])
      BY <2>4
    <3>3. \A i \in 1..n : \A j \in 1..Len(seqs[i]) : flat[off[i - 1] + j] = seqs[i][j]
      BY <2>7, <3>1
    <3>4. \A p \in 1..Len(flat) : \E i \in 1..n : \E j \in 1..Len(seqs[i]) : p = off[i - 1] + j
      BY <2>8, <2>9, <3>1
    <3>5. flat \in Seq(S) /\ Len(flat) = off[n]
      BY <2>9, <3>1
    <3> QED
      BY <2>5, <3>2, <3>3, <3>4, <3>5 DEF HasOffsets
  <2> QED
    BY <2>3, <2>10
<1>3. n = 0 \/ n > 0
  OBVIOUS
<1> QED
  BY <1>1, <1>2, <1>3

-----------------------------------------------------------------------------
(* Floats.                                                                 *)

(* What the pattern of a finite float is divided by, and the distance from *)
(* its value to the next one.                                              *)
Fractions == 2^MantissaBits

UnitOf(p) == IF p \div Fractions = 0 THEN 1 ELSE 2^((p \div Fractions) - 1)

(* The patterns of finite floats fit below the sign.                       *)
LEMMA FormatSizes ==
  /\ Fractions \in Nat /\ Fractions >= 1
  /\ Infinity \in Nat /\ Infinity >= 1 /\ Infinity < SignBit /\ SignBit \in Nat
<1>1. MantissaBits \in Nat /\ ExponentBits \in Nat /\ ExponentBits >= 1
  BY FormatIsBinary
<1>2. Fractions \in Nat /\ Fractions >= 1
  BY <1>1, PowersOfTwo DEF Fractions
<1>3. 2^ExponentBits \in Nat /\ 2^ExponentBits >= 2
  <2> DEFINE k == ExponentBits - 1
  <2>1. k \in Nat /\ ExponentBits = k + 1
    BY <1>1
  <2> HIDE DEF k
  <2>2. 2^(k + 1) = 2 * 2^k /\ 2^k \in Nat /\ 2^k >= 1
    BY <2>1, PowersOfTwo
  <2> QED
    BY <2>1, <2>2
<1>4. SignBit = 2^ExponentBits * Fractions
  BY <1>1, SumOfExponents DEF SignBit, Fractions
<1>5. Infinity = (2^ExponentBits - 1) * Fractions
  BY DEF Infinity, Fractions
<1>6. Infinity \in Nat /\ Infinity >= 1 /\ SignBit \in Nat /\ SignBit = Infinity + Fractions
  <2> DEFINE k == 2^ExponentBits - 1
  <2>1. k \in Nat /\ k >= 1 /\ 2^ExponentBits = k + 1
    BY <1>3
  <2> HIDE DEF k
  <2>2. k * Fractions \in Nat /\ k * Fractions >= 1 /\ (k + 1) * Fractions = k * Fractions + Fractions
    BY <2>1, <1>2
  <2> QED
    BY <2>1, <2>2, <1>2, <1>4, <1>5 DEF k
<1> QED
  BY <1>2, <1>6

(* A float and its successor are one unit apart, and a unit is small.      *)
LEMMA Units ==
  ASSUME NEW p \in Nat
  PROVE  /\ Magnitude(p) \in Nat /\ UnitOf(p) \in Nat /\ UnitOf(p) >= 1
         /\ Magnitude(p + 1) = Magnitude(p) + UnitOf(p)
         /\ Magnitude(p) <= 2 * (Fractions * UnitOf(p))
         /\ p < Fractions => UnitOf(p) = 1
         /\ p >= Fractions => Fractions * UnitOf(p) <= Magnitude(p)
<1> DEFINE k == p \div Fractions
           f == p % Fractions
           next == p + 1
<1>p. Fractions \in Nat /\ Fractions >= 1 /\ Fractions \in Nat \ {0} /\ next \in Nat /\ next = p + 1
  BY FormatSizes
<1>1. k \in Nat /\ f \in 0..(Fractions - 1) /\ p = Fractions * k + f
  BY <1>p, Division
<1>2. Magnitude(p) = IF k = 0 THEN f ELSE (Fractions + f) * 2^(k - 1)
  BY DEF Magnitude, Fractions
<1>3. UnitOf(p) = IF k = 0 THEN 1 ELSE 2^(k - 1)
  BY DEF UnitOf
<1>4. Magnitude(next) = IF next \div Fractions = 0 THEN next % Fractions ELSE (Fractions + (next % Fractions)) * 2^((next \div Fractions) - 1)
  BY DEF Magnitude, Fractions
<1> HIDE DEF k, f, next
<1>5. \A q, r \in Nat : r < Fractions /\ next = Fractions * q + r => next \div Fractions = q /\ next % Fractions = r
  BY <1>p, Division
<1>6. CASE k = 0
  <2>1. Magnitude(p) = f /\ UnitOf(p) = 1 /\ p = f
    BY <1>1, <1>2, <1>3, <1>6, <1>p
  <2>2. Magnitude(next) = p + 1
    <3>1. CASE f + 1 < Fractions
      <4>1. next = Fractions * 0 + (f + 1) /\ f + 1 \in Nat /\ 0 \in Nat
        BY <2>1, <1>1, <1>p
      <4>2. next \div Fractions = 0 /\ next % Fractions = f + 1
        BY <4>1, <1>5, <3>1
      <4> QED
        BY <4>2, <1>4, <2>1
    <3>2. CASE f + 1 = Fractions
      <4>1. next = Fractions * 1 + 0 /\ 0 \in Nat /\ 1 \in Nat
        BY <2>1, <1>1, <1>p, <3>2
      <4>2. next \div Fractions = 1 /\ next % Fractions = 0
        BY <4>1, <1>5, <1>p
      <4>3. 1 - 1 = 0 /\ 2^0 = 1
        BY PowersOfTwo
      <4>4. Magnitude(next) = (Fractions + 0) * 2^0
        <5>1. (Fractions + (next % Fractions)) * 2^((next \div Fractions) - 1) = (Fractions + 0) * 2^0
          BY <4>2, <4>3
        <5> QED
          BY <5>1, <4>2, <1>4
      <4> QED
        BY <4>4, <4>3, <2>1, <1>p, <3>2
    <3> QED
      BY <1>1, <3>1, <3>2, <1>p
  <2> QED
    BY <2>1, <2>2, <1>1, <1>p
<1>7. CASE k # 0
  <2> DEFINE j == k - 1
             u == 2^j
  <2>1. j \in Nat /\ k = j + 1 /\ k - 1 = j
    BY <1>1, <1>7
  <2>2. u \in Nat /\ u >= 1 /\ 2^(j + 1) = 2 * u
    BY <2>1, PowersOfTwo
  <2>3. Magnitude(p) = (Fractions + f) * u /\ UnitOf(p) = u
    BY <1>2, <1>3, <1>7, <2>1
  <2>4. (k + 1) - 1 = j + 1
    BY <2>1
  <2> HIDE DEF j
  <2>5. Magnitude(next) = (Fractions + f + 1) * u
    <3>1. CASE f + 1 < Fractions
      <4>1. next = Fractions * k + (f + 1) /\ f + 1 \in Nat
        BY <1>1, <1>p
      <4>2. next \div Fractions = k /\ next % Fractions = f + 1
        BY <4>1, <1>5, <1>1, <3>1
      <4>3. Magnitude(next) = (Fractions + (f + 1)) * u
        BY <4>2, <1>4, <1>7, <2>1
      <4>4. Fractions + (f + 1) = Fractions + f + 1
        BY <1>p, <1>1
      <4> QED
        BY <4>3, <4>4
    <3>2. CASE f + 1 = Fractions
      <4>1. next = Fractions * (k + 1) + 0 /\ k + 1 \in Nat /\ 0 \in Nat
        BY <1>1, <1>p, <3>2
      <4>2. next \div Fractions = k + 1 /\ next % Fractions = 0
        BY <4>1, <1>5, <1>p
      <4>3. Magnitude(next) = (Fractions + 0) * 2^(j + 1)
        <5>1. k + 1 # 0
          BY <1>1
        <5>2. (Fractions + (next % Fractions)) * 2^((next \div Fractions) - 1) = (Fractions + 0) * 2^(j + 1)
          BY <4>2, <2>4
        <5> QED
          BY <5>1, <5>2, <4>2, <1>4
      <4> HIDE DEF u
      <4>4. Magnitude(next) = Fractions * (2 * u) /\ Fractions + f + 1 = 2 * Fractions
        BY <4>3, <2>2, <3>2, <1>p, <1>1
      <4>5. Fractions * (2 * u) = (2 * Fractions) * u
        BY <1>p, <2>2
      <4> QED
        BY <4>4, <4>5
    <3> QED
      BY <1>1, <3>1, <3>2, <1>p
  <2> HIDE DEF u
  <2>6. Fractions + f \in Nat /\ Fractions + f >= Fractions /\ Fractions + f <= 2 * Fractions /\ 2 * Fractions \in Nat
    BY <1>1, <1>p
  <2>7. (Fractions + f) * u \in Nat /\ Fractions * u <= (Fractions + f) * u /\ (Fractions + f) * u <= (2 * Fractions) * u
    BY <2>2, <2>6, <1>p, Products
  <2>8. (2 * Fractions) * u = 2 * (Fractions * u) /\ (Fractions + f + 1) * u = (Fractions + f) * u + u
    BY <2>2, <1>p, <1>1
  <2>9. p >= Fractions
    BY <1>1, <1>7, <1>p
  <2> QED
    BY <2>2, <2>3, <2>5, <2>7, <2>8, <2>9, <1>p
<1> QED
  BY <1>6, <1>7

(* The pattern 0 is the value 0.                                           *)
LEMMA ZeroIsZero == Magnitude(0) = 0
<1>1. Fractions \in Nat \ {0} /\ 0 = Fractions * 0 + 0 /\ 0 < Fractions
  BY FormatSizes
<1>2. 0 \div Fractions = 0 /\ 0 % Fractions = 0
  BY <1>1, Division
<1> QED
  BY <1>2 DEF Magnitude, Fractions

(* Patterns are ordered as their values.                                   *)
LEMMA Increasing ==
  ASSUME NEW p \in Nat, NEW q \in Nat
  PROVE  /\ p <= q => Magnitude(p) <= Magnitude(q)
         /\ p < q => Magnitude(p) < Magnitude(q)
<1> DEFINE S == {d \in Nat : Magnitude(p) + d <= Magnitude(p + d)}
<1>1. 0 \in S
  <2>1. p + 0 = p /\ Magnitude(p) \in Nat
    BY Units
  <2> QED
    BY <2>1
<1>2. ASSUME NEW d \in S PROVE d + 1 \in S
  <2> DEFINE j == p + d
  <2>1. j \in Nat /\ p + (d + 1) = j + 1 /\ Magnitude(p) + d <= Magnitude(j) /\ d \in Nat
    OBVIOUS
  <2> HIDE DEF j, S
  <2>2. Magnitude(j + 1) >= Magnitude(j) + 1 /\ Magnitude(j) \in Nat /\ Magnitude(p) \in Nat
        /\ Magnitude(j + 1) \in Nat
    BY <2>1, Units
  <2>3. Magnitude(p) + (d + 1) <= Magnitude(p + (d + 1))
    BY <2>1, <2>2
  <2> QED
    BY <2>1, <2>3 DEF S
<1>3. S = Nat
  <2> HIDE DEF S
  <2>1. S \in SUBSET Nat
    BY DEF S
  <2> QED
    BY <1>1, <1>2, <2>1, Induction
<1>4. ASSUME p <= q PROVE Magnitude(p) + (q - p) <= Magnitude(q)
  <2>1. q - p \in Nat /\ p + (q - p) = q
    BY <1>4
  <2> QED
    BY <1>3, <2>1
<1> QED
  BY <1>4, Units

(* One is a number.                                                        *)
LEMMA OneIsNatural == One \in Nat
<1> DEFINE k == ExponentBits - 1
           p == (2^k - 1) * Fractions
<1>1. k \in Nat
  BY FormatIsBinary
<1> HIDE DEF k
<1>2. 2^k - 1 \in Nat /\ Fractions \in Nat
  BY <1>1, PowersOfTwo, FormatSizes
<1>3. p \in Nat
  BY <1>2, Products
<1>4. One = Magnitude(p)
  BY DEF One, Fractions, k
<1> HIDE DEF p
<1> QED
  BY <1>3, <1>4, Units

(* How far a float is from m / n, times n.                                 *)
Distance(p, m, n) == Absolute(Magnitude(p) * n - m)

(* Distances below and above.                                              *)
LEMMA Distances ==
  ASSUME NEW m \in Nat, NEW n \in Nat \ {0}, NEW p \in Nat
  PROVE  /\ Distance(p, m, n) \in Nat /\ Magnitude(p) * n \in Nat
         /\ Magnitude(p) * n <= m => Distance(p, m, n) = m - Magnitude(p) * n
         /\ Magnitude(p) * n >= m => Distance(p, m, n) = Magnitude(p) * n - m
<1> DEFINE x == Magnitude(p) * n
<1>1. x \in Nat
  BY Units, Products
<1>2. Distance(p, m, n) = Absolute(x - m)
  BY DEF Distance
<1> HIDE DEF x
<1>3. /\ Distance(p, m, n) \in Nat
      /\ x <= m => Distance(p, m, n) = m - x
      /\ x >= m => Distance(p, m, n) = x - m
  BY <1>1, <1>2 DEF Absolute
<1> QED
  BY <1>1, <1>3 DEF x

(* There is a nearest float, and of two the even one: no third is as near. *)
LEMMA NearestIsNearest ==
  ASSUME NEW m \in Nat, NEW n \in Nat \ {0}
  PROVE  /\ Nearest(m, n) \in 0..Infinity
         /\ \A q \in 0..Infinity : Distance(Nearest(m, n), m, n) <= Distance(q, m, n)
<1> DEFINE D(p) == Distance(p, m, n)
           IsChosen(p) == \A q \in 0..Infinity : D(p) < D(q) \/ (D(p) = D(q) /\ (p % 2 = 0 \/ p = q))
           IsLeast(p) == \A q \in 0..Infinity : D(p) <= D(q)
<1>i. Infinity \in Nat /\ 0..Infinity \subseteq Nat /\ 0 \in 0..Infinity
  BY FormatSizes
<1>1. Nearest(m, n) = CHOOSE p \in 0..Infinity : IsChosen(p)
  BY DEF Nearest, Distance
<1>d. \A p \in 0..Infinity : D(p) \in Nat
  BY <1>i, Distances
<1>2. PICK a \in 0..Infinity : IsLeast(a)
  <2> DEFINE S == {D(p) : p \in 0..Infinity}
  <2>1. S \in SUBSET Nat /\ S # {}
    BY <1>d, <1>i
  <2>2. PICK least \in S : \A d \in S : least <= d
    <3> HIDE DEF S
    <3> QED
      BY <2>1, LeastElement
  <2> QED
    BY <2>2
<1>3. ASSUME NEW b \in 0..Infinity, NEW c \in 0..Infinity, IsLeast(b), IsLeast(c), b < c
      PROVE  c = b + 1
  <2> SUFFICES ASSUME c # b + 1 PROVE FALSE
    OBVIOUS
  <2> DEFINE j == b + 1
             X(p) == Magnitude(p) * n
  <2>1. j \in 0..Infinity /\ b < j /\ j < c /\ b \in Nat /\ c \in Nat /\ j \in Nat
    BY <1>3, <1>i
  <2>2. X(b) < X(j) /\ X(j) < X(c)
    <3> HIDE DEF j
    <3>1. Magnitude(b) < Magnitude(j) /\ Magnitude(j) < Magnitude(c)
      BY <2>1, Increasing
    <3>2. n >= 1 /\ n \in Nat
      OBVIOUS
    <3> QED
      BY <2>1, <3>1, <3>2, Units, Products
  <2>3. D(b) = D(c) /\ D(b) <= D(j)
    <3>1. D(b) <= D(c) /\ D(c) <= D(b) /\ D(b) <= D(j)
      BY <1>3, <2>1
    <3> QED
      BY <3>1, <1>d
  <2>4. \A p \in {b, c, j} : /\ D(p) \in Nat /\ X(p) \in Nat
                             /\ X(p) <= m => D(p) = m - X(p)
                             /\ X(p) >= m => D(p) = X(p) - m
    <3> HIDE DEF j
    <3> QED
      BY <2>1, Distances
  <2> HIDE DEF j, D, X
  <2>5. D(b) = D(c) /\ D(b) <= D(j) /\ X(b) < X(j) /\ X(j) < X(c)
    BY <2>2, <2>3
  <2>6. \A p \in {b, c, j} : X(p) \in Nat /\ D(p) = IF X(p) <= m THEN m - X(p) ELSE X(p) - m
    BY <2>4
  <2> QED
    BY <2>5, <2>6
<1>4. \E p \in 0..Infinity : IsChosen(p)
  <2>1. CASE \E e \in 0..Infinity : IsLeast(e) /\ e % 2 = 0
    <3>1. PICK e \in 0..Infinity : IsLeast(e) /\ e % 2 = 0
      BY <2>1
    <3>2. ASSUME NEW q \in 0..Infinity PROVE D(e) < D(q) \/ D(e) = D(q)
      <4>1. D(e) <= D(q) /\ D(e) \in Nat /\ D(q) \in Nat
        BY <3>1, <1>d
      <4> HIDE DEF D
      <4> QED
        BY <4>1
    <3> QED
      BY <3>1, <3>2
  <2>2. CASE \A e \in 0..Infinity : IsLeast(e) => e % 2 # 0
    <3>1. ASSUME NEW q \in 0..Infinity, q # a, D(q) = D(a) PROVE FALSE
      <4>1. IsLeast(q)
        BY <3>1, <1>2
      <4>2. q = a + 1 \/ a = q + 1
        <5>1. q < a \/ a < q
          BY <3>1, <1>i
        <5> HIDE DEF IsLeast
        <5> QED
          BY <5>1, <4>1, <1>2, <1>3
      <4>3. q % 2 # 0 /\ a % 2 # 0
        BY <4>1, <1>2, <2>2
      <4> QED
        BY <4>2, <4>3, <1>i
    <3>2. ASSUME NEW q \in 0..Infinity PROVE D(a) < D(q) \/ (D(a) = D(q) /\ a = q)
      <4>1. D(a) <= D(q) /\ D(a) \in Nat /\ D(q) \in Nat
        BY <1>2, <1>d
      <4>2. q # a => D(q) # D(a)
        BY <3>1
      <4> HIDE DEF D
      <4> QED
        BY <4>1, <4>2
    <3> QED
      BY <3>2
  <2> QED
    BY <2>1, <2>2
<1>5. Nearest(m, n) \in 0..Infinity /\ IsChosen(Nearest(m, n))
  <2> HIDE DEF IsChosen
  <2> QED
    BY <1>1, <1>4
<1>6. ASSUME NEW q \in 0..Infinity PROVE D(Nearest(m, n)) <= D(q)
  <2>1. D(Nearest(m, n)) < D(q) \/ D(Nearest(m, n)) = D(q)
    BY <1>5
  <2>2. D(Nearest(m, n)) \in Nat /\ D(q) \in Nat
    BY <1>5, <1>d
  <2> HIDE DEF D
  <2> QED
    BY <2>1, <2>2
<1> QED
  BY <1>5, <1>6

(* Rounding does not reach a bound from beyond the next float.             *)
LEMMA NearestIsBelow ==
  ASSUME NEW m \in Nat, NEW n \in Nat \ {0}, NEW b \in Nat, b < Infinity, Nearest(m, n) <= b
  PROVE  m <= Magnitude(b + 1) * n
<1> DEFINE a == Nearest(m, n)
           next == b + 1
<1>1. Infinity \in Nat /\ next \in 0..Infinity /\ next \in Nat /\ b < next
  BY FormatSizes
<1>2. a \in 0..Infinity /\ a \in Nat /\ a <= b /\ a < next
  BY <1>1, NearestIsNearest
<1>3. Distance(a, m, n) <= Distance(next, m, n)
  <2> HIDE DEF next
  <2> QED
    BY <1>1, NearestIsNearest
<1> HIDE DEF a, next
<1>4. Magnitude(a) * n < Magnitude(next) * n
  <2>1. Magnitude(a) < Magnitude(next) /\ Magnitude(a) \in Nat /\ Magnitude(next) \in Nat
    BY <1>1, <1>2, Increasing, Units
  <2>2. n \in Nat /\ n >= 1
    OBVIOUS
  <2> QED
    BY <2>1, <2>2, Products
<1>5. \A p \in {a, next} : /\ Distance(p, m, n) \in Nat /\ Magnitude(p) * n \in Nat
                           /\ Magnitude(p) * n <= m => Distance(p, m, n) = m - Magnitude(p) * n
                           /\ Magnitude(p) * n >= m => Distance(p, m, n) = Magnitude(p) * n - m
  BY <1>1, <1>2, Distances
<1>6. m <= Magnitude(next) * n
  <2> DEFINE x == Magnitude(a) * n
             y == Magnitude(next) * n
  <2>1. /\ x \in Nat /\ y \in Nat /\ x < y
        /\ x <= m => Distance(a, m, n) = m - x
        /\ y <= m => Distance(next, m, n) = m - y
    BY <1>4, <1>5
  <2> HIDE DEF x, y
  <2>2. m <= y
    BY <2>1, <1>3
  <2> QED
    BY <2>2 DEF y
<1> QED
  BY <1>6 DEF next

(* Rounding does not pass a bound.                                         *)
LEMMA NearestIsWithin ==
  ASSUME NEW m \in Nat, NEW n \in Nat \ {0}, NEW b \in 0..Infinity, m <= Magnitude(b) * n
  PROVE  Nearest(m, n) <= b
<1> DEFINE a == Nearest(m, n)
<1>1. Infinity \in Nat /\ b \in Nat /\ a \in 0..Infinity /\ a \in Nat
  BY FormatSizes, NearestIsNearest
<1>2. Distance(a, m, n) <= Distance(b, m, n)
  BY NearestIsNearest
<1> SUFFICES ASSUME b < a PROVE FALSE
  BY <1>1
<1> HIDE DEF a
<1>3. Magnitude(b) * n < Magnitude(a) * n
  <2>1. Magnitude(b) < Magnitude(a) /\ Magnitude(a) \in Nat /\ Magnitude(b) \in Nat
    BY <1>1, Increasing, Units
  <2>2. n \in Nat /\ n >= 1
    OBVIOUS
  <2> QED
    BY <2>1, <2>2, Products
<1>4. \A p \in {a, b} : /\ Distance(p, m, n) \in Nat /\ Magnitude(p) * n \in Nat
                        /\ Magnitude(p) * n >= m => Distance(p, m, n) = Magnitude(p) * n - m
  BY <1>1, Distances
<1> DEFINE x == Magnitude(a) * n
           y == Magnitude(b) * n
<1>5. /\ x \in Nat /\ y \in Nat /\ y < x /\ m <= y
      /\ x >= m => Distance(a, m, n) = x - m
      /\ y >= m => Distance(b, m, n) = y - m
  BY <1>3, <1>4
<1> HIDE DEF x, y
<1> QED
  BY <1>2, <1>5

(* A difference is rounded by at most half a unit: one part in 2 * 2 * Fractions.  *)
LEMMA RoundingIsRelative ==
  ASSUME NEW d \in Nat, Nearest(d, 1) # Infinity
  PROVE  LET e == Magnitude(Nearest(d, 1))
         IN /\ 2 * (Fractions * d) <= 2 * (Fractions * e) + e
            /\ 2 * (Fractions * e) <= 2 * (Fractions * d) + d
<1> DEFINE a == Nearest(d, 1)
           e == Magnitude(a)
           next == a + 1
<1> SUFFICES 2 * (Fractions * d) <= 2 * (Fractions * e) + e /\ 2 * (Fractions * e) <= 2 * (Fractions * d) + d
  OBVIOUS
<1>1. 1 \in Nat \ {0} /\ Infinity \in Nat /\ Fractions \in Nat /\ Fractions >= 1
  BY FormatSizes
<1>2. /\ a \in 0..Infinity /\ a \in Nat
      /\ \A q \in 0..Infinity : Distance(a, d, 1) <= Distance(q, d, 1)
  BY <1>1, NearestIsNearest
<1>3. next \in 0..Infinity /\ next \in Nat
  BY <1>1, <1>2
<1>4. ASSUME NEW p \in Nat
      PROVE  /\ Magnitude(p) \in Nat /\ Distance(p, d, 1) \in Nat
             /\ Magnitude(p) <= d => Distance(p, d, 1) = d - Magnitude(p)
             /\ Magnitude(p) >= d => Distance(p, d, 1) = Magnitude(p) - d
  <2>1. Magnitude(p) \in Nat /\ Magnitude(p) * 1 = Magnitude(p)
    BY Units
  <2>2. /\ Distance(p, d, 1) \in Nat
        /\ Magnitude(p) * 1 <= d => Distance(p, d, 1) = d - Magnitude(p) * 1
        /\ Magnitude(p) * 1 >= d => Distance(p, d, 1) = Magnitude(p) * 1 - d
    BY <1>1, Distances
  <2> QED
    BY <2>1, <2>2
<1>5. Distance(a, d, 1) <= Distance(next, d, 1)
  <2> HIDE DEF a, next
  <2> QED
    BY <1>2, <1>3
<1>6. CASE e <= d
  <2> DEFINE u == UnitOf(a)
             y == Magnitude(next)
  <2>1. /\ e \in Nat /\ u \in Nat /\ u >= 1 /\ y = e + u
        /\ a < Fractions => u = 1
        /\ a >= Fractions => Fractions * u <= e
    <3> HIDE DEF a
    <3> QED
      BY <1>2, Units
  <2>2. Distance(a, d, 1) = d - e
    BY <1>2, <1>4, <1>6
  <2>3. /\ y <= d => Distance(next, d, 1) = d - y
        /\ y >= d => Distance(next, d, 1) = y - d
    BY <1>3, <1>4
  <2> HIDE DEF a, e, u, y, next
  <2>4. 2 * (d - e) <= u
    BY <2>1, <2>2, <2>3, <1>5
  <2> DEFINE over == d - e
  <2>5. over \in Nat /\ d = e + over /\ 2 * over <= u
    BY <2>4, <1>6, <2>1
  <2> HIDE DEF over
  <2>6. 2 * (Fractions * over) <= e
    <3>1. CASE a < Fractions
      <4>1. over = 0
        BY <3>1, <2>1, <2>5
      <4> QED
        BY <4>1, <2>1, <1>1
    <3>2. CASE a >= Fractions
      <4>1. (2 * over) * Fractions <= u * Fractions
        BY <2>1, <2>5, <1>1, Products
      <4>2. (2 * over) * Fractions = 2 * (Fractions * over) /\ u * Fractions = Fractions * u
        BY <2>1, <2>5, <1>1
      <4> QED
        BY <4>1, <4>2, <3>2, <2>1, <2>5, <1>1
    <3> QED
      BY <3>1, <3>2, <1>1, <1>2
  <2>7. Fractions * d = Fractions * e + Fractions * over /\ Fractions * e \in Nat /\ Fractions * over \in Nat /\ Fractions * d \in Nat
    BY <2>1, <2>5, <1>1
  <2> QED
    BY <2>1, <2>5, <2>6, <2>7
<1>7. CASE e > d
  <2> DEFINE back == a - 1
             u == UnitOf(back)
             y == Magnitude(back)
  <2>0. a # 0
    <3>1. Magnitude(0) = 0
      BY ZeroIsZero
    <3> QED
      BY <3>1, <1>7
  <2>1. back \in Nat /\ back \in 0..Infinity /\ a = back + 1
    BY <2>0, <1>1, <1>2
  <2>2. Distance(a, d, 1) <= Distance(back, d, 1)
    <3> HIDE DEF a, back
    <3> QED
      BY <1>2, <2>1
  <2>3. /\ e \in Nat /\ y \in Nat /\ u \in Nat /\ u >= 1 /\ e = y + u
        /\ back < Fractions => u = 1
        /\ back >= Fractions => Fractions * u <= y
    <3>1. e = Magnitude(back + 1) /\ e \in Nat
      BY <2>1, <1>2, Units
    <3> HIDE DEF back, e
    <3> QED
      BY <3>1, <2>1, Units
  <2>4. Distance(a, d, 1) = e - d
    BY <1>2, <1>4, <1>7
  <2>5. /\ y <= d => Distance(back, d, 1) = d - y
        /\ y >= d => Distance(back, d, 1) = y - d
    <3> HIDE DEF back
    <3> QED
      BY <2>1, <1>4
  <2> HIDE DEF a, e, u, y, back
  <2>6. 2 * (e - d) <= u /\ y <= d
    BY <2>2, <2>3, <2>4, <2>5, <1>7
  <2> DEFINE over == e - d
  <2>7. over \in Nat /\ e = d + over /\ 2 * over <= u
    BY <2>6, <1>7, <2>3
  <2> HIDE DEF over
  <2>8. 2 * (Fractions * over) <= d
    <3>1. CASE back < Fractions
      <4>1. over = 0
        BY <3>1, <2>3, <2>7
      <4> QED
        BY <4>1, <1>1
    <3>2. CASE back >= Fractions
      <4>1. (2 * over) * Fractions <= u * Fractions
        BY <2>3, <2>7, <1>1, Products
      <4>2. (2 * over) * Fractions = 2 * (Fractions * over) /\ u * Fractions = Fractions * u
        BY <2>3, <2>7, <1>1
      <4> QED
        BY <4>1, <4>2, <3>2, <2>3, <2>6, <2>7, <1>1
    <3> QED
      BY <3>1, <3>2, <1>1, <2>1
  <2>9. Fractions * e = Fractions * d + Fractions * over /\ Fractions * e \in Nat /\ Fractions * over \in Nat /\ Fractions * d \in Nat
    BY <2>3, <2>7, <1>1
  <2> QED
    BY <2>3, <2>7, <2>8, <2>9
<1>8. e \in Nat
  <2> HIDE DEF a
  <2> QED
    BY <1>2, <1>4
<1> QED
  BY <1>6, <1>7, <1>8

(* A relative error in y and one step from b to c make up for each other.  *)
LEMMA Scaling ==
  ASSUME NEW k \in Nat, k >= 1, NEW x \in Nat, NEW y \in Nat, NEW b \in Nat, NEW c \in Nat,
         NEW one \in Nat, NEW scale \in Nat,
         k * x <= k * y + y, y * one <= b * scale, k * b + b <= k * c
  PROVE  x * one <= c * scale
<1>1. (k * x) * one <= (k * y + y) * one
  <2>1. k * x \in Nat /\ k * y + y \in Nat
    OBVIOUS
  <2> QED
    BY <2>1, Products
<1>2. (k + 1) * (y * one) <= (k + 1) * (b * scale)
  <2>1. k + 1 \in Nat /\ y * one \in Nat /\ b * scale \in Nat
    OBVIOUS
  <2>2. (y * one) * (k + 1) <= (b * scale) * (k + 1)
    BY <2>1, Products
  <2> QED
    BY <2>1, <2>2
<1>3. (k * b + b) * scale <= (k * c) * scale
  <2>1. k * b + b \in Nat /\ k * c \in Nat
    OBVIOUS
  <2> QED
    BY <2>1, Products
<1>4. (k * y + y) * one = (k + 1) * (y * one) /\ (k + 1) * (b * scale) = (k * b + b) * scale
  OBVIOUS
<1>5. (k * x) * one = k * (x * one) /\ (k * c) * scale = k * (c * scale)
  OBVIOUS
<1> DEFINE u == x * one
           v == c * scale
<1>6. u \in Nat /\ v \in Nat
  OBVIOUS
<1>7. k * u <= k * v
  <2> DEFINE p == (k * y + y) * one
             q == (k * b + b) * scale
  <2>1. p \in Nat /\ q \in Nat /\ k * u \in Nat /\ k * v \in Nat
    OBVIOUS
  <2>2. k * u <= p /\ p <= q /\ q <= k * v
    BY <1>1, <1>2, <1>3, <1>4, <1>5
  <2> HIDE DEF p, q, u, v
  <2> QED
    BY <2>1, <2>2
<1> HIDE DEF u, v
<1>8. ~ v < u
  <2> SUFFICES ASSUME v < u PROVE FALSE
    OBVIOUS
  <2>1. v * k < u * k
    BY <1>6, Products
  <2> QED
    BY <2>1, <1>6, <1>7
<1>9. u <= v
  BY <1>6, <1>8
<1> QED
  BY <1>9 DEF u, v

(* The next float is further away than a rounding error.                   *)
LEMMA NextBound ==
  ASSUME NEW b \in Nat
  PROVE  (2 * Fractions) * Magnitude(b) + Magnitude(b) <= (2 * Fractions) * Magnitude(b + 1)
<1> DEFINE x == Magnitude(b)
           u == UnitOf(b)
<1>1. Fractions \in Nat /\ x \in Nat /\ u \in Nat /\ Magnitude(b + 1) = x + u /\ x <= 2 * (Fractions * u)
  BY FormatSizes, Units
<1> HIDE DEF x, u
<1>2. (2 * Fractions) * (x + u) = (2 * Fractions) * x + 2 * (Fractions * u) /\ (2 * Fractions) * x \in Nat /\ Fractions * u \in Nat
  BY <1>1
<1>3. (2 * Fractions) * x + x <= (2 * Fractions) * (x + u)
  BY <1>1, <1>2
<1> QED
  BY <1>1, <1>3 DEF x

(* Two roundings, of the difference and of the ratio, err by two floats.   *)
LEMMA RelativeIsSound ==
  ASSUME NEW d \in Nat, Nearest(d, 1) # Infinity, NEW scale \in Nat \ {0}, NEW b \in Nat, b < Infinity
  PROVE  LET error == Magnitude(Nearest(d, 1))
         IN /\ Nearest(error * One, scale) <= b => d * One <= Magnitude(b + 2) * scale
            /\ b > 0 /\ d * One <= Magnitude(b - 1) * scale => Nearest(error * One, scale) <= b
<1> DEFINE error == Magnitude(Nearest(d, 1))
           k == 2 * Fractions
<1>1. /\ Fractions \in Nat /\ Fractions >= 1 /\ One \in Nat /\ 1 \in Nat \ {0} /\ Infinity \in Nat
      /\ Nearest(d, 1) \in 0..Infinity /\ error \in Nat
  BY FormatSizes, OneIsNatural, NearestIsNearest, Units, SMTT(30)
<1>2. k * d <= k * error + error /\ k * error <= k * d + d
  <2>1. 2 * (Fractions * d) <= 2 * (Fractions * error) + error /\ 2 * (Fractions * error) <= 2 * (Fractions * d) + d
    BY RoundingIsRelative
  <2> HIDE DEF error
  <2>2. k * d = 2 * (Fractions * d) /\ k * error = 2 * (Fractions * error)
    BY <1>1
  <2> QED
    BY <2>1, <2>2
<1>3. k \in Nat /\ k >= 1
  BY <1>1
<1>4. \A c \in Nat : Magnitude(c) \in Nat /\ k * Magnitude(c) + Magnitude(c) <= k * Magnitude(c + 1)
  BY NextBound, Units
<1>5. error * One \in Nat
  BY <1>1, Products
<1>6. SUFFICES /\ Nearest(error * One, scale) <= b => d * One <= Magnitude(b + 2) * scale
               /\ b > 0 /\ d * One <= Magnitude(b - 1) * scale => Nearest(error * One, scale) <= b
  OBVIOUS
<1> HIDE DEF error, k
<1>7. ASSUME Nearest(error * One, scale) <= b PROVE d * One <= Magnitude(b + 2) * scale
  <2> DEFINE next == b + 1
  <2>1. error * One <= Magnitude(b + 1) * scale
    <3> DEFINE m == error * One
    <3>1. m \in Nat /\ Nearest(m, scale) <= b
      BY <1>5, <1>7
    <3> HIDE DEF m
    <3>2. m <= Magnitude(b + 1) * scale
      BY <3>1, NearestIsBelow
    <3> QED
      BY <3>2 DEF m
  <2>2. next \in Nat /\ b + 2 = next + 1 /\ b + 2 \in Nat
    OBVIOUS
  <2>3. k * Magnitude(next) + Magnitude(next) <= k * Magnitude(b + 2)
        /\ Magnitude(next) \in Nat /\ Magnitude(b + 2) \in Nat
    <3> HIDE DEF next
    <3> QED
      BY <2>2, <1>4
  <2>4. error * One <= Magnitude(next) * scale
    BY <2>1
  <2> HIDE DEF next
  <2> QED
    BY <2>3, <2>4, <1>1, <1>2, <1>3, Scaling
<1>8. ASSUME b > 0, d * One <= Magnitude(b - 1) * scale PROVE Nearest(error * One, scale) <= b
  <2> DEFINE back == b - 1
  <2>1. back \in Nat /\ b = back + 1 /\ d * One <= Magnitude(back) * scale
    BY <1>8
  <2> HIDE DEF back
  <2>2. k * Magnitude(back) + Magnitude(back) <= k * Magnitude(b)
        /\ Magnitude(back) \in Nat /\ Magnitude(b) \in Nat
    BY <2>1, <1>4
  <2>3. error * One <= Magnitude(b) * scale
    BY <2>1, <2>2, <1>1, <1>2, <1>3, Scaling
  <2>4. b \in 0..Infinity
    BY <1>1
  <2> DEFINE m == error * One
  <2>5. m \in Nat /\ m <= Magnitude(b) * scale
    BY <1>5, <2>3
  <2> HIDE DEF m
  <2>6. Nearest(m, scale) <= b
    BY <2>4, <2>5, NearestIsWithin
  <2> QED
    BY <2>6 DEF m
<1> QED
  BY <1>7, <1>8

(* One rounding errs by less.                                              *)
LEMMA AbsoluteIsSound ==
  ASSUME NEW d \in Nat, NEW b \in Nat, b < Infinity
  PROVE  /\ Nearest(d, 1) <= b => d <= Magnitude(b + 2)
         /\ b > 0 /\ d <= Magnitude(b - 1) => Nearest(d, 1) <= b
<1>1. 1 \in Nat \ {0} /\ Infinity \in Nat /\ b \in 0..Infinity
  BY FormatSizes
<1>2. ASSUME Nearest(d, 1) <= b PROVE d <= Magnitude(b + 2)
  <2> DEFINE next == b + 1
  <2>1. d <= Magnitude(b + 1) * 1
    BY <1>1, <1>2, NearestIsBelow
  <2>2. next \in Nat /\ b + 2 \in Nat /\ next <= b + 2
    OBVIOUS
  <2>3. d <= Magnitude(next) * 1
    BY <2>1
  <2> HIDE DEF next
  <2>4. Magnitude(next) <= Magnitude(b + 2) /\ Magnitude(next) \in Nat /\ Magnitude(b + 2) \in Nat
    BY <2>2, Increasing, Units
  <2> QED
    BY <2>3, <2>4
<1>3. ASSUME b > 0, d <= Magnitude(b - 1) PROVE Nearest(d, 1) <= b
  <2> DEFINE back == b - 1
  <2>1. back \in Nat /\ back <= b /\ d <= Magnitude(back)
    BY <1>3
  <2> HIDE DEF back
  <2>2. Magnitude(back) <= Magnitude(b) /\ Magnitude(back) \in Nat /\ Magnitude(b) \in Nat
    BY <2>1, Increasing, Units
  <2>3. d <= Magnitude(b) * 1
    BY <2>1, <2>2
  <2> QED
    BY <2>3, <1>1, NearestIsWithin
<1> QED
  BY <1>2, <1>3

(* The value at a place of the order of all finite floats.                 *)
OrderedValue(k) == IF k < 0 THEN -Magnitude(-k) ELSE Magnitude(k)

(* The places are ordered as the values.                                   *)
LEMMA OrderedValues ==
  ASSUME NEW j \in Int, NEW k \in Int
  PROVE  /\ OrderedValue(k) \in Int
         /\ j < k => OrderedValue(j) < OrderedValue(k)
         /\ OrderedValue(j) = OrderedValue(k) => j = k
         /\ OrderedValue(j) < OrderedValue(k) => j < k
         /\ OrderedValue(j) <= OrderedValue(k) => j <= k
         /\ j <= k => OrderedValue(j) <= OrderedValue(k)
<1>1. ASSUME NEW m \in Int, NEW n \in Int, m < n PROVE OrderedValue(m) < OrderedValue(n)
  <2>1. CASE n < 0
    <3>1. -m \in Nat /\ -n \in Nat /\ -n < -m /\ m < 0
      BY <1>1, <2>1
    <3>2. Magnitude(-n) < Magnitude(-m) /\ Magnitude(-m) \in Nat /\ Magnitude(-n) \in Nat
      BY <3>1, Increasing, Units
    <3>3. OrderedValue(m) = -Magnitude(-m) /\ OrderedValue(n) = -Magnitude(-n)
      BY <3>1, <2>1 DEF OrderedValue
    <3> QED
      BY <3>2, <3>3
  <2>2. CASE n >= 0 /\ m < 0
    <3>1. -m \in Nat /\ 0 \in Nat /\ 0 < -m /\ n \in Nat
      BY <2>2
    <3>2. Magnitude(0) < Magnitude(-m) /\ Magnitude(0) \in Nat /\ Magnitude(-m) \in Nat /\ Magnitude(n) \in Nat
      BY <3>1, Increasing, Units
    <3>3. OrderedValue(m) = -Magnitude(-m) /\ OrderedValue(n) = Magnitude(n)
      BY <2>2 DEF OrderedValue
    <3> QED
      BY <3>2, <3>3
  <2>3. CASE m >= 0
    <3>1. m \in Nat /\ n \in Nat
      BY <2>3, <1>1
    <3>2. Magnitude(m) < Magnitude(n)
      BY <3>1, <1>1, Increasing
    <3>3. OrderedValue(m) = Magnitude(m) /\ OrderedValue(n) = Magnitude(n)
      BY <3>1 DEF OrderedValue
    <3> QED
      BY <3>2, <3>3
  <2> QED
    BY <2>1, <2>2, <2>3
<1>2. ASSUME NEW n \in Int PROVE OrderedValue(n) \in Int
  <2>1. n < 0 => -n \in Nat
    OBVIOUS
  <2>2. n >= 0 => n \in Nat
    OBVIOUS
  <2>3. CASE n < 0
    <3>1. Magnitude(-n) \in Nat
      BY <2>1, <2>3, Units
    <3> QED
      BY <3>1, <2>3 DEF OrderedValue
  <2>4. CASE n >= 0
    <3>1. Magnitude(n) \in Nat
      BY <2>2, <2>4, Units
    <3> QED
      BY <3>1, <2>4 DEF OrderedValue
  <2> QED
    BY <2>3, <2>4
<1>3. /\ OrderedValue(j) \in Int /\ OrderedValue(k) \in Int
      /\ j < k => OrderedValue(j) < OrderedValue(k)
      /\ k < j => OrderedValue(k) < OrderedValue(j)
  BY <1>1, <1>2
<1> DEFINE x == OrderedValue(j)
           y == OrderedValue(k)
<1>4. x \in Int /\ y \in Int /\ (j < k => x < y) /\ (k < j => y < x) /\ (j = k => x = y)
  BY <1>3
<1> HIDE DEF x, y
<1>5. /\ j < k => x < y
      /\ x = y => j = k
      /\ x < y => j < k
      /\ x <= y => j <= k
      /\ j <= k => x <= y
  BY <1>4
<1> QED
  BY <1>3, <1>5 DEF x, y

(* ToOrdered gives the place of a float.                                   *)
LEMMA FiniteFloats ==
  ASSUME NEW x \in Finite
  PROVE  /\ Pattern(x) \in 0..(Infinity - 1) /\ Magnitude(Pattern(x)) \in Nat
         /\ ToOrdered(x) = IF IsNegative(x) THEN -Pattern(x) ELSE Pattern(x)
         /\ x = IF IsNegative(x) THEN Pattern(x) + SignBit ELSE Pattern(x)
         /\ ToOrdered(x) \in Int /\ Value(x) = OrderedValue(ToOrdered(x)) /\ Value(x) \in Int
         /\ ~ IsNaN(x) /\ ~ IsInfinite(x)
<1>1. SignBit \in Nat \ {0} /\ Infinity \in Nat /\ Infinity < SignBit
  BY FormatSizes
<1>2. x \in Nat /\ x <= 2 * SignBit - 1 /\ Pattern(x) < Infinity
  BY <1>1 DEF Finite, Floats, IsFinite
<1>3. \A q, r \in Nat : r < SignBit /\ x = SignBit * q + r => x % SignBit = r
  BY <1>1, <1>2, Division
<1>4. CASE x < SignBit
  <2>1. x = SignBit * 0 + x /\ 0 \in Nat
    BY <1>1, <1>2
  <2>2. Pattern(x) = x /\ ~ IsNegative(x)
    BY <2>1, <1>1, <1>2, <1>3, <1>4 DEF Pattern, IsNegative
  <2>3. ToOrdered(x) = x /\ Value(x) = Magnitude(x)
    BY <2>2 DEF ToOrdered, Value
  <2>4. OrderedValue(x) = Magnitude(x)
    BY <1>2 DEF OrderedValue
  <2>5. Magnitude(x) \in Nat
    BY <1>2, Units
  <2> QED
    BY <2>2, <2>3, <2>4, <2>5, <1>1, <1>2 DEF IsNaN, IsInfinite
<1>5. CASE x >= SignBit
  <2> DEFINE p == x - SignBit
  <2>1. x = SignBit * 1 + p /\ p \in Nat /\ 1 \in Nat /\ p < SignBit
    BY <1>1, <1>2, <1>5
  <2>2. Pattern(x) = p /\ IsNegative(x)
    <3> HIDE DEF p
    <3> QED
      BY <2>1, <1>1, <1>2, <1>3, <1>5 DEF Pattern, IsNegative
  <2>3. ToOrdered(x) = -p /\ x = p + SignBit
    BY <2>2, <1>1, <1>2 DEF ToOrdered
  <2> HIDE DEF p
  <2>4. Value(x) = -Magnitude(p)
    BY <2>2 DEF Value
  <2>5. OrderedValue(-p) = -Magnitude(p) /\ Magnitude(p) \in Nat
    <3>1. CASE p = 0
      <4>1. -p = 0
        <5> DEFINE minus == -p
        <5>1. minus \in Int /\ p + minus = 0
          BY <2>1
        <5> HIDE DEF minus
        <5>2. minus = 0
          BY <3>1, <5>1
        <5> QED
          BY <5>2 DEF minus
      <4>2. OrderedValue(0) = 0 /\ Magnitude(p) = 0
        BY <3>1, ZeroIsZero DEF OrderedValue
      <4> QED
        BY <4>1, <4>2
    <3>2. CASE p # 0
      <4>1. -p < 0 /\ -(-p) = p
        BY <3>2, <2>1
      <4>2. OrderedValue(-p) = -Magnitude(-(-p))
        BY <4>1 DEF OrderedValue
      <4> QED
        BY <4>1, <4>2, <2>1, Units
    <3> QED
      BY <3>1, <3>2
  <2> QED
    BY <2>1, <2>2, <2>3, <2>4, <2>5, <1>1, <1>2 DEF IsNaN, IsInfinite
<1> QED
  BY <1>1, <1>2, <1>4, <1>5

(* There are no gaps.                                                      *)
LEMMA EveryPlaceIsAFloat ==
  ASSUME NEW k \in Int, -Infinity < k, k < Infinity
  PROVE  \E z \in Finite : ToOrdered(z) = k
<1>1. SignBit \in Nat \ {0} /\ Infinity \in Nat /\ Infinity < SignBit
  BY FormatSizes
<1>2. CASE k >= 0
  <2>1. k \in Nat /\ k = SignBit * 0 + k /\ k < SignBit /\ 0 \in Nat
    BY <1>1, <1>2
  <2>2. k % SignBit = k
    BY <2>1, <1>1, Division
  <2>3. k \in Finite
    BY <2>1, <2>2, <1>1 DEF Finite, Floats, IsFinite, Pattern
  <2>4. ToOrdered(k) = k
    BY <2>1, <1>1 DEF ToOrdered, IsNegative
  <2> QED
    BY <2>3, <2>4
<1>3. CASE k < 0
  <2> DEFINE p == -k
             z == SignBit + p
  <2>1. p \in Nat /\ p < Infinity /\ p < SignBit /\ z \in Nat /\ z = SignBit * 1 + p /\ 1 \in Nat /\ k = -p
    BY <1>1, <1>3
  <2> HIDE DEF z, p
  <2>2. z % SignBit = p
    BY <2>1, <1>1, Division
  <2>3. z \in Finite
    BY <2>1, <2>2, <1>1 DEF Finite, Floats, IsFinite, Pattern
  <2>4. ToOrdered(z) = k
    BY <2>1, <1>1 DEF ToOrdered, IsNegative
  <2> QED
    BY <2>3, <2>4
<1> QED
  BY <1>2, <1>3

(* The finite values after x up to y.                                      *)
Between(x, y) == {Value(z) : z \in {z \in Finite : Value(x) < Value(z) /\ Value(z) <= Value(y)}}

(* Counting the values is subtracting the places.                          *)
LEMMA StepsUp ==
  ASSUME NEW x \in Finite, NEW y \in Finite, ToOrdered(x) <= ToOrdered(y)
  PROVE  Cardinality(Between(x, y)) = ToOrdered(y) - ToOrdered(x)
<1> DEFINE a == ToOrdered(x)
           b == ToOrdered(y)
           S == (a + 1)..b
           f == [k \in S |-> OrderedValue(k)]
<1>0. Infinity \in Nat
  BY FormatSizes
<1>1. ASSUME NEW z \in Finite
      PROVE  /\ ToOrdered(z) \in Int /\ Value(z) = OrderedValue(ToOrdered(z))
             /\ -Infinity < ToOrdered(z) /\ ToOrdered(z) < Infinity
  BY <1>0, FiniteFloats
<1>2. a \in Int /\ b \in Int /\ a <= b /\ -Infinity < a /\ b < Infinity
      /\ Value(x) = OrderedValue(a) /\ Value(y) = OrderedValue(b)
  BY <1>1
<1> HIDE DEF a, b
<1>3. ASSUME NEW k \in S PROVE OrderedValue(k) \in Between(x, y)
  <2>1. k \in Int /\ a < k /\ k <= b /\ -Infinity < k /\ k < Infinity
    BY <1>0, <1>2
  <2>2. PICK z \in Finite : ToOrdered(z) = k
    BY <2>1, EveryPlaceIsAFloat
  <2>3. Value(z) = OrderedValue(k)
    BY <2>2, <1>1
  <2>4. Value(x) < Value(z) /\ Value(z) <= Value(y)
    BY <2>1, <2>3, <1>2, OrderedValues
  <2> QED
    BY <2>3, <2>4 DEF Between
<1>4. ASSUME NEW v \in Between(x, y) PROVE \E k \in S : f[k] = v
  <2>1. PICK z \in Finite : Value(x) < Value(z) /\ Value(z) <= Value(y) /\ v = Value(z)
    BY DEF Between
  <2>2. ToOrdered(z) \in Int /\ Value(z) = OrderedValue(ToOrdered(z))
    BY <1>1
  <2>3. a < ToOrdered(z) /\ ToOrdered(z) <= b
    BY <2>1, <2>2, <1>2, OrderedValues
  <2>4. ToOrdered(z) \in S
    BY <2>2, <2>3, <1>2
  <2> QED
    BY <2>1, <2>2, <2>4
<1>5. ASSUME NEW j \in S, NEW k \in S, f[j] = f[k] PROVE j = k
  <2>1. j \in Int /\ k \in Int /\ OrderedValue(j) = OrderedValue(k)
    BY <1>2, <1>5
  <2> QED
    BY <2>1, OrderedValues
<1>6. f \in [S -> Between(x, y)]
  BY <1>3
<1>7. IsFiniteSet(S) /\ Cardinality(S) = b - a
  <2> DEFINE first == a + 1
  <2>1. first \in Int /\ b \in Int
    BY <1>2
  <2> HIDE DEF first
  <2>2. IsFiniteSet(first..b) /\ Cardinality(first..b) = IF first > b THEN 0 ELSE b - first + 1
    BY <2>1, FS_Interval
  <2> QED
    BY <2>2, <1>2 DEF first
<1> HIDE DEF f, S
<1>8. f \in Bijection(S, Between(x, y))
  <2>0. DOMAIN f = S
    BY <1>6
  <2>1. f \in Injection(S, Between(x, y))
    BY <1>5, <1>6, <2>0 DEF Injection, IsInjective
  <2>2. f \in Surjection(S, Between(x, y))
    BY <1>4, <1>6 DEF Surjection
  <2> QED
    BY <2>1, <2>2 DEF Bijection
<1>9. Cardinality(Between(x, y)) = Cardinality(S)
  BY <1>7, <1>8, FS_Bijection DEF ExistsBijection
<1> QED
  BY <1>7, <1>9 DEF a, b

(* ulp_distance counts the finite values on the way, also across zero.     *)
LEMMA UlpsAreSteps ==
  ASSUME NEW x \in Finite, NEW y \in Finite
  PROVE  UlpDistance(x, y) = Steps(x, y)
<1>1. ASSUME NEW z \in Finite PROVE ToOrdered(z) \in Int /\ Value(z) = OrderedValue(ToOrdered(z)) /\ Value(z) \in Int
  BY FiniteFloats
<1>2. CASE ToOrdered(x) <= ToOrdered(y)
  <2>1. Value(x) <= Value(y)
    BY <1>1, <1>2, OrderedValues
  <2>2. ASSUME NEW z \in Finite PROVE ~ (Value(y) < Value(z) /\ Value(z) <= Value(x))
    BY <2>1, <1>1
  <2>3. Steps(x, y) = Cardinality(Between(x, y))
    <3>1. {z \in Finite : \/ Value(x) < Value(z) /\ Value(z) <= Value(y)
                          \/ Value(y) < Value(z) /\ Value(z) <= Value(x)}
          = {z \in Finite : Value(x) < Value(z) /\ Value(z) <= Value(y)}
      BY <2>2
    <3> QED
      BY <3>1 DEF Steps, Between
  <2>4. UlpDistance(x, y) = ToOrdered(y) - ToOrdered(x)
    BY <1>1, <1>2 DEF UlpDistance, Absolute
  <2> QED
    BY <2>3, <2>4, <1>2, StepsUp
<1>3. CASE ToOrdered(y) <= ToOrdered(x)
  <2>1. Value(y) <= Value(x)
    BY <1>1, <1>3, OrderedValues
  <2>2. ASSUME NEW z \in Finite PROVE ~ (Value(x) < Value(z) /\ Value(z) <= Value(y))
    BY <2>1, <1>1
  <2>3. Steps(x, y) = Cardinality(Between(y, x))
    <3>1. {z \in Finite : \/ Value(x) < Value(z) /\ Value(z) <= Value(y)
                          \/ Value(y) < Value(z) /\ Value(z) <= Value(x)}
          = {z \in Finite : Value(y) < Value(z) /\ Value(z) <= Value(x)}
      BY <2>2
    <3> QED
      BY <3>1 DEF Steps, Between
  <2>4. UlpDistance(x, y) = ToOrdered(x) - ToOrdered(y)
    BY <1>1, <1>3 DEF UlpDistance, Absolute
  <2> QED
    BY <2>3, <2>4, <1>3, StepsUp
<1> QED
  BY <1>1, <1>2, <1>3

(* Two floats differ by nothing when they are equal or zeros of two signs. *)
LEMMA Errors ==
  ASSUME NEW x \in Finite, NEW y \in Finite
  PROVE  LET error == Absolute(Value(y) - Value(x))
             scale == Larger(Magnitude(Pattern(x)), Magnitude(Pattern(y)))
         IN /\ error \in Nat /\ scale \in Nat
            /\ error = 0 <=> x = y \/ (IsZero(x) /\ IsZero(y))
            /\ scale = 0 <=> IsZero(x) /\ IsZero(y)
<1> DEFINE error == Absolute(Value(y) - Value(x))
           scale == Larger(Magnitude(Pattern(x)), Magnitude(Pattern(y)))
<1>1. SignBit \in Nat \ {0} /\ Infinity \in Nat /\ Infinity < SignBit
  BY FormatSizes
<1>2. \A z \in {x, y} : /\ Pattern(z) \in Nat /\ Pattern(z) < Infinity /\ Magnitude(Pattern(z)) \in Nat
                        /\ Pattern(z) \in 0..(Infinity - 1)
                        /\ ToOrdered(z) = IF IsNegative(z) THEN -Pattern(z) ELSE Pattern(z)
                        /\ z = IF IsNegative(z) THEN Pattern(z) + SignBit ELSE Pattern(z)
                        /\ ToOrdered(z) \in Int /\ Value(z) = OrderedValue(ToOrdered(z)) /\ Value(z) \in Int
  BY <1>1, FiniteFloats
<1>3. error \in Nat /\ (error = 0 <=> Value(x) = Value(y))
  BY <1>2 DEF Absolute
<1>4. Value(x) = Value(y) <=> ToOrdered(x) = ToOrdered(y)
  BY <1>2, OrderedValues
<1>5. ToOrdered(x) = ToOrdered(y) <=> x = y \/ (Pattern(x) = 0 /\ Pattern(y) = 0)
  BY <1>1, <1>2
<1>6. \A z \in {x, y} : Magnitude(Pattern(z)) = 0 <=> Pattern(z) = 0
  <2> TAKE z \in {x, y}
  <2>1. Pattern(z) # 0 => Magnitude(0) < Magnitude(Pattern(z))
    <3>1. 0 \in Nat /\ Pattern(z) \in Nat /\ (Pattern(z) # 0 => 0 < Pattern(z))
      BY <1>2
    <3> QED
      BY <3>1, Increasing
  <2> QED
    BY <2>1, <1>2, ZeroIsZero
<1>7. scale \in Nat /\ (scale = 0 <=> Pattern(x) = 0 /\ Pattern(y) = 0)
  <2> DEFINE m == Magnitude(Pattern(x))
             n == Magnitude(Pattern(y))
  <2>1. m \in Nat /\ n \in Nat /\ (m = 0 <=> Pattern(x) = 0) /\ (n = 0 <=> Pattern(y) = 0)
    BY <1>2, <1>6
  <2>2. scale = IF m < n THEN n ELSE m
    BY DEF Larger
  <2> HIDE DEF m, n
  <2> QED
    BY <2>1, <2>2
<1> HIDE DEF error, scale
<1>8. /\ error \in Nat /\ scale \in Nat
      /\ error = 0 <=> x = y \/ (IsZero(x) /\ IsZero(y))
      /\ scale = 0 <=> IsZero(x) /\ IsZero(y)
  BY <1>3, <1>4, <1>5, <1>7 DEF IsZero
<1> QED
  BY <1>8 DEF error, scale

(* The fields of a shifted tolerance.                                      *)
LEMMA ShiftedBounds ==
  ASSUME NEW t \in Tolerance, NEW k \in Int
  PROVE  LET By(bound) == IF bound = Nothing \/ bound + k < 0 THEN Nothing ELSE bound + k
             s == Shifted(t, k)
         IN /\ s.absolute = By(t.absolute) /\ s.relative = By(t.relative)
            /\ s.max_ulps = t.max_ulps /\ s.strict_signed_zero = t.strict_signed_zero
  BY DEF Shifted, Tolerance

(* compare, when both floats are finite.                                   *)
LEMMA CompareOfFinite ==
  ASSUME NEW e \in Finite, NEW o \in Finite, NEW t \in Tolerance
  PROVE  Compare(e, o, t) =
           IF IsZero(e) /\ IsZero(o)
             THEN t.strict_signed_zero => IsNegative(e) = IsNegative(o)
             ELSE e = o \/ AcceptedByCriterion(e, o, t)
<1>1. ~ IsNaN(e) /\ ~ IsInfinite(e) /\ ~ IsNaN(o) /\ ~ IsInfinite(o)
  BY FiniteFloats
<1>2. CASE IsZero(e) /\ IsZero(o)
  BY <1>1, <1>2 DEF Compare
<1>3. CASE ~ (IsZero(e) /\ IsZero(o))
  BY <1>1, <1>3 DEF Compare
<1> QED
  BY <1>2, <1>3

(* compare of scirust-verify-numerics is right about any two finite floats *)
(* of any binary format, under any tolerance: what it accepts is within    *)
(* the bounds two floats further, what is within the bounds one float      *)
(* closer it accepts unless the difference overflows, and distances in     *)
(* units of the last place are exact.                                      *)
THEOREM CompareIsRight ==
  ASSUME NEW e \in Finite, NEW o \in Finite, NEW t \in Tolerance
  PROVE  IsRight(Compare(e, o, t), e, o, t)
<1> DEFINE d == Absolute(Value(o) - Value(e))
           scale == Larger(Magnitude(Pattern(e)), Magnitude(Pattern(o)))
           BothZero == IsZero(e) /\ IsZero(o)
           wide == Shifted(t, 2)
           narrow == Shifted(t, -1)
<1>1. /\ d \in Nat /\ scale \in Nat
      /\ d = 0 <=> e = o \/ BothZero
      /\ scale = 0 <=> BothZero
  BY Errors
<1>2. /\ t.absolute \in Bounds \cup {Nothing} /\ t.relative \in Bounds \cup {Nothing}
      /\ t.max_ulps \in Nat \cup {Nothing} /\ t.strict_signed_zero \in BOOLEAN
  BY DEF Tolerance
<1>3. /\ Infinity \in Nat /\ \A b \in Bounds : b \in Nat /\ b < Infinity
  BY FormatSizes DEF Bounds
<1>4. AbsError(e, o) = Nearest(d, 1)
  BY DEF AbsError
<1>5. scale > 0 /\ AbsError(e, o) # Infinity
        => RelError(e, o) = Nearest(Magnitude(AbsError(e, o)) * One, scale)
  BY DEF RelError
<1>6. AbsError(e, o) = Infinity => RelError(e, o) = Infinity
  BY DEF RelError
<1>7. UlpDistance(e, o) = Steps(e, o)
  BY UlpsAreSteps
<1>8. Compare(e, o, t) =
        IF BothZero THEN t.strict_signed_zero => IsNegative(e) = IsNegative(o)
                    ELSE e = o \/ AcceptedByCriterion(e, o, t)
  BY CompareOfFinite
<1>w. \A s : Within(e, o, s) <=>
        \/ e = o
        \/ d = 0 /\ (s.strict_signed_zero => IsNegative(e) = IsNegative(o))
        \/ /\ d # 0
           /\ \/ s.absolute # Nothing /\ d <= Magnitude(s.absolute)
              \/ s.relative # Nothing /\ d * One <= Magnitude(s.relative) * scale
              \/ s.max_ulps # Nothing /\ Steps(e, o) <= s.max_ulps
  BY DEF Within
<1>9. /\ wide.absolute = IF t.absolute = Nothing \/ t.absolute + 2 < 0 THEN Nothing ELSE t.absolute + 2
      /\ wide.relative = IF t.relative = Nothing \/ t.relative + 2 < 0 THEN Nothing ELSE t.relative + 2
      /\ wide.max_ulps = t.max_ulps /\ wide.strict_signed_zero = t.strict_signed_zero
  BY ShiftedBounds
<1>10. /\ narrow.absolute = IF t.absolute = Nothing \/ t.absolute + (-1) < 0 THEN Nothing ELSE t.absolute + (-1)
       /\ narrow.relative = IF t.relative = Nothing \/ t.relative + (-1) < 0 THEN Nothing ELSE t.relative + (-1)
       /\ narrow.max_ulps = t.max_ulps /\ narrow.strict_signed_zero = t.strict_signed_zero
  <2>1. -1 \in Int
    OBVIOUS
  <2> QED
    BY <2>1, ShiftedBounds
<1> HIDE DEF d, scale, wide, narrow
<1>a. ASSUME NEW b \in Bounds
      PROVE  /\ AbsError(e, o) <= b => d <= Magnitude(b + 2)
             /\ b > 0 /\ d <= Magnitude(b - 1) => AbsError(e, o) <= b
  BY <1>1, <1>3, <1>4, AbsoluteIsSound
<1>b. ASSUME NEW b \in Bounds, ~ BothZero
      PROVE  /\ RelError(e, o) <= b => d * One <= Magnitude(b + 2) * scale
             /\ AbsError(e, o) # Infinity /\ b > 0 /\ d * One <= Magnitude(b - 1) * scale
                  => RelError(e, o) <= b
  <2>1. scale \in Nat \ {0} /\ scale > 0 /\ b \in Nat /\ b < Infinity
    BY <1>1, <1>3, <1>b
  <2>2. CASE AbsError(e, o) = Infinity
    BY <2>1, <2>2, <1>3, <1>6
  <2>3. CASE AbsError(e, o) # Infinity
    <3>1. RelError(e, o) = Nearest(Magnitude(Nearest(d, 1)) * One, scale)
      BY <1>4, <1>5, <2>1, <2>3
    <3>2. /\ Nearest(Magnitude(Nearest(d, 1)) * One, scale) <= b => d * One <= Magnitude(b + 2) * scale
          /\ b > 0 /\ d * One <= Magnitude(b - 1) * scale => Nearest(Magnitude(Nearest(d, 1)) * One, scale) <= b
      BY <1>1, <1>4, <2>1, <2>3, RelativeIsSound
    <3> QED
      BY <3>1, <3>2
  <2> QED
    BY <2>2, <2>3
<1>11. ASSUME Compare(e, o, t) PROVE Within(e, o, wide)
  <2>1. CASE BothZero
    <3>1. d = 0 /\ (wide.strict_signed_zero => IsNegative(e) = IsNegative(o))
      BY <1>1, <1>8, <1>9, <1>11, <2>1
    <3> QED
      BY <3>1, <1>w
  <2>2. CASE ~ BothZero /\ e # o
    <3>1. d # 0 /\ AcceptedByCriterion(e, o, t)
      BY <1>1, <1>8, <1>11, <2>2
    <3>2. CASE t.absolute # Nothing /\ AbsError(e, o) <= t.absolute
      <4>1. t.absolute \in Bounds /\ t.absolute \in Nat
        BY <1>2, <1>3, <3>2
      <4>2. d <= Magnitude(t.absolute + 2)
        BY <4>1, <3>2, <1>a
      <4>3. wide.absolute = t.absolute + 2 /\ wide.absolute # Nothing
        BY <4>1, <3>2, <1>9, NothingIsNoNumber
      <4> QED
        BY <4>2, <4>3, <3>1, <1>w
    <3>3. CASE t.relative # Nothing /\ RelError(e, o) <= t.relative
      <4>1. t.relative \in Bounds /\ t.relative \in Nat
        BY <1>2, <1>3, <3>3
      <4>2. d * One <= Magnitude(t.relative + 2) * scale
        BY <4>1, <3>3, <1>b, <2>2
      <4>3. wide.relative = t.relative + 2 /\ wide.relative # Nothing
        BY <4>1, <3>3, <1>9, NothingIsNoNumber
      <4> QED
        BY <4>2, <4>3, <3>1, <1>w
    <3>4. CASE t.max_ulps # Nothing /\ UlpDistance(e, o) <= t.max_ulps
      BY <3>1, <3>4, <1>7, <1>9, <1>w
    <3> QED
      BY <3>1, <3>2, <3>3, <3>4 DEF AcceptedByCriterion
  <2>3. CASE e = o
    BY <2>3, <1>w
  <2> QED
    BY <2>1, <2>2, <2>3
<1>12. ASSUME Within(e, o, narrow), AbsError(e, o) # Infinity PROVE Compare(e, o, t)
  <2>1. CASE BothZero
    <3>1. t.strict_signed_zero => IsNegative(e) = IsNegative(o)
      BY <1>1, <1>10, <1>12, <1>w, <2>1
    <3> QED
      BY <3>1, <1>8, <2>1
  <2>2. CASE ~ BothZero /\ e # o
    <3>1. \/ narrow.absolute # Nothing /\ d <= Magnitude(narrow.absolute)
          \/ narrow.relative # Nothing /\ d * One <= Magnitude(narrow.relative) * scale
          \/ narrow.max_ulps # Nothing /\ Steps(e, o) <= narrow.max_ulps
      BY <1>1, <1>12, <1>w, <2>2
    <3>2. CASE narrow.absolute # Nothing /\ d <= Magnitude(narrow.absolute)
      <4>1. t.absolute \in Bounds /\ t.absolute \in Nat /\ t.absolute > 0 /\ narrow.absolute = t.absolute - 1
        BY <1>2, <1>3, <1>10, <3>2
      <4>2. AbsError(e, o) <= t.absolute
        BY <4>1, <3>2, <1>a
      <4>3. t.absolute # Nothing
        BY <4>1, NothingIsNoNumber
      <4> QED
        BY <4>2, <4>3, <1>8, <2>2 DEF AcceptedByCriterion
    <3>3. CASE narrow.relative # Nothing /\ d * One <= Magnitude(narrow.relative) * scale
      <4>1. t.relative \in Bounds /\ t.relative \in Nat /\ t.relative > 0 /\ narrow.relative = t.relative - 1
        BY <1>2, <1>3, <1>10, <3>3
      <4>2. RelError(e, o) <= t.relative
        BY <4>1, <3>3, <1>b, <1>12, <2>2
      <4>3. t.relative # Nothing
        BY <4>1, NothingIsNoNumber
      <4> QED
        BY <4>2, <4>3, <1>8, <2>2 DEF AcceptedByCriterion
    <3>4. CASE narrow.max_ulps # Nothing /\ Steps(e, o) <= narrow.max_ulps
      BY <3>4, <1>7, <1>8, <1>10, <2>2 DEF AcceptedByCriterion
    <3> QED
      BY <3>1, <3>2, <3>3, <3>4
  <2>3. CASE e = o /\ ~ BothZero
    BY <2>3, <1>8
  <2> QED
    BY <2>1, <2>2, <2>3
<1> QED
  BY <1>11, <1>12 DEF IsRight, wide, narrow

(* compare, of any two floats.                                             *)
LEMMA CompareByCases ==
  ASSUME NEW e, NEW o, NEW t
  PROVE  /\ IsNaN(e) \/ IsNaN(o) => (Compare(e, o, t) <=> IsNaN(e) /\ IsNaN(o))
         /\ ~ IsNaN(e) /\ ~ IsNaN(o) /\ (IsInfinite(e) \/ IsInfinite(o)) =>
              (Compare(e, o, t) <=> e = o)
         /\ IsZero(e) /\ IsZero(o) =>
              (Compare(e, o, t) <=> (t.strict_signed_zero => IsNegative(e) = IsNegative(o)))
         /\ ~ IsNaN(e) /\ ~ IsNaN(o) /\ ~ IsInfinite(e) /\ ~ IsInfinite(o)
            /\ ~ (IsZero(e) /\ IsZero(o)) =>
              (Compare(e, o, t) <=> e = o \/ AcceptedByCriterion(e, o, t))
<1>1. \A x : IsZero(x) => ~ IsNaN(x) /\ ~ IsInfinite(x)
  BY FormatSizes DEF IsZero, IsNaN, IsInfinite
<1>2. CASE IsNaN(e) \/ IsNaN(o)
  <2>1. Compare(e, o, t) = (IsNaN(e) /\ IsNaN(o))
    BY <1>1, <1>2, Zenon DEF Compare
  <2> QED
    BY <1>1, <1>2, <2>1
<1>3. CASE ~ IsNaN(e) /\ ~ IsNaN(o) /\ (IsInfinite(e) \/ IsInfinite(o))
  <2>1. Compare(e, o, t) = (e = o)
    BY <1>1, <1>3, Zenon DEF Compare
  <2> QED
    BY <1>1, <1>3, <2>1
<1>4. CASE IsZero(e) /\ IsZero(o)
  <2>1. Compare(e, o, t) = (t.strict_signed_zero => IsNegative(e) = IsNegative(o))
    BY <1>1, <1>4, Zenon DEF Compare
  <2> QED
    BY <1>1, <1>4, <2>1
<1>5. CASE ~ IsNaN(e) /\ ~ IsNaN(o) /\ ~ IsInfinite(e) /\ ~ IsInfinite(o)
           /\ ~ (IsZero(e) /\ IsZero(o))
  <2>1. Compare(e, o, t) = (e = o \/ AcceptedByCriterion(e, o, t))
    BY <1>5, Zenon DEF Compare
  <2> QED
    BY <1>5, <2>1
<1> QED
  BY <1>2, <1>3, <1>4, <1>5

(* A float that is neither a NaN nor an infinity is finite.                *)
LEMMA OthersAreFinite ==
  ASSUME NEW x \in Floats, ~ IsNaN(x), ~ IsInfinite(x)
  PROVE  x \in Finite
<1>1. SignBit \in Nat \ {0} /\ Infinity \in Nat
  BY FormatSizes
<1>2. x \in Nat /\ Pattern(x) \in Int
  BY <1>1 DEF Floats, Pattern
<1> QED
  BY <1>1, <1>2 DEF Finite, IsFinite, IsNaN, IsInfinite

(* The errors of two finite floats are floats, and their distance a number. *)
LEMMA ErrorsAreNumbers ==
  ASSUME NEW e \in Finite, NEW o \in Finite
  PROVE  AbsError(e, o) \in Nat /\ RelError(e, o) \in Nat /\ UlpDistance(e, o) \in Nat
<1> DEFINE d == Absolute(Value(o) - Value(e))
           a == AbsError(e, o)
           scale == Larger(Magnitude(Pattern(e)), Magnitude(Pattern(o)))
<1>1. d \in Nat /\ scale \in Nat
  BY Errors
<1>2. \A m \in Nat, n \in Nat \ {0} : Nearest(m, n) \in Nat
  BY FormatSizes, NearestIsNearest
<1>3. a \in Nat
  BY <1>1, <1>2 DEF AbsError
<1>4. RelError(e, o) \in Nat
  <2>1. RelError(e, o) = IF scale > 0 /\ a # Infinity THEN Nearest(Magnitude(a) * One, scale) ELSE a
    BY DEF RelError
  <2> HIDE DEF a, scale
  <2>2. Magnitude(a) \in Nat
    BY <1>3, Units
  <2> DEFINE m == Magnitude(a) * One
  <2>3. m \in Nat
    BY <2>2, OneIsNatural, Products
  <2> HIDE DEF m
  <2>4. scale > 0 => Nearest(m, scale) \in Nat
    BY <1>1, <1>2, <2>3
  <2> QED
    BY <1>3, <2>1, <2>4 DEF m
<1>5. UlpDistance(e, o) \in Nat
  <2>1. ToOrdered(e) \in Int /\ ToOrdered(o) \in Int
    BY FiniteFloats
  <2> QED
    BY <2>1 DEF UlpDistance, Absolute
<1> QED
  BY <1>3, <1>4, <1>5

(* It makes no difference which of two floats is the expected one.         *)
THEOREM CompareIsSymmetric ==
  ASSUME NEW e \in Floats, NEW o \in Floats, NEW t \in Tolerance
  PROVE  Compare(e, o, t) <=> Compare(o, e, t)
<1> DEFINE Comparable == ~ IsNaN(e) /\ ~ IsNaN(o) /\ ~ IsInfinite(e) /\ ~ IsInfinite(o)
<1>1. ASSUME Comparable
      PROVE  AcceptedByCriterion(e, o, t) <=> AcceptedByCriterion(o, e, t)
  <2> DEFINE v == Value(e)  w == Value(o)
             m == Magnitude(Pattern(e))  n == Magnitude(Pattern(o))
             x == ToOrdered(e)  y == ToOrdered(o)
  <2>1. v \in Int /\ w \in Int /\ m \in Nat /\ n \in Nat /\ x \in Int /\ y \in Int
    BY <1>1, OthersAreFinite, FiniteFloats
  <2> HIDE DEF v, w, m, n, x, y
  <2>2. Absolute(v - w) = Absolute(w - v) /\ Absolute(x - y) = Absolute(y - x)
    BY <2>1 DEF Absolute
  <2>3. Larger(m, n) = Larger(n, m)
    BY <2>1 DEF Larger
  <2>4. AbsError(e, o) = AbsError(o, e) /\ UlpDistance(e, o) = UlpDistance(o, e)
    BY <2>2 DEF AbsError, UlpDistance, v, w, x, y
  <2>5. RelError(e, o) = RelError(o, e)
    BY <2>3, <2>4 DEF RelError, m, n
  <2> QED
    BY <2>4, <2>5 DEF AcceptedByCriterion
<1>2. CASE IsZero(e) /\ IsZero(o)
  BY <1>2, CompareByCases
<1>3. CASE ~ (IsZero(e) /\ IsZero(o)) /\ Comparable
  BY <1>1, <1>3, CompareByCases
<1>4. CASE ~ Comparable
  BY <1>4, CompareByCases
<1> QED
  BY <1>2, <1>3, <1>4

(* t accepts no more by any criterion than u, and treats zeros alike.      *)
IsNarrower(t, u) ==
  LET Below(b, c) == b = Nothing \/ (c # Nothing /\ b <= c)
  IN /\ Below(t.absolute, u.absolute) /\ Below(t.relative, u.relative)
     /\ Below(t.max_ulps, u.max_ulps)
     /\ u.strict_signed_zero => t.strict_signed_zero

(* What a tolerance accepts a wider one accepts: a pair is not refused for *)
(* a bound that was raised or added.                                       *)
THEOREM WiderBoundsAcceptMore ==
  ASSUME NEW e \in Floats, NEW o \in Floats, NEW t \in Tolerance, NEW u \in Tolerance,
         IsNarrower(t, u), Compare(e, o, t)
  PROVE  Compare(e, o, u)
<1> DEFINE Comparable == ~ IsNaN(e) /\ ~ IsNaN(o) /\ ~ IsInfinite(e) /\ ~ IsInfinite(o)
<1>1. ASSUME Comparable, ~ (IsZero(e) /\ IsZero(o)), AcceptedByCriterion(e, o, t)
      PROVE  AcceptedByCriterion(e, o, u)
  <2> DEFINE a == AbsError(e, o)  r == RelError(e, o)  d == UlpDistance(e, o)
  <2>1. a \in Nat /\ r \in Nat /\ d \in Nat
    BY <1>1, OthersAreFinite, ErrorsAreNumbers
  <2>2. \A b, c \in Nat \cup {Nothing}, n \in Nat :
          (b = Nothing \/ (c # Nothing /\ b <= c)) /\ b # Nothing /\ n <= b => c # Nothing /\ n <= c
    BY NothingIsNoNumber
  <2>3. /\ t.absolute \in Nat \cup {Nothing} /\ u.absolute \in Nat \cup {Nothing}
        /\ t.relative \in Nat \cup {Nothing} /\ u.relative \in Nat \cup {Nothing}
        /\ t.max_ulps \in Nat \cup {Nothing} /\ u.max_ulps \in Nat \cup {Nothing}
    BY FormatSizes DEF Tolerance, Bounds
  <2> HIDE DEF a, r, d
  <2> QED
    BY <1>1, <2>1, <2>2, <2>3 DEF AcceptedByCriterion, IsNarrower, a, r, d
<1>2. CASE IsZero(e) /\ IsZero(o)
  BY <1>2, CompareByCases DEF IsNarrower
<1>3. CASE ~ (IsZero(e) /\ IsZero(o)) /\ Comparable
  BY <1>1, <1>3, CompareByCases
<1>4. CASE ~ Comparable
  BY <1>4, CompareByCases
<1> QED
  BY <1>2, <1>3, <1>4

-----------------------------------------------------------------------------
(* What the outcomes follow from.                                          *)

(* An execution is what the check makes of the capture of its command.     *)
IsMade(i) ==
  /\ ran[i].exit \in ExitStatus /\ IsOutput(ran[i].wrote)
  /\ ran[i].captured \in Captures(ran[i].wrote)
  /\ executions[i] = Execution(project.checks[i], ran[i].exit, ran[i].captured.lines)

(* Nothing is observed of a command that was skipped.                      *)
IsSettled(i) ==
  \/ IsMade(i)
  \/ ~HasRun(i) /\ executions[i].observations = <<>>

Made == \A i \in 1..Len(ran) : IsSettled(i)

(* The marked lines, counted from the first, are taken once each.          *)
LEMMA PlacesAreTaken ==
  ASSUME NEW top \in Nat, NEW S \in SUBSET (1..top)
  PROVE  LET Place(l) == Cardinality({k \in S : k < l}) + 1
         IN /\ Cardinality(S) \in Nat
            /\ \A l \in S : Place(l) \in 1..Cardinality(S)
            /\ \A l, m \in S : Place(l) = Place(m) => l = m
            /\ \A i \in 1..Cardinality(S) : \E l \in S : Place(l) = i
<1> DEFINE Below(l) == {k \in S : k < l}
           c == Cardinality(S)
           f == [l \in S |-> Cardinality(Below(l))]
<1>1. IsFiniteSet(S) /\ c \in Nat
  <2>1. IsFiniteSet(1..top)
    <3>1. 1 \in Int /\ top \in Int
      OBVIOUS
    <3> QED
      BY <3>1, FS_Interval
  <2> QED
    BY <2>1, FS_Subset, FS_CardinalityType
<1>2. ASSUME NEW l \in S PROVE IsFiniteSet(Below(l)) /\ Cardinality(Below(l)) \in 0..(c - 1)
  <2>1. IsFiniteSet(S \ {l}) /\ Cardinality(S \ {l}) = c - 1
    BY <1>1, FS_RemoveElement
  <2>2. Below(l) \in SUBSET (S \ {l})
    OBVIOUS
  <2>3. IsFiniteSet(Below(l)) /\ Cardinality(Below(l)) <= c - 1
    BY <2>1, <2>2, FS_Subset
  <2> QED
    BY <1>1, <2>3, FS_CardinalityType
<1>3. ASSUME NEW l \in S, NEW m \in S, l < m PROVE f[l] # f[m]
  <2> l \in Nat /\ m \in Nat /\ \A k \in S : k \in Nat
    OBVIOUS
  <2>1. Below(l) \in SUBSET Below(m) /\ l \in Below(m) /\ l \notin Below(l)
    <3>1. \A k \in Below(l) : k \in Below(m)
      BY <1>3
    <3>2. l \in Below(m) /\ l \notin Below(l)
      BY <1>3
    <3> HIDE DEF Below
    <3> QED
      BY <3>1, <3>2
  <2>2. Below(l) # Below(m)
    BY <2>1
  <2> HIDE DEF Below
  <2>3. Cardinality(Below(l)) # Cardinality(Below(m))
    BY <1>2, <2>1, <2>2, FS_Subset
  <2> QED
    BY <2>3
<1>4. f \in [S -> 0..(c - 1)]
  BY <1>2
<1>5. ASSUME NEW l \in S, NEW m \in S, f[l] = f[m] PROVE l = m
  <2>1. l < m \/ m < l \/ l = m
    OBVIOUS
  <2> QED
    BY <1>3, <1>5, <2>1
<1>6. IsFiniteSet(0..(c - 1)) /\ Cardinality(0..(c - 1)) = c
  <2> HIDE DEF c
  <2>1. 0 \in Int /\ c - 1 \in Int /\ c \in Nat
    BY <1>1
  <2>2. /\ IsFiniteSet(0..(c - 1))
        /\ Cardinality(0..(c - 1)) = IF 0 > c - 1 THEN 0 ELSE (c - 1) - 0 + 1
    BY <2>1, FS_Interval
  <2> QED
    BY <2>1, <2>2
<1>7. f \in Injection(S, 0..(c - 1))
  <2> HIDE DEF f
  <2> QED
    BY <1>4, <1>5 DEF Injection, IsInjective
<1>8. \A n \in 0..(c - 1) : \E l \in S : f[l] = n
  <2> HIDE DEF f
  <2>1. f \in Surjection(S, 0..(c - 1))
    BY <1>6, <1>7, FS_Injection
  <2> QED
    BY <2>1 DEF Surjection
<1>9. \A l \in S : Cardinality(Below(l)) = f[l]
  OBVIOUS
<1>10. \A i \in 1..c : i - 1 \in 0..(c - 1)
  BY <1>1
<1> HIDE DEF f, c, Below
<1>11. \A l \in S : Cardinality(Below(l)) + 1 \in 1..c
  BY <1>1, <1>4, <1>9
<1>12. \A l, m \in S : Cardinality(Below(l)) + 1 = Cardinality(Below(m)) + 1 => l = m
  BY <1>4, <1>5, <1>9
<1>13. \A i \in 1..c : \E l \in S : Cardinality(Below(l)) + 1 = i
  BY <1>8, <1>9, <1>10
<1> QED
  BY <1>1, <1>11, <1>12, <1>13 DEF c, Below

(* When it parses, the observations are those of the marked lines.         *)
LEMMA ObservationsAreOfLines ==
  ASSUME NEW lines, Len(lines) \in Nat, DOMAIN lines = 1..Len(lines), Parses(lines)
  PROVE  LET found == Observed(lines)
         IN /\ \A i \in DOMAIN found : \E k \in MarkedIn(lines) :
                 found[i] = ToModelObservation(lines[k])
            /\ \A k \in MarkedIn(lines) : \E i \in DOMAIN found :
                 found[i] = ToModelObservation(lines[k])
<1> DEFINE S == MarkedIn(lines)
           n == Cardinality(S)
           At(i) == CHOOSE k \in S : Cardinality({j \in S : j < k}) = i - 1
           found == [i \in 1..n |-> ToModelObservation(lines[At(i)])]
<1>1. Observed(lines) = found
  BY DEF Observed, ParseObservations
<1>2. S \in SUBSET (1..Len(lines))
  BY DEF MarkedIn
<1> DEFINE Place(l) == Cardinality({k \in S : k < l}) + 1
<1>3. /\ n \in Nat
      /\ \A l \in S : Place(l) \in 1..n
      /\ \A l, m \in S : Place(l) = Place(m) => l = m
      /\ \A i \in 1..n : \E l \in S : Place(l) = i
  <2> HIDE DEF S
  <2> QED
    BY <1>2, PlacesAreTaken
<1>4. \A l \in S : Cardinality({j \in S : j < l}) \in Nat
  <2> HIDE DEF S
  <2>1. \A l \in S : IsFiniteSet({j \in S : j < l})
    <3>1. IsFiniteSet(1..Len(lines))
      <4>1. 1 \in Int /\ Len(lines) \in Int
        OBVIOUS
      <4> QED
        BY <4>1, FS_Interval
    <3>2. \A l \in S : {j \in S : j < l} \in SUBSET (1..Len(lines))
      BY <1>2
    <3> QED
      BY <3>1, <3>2, FS_Subset
  <2> QED
    BY <2>1, FS_CardinalityType
<1>5. ASSUME NEW i \in 1..n PROVE At(i) \in S /\ Place(At(i)) = i
  <2>1. PICK l \in S : Place(l) = i
    BY <1>3
  <2>2. Cardinality({j \in S : j < l}) = i - 1
    BY <1>4, <2>1
  <2>3. At(i) \in S /\ Cardinality({j \in S : j < At(i)}) = i - 1
    <3> HIDE DEF S
    <3> QED
      BY <2>2
  <2> QED
    BY <2>3
<1>6. ASSUME NEW i \in 1..n PROVE \E k \in S : found[i] = ToModelObservation(lines[k])
  BY <1>5
<1>7. ASSUME NEW k \in S PROVE \E i \in 1..n : found[i] = ToModelObservation(lines[k])
  <2>1. Place(k) \in 1..n
    BY <1>3
  <2>2. At(Place(k)) = k
    <3> HIDE DEF At, Place, S
    <3> QED
      BY <1>3, <1>5, <2>1
  <2>3. found[Place(k)] = ToModelObservation(lines[At(Place(k))])
    <3> HIDE DEF At, Place
    <3> QED
      BY <2>1
  <2> QED
    BY <2>1, <2>2, <2>3
<1>8. DOMAIN found = 1..n
  OBVIOUS
<1> HIDE DEF At, n, Place, found
<1>9. /\ \A i \in DOMAIN found : \E k \in S : found[i] = ToModelObservation(lines[k])
      /\ \A k \in S : \E i \in DOMAIN found : found[i] = ToModelObservation(lines[k])
  BY <1>6, <1>7, <1>8
<1> QED
  BY <1>1, <1>9

(* A sound line of a capture is one the command wrote, or the beginning of *)
(* a broken one.                                                           *)
LEMMA CapturesAreOfLines ==
  ASSUME NEW lines, IsOutput(lines), NEW capture \in Captures(lines)
  PROVE  /\ Len(capture.lines) \in Nat /\ DOMAIN capture.lines = 1..Len(capture.lines)
         /\ \A k \in MarkedIn(capture.lines) :
              IsSound(capture.lines[k]) =>
                IsLine(capture.lines[k]) /\ IsOwnLine(k, lines, capture)
<1>1. PICK S : lines \in Seq(S)
  BY DEF IsOutput
<1>2. CASE capture = [lines |-> lines, truncated |-> FALSE]
  BY <1>1, <1>2 DEF IsOwnLine, IsOutput, MarkedIn
<1>3. ASSUME NEW n \in 0..Len(lines)
      PROVE  LET first == SubSeq(lines, 1, n)
             IN /\ first \in Seq(S) /\ Len(first) = n
                /\ \A k \in 1..n : k \in DOMAIN lines /\ first[k] = lines[k]
  BY <1>1
<1>4. ASSUME NEW n \in 0..Len(lines),
             capture = [lines |-> SubSeq(lines, 1, n), truncated |-> TRUE]
      PROVE  /\ Len(capture.lines) \in Nat /\ DOMAIN capture.lines = 1..Len(capture.lines)
             /\ \A k \in MarkedIn(capture.lines) :
                  IsLine(capture.lines[k]) /\ IsOwnLine(k, lines, capture)
  BY <1>3, <1>4 DEF MarkedIn, IsOwnLine, IsOutput
<1>5. ASSUME NEW n \in 0..(Len(lines) - 1), NEW rest \in Cut(lines[n + 1]),
             capture = [lines |-> Append(SubSeq(lines, 1, n), rest), truncated |-> TRUE]
      PROVE  /\ Len(capture.lines) \in Nat /\ DOMAIN capture.lines = 1..Len(capture.lines)
             /\ \A k \in MarkedIn(capture.lines) :
                  IsSound(capture.lines[k]) =>
                    IsLine(capture.lines[k]) /\ IsOwnLine(k, lines, capture)
  <2> DEFINE first == SubSeq(lines, 1, n)
  <2>1. n \in 0..Len(lines)
    BY <1>1
  <2>2. first \in Seq(S) /\ Len(first) = n /\ \A k \in 1..n : k \in DOMAIN lines /\ first[k] = lines[k]
    BY <1>3, <2>1
  <2> HIDE DEF first
  <2>3. /\ Len(Append(first, rest)) = n + 1 /\ DOMAIN Append(first, rest) = 1..(n + 1)
        /\ Append(first, rest)[n + 1] = rest
        /\ \A k \in 1..n : Append(first, rest)[k] = first[k]
    <3>1. first \in Seq(S \cup {rest})
      BY <2>2
    <3> QED
      BY <2>2, <3>1
  <2>4. capture.lines = Append(first, rest) /\ capture.truncated
    BY <1>5 DEF first
  <2>5. ASSUME NEW k \in MarkedIn(capture.lines), IsSound(capture.lines[k])
        PROVE  IsLine(capture.lines[k]) /\ IsOwnLine(k, lines, capture)
    <3>1. k \in 1..(n + 1) /\ IsMarked(capture.lines[k])
      BY <2>3, <2>4 DEF MarkedIn
    <3>2. CASE k \in 1..n
      <4>1. k \in DOMAIN lines /\ capture.lines[k] = lines[k]
        BY <2>2, <2>3, <2>4, <3>2
      <4> QED
        BY <4>1 DEF IsOutput, IsOwnLine
    <3>3. CASE k = n + 1
      <4>1. capture.lines[k] = rest /\ k = Len(capture.lines)
        BY <2>3, <2>4, <3>3
      <4>2. rest \in Openings /\ lines[k] = Broken
        BY <2>5, <3>1, <3>3, <4>1 DEF Cut, IsMarked, IsSound
      <4> QED
        BY <2>4, <4>1, <4>2, ProjectsAreWellFormed DEF IsOwnLine
    <3> QED
      BY <3>1, <3>2, <3>3
  <2>6. n + 1 \in Nat
    BY <2>1, <1>1
  <2>7. Len(capture.lines) \in Nat /\ DOMAIN capture.lines = 1..Len(capture.lines)
    BY <2>3, <2>4, <2>6
  <2> QED
    BY <2>5, <2>7
<1>6. \/ capture = [lines |-> lines, truncated |-> FALSE]
      \/ \E n \in 0..Len(lines) : capture = [lines |-> SubSeq(lines, 1, n), truncated |-> TRUE]
      \/ \E n \in 0..(Len(lines) - 1) : \E rest \in Cut(lines[n + 1]) :
           capture = [lines |-> Append(SubSeq(lines, 1, n), rest), truncated |-> TRUE]
  BY DEF Captures
<1> QED
  BY <1>2, <1>4, <1>5, <1>6

(* An observation contradicts a success just when its line refutes it, up  *)
(* to the rounding of the comparison.                                      *)
LEMMA Contradictions ==
  ASSUME project \in Projects, NEW line, IsLine(line), IsMarked(line), IsSound(line)
  PROVE  LET o == ToModelObservation(line)
         IN /\ Contradicts(o) =>
                 \/ Refutes(line, Shifted(project.tolerance, -1))
                 \/ /\ line.kind = "numeric_comparison"
                    /\ AbsError(line.expected, line.observed) = Infinity
            /\ ~Contradicts(o) => ~Refutes(line, Shifted(project.tolerance, 2))
<1> DEFINE o == ToModelObservation(line)
<1>1. line.kind \in {"numeric_comparison", "fingerprint", "metric", "property"}
  BY DEF IsSound, IsValid
<1>2. CASE line.kind = "numeric_comparison"
  <2>1. /\ line.expected \in Finite /\ line.observed \in Finite
    BY <1>2 DEF IsLine, IsMarked, IsSound, IsValid
  <2>2. o.kind = "numeric_comparison" /\ o.value.expected = line.expected
        /\ o.value.observed = line.observed
    BY <1>2 DEF ToModelObservation
  <2>3. Contradicts(o) <=> ~Compare(line.expected, line.observed, project.tolerance)
    BY <2>2 DEF Contradicts, Passes
  <2>4. IsRight(Compare(line.expected, line.observed, project.tolerance),
                line.expected, line.observed, project.tolerance)
    <3>1. project.tolerance \in Tolerance
      BY ProjectsAreWellFormed
    <3> QED
      BY <2>1, <3>1, CompareIsRight
  <2>5. \A t : Refutes(line, t) <=> ~Within(line.expected, line.observed, t)
    BY <1>2 DEF Refutes
  <2> HIDE DEF o
  <2>6. /\ Contradicts(o) =>
             Refutes(line, Shifted(project.tolerance, -1)) \/ AbsError(line.expected, line.observed) = Infinity
        /\ ~Contradicts(o) => ~Refutes(line, Shifted(project.tolerance, 2))
    BY <2>3, <2>4, <2>5 DEF IsRight
  <2> QED
    BY <1>2, <2>6 DEF o
<1>3. CASE line.kind = "property"
  <2>1. o.kind = "property" /\ o.value = line.holds
    BY <1>3 DEF ToModelObservation
  <2> QED
    BY <1>3, <2>1 DEF Contradicts, Refutes
<1>4. CASE line.kind \in {"fingerprint", "metric"}
  <2>1. o.kind = line.kind
    BY <1>4 DEF ToModelObservation
  <2> QED
    BY <1>4, <2>1 DEF Contradicts, Refutes
<1> QED
  BY <1>1, <1>2, <1>3, <1>4

(* What is said of a command follows from what it wrote.                   *)
LEMMA OutcomesFollow ==
  ASSUME project \in Projects,
         NEW check, IsCheck(check), check.provider # "cargo",
         NEW exit \in ExitStatus, NEW lines, IsOutput(lines), NEW capture \in Captures(lines)
  PROVE  LET outcome == Execution(check, exit, capture.lines).outcome
         IN /\ outcome = "verified" =>
                 /\ exit = "zero"
                 /\ Parses(capture.lines) =>
                      \A k \in MarkedIn(capture.lines) :
                        ~Refutes(capture.lines[k], Shifted(project.tolerance, 2))
            /\ outcome = "failed" /\ exit = "zero" =>
                 /\ Parses(capture.lines)
                 /\ \E k \in MarkedIn(capture.lines) :
                      /\ IsOwnLine(k, lines, capture)
                      /\ \/ Refutes(capture.lines[k], Shifted(project.tolerance, -1))
                         \/ /\ capture.lines[k].kind = "numeric_comparison"
                            /\ AbsError(capture.lines[k].expected, capture.lines[k].observed) = Infinity
<1> DEFINE outcome == Execution(check, exit, capture.lines).outcome
           found == Observed(capture.lines)
           marked == MarkedIn(capture.lines)
           contradicted == \E i \in DOMAIN found : Contradicts(found[i])
<1>1. outcome = CommandOutcome(exit, check.expect, contradicted)
  BY DEF Execution, Judged
<1>2. check.expect = "success"
  BY DEF IsCheck, ExitExpectation
<1>3. /\ exit = "zero" => InterpretExit(exit, check.expect) = "verified"
      /\ exit # "zero" => InterpretExit(exit, check.expect) # "verified"
  BY <1>2 DEF InterpretExit, ExitStatus
<1>4. /\ outcome = "verified" => exit = "zero" /\ ~contradicted
      /\ outcome = "failed" /\ exit = "zero" => contradicted
  <2> HIDE DEF outcome, contradicted
  <2> QED
    BY <1>1, <1>3 DEF CommandOutcome
<1>5. /\ Len(capture.lines) \in Nat /\ DOMAIN capture.lines = 1..Len(capture.lines)
      /\ \A k \in marked :
           IsSound(capture.lines[k]) => IsLine(capture.lines[k]) /\ IsOwnLine(k, lines, capture)
  BY CapturesAreOfLines
<1>6. \A k \in marked : IsMarked(capture.lines[k])
  BY DEF MarkedIn
<1>7. ASSUME outcome = "verified", Parses(capture.lines), NEW k \in marked
      PROVE  ~Refutes(capture.lines[k], Shifted(project.tolerance, 2))
  <2>1. IsSound(capture.lines[k])
    BY <1>7 DEF Parses
  <2>2. PICK i \in DOMAIN found : found[i] = ToModelObservation(capture.lines[k])
    BY <1>5, <1>7, ObservationsAreOfLines
  <2>3. ~Contradicts(ToModelObservation(capture.lines[k]))
    BY <1>4, <1>7, <2>2
  <2> QED
    BY <1>5, <1>6, <2>1, <2>3, Contradictions
<1>8. ASSUME outcome = "failed", exit = "zero"
      PROVE  /\ Parses(capture.lines)
             /\ \E k \in marked :
                  /\ IsOwnLine(k, lines, capture)
                  /\ \/ Refutes(capture.lines[k], Shifted(project.tolerance, -1))
                     \/ /\ capture.lines[k].kind = "numeric_comparison"
                        /\ AbsError(capture.lines[k].expected, capture.lines[k].observed) = Infinity
  <2>1. PICK i \in DOMAIN found : Contradicts(found[i])
    BY <1>4, <1>8
  <2>2. Parses(capture.lines)
    <3>1. DOMAIN <<>> = {}
      OBVIOUS
    <3> QED
      BY <2>1, <3>1 DEF Observed
  <2>3. PICK k \in marked : found[i] = ToModelObservation(capture.lines[k])
    BY <1>5, <2>2, ObservationsAreOfLines
  <2>4. IsSound(capture.lines[k])
    BY <2>2 DEF Parses
  <2> QED
    BY <1>5, <1>6, <2>1, <2>2, <2>3, <2>4, Contradictions
<1> HIDE DEF outcome, marked
<1>9. /\ outcome = "verified" =>
           /\ exit = "zero"
           /\ Parses(capture.lines) =>
                \A k \in marked : ~Refutes(capture.lines[k], Shifted(project.tolerance, 2))
      /\ outcome = "failed" /\ exit = "zero" =>
           /\ Parses(capture.lines)
           /\ \E k \in marked :
                /\ IsOwnLine(k, lines, capture)
                /\ \/ Refutes(capture.lines[k], Shifted(project.tolerance, -1))
                   \/ /\ capture.lines[k].kind = "numeric_comparison"
                      /\ AbsError(capture.lines[k].expected, capture.lines[k].observed) = Infinity
  BY <1>4, <1>7, <1>8
<1> QED
  BY <1>9 DEF outcome, marked

-----------------------------------------------------------------------------
(* What is made of the observations.                                       *)

(* The observations are a sequence, of sound lines only.                   *)
LEMMA ObservedAreSound ==
  ASSUME NEW lines, Len(lines) \in Nat, DOMAIN lines = 1..Len(lines)
  PROVE  LET found == Observed(lines)
         IN /\ found \in Seq({found[i] : i \in DOMAIN found})
            /\ \A i \in DOMAIN found : \E k \in MarkedIn(lines) :
                 IsSound(lines[k]) /\ found[i] = ToModelObservation(lines[k])
<1> DEFINE found == Observed(lines)
           T == {found[i] : i \in DOMAIN found}
<1>1. CASE Parses(lines)
  <2> DEFINE n == Cardinality(MarkedIn(lines))
             At(i) == lines[CHOOSE k \in MarkedIn(lines) :
                              Cardinality({j \in MarkedIn(lines) : j < k}) = i - 1]
  <2>1. found = [i \in 1..n |-> ToModelObservation(At(i))]
    BY <1>1 DEF Observed, ParseObservations
  <2>2. n \in Nat
    <3>1. MarkedIn(lines) \in SUBSET (1..Len(lines))
      BY DEF MarkedIn
    <3>2. IsFiniteSet(1..Len(lines))
      <4>1. 1 \in Int /\ Len(lines) \in Int
        OBVIOUS
      <4> QED
        BY <4>1, FS_Interval
    <3> QED
      BY <3>1, <3>2, FS_Subset, FS_CardinalityType
  <2> HIDE DEF n, At
  <2>3. DOMAIN found = 1..n /\ found = [i \in 1..n |-> found[i]]
    BY <2>1
  <2> HIDE DEF found
  <2>4. found \in [1..n -> T]
    BY <2>3
  <2>5. found \in Seq(T)
    <3> HIDE DEF T
    <3> QED
      BY <2>2, <2>4
  <2>6. \A i \in DOMAIN found : \E k \in MarkedIn(lines) : found[i] = ToModelObservation(lines[k])
    BY <1>1, ObservationsAreOfLines DEF found
  <2> QED
    BY <1>1, <2>5, <2>6 DEF Parses, found, T
<1>2. CASE ~Parses(lines)
  <2>1. found = <<>>
    BY <1>2 DEF Observed
  <2>2. DOMAIN found = {} /\ found \in Seq(T)
    BY <2>1
  <2> QED
    BY <2>2
<1> QED
  BY <1>1, <1>2

(* What a check adds to one observation.                                   *)
LEMMA Reevaluations ==
  ASSUME NEW o
  PROVE  LET added == Reevaluation(o)
             verdict == Observation("numeric_verdict", o, Passes(o))
         IN /\ added \in Seq({added[1], added[2]})
            /\ \A j \in 1..Len(added) : added[j].kind # "numeric_comparison"
            /\ o.kind = "numeric_comparison" =>
                 Len(added) = 2 /\ added[1] = verdict /\ added[2].kind # "numeric_verdict"
            /\ o.kind # "numeric_comparison" =>
                 \A j \in 1..Len(added) : added[j].kind # "numeric_verdict"
<1> DEFINE added == Reevaluation(o)
           verdict == Observation("numeric_verdict", o, Passes(o))
           error == Observation("max_abs_error", o,
                                Written(AbsError(o.value.expected, o.value.observed)))
           failed == Observation("property_failed", o, FALSE)
<1>1. verdict.kind = "numeric_verdict" /\ error.kind = "max_abs_error"
      /\ failed.kind = "property_failed"
  BY DEF Observation
<1>2. CASE o.kind = "numeric_comparison"
  <2>1. added = <<verdict, error>>
    BY <1>2 DEF Reevaluation
  <2> HIDE DEF added, verdict, error
  <2>2. /\ Len(added) = 2 /\ added[1] = verdict /\ added[2] = error
        /\ added \in Seq({added[1], added[2]})
    BY <2>1
  <2> QED
    BY <1>1, <1>2, <2>2 DEF added, verdict
<1>3. CASE o.kind = "property" /\ o.value = FALSE
  <2>1. added = <<failed>>
    BY <1>3 DEF Reevaluation
  <2> HIDE DEF added, failed
  <2>2. Len(added) = 1 /\ added[1] = failed /\ added \in Seq({added[1], added[2]})
    BY <2>1
  <2> QED
    BY <1>1, <1>3, <2>2 DEF added
<1>4. CASE o.kind # "numeric_comparison" /\ ~(o.kind = "property" /\ o.value = FALSE)
  <2>1. added = <<>>
    BY <1>4 DEF Reevaluation
  <2> HIDE DEF added
  <2>2. Len(added) = 0 /\ added \in Seq({added[1], added[2]})
    BY <2>1
  <2> QED
    BY <1>4, <2>2 DEF added
<1> QED
  BY <1>2, <1>3, <1>4

(* The verdicts behind the observations are those of the comparisons among *)
(* them, one each and in their order.                                      *)
LEMMA VerdictsAreMatched ==
  ASSUME NEW check, check.provider # "cargo", NEW T, NEW found \in Seq(T),
         \A i \in DOMAIN found : found[i].kind # "numeric_verdict",
         \A i \in DOMAIN found : found[i].kind = "numeric_comparison" =>
           IsRight(Passes(found[i]), found[i].value.expected, found[i].value.observed,
                   project.tolerance)
  PROVE  IsReevaluated(check,
           found \o FlattenSeq([i \in DOMAIN found |-> Reevaluation(found[i])]))
<1> DEFINE n == Len(found)
           seqs == [i \in DOMAIN found |-> Reevaluation(found[i])]
           S == {seqs[i][j] : i \in 1..n, j \in {1, 2}}
           flat == FlattenSeq(seqs)
           all == found \o flat
           pairs == Of("numeric_comparison", all)
           verdicts == Of("numeric_verdict", all)
<1>1. n \in Nat /\ DOMAIN found = 1..n
  OBVIOUS
<1>2. ASSUME NEW i \in 1..n
      PROVE  /\ seqs[i] \in Seq(S)
             /\ Len(seqs[i]) \in Nat
             /\ \A j \in 1..Len(seqs[i]) : seqs[i][j].kind # "numeric_comparison"
             /\ found[i].kind = "numeric_comparison" =>
                  /\ Len(seqs[i]) = 2
                  /\ seqs[i][1] = Observation("numeric_verdict", found[i], Passes(found[i]))
                  /\ seqs[i][2].kind # "numeric_verdict"
             /\ found[i].kind # "numeric_comparison" =>
                  \A j \in 1..Len(seqs[i]) : seqs[i][j].kind # "numeric_verdict"
  <2>1. seqs[i] = Reevaluation(found[i])
    BY <1>1
  <2>2. {seqs[i][1], seqs[i][2]} \subseteq S
    OBVIOUS
  <2> HIDE DEF seqs, S
  <2>3. seqs[i] \in Seq({seqs[i][1], seqs[i][2]})
    BY <2>1, Reevaluations
  <2>4. seqs[i] \in Seq(S)
    BY <2>2, <2>3
  <2> QED
    BY <2>1, <2>3, <2>4, Reevaluations
<1>3. seqs \in [1..n -> Seq(S)]
  <2>1. DOMAIN seqs = 1..n /\ seqs = [i \in 1..n |-> seqs[i]]
    BY <1>1
  <2> HIDE DEF seqs, S
  <2> QED
    BY <1>2, <2>1
<1> HIDE DEF seqs, S
<1> HIDE DEF n
<1>4. PICK off \in [0..n -> Nat] : HasOffsets(flat, seqs, n, off)
  BY <1>1, <1>3, Flattening
<1>5. /\ Len(flat) = off[n]
      /\ \A i \in 1..n : off[i] = off[i - 1] + Len(seqs[i])
      /\ \A i, j \in 0..n : i <= j => off[i] <= off[j]
      /\ \A i \in 1..n : \A j \in 1..Len(seqs[i]) : flat[off[i - 1] + j] = seqs[i][j]
      /\ \A p \in 1..Len(flat) : \E i \in 1..n : \E j \in 1..Len(seqs[i]) : p = off[i - 1] + j
  BY <1>4 DEF HasOffsets
<1>6. flat \in Seq(S)
  BY <1>1, <1>3, Flattening
<1> HIDE DEF flat
<1>7. /\ DOMAIN all = 1..(n + Len(flat)) /\ Len(flat) \in Nat
      /\ \A p \in 1..n : all[p] = found[p]
      /\ \A p \in 1..Len(flat) : all[n + p] = flat[p]
  <2>1. found \in Seq(T \cup S) /\ flat \in Seq(T \cup S)
    BY <1>6
  <2>2. Len(flat) \in Nat /\ Len(all) = n + Len(flat) /\ DOMAIN all = 1..(n + Len(flat))
    BY <2>1 DEF n
  <2>3. \A p \in 1..(n + Len(flat)) : all[p] = IF p <= n THEN found[p] ELSE flat[p - n]
    BY <2>1 DEF n
  <2>4. \A p \in 1..n : p \in 1..(n + Len(flat)) /\ p <= n
    BY <1>1, <2>2
  <2>5. \A p \in 1..Len(flat) : n + p \in 1..(n + Len(flat)) /\ ~(n + p <= n) /\ (n + p) - n = p
    BY <1>1, <2>2
  <2> HIDE DEF all, n
  <2> QED
    BY <2>2, <2>3, <2>4, <2>5
<1> HIDE DEF all, n
<1>8. ASSUME NEW p \in DOMAIN all
      PROVE  \/ p \in 1..n /\ all[p] = found[p]
             \/ /\ p - n \in 1..Len(flat) /\ all[p] = flat[p - n]
                /\ \E i \in 1..n : \E j \in 1..Len(seqs[i]) :
                     p = n + (off[i - 1] + j) /\ all[p] = seqs[i][j]
  <2>1. CASE p <= n
    BY <1>1, <1>7, <2>1
  <2>2. CASE ~(p <= n)
    <3> DEFINE q == p - n
    <3>1. q \in 1..Len(flat) /\ p = n + q
      BY <1>1, <1>7, <2>2
    <3> HIDE DEF q
    <3>2. all[p] = flat[q]
      BY <1>7, <3>1
    <3>3. PICK i \in 1..n : \E j \in 1..Len(seqs[i]) : q = off[i - 1] + j
      BY <1>5, <3>1
    <3>4. PICK j \in 1..Len(seqs[i]) : q = off[i - 1] + j
      BY <3>3
    <3>5. flat[q] = seqs[i][j]
      BY <1>5, <3>4
    <3> QED
      BY <3>1, <3>2, <3>4, <3>5 DEF q
  <2> QED
    BY <2>1, <2>2
<1>9. pairs = {k \in 1..n : found[k].kind = "numeric_comparison"}
  <2>1. ASSUME NEW p \in pairs PROVE p \in 1..n /\ found[p].kind = "numeric_comparison"
    BY <1>2, <1>8 DEF Of
  <2>2. ASSUME NEW k \in 1..n, found[k].kind = "numeric_comparison" PROVE k \in pairs
    <3>1. k \in DOMAIN all
      BY <1>1, <1>7
    <3> QED
      BY <1>7, <2>2, <3>1 DEF Of
  <2> HIDE DEF pairs
  <2> QED
    BY <2>1, <2>2
<1> DEFINE match == [k \in pairs |-> n + (off[k - 1] + 1)]
<1>10. ASSUME NEW k \in pairs
      PROVE  /\ k \in 1..n /\ off[k - 1] \in Nat /\ off[k] \in Nat /\ off[k] = off[k - 1] + 2
             /\ match[k] = n + (off[k - 1] + 1)
             /\ match[k] \in verdicts
             /\ all[match[k]] = Observation("numeric_verdict", found[k], Passes(found[k]))
             /\ all[k] = found[k]
  <2>1. k \in 1..n /\ found[k].kind = "numeric_comparison" /\ k - 1 \in 0..n /\ k \in 0..n
    BY <1>1, <1>9
  <2>2. off[k - 1] \in Nat /\ off[k] \in Nat /\ off[k] = off[k - 1] + 2 /\ off[n] \in Nat /\ off[k] <= off[n]
    <3>1. n \in 0..n /\ k <= n
      BY <1>1, <2>1
    <3> QED
      BY <1>2, <1>5, <2>1, <3>1
  <2>3. match[k] = n + (off[k - 1] + 1)
    <3> HIDE DEF pairs
    <3> QED
      OBVIOUS
  <2>4. off[k - 1] + 1 \in 1..Len(flat)
    <3>1. Len(flat) = off[n]
      BY <1>5
    <3> QED
      BY <2>2, <3>1
  <2>5. flat[off[k - 1] + 1] = seqs[k][1]
    <3>1. 1 \in 1..Len(seqs[k])
      BY <1>2, <2>1
    <3> QED
      BY <1>5, <2>1, <3>1
  <2>6. all[match[k]] = seqs[k][1]
    BY <1>7, <2>3, <2>4, <2>5
  <2>7. all[match[k]] = Observation("numeric_verdict", found[k], Passes(found[k]))
    BY <1>2, <2>1, <2>6
  <2>8. match[k] \in DOMAIN all
    <3> DEFINE q == off[k - 1] + 1
    <3>1. q \in 1..Len(flat) /\ match[k] = n + q
      BY <2>3, <2>4
    <3> HIDE DEF q, match
    <3> QED
      BY <1>1, <1>7, <3>1
  <2>9. match[k] \in verdicts
    <3> HIDE DEF match
    <3>1. all[match[k]].kind = "numeric_verdict"
      BY <2>7 DEF Observation
    <3> QED
      BY <2>8, <3>1 DEF Of
  <2> HIDE DEF match
  <2> QED
    BY <1>7, <2>1, <2>2, <2>3, <2>7, <2>9
<1>11. ASSUME NEW k \in pairs, NEW l \in pairs, k < l PROVE match[k] < match[l]
  <2>1. l - 1 \in 0..n /\ k \in 0..n /\ k <= l - 1
    BY <1>1, <1>10, <1>11
  <2>2. off[k] <= off[l - 1]
    BY <1>5, <2>1
  <2>3. match[k] = n + (off[k - 1] + 1) /\ match[l] = n + (off[l - 1] + 1) /\ off[k] = off[k - 1] + 2
    BY <1>10
  <2>4. off[k - 1] \in Nat /\ off[k] \in Nat /\ off[l - 1] \in Nat
    BY <1>10
  <2> HIDE DEF match, pairs
  <2> QED
    BY <1>1, <2>2, <2>3, <2>4
<1>12. ASSUME NEW v \in verdicts PROVE \E k \in pairs : match[k] = v
  <2>1. v \in DOMAIN all /\ all[v].kind = "numeric_verdict"
    BY DEF Of
  <2>2. ~(v \in 1..n /\ all[v] = found[v])
    BY <1>1, <2>1
  <2>3. PICK i \in 1..n : \E j \in 1..Len(seqs[i]) : v = n + (off[i - 1] + j) /\ all[v] = seqs[i][j]
    BY <1>8, <2>1, <2>2
  <2> PICK j \in 1..Len(seqs[i]) : v = n + (off[i - 1] + j) /\ all[v] = seqs[i][j]
    BY <2>3
  <2>4. found[i].kind = "numeric_comparison"
    BY <1>2, <2>1
  <2>5. j = 1
    <3>1. j \in 1..2 /\ j # 2
      BY <1>2, <2>1, <2>4
    <3> QED
      BY <3>1
  <2>6. i \in pairs
    BY <1>9, <2>4
  <2>7. match[i] = v
    BY <1>10, <2>5, <2>6
  <2> QED
    BY <2>6, <2>7
<1>13. match \in Bijection(pairs, verdicts)
  <2>1. DOMAIN match = pairs /\ match = [k \in pairs |-> match[k]]
    OBVIOUS
  <2>2. \A k, l \in pairs : match[k] = match[l] => k = l
    <3> SUFFICES ASSUME NEW k \in pairs, NEW l \in pairs, match[k] = match[l], k # l PROVE FALSE
      OBVIOUS
    <3> HIDE DEF match, pairs
    <3>1. k \in 1..n /\ l \in 1..n
      BY <1>10
    <3>2. k < l \/ l < k
      BY <1>1, <3>1
    <3>3. match[k] \in Nat /\ match[l] \in Nat
      <4>1. match[k] = n + (off[k - 1] + 1) /\ match[l] = n + (off[l - 1] + 1)
        BY <1>10
      <4>2. off[k - 1] \in Nat /\ off[l - 1] \in Nat
        BY <1>10
      <4> QED
        BY <1>1, <4>1, <4>2
    <3> QED
      BY <1>11, <3>2, <3>3
  <2> HIDE DEF match, pairs, verdicts
  <2>3. match \in [pairs -> verdicts]
    BY <1>10, <2>1
  <2>4. match \in Injection(pairs, verdicts)
    BY <2>1, <2>2, <2>3 DEF Injection, IsInjective
  <2>5. match \in Surjection(pairs, verdicts)
    BY <1>12, <2>3 DEF Surjection
  <2> QED
    BY <2>4, <2>5 DEF Bijection
<1>14. ASSUME NEW k \in pairs
       PROVE  /\ all[match[k]].name = all[k].name
              /\ IsRight(all[match[k]].value, all[k].value.expected, all[k].value.observed,
                         project.tolerance)
  <2>1. all[match[k]] = Observation("numeric_verdict", found[k], Passes(found[k])) /\ all[k] = found[k]
    BY <1>10
  <2>2. all[match[k]].name = found[k].name /\ all[match[k]].value = Passes(found[k])
    <3> HIDE DEF match
    <3> QED
      BY <2>1 DEF Observation
  <2>3. IsRight(Passes(found[k]), found[k].value.expected, found[k].value.observed, project.tolerance)
    BY <1>1, <1>9
  <2> HIDE DEF match, pairs
  <2> QED
    BY <2>1, <2>2, <2>3
<1> HIDE DEF match, pairs, verdicts
<1>15. \E m \in Bijection(pairs, verdicts) :
         /\ \A k, l \in pairs : k < l => m[k] < m[l]
         /\ \A k \in pairs :
              /\ all[m[k]].name = all[k].name
              /\ IsRight(all[m[k]].value, all[k].value.expected, all[k].value.observed,
                         project.tolerance)
  BY <1>11, <1>13, <1>14
<1>16. IsReevaluated(check, all)
  BY <1>15 DEF IsReevaluated, pairs, verdicts
<1> QED
  BY <1>16 DEF all, flat, seqs

(* So it is with every execution of a command.                             *)
LEMMA ExecutionsAreReevaluated ==
  ASSUME project \in Projects, NEW check, IsCheck(check), NEW exit,
         NEW lines, IsOutput(lines), NEW capture \in Captures(lines)
  PROVE  IsReevaluated(check, Execution(check, exit, capture.lines).observations)
<1> DEFINE found == Observed(capture.lines)
           T == {found[i] : i \in DOMAIN found}
<1>1. /\ Len(capture.lines) \in Nat /\ DOMAIN capture.lines = 1..Len(capture.lines)
      /\ \A k \in MarkedIn(capture.lines) :
           IsSound(capture.lines[k]) => IsLine(capture.lines[k])
  BY CapturesAreOfLines
<1>2. /\ found \in Seq(T)
      /\ \A i \in DOMAIN found : \E k \in MarkedIn(capture.lines) :
           IsSound(capture.lines[k]) /\ found[i] = ToModelObservation(capture.lines[k])
  BY <1>1, ObservedAreSound
<1> HIDE DEF found
<1>3. ASSUME NEW i \in DOMAIN found
      PROVE  /\ found[i].kind \notin {"numeric_verdict", "structured_observation_count"}
             /\ found[i].kind = "numeric_comparison" =>
                  IsRight(Passes(found[i]), found[i].value.expected, found[i].value.observed,
                          project.tolerance)
  <2>1. PICK k \in MarkedIn(capture.lines) :
          IsSound(capture.lines[k]) /\ found[i] = ToModelObservation(capture.lines[k])
    BY <1>2
  <2> DEFINE line == capture.lines[k]
  <2>2. IsLine(line) /\ IsMarked(line) /\ IsSound(line) /\ found[i] = ToModelObservation(line)
    BY <1>1, <2>1 DEF MarkedIn
  <2> HIDE DEF line
  <2>3. line.kind \in {"numeric_comparison", "fingerprint", "metric", "property"}
    BY <2>2 DEF IsSound, IsValid
  <2>4. found[i].kind = line.kind
    BY <2>2, <2>3 DEF ToModelObservation
  <2>5. ASSUME line.kind = "numeric_comparison"
        PROVE  IsRight(Passes(found[i]), found[i].value.expected, found[i].value.observed,
                       project.tolerance)
    <3>1. line.expected \in Finite /\ line.observed \in Finite
      BY <2>2, <2>5 DEF IsLine, IsMarked, IsSound, IsValid
    <3>2. found[i].value.expected = line.expected /\ found[i].value.observed = line.observed
      BY <2>2, <2>5 DEF ToModelObservation
    <3>3. Passes(found[i]) = Compare(line.expected, line.observed, project.tolerance)
      BY <3>2 DEF Passes
    <3>4. project.tolerance \in Tolerance
      BY ProjectsAreWellFormed
    <3> QED
      BY <3>1, <3>2, <3>3, <3>4, CompareIsRight
  <2> QED
    BY <2>3, <2>4, <2>5
<1>4. CASE check.provider = "cargo"
  <2> DEFINE count == [kind |-> "structured_observation_count", name |-> "text",
                       unit |-> Nothing, value |-> Len(found)]
             all == Append(found, count)
  <2>1. Execution(check, exit, capture.lines).observations = all
    BY <1>4 DEF Execution, Counted, found
  <2>2. count.kind # "numeric_verdict"
    OBVIOUS
  <2> HIDE DEF count
  <2>3. /\ DOMAIN all = 1..(Len(found) + 1) /\ Len(found) \in Nat /\ DOMAIN found = 1..Len(found)
        /\ all[Len(found) + 1] = count
        /\ \A i \in 1..Len(found) : all[i] = found[i]
    <3>1. found \in Seq(T \cup {count})
      BY <1>2
    <3> HIDE DEF T
    <3> QED
      BY <1>2, <3>1
  <2> HIDE DEF all
  <2>4. \A i \in DOMAIN all : i = Len(found) + 1 \/ i \in 1..Len(found)
    BY <2>3
  <2>5. \A i \in DOMAIN all : all[i].kind # "numeric_verdict"
    BY <1>3, <2>2, <2>3, <2>4
  <2>6. Of("numeric_verdict", all) = {}
    BY <2>5 DEF Of
  <2> QED
    BY <1>4, <2>1, <2>6 DEF IsReevaluated
<1>5. CASE check.provider # "cargo"
  <2>1. Execution(check, exit, capture.lines).observations
          = found \o FlattenSeq([i \in DOMAIN found |-> Reevaluation(found[i])])
    BY <1>5 DEF Execution, Judged, found
  <2> HIDE DEF T
  <2>2. IsReevaluated(check,
          found \o FlattenSeq([i \in DOMAIN found |-> Reevaluation(found[i])]))
    BY <1>2, <1>3, <1>5, VerdictsAreMatched
  <2> QED
    BY <2>1, <2>2
<1> QED
  BY <1>4, <1>5

(* Nothing was observed of a command that was skipped.                     *)
LEMMA SkippedAreEmpty ==
  ASSUME NEW check, NEW observations, observations = <<>>
  PROVE  IsReevaluated(check, observations)
<1> DEFINE none == [k \in {} |-> 0]
<1>1. \A kind : Of(kind, observations) = {}
  BY DEF Of
<1>2. none \in Bijection({}, {})
  <2>1. none \in [{} -> {}] /\ DOMAIN none = {}
    OBVIOUS
  <2> HIDE DEF none
  <2>2. none \in Injection({}, {}) /\ none \in Surjection({}, {})
    BY <2>1 DEF Injection, IsInjective, Surjection
  <2> QED
    BY <2>2 DEF Bijection
<1> HIDE DEF none
<1> QED
  BY <1>1, <1>2 DEF IsReevaluated

(* One more execution is made of one more capture.                         *)
LEMMA ExecutionsAreMade ==
  ASSUME IInv, Made, NEW end \in project.ends, ExecuteCommand(end.exit, end.lines)
  PROVE  Made'
<1>1. PICK capture \in Captures(end.lines) :
        /\ ran' = Append(ran, [exit |-> end.exit, wrote |-> end.lines, captured |-> capture])
        /\ executions' = Append(executions, Execution(CurrentCheck, end.exit, capture.lines))
  BY DEF ExecuteCommand
<1>2. project' = project
  BY DEF ExecuteCommand
<1>3. end.exit \in ExitStatus /\ IsOutput(end.lines)
  BY ProjectsAreWellFormed DEF IInv, Shape
<1>4. IsSequence(ran) /\ IsSequence(executions) /\ Len(ran) = Len(executions)
  BY DEF IInv, Shape
<1>5. /\ Len(ran') = Len(ran) + 1 /\ Len(ran) \in Nat
      /\ ran'[Len(ran) + 1] = [exit |-> end.exit, wrote |-> end.lines, captured |-> capture]
      /\ \A i \in 1..Len(ran) : ran'[i] = ran[i]
  BY <1>1, <1>4, Grown
<1>6. /\ executions'[Len(ran) + 1] = Execution(CurrentCheck, end.exit, capture.lines)
      /\ \A i \in 1..Len(ran) : executions'[i] = executions[i]
  BY <1>1, <1>4, Grown
<1>7. \A check, exit, lines : Execution(check, exit, lines)' = Execution(check, exit, lines)
  BY <1>2 DEF Execution, Judged, Counted, Contradicts, Reevaluation, Passes, Observation
<1> SUFFICES ASSUME NEW i \in 1..Len(ran') PROVE IsSettled(i)'
  BY DEF Made
<1>8. CASE i \in 1..Len(ran)
  <2>1. ran'[i] = ran[i] /\ executions'[i] = executions[i]
    BY <1>5, <1>6, <1>8
  <2>2. IsSettled(i)
    BY <1>8 DEF Made
  <2> QED
    BY <1>2, <1>7, <2>1, <2>2 DEF IsSettled, HasRun, IsMade
<1>9. CASE i = Len(ran) + 1
  <2>1. CurrentCheck = project.checks[i]
    BY <1>4, <1>9 DEF CurrentCheck
  <2> QED
    BY <1>2, <1>3, <1>5, <1>6, <1>7, <1>9, <2>1 DEF IsSettled, IsMade
<1> QED
  BY <1>5, <1>8, <1>9

(* Executions and their histories stay as they were made.                  *)
LEMMA MadeStep == IInv /\ Made /\ [Next]_vars => Made'
<1> SUFFICES ASSUME IInv, Made, [Next]_vars PROVE Made'
  OBVIOUS
<1>1. project' = project => \A check, exit, lines :
        Execution(check, exit, lines)' = Execution(check, exit, lines)
  BY DEF Execution, Judged, Counted, Contradicts, Reevaluation, Passes, Observation
<1>2. ASSUME NEW end \in project.ends, ExecuteCommand(end.exit, end.lines) PROVE Made'
  BY <1>2, ExecutionsAreMade
<1>3. CASE SkipCommand
  <2>1. /\ ran' = Append(ran, [exit |-> Nothing]) /\ project' = project
        /\ executions' = Append(executions, [outcome |-> "skipped", observations |-> <<>>])
    BY <1>3 DEF SkipCommand
  <2>2. IsSequence(ran) /\ IsSequence(executions) /\ Len(ran) = Len(executions)
    BY DEF IInv, Shape
  <2>3. /\ Len(ran') = Len(ran) + 1 /\ Len(ran) \in Nat
        /\ ran'[Len(ran) + 1] = [exit |-> Nothing]
        /\ \A i \in 1..Len(ran) : ran'[i] = ran[i]
    BY <2>1, <2>2, Grown
  <2>4. /\ executions'[Len(ran) + 1] = [outcome |-> "skipped", observations |-> <<>>]
        /\ \A i \in 1..Len(ran) : executions'[i] = executions[i]
    BY <2>1, <2>2, Grown
  <2> SUFFICES ASSUME NEW i \in 1..Len(ran') PROVE IsSettled(i)'
    BY DEF Made
  <2>5. CASE i = Len(ran) + 1
    BY <2>3, <2>4, <2>5 DEF IsSettled, HasRun
  <2>6. CASE i \in 1..Len(ran)
    <3>1. ran'[i] = ran[i] /\ executions'[i] = executions[i] /\ IsSettled(i)
      BY <2>3, <2>4, <2>6 DEF Made
    <3>2. CASE IsMade(i)
      <4>1. IsMade(i)'
        BY <1>1, <2>1, <3>1, <3>2 DEF IsMade
      <4> QED
        BY <4>1 DEF IsSettled
    <3>3. CASE ~HasRun(i) /\ executions[i].observations = <<>>
      BY <3>1, <3>3 DEF IsSettled, HasRun
    <3> QED
      BY <3>1, <3>2, <3>3 DEF IsSettled
  <2> QED
    BY <2>3, <2>5, <2>6
<1>4. CASE UNCHANGED <<project, ran, executions>>
  BY <1>1, <1>4 DEF Made, IsSettled, HasRun, IsMade
<1>5. AbortRun \/ Finalize \/ UNCHANGED vars => UNCHANGED <<project, ran, executions>>
  BY DEF AbortRun, Finalize, vars
<1> QED
  BY <1>2, <1>3, <1>4, <1>5 DEF Next, Finished

(* The outcome of a declared or numeric check follows from the exit of its *)
(* command and the captured lines, wherever the capture limit cuts them,   *)
(* for all outputs, tolerances and floats: it is not verified against one, *)
(* unless one does not parse, and a failed one is refuted by a line of its *)
(* own, be it as the beginning of a broken line that was cut.              *)
THEOREM OutcomesFollowFromOutput == Spec => []VerdictsFollowFromOutput
<1>1. Init => Made
  BY DEF Init, Made
<1>2. IInv /\ Made => VerdictsFollowFromOutput
  <2> SUFFICES ASSUME IInv, Made PROVE VerdictsFollowFromOutput
    OBVIOUS
  <2>1. project \in Projects /\ DOMAIN executions = 1..Len(ran)
        /\ Len(executions) <= Len(project.checks) /\ Len(executions) = Len(ran) /\ Len(ran) \in Nat
    BY DEF IInv, Shape, IsSequence
  <2>2. ASSUME NEW i \in DOMAIN executions, HasRun(i) PROVE IsMade(i) /\ IsCheck(project.checks[i])
    <3>1. IsMade(i)
      BY <2>1, <2>2 DEF Made, IsSettled
    <3>2. i \in DOMAIN project.checks
      BY <2>1, ProjectsAreWellFormed
    <3> QED
      BY <2>1, <3>1, <3>2, ProjectsAreWellFormed
  <2> QED
    BY <2>1, <2>2, OutcomesFollow DEF VerdictsFollowFromOutput, IsMade
<1> QED
  BY <1>1, <1>2, InitialStates, Invariance, MadeStep, PTL DEF Spec

(* The comparisons that a program reports have one verdict each, in their  *)
(* order and under their names, and it is right, for every program, limit, *)
(* tolerance and float format.                                             *)
THEOREM RecordedVerdictsAreRight == Spec => []NumericVerdictsAreRight
<1>1. Init => Made
  BY DEF Init, Made
<1>2. IInv /\ Made => NumericVerdictsAreRight
  <2> SUFFICES ASSUME IInv, Made, NEW i \in DOMAIN executions
               PROVE  IsReevaluated(project.checks[i], executions[i].observations)
    BY DEF NumericVerdictsAreRight
  <2>1. project \in Projects /\ i \in 1..Len(ran) /\ i \in DOMAIN project.checks
        /\ IsCheck(project.checks[i])
    <3>1. project \in Projects /\ DOMAIN executions = 1..Len(ran)
          /\ Len(executions) <= Len(project.checks) /\ Len(executions) = Len(ran) /\ Len(ran) \in Nat
      BY DEF IInv, Shape, IsSequence
    <3>2. i \in DOMAIN project.checks
      BY <3>1, ProjectsAreWellFormed
    <3> QED
      BY <3>1, <3>2, ProjectsAreWellFormed
  <2>2. CASE IsMade(i)
    BY <2>1, <2>2, ExecutionsAreReevaluated DEF IsMade
  <2>3. CASE executions[i].observations = <<>>
    BY <2>3, SkippedAreEmpty
  <2> QED
    BY <2>1, <2>2, <2>3 DEF Made, IsSettled
<1> QED
  BY <1>1, <1>2, InitialStates, Invariance, MadeStep, PTL DEF Spec

=============================================================================
