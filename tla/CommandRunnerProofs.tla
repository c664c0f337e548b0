------------------------- MODULE CommandRunnerProofs -------------------------
(***************************************************************************)
(* Safety of CommandRunner, for every set of processes, capture limit and  *)
(* pipe size: what execute records is the whole output of a command of     *)
(* which nothing is left, and a status its child came to by itself.        *)
(***************************************************************************)
EXTENDS CommandRunner, TLAPS

(* The invariant. Before execute kills the group nobody has been killed;   *)
(* afterwards nobody in it runs, so nobody in it can start another.        *)
BeforeKill == pc \in {"start", "polling", "checking"}

AfterKill == pc \in {"reaping", "probing", "scanning", "confirming", "draining"}
             \/ outcome \in Record

Started ==
  /\ pc = "start" => /\ \A p \in Proc : state[p] = "unborn"
                     /\ \A s \in Stream : reader[s] = "absent"
                     /\ verdict = "none" /\ collected = {}
  /\ pc \notin {"start", "done"} => state[Leader] # "unborn"
  /\ pc # "done" => outcome = "none"

StatusInv ==
  /\ BeforeKill => /\ ended # "killed" /\ state[Leader] # "dying"
                   /\ verdict = "none"
                   /\ state[Leader] = "zombie" => ended = "by_itself"
  /\ verdict = "exited" => ended = "by_itself" /\ state[Leader] = "gone"
  /\ outcome = "exited" => verdict = "exited"

GroupInv ==
  /\ \A p \in group : state[p] # "unborn"
  /\ AfterKill => \A p \in Proc : p \in group => state[p] # "running"
  /\ pc = "scanning" => \A p \in Proc : Live(p) => p \in scan
  /\ pc = "draining" \/ outcome \in Record => \A p \in Proc : ~Live(p)

StreamInv ==
  /\ \A s \in Stream : /\ total[s] + pipe[s] = written[s]
                       /\ kept[s] = Smaller(Limit, total[s])
                       /\ truncated[s] <=> total[s] > Limit
                       /\ reader[s] = "sent" => pipe[s] = 0 /\ holders[s] = {}
  /\ \A s \in collected : reader[s] = "sent"
  /\ outcome \in Record => \A s \in Stream : reader[s] = "sent"

Inv == TypeOK /\ Started /\ StatusInv /\ GroupInv /\ StreamInv

-----------------------------------------------------------------------------
(* Steps that change nothing preserve everything.                          *)

(* Every variable has its type, and more, before the command is spawned.   *)
LEMMA InitInv == Init => Inv
<1> SUFFICES ASSUME Init PROVE Inv
  OBVIOUS
<1> USE RunnerConstants DEF Init
<1>1. TypeOK
  <2>1. truncated \in [Stream -> BOOLEAN]
    BY Zenon
  <2>2. written \in [Stream -> 0..MaxBytes] /\ pipe \in [Stream -> 0..PipeSize]
        /\ total \in [Stream -> 0..MaxBytes] /\ kept \in [Stream -> 0..Limit]
        /\ faults \in 0..MaxFaults
    OBVIOUS
  <2> QED BY <2>1, <2>2 DEF TypeOK, ClockRuns
<1>2. Started
  BY DEF Started
<1>3. StatusInv
  BY RunnerConstants DEF StatusInv, Record
<1>4. GroupInv
  BY DEF GroupInv, AfterKill, Record
<1>5. StreamInv
  BY DEF StreamInv, Smaller, Record
<1> QED BY <1>1, <1>2, <1>3, <1>4, <1>5 DEF Inv

(* Stuttering, of the specification or when all has ended.                 *)
LEMMA StutterInv ==
  ASSUME Inv, UNCHANGED vars
  PROVE  Inv'
BY DEF vars, processes, captures, executor, Inv, TypeOK, Started, StatusInv, GroupInv,
   StreamInv, BeforeKill, AfterKill, Live

-----------------------------------------------------------------------------
(* Types.                                                                  *)

(* The processes of the command and the system keep the types.             *)
LEMMA CommandType ==
  ASSUME Inv, Command \/ DeadlinePasses
  PROVE  TypeOK'
<1> USE RunnerConstants DEF Inv, TypeOK, Environment, captures, executor, processes
<1>1. ASSUME NEW p \in Proc, NEW q \in Proc, Fork(p, q) PROVE TypeOK'
  BY <1>1 DEF Fork
<1>2. ASSUME NEW p \in Proc, LeaveGroup(p) PROVE TypeOK'
  BY <1>2 DEF LeaveGroup
<1>3. ASSUME NEW p \in Proc, Exit(p) PROVE TypeOK'
  BY <1>3 DEF Exit, End
<1>4. ASSUME NEW p \in Proc, Die(p) PROVE TypeOK'
  BY <1>4 DEF Die, End
<1>5. ASSUME NEW p \in Proc, Reaped(p) PROVE TypeOK'
  BY <1>5 DEF Reaped
<1>6. ASSUME NEW p \in Proc, NEW s \in Stream, Write(p, s) PROVE TypeOK'
  BY <1>6 DEF Write
<1>7. ASSUME NEW p \in Proc, NEW s \in Stream, Close(p, s) PROVE TypeOK'
  BY <1>7 DEF Close
<1>8. CASE DeadlinePasses
  BY <1>8 DEF DeadlinePasses
<1> QED BY <1>1, <1>2, <1>3, <1>4, <1>5, <1>6, <1>7, <1>8 DEF Command

(* The capturers keep the types: a chunk fits in what the pipe held.      *)
LEMMA CaptureType ==
  ASSUME Inv, NEW t \in Stream, Capture(t)
  PROVE  TypeOK'
<1> USE RunnerConstants DEF Inv, TypeOK, StreamInv, Capturing, executor, processes
<1>1. CASE Read(t)
  BY <1>1 DEF Read, Smaller
<1>2. CASE EndOfStream(t)
  BY <1>2 DEF EndOfStream, Smaller
<1>3. CASE ReadFails(t)
  BY <1>3 DEF ReadFails, Fault, Smaller
<1> QED BY <1>1, <1>2, <1>3 DEF Capture

(* execute keeps the types.                                               *)
LEMMA ExecuteType ==
  ASSUME Inv, Execute
  PROVE  TypeOK'
<1> USE RunnerConstants DEF Inv, TypeOK, Executing, executor, processes, captures, Enter, Done, Fault, NoFault, ClockRuns, Record
<1>1. CASE Spawn
  <2>1. late' \in BOOLEAN
    BY <1>1, Zenon DEF Spawn
  <2> QED BY <1>1, <2>1 DEF Spawn
<1>2. CASE TryWait
  BY <1>2 DEF TryWait
<1>3. CASE CheckDeadline
  BY <1>3 DEF CheckDeadline
<1>4. CASE Kill
  <2>1. late' \in BOOLEAN
    BY <1>4, Zenon DEF Kill
  <2> QED BY <1>4, <2>1 DEF Kill
<1>5. CASE ReapLeader
  <2>1. late' \in BOOLEAN
    BY <1>5, Zenon DEF ReapLeader
  <2> QED BY <1>5, <2>1 DEF ReapLeader
<1>6. CASE Probe
  <2>1. late' \in BOOLEAN
    BY <1>6, Zenon DEF Probe
  <2> QED BY <1>6, <2>1 DEF Probe
<1>7. ASSUME NEW p \in Proc, Inspect(p) PROVE TypeOK'
  BY <1>7 DEF Inspect
<1>8. CASE EndScan
  <2>1. late' \in BOOLEAN
    BY <1>8, Zenon DEF EndScan
  <2> QED BY <1>8, <2>1 DEF EndScan
<1>9. CASE Confirm
  BY <1>9 DEF Confirm
<1>10. ASSUME NEW s \in Stream, Receive(s) PROVE TypeOK'
  BY <1>10 DEF Receive
<1> QED BY <1>1, <1>2, <1>3, <1>4, <1>5, <1>6, <1>7, <1>8, <1>9, <1>10 DEF Execute


-----------------------------------------------------------------------------
(* The rest of the invariant.                                              *)

(* A step of anybody, except that nothing happens.                         *)
Step == Command \/ DeadlinePasses \/ (\E s \in Stream : Capture(s)) \/ Execute

(* Nothing happens before the spawn, nobody is born twice.                 *)
LEMMA StartedStep ==
  ASSUME Inv, Step
  PROVE  Started'
<1> USE RunnerConstants DEF Inv, TypeOK, Environment, Capturing, Executing, captures, executor, processes, Enter, Done, Fault, NoFault, ClockRuns, Record, Started
<1>1. ASSUME NEW p \in Proc, NEW q \in Proc, Fork(p, q) PROVE Started'
  BY <1>1 DEF Fork
<1>2. ASSUME NEW p \in Proc, LeaveGroup(p) PROVE Started'
  BY <1>2 DEF LeaveGroup
<1>3. ASSUME NEW p \in Proc, Exit(p) PROVE Started'
  BY <1>3 DEF Exit, End
<1>4. ASSUME NEW p \in Proc, Die(p) PROVE Started'
  BY <1>4 DEF Die, End
<1>5. ASSUME NEW p \in Proc, Reaped(p) PROVE Started'
  BY <1>5 DEF Reaped
<1>6. ASSUME NEW p \in Proc, NEW s \in Stream, Write(p, s) PROVE Started'
  BY <1>6 DEF Write
<1>7. ASSUME NEW p \in Proc, NEW s \in Stream, Close(p, s) PROVE Started'
  BY <1>7 DEF Close
<1>8. CASE DeadlinePasses
  BY <1>8 DEF DeadlinePasses
<1>9. ASSUME NEW s \in Stream, Read(s) PROVE Started'
  BY <1>9 DEF Read
<1>10. ASSUME NEW s \in Stream, EndOfStream(s) PROVE Started'
  BY <1>10 DEF EndOfStream
<1>11. ASSUME NEW s \in Stream, ReadFails(s) PROVE Started'
  BY <1>11 DEF ReadFails, Fault
<1>12. CASE Spawn
  BY <1>12 DEF Spawn
<1>13. CASE TryWait
  BY <1>13 DEF TryWait
<1>14. CASE CheckDeadline
  BY <1>14 DEF CheckDeadline
<1>15. CASE Kill
  BY <1>15 DEF Kill
<1>16. CASE ReapLeader
  BY <1>16 DEF ReapLeader
<1>17. CASE Probe
  BY <1>17 DEF Probe
<1>18. ASSUME NEW p \in Proc, Inspect(p) PROVE Started'
  BY <1>18 DEF Inspect
<1>19. CASE EndScan
  BY <1>19 DEF EndScan
<1>20. CASE Confirm
  BY <1>20 DEF Confirm
<1>21. ASSUME NEW s \in Stream, Receive(s) PROVE Started'
  BY <1>21 DEF Receive
<1> QED
  BY <1>1, <1>2, <1>3, <1>4, <1>5, <1>6, <1>7, <1>8, <1>9, <1>10, <1>11,
     <1>12, <1>13, <1>14, <1>15, <1>16, <1>17, <1>18, <1>19, <1>20, <1>21
  DEF Step, Command, Capture, Execute

(* Only execute kills, and it does not change a status that it has read.   *)
LEMMA StatusStep ==
  ASSUME Inv, Step
  PROVE  StatusInv'
<1> USE RunnerConstants DEF Inv, TypeOK, Environment, Capturing, Executing, captures, executor, processes, Enter, Done, Fault, NoFault, ClockRuns, Record, Started, StatusInv, BeforeKill
<1>1. ASSUME NEW p \in Proc, NEW q \in Proc, Fork(p, q) PROVE StatusInv'
  BY <1>1 DEF Fork
<1>2. ASSUME NEW p \in Proc, LeaveGroup(p) PROVE StatusInv'
  BY <1>2 DEF LeaveGroup
<1>3. ASSUME NEW p \in Proc, Exit(p) PROVE StatusInv'
  BY <1>3 DEF Exit, End
<1>4. ASSUME NEW p \in Proc, Die(p) PROVE StatusInv'
  BY <1>4 DEF Die, End
<1>5. ASSUME NEW p \in Proc, Reaped(p) PROVE StatusInv'
  BY <1>5 DEF Reaped
<1>6. ASSUME NEW p \in Proc, NEW s \in Stream, Write(p, s) PROVE StatusInv'
  BY <1>6 DEF Write
<1>7. ASSUME NEW p \in Proc, NEW s \in Stream, Close(p, s) PROVE StatusInv'
  BY <1>7 DEF Close
<1>8. CASE DeadlinePasses
  BY <1>8 DEF DeadlinePasses
<1>9. ASSUME NEW s \in Stream, Read(s) PROVE StatusInv'
  BY <1>9 DEF Read
<1>10. ASSUME NEW s \in Stream, EndOfStream(s) PROVE StatusInv'
  BY <1>10 DEF EndOfStream
<1>11. ASSUME NEW s \in Stream, ReadFails(s) PROVE StatusInv'
  BY <1>11 DEF ReadFails, Fault
<1>12. CASE Spawn
  BY <1>12 DEF Spawn
<1>13. CASE TryWait
  BY <1>13 DEF TryWait
<1>14. CASE CheckDeadline
  BY <1>14 DEF CheckDeadline
<1>15. CASE Kill
  BY <1>15 DEF Kill
<1>16. CASE ReapLeader
  BY <1>16 DEF ReapLeader
<1>17. CASE Probe
  BY <1>17 DEF Probe
<1>18. ASSUME NEW p \in Proc, Inspect(p) PROVE StatusInv'
  BY <1>18 DEF Inspect
<1>19. CASE EndScan
  BY <1>19 DEF EndScan
<1>20. CASE Confirm
  BY <1>20 DEF Confirm
<1>21. ASSUME NEW s \in Stream, Receive(s) PROVE StatusInv'
  BY <1>21 DEF Receive
<1> QED
  BY <1>1, <1>2, <1>3, <1>4, <1>5, <1>6, <1>7, <1>8, <1>9, <1>10, <1>11,
     <1>12, <1>13, <1>14, <1>15, <1>16, <1>17, <1>18, <1>19, <1>20, <1>21
  DEF Step, Command, Capture, Execute

(* After the kill nobody in the group starts anybody.                      *)
LEMMA GroupStep ==
  ASSUME Inv, Step
  PROVE  GroupInv'
<1> USE RunnerConstants DEF Inv, TypeOK, Environment, Capturing, Executing, captures, executor, processes, Enter, Done, Fault, NoFault, ClockRuns, Record, Started, GroupInv, AfterKill, Live, Members
<1>1. ASSUME NEW p \in Proc, NEW q \in Proc, Fork(p, q) PROVE GroupInv'
  BY <1>1 DEF Fork
<1>2. ASSUME NEW p \in Proc, LeaveGroup(p) PROVE GroupInv'
  BY <1>2 DEF LeaveGroup
<1>3. ASSUME NEW p \in Proc, Exit(p) PROVE GroupInv'
  BY <1>3 DEF Exit, End
<1>4. ASSUME NEW p \in Proc, Die(p) PROVE GroupInv'
  BY <1>4 DEF Die, End
<1>5. ASSUME NEW p \in Proc, Reaped(p) PROVE GroupInv'
  BY <1>5 DEF Reaped
<1>6. ASSUME NEW p \in Proc, NEW s \in Stream, Write(p, s) PROVE GroupInv'
  BY <1>6 DEF Write
<1>7. ASSUME NEW p \in Proc, NEW s \in Stream, Close(p, s) PROVE GroupInv'
  BY <1>7 DEF Close
<1>8. CASE DeadlinePasses
  BY <1>8 DEF DeadlinePasses
<1>9. ASSUME NEW s \in Stream, Read(s) PROVE GroupInv'
  BY <1>9 DEF Read
<1>10. ASSUME NEW s \in Stream, EndOfStream(s) PROVE GroupInv'
  BY <1>10 DEF EndOfStream
<1>11. ASSUME NEW s \in Stream, ReadFails(s) PROVE GroupInv'
  BY <1>11 DEF ReadFails, Fault
<1>12. CASE Spawn
  BY <1>12 DEF Spawn
<1>13. CASE TryWait
  BY <1>13 DEF TryWait
<1>14. CASE CheckDeadline
  BY <1>14 DEF CheckDeadline
<1>15. CASE Kill
  BY <1>15 DEF Kill
<1>16. CASE ReapLeader
  BY <1>16 DEF ReapLeader
<1>17. CASE Probe
  BY <1>17 DEF Probe
<1>18. ASSUME NEW p \in Proc, Inspect(p) PROVE GroupInv'
  BY <1>18 DEF Inspect
<1>19. CASE EndScan
  BY <1>19 DEF EndScan
<1>20. CASE Confirm
  BY <1>20 DEF Confirm
<1>21. ASSUME NEW s \in Stream, Receive(s) PROVE GroupInv'
  BY <1>21 DEF Receive
<1> QED
  BY <1>1, <1>2, <1>3, <1>4, <1>5, <1>6, <1>7, <1>8, <1>9, <1>10, <1>11,
     <1>12, <1>13, <1>14, <1>15, <1>16, <1>17, <1>18, <1>19, <1>20, <1>21
  DEF Step, Command, Capture, Execute

(* No byte is lost or counted twice.                                       *)
LEMMA StreamStep ==
  ASSUME Inv, Step
  PROVE  StreamInv'
<1> USE RunnerConstants DEF Inv, TypeOK, Environment, Capturing, Executing, captures, executor, processes, Enter, Done, Fault, NoFault, ClockRuns, Record, Started, StreamInv, Smaller
<1>1. ASSUME NEW p \in Proc, NEW q \in Proc, Fork(p, q) PROVE StreamInv'
  BY <1>1 DEF Fork
<1>2. ASSUME NEW p \in Proc, LeaveGroup(p) PROVE StreamInv'
  BY <1>2 DEF LeaveGroup
<1>3. ASSUME NEW p \in Proc, Exit(p) PROVE StreamInv'
  BY <1>3 DEF Exit, End
<1>4. ASSUME NEW p \in Proc, Die(p) PROVE StreamInv'
  BY <1>4 DEF Die, End
<1>5. ASSUME NEW p \in Proc, Reaped(p) PROVE StreamInv'
  BY <1>5 DEF Reaped
<1>6. ASSUME NEW p \in Proc, NEW s \in Stream, Write(p, s) PROVE StreamInv'
  BY <1>6 DEF Write
<1>7. ASSUME NEW p \in Proc, NEW s \in Stream, Close(p, s) PROVE StreamInv'
  BY <1>7 DEF Close
<1>8. CASE DeadlinePasses
  BY <1>8 DEF DeadlinePasses
<1>9. ASSUME NEW s \in Stream, Read(s) PROVE StreamInv'
  <2>1. PICK n \in 1..pipe[s] :
          /\ pipe' = [pipe EXCEPT ![s] = @ - n]
          /\ total' = [total EXCEPT ![s] = @ + n]
          /\ kept' = [kept EXCEPT ![s] = @ + Smaller(n, Limit - @)]
          /\ truncated' = [truncated EXCEPT ![s] = @ \/ total[s] + n > Limit]
    BY <1>9 DEF Read
  <2>2. ASSUME NEW t \in Stream
        PROVE  /\ total'[t] + pipe'[t] = written'[t]
               /\ kept'[t] = Smaller(Limit, total'[t])
    BY <1>9, <2>1, <2>2 DEF Read
  <2>3. ASSUME NEW t \in Stream
        PROVE  truncated'[t] <=> total'[t] > Limit
    <3>1. CASE t = s
      <4>1. total'[s] = total[s] + n /\ n > 0
        BY <2>1
      <4>2. truncated'[s] <=> (truncated[s] \/ total[s] + n > Limit)
        BY <2>1, Zenon
      <4> QED BY <3>1, <4>1, <4>2
    <3>2. CASE t # s
      <4>1. total'[t] = total[t]
        BY <2>1, <3>2
      <4>2. truncated'[t] <=> truncated[t]
        BY <2>1, <3>2, Zenon
      <4> QED BY <4>1, <4>2
    <3> QED BY <3>1, <3>2
  <2>4. \A t \in Stream : reader'[t] = "sent" => pipe'[t] = 0 /\ holders'[t] = {}
    BY <1>9, <2>1 DEF Read
  <2> QED BY <1>9, <2>2, <2>3, <2>4 DEF Read
<1>10. ASSUME NEW s \in Stream, EndOfStream(s) PROVE StreamInv'
  BY <1>10 DEF EndOfStream
<1>11. ASSUME NEW s \in Stream, ReadFails(s) PROVE StreamInv'
  BY <1>11 DEF ReadFails, Fault
<1>12. CASE Spawn
  BY <1>12 DEF Spawn
<1>13. CASE TryWait
  BY <1>13 DEF TryWait
<1>14. CASE CheckDeadline
  BY <1>14 DEF CheckDeadline
<1>15. CASE Kill
  BY <1>15 DEF Kill
<1>16. CASE ReapLeader
  BY <1>16 DEF ReapLeader
<1>17. CASE Probe
  BY <1>17 DEF Probe
<1>18. ASSUME NEW p \in Proc, Inspect(p) PROVE StreamInv'
  BY <1>18 DEF Inspect
<1>19. CASE EndScan
  BY <1>19 DEF EndScan
<1>20. CASE Confirm
  BY <1>20 DEF Confirm
<1>21. ASSUME NEW s \in Stream, Receive(s) PROVE StreamInv'
  BY <1>21 DEF Receive, Stream
<1> QED
  BY <1>1, <1>2, <1>3, <1>4, <1>5, <1>6, <1>7, <1>8, <1>9, <1>10, <1>11,
     <1>12, <1>13, <1>14, <1>15, <1>16, <1>17, <1>18, <1>19, <1>20, <1>21
  DEF Step, Command, Capture, Execute


-----------------------------------------------------------------------------
(* The theorems.                                                           *)

(* Every step preserves the invariant.                                     *)
LEMMA StepInv == Inv /\ [Next]_vars => Inv'
<1> SUFFICES ASSUME Inv, [Next]_vars PROVE Inv'
  OBVIOUS
<1>1. CASE Step
  <2>1. TypeOK'
    <3>1. CASE Command \/ DeadlinePasses
      BY <3>1, CommandType
    <3>2. ASSUME NEW s \in Stream, Capture(s) PROVE TypeOK'
      BY <3>2, CaptureType
    <3>3. CASE Execute
      BY <3>3, ExecuteType
    <3> QED BY <1>1, <3>1, <3>2, <3>3 DEF Step
  <2>2. Started' /\ StatusInv' /\ GroupInv' /\ StreamInv'
    BY <1>1, StartedStep, StatusStep, GroupStep, StreamStep
  <2> QED BY <2>1, <2>2 DEF Inv
<1>2. CASE UNCHANGED vars
  BY <1>2, StutterInv
<1> QED BY <1>1, <1>2 DEF Next, Step, Finished

(* The invariant holds throughout every behaviour of the runner.           *)
THEOREM InvHolds == Spec => []Inv
BY InitInv, StepInv, PTL DEF Spec

(* Type correctness, for every set of processes and all sizes.             *)
THEOREM RunnerTypes == Spec => []TypeOK
<1>1. Inv => TypeOK
  BY DEF Inv
<1> QED BY <1>1, InvHolds, PTL

(* When execute has returned a record, no process of the group of its      *)
(* child can run again (terminate_and_confirm).                            *)
THEOREM NothingOutlivesTheRecord == Spec => []RecordMeansGroupIsDead
<1>1. Inv => RecordMeansGroupIsDead
  BY DEF Inv, GroupInv, RecordMeansGroupIsDead
<1> QED BY <1>1, InvHolds, PTL

(* A record has all the output there will ever be (spawn_capturer and      *)
(* collect_capturers).                                                     *)
THEOREM OutputIsComplete == Spec => []RecordIsComplete
<1>1. Inv => RecordIsComplete
  BY RunnerConstants DEF Inv, TypeOK, StreamInv, RecordIsComplete
<1> QED BY <1>1, InvHolds, PTL

(* An exit status that is recorded is not the work of the SIGKILL that     *)
(* execute sends.                                                          *)
THEOREM StatusIsTheChilds == Spec => []ExitStatusIsTheChilds
<1>1. Inv => ExitStatusIsTheChilds
  BY DEF Inv, StatusInv, ExitStatusIsTheChilds
<1> QED BY <1>1, InvHolds, PTL

=============================================================================
