--------------------------- MODULE CommandRunner ---------------------------
(***************************************************************************)
(* execute of scirust-verify-runner on Linux: one command, the processes   *)
(* it starts, the two threads that drain its pipes, and the thread that    *)
(* waits for it, kills its process group, confirms that the group is dead  *)
(* and collects the captured streams, each under a deadline of its own.    *)
(*                                                                         *)
(* Bytes are counted, not modelled.  Processes may start others, leave the *)
(* group, write, close their streams and exit at any time; a SIGKILL takes *)
(* effect after a while.  They do not enter the group from outside, and    *)
(* the system does not give the number of a dead group to a new one.       *)
(***************************************************************************)
EXTENDS Naturals, FiniteSets

CONSTANTS
  Proc,       \* the processes of the command and their descendants
  Leader,     \* the child that execute spawns, leader of the new group
  Limit,      \* stdout_limit, stderr_limit
  PipeSize,   \* bytes a pipe holds
  MaxBytes,   \* bound: bytes written to one stream
  MaxFaults   \* bound: system calls that fail

ASSUME RunnerConstants ==
  /\ Leader \in Proc
  /\ Limit \in Nat /\ PipeSize \in Nat \ {0} /\ MaxBytes \in Nat /\ MaxFaults \in Nat

Stream == {"stdout", "stderr"}

VARIABLES
  state,     \* of every process
  group,     \* processes with the process group of the child
  holders,   \* for each stream, the processes with its write end open
  written,   \* for each stream, the bytes written so far
  pipe,      \* ... the bytes in the pipe
  reader,    \* ... the capturer thread
  total, kept, truncated,  \* ... its CapturedStream
  ended,     \* how the child ended
  pc,        \* where execute is
  late,      \* the deadline execute works under has passed
  verdict,   \* the status execute is going to record
  scan,      \* entries of /proc still to inspect
  collected, \* streams received from their capturers
  outcome,   \* what execute returned
  faults

processes == <<state, group, holders, written, ended>>
captures == <<reader, total, kept, truncated>>
executor == <<pc, verdict, scan, collected, outcome>>
vars == <<processes, pipe, captures, executor, late, faults>>

Record == {"exited", "timed_out", "wait_failed"}  \* with captured streams

Init ==
  /\ state = [p \in Proc |-> "unborn"]
  /\ group = {}
  /\ holders = [s \in Stream |-> {}]
  /\ written = [s \in Stream |-> 0] /\ pipe = [s \in Stream |-> 0]
  /\ reader = [s \in Stream |-> "absent"]
  /\ total = [s \in Stream |-> 0] /\ kept = [s \in Stream |-> 0]
  /\ truncated = [s \in Stream |-> FALSE]
  /\ ended = "no"
  /\ pc = "start" /\ verdict = "none" /\ scan = {} /\ collected = {}
  /\ outcome = "none"
  /\ late = FALSE /\ faults = 0

Fault == faults < MaxFaults /\ faults' = faults + 1

NoFault == UNCHANGED faults

-----------------------------------------------------------------------------
(* The processes of the command, and the system.                           *)

Environment == UNCHANGED <<captures, executor, late, faults>>

Fork(p, q) ==
  /\ Environment
  /\ state[p] = "running" /\ state[q] = "unborn"
  /\ state' = [state EXCEPT ![q] = "running"]
  /\ group' = IF p \in group THEN group \cup {q} ELSE group
  /\ holders' = [s \in Stream |-> IF p \in holders[s] THEN holders[s] \cup {q}
                                                      ELSE holders[s]]
  /\ UNCHANGED <<written, pipe, ended>>

(* setsid or setpgid; the leader of a group cannot.                        *)
LeaveGroup(p) ==
  /\ Environment
  /\ state[p] = "running" /\ p \in group \ {Leader}
  /\ group' = group \ {p}
  /\ UNCHANGED <<state, holders, written, pipe, ended>>

Write(p, s) ==
  /\ Environment
  /\ state[p] = "running" /\ p \in holders[s]
  /\ reader[s] = "reading" /\ pipe[s] < PipeSize /\ written[s] < MaxBytes
  /\ written' = [written EXCEPT ![s] = @ + 1]
  /\ pipe' = [pipe EXCEPT ![s] = @ + 1]
  /\ UNCHANGED <<state, group, holders, ended>>

Close(p, s) ==
  /\ Environment
  /\ state[p] = "running" /\ p \in holders[s]
  /\ holders' = [holders EXCEPT ![s] = @ \ {p}]
  /\ UNCHANGED <<state, group, written, pipe, ended>>

End(p) ==
  /\ Environment
  /\ state' = [state EXCEPT ![p] = "zombie"]
  /\ holders' = [s \in Stream |-> holders[s] \ {p}]
  /\ UNCHANGED <<group, written, pipe>>

Exit(p) ==
  /\ state[p] = "running"
  /\ End(p)
  /\ ended' = IF p = Leader THEN "by_itself" ELSE ended

(* A SIGKILL that was sent takes effect.                                   *)
Die(p) ==
  /\ state[p] = "dying"
  /\ End(p)
  /\ ended' = IF p = Leader THEN "killed" ELSE ended

(* Its parent, or init, collects a descendant.                             *)
Reaped(p) ==
  /\ Environment
  /\ p # Leader /\ state[p] = "zombie"
  /\ state' = [state EXCEPT ![p] = "gone"]
  /\ UNCHANGED <<group, holders, written, pipe, ended>>

ClockRuns == {"polling", "checking", "probing", "scanning", "confirming", "draining"}

DeadlinePasses ==
  /\ pc \in ClockRuns /\ ~late
  /\ late' = TRUE
  /\ UNCHANGED <<processes, pipe, captures, executor, faults>>

-----------------------------------------------------------------------------
(* The capturer of a stream (spawn_capturer).                              *)

Smaller(m, n) == IF m < n THEN m ELSE n

Capturing == UNCHANGED <<processes, executor, late>>

Read_OneAfterTheOther(s) ==
  /\ Capturing
  /\ reader[s] = "reading"
  /\ s = "stderr" => reader["stdout"] # "reading"
  /\ \E n \in 1..pipe[s] :
       /\ pipe' = [pipe EXCEPT ![s] = @ - n]
       /\ total' = [total EXCEPT ![s] = @ + n]
       /\ kept' = [kept EXCEPT ![s] = @ + Smaller(n, Limit - @)]
       /\ truncated' = [truncated EXCEPT ![s] = @ \/ total[s] + n > Limit]
  /\ UNCHANGED <<reader, faults>>

Read_KeepsChunk(s) ==
  /\ Capturing
  /\ reader[s] = "reading"
  /\ \E n \in 1..pipe[s] :
       /\ pipe' = [pipe EXCEPT ![s] = @ - n]
       /\ total' = [total EXCEPT ![s] = @ + n]
       /\ kept' = [kept EXCEPT ![s] = IF @ < Limit THEN @ + n ELSE @]
       /\ truncated' = [truncated EXCEPT ![s] = @ \/ total[s] + n > Limit]
  /\ UNCHANGED <<reader, faults>>

Read(s) ==
  /\ Capturing
  /\ reader[s] = "reading"
  /\ \E n \in 1..pipe[s] :
       /\ pipe' = [pipe EXCEPT ![s] = @ - n]
       /\ total' = [total EXCEPT ![s] = @ + n]
       /\ kept' = [kept EXCEPT ![s] = @ + Smaller(n, Limit - @)]
       /\ truncated' = [truncated EXCEPT ![s] = @ \/ total[s] + n > Limit]
  /\ UNCHANGED <<reader, faults>>

EndOfStream(s) ==
  /\ Capturing
  /\ reader[s] = "reading" /\ pipe[s] = 0 /\ holders[s] = {}
  /\ reader' = [reader EXCEPT ![s] = "sent"]
  /\ UNCHANGED <<pipe, total, kept, truncated, faults>>

ReadFails(s) ==
  /\ Capturing
  /\ reader[s] = "reading" /\ Fault
  /\ reader' = [reader EXCEPT ![s] = "failed"]
  /\ UNCHANGED <<pipe, total, kept, truncated>>

-----------------------------------------------------------------------------
(* execute.                                                                *)

Executing == UNCHANGED <<pipe, total, kept, truncated>>

Done(what) == pc' = "done" /\ outcome' = what

(* A phase with a deadline of its own begins.                              *)
Enter(phase) == pc' = phase /\ late' = FALSE

(* The working directory is missing, the spawn fails (a record without     *)
(* output), or the child runs, in a group of its own.                      *)
Spawn ==
  /\ Executing
  /\ pc = "start"
  /\ \/ /\ \E what \in {"bad_cwd", "spawn_failed"} : Done(what)
        /\ UNCHANGED <<state, group, holders, reader, late>>
     \/ /\ Enter("polling")
        /\ state' = [state EXCEPT ![Leader] = "running"]
        /\ group' = {Leader}
        /\ holders' = [s \in Stream |-> {Leader}]
        /\ reader' = [s \in Stream |-> "reading"]
        /\ UNCHANGED outcome
  /\ UNCHANGED <<written, ended, verdict, scan, collected, faults>>

TryWait ==
  /\ Executing
  /\ pc = "polling"
  /\ \/ /\ state[Leader] = "zombie"
        /\ state' = [state EXCEPT ![Leader] = "gone"]
        /\ pc' = "killing" /\ verdict' = "exited" /\ NoFault
     \/ /\ state[Leader] # "zombie"
        /\ pc' = "checking" /\ UNCHANGED <<state, verdict>> /\ NoFault
     \/ /\ Fault
        /\ pc' = "killing" /\ verdict' = "wait_failed" /\ UNCHANGED state
  /\ UNCHANGED <<group, holders, written, ended, reader, late, scan, collected, outcome>>

CheckDeadline ==
  /\ Executing
  /\ pc = "checking"
  /\ IF late THEN pc' = "killing" /\ verdict' = "timed_out"
             ELSE pc' = "polling" /\ UNCHANGED verdict
  /\ UNCHANGED <<processes, reader, late, scan, collected, outcome, faults>>

(* What killpg finds: the members that nobody has collected yet.           *)
Members == {p \in group : state[p] \in {"running", "dying", "zombie"}}

(* terminate_and_confirm, its killpg.                                      *)
Kill ==
  /\ Executing
  /\ pc = "killing"
  /\ \/ /\ Members = {} /\ NoFault /\ UNCHANGED state
        /\ IF verdict = "exited" THEN Enter("draining") /\ UNCHANGED outcome
                                 ELSE Done("group_error") /\ UNCHANGED late
     \/ /\ Members # {} /\ NoFault
        /\ state' = [p \in Proc |-> IF p \in group /\ state[p] = "running"
                                      THEN "dying" ELSE state[p]]
        /\ Enter(IF verdict = "exited" THEN "probing" ELSE "reaping")
        /\ UNCHANGED outcome
     \/ Fault /\ Done("group_error") /\ UNCHANGED <<state, late>>
  /\ UNCHANGED <<group, holders, written, ended, reader, verdict, scan, collected>>

ReapLeader_TakesStatus ==
  /\ Executing
  /\ pc = "reaping"
  /\ \/ /\ state[Leader] = "zombie" /\ NoFault
        /\ state' = [state EXCEPT ![Leader] = "gone"]
        /\ verdict' = "exited"
        /\ Enter("probing") /\ UNCHANGED outcome
     \/ Fault /\ Done("group_error") /\ UNCHANGED <<state, late, verdict>>
  /\ UNCHANGED <<group, holders, written, ended, reader, scan, collected>>

(* child.wait blocks until the killed child is a zombie.                   *)
ReapLeader ==
  /\ Executing
  /\ pc = "reaping"
  /\ \/ /\ state[Leader] = "zombie" /\ NoFault
        /\ state' = [state EXCEPT ![Leader] = "gone"]
        /\ Enter("probing") /\ UNCHANGED outcome
     \/ Fault /\ Done("group_error") /\ UNCHANGED <<state, late>>
  /\ UNCHANGED <<group, holders, written, ended, reader, verdict, scan, collected>>

Probe ==
  /\ Executing
  /\ pc = "probing"
  /\ \/ /\ Members = {} /\ NoFault
        /\ Enter("draining") /\ UNCHANGED <<scan, outcome>>
     \/ /\ Members # {} /\ NoFault
        /\ pc' = "scanning"
        /\ scan' = {p \in Proc : state[p] \notin {"unborn", "gone"}}
        /\ UNCHANGED <<late, outcome>>
     \/ Fault /\ Done("group_error") /\ UNCHANGED <<late, scan>>
  /\ UNCHANGED <<processes, reader, verdict, collected>>

Live(p) == p \in group /\ state[p] \in {"running", "dying"}

(* linux_process_group_has_live_members reads one stat file at a time.     *)
Inspect(p) ==
  /\ Executing
  /\ pc = "scanning" /\ p \in scan
  /\ IF Live(p) THEN pc' = "confirming" /\ scan' = {}
                ELSE scan' = scan \ {p} /\ UNCHANGED pc
  /\ UNCHANGED <<processes, reader, verdict, collected, outcome, late, faults>>

EndScan ==
  /\ Executing
  /\ pc = "scanning"
  /\ \/ scan = {} /\ NoFault /\ Enter("draining") /\ UNCHANGED <<scan, outcome>>
     \/ scan # {} /\ Fault /\ Done("group_error") /\ scan' = {} /\ UNCHANGED late
  /\ UNCHANGED <<processes, reader, verdict, collected>>

Confirm_FailsOpen ==
  /\ Executing
  /\ pc = "confirming"
  /\ IF late THEN Enter("draining") ELSE pc' = "probing" /\ UNCHANGED late
  /\ UNCHANGED <<processes, reader, verdict, scan, collected, outcome, faults>>

Confirm ==
  /\ Executing
  /\ pc = "confirming"
  /\ IF late THEN Done("group_error") ELSE pc' = "probing" /\ UNCHANGED outcome
  /\ UNCHANGED <<processes, reader, verdict, scan, collected, late, faults>>

Receive_AcceptsPartial(s) ==
  /\ Executing
  /\ pc = "draining"
  /\ s \notin collected /\ (s = "stderr" => "stdout" \in collected)
  /\ \/ /\ reader[s] = "sent" \/ late
        /\ collected' = collected \cup {s}
        /\ IF s = "stderr" THEN Done(verdict) ELSE UNCHANGED <<pc, outcome>>
     \/ /\ reader[s] = "failed"
        /\ Done("capture_error") /\ UNCHANGED collected
  /\ UNCHANGED <<processes, reader, verdict, scan, late, faults>>

Receive_NoDeadline(s) ==
  /\ Executing
  /\ pc = "draining"
  /\ s \notin collected /\ (s = "stderr" => "stdout" \in collected)
  /\ \/ /\ reader[s] = "sent"
        /\ collected' = collected \cup {s}
        /\ IF s = "stderr" THEN Done(verdict) ELSE UNCHANGED <<pc, outcome>>
     \/ /\ reader[s] = "failed"
        /\ Done("capture_error") /\ UNCHANGED collected
  /\ UNCHANGED <<processes, reader, verdict, scan, late, faults>>

(* collect_capturers: stdout, then stderr, under one deadline.             *)
Receive(s) ==
  /\ Executing
  /\ pc = "draining"
  /\ s \notin collected /\ (s = "stderr" => "stdout" \in collected)
  /\ \/ /\ reader[s] = "sent"
        /\ collected' = collected \cup {s}
        /\ IF s = "stderr" THEN Done(verdict) ELSE UNCHANGED <<pc, outcome>>
     \/ /\ reader[s] = "failed" \/ (reader[s] = "reading" /\ late)
        /\ Done("capture_error") /\ UNCHANGED collected
  /\ UNCHANGED <<processes, reader, verdict, scan, late, faults>>

-----------------------------------------------------------------------------
Execute ==
  \/ Spawn \/ TryWait \/ CheckDeadline
  \/ Kill \/ ReapLeader \/ Probe \/ EndScan \/ Confirm
  \/ \E p \in Proc : Inspect(p)
  \/ \E s \in Stream : Receive(s)

Capture(s) == Read(s) \/ EndOfStream(s) \/ ReadFails(s)

Command ==
  \/ \E p, q \in Proc : Fork(p, q)
  \/ \E p \in Proc : LeaveGroup(p) \/ Exit(p) \/ Die(p) \/ Reaped(p)
  \/ \E p \in Proc, s \in Stream : Write(p, s) \/ Close(p, s)

(* What is left of the command when execute has returned goes on.          *)
Finished ==
  /\ pc = "done" /\ \A p \in Proc : state[p] \notin {"running", "dying"}
  /\ UNCHANGED vars

Next ==
  \/ Execute
  \/ \E s \in Stream : Capture(s)
  \/ Command
  \/ DeadlinePasses
  \/ Finished

Spec == Init /\ [][Next]_vars

(* The threads of the runner are scheduled, time passes and the system     *)
(* delivers a SIGKILL; nothing is assumed of the command.                  *)
FairSpec ==
  /\ Spec
  /\ WF_vars(Execute)
  /\ \A s \in Stream : WF_vars(Capture(s))
  /\ WF_vars(DeadlinePasses)
  /\ \A p \in Proc : WF_vars(Die(p))

-----------------------------------------------------------------------------
(* Properties.                                                             *)

TypeOK ==
  /\ state \in [Proc -> {"unborn", "running", "dying", "zombie", "gone"}]
  /\ group \subseteq Proc
  /\ holders \in [Stream -> SUBSET Proc]
  /\ written \in [Stream -> 0..MaxBytes] /\ pipe \in [Stream -> 0..PipeSize]
  /\ reader \in [Stream -> {"absent", "reading", "sent", "failed"}]
  /\ total \in [Stream -> 0..MaxBytes] /\ kept \in [Stream -> 0..Limit]
  /\ truncated \in [Stream -> BOOLEAN]
  /\ ended \in {"no", "by_itself", "killed"}
  /\ pc \in ClockRuns \cup {"start", "killing", "reaping", "done"}
  /\ late \in BOOLEAN
  /\ verdict \in {"none"} \cup Record
  /\ scan \subseteq Proc /\ collected \subseteq Stream
  /\ outcome \in {"none", "bad_cwd", "spawn_failed", "group_error", "capture_error"}
                 \cup Record
  /\ faults \in 0..MaxFaults

(* "kills and confirms that group before draining" (ARCHITECTURE): when    *)
(* execute returns a record no process of the group can run again, so none *)
(* of them can touch the project or the evidence behind the verifier.      *)
RecordMeansGroupIsDead ==
  outcome \in Record => \A p \in Proc : ~Live(p)

(* A record has all the output there will ever be: every byte written was  *)
(* counted, the first Limit of them kept, what is missing is flagged, and  *)
(* no process, not even one that left the group, can write another.        *)
RecordIsComplete ==
  outcome \in Record =>
    \A s \in Stream : /\ holders[s] = {} /\ total[s] = written[s]
                      /\ kept[s] = Smaller(Limit, written[s])
                      /\ truncated[s] <=> written[s] > Limit

(* An exit status is never the work of the runner's own SIGKILL.           *)
ExitStatusIsTheChilds == outcome = "exited" => ended = "by_itself"

(* execute returns, whatever the command does: the waits for its end, for  *)
(* its group and for its output all end.                                   *)
ExecuteReturns == <>(pc = "done")

(* "a verbose child can [not] block on a full pipe" (execute): a full pipe *)
(* is emptied, beyond the capture limit too.                               *)
FullPipeIsDrained ==
  \A s \in Stream : pipe[s] = PipeSize ~> pipe[s] < PipeSize \/ reader[s] = "failed"

=============================================================================
