---------------------------- MODULE CommandChecks ----------------------------
(***************************************************************************)
(* The checks that run a command, one after the other, and what is said of *)
(* each: the declared and numeric checks (execute_command_check of         *)
(* planning.rs) and those of cargo (execute of scirust-verify-cargo).  A   *)
(* command writes lines; the runner keeps those below the capture limit,   *)
(* they become a log of the run, and the observations in them are          *)
(* evaluated again.  Then the run is finalized.                            *)
(*                                                                         *)
(* Of the two logs of a check the one of stdout stands for both.  SHA-256  *)
(* is injective, so the digest of a log is its content.                    *)
(***************************************************************************)
EXTENDS Verdicts, Observations

CONSTANTS
  Projects,   \* their checks, tolerance, and how their commands may end
  Openings,   \* sound lines with which a Broken one may begin
  MaxFaults   \* bound: calls of the runner or the store that fail

(* An id is the sequence of its words and separators; the first names the  *)
(* provider.  Only cargo has a command whose exit does not matter.         *)
IsCheck(c) ==
  /\ c.id \in Seq(STRING) /\ c.id[1] = c.provider /\ c.id[2] = ":"
  /\ c.provider \in {"custom", "numeric", "cargo"}
  /\ c.expect \in ExitExpectation
  /\ c.expect = "ignore" => c.provider = "cargo"
  /\ c.probes \in BOOLEAN    \* cargo looks for a component first

(* JSON has no number that is not finite.                                  *)
IsLine(line) ==
  line \notin {Plain, Broken} /\ line.kind = "numeric_comparison" =>
    {line.expected, line.observed} \subseteq Finite \cup {Nothing}

IsOutput(lines) ==
  /\ lines \in Seq({lines[k] : k \in DOMAIN lines})
  /\ \A k \in DOMAIN lines : IsLine(lines[k])

ASSUME ProjectsAreWellFormed ==
  /\ \A p \in Projects :
       /\ Len(p.checks) \in Nat /\ DOMAIN p.checks = 1..Len(p.checks)
       /\ \A i \in DOMAIN p.checks : IsCheck(p.checks[i])
       /\ p.tolerance \in Tolerance
       /\ \A end \in p.ends :
            /\ end.exit \in ExitStatus /\ (end.exit = "spawn_failed" => end.lines = <<>>)
            /\ IsOutput(end.lines)
  /\ \A line \in Openings : IsLine(line) /\ IsMarked(line) /\ IsSound(line)
  /\ MaxFaults \in Nat

VARIABLES
  project,
  ran,         \* history: how each command really ended and what it wrote
  logs,        \* what the file at a path of the run holds
  evidence,    \* the records of the run, in their order
  executions,  \* what is said of the checks
  run,         \* where the run stands
  faults

vars == <<project, ran, logs, evidence, executions, run, faults>>

Init ==
  /\ project \in Projects
  /\ ran = <<>> /\ logs = <<>> /\ evidence = <<>> /\ executions = <<>>
  /\ run = "running"
  /\ faults = 0

-----------------------------------------------------------------------------
LogPath_OfTheId(id) == id

LogPath(id) == [i \in DOMAIN id |-> IF id[i] = ":" THEN "-" ELSE id[i]]

(* What is left of a line within which the capture limit falls.  A marked  *)
(* one is one no more, or does not parse, unless the object it began with  *)
(* is all that is left.                                                    *)
Cut(line) ==
  {Plain} \cup {rest \in {Broken} : IsMarked(line)} \cup {rest \in Openings : line = Broken}

(* The capture limit falls behind a line, within one, or nowhere.          *)
Captures(lines) ==
  {[lines |-> lines, truncated |-> FALSE]}
  \cup {[lines |-> SubSeq(lines, 1, n), truncated |-> TRUE] : n \in 0..Len(lines)}
  \cup UNION {{[lines |-> Append(SubSeq(lines, 1, n), rest), truncated |-> TRUE] :
                 rest \in Cut(lines[n + 1])} : n \in 0..(Len(lines) - 1)}

EvidenceStatus(exit) ==
  CASE exit = "timed_out" -> "timed_out"
    [] exit = "zero" -> "ok"
    [] OTHER -> "failed"

(* Only the evidence of execute_command_check tells that a log was cut.    *)
Record(check, exit, capture) ==
  [status |-> EvidenceStatus(exit),
   attachment |-> [path |-> LogPath(check.id), digest |-> capture.lines],
   stdout_truncated |->
     IF check.provider = "cargo" THEN Nothing ELSE capture.truncated]

Observed(lines) ==
  IF Parses(lines) THEN ParseObservations(lines) ELSE <<>>

Passes(o) == Compare(o.value.expected, o.value.observed, project.tolerance)

Contradicts_TrustsTheProgram(o) == o.kind = "property" /\ o.value = FALSE

Contradicts(o) ==
  \/ o.kind = "numeric_comparison" /\ ~Passes(o)
  \/ o.kind = "property" /\ o.value = FALSE

Observation(kind, o, value) == [kind |-> kind, name |-> o.name, unit |-> Nothing, value |-> value]

(* JSON has null for a float that is not finite.                           *)
Written(x) == IF x = Infinity THEN Nothing ELSE x

(* What the check adds to an observation of the program.                   *)
Reevaluation(o) ==
  CASE o.kind = "numeric_comparison" ->
         <<Observation("numeric_verdict", o, Passes(o)),
           Observation("max_abs_error", o, Written(AbsError(o.value.expected, o.value.observed)))>>
    [] o.kind = "property" /\ o.value = FALSE -> <<Observation("property_failed", o, FALSE)>>
    [] OTHER -> <<>>

Judged(check, exit, lines) ==
  LET found == Observed(lines)
  IN [outcome |-> CommandOutcome(exit, check.expect,
                                 \E i \in DOMAIN found : Contradicts(found[i])),
      observations |->
        found \o FlattenSeq([i \in DOMAIN found |-> Reevaluation(found[i])])]

(* cargo counts the observations and leaves it at that.                    *)
Counted(check, exit, lines) ==
  LET found == Observed(lines)
  IN [outcome |-> InterpretExit(exit, check.expect),
      observations |-> Append(found, [kind |-> "structured_observation_count",
                                      name |-> "text", unit |-> Nothing,
                                      value |-> Len(found)])]

Execution(check, exit, lines) ==
  IF check.provider = "cargo"
    THEN Counted(check, exit, lines)
    ELSE Judged(check, exit, lines)

-----------------------------------------------------------------------------
Bind(f, x, y) == [z \in DOMAIN f \cup {x} |-> IF z = x THEN y ELSE f[z]]

IsExecuting == run = "running" /\ Len(executions) < Len(project.checks)

CurrentCheck == project.checks[Len(executions) + 1]

(* A command ends; its log is written, over one that has the same path,    *)
(* then the record of it.                                                  *)
ExecuteCommand(exit, lines) ==
  /\ IsExecuting
  /\ \E capture \in Captures(lines) :
       /\ ran' = Append(ran, [exit |-> exit, wrote |-> lines, captured |-> capture])
       /\ logs' = Bind(logs, LogPath(CurrentCheck.id), capture.lines)
       /\ evidence' = Append(evidence, Record(CurrentCheck, exit, capture))
       /\ executions' = Append(executions, Execution(CurrentCheck, exit, capture.lines))
  /\ UNCHANGED <<project, run, faults>>

(* The component is not installed: nothing runs, and nothing is recorded.  *)
SkipCommand ==
  /\ IsExecuting
  /\ CurrentCheck.provider = "cargo" /\ CurrentCheck.probes
  /\ ran' = Append(ran, [exit |-> Nothing])
  /\ executions' = Append(executions, [outcome |-> "skipped", observations |-> <<>>])
  /\ UNCHANGED <<project, logs, evidence, run, faults>>

(* An error of the runner, or of the store before or after the log was     *)
(* written, aborts the run.                                                *)
AbortRun ==
  /\ IsExecuting
  /\ faults < MaxFaults /\ faults' = faults + 1
  /\ run' = "aborted"
  /\ \/ UNCHANGED logs
     \/ \E end \in project.ends :
          \E capture \in Captures(end.lines) :
            logs' = Bind(logs, LogPath(CurrentCheck.id), capture.lines)
  /\ UNCHANGED <<project, ran, evidence, executions>>

(* finalize compares every log with the digest a record states.            *)
IsIntact(record) == logs[record.attachment.path] = record.attachment.digest

(* Null is no float: executions.json cannot be read with one in its place, *)
(* neither to add the next execution, nor for the report, nor by finalize. *)
IsReadable(execution) ==
  \A k \in DOMAIN execution.observations :
    execution.observations[k].kind = "max_abs_error" => execution.observations[k].value # Nothing

Finalize_Unchecked ==
  /\ run = "running" /\ Len(executions) = Len(project.checks)
  /\ run' = "finalized"
  /\ UNCHANGED <<project, ran, logs, evidence, executions, faults>>

Finalize ==
  /\ run = "running" /\ Len(executions) = Len(project.checks)
  /\ run' = IF /\ \A i \in DOMAIN evidence : IsIntact(evidence[i])
               /\ \A i \in DOMAIN executions : IsReadable(executions[i])
              THEN "finalized" ELSE "refused"
  /\ UNCHANGED <<project, ran, logs, evidence, executions, faults>>

Finished == run # "running" /\ UNCHANGED vars

Next ==
  \/ \E end \in project.ends : ExecuteCommand(end.exit, end.lines)
  \/ SkipCommand
  \/ AbortRun
  \/ Finalize
  \/ Finished

Spec == Init /\ [][Next]_vars

-----------------------------------------------------------------------------
(* Properties.                                                             *)

(* Every command that ran has one record; the logs are those of its path.  *)
TypeOK ==
  /\ project \in Projects
  /\ Len(executions) \in 0..Len(project.checks)
  /\ Len(ran) = Len(executions)
  /\ Len(evidence) <= Len(ran)
  /\ \A i \in DOMAIN executions : executions[i].outcome \in Verdict
  /\ run \in {"running", "aborted", "finalized", "refused"}
  /\ faults \in 0..MaxFaults

HasRun(i) == ran[i].exit # Nothing

(* What the words of the tolerance say of the exact values, except where   *)
(* rounding decides: a pair beyond a bound by two floats at most may be    *)
(* accepted, and one may be refused that is within a bound by less than    *)
(* a float, or whose difference is too large for one.                      *)
IsRight(verdict, expected, observed, tolerance) ==
  /\ verdict => Within(expected, observed, Shifted(tolerance, 2))
  /\ Within(expected, observed, Shifted(tolerance, -1))
     /\ AbsError(expected, observed) # Infinity => verdict

(* The places of the observations of a kind.                               *)
Of(kind, observations) == {k \in DOMAIN observations : observations[k].kind = kind}

(* Each comparison a program reports has one verdict, right for it and with *)
(* its name, and the verdicts come in the order of the comparisons; cargo  *)
(* gives none.                                                             *)
IsReevaluated(check, observations) ==
  LET pairs    == Of("numeric_comparison", observations)
      verdicts == Of("numeric_verdict", observations)
      IsVerdictOf(v, o) ==
        v.name = o.name /\ IsRight(v.value, o.value.expected, o.value.observed, project.tolerance)
  IN IF check.provider = "cargo"
       THEN verdicts = {}
       ELSE \E match \in Bijection(pairs, verdicts) :
              /\ \A k, l \in pairs : k < l => match[k] < match[l]
              /\ \A k \in pairs : IsVerdictOf(observations[match[k]], observations[k])

(* The recorded numeric verdicts are those of the comparisons, and right.  *)
NumericVerdictsAreRight ==
  \A i \in DOMAIN executions :
    IsReevaluated(project.checks[i], executions[i].observations)

(* The lines that refute the success of a command, to the letter and by    *)
(* any reading of the tolerance.                                           *)
Refutes(line, tolerance) ==
  \/ line.kind = "property" /\ line.holds = FALSE
  \/ /\ line.kind = "numeric_comparison"
     /\ ~Within(line.expected, line.observed, tolerance)

(* The command wrote the line, or it is what the capture limit has left of *)
(* the line it wrote there.                                                *)
IsOwnLine(k, wrote, captured) ==
  \/ captured.lines[k] = wrote[k]
  \/ captured.truncated /\ k = Len(captured.lines) /\ wrote[k] = Broken

(* `verified` is earned: the command ended as expected, and no line that   *)
(* was captured refutes the success, unless one of them does not parse. A  *)
(* command that succeeded is `failed` only when every captured line parses *)
(* and one refutes the success that the command wrote itself, be it as the *)
(* beginning of a line that does not parse as a whole.                     *)
VerdictsFollowFromOutput ==
  \A i \in DOMAIN executions :
    HasRun(i) /\ project.checks[i].provider # "cargo" =>
      LET captured == ran[i].captured
          marked   == MarkedIn(captured.lines)
      IN /\ executions[i].outcome = "verified" =>
              /\ ran[i].exit = "zero"
              /\ Parses(captured.lines) =>
                   \A k \in marked : ~Refutes(captured.lines[k], Shifted(project.tolerance, 2))
         /\ executions[i].outcome = "failed" /\ ran[i].exit = "zero" =>
              /\ Parses(captured.lines)
              /\ \E k \in marked :
                   LET line == captured.lines[k]
                   IN /\ IsOwnLine(k, ran[i].wrote, captured)
                      /\ \/ Refutes(line, Shifted(project.tolerance, -1))
                         \/ /\ line.kind = "numeric_comparison"
                            /\ AbsError(line.expected, line.observed) = Infinity

(* In a finalized run the log at the path of a check is what its own       *)
(* command wrote, also when two ids come to share a path.                  *)
FinalizedLogsAreOwn ==
  run = "finalized" =>
    \A i \in DOMAIN ran :
      HasRun(i) => logs[LogPath(project.checks[i].id)] = ran[i].captured.lines

=============================================================================
