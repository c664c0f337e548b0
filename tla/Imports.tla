------------------------------ MODULE Imports ------------------------------
(***************************************************************************)
(* The programs that turn the evidence of another tool into a dossier:     *)
(* `scirust-verify ingest scirust`, and the four bridges (scirust-verify-  *)
(* nnis-parity, -scicapsule, -elastic, -forge-soup), which also verify the *)
(* dossier and export it as one tar.  All four are one skeleton: look at   *)
(* the inputs, make a work root beside the output, write the documents of  *)
(* a run in it, seal it, verify it, copy it into the output, remove the    *)
(* work root.                                                              *)
(*                                                                         *)
(* Several invocations run at once or one after the other, with one output *)
(* path between them; inputs are replaced while they are read, calls fail, *)
(* invocations are killed and their process ids used again.  Each call of  *)
(* the store is one step here (EvidenceStore has what is inside them).     *)
(***************************************************************************)
EXTENDS Naturals, Sequences, FiniteSets

CONSTANTS
  Requests,        \* lists of the programs that are started, one per invocation
  Inputs,          \* for each program, the tuples of files it may be handed
  Pids,            \* process ids
  Decode, SizeLimit, ItemLimit, NoCandidate, EvidenceName,
  Absent,          \* no file, no work root, no exit code yet
  MaxReplacements, MaxFaults, MaxKills

ASSUME LimitsAreNaturals ==
  /\ SizeLimit \in Nat /\ ItemLimit \in Nat
  /\ MaxReplacements \in Nat /\ MaxFaults \in Nat /\ MaxKills \in Nat

ASSUME AbsentIsNoPid == Absent \notin Pids

Bridges == {"nnis", "scicapsule", "elastic", "forge_soup"}
Program == Bridges \cup {"scirust"}

ASSUME RequestsNamePrograms ==
  \A r \in Requests :
    /\ Absent \notin DOMAIN r
    /\ \A i \in DOMAIN r : r[i] \in Program

Nnis == INSTANCE NnisParity
Capsule == INSTANCE SciCapsule
Elastic == INSTANCE ElasticRuntime
Forge == INSTANCE ForgeSoup
Scirust == INSTANCE ScirustProtocol

EvidenceIds == {EvidenceName[n] : n \in DOMAIN EvidenceName}
Attachments == {Nnis!ValidationAttachment, Scirust!SummaryAttachment}

(* The contents of a run directory and what finalize demands of them.      *)
Run == INSTANCE Dossier WITH
  Payloads <- {}, CheckIds <- {}, ClaimIds <- {}, MaxFinalize <- 1, MaxStrays <- 0

(* An execution result is one file; in one of the right shape, the number  *)
(* of required signatures is unsigned and the signers are a list.          *)
ASSUME CapsulesAreDecoded ==
  \A files \in Inputs["scicapsule"] :
    /\ DOMAIN files = {1}
    /\ LET result == Decode[files[1].bytes]
       IN result.json /\ result.envelope =>
            /\ result.required_signatures \in Nat
            /\ result.matched_signers \in Seq(STRING)
            /\ result.signatures \in Seq(STRING)

(* A summary is one file, a text of finitely many lines; a gate is         *)
(* required or not, and the counter of the records has a name for each.    *)
ASSUME SummariesAreDecoded ==
  \A files \in Inputs["scirust"] :
    /\ DOMAIN files = {1}
    /\ Scirust!Accepts(files) =>
         LET lines == Decode[files[1].bytes].lines
         IN /\ DOMAIN lines = 1..Len(lines) /\ Len(lines) \in Nat
            /\ \A l \in Scirust!GateLines(lines) : lines[l].gate.required \in BOOLEAN
            /\ Len(Scirust!Gates(lines)) < Len(EvidenceName)

ASSUME RecordsHaveNames ==
  /\ DOMAIN EvidenceName = 1..Len(EvidenceName) /\ Len(EvidenceName) \in Nat \ {0}
  /\ EvidenceName[1] = "EVD-1" /\ Scirust!Distinct(EvidenceName)
  /\ EvidenceIds \cap (Attachments \cup Run!Documents \cup {Run!ReportPath, Run!TempPath}) = {}

LooksOf(program) ==
  CASE program = "nnis" -> Nnis!Looks
    [] program = "scicapsule" -> Capsule!Looks
    [] program = "elastic" -> Elastic!Looks
    [] program = "forge_soup" -> Forge!Looks
    [] program = "scirust" -> Scirust!Looks

Accepts(program, seen) ==
  CASE program = "nnis" -> Nnis!Accepts(seen)
    [] program = "scicapsule" -> Capsule!Accepts(seen)
    [] program = "elastic" -> Elastic!Accepts(seen)
    [] program = "forge_soup" -> Forge!Accepts(seen)
    [] program = "scirust" -> Scirust!Accepts(seen)

DocumentsOf(program, seen) ==
  CASE program = "nnis" -> Nnis!Documents(seen)
    [] program = "scicapsule" -> Capsule!Documents(seen)
    [] program = "elastic" -> Elastic!Documents(seen)
    [] program = "forge_soup" -> Forge!Documents(seen)
    [] program = "scirust" -> Scirust!Documents(seen)

-----------------------------------------------------------------------------
VARIABLES
  request,   \* the programs that are started
  disk,      \* for each of them, its input files
  pc,        \* for each invocation, what it does next
  pid, seen, \* its process id and the files it has looked at, in order
  calls,     \* the calls of the store it has made
  run,       \* its run directory
  exit,      \* its exit code
  work,      \* work roots: for program and process id, the invocation that made it
  output,    \* the file at the output path
  kept,      \* invocations one of whose removals failed
  replacements, faults, kills

vars == <<request, disk, pc, pid, seen, calls, run, exit, work, output, kept,
          replacements, faults, kills>>

Invocation == DOMAIN request

NoOutput == [by |-> Absent, files |-> Run!Nothing, whole |-> FALSE]

OutputExists == output.by # Absent

WorkRoot(i) == <<request[i], pid[i]>>

Alive(i) == pc[i] \notin {"new", "ended", "killed"}

Init ==
  /\ request \in Requests
  /\ disk \in {d \in [{request[i] : i \in DOMAIN request} ->
                        UNION {Inputs[request[i]] : i \in DOMAIN request}] :
                 \A p \in DOMAIN d : d[p] \in Inputs[p]}
  /\ pc = [i \in DOMAIN request |-> "new"]
  /\ pid = [i \in DOMAIN request |-> Absent]
  /\ seen = [i \in DOMAIN request |-> <<>>]
  /\ calls = [i \in DOMAIN request |-> 0]
  /\ run = [i \in DOMAIN request |-> Run!Nothing]
  /\ exit = [i \in DOMAIN request |-> Absent]
  /\ work = [w \in {request[i] : i \in DOMAIN request} \X Pids |-> Absent]
  /\ output = NoOutput
  /\ kept = {}
  /\ replacements = 0 /\ faults = 0 /\ kills = 0

-----------------------------------------------------------------------------
(* What a failure of a call costs: `ingest scirust` reports every error as *)
(* a usage error, a bridge as an internal one.                             *)
FailureCode(i) == IF request[i] = "scirust" THEN 2 ELSE 3

HasWorkRoot(i) ==
  pc[i] \in {"create_run", "documents", "finalize", "verify", "archive", "copy", "discard"}
    /\ request[i] \in Bridges

(* Return with a code, by way of the guard that removes the work root.     *)
Leave_PastTheGuard(i, code) ==
  /\ exit' = [exit EXCEPT ![i] = code]
  /\ pc' = [pc EXCEPT ![i] = "ended"]

Leave(i, code) ==
  /\ exit' = [exit EXCEPT ![i] = code]
  /\ pc' = [pc EXCEPT ![i] = IF HasWorkRoot(i) THEN "cleanup" ELSE "ended"]

Goto(i, place) == pc' = [pc EXCEPT ![i] = place]

Start(i, p) ==
  /\ pc[i] = "new" /\ \A j \in 1..(i - 1) : pc[j] # "new"
  /\ \A j \in Invocation : Alive(j) => pid[j] # p
  /\ pid' = [pid EXCEPT ![i] = p]
  /\ Goto(i, IF request[i] \in Bridges THEN "check_output" ELSE "look")
  /\ UNCHANGED <<request, disk, seen, calls, run, exit, work, output, kept,
                 replacements, faults, kills>>

CheckOutput(i) ==
  /\ pc[i] = "check_output"
  /\ \/ OutputExists /\ Leave(i, 2)
     \/ ~OutputExists /\ Goto(i, "look") /\ UNCHANGED exit
  /\ UNCHANGED <<request, disk, pid, seen, calls, run, work, output, kept,
                 replacements, faults, kills>>

(* One stat or one read of an input.  A refusal that the code issues at an *)
(* early look is issued with the same code, and as little done, at Refuse. *)
Look(i) ==
  /\ pc[i] = "look"
  /\ LET looks == LooksOf(request[i])
         n == Len(seen[i]) + 1
     IN /\ seen' = [seen EXCEPT ![i] = Append(@, disk[request[i]][looks[n]])]
        /\ Goto(i, IF n = Len(looks) THEN "accept" ELSE "look")
  /\ UNCHANGED <<request, disk, pid, calls, run, exit, work, output, kept,
                 replacements, faults, kills>>

Accept(i) ==
  /\ pc[i] = "accept" /\ Accepts(request[i], seen[i])
  /\ Goto(i, IF request[i] \in Bridges THEN "work_root" ELSE "create_run")
  /\ UNCHANGED <<request, disk, pid, seen, calls, run, exit, work, output, kept,
                 replacements, faults, kills>>

Refuse(i) ==
  /\ pc[i] = "accept" /\ ~Accepts(request[i], seen[i])
  /\ Leave(i, 2)
  /\ UNCHANGED <<request, disk, pid, seen, calls, run, work, output, kept,
                 replacements, faults, kills>>

(* The work root is named by program and process id; one that is there     *)
(* already is left alone.                                                  *)
MakeWorkRoot_OrTakeOver(i) ==
  /\ pc[i] = "work_root"
  /\ work' = [work EXCEPT ![WorkRoot(i)] = IF @ = Absent THEN i ELSE @]
  /\ pc' = [pc EXCEPT ![i] = "create_run"]
  /\ UNCHANGED <<request, disk, pid, seen, calls, run, exit, output, kept,
                 replacements, faults, kills>>

MakeWorkRoot(i) ==
  /\ pc[i] = "work_root"
  /\ \/ /\ work[WorkRoot(i)] # Absent
        /\ Leave(i, 3) /\ UNCHANGED work
     \/ /\ work[WorkRoot(i)] = Absent
        /\ work' = [work EXCEPT ![WorkRoot(i)] = i]
        /\ Goto(i, "create_run") /\ UNCHANGED exit
  /\ UNCHANGED <<request, disk, pid, seen, calls, run, output, kept,
                 replacements, faults, kills>>

RunDocument(state) == [state |-> state, replay_of |-> FALSE, finalized_at |-> 0]

(* A file that is there is not an absent one.                              *)
ASSUME AbsentIsNoDocument ==
  /\ \A state \in Run!RunState : RunDocument(state) # Absent
  /\ \A check \in {Nnis!Check, Capsule!Check, Elastic!Check, Forge!Check} :
       [executions |-> {Nnis!OneExecution(check)}] # Absent
  /\ \A claim \in {Nnis!Claim, Capsule!Claim, Elastic!Claim, Forge!Claim} :
       [evaluations |-> {Nnis!OneEvaluation(claim)}] # Absent
  /\ \A files \in {g \in Inputs["scirust"] : Scirust!Accepts(g)} :
       \A some \in SUBSET {Scirust!Documents(files).executions[x] :
                           x \in DOMAIN Scirust!Documents(files).executions} :
         [executions |-> some] # Absent

CreateRun(i) ==
  /\ pc[i] = "create_run"
  /\ run' = [run EXCEPT ![i][Run!RunPath] = RunDocument("planning")]
  /\ Goto(i, "documents")
  /\ UNCHANGED <<request, disk, pid, seen, calls, exit, work, output, kept,
                 replacements, faults, kills>>

-----------------------------------------------------------------------------
(* The documents, one call of the store after the other.                   *)

Planned == <<"artifact", "plan", "claims", "running">>

CallCount(documents) ==
  Len(Planned) + Len(documents.evidence) + Len(documents.executions) + 1

(* add_evidence looks at the bytes it is handed before it writes them.     *)
HandedAsDeclared(evidence, handed) ==
  \A a \in evidence.attachments : handed[a.path] = a.payload

WithEvidence(dir, name, evidence, handed) ==
  [p \in DOMAIN dir |->
     CASE p = name -> evidence
       [] \E a \in evidence.attachments : a.path = p -> [bytes |-> handed[p]]
       [] OTHER -> dir[p]]

(* The run directory after the n-th call.                                  *)
AfterCall(dir, documents, n) ==
  LET e == n - Len(Planned)
      x == e - Len(documents.evidence)
  IN CASE n = 1 -> [dir EXCEPT ![Run!ArtifactPath] = documents.artifact]
       [] n = 2 -> [dir EXCEPT ![Run!PlanPath] = documents.plan]
       [] n = 3 -> [dir EXCEPT ![Run!ClaimsPath] = documents.claims]
       [] n = 4 -> [dir EXCEPT ![Run!RunPath].state = "running"]
       [] e \in DOMAIN documents.evidence ->
            WithEvidence(dir, EvidenceName[e], documents.evidence[e], documents.handed)
       [] x \in DOMAIN documents.executions ->
            [dir EXCEPT ![Run!ExecutionsPath] =
               [executions |-> Run!RecordedExecutions(dir) \cup {documents.executions[x]}]]
       [] OTHER -> [dir EXCEPT ![Run!ReportPath] = [evaluations |-> documents.evaluations]]

CallIsRefused(documents, n) ==
  LET e == n - Len(Planned)
  IN e \in DOMAIN documents.evidence
       /\ ~HandedAsDeclared(documents.evidence[e], documents.handed)

WriteDocument(i) ==
  /\ pc[i] = "documents"
  /\ LET documents == DocumentsOf(request[i], seen[i])
         n == calls[i] + 1
     IN \/ /\ CallIsRefused(documents, n)
           /\ Leave(i, FailureCode(i)) /\ UNCHANGED <<calls, run>>
        \/ /\ ~CallIsRefused(documents, n)
           /\ run' = [run EXCEPT ![i] = AfterCall(@, documents, n)]
           /\ calls' = [calls EXCEPT ![i] = n]
           /\ Goto(i, IF n = CallCount(documents) THEN "finalize" ELSE "documents")
           /\ UNCHANGED exit
  /\ UNCHANGED <<request, disk, pid, seen, work, output, kept, replacements, faults, kills>>

(* finalize seals the run or refuses it; `ingest scirust` is done then,    *)
(* and exits by the verdict of the evaluations it has just written.        *)
Finalize(i) ==
  /\ pc[i] = "finalize"
  /\ \/ /\ ~Run!Consistent(run[i])
        /\ Leave(i, FailureCode(i)) /\ UNCHANGED run
     \/ /\ Run!Consistent(run[i])
        /\ run' = [run EXCEPT ![i][Run!RunPath] = RunDocument("finalized")]
        /\ IF request[i] = "scirust"
             THEN Leave(i, Scirust!ExitCode(run[i][Run!ReportPath].evaluations))
             ELSE Goto(i, "verify") /\ UNCHANGED exit
  /\ UNCHANGED <<request, disk, pid, seen, calls, work, output, kept,
                 replacements, faults, kills>>

(* verify_integrity, in a directory nobody else writes.                    *)
Verify(i) ==
  /\ pc[i] = "verify" /\ Run!IsFinalized(run[i])
  /\ Goto(i, "archive")
  /\ UNCHANGED <<request, disk, pid, seen, calls, run, exit, work, output, kept,
                 replacements, faults, kills>>

-----------------------------------------------------------------------------
(* archive_dossier, and the end.                                           *)

CreateOutput_Truncates(i) ==
  /\ pc[i] = "archive"
  /\ output' = [by |-> i, files |-> Run!Nothing, whole |-> FALSE]
  /\ Goto(i, "copy")
  /\ UNCHANGED <<request, disk, pid, seen, calls, run, exit, work, kept,
                 replacements, faults, kills>>

(* create_new: an output that came up meanwhile is an error, and stays.    *)
CreateOutput(i) ==
  /\ pc[i] = "archive"
  /\ \/ OutputExists /\ Leave(i, 3) /\ UNCHANGED output
     \/ /\ ~OutputExists
        /\ output' = [by |-> i, files |-> Run!Nothing, whole |-> FALSE]
        /\ Goto(i, "copy") /\ UNCHANGED exit
  /\ UNCHANGED <<request, disk, pid, seen, calls, run, work, kept,
                 replacements, faults, kills>>

ToCopy_TopLevel(i) ==
  (Run!Present(run[i]) \ (EvidenceIds \cup Attachments)) \ Run!Present(output.files)

ToCopy(i) == Run!Present(run[i]) \ Run!Present(output.files)

(* The next file, whichever it is by name, then the two closing blocks.    *)
CopyFile(i) ==
  /\ pc[i] = "copy"
  /\ \/ /\ ToCopy(i) # {}
        /\ LET path == CHOOSE p \in ToCopy(i) : TRUE
           IN output' = [output EXCEPT !.files[path] = run[i][path]]
        /\ UNCHANGED <<pc, exit>>
     \/ /\ ToCopy(i) = {}
        /\ output' = [output EXCEPT !.whole = TRUE]
        /\ Leave(i, 0)
  /\ UNCHANGED <<request, disk, pid, seen, calls, run, work, kept,
                 replacements, faults, kills>>

(* A failed copy takes the output back, as far as that can be done.        *)
Discard(i) ==
  /\ pc[i] = "discard"
  /\ \/ output' = NoOutput /\ UNCHANGED <<kept, faults>>
     \/ /\ faults < MaxFaults /\ faults' = faults + 1
        /\ kept' = kept \cup {i} /\ UNCHANGED output
  /\ Goto(i, "cleanup")
  /\ UNCHANGED <<request, disk, pid, seen, calls, run, exit, work, replacements, kills>>

(* CleanupDir: an error of the removal is ignored.                         *)
Cleanup(i) ==
  /\ pc[i] = "cleanup"
  /\ \/ /\ work' = [work EXCEPT ![WorkRoot(i)] = Absent]
        /\ run' = [run EXCEPT ![i] = Run!Nothing]
        /\ UNCHANGED <<kept, faults>>
     \/ /\ faults < MaxFaults /\ faults' = faults + 1
        /\ kept' = kept \cup {i} /\ UNCHANGED <<work, run>>
  /\ Goto(i, "ended")
  /\ UNCHANGED <<request, disk, pid, seen, calls, exit, output, replacements, kills>>

-----------------------------------------------------------------------------
(* The world around.                                                       *)

Fallible == {"look", "work_root", "create_run", "documents", "finalize", "verify", "archive"}

(* The read of a validation for the copy that is sealed is not a look of   *)
(* the adapter: its error is an internal one.                              *)
LookCode(i) == IF request[i] = "nnis" /\ Len(seen[i]) = 4 THEN 3 ELSE 2

Fault(i) ==
  /\ faults < MaxFaults /\ faults' = faults + 1
  /\ \/ /\ pc[i] \in Fallible
        /\ Leave(i, IF pc[i] = "look" THEN LookCode(i) ELSE FailureCode(i))
     \/ /\ pc[i] = "copy"
        /\ exit' = [exit EXCEPT ![i] = 3] /\ Goto(i, "discard")
  /\ UNCHANGED <<request, disk, pid, seen, calls, run, work, output, kept, replacements, kills>>

Kill(i) ==
  /\ kills < MaxKills /\ kills' = kills + 1
  /\ Alive(i) /\ Goto(i, "killed")
  /\ UNCHANGED <<request, disk, pid, seen, calls, run, exit, work, output, kept,
                 replacements, faults>>

Replace(p) ==
  /\ replacements < MaxReplacements /\ replacements' = replacements + 1
  /\ p \in DOMAIN disk
  /\ \E files \in Inputs[p] : \E slot \in DOMAIN files :
       disk' = [disk EXCEPT ![p][slot] = files[slot]]
  /\ UNCHANGED <<request, pc, pid, seen, calls, run, exit, work, output, kept, faults, kills>>

Step(i) ==
  \/ CheckOutput(i) \/ Look(i) \/ Accept(i) \/ Refuse(i) \/ MakeWorkRoot(i)
  \/ CreateRun(i) \/ WriteDocument(i) \/ Finalize(i) \/ Verify(i)
  \/ CreateOutput(i) \/ CopyFile(i) \/ Discard(i) \/ Cleanup(i)

AllDone ==
  /\ \A i \in Invocation : pc[i] \in {"ended", "killed"}
  /\ UNCHANGED vars

Next ==
  \/ \E i \in Invocation : Step(i) \/ Fault(i) \/ Kill(i) \/ \E p \in Pids : Start(i, p)
  \/ \E p \in Program : Replace(p)
  \/ AllDone

Spec == Init /\ [][Next]_vars

-----------------------------------------------------------------------------
(* What must hold.                                                         *)

(* An output that has its end marker is a sealed dossier that finalize     *)
(* would seal again, with every document the program writes; and a program *)
(* that has returned 0 has left it there.                                  *)
ExportIsWhole ==
  /\ output.whole =>
       LET documents == DocumentsOf(request[output.by], seen[output.by])
       IN /\ Run!IsFinalized(output.files) /\ Run!Consistent(output.files)
          /\ Run!RecordedExecutions(output.files)
               = {documents.executions[x] : x \in DOMAIN documents.executions}
          /\ output.files[Run!ReportPath] # Absent
  /\ \A i \in Invocation :
       request[i] \in Bridges /\ pc[i] = "ended" /\ exit[i] = 0
         => output.by = i /\ output.whole

(* A program that has returned has removed its work root and, unless it    *)
(* returned 0, its output; unless one of the removals itself failed.       *)
NothingLeftBehind ==
  \A i \in Invocation : pc[i] = "ended" /\ i \notin kept =>
    /\ \A w \in DOMAIN work : work[w] # i
    /\ output.by = i => output.whole /\ exit[i] = 0

(* From the making of its work root to its removal, a program works in a   *)
(* directory that is its own, also when process ids are used again.        *)
WorkRootIsOwn ==
  \A i \in Invocation : HasWorkRoot(i) \/ (pc[i] = "cleanup") => work[WorkRoot(i)] = i

-----------------------------------------------------------------------------
(* What a sealed dossier says of the evidence it was made from.            *)

SealedBy(program) ==
  {i \in Invocation : request[i] = program /\ Run!IsFinalized(run[i])}

FactsOf(i) == run[i]["EVD-1"].facts
InputOf(i, n) == Decode[run[i]["EVD-1"].inputs[n].sha256]

(* The validation result sealed with the dossier names, byte for byte, the *)
(* evidence the dossier is about.                                          *)
NnisIsJustified(i) ==
  LET sealed == run[i][Nnis!ValidationAttachment].bytes
      validation == Decode[sealed]
  IN /\ validation.source = run[i][Run!ArtifactPath].content_digest
     /\ run[i]["EVD-1"].inputs = <<validation.source, [sha256 |-> sealed]>>
     /\ validation.commit = InputOf(i, 1).commit

(* As many different signers, and signatures, as the policy required.      *)
CapsuleIsJustified(i) ==
  LET result == InputOf(i, 1)
      Different(list) == Cardinality({list[k] : k \in DOMAIN list})
  IN /\ FactsOf(i).required_signatures \in 1..Different(result.matched_signers)
     /\ FactsOf(i).required_signatures <= Different(result.signatures)

(* The decisions counted are the ones whose execution is in evidence, and  *)
(* none was both.                                                          *)
ElasticIsJustified(i) ==
  LET result == InputOf(i, 1)
      Executed(kind) == {c \in Elastic!Cycles(result) :
        \E k \in DOMAIN Elastic!CycleAt(result, c).events :
          Elastic!CycleAt(result, c).events[k] = kind}
  IN /\ FactsOf(i).commits = Cardinality(Executed("CommitExecuted"))
     /\ FactsOf(i).rollbacks = Cardinality(Executed("RollbackExecuted"))
     /\ Executed("CommitExecuted") \cap Executed("RollbackExecuted") = {}

ForgeRecords(bundle) == Forge!ReadArchive(bundle.entries).records

(* Every candidate on the final front was measured, as the report has it,  *)
(* on the objectives it was scored by, and no trial was run in two ways.   *)
(* The report is sealed by the digest of the bytes that were validated;    *)
(* the bundle by that of another read, which is the validated one only if  *)
(* the file had the same bytes at both.                                    *)
ForgeIsJustified(i) ==
  LET report == InputOf(i, 1)
      records == FactsOf(i).records
  IN /\ \A f \in DOMAIN report.front : \E r \in DOMAIN records :
          /\ records[r].phase = "measure"
          /\ records[r].candidate = report.front[f].id
          /\ records[r].values = report.front[f].values
          /\ \A o \in DOMAIN report.front[f].score.objectives :
               report.front[f].score.objectives[o].name \in records[r].metrics
     /\ \A r, q \in DOMAIN records :
          <<records[r].candidate, records[r].seed>> = <<records[q].candidate, records[q].seed>>
            => records[r].config = records[q].config
     /\ seen[i][6] = seen[i][7] => ForgeRecords(InputOf(i, 2)) = records

(* A bridge that seals "verified" has the evidence for it: what the        *)
(* adapters' own documentation says their contract establishes.  Of the    *)
(* Forge/SOUP bundle that is said of the sealed facts, which are those of  *)
(* a validated bundle, and not of the sealed digest.                       *)
SealedIsJustified ==
  /\ \A i \in SealedBy("nnis") : NnisIsJustified(i)
  /\ \A i \in SealedBy("scicapsule") : CapsuleIsJustified(i)
  /\ \A i \in SealedBy("elastic") : ElasticIsJustified(i)
  /\ \A i \in SealedBy("forge_soup") : ForgeIsJustified(i)

(* `ingest scirust` flattens nothing: in a summary that names each gate    *)
(* once, every gate keeps its own status, exit 0 hides no required failure *)
(* and exit 1 invents none.                                                *)
ImportIsHonest ==
  \A i \in SealedBy("scirust") :
    LET gates == Scirust!Gates(Scirust!Doc(seen[i][1]).lines)
        Status(required) == {gates[g].status : g \in {h \in DOMAIN gates :
                                                    gates[h].required \in {required, TRUE}}}
    IN Scirust!Distinct([g \in DOMAIN gates |-> gates[g].id]) =>
         /\ \A g \in DOMAIN gates : \E x \in Run!RecordedExecutions(run[i]) :
              /\ x.check = Scirust!CheckOf(gates[g])
              /\ (x.outcome = "verified") = (gates[g].status = "PASS")
              /\ (x.outcome = "failed") = (gates[g].status = "FAIL")
         /\ exit[i] = 0 => "FAIL" \notin Status(TRUE)
         /\ exit[i] = 1 => "FAIL" \in Status(FALSE)

(* An output is changed only while its maker is writing or discarding it,  *)
(* and never once it is whole: no program removes or overwrites another's. *)
OutputIsItsMakers ==
  [][OutputExists =>
       /\ ~output.whole
       /\ pc[output.by] \in {"copy", "discard"}
       /\ output'.by \in {output.by, Absent}]_output

=============================================================================
