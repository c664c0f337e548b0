--------------------------- MODULE EvidenceStore ---------------------------
(***************************************************************************)
(* One run directory of the evidence store (scirust-verify-store), the     *)
(* process that owns it, one process that verifies it, and the processes   *)
(* that were started by the checks and may still write below it.           *)
(*                                                                         *)
(* The owner calls the API of RunStore in any order.  An API call is one   *)
(* step, except add_evidence and finalize, whose file operations other     *)
(* processes can interleave with: they advance a program counter.  Every   *)
(* write is an atomic_write, that publishes its content, leaves the file   *)
(* as it was, or (when a check after the rename fails) removes it.         *)
(***************************************************************************)
EXTENDS Dossier

CONSTANTS
  SettableStates, \* states the owner passes to set_state
  IsReplay,       \* the run is a replay of another one
  Plans, ClaimSets, Executions, Records, \* what it passes to the writers
  Rewrites,       \* what it passes to write_executions, which nothing calls yet
  Strayable,      \* files the outside processes write to
  ReadBefore,     \* <<p, q>>: a traversal that finds both reads p before q
  MaxFaults,      \* bound: I/O operations that fail
  MaxCrashes      \* bound: deaths of the owner

ASSUME InputsAreContent ==
  /\ SettableStates \subseteq RunState
  /\ Plans \subseteq PlanDocument
  /\ ClaimSets \subseteq ClaimsDocument
  /\ Executions \subseteq Execution
  /\ Rewrites \subseteq ExecutionsDocument
  /\ Records \subseteq [EvidenceIds -> Evidence]
  /\ Strayable \subseteq Path
  /\ ReadBefore \subseteq Path \X Path
  /\ IsReplay \in BOOLEAN
  /\ MaxFaults \in Nat /\ MaxCrashes \in Nat

VARIABLES
  files,     \* the directory, without bundle.json
  manifest,  \* bundle.json: a directory, or Absent
  pc,        \* where the owner is
  job,       \* evidence being added: its id, record and attachments to write
  todo,      \* entries the owner's traversal has yet to read
  seen,      \* what the traversal has read
  snap,      \* the snapshot finalize validated
  attempt,   \* calls of finalize so far, which also date finalized_at_utc
  result,    \* what the owner's last call returned
  rpc, rman, rtodo, rseen, rresult, \* the same of the verifying process
  faults, strays, crashes,   \* what the bounds count
  held, rheld       \* history: see SealIsSimultaneous, AcceptIsSimultaneous

bounds == <<faults, strays, crashes>>
walk == <<todo, seen>>
owner == <<pc, job, walk, snap, attempt, result, held>>
reader == <<rpc, rman, rtodo, rseen, rresult, rheld>>
vars == <<files, manifest, owner, reader, bounds>>

-----------------------------------------------------------------------------
(* Writing.                                                                *)

(* How a write ends: published; not written; published and taken back,    *)
(* because a check after the rename failed; or published although it       *)
(* failed, because the removal failed too: its error is ignored.           *)
Outcome == {"ok", "unwritten", "lost", "kept"}

FailingOperations(outcome) ==
  CASE outcome = "ok" -> 0
    [] outcome \in {"unwritten", "lost"} -> 1
    [] outcome = "kept" -> 2

Faults(n) == faults + n <= MaxFaults /\ faults' = faults + n

Fault == Faults(1)

NoFault == UNCHANGED faults

(* What atomic_write of content c to path p leaves behind, after n         *)
(* operations of the same call have failed.                                *)
AtomicWriteAfter(n, p, c, outcome) ==
  /\ Faults(n + FailingOperations(outcome))
  /\ files' = [files EXCEPT ![p] =
                 CASE outcome \in {"ok", "kept"} -> c
                   [] outcome = "unwritten" -> @
                   [] outcome = "lost" -> Absent]

AtomicWrite(p, c, outcome) == AtomicWriteAfter(0, p, c, outcome)

ReturnCode(outcome) == IF outcome = "ok" THEN "ok" ELSE "io"

IsSealed_OnlyRun(p) == manifest # Absent /\ p = RunPath

(* bundle.json exists and lists p.                                         *)
IsSealed(p) == manifest # Absent /\ manifest[p] # Absent

Return(code) == result' = code

NoWrite == UNCHANGED <<files, faults>>

(* is_sealed takes a stat of bundle.json that fails for its absence, so a  *)
(* listed document is written when one fails; if bundle.json is found and  *)
(* cannot be read, the call is over.                                       *)
WriteJsonAfter(n, p, c) ==
  \/ /\ IsSealed(p)
     /\ Faults(n) /\ UNCHANGED files /\ Return("frozen")
  \/ /\ manifest # Absent
     /\ Faults(n + 1) /\ UNCHANGED files /\ Return("io")
  \/ \E o \in Outcome :
       /\ AtomicWriteAfter(IF IsSealed(p) THEN n + 1 ELSE n, p, c, o)
       /\ Return(ReturnCode(o))

WriteJson(p, c) == WriteJsonAfter(0, p, c)

(* A call of the API that is one step: the owner is and stays idle.        *)
Call == /\ pc = "idle"
        /\ UNCHANGED <<manifest, pc, job, walk, snap, attempt, held, reader, strays, crashes>>

-----------------------------------------------------------------------------
(* The API of the owner.                                                   *)

Init ==
  /\ files = Nothing
  /\ manifest = Absent
  /\ pc = "absent"
  /\ job = Absent
  /\ todo = {} /\ seen = Nothing
  /\ snap = Nothing
  /\ attempt = 0
  /\ result = "ok"
  /\ rpc = "idle" /\ rman = Absent /\ rtodo = {} /\ rseen = Nothing
  /\ rresult = "none"
  /\ faults = 0 /\ strays = 0 /\ crashes = 0
  /\ held = FALSE /\ rheld = FALSE

(* create_run_with_id: the directory is new, run.json is the first file.   *)
(* After a failed write the id is taken and nobody holds the store.        *)
CreateRun ==
  /\ pc = "absent"
  /\ \E o \in Outcome :
       /\ AtomicWrite(RunPath, [state |-> "planning", replay_of |-> FALSE,
                                finalized_at |-> 0], o)
       /\ pc' = IF o = "ok" THEN "idle" ELSE "crashed"
       /\ Return(ReturnCode(o))
  /\ UNCHANGED <<manifest, job, walk, snap, attempt, held, reader, strays, crashes>>

RunReadable == files[RunPath] # Absent /\ ~Unparseable(files[RunPath])

RefuseUnreadable ==
  /\ IF RunReadable THEN Fault ELSE NoFault
  /\ UNCHANGED files /\ Return("io")

SetState(s) ==
  /\ Call
  /\ \/ RefuseUnreadable
     \/ /\ RunReadable
        /\ IF IsFinalized(files) /\ s # "finalized"
             THEN NoWrite /\ Return("frozen")
             ELSE WriteJson(RunPath,
                    [files[RunPath] EXCEPT !.state = s,
                       !.finalized_at = IF s = "finalized" THEN attempt ELSE @])

SetReplayOf ==
  /\ Call
  /\ IsReplay
  /\ \/ RefuseUnreadable
     \/ /\ RunReadable
        /\ IF IsFinalized(files)
             THEN NoWrite /\ Return("frozen")
             ELSE WriteJson(RunPath, [files[RunPath] EXCEPT !.replay_of = TRUE])

WriteArtifact == Call /\ WriteJson(ArtifactPath, [opaque |-> "artifact"])

WritePlan(plan) == Call /\ WriteJson(PlanPath, plan)

WriteClaims(claims) == Call /\ WriteJson(ClaimsPath, claims)

WriteExecutions(doc) == Call /\ WriteJson(ExecutionsPath, doc)

WriteText == /\ Call
             /\ \E o \in Outcome :
                  /\ AtomicWrite(ReportPath, [opaque |-> "report"], o)
                  /\ Return(ReturnCode(o))

(* append_execution: any I/O error of the read, and not only a missing     *)
(* file, starts an empty document.                                         *)
AppendExecution(x) ==
  LET Appended(old) == [executions |-> old \cup {x}]
      Recorded == files[ExecutionsPath]
  IN /\ Call
     /\ \/ /\ Unparseable(Recorded)
           /\ NoWrite /\ Return("corrupt")
        \/ /\ Recorded # Absent /\ ~Unparseable(Recorded)
           /\ WriteJson(ExecutionsPath, Appended(Recorded.executions))
        \/ /\ Recorded = Absent
           /\ WriteJson(ExecutionsPath, Appended({}))
        \/ /\ Recorded # Absent \* the read fails
           /\ WriteJsonAfter(1, ExecutionsPath, Appended({}))

-----------------------------------------------------------------------------
(* add_evidence: the attachments first, one at a time, then the record.    *)

AddEvidence_Overwrites(e, record) ==
  /\ pc = "idle"
  /\ pc' = "attaching"
  /\ job' = [id |-> e, record |-> record, left |-> record.attachments, misled |-> FALSE]
  /\ Return("ok")
  /\ UNCHANGED <<files, manifest, walk, snap, attempt, held, reader, bounds>>

(* The test for a record with the id takes a stat that fails for its       *)
(* absence.  misled is a history field: there was a record all the same.   *)
AddEvidence(e, record) ==
  /\ pc = "idle"
  /\ \/ /\ files[e] # Absent
        /\ NoFault
        /\ Return("corrupt") /\ UNCHANGED <<pc, job>>
     \/ /\ IF files[e] = Absent THEN NoFault ELSE Fault
        /\ pc' = "attaching"
        /\ job' = [id |-> e, record |-> record, left |-> record.attachments,
                   misled |-> files[e] # Absent]
        /\ Return("ok")
  /\ UNCHANGED <<files, manifest, walk, snap, attempt, held, reader, strays, crashes>>

Adding == /\ pc = "attaching"
          /\ UNCHANGED <<manifest, walk, snap, attempt, held, reader, strays, crashes>>

(* supplied: the payload handed over is the one whose digest the record    *)
(* states.  If it is not the call returns, the attachments before it stay. *)
WriteAttachment(a, supplied) ==
  /\ Adding
  /\ a \in job.left
  /\ \/ /\ supplied
        /\ AtomicWrite(a.path, [bytes |-> a.payload], "ok")
        /\ job' = [job EXCEPT !.left = @ \ {a}]
        /\ UNCHANGED <<pc, result>>
     \/ /\ supplied
        /\ \E o \in Outcome \ {"ok"} : AtomicWrite(a.path, [bytes |-> a.payload], o)
        /\ pc' = "idle" /\ job' = Absent /\ Return("io")
     \/ /\ ~supplied
        /\ NoWrite
        /\ pc' = "idle" /\ job' = Absent /\ Return("corrupt")

WriteRecord ==
  /\ Adding
  /\ job.left = {}
  /\ WriteJson(job.id, job.record)
  /\ pc' = "idle" /\ job' = Absent

-----------------------------------------------------------------------------
(* finalize: two traversals around the validation, then the two writes.    *)

FinalizeStart ==
  /\ pc = "idle"
  /\ attempt < MaxFinalize
  /\ CASE ~RunReadable ->
            Return("io") /\ UNCHANGED <<pc, walk, attempt>>
       [] RunReadable /\ IsFinalized(files) ->
            Return("frozen") /\ UNCHANGED <<pc, walk, attempt>>
       [] OTHER ->
            /\ pc' = "snapshotting"
            /\ todo' = Present(files) /\ seen' = Nothing
            /\ attempt' = attempt + 1
            /\ UNCHANGED result
  /\ UNCHANGED <<files, manifest, job, snap, held, reader, bounds>>

(* Of the entries left to read, p may be the next one.                     *)
IsNext(p, left) == \A q \in left \ {p} : <<q, p>> \notin ReadBefore

Traversing == pc \in {"snapshotting", "comparing"}

EndTraversal == todo' = {} /\ seen' = Nothing

ReturnFromTraversal(code) == pc' = "idle" /\ EndTraversal /\ Return(code)

(* collect_files reads an entry; one that appeared after the traversal     *)
(* began may or may not be listed.                                         *)
CollectFile(p) ==
  /\ Traversing
  /\ IsNext(p, todo)
  /\ files[p] # Absent /\ seen[p] = Absent
  /\ seen' = [seen EXCEPT ![p] = files[p]]
  /\ todo' = todo \ {p}
  /\ UNCHANGED <<files, manifest, pc, job, snap, attempt, result, held, reader, bounds>>

(* An entry removed before its directory was listed is not seen; one       *)
(* removed after it fails the traversal, as any I/O error does.            *)
CollectMissing(p) ==
  /\ Traversing
  /\ p \in todo /\ IsNext(p, todo) /\ files[p] = Absent
  /\ todo' = todo \ {p}
  /\ UNCHANGED <<files, manifest, pc, job, seen, snap, attempt, result, held, reader, bounds>>

CollectFails ==
  /\ Traversing
  /\ \/ Fault
     \/ (\E p \in todo : files[p] = Absent) /\ NoFault
  /\ ReturnFromTraversal("io")
  /\ UNCHANGED <<files, manifest, job, snap, attempt, held, reader, strays, crashes>>

Validate_Unvalidated ==
  /\ pc = "snapshotting" /\ todo = {} /\ seen[RunPath] # Absent
  /\ pc' = "comparing"
  /\ snap' = seen
  /\ todo' = Present(files) /\ seen' = Nothing
  /\ held' = (\A p \in Present(seen) : files[p] = seen[p])
  /\ UNCHANGED <<files, manifest, job, attempt, result, reader, bounds>>

(* The validation of the captured documents.  held records that at this    *)
(* instant every captured file still has its captured content.             *)
Validate ==
  /\ pc = "snapshotting" /\ todo = {}
  /\ IF Consistent(seen) /\ ~IsFinalized(seen)
       THEN /\ pc' = "comparing"
            /\ snap' = seen
            /\ todo' = Present(files) /\ seen' = Nothing
            /\ held' = (\A p \in Present(seen) : files[p] = seen[p])
            /\ UNCHANGED result
       ELSE /\ ReturnFromTraversal(IF Deserializes(seen) /\ IsFinalized(seen)
                                     THEN "frozen" ELSE "corrupt")
            /\ UNCHANGED <<snap, held>>
  /\ UNCHANGED <<files, manifest, job, attempt, reader, bounds>>

Compare_Unchecked ==
  /\ pc = "comparing" /\ todo = {}
  /\ pc' = "sealing" /\ EndTraversal
  /\ UNCHANGED <<files, manifest, job, snap, attempt, result, held, reader, bounds>>

Compare ==
  /\ pc = "comparing" /\ todo = {}
  /\ IF seen = snap
       THEN pc' = "sealing" /\ EndTraversal /\ UNCHANGED result
       ELSE ReturnFromTraversal("corrupt")
  /\ UNCHANGED <<files, manifest, job, snap, attempt, held, reader, bounds>>

FinalizedDocument_LaterDate ==
  [snap[RunPath] EXCEPT !.state = "finalized", !.finalized_at = attempt + 1]

FinalizedDocument ==
  [snap[RunPath] EXCEPT !.state = "finalized", !.finalized_at = attempt]

SealedFiles_Undated == [snap EXCEPT ![RunPath].state = "finalized"]

SealedFiles == [snap EXCEPT ![RunPath] = FinalizedDocument]

PublishRun ==
  /\ pc = "sealing"
  /\ \E o \in Outcome :
       /\ AtomicWrite(RunPath, FinalizedDocument, o)
       /\ pc' = IF o = "ok" THEN "manifesting" ELSE "restoring"
  /\ UNCHANGED <<manifest, job, walk, snap, attempt, result, held, reader, strays, crashes>>

PublishManifest_NoRollback ==
  /\ pc = "manifesting"
  /\ \/ NoFault /\ manifest' = SealedFiles /\ pc' = "confirming" /\ UNCHANGED result
     \/ Fault /\ manifest' = Absent /\ pc' = "idle" /\ Return("io")
  /\ UNCHANGED <<files, job, walk, snap, attempt, held, reader, strays, crashes>>

(* The rename of bundle.json; what follows may still fail.  When the write *)
(* fails before the rename, finalize removes bundle.json all the same and  *)
(* ignores whether that succeeds: one that an earlier finalize left, which *)
(* the traversals skip, may stay.                                          *)
PublishManifest ==
  /\ pc = "manifesting"
  /\ \/ /\ NoFault
        /\ manifest' = SealedFiles
        /\ pc' = "confirming"
     \/ /\ Fault
        /\ manifest' = Absent
        /\ pc' = "restoring"
     \/ /\ Faults(2)
        /\ UNCHANGED manifest
        /\ pc' = "restoring"
  /\ UNCHANGED <<files, job, walk, snap, attempt, result, held, reader, strays, crashes>>

ConfirmManifest_KeepsFile ==
  /\ pc = "confirming"
  /\ \/ NoFault /\ pc' = "idle" /\ Return("sealed")
     \/ Fault /\ pc' = "restoring" /\ UNCHANGED result
  /\ UNCHANGED <<files, manifest, job, walk, snap, attempt, held, reader, strays, crashes>>

(* What follows the rename.  atomic_write and then finalize itself remove  *)
(* bundle.json after a failure, and both ignore whether that succeeds; the *)
(* failure of both removals counts as one.                                 *)
ConfirmManifest ==
  /\ pc = "confirming"
  /\ \/ NoFault /\ pc' = "idle" /\ Return("sealed") /\ UNCHANGED manifest
     \/ /\ Fault
        /\ manifest' = Absent
        /\ pc' = "restoring" /\ UNCHANGED result
     \/ /\ Faults(2)
        /\ UNCHANGED manifest
        /\ pc' = "restoring" /\ UNCHANGED result
  /\ UNCHANGED <<files, job, walk, snap, attempt, held, reader, strays, crashes>>

(* The rollback: run.json gets its captured bytes back.                    *)
RestoreRun ==
  /\ pc = "restoring"
  /\ \E o \in Outcome :
       /\ AtomicWrite(RunPath, snap[RunPath], o)
       /\ Return(IF o = "ok" THEN "rolled_back" ELSE "stuck")
  /\ pc' = "idle"
  /\ UNCHANGED <<manifest, job, walk, snap, attempt, held, reader, strays, crashes>>

-----------------------------------------------------------------------------
(* The owner dies, and a new one opens the directory (RunsRoot::open).     *)

(* A write the owner died in leaves its temporary behind.                  *)
Crash ==
  /\ pc \notin {"absent", "crashed"}
  /\ crashes < MaxCrashes /\ crashes' = crashes + 1
  /\ pc' = "crashed" /\ job' = Absent /\ EndTraversal
  /\ \/ UNCHANGED files
     \/ files' = [files EXCEPT ![TempPath] = [opaque |-> "temp"]]
  /\ UNCHANGED <<manifest, snap, attempt, result, held, reader, faults, strays>>

Open ==
  /\ pc = "crashed"
  /\ pc' = "idle" /\ Return("ok")
  /\ UNCHANGED <<files, manifest, job, walk, snap, attempt, held, reader, bounds>>

(* A process a check left running writes or removes a file of the run.     *)
OutsideWrite(p) ==
  /\ pc # "absent"
  /\ strays < MaxStrays
  /\ strays' = strays + 1
  /\ \/ files' = [files EXCEPT ![p] = [stray |-> strays + 1]]
     \/ files[p] # Absent /\ files' = [files EXCEPT ![p] = Absent]
  /\ UNCHANGED <<manifest, owner, reader, faults, crashes>>

-----------------------------------------------------------------------------
(* verify_integrity_snapshot, run by another process.                      *)

Verifying == UNCHANGED <<files, manifest, owner, bounds>>

Conclude(verdict) ==
  rpc' = "idle" /\ rtodo' = {} /\ rseen' = Nothing /\ rresult' = verdict

Reject == Conclude("rejected") /\ rman' = Absent

VerifyStart ==
  /\ Verifying
  /\ rpc = "idle"
  /\ IF manifest = Absent
       THEN Reject
       ELSE /\ rpc' = "sealed_files"
            /\ rman' = manifest /\ rtodo' = Present(manifest)
            /\ rresult' = "none" /\ UNCHANGED rseen
  /\ UNCHANGED rheld

VerifyFile(p) ==
  /\ Verifying
  /\ rpc = "sealed_files" /\ p \in rtodo /\ IsNext(p, rtodo)
  /\ IF files[p] = rman[p]
       THEN rtodo' = rtodo \ {p} /\ UNCHANGED <<rpc, rman, rseen, rresult>>
       ELSE Reject
  /\ UNCHANGED rheld

VerifyRunDocument ==
  /\ Verifying
  /\ rpc = "sealed_files" /\ rtodo = {}
  /\ IF IsFinalized(rman)
       THEN /\ rpc' = "present_files"
            /\ rtodo' = Present(files) /\ rseen' = Nothing
            /\ rheld' = (\A p \in Present(rman) : files[p] = rman[p])
            /\ UNCHANGED <<rman, rresult>>
       ELSE Reject /\ UNCHANGED rheld

VerifyPresent(p) ==
  /\ Verifying
  /\ rpc = "present_files" /\ IsNext(p, rtodo)
  /\ \/ /\ files[p] # Absent /\ rseen[p] = Absent
        /\ rseen' = [rseen EXCEPT ![p] = files[p]]
        /\ rtodo' = rtodo \ {p}
        /\ UNCHANGED <<rpc, rman, rresult>>
     \/ /\ p \in rtodo /\ files[p] = Absent
        /\ \/ rtodo' = rtodo \ {p} /\ UNCHANGED <<rpc, rman, rseen, rresult>>
           \/ Reject
  /\ UNCHANGED rheld

VerifyAdditions_Unchecked ==
  /\ Verifying
  /\ rpc = "present_files" /\ rtodo = {}
  /\ rpc' = "manifest_again" /\ rseen' = Nothing
  /\ UNCHANGED <<rman, rtodo, rresult, rheld>>

VerifyAdditions ==
  /\ Verifying
  /\ rpc = "present_files" /\ rtodo = {}
  /\ IF rseen = rman
       THEN rpc' = "manifest_again" /\ rseen' = Nothing /\ UNCHANGED <<rman, rtodo, rresult>>
       ELSE Reject
  /\ UNCHANGED rheld

VerifyManifestAgain ==
  /\ Verifying
  /\ rpc = "manifest_again"
  /\ IF manifest = rman
       THEN Conclude("ok") /\ UNCHANGED rman
       ELSE Reject
  /\ UNCHANGED rheld

-----------------------------------------------------------------------------
Writes ==
  \/ CreateRun
  \/ \E s \in SettableStates : SetState(s)
  \/ SetReplayOf
  \/ WriteArtifact
  \/ \E plan \in Plans : WritePlan(plan)
  \/ \E claims \in ClaimSets : WriteClaims(claims)
  \/ \E x \in Executions : AppendExecution(x)
  \/ \E doc \in Rewrites : WriteExecutions(doc)
  \/ WriteText

EvidenceSteps ==
  \/ \E record \in Records : \E e \in EvidenceIds : AddEvidence(e, record[e])
  \/ \E a \in Attachment, supplied \in BOOLEAN : WriteAttachment(a, supplied)
  \/ WriteRecord

Finalize ==
  \/ \E p \in Path : CollectFile(p) \/ CollectMissing(p)
  \/ CollectFails
  \/ Validate
  \/ Compare
  \/ PublishRun
  \/ PublishManifest
  \/ ConfirmManifest
  \/ RestoreRun

Verify ==
  \/ \E p \in Path : VerifyFile(p) \/ VerifyPresent(p)
  \/ VerifyRunDocument
  \/ VerifyAdditions
  \/ VerifyManifestAgain

Next ==
  \/ Writes
  \/ EvidenceSteps
  \/ FinalizeStart \/ Finalize
  \/ Crash \/ Open
  \/ \E p \in Strayable : OutsideWrite(p)
  \/ VerifyStart \/ Verify

Spec == Init /\ [][Next]_vars

-----------------------------------------------------------------------------
(* Properties.                                                             *)

FinalizePhases == {"snapshotting", "comparing", "sealing", "manifesting",
                   "confirming", "restoring"}

(* Every variable holds what its reader in the source could have read.     *)
TypeOK ==
  /\ IsDirectory(files)
  /\ manifest = Absent \/ IsDirectory(manifest)
  /\ pc \in {"absent", "idle", "attaching", "crashed"} \cup FinalizePhases
  /\ IF pc = "attaching"
       THEN job \in [id : EvidenceIds, record : Evidence, left : SUBSET Attachment,
                     misled : BOOLEAN]
       ELSE job = Absent
  /\ todo \subseteq Path /\ IsDirectory(seen) /\ IsDirectory(snap)
  /\ attempt \in 0..MaxFinalize
  /\ result \in {"ok", "io", "frozen", "corrupt", "sealed", "rolled_back", "stuck"}
  /\ rpc \in {"idle", "sealed_files", "present_files", "manifest_again"}
  /\ rman = Absent \/ IsDirectory(rman)
  /\ rtodo \subseteq Path /\ IsDirectory(rseen)
  /\ rresult \in {"none", "ok", "rejected"}
  /\ faults \in 0..MaxFaults /\ strays \in 0..MaxStrays /\ crashes \in 0..MaxCrashes
  /\ held \in BOOLEAN /\ rheld \in BOOLEAN

(* Whatever the other processes did meanwhile, bundle.json never lists a   *)
(* directory that finalize's validation would refuse.                      *)
SealedWasConsistent ==
  manifest # Absent => Consistent(manifest) /\ IsFinalized(manifest)

(* Everything a sealed record refers to is sealed with it: claims, checks, *)
(* evidence, payload bytes; and no evidence is derived from itself.        *)
References(d) ==
  {<<"claim", c>> : c \in UNION {d[PlanPath].checks[k] : k \in DOMAIN d[PlanPath].checks}}
  \cup {<<"check", x.check>> : x \in RecordedExecutions(d)}
  \cup {<<"evidence", e>> : e \in UNION {x.evidence_ids : x \in RecordedExecutions(d)}}
  \cup {<<"evidence", e>> : e \in UNION {d[f].derived_from : f \in RecordedEvidence(d)}}
  \cup {<<"bytes", a.path, a.payload>> : a \in UNION {d[f].attachments : f \in RecordedEvidence(d)}}

Defined(d) ==
  {<<"claim", c>> : c \in d[ClaimsPath].claims}
  \cup {<<"check", k>> : k \in DOMAIN d[PlanPath].checks}
  \cup {<<"evidence", e>> : e \in RecordedEvidence(d)}
  \cup {<<"bytes", a, d[a].bytes>> : a \in Present(d) \cap Attachments}

SealedIsSelfContained ==
  manifest # Absent =>
    /\ References(manifest) \subseteq Defined(manifest)
    /\ \A e \in RecordedEvidence(manifest) : e \notin manifest[e].derived_from

(* The two traversals of finalize make an atomic snapshot: when the owner  *)
(* goes on to seal, there was an instant at which all the files of the     *)
(* manifest were in the directory together, with the sealed contents.      *)
(* (Outside writes never bring back earlier bytes.)                        *)
SealIsSimultaneous ==
  pc \in {"sealing", "manifesting", "confirming"} => held

(* The same of the two passes of verify_integrity_snapshot: an accepted    *)
(* run was, at one instant of the verification, all there, provided that   *)
(* its bundle.json is that of the finalize after which the owner has       *)
(* called nothing (its calls may write the same bytes again).              *)
AcceptIsSimultaneous ==
  rresult = "ok" /\ manifest = rman /\ result = "sealed" => rheld

(* Between calls a run.json that says finalized has a bundle.json with it: *)
(* "An interrupted run [...] never looks final" (lib.rs, RunState).        *)
NeverLooksFinal ==
  pc \in {"idle", "crashed"} /\ IsFinalized(files) => manifest # Absent

(* So much of it the rollback ensures: one failing operation anywhere does *)
(* not make a run look final.                                              *)
OneFaultIsRolledBack == faults < 2 => NeverLooksFinal

(* A finalize that failed to write and rolled back left the run as open as *)
(* it found it: the same run.json and, unless a removal failed as well as  *)
(* the write, no bundle.json ("Only Finalized bundles carry an integrity   *)
(* manifest", lib.rs, RunState).                                           *)
RolledBackIsOpen ==
  pc = "idle" /\ result = "rolled_back" =>
    files[RunPath] = snap[RunPath] /\ (faults < 2 => manifest = Absent)

(* "Sealed runs reject mutation through the store API" (EVIDENCE_FORMAT),  *)
(* as far as it holds: a step of the owner in which no operation fails     *)
(* changes no JSON document that bundle.json lists, also a bundle.json     *)
(* left by a failed finalize; finalize itself writes run.json only.        *)
SealedDocumentsFrozen ==
  [][\A p \in Documents \cup EvidenceIds :
       manifest # Absent /\ strays' = strays /\ faults' = faults
         => \/ manifest[p] = Absent
            \/ p = RunPath /\ pc \in FinalizePhases
            \/ files'[p] = files[p]]_vars

(* "Evidence ids are immutable once written" (add_evidence), as far as it  *)
(* holds: no sequence of the owner's calls, failed writes or restarts      *)
(* changes a record, unless a stat failed when add_evidence looked for it. *)
EvidenceImmutable ==
  [][\A e \in EvidenceIds :
       files[e] \notin Stray \cup {Absent} /\ strays' = strays
         => \/ pc = "attaching" /\ job.id = e /\ job.misled
            \/ files'[e] = files[e]]_vars

(* There is no false alarm: if the owner has called nothing since its      *)
(* finalize, a verification refuses only when bundle.json is another than  *)
(* the one it began with, when another process has changed a file, or when *)
(* the owner died in a call and left a temporary file.                     *)
RefusalIsJustified ==
  [][rresult # "rejected" /\ rresult' = "rejected" /\ result = "sealed"
       => \/ rpc # "idle" /\ manifest # rman
          \/ strays > 0 \/ files[TempPath] # Absent]_vars

(* The store implements SealedRun: the seal is bundle.json, which stays    *)
(* from the moment finalize is over, and a verification returns it.  After *)
(* a finalize that could not remove it, it is no seal to rely on while     *)
(* run.json says that the run is open.                                     *)
RunLooksSealed(d) == d[RunPath] \in Stray \cup {Absent} \/ IsFinalized(d)

Abstract == INSTANCE SealedRun WITH
  None <- Absent,
  seal <- manifest,
  acknowledged <- manifest # Absent /\ pc \notin FinalizePhases /\ RunLooksSealed(files),
  accepted <- IF rresult = "ok" THEN rman ELSE Absent

ImplementsSealedRun == Abstract!Spec

=============================================================================
