------------------------ MODULE EvidenceStoreProofs ------------------------
(* Proofs about EvidenceStore, for every value of its constants.           *)
EXTENDS EvidenceStore, TLAPS

-----------------------------------------------------------------------------
(* The contents the owner writes at a path are no other process's bytes,   *)
(* because they are records with other fields.                             *)

(* A run document is content, and no stray write produces one.             *)
LEMMA RunDocumentIsNotStray ==
  ASSUME NEW c \in RunDocument PROVE c \notin Stray /\ c # Absent /\ c \in Content
<1>1. c \in Content
  BY DEF Content
<1>2. c \notin Stray
  <2>1. SUFFICES ASSUME c \in Stray PROVE FALSE
    OBVIOUS
  <2>2. DOMAIN c = {"stray"}
    BY <2>1 DEF Stray
  <2>3. DOMAIN c = {"state", "replay_of", "finalized_at"}
    BY DEF RunDocument
  <2> QED BY <2>2, <2>3
<1> QED BY <1>1, <1>2, AbsentIsNoContent

(* The named documents, the records and the attachments are paths of the   *)
(* directory.                                                              *)
LEMMA PathsAreDistinct ==
  /\ RunPath \in Path /\ ArtifactPath \in Path /\ PlanPath \in Path
  /\ ClaimsPath \in Path /\ ExecutionsPath \in Path /\ ReportPath \in Path
  /\ TempPath \in Path
  /\ EvidenceIds \subseteq Path /\ Attachments \subseteq Path
BY DEF Path, Documents, RunPath, ArtifactPath, PlanPath, ClaimsPath,
       ExecutionsPath, ReportPath, TempPath

(* What a reader expects at each of the named documents.                   *)
LEMMA ContentOfPaths ==
  /\ ContentAt(RunPath) = RunDocument
  /\ ContentAt(PlanPath) = PlanDocument
  /\ ContentAt(ClaimsPath) = ClaimsDocument
  /\ ContentAt(ExecutionsPath) = ExecutionsDocument
  /\ ContentAt(ArtifactPath) = Opaque /\ ContentAt(ReportPath) = Opaque
  /\ ContentAt(TempPath) = Opaque
  /\ \A e \in EvidenceIds : ContentAt(e) = Evidence
  /\ \A a \in Attachments : ContentAt(a) = Payload
BY PathsDisjoint, SMTT(30)
   DEF ContentAt, Documents, RunPath, ArtifactPath, PlanPath, ClaimsPath,
       ExecutionsPath, ReportPath, TempPath

(* Whatever lies at a path, written by the owner or astray, is content.    *)
LEMMA ContentAtIsContent ==
  ASSUME NEW p \in Path, NEW c \in ContentAt(p) \cup Stray PROVE c \in Content
<1>1. CASE p \in Documents \cup {ReportPath, TempPath}
  BY <1>1, ContentOfPaths DEF Content, Documents
<1>2. CASE p \in EvidenceIds \cup Attachments
  BY <1>2, ContentOfPaths DEF Content
<1> QED BY <1>1, <1>2 DEF Path

(* The empty directory is a directory.                                     *)
LEMMA NothingIsDirectory == IsDirectory(Nothing)
BY DEF IsDirectory, Nothing

(* Replacing one entry by content of its kind, or removing it.             *)
LEMMA DirectoryUpdate ==
  ASSUME NEW d, IsDirectory(d), NEW p \in Path,
         NEW c \in ContentAt(p) \cup Stray \cup {Absent}
  PROVE  IsDirectory([d EXCEPT ![p] = c])
BY ContentAtIsContent DEF IsDirectory

(* Failing operations are counted, and never more than the bound.          *)
LEMMA FaultsType ==
  ASSUME faults \in 0..MaxFaults, NEW n \in Nat, Faults(n)
  PROVE  faults' \in 0..MaxFaults /\ faults' = faults + n
BY InputsAreContent DEF Faults

(* What an outcome of a write costs: nothing exactly when it succeeds.     *)
LEMMA FailingOperationsType ==
  ASSUME NEW o \in Outcome
  PROVE  FailingOperations(o) \in Nat /\ (FailingOperations(o) = 0 <=> o = "ok")
BY DEF Outcome, FailingOperations

(* A write after failing operations is one without, as far as the          *)
(* directory is concerned.                                                 *)
LEMMA AtomicWriteFiles ==
  ASSUME IsDirectory(files), NEW p \in Path, NEW c, NEW n, NEW o \in Outcome,
         AtomicWriteAfter(n, p, c, o)
  PROVE  /\ files' = [files EXCEPT ![p] = c] \/ files' = [files EXCEPT ![p] = Absent]
            \/ files' = files
         /\ o = "ok" => files' = [files EXCEPT ![p] = c]
<1>1. CASE o \in {"ok", "kept"}
  BY <1>1 DEF AtomicWriteAfter
<1>2. CASE o = "unwritten"
  BY <1>2, Zenon DEF AtomicWriteAfter, IsDirectory
<1>3. CASE o = "lost"
  BY <1>3 DEF AtomicWriteAfter
<1> QED BY <1>1, <1>2, <1>3 DEF Outcome

(* atomic_write leaves a directory, whichever way it ends.                 *)
LEMMA AtomicWriteAfterType ==
  ASSUME IsDirectory(files), faults \in 0..MaxFaults, NEW n \in Nat,
         NEW p \in Path, NEW c \in ContentAt(p), NEW o \in Outcome,
         AtomicWriteAfter(n, p, c, o)
  PROVE  IsDirectory(files') /\ faults' \in 0..MaxFaults
<1>1. faults' \in 0..MaxFaults
  BY FaultsType, FailingOperationsType DEF AtomicWriteAfter
<1>2. IsDirectory(files')
  BY AtomicWriteFiles, DirectoryUpdate
<1> QED BY <1>1, <1>2

(* The same of a write before which nothing has failed.                    *)
LEMMA AtomicWriteType ==
  ASSUME IsDirectory(files), faults \in 0..MaxFaults,
         NEW p \in Path, NEW c \in ContentAt(p), NEW o \in Outcome,
         AtomicWrite(p, c, o)
  PROVE  IsDirectory(files') /\ faults' \in 0..MaxFaults
BY AtomicWriteAfterType DEF AtomicWrite

(* set_state and finalize turn a run document into a run document.         *)
LEMMA RunDocumentUpdate ==
  ASSUME NEW c \in RunDocument, NEW s \in RunState, NEW n \in 0..MaxFinalize
  PROVE  /\ [c EXCEPT !.state = s] \in RunDocument
         /\ [c EXCEPT !.state = s, !.finalized_at = n] \in RunDocument
         /\ c.finalized_at \in 0..MaxFinalize
BY DEF RunDocument

(* set_replay_of turns a run document into a run document.                 *)
LEMMA ReplayUpdate ==
  ASSUME NEW c \in RunDocument PROVE [c EXCEPT !.replay_of = TRUE] \in RunDocument
BY DEF RunDocument

(* A run.json that can be read is a run document.                          *)
LEMMA ReadableRun ==
  ASSUME IsDirectory(files), RunReadable PROVE files[RunPath] \in RunDocument
BY ContentOfPaths, PathsAreDistinct DEF IsDirectory, RunReadable, Unparseable

(* What set_state writes to run.json is a run document.                    *)
LEMMA SetStateContent ==
  ASSUME TypeOK, RunReadable, NEW s \in SettableStates
  PROVE  [files[RunPath] EXCEPT !.state = s,
            !.finalized_at = IF s = "finalized" THEN attempt ELSE @] \in ContentAt(RunPath)
<1> DEFINE date == IF s = "finalized" THEN attempt ELSE files[RunPath].finalized_at
           new == [files[RunPath] EXCEPT !.state = s,
                     !.finalized_at = IF s = "finalized" THEN attempt ELSE @]
<1>1. files[RunPath] \in RunDocument /\ s \in RunState /\ attempt \in 0..MaxFinalize
  BY ReadableRun, InputsAreContent DEF TypeOK
<1>2. date \in 0..MaxFinalize
  BY <1>1, RunDocumentUpdate
<1>3. new = [files[RunPath] EXCEPT !.state = s, !.finalized_at = date]
  BY <1>1 DEF RunDocument
<1> HIDE DEF date, new
<1>4. [files[RunPath] EXCEPT !.state = s, !.finalized_at = date] \in RunDocument
  BY <1>1, <1>2, RunDocumentUpdate
<1>5. new \in ContentAt(RunPath)
  BY <1>3, <1>4, ContentOfPaths
<1> QED BY <1>5 DEF new

ResultCodes == {"ok", "io", "frozen", "corrupt", "sealed", "rolled_back", "stuck"}

(* write_json leaves a directory and returns a code.                       *)
LEMMA WriteJsonType ==
  ASSUME IsDirectory(files), faults \in 0..MaxFaults, NEW n \in Nat,
         NEW p \in Path, NEW c \in ContentAt(p), WriteJsonAfter(n, p, c)
  PROVE  IsDirectory(files') /\ faults' \in 0..MaxFaults /\ result' \in ResultCodes
<1>1. CASE Faults(n) /\ UNCHANGED files /\ Return("frozen")
  BY <1>1, FaultsType DEF Return, ResultCodes
<1>2. CASE Faults(n + 1) /\ UNCHANGED files /\ Return("io")
  BY <1>2, FaultsType DEF Return, ResultCodes
<1>3. CASE \E o \in Outcome : /\ AtomicWriteAfter(IF IsSealed(p) THEN n + 1 ELSE n, p, c, o)
                              /\ Return(ReturnCode(o))
  <2> DEFINE k == IF IsSealed(p) THEN n + 1 ELSE n
  <2>1. k \in Nat
    OBVIOUS
  <2> HIDE DEF k
  <2>2. PICK o \in Outcome : AtomicWriteAfter(k, p, c, o) /\ Return(ReturnCode(o))
    BY <1>3 DEF k
  <2> QED BY <2>1, <2>2, AtomicWriteAfterType DEF Return, ReturnCode, ResultCodes
<1> QED BY <1>1, <1>2, <1>3 DEF WriteJsonAfter

(* write_json with nothing failing before it is a write_json.              *)
LEMMA WriteJsonIsAfter ==
  ASSUME NEW p, NEW c, WriteJson(p, c) PROVE \E n \in Nat : WriteJsonAfter(n, p, c)
BY DEF WriteJson

-----------------------------------------------------------------------------
(* Types.                                                                  *)

(* Every variable has its type before the run is created.                  *)
LEMMA InitType == Init => TypeOK
<1> SUFFICES ASSUME Init PROVE TypeOK
  OBVIOUS
<1>1. IsDirectory(files) /\ IsDirectory(seen) /\ IsDirectory(snap) /\ IsDirectory(rseen)
  BY NothingIsDirectory, Zenon DEF Init
<1>2. /\ attempt \in 0..MaxFinalize /\ faults \in 0..MaxFaults
      /\ strays \in 0..MaxStrays /\ crashes \in 0..MaxCrashes
  BY InputsAreContent, BoundsAreNaturals, SMT DEF Init
<1> QED BY <1>1, <1>2, Zenon DEF Init, TypeOK, FinalizePhases

(* The one-step calls.                                                     *)
LEMMA CallType ==
  ASSUME TypeOK, Call, IsDirectory(files'), faults' \in 0..MaxFaults,
         result' \in ResultCodes
  PROVE  TypeOK'
BY DEF TypeOK, Call, walk, reader, ResultCodes, FinalizePhases

(* The calls that are one step keep the types.                             *)
LEMMA WritesType ==
  ASSUME TypeOK, Writes PROVE TypeOK'
<1> USE DEF TypeOK
<1>0. NoWrite /\ result' \in ResultCodes =>
        IsDirectory(files') /\ faults' \in 0..MaxFaults /\ result' \in ResultCodes
  BY DEF NoWrite
<1>r. RefuseUnreadable =>
        IsDirectory(files') /\ faults' \in 0..MaxFaults /\ result' \in ResultCodes
  BY FaultsType DEF RefuseUnreadable, Fault, NoFault, Return, ResultCodes
<1>1. CASE CreateRun
  <2> DEFINE doc == [state |-> "planning", replay_of |-> FALSE, finalized_at |-> 0]
  <2>1. doc \in ContentAt(RunPath)
    BY ContentOfPaths, BoundsAreNaturals DEF RunDocument, RunState
  <2>2. PICK o \in Outcome : /\ AtomicWrite(RunPath, doc, o)
                             /\ pc' = IF o = "ok" THEN "idle" ELSE "crashed"
                             /\ Return(ReturnCode(o))
    BY <1>1 DEF CreateRun
  <2> HIDE DEF doc
  <2>3. IsDirectory(files') /\ faults' \in 0..MaxFaults
    BY <2>1, <2>2, AtomicWriteType, PathsAreDistinct
  <2> QED BY <1>1, <2>2, <2>3
          DEF CreateRun, Return, ReturnCode, walk, reader, FinalizePhases
<1>2. ASSUME NEW s \in SettableStates, SetState(s) PROVE TypeOK'
  <2>1. CASE RefuseUnreadable
    BY <1>2, <2>1, <1>r, CallType DEF SetState
  <2>2. CASE RunReadable /\ ~RefuseUnreadable
    <3> DEFINE new == [files[RunPath] EXCEPT !.state = s,
                         !.finalized_at = IF s = "finalized" THEN attempt ELSE @]
    <3>1. new \in ContentAt(RunPath)
      BY <2>2, SetStateContent
    <3>2. \/ NoWrite /\ Return("frozen")
          \/ WriteJson(RunPath, new)
      BY <1>2, <2>2 DEF SetState
    <3> HIDE DEF new
    <3>3. IsDirectory(files') /\ faults' \in 0..MaxFaults /\ result' \in ResultCodes
      BY <3>1, <3>2, <1>0, WriteJsonType, WriteJsonIsAfter, PathsAreDistinct DEF Return, ResultCodes
    <3> QED BY <1>2, <3>3, CallType DEF SetState
  <2> QED BY <1>2, <2>1, <2>2 DEF SetState
<1>3. CASE SetReplayOf
  <2>1. CASE RefuseUnreadable
    BY <1>3, <2>1, <1>r, CallType DEF SetReplayOf
  <2>2. CASE RunReadable /\ ~RefuseUnreadable
    <3> DEFINE new == [files[RunPath] EXCEPT !.replay_of = TRUE]
    <3>1. new \in ContentAt(RunPath)
      BY <2>2, ReadableRun, ReplayUpdate, ContentOfPaths
    <3>2. \/ NoWrite /\ Return("frozen")
          \/ WriteJson(RunPath, new)
      BY <1>3, <2>2 DEF SetReplayOf
    <3> HIDE DEF new
    <3>3. IsDirectory(files') /\ faults' \in 0..MaxFaults /\ result' \in ResultCodes
      BY <3>1, <3>2, <1>0, WriteJsonType, WriteJsonIsAfter, PathsAreDistinct DEF Return, ResultCodes
    <3> QED BY <1>3, <3>3, CallType DEF SetReplayOf
  <2> QED BY <1>3, <2>1, <2>2 DEF SetReplayOf
<1>4. CASE WriteArtifact
  <2>1. [opaque |-> "artifact"] \in ContentAt(ArtifactPath)
    BY ContentOfPaths DEF Opaque
  <2> QED BY <1>4, <2>1, WriteJsonType, WriteJsonIsAfter, CallType, PathsAreDistinct DEF WriteArtifact
<1>5. ASSUME NEW plan \in Plans, WritePlan(plan) PROVE TypeOK'
  <2>1. plan \in ContentAt(PlanPath)
    BY ContentOfPaths, InputsAreContent
  <2> QED BY <1>5, <2>1, WriteJsonType, WriteJsonIsAfter, CallType, PathsAreDistinct DEF WritePlan
<1>6. ASSUME NEW claims \in ClaimSets, WriteClaims(claims) PROVE TypeOK'
  <2>1. claims \in ContentAt(ClaimsPath)
    BY ContentOfPaths, InputsAreContent
  <2> QED BY <1>6, <2>1, WriteJsonType, WriteJsonIsAfter, CallType, PathsAreDistinct DEF WriteClaims
<1>7. ASSUME NEW x \in Executions, AppendExecution(x) PROVE TypeOK'
  <2>1. ASSUME NEW old \in SUBSET Execution
        PROVE  [executions |-> old \cup {x}] \in ContentAt(ExecutionsPath)
    BY ContentOfPaths, InputsAreContent DEF ExecutionsDocument
  <2>2. CASE Unparseable(files[ExecutionsPath]) /\ NoWrite /\ Return("corrupt")
    BY <1>7, <2>2, <1>0, CallType DEF AppendExecution, Return, ResultCodes
  <2>3. CASE /\ files[ExecutionsPath] # Absent /\ ~Unparseable(files[ExecutionsPath])
             /\ WriteJson(ExecutionsPath,
                  [executions |-> files[ExecutionsPath].executions \cup {x}])
    <3>0. files[ExecutionsPath] \in ExecutionsDocument
      BY <2>3, ContentOfPaths, PathsAreDistinct DEF IsDirectory, Unparseable
    <3>1. files[ExecutionsPath].executions \in SUBSET Execution
      BY <3>0 DEF ExecutionsDocument
    <3> QED BY <1>7, <2>3, <3>1, <2>1, WriteJsonType, WriteJsonIsAfter, CallType, PathsAreDistinct
            DEF AppendExecution
  <2>4. CASE WriteJson(ExecutionsPath, [executions |-> {} \cup {x}])
    BY <1>7, <2>4, <2>1, WriteJsonType, WriteJsonIsAfter, CallType, PathsAreDistinct DEF AppendExecution
  <2>5. CASE WriteJsonAfter(1, ExecutionsPath, [executions |-> {} \cup {x}])
    BY <1>7, <2>5, <2>1, WriteJsonType, CallType, PathsAreDistinct DEF AppendExecution
  <2> QED BY <1>7, <2>2, <2>3, <2>4, <2>5 DEF AppendExecution
<1>8. CASE WriteText
  <2>1. [opaque |-> "report"] \in ContentAt(ReportPath)
    BY ContentOfPaths DEF Opaque
  <2>2. PICK o \in Outcome : /\ AtomicWrite(ReportPath, [opaque |-> "report"], o)
                             /\ Return(ReturnCode(o))
    BY <1>8 DEF WriteText
  <2> QED BY <1>8, <2>1, <2>2, AtomicWriteType, CallType, PathsAreDistinct
          DEF WriteText, Return, ReturnCode, ResultCodes
<1>9. ASSUME NEW doc \in Rewrites, WriteExecutions(doc) PROVE TypeOK'
  <2>1. doc \in ContentAt(ExecutionsPath)
    BY ContentOfPaths, InputsAreContent
  <2> QED BY <1>9, <2>1, WriteJsonType, WriteJsonIsAfter, CallType, PathsAreDistinct DEF WriteExecutions
<1> QED BY <1>1, <1>2, <1>3, <1>4, <1>5, <1>6, <1>7, <1>8, <1>9 DEF Writes

(* The steps of add_evidence keep the types.                               *)
LEMMA EvidenceStepsType ==
  ASSUME TypeOK, EvidenceSteps PROVE TypeOK'
<1> USE DEF TypeOK
<1>1. ASSUME NEW record \in Records, NEW e \in EvidenceIds, AddEvidence(e, record[e])
      PROVE  TypeOK'
  <2>1. record[e] \in Evidence
    BY InputsAreContent
  <2>2. record[e].attachments \subseteq Attachment
    BY <2>1 DEF Evidence
  <2>3. faults' \in 0..MaxFaults
    BY <1>1, FaultsType DEF AddEvidence, Fault, NoFault
  <2>4. CASE UNCHANGED <<pc, job>> /\ Return("corrupt")
    BY <1>1, <2>3, <2>4 DEF AddEvidence, Return, walk, reader, FinalizePhases
  <2>5. CASE /\ pc' = "attaching" /\ Return("ok")
             /\ job' = [id |-> e, record |-> record[e], left |-> record[e].attachments,
                        misled |-> files[e] # Absent]
    <3>1. job' \in [id : EvidenceIds, record : Evidence, left : SUBSET Attachment,
                    misled : BOOLEAN]
      BY <2>1, <2>2, <2>5
    <3> QED BY <1>1, <2>3, <2>5, <3>1
            DEF AddEvidence, Return, walk, reader, FinalizePhases
  <2> QED BY <1>1, <2>4, <2>5 DEF AddEvidence
<1>2. ASSUME NEW a \in Attachment, NEW supplied \in BOOLEAN, WriteAttachment(a, supplied)
      PROVE  TypeOK'
  <2> USE DEF WriteAttachment, Adding, walk, reader, FinalizePhases
  <2>0. pc = "attaching"
    BY <1>2
  <2>1. a.path \in Path /\ [bytes |-> a.payload] \in ContentAt(a.path)
    BY ContentOfPaths, PathsAreDistinct DEF Attachment, Payload
  <2>2. CASE ~supplied
    BY <1>2, <2>0, <2>2 DEF NoWrite, Return
  <2>3. ASSUME NEW o \in Outcome, AtomicWrite(a.path, [bytes |-> a.payload], o)
        PROVE  IsDirectory(files') /\ faults' \in 0..MaxFaults
    BY <2>1, <2>3, AtomicWriteType
  <2>4. CASE /\ AtomicWrite(a.path, [bytes |-> a.payload], "ok")
             /\ job' = [job EXCEPT !.left = @ \ {a}]
             /\ UNCHANGED <<pc, result>>
    <3>1. IsDirectory(files') /\ faults' \in 0..MaxFaults
      BY <2>4, <2>3 DEF Outcome
    <3>2. job' \in [id : EvidenceIds, record : Evidence, left : SUBSET Attachment,
                    misled : BOOLEAN]
      BY <2>0, <2>4
    <3> QED BY <1>2, <2>0, <2>4, <3>1, <3>2
  <2>5. CASE /\ \E o \in Outcome \ {"ok"} : AtomicWrite(a.path, [bytes |-> a.payload], o)
             /\ pc' = "idle" /\ job' = Absent /\ Return("io")
    <3>1. IsDirectory(files') /\ faults' \in 0..MaxFaults
      BY <2>5, <2>3
    <3> QED BY <1>2, <2>5, <3>1 DEF Return
  <2> QED BY <1>2, <2>2, <2>4, <2>5
<1>3. CASE WriteRecord
  <2>1. job.id \in Path /\ job.record \in ContentAt(job.id)
    BY <1>3, ContentOfPaths, PathsAreDistinct DEF WriteRecord, Adding
  <2>2. IsDirectory(files') /\ faults' \in 0..MaxFaults /\ result' \in ResultCodes
    BY <1>3, <2>1, WriteJsonType, WriteJsonIsAfter DEF WriteRecord
  <2> QED BY <1>3, <2>2
          DEF WriteRecord, Adding, walk, reader, FinalizePhases, ResultCodes
<1> QED BY <1>1, <1>2, <1>3 DEF EvidenceSteps

(* What finalize goes on with after the validation has been validated.     *)
SnapshotValidated ==
  pc \in FinalizePhases \ {"snapshotting"} => Consistent(snap) /\ ~IsFinalized(snap)

(* A directory that passes validation has a run document.                  *)
LEMMA ValidatedRun ==
  ASSUME NEW d, IsDirectory(d), Consistent(d) PROVE d[RunPath] \in RunDocument
BY ContentOfPaths, PathsAreDistinct
   DEF IsDirectory, Consistent, Deserializes, RequiredDocumentsPresent, Unparseable, Documents

(* What finalize writes to run.json is a finalized run document.           *)
LEMMA FinalizedDocumentType ==
  ASSUME TypeOK, Consistent(snap)
  PROVE  FinalizedDocument \in RunDocument /\ FinalizedDocument.state = "finalized"
<1>1. snap[RunPath] \in RunDocument /\ attempt \in 0..MaxFinalize
  BY ValidatedRun DEF TypeOK
<1> QED BY <1>1 DEF FinalizedDocument, RunDocument, RunState

(* The steps of finalize keep the types.                                   *)
LEMMA FinalizeType ==
  ASSUME TypeOK, SnapshotValidated, FinalizeStart \/ Finalize PROVE TypeOK'
<1> USE DEF TypeOK, FinalizePhases, walk, reader, bounds
<1>1. CASE FinalizeStart
  BY <1>1, NothingIsDirectory, BoundsAreNaturals
     DEF FinalizeStart, Return, Present
<1>2. ASSUME NEW p \in Path, CollectFile(p) PROVE TypeOK'
  <2>1. files[p] \in ContentAt(p) \cup Stray \cup {Absent}
    BY DEF IsDirectory
  <2>2. IsDirectory([seen EXCEPT ![p] = files[p]])
    BY <2>1, DirectoryUpdate
  <2> QED BY <1>2, <2>2 DEF CollectFile, Traversing
<1>3. ASSUME NEW p \in Path, CollectMissing(p) PROVE TypeOK'
  BY <1>3 DEF CollectMissing, Traversing
<1>4. CASE CollectFails
  <2>1. faults' \in 0..MaxFaults
    BY <1>4, FaultsType DEF CollectFails, Fault, NoFault
  <2> QED BY <1>4, <2>1, NothingIsDirectory
          DEF CollectFails, Traversing, ReturnFromTraversal, EndTraversal, Return
<1>5. CASE Validate
  BY <1>5, NothingIsDirectory, ZenonT(60)
     DEF Validate, ReturnFromTraversal, EndTraversal, Return, Present
<1>6. CASE Compare
  BY <1>6, NothingIsDirectory DEF Compare, ReturnFromTraversal, EndTraversal, Return
<1>7. CASE PublishRun
  <2>1. Consistent(snap)
    BY <1>7 DEF PublishRun, SnapshotValidated
  <2>2. FinalizedDocument \in ContentAt(RunPath)
    BY <2>1, FinalizedDocumentType, ContentOfPaths
  <2>3. PICK o \in Outcome : /\ AtomicWrite(RunPath, FinalizedDocument, o)
                             /\ pc' = IF o = "ok" THEN "manifesting" ELSE "restoring"
    BY <1>7 DEF PublishRun
  <2>4. IsDirectory(files') /\ faults' \in 0..MaxFaults
    BY <2>2, <2>3, AtomicWriteType, PathsAreDistinct
  <2> QED BY <1>7, <2>3, <2>4 DEF PublishRun
<1>8. CASE PublishManifest
  <2>1. Consistent(snap)
    BY <1>8 DEF PublishManifest, SnapshotValidated
  <2>2. IsDirectory(SealedFiles)
    BY <2>1, FinalizedDocumentType, ContentOfPaths, DirectoryUpdate, PathsAreDistinct
       DEF SealedFiles
  <2>3. faults' \in 0..MaxFaults
    BY <1>8, FaultsType DEF PublishManifest, Fault, NoFault
  <2>4. manifest' \in {SealedFiles, Absent, manifest}
    BY <1>8 DEF PublishManifest
  <2> QED BY <1>8, <2>2, <2>3, <2>4 DEF PublishManifest
<1>9. CASE ConfirmManifest
  <2>1. faults' \in 0..MaxFaults
    BY <1>9, FaultsType DEF ConfirmManifest, Fault, NoFault
  <2>2. manifest' \in {manifest, Absent}
    BY <1>9 DEF ConfirmManifest
  <2> QED BY <1>9, <2>1, <2>2 DEF ConfirmManifest, Return
<1>10. CASE RestoreRun
  <2>1. snap[RunPath] \in ContentAt(RunPath)
    BY <1>10, ValidatedRun, ContentOfPaths DEF RestoreRun, SnapshotValidated
  <2>2. PICK o \in Outcome : /\ AtomicWrite(RunPath, snap[RunPath], o)
                             /\ Return(IF o = "ok" THEN "rolled_back" ELSE "stuck")
    BY <1>10 DEF RestoreRun
  <2>3. IsDirectory(files') /\ faults' \in 0..MaxFaults
    BY <2>1, <2>2, AtomicWriteType, PathsAreDistinct
  <2> QED BY <1>10, <2>2, <2>3 DEF RestoreRun, Return
<1> QED BY <1>1, <1>2, <1>3, <1>4, <1>5, <1>6, <1>7, <1>8, <1>9, <1>10 DEF Finalize

(* A crash, a restart and a stray write keep the types.                    *)
LEMMA OtherType ==
  ASSUME TypeOK, Crash \/ Open \/ \E p \in Strayable : OutsideWrite(p) PROVE TypeOK'
<1> USE DEF TypeOK, FinalizePhases, walk, reader, bounds, owner
<1>1. CASE Crash
  <2>1. IsDirectory(files')
    <3>1. [opaque |-> "temp"] \in ContentAt(TempPath)
      BY ContentOfPaths DEF Opaque
    <3> QED BY <1>1, <3>1, DirectoryUpdate, PathsAreDistinct DEF Crash
  <2>2. crashes' \in 0..MaxCrashes
    BY <1>1, InputsAreContent DEF Crash
  <2> QED BY <1>1, <2>1, <2>2, NothingIsDirectory DEF Crash, EndTraversal
<1>2. CASE Open
  BY <1>2 DEF Open, Return
<1>3. ASSUME NEW p \in Strayable, OutsideWrite(p) PROVE TypeOK'
  <2>1. strays' \in 0..MaxStrays /\ strays + 1 \in 1..MaxStrays
    BY <1>3, BoundsAreNaturals DEF OutsideWrite
  <2>2. [stray |-> strays + 1] \in Stray
    BY <2>1 DEF Stray
  <2>3. p \in Path
    BY InputsAreContent
  <2>4. IsDirectory(files')
    BY <1>3, <2>2, <2>3, DirectoryUpdate, SMTT(30) DEF OutsideWrite
  <2> QED BY <1>3, <2>1, <2>4 DEF OutsideWrite
<1> QED BY <1>1, <1>2, <1>3

(* The steps of verify_integrity keep the types.                           *)
LEMMA VerifyType ==
  ASSUME TypeOK, VerifyStart \/ Verify PROVE TypeOK'
<1> USE NothingIsDirectory
    DEF TypeOK, FinalizePhases, Verifying, walk, bounds, owner, Conclude, Reject, Present
<1>1. CASE VerifyStart
  BY <1>1 DEF VerifyStart
<1>2. ASSUME NEW p \in Path, VerifyFile(p) PROVE TypeOK'
  BY <1>2 DEF VerifyFile
<1>3. CASE VerifyRunDocument
  <2>1. CASE Reject /\ UNCHANGED rheld
    BY <1>3, <2>1 DEF VerifyRunDocument
  <2>2. CASE rpc' = "present_files"
    <3>1. rheld' \in BOOLEAN
      BY <1>3, <2>2, Zenon DEF VerifyRunDocument
    <3> QED BY <1>3, <2>2, <3>1, ZenonT(60) DEF VerifyRunDocument
  <2> QED BY <1>3, <2>1, <2>2 DEF VerifyRunDocument
<1>4. ASSUME NEW p \in Path, VerifyPresent(p) PROVE TypeOK'
  <2>1. files[p] \in ContentAt(p) \cup Stray \cup {Absent}
    BY DEF IsDirectory
  <2>2. IsDirectory([rseen EXCEPT ![p] = files[p]])
    BY <2>1, DirectoryUpdate
  <2> QED BY <1>4, <2>2 DEF VerifyPresent
<1>5. CASE VerifyAdditions
  BY <1>5 DEF VerifyAdditions
<1>6. CASE VerifyManifestAgain
  BY <1>6 DEF VerifyManifestAgain
<1> QED BY <1>1, <1>2, <1>3, <1>4, <1>5, <1>6 DEF Verify

-----------------------------------------------------------------------------
(* The inductive invariant.                                                *)

(* While bundle.json is written run.json says finalized, or some other     *)
(* process made it unreadable.                                             *)
PublishedLooksFinal ==
  pc \in {"manifesting", "confirming"} => RunLooksSealed(files)

NoManifestBeforeRun == pc = "absent" => manifest = Absent

ReaderHoldsSeal ==
  /\ rpc # "idle" => rman # Absent /\ rresult = "none"
  /\ rresult = "ok" => rman # Absent

Inv == /\ TypeOK
       /\ SnapshotValidated
       /\ NoManifestBeforeRun
       /\ PublishedLooksFinal
       /\ SealedWasConsistent
       /\ ReaderHoldsSeal

(* The invariant holds before the run is created.                          *)
LEMMA InitInv == Init => Inv
<1> SUFFICES ASSUME Init PROVE Inv
  OBVIOUS
<1>1. TypeOK
  BY InitType
<1>2. /\ SnapshotValidated /\ NoManifestBeforeRun /\ PublishedLooksFinal
      /\ SealedWasConsistent /\ ReaderHoldsSeal
  BY DEF Init, SnapshotValidated, FinalizePhases, NoManifestBeforeRun,
         PublishedLooksFinal, SealedWasConsistent, ReaderHoldsSeal
<1> QED BY <1>1, <1>2 DEF Inv

(* Sealing only changes the state of the run, so the sealed directory is   *)
(* as consistent as the validated one.                                     *)
LEMMA SealingKeepsConsistency ==
  ASSUME NEW d, IsDirectory(d), Consistent(d), NEW r \in RunDocument
  PROVE  Consistent([d EXCEPT ![RunPath] = r])
<1> DEFINE s == [d EXCEPT ![RunPath] = r]
<1>1. \A p \in Path \ {RunPath} : s[p] = d[p]
  BY DEF IsDirectory
<1>2. s[RunPath] = r /\ r \notin Stray /\ r # Absent
  BY RunDocumentIsNotStray, PathsAreDistinct DEF IsDirectory
<1>3. RunPath \notin {ArtifactPath, PlanPath, ClaimsPath, ExecutionsPath}
                    \cup EvidenceIds \cup Attachments
  BY PathsDisjoint DEF RunPath, ArtifactPath, PlanPath, ClaimsPath, ExecutionsPath, Documents
<1> HIDE DEF s
<1>4. Deserializes(s)
  BY <1>1, <1>2, PathsAreDistinct
     DEF Consistent, Deserializes, Unparseable, Documents, Path
<1>5. RequiredDocumentsPresent(s)
  BY <1>1, <1>2, <1>3, PathsAreDistinct DEF Consistent, RequiredDocumentsPresent
<1>6. /\ s[PlanPath] = d[PlanPath] /\ s[ClaimsPath] = d[ClaimsPath]
      /\ s[ExecutionsPath] = d[ExecutionsPath]
      /\ \A p \in EvidenceIds \cup Attachments : s[p] = d[p]
  BY <1>1, <1>3, PathsAreDistinct
<1>7. RecordedEvidence(s) = RecordedEvidence(d)
  BY <1>6, PathsAreDistinct DEF RecordedEvidence, Present
<1>8. AttachmentsIntact(s)
  <2> SUFFICES ASSUME NEW e \in RecordedEvidence(s), NEW a \in s[e].attachments
               PROVE  s[a.path] = [bytes |-> a.payload]
    BY DEF AttachmentsIntact
  <2>1. e \in RecordedEvidence(d) /\ s[e] = d[e] /\ e \in EvidenceIds
    BY <1>6, <1>7 DEF RecordedEvidence
  <2>2. d[e] \in Evidence
    BY <2>1, ContentOfPaths, PathsAreDistinct
       DEF IsDirectory, RecordedEvidence, Present, Consistent, Deserializes, Unparseable
  <2>3. a.path \in Attachments
    BY <2>1, <2>2 DEF Evidence, Attachment
  <2>4. d[a.path] = [bytes |-> a.payload]
    BY <2>1 DEF Consistent, AttachmentsIntact
  <2> QED BY <2>3, <2>4, <1>6
<1>9. ClaimReferencesResolve(s) /\ s[PlanPath].sound
  BY <1>6 DEF ClaimReferencesResolve, Consistent
<1>10. ExecutionReferencesResolve(s)
  BY <1>6, <1>7 DEF ExecutionReferencesResolve, RecordedExecutions, Consistent
<1>11. DerivationsResolve(s)
  BY <1>6, <1>7 DEF DerivationsResolve, RecordedEvidence, Consistent
<1>12. Consistent(s)
  BY <1>4, <1>5, <1>8, <1>9, <1>10, <1>11 DEF Consistent
<1> QED BY <1>12 DEF s

-----------------------------------------------------------------------------
(* What the steps do to run.json and to the variables of the invariant.    *)

(* The one-step calls touch neither the seal nor the snapshot of finalize. *)
LEMMA WritesFrame ==
  ASSUME Writes
  PROVE  /\ UNCHANGED <<manifest, snap, reader>>
         /\ pc \in {"absent", "idle"} /\ pc' \in {"idle", "crashed"}
<1>1. CASE CreateRun
  BY <1>1 DEF CreateRun
<1>2. CASE Call
  BY <1>2 DEF Call
<1> QED BY <1>1, <1>2 DEF Writes, SetState, SetReplayOf, WriteArtifact, WritePlan,
       WriteClaims, AppendExecution, WriteExecutions, WriteText

(* add_evidence touches neither the seal nor the snapshot of finalize.     *)
LEMMA EvidenceFrame ==
  ASSUME EvidenceSteps
  PROVE  /\ UNCHANGED <<manifest, snap, reader>>
         /\ pc \in {"idle", "attaching"} /\ pc' \in {"idle", "attaching"}
BY DEF EvidenceSteps, AddEvidence, WriteAttachment, WriteRecord, Adding

(* An atomic_write elsewhere leaves run.json alone.                        *)
LEMMA OtherPathsKeepRun ==
  ASSUME IsDirectory(files), NEW p \in Path \ {RunPath}, NEW c, NEW o,
         AtomicWrite(p, c, o)
  PROVE  files'[RunPath] = files[RunPath]
BY PathsAreDistinct DEF AtomicWrite, AtomicWriteAfter, IsDirectory

(* A write_json elsewhere leaves run.json alone.                           *)
LEMMA OtherDocumentsKeepRun ==
  ASSUME IsDirectory(files), NEW n, NEW p \in Path \ {RunPath}, NEW c, WriteJsonAfter(n, p, c)
  PROVE  files'[RunPath] = files[RunPath]
BY PathsAreDistinct DEF WriteJsonAfter, AtomicWriteAfter, IsDirectory

(* run.json is none of the other paths.                                    *)
LEMMA RunIsNoOtherPath ==
  RunPath \notin {ArtifactPath, PlanPath, ClaimsPath, ExecutionsPath, ReportPath, TempPath}
                \cup EvidenceIds \cup Attachments
BY PathsDisjoint
   DEF RunPath, ArtifactPath, PlanPath, ClaimsPath, ExecutionsPath, ReportPath, TempPath, Documents

(* A document written over run.json that says finalized, or the loss of    *)
(* the file, leaves a run that looks sealed.                               *)
LEMMA WriteRunLooksSealed ==
  ASSUME IsDirectory(files), RunLooksSealed(files), NEW c \in RunDocument,
         c.state = "finalized", WriteJson(RunPath, c)
  PROVE  RunLooksSealed(files')
<1>1. c \notin Stray /\ c # Absent
  BY RunDocumentIsNotStray
<1>2. CASE UNCHANGED files
  BY <1>2
<1>3. ASSUME NEW n, NEW o \in Outcome, AtomicWriteAfter(n, RunPath, c, o)
      PROVE  RunLooksSealed(files')
  <2>1. files'[RunPath] \in {c, files[RunPath], Absent}
    BY <1>3, AtomicWriteFiles, PathsAreDistinct DEF IsDirectory
  <2> QED BY <1>1, <2>1 DEF RunLooksSealed, IsFinalized
<1> QED BY <1>2, <1>3 DEF WriteJson, WriteJsonAfter

(* The one-step calls keep a run that looks sealed looking sealed.         *)
LEMMA WritesKeepLooks ==
  ASSUME TypeOK, pc # "absent", RunLooksSealed(files), Writes
  PROVE  RunLooksSealed(files')
<1>0. IsDirectory(files) /\ IsDirectory(files')
  BY WritesType DEF TypeOK
<1>1. SUFFICES ASSUME files'[RunPath] # files[RunPath] PROVE RunLooksSealed(files')
  BY DEF RunLooksSealed, IsFinalized
<1>2. ASSUME NEW s \in SettableStates, SetState(s) PROVE RunLooksSealed(files')
  <2> DEFINE date == IF s = "finalized" THEN attempt ELSE files[RunPath].finalized_at
             new == [files[RunPath] EXCEPT !.state = s, !.finalized_at = date]
  <2>1. RunReadable
    BY <1>1, <1>2 DEF SetState, RefuseUnreadable
  <2>2. IsFinalized(files) /\ files[RunPath] \in RunDocument
    BY <2>1, <1>0, ReadableRun DEF RunLooksSealed, RunReadable, Unparseable
  <2>3. s = "finalized"
    BY <1>1, <1>2, <2>1, <2>2 DEF SetState, RefuseUnreadable, NoWrite
  <2>4. WriteJson(RunPath, [files[RunPath] EXCEPT !.state = s,
                             !.finalized_at = IF s = "finalized" THEN attempt ELSE @])
    BY <1>1, <1>2, <2>1, <2>3 DEF SetState, RefuseUnreadable
  <2>5. new = [files[RunPath] EXCEPT !.state = s,
                             !.finalized_at = IF s = "finalized" THEN attempt ELSE @]
    BY <2>2 DEF RunDocument
  <2>6. new \in RunDocument /\ new.state = "finalized"
    BY <2>2, <2>3 DEF RunDocument, RunState, TypeOK
  <2> HIDE DEF new
  <2>7. WriteJson(RunPath, new)
    BY <2>4, <2>5
  <2> QED BY <1>0, <2>6, <2>7, WriteRunLooksSealed
<1>3. CASE SetReplayOf
  <2>1. RunReadable /\ ~IsFinalized(files)
    BY <1>1, <1>3 DEF SetReplayOf, RefuseUnreadable, NoWrite
  <2> QED BY <2>1 DEF RunLooksSealed, RunReadable, Unparseable
<1>4. CASE \/ WriteArtifact
           \/ \E plan \in Plans : WritePlan(plan)
           \/ \E claims \in ClaimSets : WriteClaims(claims)
           \/ \E doc \in Rewrites : WriteExecutions(doc)
  <2>1. \E n : \E p \in Path \ {RunPath} : \E c : WriteJsonAfter(n, p, c)
    BY <1>4, PathsAreDistinct, RunIsNoOtherPath
       DEF WriteArtifact, WritePlan, WriteClaims, WriteExecutions, WriteJson
  <2> QED BY <1>0, <1>1, <2>1, OtherDocumentsKeepRun
<1>5. ASSUME NEW x \in Executions, AppendExecution(x) PROVE RunLooksSealed(files')
  <2>1. \/ \E n : \E p \in Path \ {RunPath} : \E c : WriteJsonAfter(n, p, c)
        \/ files'[RunPath] = files[RunPath]
    BY <1>0, <1>5, PathsAreDistinct, RunIsNoOtherPath DEF AppendExecution, WriteJson, NoWrite
  <2> QED BY <1>0, <1>1, <2>1, OtherDocumentsKeepRun
<1>6. CASE WriteText
  BY <1>0, <1>1, <1>6, OtherPathsKeepRun, PathsAreDistinct, RunIsNoOtherPath DEF WriteText
<1>7. ~CreateRun
  BY DEF CreateRun
<1> QED BY <1>2, <1>3, <1>4, <1>5, <1>6, <1>7 DEF Writes

(* add_evidence leaves run.json alone.                                     *)
LEMMA EvidenceKeepsRun ==
  ASSUME TypeOK, EvidenceSteps PROVE files'[RunPath] = files[RunPath]
<1>1. ASSUME NEW a \in Attachment, NEW supplied \in BOOLEAN, WriteAttachment(a, supplied)
      PROVE  files'[RunPath] = files[RunPath]
  <2>1. a.path \in Path \ {RunPath}
    BY PathsAreDistinct, RunIsNoOtherPath DEF Attachment
  <2> QED BY <1>1, <2>1, OtherPathsKeepRun DEF WriteAttachment, NoWrite, TypeOK
<1>2. CASE WriteRecord
  <2>1. job.id \in Path \ {RunPath}
    BY <1>2, PathsAreDistinct, RunIsNoOtherPath DEF WriteRecord, Adding, TypeOK
  <2> QED BY <1>2, <2>1, OtherDocumentsKeepRun DEF WriteRecord, WriteJson, TypeOK
<1> QED BY <1>1, <1>2 DEF EvidenceSteps, AddEvidence

(* A crash, a restart and a stray write keep a run that looks sealed so.   *)
LEMMA OtherKeepsLooks ==
  ASSUME TypeOK, RunLooksSealed(files), Crash \/ Open \/ \E p \in Strayable : OutsideWrite(p)
  PROVE  RunLooksSealed(files')
<1>1. CASE Crash
  BY <1>1, RunIsNoOtherPath, PathsAreDistinct DEF Crash, RunLooksSealed, IsFinalized, TypeOK, IsDirectory
<1>2. CASE Open
  BY <1>2 DEF Open
<1>3. ASSUME NEW p \in Strayable, OutsideWrite(p) PROVE RunLooksSealed(files')
  <2>1. [stray |-> strays + 1] \in Stray
    BY <1>3, BoundsAreNaturals DEF OutsideWrite, Stray, TypeOK
  <2>2. files'[RunPath] \in {files[RunPath], Absent} \cup Stray
    BY <1>3, <2>1, PathsAreDistinct DEF OutsideWrite, TypeOK, IsDirectory
  <2> QED BY <2>2 DEF RunLooksSealed, IsFinalized
<1> QED BY <1>1, <1>2, <1>3

(* Every step keeps the types.                                             *)
LEMMA TypeStep ==
  ASSUME TypeOK, SnapshotValidated, Next PROVE TypeOK'
<1>1. CASE Writes
  BY <1>1, WritesType
<1>2. CASE EvidenceSteps
  BY <1>2, EvidenceStepsType
<1>3. CASE FinalizeStart \/ Finalize
  BY <1>3, FinalizeType
<1>4. CASE Crash \/ Open \/ \E p \in Strayable : OutsideWrite(p)
  BY <1>4, OtherType
<1>5. CASE VerifyStart \/ Verify
  BY <1>5, VerifyType
<1> QED BY <1>1, <1>2, <1>3, <1>4, <1>5 DEF Next

(* The steps of finalize that write nothing.                               *)
LEMMA TraversalInv ==
  ASSUME Inv,
         \/ FinalizeStart \/ CollectFails \/ Validate \/ Compare
         \/ \E p \in Path : CollectFile(p) \/ CollectMissing(p)
  PROVE  /\ SnapshotValidated' /\ NoManifestBeforeRun' /\ PublishedLooksFinal'
         /\ SealedWasConsistent' /\ ReaderHoldsSeal'
<1> USE DEF Inv, SnapshotValidated, NoManifestBeforeRun, PublishedLooksFinal,
            FinalizePhases, walk, reader, bounds
<1>1. UNCHANGED <<files, manifest, reader>>
  BY DEF FinalizeStart, CollectFails, Validate, Compare, CollectFile, CollectMissing
<1>2. SealedWasConsistent' /\ ReaderHoldsSeal' /\ RunLooksSealed(files)' = RunLooksSealed(files)
  BY <1>1 DEF SealedWasConsistent, ReaderHoldsSeal
<1>3. CASE FinalizeStart
  BY <1>1, <1>2, <1>3 DEF FinalizeStart
<1>4. ASSUME NEW p \in Path, CollectFile(p) \/ CollectMissing(p)
      PROVE  UNCHANGED <<pc, snap>>
  BY <1>4 DEF CollectFile, CollectMissing
<1>5. CASE CollectFails
  BY <1>1, <1>2, <1>5 DEF CollectFails, Traversing, ReturnFromTraversal
<1>6. CASE Validate
  BY <1>1, <1>2, <1>6 DEF Validate, ReturnFromTraversal
<1>7. CASE Compare
  BY <1>1, <1>2, <1>7 DEF Compare, ReturnFromTraversal
<1> QED BY <1>1, <1>2, <1>3, <1>4, <1>5, <1>6, <1>7

(* The two writes of finalize and their rollback keep the invariant.       *)
LEMMA PublishInv ==
  ASSUME Inv, PublishRun \/ PublishManifest \/ ConfirmManifest \/ RestoreRun
  PROVE  /\ SnapshotValidated' /\ NoManifestBeforeRun' /\ PublishedLooksFinal'
         /\ SealedWasConsistent' /\ ReaderHoldsSeal'
<1> USE DEF Inv, SnapshotValidated, NoManifestBeforeRun, PublishedLooksFinal,
            FinalizePhases, walk, reader
<1>1. UNCHANGED <<snap, reader>> /\ Consistent(snap) /\ ~IsFinalized(snap)
  BY DEF PublishRun, PublishManifest, ConfirmManifest, RestoreRun
<1>2. FinalizedDocument \in RunDocument /\ FinalizedDocument.state = "finalized"
  BY <1>1, FinalizedDocumentType
<1>3. FinalizedDocument \notin Stray /\ FinalizedDocument # Absent
  BY <1>2, RunDocumentIsNotStray
<1>4. CASE PublishRun
  <2>1. manifest' = manifest /\ pc' # "absent"
    BY <1>4 DEF PublishRun
  <2>2. PICK o \in Outcome : /\ AtomicWrite(RunPath, FinalizedDocument, o)
                             /\ pc' = IF o = "ok" THEN "manifesting" ELSE "restoring"
    BY <1>4 DEF PublishRun
  <2>3. o = "ok" => files'[RunPath] = FinalizedDocument
    BY <2>2, AtomicWriteFiles, PathsAreDistinct DEF AtomicWrite, TypeOK, IsDirectory
  <2>4. pc' = "manifesting" => RunLooksSealed(files')
    BY <1>2, <1>3, <2>2, <2>3 DEF RunLooksSealed, IsFinalized
  <2> QED BY <1>1, <2>1, <2>2, <2>4 DEF SealedWasConsistent, ReaderHoldsSeal
<1>5. CASE PublishManifest
  <2>1. RunLooksSealed(files) /\ UNCHANGED files /\ pc' \in {"confirming", "restoring"}
    BY <1>5 DEF PublishManifest
  <2>2. RunLooksSealed(files')
    BY <2>1
  <2>3. Consistent(SealedFiles)
    BY <1>1, <1>2, SealingKeepsConsistency DEF SealedFiles, TypeOK
  <2>4. IsFinalized(SealedFiles)
    <3>1. SealedFiles[RunPath] = FinalizedDocument
      BY PathsAreDistinct DEF SealedFiles, TypeOK, IsDirectory
    <3> QED BY <1>2, <1>3, <3>1 DEF IsFinalized
  <2>5. manifest' \in {SealedFiles, Absent, manifest}
    BY <1>5 DEF PublishManifest
  <2>6. ReaderHoldsSeal' /\ SealedWasConsistent'
    BY <1>1, <2>3, <2>4, <2>5 DEF ReaderHoldsSeal, SealedWasConsistent
  <2> QED BY <1>1, <2>1, <2>2, <2>6
<1>6. CASE ConfirmManifest
  <2>1. manifest' \in {manifest, Absent} /\ pc' \in {"idle", "restoring"}
    BY <1>6 DEF ConfirmManifest
  <2> QED BY <1>1, <2>1 DEF SealedWasConsistent, ReaderHoldsSeal
<1>7. CASE RestoreRun
  <2>1. manifest' = manifest /\ pc' = "idle"
    BY <1>7 DEF RestoreRun
  <2> QED BY <1>1, <2>1 DEF SealedWasConsistent, ReaderHoldsSeal
<1> QED BY <1>4, <1>5, <1>6, <1>7

(* The steps of verify_integrity keep the invariant.                       *)
LEMMA ReaderInv ==
  ASSUME Inv, VerifyStart \/ Verify
  PROVE  /\ SnapshotValidated' /\ NoManifestBeforeRun' /\ PublishedLooksFinal'
         /\ SealedWasConsistent' /\ ReaderHoldsSeal'
<1>1. UNCHANGED <<files, manifest, pc, snap>>
  BY DEF VerifyStart, Verify, VerifyFile, VerifyRunDocument, VerifyPresent,
         VerifyAdditions, VerifyManifestAgain, Verifying, owner
<1>2. /\ SnapshotValidated' /\ NoManifestBeforeRun' /\ PublishedLooksFinal'
      /\ SealedWasConsistent'
  BY <1>1 DEF Inv, SnapshotValidated, NoManifestBeforeRun, PublishedLooksFinal,
              SealedWasConsistent, RunLooksSealed
<1>3. ReaderHoldsSeal'
  <2> USE DEF Inv, ReaderHoldsSeal, Conclude, Reject
  <2>1. CASE VerifyStart
    BY <2>1 DEF VerifyStart
  <2>2. ASSUME NEW p \in Path, VerifyFile(p) \/ VerifyPresent(p) PROVE ReaderHoldsSeal'
    BY <2>2 DEF VerifyFile, VerifyPresent
  <2>3. CASE VerifyRunDocument
    BY <2>3 DEF VerifyRunDocument
  <2>4. CASE VerifyAdditions
    BY <2>4 DEF VerifyAdditions
  <2>5. CASE VerifyManifestAgain
    BY <2>5 DEF VerifyManifestAgain
  <2> QED BY <2>1, <2>2, <2>3, <2>4, <2>5 DEF Verify
<1> QED BY <1>2, <1>3

(* Every step keeps the invariant.                                         *)
LEMMA StepInv == Inv /\ [Next]_vars => Inv'
<1> SUFFICES ASSUME Inv, [Next]_vars PROVE Inv'
  OBVIOUS
<1>1. CASE UNCHANGED vars
  <2>1. TypeOK'
    BY <1>1 DEF Inv, TypeOK, vars, owner, reader, walk, bounds, FinalizePhases
  <2> QED BY <1>1, <2>1
          DEF Inv, SnapshotValidated, NoManifestBeforeRun, PublishedLooksFinal,
              SealedWasConsistent, ReaderHoldsSeal, vars, owner, reader
<1>2. CASE Next
  <2> USE DEF Inv
  <2>1. TypeOK'
    BY <1>2, TypeStep
  <2>2. ASSUME UNCHANGED <<manifest, snap, reader>>, pc' \notin FinalizePhases, pc' # "absent"
        PROVE  Inv'
    BY <2>1, <2>2
       DEF SnapshotValidated, NoManifestBeforeRun, PublishedLooksFinal,
           SealedWasConsistent, ReaderHoldsSeal, FinalizePhases, reader
  <2>3. CASE Writes
    BY <2>2, <2>3, WritesFrame DEF FinalizePhases
  <2>4. CASE EvidenceSteps
    BY <2>2, <2>4, EvidenceFrame DEF FinalizePhases
  <2>5. CASE FinalizeStart \/ Finalize
    BY <2>1, <2>5, TraversalInv, PublishInv DEF Finalize
  <2>6. CASE Crash \/ Open
    BY <2>2, <2>6 DEF Crash, Open, FinalizePhases, reader
  <2>7. CASE \E p \in Strayable : OutsideWrite(p)
    <3>1. UNCHANGED <<manifest, pc, snap, reader>>
      BY <2>7 DEF OutsideWrite, owner
    <3>2. RunLooksSealed(files) => RunLooksSealed(files')
      BY <2>7, OtherKeepsLooks
    <3> QED BY <2>1, <3>1, <3>2
            DEF SnapshotValidated, NoManifestBeforeRun, PublishedLooksFinal,
                SealedWasConsistent, ReaderHoldsSeal, reader
  <2>8. CASE VerifyStart \/ Verify
    BY <2>1, <2>8, ReaderInv
  <2> QED BY <1>2, <2>3, <2>4, <2>5, <2>6, <2>7, <2>8 DEF Next
<1> QED BY <1>1, <1>2

(* The inductive invariant holds in every reachable state.                 *)
THEOREM InvHolds == Spec => []Inv
BY InitInv, StepInv, PTL DEF Spec

(* Every variable always holds what its reader in the source could have    *)
(* read, whatever the other processes leave in the directory.              *)
THEOREM TypeCorrect == Spec => []TypeOK
BY InvHolds, PTL DEF Inv

(* bundle.json never lists a directory that finalize would refuse, for     *)
(* any number of stray writes, failures and deaths of the owner.           *)
THEOREM SealingIsSound == Spec => []SealedWasConsistent
BY InvHolds, PTL DEF Inv

-----------------------------------------------------------------------------
(* The store implements SealedRun.                                         *)

(* An initial state of the store is one of the abstract run.               *)
LEMMA InitRefines == Init => Abstract!Init
BY DEF Init, Abstract!Init

Acknowledged ==
  manifest # Absent /\ pc \notin FinalizePhases /\ RunLooksSealed(files)

(* A step that leaves bundle.json and the reader alone, and takes no seal  *)
(* back that was acknowledged, acknowledges one or is none.                *)
LEMMA AcknowledgeStep ==
  ASSUME UNCHANGED <<manifest, rman, rresult>>, Acknowledged => Acknowledged'
  PROVE  [Abstract!Next]_(Abstract!vars)
<1> USE DEF Abstract!vars
<1>1. CASE Acknowledged' = Acknowledged
  BY <1>1 DEF Acknowledged
<1>2. CASE ~Acknowledged /\ Acknowledged'
  <2>1. Abstract!Acknowledge
    BY <1>2 DEF Acknowledged, Abstract!Acknowledge
  <2> QED BY <2>1 DEF Abstract!Next
<1>3. Acknowledged \in BOOLEAN /\ Acknowledged' \in BOOLEAN
  BY DEF Acknowledged
<1> QED BY <1>1, <1>2, <1>3

(* Every step of the store is a step of the abstract run, or none.         *)
LEMMA StepRefines ==
  Inv /\ Inv' /\ [Next]_vars => [Abstract!Next]_(Abstract!vars)
<1> SUFFICES ASSUME Inv, Inv', [Next]_vars PROVE [Abstract!Next]_(Abstract!vars)
  OBVIOUS
<1>1. CASE UNCHANGED vars
  BY <1>1, AcknowledgeStep
     DEF Acknowledged, RunLooksSealed, IsFinalized, vars, owner, reader
<1>2. TypeOK /\ (pc = "absent" => manifest = Absent)
  BY DEF Inv, NoManifestBeforeRun
<1>3. CASE Writes
  <2>1. UNCHANGED <<manifest, rman, rresult>>
    BY <1>3, WritesFrame DEF reader
  <2>2. Acknowledged => Acknowledged'
    BY <1>2, <1>3, WritesFrame, WritesKeepLooks DEF Acknowledged, FinalizePhases
  <2> QED BY <2>1, <2>2, AcknowledgeStep
<1>4. CASE EvidenceSteps
  <2>1. UNCHANGED <<manifest, rman, rresult>>
    BY <1>4, EvidenceFrame DEF reader
  <2>2. Acknowledged => Acknowledged'
    BY <1>2, <1>4, EvidenceFrame, EvidenceKeepsRun
       DEF Acknowledged, RunLooksSealed, IsFinalized, FinalizePhases
  <2> QED BY <2>1, <2>2, AcknowledgeStep
<1>5. CASE FinalizeStart
  <2>1. UNCHANGED <<files, manifest, rman, rresult>>
    BY <1>5 DEF FinalizeStart, reader
  <2>2. pc' = pc \/ (RunReadable /\ ~IsFinalized(files))
    BY <1>5 DEF FinalizeStart
  <2>3. RunReadable /\ ~IsFinalized(files) => ~RunLooksSealed(files)
    BY DEF RunReadable, RunLooksSealed, Unparseable
  <2>4. Acknowledged => Acknowledged'
    BY <2>1, <2>2, <2>3 DEF Acknowledged, RunLooksSealed, IsFinalized
  <2> QED BY <2>1, <2>4, AcknowledgeStep
<1>6. CASE \/ CollectFails \/ Validate \/ Compare \/ PublishRun \/ RestoreRun
           \/ \E p \in Path : CollectFile(p) \/ CollectMissing(p)
  <2>1. UNCHANGED <<manifest, rman, rresult>> /\ pc \in FinalizePhases
    BY <1>6 DEF CollectFails, Validate, Compare, PublishRun, RestoreRun, CollectFile,
       CollectMissing, Traversing, reader, FinalizePhases
  <2> QED BY <2>1, AcknowledgeStep DEF Acknowledged
<1>7. CASE PublishManifest \/ ConfirmManifest
  <2>1. UNCHANGED <<rman, rresult>> /\ pc \in {"manifesting", "confirming"} /\ ~Acknowledged
    BY <1>7 DEF PublishManifest, ConfirmManifest, reader, Acknowledged, FinalizePhases
  <2>2. CASE manifest' = manifest
    BY <2>1, <2>2, AcknowledgeStep
  <2>3. CASE manifest' # manifest
    <3>1. pc' \in FinalizePhases
      BY <1>7, <2>3 DEF PublishManifest, ConfirmManifest, FinalizePhases
    <3>2. ~Acknowledged'
      BY <3>1 DEF Acknowledged
    <3>3. CASE manifest' = Absent
      <4>1. Abstract!Withdraw
        BY <2>1, <2>3, <3>2, <3>3 DEF Abstract!Withdraw, Acknowledged
      <4> QED BY <4>1 DEF Abstract!Next
    <3>4. CASE manifest' # Absent
      <4>1. Consistent(manifest')
        BY <3>4 DEF Inv, SealedWasConsistent
      <4>2. Abstract!Seal
        BY <2>1, <3>2, <3>4, <4>1 DEF Abstract!Seal, Acknowledged
      <4> QED BY <4>2 DEF Abstract!Next
    <3> QED BY <3>3, <3>4
  <2> QED BY <2>2, <2>3
<1>8. CASE Crash \/ Open \/ \E p \in Strayable : OutsideWrite(p)
  <2>1. UNCHANGED <<manifest, rman, rresult>> /\ (pc' \in FinalizePhases => pc \in FinalizePhases)
    BY <1>8 DEF Crash, Open, OutsideWrite, owner, reader, FinalizePhases
  <2>2. Acknowledged => Acknowledged'
    BY <1>2, <1>8, <2>1, OtherKeepsLooks DEF Acknowledged
  <2> QED BY <2>1, <2>2, AcknowledgeStep
<1>9. CASE VerifyStart \/ Verify
  <2>1. UNCHANGED <<files, manifest, pc>>
    BY <1>9 DEF VerifyStart, Verify, VerifyFile, VerifyRunDocument, VerifyPresent,
                VerifyAdditions, VerifyManifestAgain, Verifying, owner
  <2>2. Acknowledged' = Acknowledged
    BY <2>1 DEF Acknowledged, RunLooksSealed, IsFinalized
  <2>3. CASE rresult' # "ok"
    <3>1. Abstract!Refuse
      BY <2>1, <2>2, <2>3 DEF Abstract!Refuse, Acknowledged
    <3> QED BY <3>1 DEF Abstract!Next
  <2>4. CASE rresult' = "ok"
    <3>1. VerifyManifestAgain
      BY <1>9, <2>4
         DEF Inv, ReaderHoldsSeal, VerifyStart, Verify, VerifyFile, VerifyRunDocument,
             VerifyPresent, VerifyAdditions, Conclude, Reject
    <3>2. rman' = manifest /\ manifest # Absent
      BY <2>4, <3>1 DEF VerifyManifestAgain, Conclude, Reject, Inv, ReaderHoldsSeal
    <3>3. Abstract!Accept
      BY <2>1, <2>2, <2>4, <3>2 DEF Abstract!Accept, Acknowledged
    <3> QED BY <3>3 DEF Abstract!Next
  <2> QED BY <2>3, <2>4
<1> QED BY <1>1, <1>3, <1>4, <1>5, <1>6, <1>7, <1>8, <1>9 DEF Next, Finalize

(* For any bounds the store implements the abstract run: one content is    *)
(* sealed, validated, withdrawn or replaced only before it is              *)
(* acknowledged, and what a verification returns is the seal of that       *)
(* moment.                                                                 *)
THEOREM StoreImplementsSealedRun == Spec => ImplementsSealedRun
BY InvHolds, InitRefines, StepRefines, PTL DEF Spec, ImplementsSealedRun, Abstract!Spec

=============================================================================
