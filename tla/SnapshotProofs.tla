--------------------------- MODULE SnapshotProofs ---------------------------
(***************************************************************************)
(* More about EvidenceStore, for every value of its constants: what the    *)
(* owner's calls never change, and that the two traversals of finalize     *)
(* see the directory as it was at one instant.                             *)
(***************************************************************************)
EXTENDS EvidenceStoreProofs

(* A step of the owner writes at most one path, content of the kind that   *)
(* belongs there; a sealed document only when an operation fails or when   *)
(* finalize writes run.json; a record only at the end of its add_evidence; *)
(* the temporary only when the owner dies.                                 *)
MayWrite(p) == ~IsSealed(p) \/ faults' # faults \/ (p = RunPath /\ pc \in FinalizePhases)

Touches(p, c) ==
  /\ files' = [files EXCEPT ![p] = c] \/ files' = [files EXCEPT ![p] = Absent]
  /\ p \in Documents \cup EvidenceIds => MayWrite(p)
  /\ p \in EvidenceIds => WriteRecord /\ p = job.id
  /\ p = TempPath => Crash /\ files'[p] = [opaque |-> "temp"]

OwnerWrite ==
  \/ files' = files
  \/ \E p \in Path : \E c \in ContentAt(p) : Touches(p, c)

(* Stray bytes are numbered in the order in which they were written.       *)
Dated(d) == \A p \in Path : \A n \in 1..MaxStrays : d[p] = [stray |-> n] => n <= strays

AllDated == Dated(files) /\ Dated(seen) /\ Dated(snap)

(* While add_evidence writes attachments nobody else writes its record,    *)
(* which was not there unless a stat failed.                               *)
RecordIsFree ==
  pc = "attaching" /\ ~job.misled => files[job.id] \in Stray \cup {Absent}

(* If the snapshot was no longer there when it was validated, the second   *)
(* traversal has read, or is still to read, something else.                *)
Mismatch(p) == IF seen[p] = Absent THEN files[p] # snap[p] ELSE seen[p] # snap[p]

LostSnapshotShows == pc = "comparing" /\ ~held => \E p \in Present(snap) : Mismatch(p)

History == AllDated /\ RecordIsFree /\ LostSnapshotShows /\ SealIsSimultaneous

-----------------------------------------------------------------------------
(* What each step of the owner writes.                                     *)

(* write_json writes its document, and a sealed one only after a failing   *)
(* stat.                                                                   *)
LEMMA WriteJsonTouches ==
  ASSUME IsDirectory(files), faults \in Nat, NEW n \in Nat,
         NEW p \in Path, NEW c \in ContentAt(p), WriteJsonAfter(n, p, c),
         p # TempPath, p \in EvidenceIds => WriteRecord /\ p = job.id
  PROVE  OwnerWrite
<1>1. CASE files' = files
  BY <1>1 DEF OwnerWrite
<1>2. CASE files' # files
  <2> DEFINE k == IF IsSealed(p) THEN n + 1 ELSE n
  <2>1. k \in Nat /\ (IsSealed(p) => k > 0)
    OBVIOUS
  <2> HIDE DEF k
  <2>2. PICK o \in Outcome : AtomicWriteAfter(k, p, c, o)
    BY <1>2 DEF WriteJsonAfter, k
  <2>3. MayWrite(p)
    BY <2>1, <2>2, FailingOperationsType DEF AtomicWriteAfter, Faults, MayWrite
  <2>4. files' = [files EXCEPT ![p] = c] \/ files' = [files EXCEPT ![p] = Absent]
    BY <1>2, <2>2, AtomicWriteFiles
  <2> QED BY <2>3, <2>4 DEF OwnerWrite, Touches
<1> QED BY <1>1, <1>2

(* A path that is no record is written without a test, a document only     *)
(* when there is no bundle.json or by finalize.                            *)
LEMMA PlainWriteTouches ==
  ASSUME IsDirectory(files), NEW p \in Path \ (EvidenceIds \cup {TempPath}),
         NEW c \in ContentAt(p),
         NEW o \in Outcome, AtomicWrite(p, c, o),
         p \in Documents => manifest = Absent \/ (p = RunPath /\ pc \in FinalizePhases)
  PROVE  OwnerWrite
BY AtomicWriteFiles DEF AtomicWrite, OwnerWrite, Touches, MayWrite, IsSealed

(* Documents, records and the rest are different paths.                    *)
LEMMA KindsOfPaths ==
  /\ Documents \cap EvidenceIds = {}
  /\ RunPath \in Documents /\ ArtifactPath \in Documents /\ PlanPath \in Documents
  /\ ClaimsPath \in Documents /\ ExecutionsPath \in Documents
  /\ ReportPath \notin Documents \cup EvidenceIds
  /\ TempPath \notin Documents \cup EvidenceIds \cup Attachments \cup {ReportPath}
  /\ \A a \in Attachments : a \notin Documents \cup EvidenceIds
BY PathsDisjoint
   DEF Documents, RunPath, ArtifactPath, PlanPath, ClaimsPath, ExecutionsPath,
       ReportPath, TempPath

(* The calls that are one step.                                            *)
LEMMA WritesTouch ==
  ASSUME Inv, Writes PROVE OwnerWrite
<1> USE PathsAreDistinct, KindsOfPaths
<1>0. IsDirectory(files) /\ faults \in Nat /\ (files' = files => OwnerWrite)
  BY InputsAreContent DEF Inv, TypeOK, OwnerWrite
<1>1. CASE CreateRun
  <2> DEFINE doc == [state |-> "planning", replay_of |-> FALSE, finalized_at |-> 0]
  <2>1. doc \in ContentAt(RunPath)
    BY ContentOfPaths, BoundsAreNaturals DEF RunDocument, RunState
  <2>2. manifest = Absent /\ \E o \in Outcome : AtomicWrite(RunPath, doc, o)
    BY <1>1 DEF CreateRun, Inv, NoManifestBeforeRun
  <2> HIDE DEF doc
  <2> QED BY <1>0, <2>1, <2>2, PlainWriteTouches
<1>2. ASSUME NEW s \in SettableStates, SetState(s) PROVE OwnerWrite
  <2>1. CASE files' = files
    BY <1>0, <2>1
  <2>2. CASE files' # files
    <3> DEFINE new == [files[RunPath] EXCEPT !.state = s,
                         !.finalized_at = IF s = "finalized" THEN attempt ELSE @]
    <3>1. RunReadable /\ WriteJson(RunPath, new)
      BY <1>2, <2>2 DEF SetState, RefuseUnreadable, NoWrite
    <3>2. new \in ContentAt(RunPath)
      BY <3>1, SetStateContent DEF Inv
    <3> HIDE DEF new
    <3> QED BY <1>0, <3>1, <3>2, WriteJsonTouches, WriteJsonIsAfter
  <2> QED BY <2>1, <2>2
<1>3. CASE SetReplayOf
  <2>1. CASE files' = files
    BY <1>0, <2>1
  <2>2. CASE files' # files
    <3> DEFINE new == [files[RunPath] EXCEPT !.replay_of = TRUE]
    <3>1. RunReadable /\ WriteJson(RunPath, new)
      BY <1>3, <2>2 DEF SetReplayOf, RefuseUnreadable, NoWrite
    <3>2. new \in ContentAt(RunPath)
      BY <1>0, <3>1, ReadableRun, ReplayUpdate, ContentOfPaths
    <3> HIDE DEF new
    <3> QED BY <1>0, <3>1, <3>2, WriteJsonTouches, WriteJsonIsAfter
  <2> QED BY <2>1, <2>2
<1>4. CASE WriteArtifact
  <2>1. [opaque |-> "artifact"] \in ContentAt(ArtifactPath)
    BY ContentOfPaths DEF Opaque
  <2> QED BY <1>0, <1>4, <2>1, WriteJsonTouches, WriteJsonIsAfter DEF WriteArtifact
<1>5. ASSUME NEW plan \in Plans, WritePlan(plan) PROVE OwnerWrite
  <2>1. plan \in ContentAt(PlanPath)
    BY ContentOfPaths, InputsAreContent
  <2> QED BY <1>0, <1>5, <2>1, WriteJsonTouches, WriteJsonIsAfter DEF WritePlan
<1>6. ASSUME NEW claims \in ClaimSets, WriteClaims(claims) PROVE OwnerWrite
  <2>1. claims \in ContentAt(ClaimsPath)
    BY ContentOfPaths, InputsAreContent
  <2> QED BY <1>0, <1>6, <2>1, WriteJsonTouches, WriteJsonIsAfter DEF WriteClaims
<1>7. ASSUME NEW doc \in Rewrites, WriteExecutions(doc) PROVE OwnerWrite
  <2>1. doc \in ContentAt(ExecutionsPath)
    BY ContentOfPaths, InputsAreContent
  <2> QED BY <1>0, <1>7, <2>1, WriteJsonTouches, WriteJsonIsAfter DEF WriteExecutions
<1>8. ASSUME NEW x \in Executions, AppendExecution(x) PROVE OwnerWrite
  <2>1. ASSUME NEW old \in SUBSET Execution
        PROVE  [executions |-> old \cup {x}] \in ContentAt(ExecutionsPath)
    BY ContentOfPaths, InputsAreContent DEF ExecutionsDocument
  <2>2. ASSUME NEW old \in SUBSET Execution,
               WriteJson(ExecutionsPath, [executions |-> old \cup {x}])
        PROVE  OwnerWrite
    BY <1>0, <2>1, <2>2, WriteJsonTouches, WriteJsonIsAfter
  <2>3. CASE files' = files
    BY <1>0, <2>3
  <2>4. CASE /\ files[ExecutionsPath] # Absent /\ ~Unparseable(files[ExecutionsPath])
             /\ WriteJson(ExecutionsPath,
                  [executions |-> files[ExecutionsPath].executions \cup {x}])
    <3>1. files[ExecutionsPath] \in ExecutionsDocument
      BY <1>0, <2>4, ContentOfPaths DEF IsDirectory, Unparseable
    <3>2. files[ExecutionsPath].executions \in SUBSET Execution
      BY <3>1 DEF ExecutionsDocument
    <3> QED BY <2>2, <2>4, <3>2
  <2>5. CASE WriteJson(ExecutionsPath, [executions |-> {} \cup {x}])
    BY <2>2, <2>5
  <2>6. CASE WriteJsonAfter(1, ExecutionsPath, [executions |-> {} \cup {x}])
    BY <1>0, <2>1, <2>6, WriteJsonTouches
  <2> QED BY <1>8, <2>3, <2>4, <2>5, <2>6 DEF AppendExecution, NoWrite
<1>9. CASE WriteText
  <2>1. [opaque |-> "report"] \in ContentAt(ReportPath)
    BY ContentOfPaths DEF Opaque
  <2> QED BY <1>0, <1>9, <2>1, PlainWriteTouches DEF WriteText
<1> QED BY <1>1, <1>2, <1>3, <1>4, <1>5, <1>6, <1>7, <1>8, <1>9 DEF Writes

(* The steps of add_evidence.                                              *)
LEMMA EvidenceTouches ==
  ASSUME Inv, EvidenceSteps PROVE OwnerWrite
<1> USE PathsAreDistinct, KindsOfPaths
<1>0. IsDirectory(files) /\ faults \in Nat /\ (NoWrite => OwnerWrite)
  BY InputsAreContent DEF Inv, TypeOK, NoWrite, OwnerWrite
<1>1. ASSUME NEW record, NEW e, AddEvidence(e, record) PROVE OwnerWrite
  BY <1>1 DEF AddEvidence, OwnerWrite
<1>2. ASSUME NEW a \in Attachment, NEW supplied \in BOOLEAN, WriteAttachment(a, supplied)
      PROVE  OwnerWrite
  <2>1. a.path \in Attachments /\ [bytes |-> a.payload] \in ContentAt(a.path)
    BY ContentOfPaths DEF Attachment, Payload
  <2>2. NoWrite \/ \E o \in Outcome : AtomicWrite(a.path, [bytes |-> a.payload], o)
    BY <1>2 DEF WriteAttachment, Outcome
  <2> QED BY <1>0, <2>1, <2>2, PlainWriteTouches
<1>3. CASE WriteRecord
  <2>1. job.id \in EvidenceIds /\ job.record \in ContentAt(job.id)
    BY <1>3, ContentOfPaths DEF WriteRecord, Adding, Inv, TypeOK
  <2> QED BY <1>0, <1>3, <2>1, WriteJsonTouches, WriteJsonIsAfter DEF WriteRecord
<1> QED BY <1>1, <1>2, <1>3 DEF EvidenceSteps

(* finalize writes run.json.                                               *)
LEMMA FinalizeTouches ==
  ASSUME Inv, FinalizeStart \/ Finalize PROVE OwnerWrite
<1> USE PathsAreDistinct, KindsOfPaths DEF Inv
<1>1. CASE PublishRun
  <2>1. FinalizedDocument \in ContentAt(RunPath) /\ pc \in FinalizePhases
    BY <1>1, FinalizedDocumentType, ContentOfPaths
       DEF PublishRun, SnapshotValidated, FinalizePhases
  <2>2. \E o \in Outcome : AtomicWrite(RunPath, FinalizedDocument, o)
    BY <1>1 DEF PublishRun
  <2> QED BY <2>1, <2>2, PlainWriteTouches DEF TypeOK
<1>2. CASE RestoreRun
  <2>1. snap[RunPath] \in ContentAt(RunPath) /\ pc \in FinalizePhases
    BY <1>2, ValidatedRun, ContentOfPaths
       DEF RestoreRun, SnapshotValidated, FinalizePhases, TypeOK
  <2>2. \E o \in Outcome : AtomicWrite(RunPath, snap[RunPath], o)
    BY <1>2 DEF RestoreRun
  <2> QED BY <2>1, <2>2, PlainWriteTouches DEF TypeOK
<1>3. CASE ~PublishRun /\ ~RestoreRun
  BY <1>3 DEF OwnerWrite, FinalizeStart, Finalize, CollectFile, CollectMissing, CollectFails,
              Validate, Compare, PublishManifest, ConfirmManifest
<1> QED BY <1>1, <1>2, <1>3

(* Every step but a stray write.                                           *)
LEMMA EveryWrite ==
  ASSUME Inv, Next, ~ \E p \in Strayable : OutsideWrite(p) PROVE OwnerWrite
<1>1. CASE Crash
  <2>1. [opaque |-> "temp"] \in ContentAt(TempPath)
    BY ContentOfPaths DEF Opaque
  <2>2. CASE files' = [files EXCEPT ![TempPath] = [opaque |-> "temp"]]
    <3>1. files'[TempPath] = [opaque |-> "temp"]
      BY <2>2, PathsAreDistinct DEF Inv, TypeOK, IsDirectory
    <3> QED BY <1>1, <2>1, <2>2, <3>1, PathsAreDistinct, KindsOfPaths DEF OwnerWrite, Touches
  <2> QED BY <1>1, <2>2 DEF Crash, OwnerWrite
<1>2. CASE Open \/ VerifyStart \/ Verify
  BY <1>2 DEF OwnerWrite, Open, VerifyStart, Verify, VerifyFile, VerifyRunDocument,
              VerifyPresent, VerifyAdditions, VerifyManifestAgain, Verifying
<1> QED BY <1>1, <1>2, WritesTouch, EvidenceTouches, FinalizeTouches DEF Next

-----------------------------------------------------------------------------
(* Sealed documents.                                                       *)

(* A step that is no stray write and in which nothing fails changes no     *)
(* sealed document, but for run.json inside finalize.                      *)
LEMMA FrozenStep ==
  Inv /\ [Next]_vars =>
    [\A p \in Documents \cup EvidenceIds :
       manifest # Absent /\ strays' = strays /\ faults' = faults
         => \/ manifest[p] = Absent
            \/ p = RunPath /\ pc \in FinalizePhases
            \/ files'[p] = files[p]]_vars
<1> SUFFICES ASSUME Inv, Next, NEW p \in Documents \cup EvidenceIds,
                    manifest # Absent, strays' = strays, faults' = faults,
                    manifest[p] # Absent, ~(p = RunPath /\ pc \in FinalizePhases)
             PROVE  files'[p] = files[p]
  OBVIOUS
<1>1. ~ \E q \in Strayable : OutsideWrite(q)
  BY BoundsAreNaturals DEF OutsideWrite, Inv, TypeOK
<1>2. IsDirectory(files) /\ p \in Path /\ ~MayWrite(p)
  BY PathsAreDistinct DEF Inv, TypeOK, IsSealed, MayWrite, Path
<1>3. OwnerWrite
  BY <1>1, EveryWrite
<1> QED BY <1>2, <1>3 DEF OwnerWrite, Touches, IsDirectory

(* After bundle.json is written no call and no restart of the owner        *)
(* changes a document that it lists, unless one of the call's operations   *)
(* fails: is_sealed takes a failing stat of bundle.json for its absence.   *)
(* (A finalize over a leftover bundle.json writes run.json.)               *)
THEOREM SealedDocumentsStay == Spec => SealedDocumentsFrozen
BY InvHolds, FrozenStep, PTL DEF Spec, SealedDocumentsFrozen

-----------------------------------------------------------------------------
(* The history of a directory.                                             *)

(* No content of the owner's is the bytes of a stray write.                *)
LEMMA ContentAtIsNotStray ==
  ASSUME NEW p \in Path, NEW c \in ContentAt(p) PROVE c \notin Stray /\ c # Absent
<1>1. SUFFICES c \notin Stray
  BY ContentAtIsContent, AbsentIsNoContent
<1>2. SUFFICES ASSUME c \in Stray PROVE FALSE
  OBVIOUS
<1>3. DOMAIN c = {"stray"}
  BY <1>2 DEF Stray
<1>4. /\ \A d \in RunDocument : DOMAIN d = {"state", "replay_of", "finalized_at"}
      /\ \A d \in Opaque : DOMAIN d = {"opaque"}
      /\ \A d \in PlanDocument : DOMAIN d = {"checks", "sound"}
      /\ \A d \in ClaimsDocument : DOMAIN d = {"claims"}
      /\ \A d \in ExecutionsDocument : DOMAIN d = {"executions"}
      /\ \A d \in Evidence : DOMAIN d = {"attachments", "derived_from"}
      /\ \A d \in Payload : DOMAIN d = {"bytes"}
  BY DEF RunDocument, Opaque, PlanDocument, ClaimsDocument, ExecutionsDocument, Evidence, Payload
<1>5. \/ c \in RunDocument \/ c \in Opaque \/ c \in PlanDocument \/ c \in ClaimsDocument
      \/ c \in ExecutionsDocument \/ c \in Evidence \/ c \in Payload
  <2>1. CASE p \in Documents \cup {ReportPath, TempPath}
    BY <2>1, ContentOfPaths DEF Documents
  <2>2. CASE p \in EvidenceIds \cup Attachments
    BY <2>2, ContentOfPaths
  <2> QED BY <2>1, <2>2 DEF Path
<1> QED BY <1>3, <1>4, <1>5

(* A stray write has a number of its own.                                  *)
LEMMA StraysDiffer ==
  ASSUME NEW m, NEW n, [stray |-> m] = [stray |-> n] PROVE m = n
<1>1. [stray |-> m].stray = [stray |-> n].stray
  OBVIOUS
<1> QED BY <1>1

(* Only a stray write counts as one.                                       *)
LEMMA StraysKept ==
  ASSUME Next, ~ \E q \in Strayable : OutsideWrite(q) PROVE strays' = strays
BY DEF Next, Writes, CreateRun, SetState, SetReplayOf, WriteArtifact, WritePlan, WriteClaims,
       AppendExecution, WriteExecutions, WriteText, Call, EvidenceSteps, AddEvidence,
       WriteAttachment, WriteRecord, Adding, FinalizeStart, Finalize, CollectFile,
       CollectMissing, CollectFails, Validate, Compare, PublishRun, PublishManifest,
       ConfirmManifest, RestoreRun, Crash, Open, VerifyStart, Verify, VerifyFile,
       VerifyRunDocument, VerifyPresent, VerifyAdditions, VerifyManifestAgain, Verifying, bounds

(* What lies in the directory after a step, as far as stray bytes go.      *)
LEMMA FilesStep ==
  ASSUME Inv, [Next]_vars, NEW p \in Path
  PROVE  \/ files'[p] = files[p] \/ files'[p] = Absent
         \/ strays' = strays /\ files'[p] \notin Stray
         \/ strays' = strays + 1 /\ files'[p] = [stray |-> strays + 1]
<1>1. CASE UNCHANGED vars
  BY <1>1 DEF vars
<1>2. CASE Next
  <2>0. IsDirectory(files)
    BY DEF Inv, TypeOK
  <2>1. ASSUME NEW q \in Strayable, OutsideWrite(q)
        PROVE  \/ files'[p] = files[p] \/ files'[p] = Absent
               \/ strays' = strays + 1 /\ files'[p] = [stray |-> strays + 1]
    BY <2>0, <2>1 DEF OutsideWrite, IsDirectory
  <2>2. CASE ~ \E q \in Strayable : OutsideWrite(q)
    <3>1. OwnerWrite
      BY <1>2, <2>2, EveryWrite
    <3>2. strays' = strays
      BY <1>2, <2>2, StraysKept
    <3> QED BY <2>0, <3>1, <3>2, ContentAtIsNotStray DEF OwnerWrite, Touches, IsDirectory
  <2> QED BY <2>1, <2>2
<1> QED BY <1>1, <1>2

(* Stray writes are counted, whoever steps.                                *)
LEMMA StraysStep ==
  ASSUME Inv, [Next]_vars PROVE strays \in Nat /\ strays' \in Nat /\ strays <= strays'
<1>1. strays \in Nat
  BY BoundsAreNaturals DEF Inv, TypeOK
<1>2. CASE UNCHANGED vars
  BY <1>1, <1>2 DEF vars, bounds
<1>3. CASE \E q \in Strayable : OutsideWrite(q)
  BY <1>1, <1>3 DEF OutsideWrite
<1>4. CASE Next /\ ~ \E q \in Strayable : OutsideWrite(q)
  BY <1>1, <1>4, StraysKept
<1> QED BY <1>2, <1>3, <1>4

(* What the owner's traversal has read came from the directory; a snapshot *)
(* is what one traversal has read.                                         *)
LEMMA WalkStep ==
  ASSUME Inv, [Next]_vars
  PROVE  /\ \A p \in Path : seen'[p] \in {seen[p], files[p], Absent}
         /\ snap' = snap \/ snap' = seen
<1>0. IsDirectory(seen) /\ \A p \in Path : Nothing[p] = Absent
  BY DEF Inv, TypeOK, Nothing
<1>1. CASE UNCHANGED vars
  BY <1>1 DEF vars, owner, walk
<1>2. CASE FinalizeStart \/ Finalize
  <2>1. ASSUME NEW q \in Path, CollectFile(q)
        PROVE  snap' = snap /\ \A p \in Path : seen'[p] \in {seen[p], files[p]}
    BY <1>0, <2>1 DEF CollectFile, IsDirectory
  <2>2. CASE FinalizeStart
    BY <1>0, <2>2 DEF FinalizeStart, walk
  <2>3. CASE CollectFails \/ Validate \/ Compare
    BY <1>0, <2>3 DEF CollectFails, Validate, Compare, ReturnFromTraversal, EndTraversal
  <2>4. ASSUME NEW q \in Path, CollectMissing(q) PROVE snap' = snap /\ seen' = seen
    BY <2>4 DEF CollectMissing
  <2>5. CASE PublishRun \/ PublishManifest \/ ConfirmManifest \/ RestoreRun
    BY <2>5 DEF PublishRun, PublishManifest, ConfirmManifest, RestoreRun, walk
  <2> QED BY <1>2, <2>1, <2>2, <2>3, <2>4, <2>5 DEF Finalize
<1>3. CASE Writes \/ EvidenceSteps
  BY <1>3
     DEF Writes, CreateRun, SetState, SetReplayOf, WriteArtifact, WritePlan, WriteClaims,
         AppendExecution, WriteExecutions, WriteText, Call, EvidenceSteps, AddEvidence,
         WriteAttachment, WriteRecord, Adding, walk
<1>4. CASE Crash \/ Open \/ \E p \in Strayable : OutsideWrite(p)
  BY <1>0, <1>4 DEF Crash, EndTraversal, Open, OutsideWrite, owner, walk
<1>5. CASE VerifyStart \/ Verify
  BY <1>5 DEF VerifyStart, Verify, VerifyFile, VerifyRunDocument, VerifyPresent,
              VerifyAdditions, VerifyManifestAgain, Verifying, owner, walk
<1> QED BY <1>1, <1>2, <1>3, <1>4, <1>5 DEF Next

(* No stray bytes from the future, in the directory or in what was read.   *)
LEMMA DatedStep ==
  ASSUME Inv, AllDated, [Next]_vars PROVE AllDated'
<1>1. strays \in Nat /\ strays' \in Nat /\ strays <= strays'
  BY StraysStep
<1>2. \A p \in Path : \A n \in 1..MaxStrays : Absent # [stray |-> n]
  BY AbsentIsNoContent DEF Content, Stray
<1>3. Dated(files)'
  <2> SUFFICES ASSUME NEW p \in Path, NEW n \in 1..MaxStrays, files'[p] = [stray |-> n]
               PROVE  n <= strays'
    BY DEF Dated
  <2>1. CASE files'[p] = files[p]
    BY <1>1, <2>1 DEF AllDated, Dated
  <2>2. CASE strays' = strays + 1 /\ files'[p] = [stray |-> strays + 1]
    BY <2>2, StraysDiffer
  <2>3. files'[p] \in Stray /\ files'[p] # Absent
    BY <1>2 DEF Stray
  <2> QED BY <2>1, <2>2, <2>3, FilesStep
<1>4. Dated(seen)' /\ Dated(snap)'
  BY <1>1, <1>2, WalkStep DEF AllDated, Dated
<1> QED BY <1>3, <1>4 DEF AllDated

(* The record that add_evidence will write is still missing, or stray.     *)
LEMMA RecordIsFreeStep ==
  ASSUME Inv, Inv', RecordIsFree, [Next]_vars PROVE RecordIsFree'
<1>1. SUFFICES ASSUME pc' = "attaching", ~job'.misled
               PROVE  files'[job'.id] \in Stray \cup {Absent}
  BY DEF RecordIsFree
<1>2. job' \in [id : EvidenceIds, record : Evidence, left : SUBSET Attachment,
                misled : BOOLEAN]
  BY <1>1 DEF Inv, TypeOK
<1>3. CASE Writes \/ FinalizeStart \/ Finalize \/ Crash \/ Open
  BY <1>1, <1>3, WritesFrame
     DEF FinalizeStart, Finalize, CollectFile, CollectMissing, CollectFails, Validate, Compare,
         PublishRun, PublishManifest, ConfirmManifest, RestoreRun, ReturnFromTraversal,
         Traversing, Crash, Open
<1>4. ASSUME NEW record, NEW e, AddEvidence(e, record) PROVE files'[job'.id] = Absent
  <2>1. job' = [id |-> e, record |-> record, left |-> record.attachments,
                misled |-> files[e] # Absent]
    BY <1>1, <1>4 DEF AddEvidence
  <2>2. job'.id = e /\ job'.misled = (files[e] # Absent)
    BY <2>1
  <2>3. files' = files
    BY <1>4 DEF AddEvidence
  <2> QED BY <1>1, <2>2, <2>3
<1>5. CASE \/ UNCHANGED vars
           \/ \E a \in Attachment, supplied \in BOOLEAN : WriteAttachment(a, supplied)
           \/ \E q \in Strayable : OutsideWrite(q)
           \/ VerifyStart \/ Verify
  <2>1. pc = "attaching"
    BY <1>1, <1>5
       DEF vars, owner, WriteAttachment, Adding, OutsideWrite, VerifyStart, Verify, VerifyFile,
           VerifyRunDocument, VerifyPresent, VerifyAdditions, VerifyManifestAgain, Verifying
  <2>2. /\ job \in [id : EvidenceIds, record : Evidence, left : SUBSET Attachment,
                    misled : BOOLEAN]
        /\ IsDirectory(files) /\ job.id \in Path
    BY <2>1, PathsAreDistinct DEF Inv, TypeOK
  <2>3. job'.id = job.id /\ job'.misled = job.misled
    BY <1>1, <1>5, <2>2
       DEF vars, owner, WriteAttachment, OutsideWrite, VerifyStart, Verify, VerifyFile,
           VerifyRunDocument, VerifyPresent, VerifyAdditions, VerifyManifestAgain, Verifying
  <2>4. files[job.id] \in Stray \cup {Absent}
    BY <1>1, <2>1, <2>3 DEF RecordIsFree
  <2>5. CASE \E q \in Strayable : OutsideWrite(q)
    <3>1. [stray |-> strays + 1] \in Stray
      BY <2>5, BoundsAreNaturals DEF OutsideWrite, Stray, Inv, TypeOK
    <3>2. files'[job.id] \in {files[job.id], Absent, [stray |-> strays + 1]}
      BY <2>2, <2>5 DEF OutsideWrite, IsDirectory
    <3> QED BY <2>3, <2>4, <3>1, <3>2
  <2>6. CASE ~ \E q \in Strayable : OutsideWrite(q)
    <3>1. ~WriteRecord
      BY <1>1 DEF WriteRecord
    <3>2. OwnerWrite
      BY <2>6, EveryWrite DEF OwnerWrite, vars
    <3>3. files'[job.id] = files[job.id]
      BY <2>2, <3>1, <3>2 DEF OwnerWrite, Touches, IsDirectory
    <3> QED BY <2>3, <2>4, <3>3
  <2> QED BY <2>5, <2>6
<1>6. ~WriteRecord
  BY <1>1 DEF WriteRecord
<1> QED BY <1>3, <1>4, <1>5, <1>6 DEF Next, EvidenceSteps

(* A step that is no stray write changes no record that add_evidence       *)
(* wrote, unless it was misled about it.                                   *)
LEMMA ImmutableStep ==
  Inv /\ RecordIsFree /\ [Next]_vars =>
    [\A e \in EvidenceIds :
       files[e] \notin Stray \cup {Absent} /\ strays' = strays
         => \/ pc = "attaching" /\ job.id = e /\ job.misled
            \/ files'[e] = files[e]]_vars
<1> SUFFICES ASSUME Inv, RecordIsFree, Next, NEW e \in EvidenceIds,
                    files[e] \notin Stray \cup {Absent}, strays' = strays,
                    ~(pc = "attaching" /\ job.id = e /\ job.misled)
             PROVE  files'[e] = files[e]
  OBVIOUS
<1>1. ~ \E q \in Strayable : OutsideWrite(q)
  BY BoundsAreNaturals DEF OutsideWrite, Inv, TypeOK
<1>2. IsDirectory(files) /\ e \in Path
  BY PathsAreDistinct DEF Inv, TypeOK
<1>3. WriteRecord => e # job.id
  BY DEF WriteRecord, Adding, RecordIsFree
<1>4. OwnerWrite
  BY <1>1, EveryWrite
<1> QED BY <1>2, <1>3, <1>4 DEF OwnerWrite, Touches, IsDirectory

-----------------------------------------------------------------------------
(* The two traversals of finalize.                                         *)

(* Bytes a snapshot holds never come back once they are gone.              *)
LEMMA GoneForGood ==
  ASSUME Inv, AllDated, NEW q \in Strayable, OutsideWrite(q), NEW p \in Present(snap),
         files[p] # snap[p]
  PROVE  files'[p] # snap[p]
<1>1. p \in Path /\ snap[p] # Absent /\ IsDirectory(files)
  BY DEF Present, Inv, TypeOK
<1>2. strays \in Nat /\ strays + 1 \in 1..MaxStrays
  BY BoundsAreNaturals DEF OutsideWrite, Inv, TypeOK
<1>3. snap[p] # [stray |-> strays + 1]
  BY <1>1, <1>2 DEF AllDated, Dated
<1>4. files'[p] \in {files[p], Absent, [stray |-> strays + 1]}
  BY <1>1 DEF OutsideWrite, IsDirectory
<1> QED BY <1>1, <1>3, <1>4

(* A mismatch with the snapshot is not lost while the directory is read    *)
(* for the second time.                                                    *)
LEMMA LostSnapshotStep ==
  ASSUME Inv, AllDated, LostSnapshotShows, [Next]_vars PROVE LostSnapshotShows'
<1>1. SUFFICES ASSUME pc' = "comparing", ~held' PROVE (\E p \in Present(snap) : Mismatch(p))'
  BY DEF LostSnapshotShows
<1>2. CASE Validate
  <2>1. /\ snap' = seen /\ seen' = Nothing /\ files' = files
        /\ held' = (\A p \in Present(seen) : files[p] = seen[p])
    BY <1>1, <1>2 DEF Validate, ReturnFromTraversal
  <2>2. PICK p \in Present(seen) : files[p] # seen[p]
    BY <1>1, <2>1, Zenon
  <2>3. seen'[p] = Absent /\ p \in Present(snap)'
    BY <2>1, <2>2 DEF Nothing, Present
  <2> QED BY <2>1, <2>2, <2>3 DEF Mismatch
<1>3. CASE ~Validate
  <2>1. pc = "comparing" /\ held' = held /\ snap' = snap
    BY <1>1, <1>3, WritesFrame, EvidenceFrame
       DEF vars, owner, Next, FinalizeStart, Finalize, CollectFile, CollectMissing, CollectFails,
           Compare, PublishRun, PublishManifest, ConfirmManifest, RestoreRun,
           ReturnFromTraversal, Traversing, Crash, Open, OutsideWrite, VerifyStart, Verify,
           VerifyFile, VerifyRunDocument, VerifyPresent, VerifyAdditions, VerifyManifestAgain,
           Verifying
  <2>2. PICK p \in Present(snap) : Mismatch(p)
    BY <1>1, <2>1 DEF LostSnapshotShows
  <2>3. p \in Present(snap)' /\ p \in Path /\ IsDirectory(seen)
    BY <2>1 DEF Present, Inv, TypeOK
  <2>4. ASSUME NEW q \in Path, CollectFile(q) PROVE Mismatch(p)'
    BY <2>1, <2>2, <2>3, <2>4 DEF CollectFile, Mismatch, IsDirectory
  <2>5. ASSUME NEW q \in Strayable, OutsideWrite(q) PROVE Mismatch(p)'
    <3>1. seen' = seen
      BY <2>5 DEF OutsideWrite, owner, walk
    <3> QED BY <2>1, <2>2, <2>5, <3>1, GoneForGood DEF Mismatch
  <2>6. CASE UNCHANGED <<files, seen>>
    BY <2>1, <2>2, <2>6 DEF Mismatch
  <2>7. \/ UNCHANGED <<files, seen>>
        \/ \E q \in Path : CollectFile(q)
        \/ \E q \in Strayable : OutsideWrite(q)
    BY <1>1, <1>3, <2>1, WritesFrame, EvidenceFrame
       DEF vars, owner, walk, Next, FinalizeStart, Finalize, CollectMissing, CollectFails,
           Compare, PublishRun, PublishManifest, ConfirmManifest, RestoreRun,
           ReturnFromTraversal, Crash, Open, VerifyStart, Verify, VerifyFile, VerifyRunDocument,
           VerifyPresent, VerifyAdditions, VerifyManifestAgain, Verifying
  <2> QED BY <2>3, <2>4, <2>5, <2>6, <2>7
<1> QED BY <1>2, <1>3

(* So the comparison of the traversals accepts no lost snapshot.           *)
LEMMA SimultaneousStep ==
  ASSUME Inv, LostSnapshotShows, SealIsSimultaneous, [Next]_vars PROVE SealIsSimultaneous'
<1>1. SUFFICES ASSUME pc' \in {"sealing", "manifesting", "confirming"} PROVE held'
  BY DEF SealIsSimultaneous
<1>2. CASE Compare
  <2>1. seen = snap /\ held' = held /\ pc = "comparing"
    BY <1>1, <1>2 DEF Compare, ReturnFromTraversal
  <2>2. \A p \in Present(snap) : ~Mismatch(p)
    BY <2>1 DEF Mismatch, Present
  <2> QED BY <2>1, <2>2 DEF LostSnapshotShows
<1>3. CASE ~Compare
  <2>1. pc \in {"sealing", "manifesting", "confirming"} /\ held' = held
    BY <1>1, <1>3, WritesFrame, EvidenceFrame
       DEF vars, owner, Next, FinalizeStart, Finalize, CollectFile, CollectMissing, CollectFails,
           Validate, PublishRun, PublishManifest, ConfirmManifest, RestoreRun,
           ReturnFromTraversal, Traversing, Crash, Open, OutsideWrite, VerifyStart, Verify,
           VerifyFile, VerifyRunDocument, VerifyPresent, VerifyAdditions, VerifyManifestAgain,
           Verifying
  <2> QED BY <2>1 DEF SealIsSimultaneous
<1> QED BY <1>2, <1>3

(* An empty directory has no history.                                      *)
LEMMA InitHistory == Init => History
<1> SUFFICES ASSUME Init PROVE History
  OBVIOUS
<1>1. AllDated
  <2>1. \A n \in 1..MaxStrays : Absent # [stray |-> n]
    BY AbsentIsNoContent DEF Content, Stray
  <2> QED BY <2>1 DEF Init, AllDated, Dated, Nothing
<1> QED BY <1>1 DEF Init, History, RecordIsFree, LostSnapshotShows, SealIsSimultaneous

(* The history holds throughout every behaviour of the store.              *)
THEOREM HistoryHolds == Spec => []History
<1>1. Inv /\ Inv' /\ History /\ [Next]_vars => History'
  BY DatedStep, RecordIsFreeStep, LostSnapshotStep, SimultaneousStep DEF History
<1> QED BY <1>1, InvHolds, InitHistory, PTL DEF Spec

(* When finalize seals, all the files of the manifest were in the          *)
(* directory at one instant, with the sealed contents, whatever other      *)
(* processes did while it read them twice.                                 *)
THEOREM SealedAtOneInstant == Spec => []SealIsSimultaneous
BY HistoryHolds, PTL DEF History

(* No sequence of calls, failed writes or restarts of the owner changes a  *)
(* record that add_evidence has written, unless the stat with which a      *)
(* later add_evidence looked for that record failed.                       *)
THEOREM RecordsAreImmutable == Spec => EvidenceImmutable
BY InvHolds, HistoryHolds, ImmutableStep, PTL DEF Spec, History, EvidenceImmutable

-----------------------------------------------------------------------------
(* What a sealed record refers to.                                         *)

(* A directory that passes the validation of finalize defines all that it  *)
(* refers to.                                                              *)
LEMMA ConsistentIsSelfContained ==
  ASSUME NEW d, IsDirectory(d), Consistent(d)
  PROVE  /\ References(d) \subseteq Defined(d)
         /\ \A e \in RecordedEvidence(d) : e \notin d[e].derived_from
<1>1. \A k \in DOMAIN d[PlanPath].checks : d[PlanPath].checks[k] \subseteq d[ClaimsPath].claims
  BY DEF Consistent, ClaimReferencesResolve
<1>2. \A x \in RecordedExecutions(d) :
        x.check \in DOMAIN d[PlanPath].checks /\ x.evidence_ids \subseteq RecordedEvidence(d)
  BY DEF Consistent, ExecutionReferencesResolve
<1>3. \A e \in RecordedEvidence(d) : d[e].derived_from \subseteq RecordedEvidence(d) \ {e}
  BY DEF Consistent, DerivationsResolve
<1>4. ASSUME NEW e \in RecordedEvidence(d), NEW a \in d[e].attachments
      PROVE  a.path \in Present(d) \cap Attachments /\ d[a.path].bytes = a.payload
  <2>1. d[e] \in Evidence /\ d[a.path] = [bytes |-> a.payload]
    BY ContentOfPaths, PathsAreDistinct
       DEF IsDirectory, RecordedEvidence, Present, Consistent, Deserializes, Unparseable,
           AttachmentsIntact
  <2>2. a.path \in Attachments /\ a.payload \in Payloads
    BY <2>1 DEF Evidence, Attachment
  <2>3. d[a.path] # Absent
    BY <2>1, <2>2, AbsentIsNoContent DEF Content, Payload
  <2> QED BY <2>1, <2>2, <2>3, PathsAreDistinct DEF Present
<1>5. ASSUME NEW r \in References(d) PROVE r \in Defined(d)
  <2>1. CASE \E k \in DOMAIN d[PlanPath].checks : \E c \in d[PlanPath].checks[k] : r = <<"claim", c>>
    BY <1>1, <2>1 DEF Defined
  <2>2. CASE \E x \in RecordedExecutions(d) : r = <<"check", x.check>>
    BY <1>2, <2>2 DEF Defined
  <2>3. CASE \E e \in RecordedEvidence(d) : r = <<"evidence", e>>
    BY <2>3 DEF Defined
  <2>4. CASE \E e \in RecordedEvidence(d) : \E a \in d[e].attachments :
               r = <<"bytes", a.path, a.payload>>
    BY <1>4, <2>4 DEF Defined
  <2> QED BY <1>2, <1>3, <2>1, <2>2, <2>3, <2>4 DEF References
<1> QED BY <1>3, <1>5

(* Claims, checks, evidence and payload bytes that a sealed record refers  *)
(* to are sealed with it (the validation in finalize).                     *)
THEOREM SealedRunsAreSelfContained == Spec => []SealedIsSelfContained
<1>1. Inv => SealedIsSelfContained
  BY ConsistentIsSelfContained DEF Inv, TypeOK, SealedWasConsistent, SealedIsSelfContained
<1> QED BY <1>1, InvHolds, PTL

-----------------------------------------------------------------------------
(* Before the second failing operation.                                    *)

(* Failed operations are counted, and never forgotten.                     *)
LEMMA FaultsStep ==
  ASSUME Inv, Next
  PROVE  /\ faults \in Nat /\ faults' \in Nat /\ faults <= faults'
         /\ ~Crash => crashes' = crashes
<1>0. faults \in Nat /\ faults' \in Nat
  BY TypeStep, InputsAreContent DEF Inv, TypeOK
<1> USE <1>0 DEF bounds, Fault, Faults, NoFault
<1>1. ASSUME NEW n \in Nat, NEW p, NEW c, NEW o \in Outcome, AtomicWriteAfter(n, p, c, o)
      PROVE  faults <= faults'
  BY <1>1, FailingOperationsType DEF AtomicWriteAfter
<1>2. ASSUME NEW n \in Nat, NEW p, NEW c, WriteJsonAfter(n, p, c) PROVE faults <= faults'
  <2> DEFINE k == IF IsSealed(p) THEN n + 1 ELSE n
  <2>1. k \in Nat
    OBVIOUS
  <2> HIDE DEF k
  <2>2. Faults(n) \/ Faults(n + 1) \/ \E o \in Outcome : AtomicWriteAfter(k, p, c, o)
    BY <1>2 DEF WriteJsonAfter, k
  <2> QED BY <1>1, <2>1, <2>2
<1>3. CASE Writes
  <2>1. crashes' = crashes
    BY <1>3 DEF Writes, CreateRun, SetState, SetReplayOf, WriteArtifact, WritePlan, WriteClaims,
                AppendExecution, WriteExecutions, WriteText, Call
  <2>2. CASE CreateRun \/ WriteText
    BY <1>1, <2>1, <2>2 DEF AtomicWrite, CreateRun, WriteText
  <2>6. CASE SetReplayOf \/ WriteArtifact
    BY <1>2, <2>1, <2>6 DEF WriteJson, SetReplayOf, WriteArtifact, RefuseUnreadable, NoWrite
  <2>3. ASSUME NEW s, SetState(s) PROVE faults <= faults'
    BY <1>2, <2>3 DEF WriteJson, SetState, RefuseUnreadable, NoWrite
  <2>4. ASSUME NEW c, WritePlan(c) \/ WriteClaims(c) \/ WriteExecutions(c)
        PROVE  faults <= faults'
    BY <1>2, <2>4 DEF WriteJson, WritePlan, WriteClaims, WriteExecutions
  <2>5. ASSUME NEW x, AppendExecution(x) PROVE faults <= faults'
    BY <1>2, <2>5 DEF WriteJson, AppendExecution, NoWrite
  <2> QED BY <1>3, <2>1, <2>2, <2>3, <2>4, <2>5, <2>6 DEF Writes
<1>4. CASE EvidenceSteps
  <2>1. ASSUME NEW record, NEW e, AddEvidence(e, record)
        PROVE  faults <= faults' /\ crashes' = crashes
    BY <2>1 DEF AddEvidence
  <2>2. ASSUME NEW a, NEW supplied, WriteAttachment(a, supplied)
        PROVE  faults <= faults' /\ crashes' = crashes
    BY <1>1, <2>2 DEF AtomicWrite, Outcome, WriteAttachment, Adding, NoWrite
  <2>3. CASE WriteRecord
    BY <1>2, <2>3 DEF WriteJson, WriteRecord, Adding
  <2> QED BY <1>4, <2>1, <2>2, <2>3 DEF EvidenceSteps
<1>5. CASE FinalizeStart \/ Finalize
  <2>1. CASE FinalizeStart
    BY <2>1 DEF FinalizeStart
  <2>4. CASE CollectFails
    BY <2>4 DEF CollectFails
  <2>5. CASE Validate \/ Compare
    <3>1. UNCHANGED bounds
      BY <2>5, Zenon DEF Validate, Compare
    <3> QED BY <3>1
  <2>6. ASSUME NEW p \in Path, CollectFile(p) \/ CollectMissing(p)
        PROVE  faults <= faults' /\ crashes' = crashes
    BY <2>6 DEF CollectFile, CollectMissing
  <2>2. CASE PublishManifest \/ ConfirmManifest
    BY <2>2 DEF PublishManifest, ConfirmManifest
  <2>3. CASE PublishRun \/ RestoreRun
    BY <1>1, <2>3 DEF AtomicWrite, PublishRun, RestoreRun
  <2> QED BY <1>5, <2>1, <2>2, <2>3, <2>4, <2>5, <2>6 DEF Finalize
<1>6. CASE Crash \/ Open \/ \E q \in Strayable : OutsideWrite(q)
  BY <1>6 DEF Crash, Open, OutsideWrite
<1>7. CASE VerifyStart \/ Verify
  <2>1. UNCHANGED bounds
    BY <1>7, Zenon DEF VerifyStart, Verify, VerifyFile, VerifyRunDocument, VerifyPresent,
                       VerifyAdditions, VerifyManifestAgain, Verifying
  <2> QED BY <2>1
<1> QED BY <1>3, <1>4, <1>5, <1>6, <1>7 DEF Next

(* Until two operations have failed, finalize finds no bundle.json: it is  *)
(* there only with a run.json that says finalized, or one that some other  *)
(* process made unreadable.                                                *)
NoLeftover ==
  faults < 2 =>
    /\ manifest # Absent => RunLooksSealed(files)
    /\ pc \in FinalizePhases \ {"confirming"} => manifest = Absent

(* Every step keeps that so.                                               *)
LEMMA NoLeftoverStep ==
  ASSUME Inv, NoLeftover, [Next]_vars PROVE NoLeftover'
<1> USE DEF NoLeftover
<1>1. CASE UNCHANGED vars
  BY <1>1 DEF vars, owner, bounds, RunLooksSealed, IsFinalized
<1>2. CASE Next
  <2>1. SUFFICES ASSUME faults' < 2
                 PROVE  /\ manifest' # Absent => RunLooksSealed(files)'
                        /\ pc' \in FinalizePhases \ {"confirming"} => manifest' = Absent
    OBVIOUS
  <2>2. /\ faults < 2 /\ faults \in Nat /\ faults' \in Nat /\ TypeOK
        /\ pc = "absent" => manifest = Absent
    BY <1>2, <2>1, FaultsStep DEF Inv, NoManifestBeforeRun
  <2>3. CASE Writes
    <3>1. manifest' = manifest /\ pc' \notin FinalizePhases
      BY <2>3, WritesFrame
         DEF Writes, CreateRun, SetState, SetReplayOf, WriteArtifact, WritePlan, WriteClaims,
             AppendExecution, WriteExecutions, WriteText, Call, FinalizePhases
    <3> QED BY <2>2, <2>3, <3>1, WritesKeepLooks DEF RunLooksSealed, IsFinalized
  <2>4. CASE EvidenceSteps
    <3>1. manifest' = manifest /\ pc' \notin FinalizePhases
      BY <2>4, EvidenceFrame
         DEF EvidenceSteps, AddEvidence, WriteAttachment, WriteRecord, Adding, FinalizePhases
    <3> QED BY <2>2, <2>4, <3>1, EvidenceKeepsRun DEF RunLooksSealed, IsFinalized
  <2>5. CASE FinalizeStart
    <3>1. UNCHANGED <<files, manifest>>
      BY <2>5 DEF FinalizeStart
    <3>2. pc' = pc \/ (RunReadable /\ ~IsFinalized(files))
      BY <2>5 DEF FinalizeStart
    <3>3. RunReadable /\ ~IsFinalized(files) => ~RunLooksSealed(files)
      BY DEF RunReadable, RunLooksSealed, Unparseable
    <3> QED BY <2>2, <3>1, <3>2, <3>3 DEF RunLooksSealed, IsFinalized
  <2>6. CASE CollectFails \/ Validate \/ Compare \/ \E p \in Path : CollectFile(p) \/ CollectMissing(p)
    <3>1. UNCHANGED <<files, manifest>>
      BY <2>6 DEF CollectFails, Validate, Compare, CollectFile, CollectMissing
    <3>2. pc \in FinalizePhases \ {"confirming"}
      BY <2>6 DEF CollectFails, Validate, Compare, CollectFile, CollectMissing, Traversing,
                  FinalizePhases
    <3> QED BY <2>2, <3>1, <3>2
  <2>7. CASE PublishRun \/ RestoreRun
    <3>1. UNCHANGED manifest /\ pc \in FinalizePhases \ {"confirming"}
      BY <2>7 DEF PublishRun, RestoreRun, FinalizePhases
    <3> QED BY <2>2, <3>1
  <2>8. CASE PublishManifest
    <3>1. ~Faults(2)
      BY <2>1, <2>2 DEF Faults
    <3>2. /\ files' = files /\ pc = "manifesting" /\ manifest = Absent
          /\ RunLooksSealed(files)
      BY <2>2, <2>8 DEF PublishManifest, FinalizePhases, Inv, PublishedLooksFinal
    <3> QED BY <2>8, <3>1, <3>2 DEF PublishManifest, RunLooksSealed, IsFinalized, FinalizePhases
  <2>9. CASE ConfirmManifest
    <3>1. ~Faults(2)
      BY <2>1, <2>2 DEF Faults
    <3>2. files' = files /\ RunLooksSealed(files)
      BY <2>9 DEF ConfirmManifest, Inv, PublishedLooksFinal
    <3> QED BY <2>2, <2>9, <3>1, <3>2 DEF ConfirmManifest, RunLooksSealed, IsFinalized, FinalizePhases
  <2>10. CASE Crash \/ Open \/ \E p \in Strayable : OutsideWrite(p)
    <3>1. /\ UNCHANGED manifest
          /\ pc' = pc \/ pc' \notin FinalizePhases
      BY <2>10 DEF Crash, Open, OutsideWrite, owner, FinalizePhases
    <3>2. RunLooksSealed(files) => RunLooksSealed(files)'
      BY <2>2, <2>10, OtherKeepsLooks DEF RunLooksSealed, IsFinalized
    <3> QED BY <2>2, <3>1, <3>2
  <2>11. CASE VerifyStart \/ Verify
    <3>1. UNCHANGED <<files, manifest, pc>>
      BY <2>11 DEF VerifyStart, Verify, VerifyFile, VerifyRunDocument, VerifyPresent,
                   VerifyAdditions, VerifyManifestAgain, Verifying, owner
    <3> QED BY <2>2, <3>1 DEF RunLooksSealed, IsFinalized
  <2> QED BY <1>2, <2>3, <2>4, <2>5, <2>6, <2>7, <2>8, <2>9, <2>10, <2>11 DEF Next, Finalize
<1> QED BY <1>1, <1>2

(* It is so throughout every behaviour of the store.                       *)
LEMMA NoLeftoverHolds == Spec => []NoLeftover
<1>1. Init => NoLeftover
  BY DEF Init, NoLeftover, FinalizePhases
<1>2. Inv /\ NoLeftover /\ [Next]_vars => NoLeftover'
  BY NoLeftoverStep
<1> QED BY <1>1, <1>2, InvHolds, PTL DEF Spec


-----------------------------------------------------------------------------
(* A finalize that does not get through.                                   *)

(* Between calls the last result is that of the call that returned, and    *)
(* only a rollback returns rolled_back.                                    *)
LEMMA OnlyRestoreRollsBack ==
  ASSUME Inv, Next, pc' = "idle", result' = "rolled_back"
  PROVE  \/ RestoreRun
         \/ /\ UNCHANGED <<manifest, pc, snap, result>>
            /\ files' = files \/ \E q \in Strayable : OutsideWrite(q)
<1> USE DEF Return, ReturnCode, reader, owner, walk, bounds
<1>1. ASSUME NEW n, NEW p, NEW c, WriteJsonAfter(n, p, c) PROVE FALSE
  BY <1>1 DEF WriteJsonAfter
<1>2. ~Writes
  BY <1>1 DEF Writes, CreateRun, SetState, SetReplayOf, WriteArtifact, WritePlan, WriteClaims,
              AppendExecution, WriteExecutions, WriteText, RefuseUnreadable, WriteJson
<1>3. ~EvidenceSteps
  <2>1. ASSUME NEW record, NEW e, AddEvidence(e, record) PROVE FALSE
    BY <2>1 DEF AddEvidence
  <2>2. ASSUME NEW a, NEW supplied, WriteAttachment(a, supplied) PROVE FALSE
    BY <2>2 DEF WriteAttachment, Adding
  <2>3. ~WriteRecord
    BY <1>1 DEF WriteRecord, WriteJson
  <2> QED BY <2>1, <2>2, <2>3 DEF EvidenceSteps
<1>4. ~FinalizeStart
  BY DEF FinalizeStart
<1>5. Finalize => RestoreRun
  BY DEF Finalize, CollectFile, CollectMissing, CollectFails, Validate, Compare, PublishRun,
         PublishManifest, ConfirmManifest, Traversing, ReturnFromTraversal
<1>6. ~Crash /\ ~Open
  BY DEF Crash, Open
<1>7. CASE \E q \in Strayable : OutsideWrite(q)
  BY <1>7 DEF OutsideWrite
<1>8. CASE VerifyStart \/ Verify
  BY <1>8 DEF VerifyStart, Verify, VerifyFile, VerifyRunDocument, VerifyPresent,
              VerifyAdditions, VerifyManifestAgain, Verifying
<1> QED BY <1>2, <1>3, <1>4, <1>5, <1>6, <1>7, <1>8 DEF Next

(* What an atomic_write of run.json leaves there.                          *)
LEMMA WriteOfRun ==
  ASSUME IsDirectory(files), NEW c, NEW o \in Outcome, AtomicWrite(RunPath, c, o)
  PROVE  /\ o \in {"ok", "kept"} => files'[RunPath] = c
         /\ o = "unwritten" => files'[RunPath] = files[RunPath]
         /\ o = "lost" => files'[RunPath] = Absent
<1>1. CASE o \in {"ok", "kept"}
  BY <1>1, PathsAreDistinct DEF AtomicWrite, AtomicWriteAfter, IsDirectory
<1>2. CASE o = "unwritten"
  BY <1>2, PathsAreDistinct DEF AtomicWrite, AtomicWriteAfter, IsDirectory
<1>3. CASE o = "lost"
  BY <1>3, PathsAreDistinct DEF AtomicWrite, AtomicWriteAfter, IsDirectory
<1> QED BY <1>1, <1>2, <1>3 DEF Outcome

(* A step keeps what a rollback left.                                      *)
LEMMA RolledBackStep ==
  ASSUME RunPath \notin Strayable, Inv, NoLeftover, RolledBackIsOpen, [Next]_vars
  PROVE  RolledBackIsOpen'
<1>1. SUFFICES ASSUME pc' = "idle", result' = "rolled_back"
               PROVE  /\ files'[RunPath] = snap'[RunPath]
                      /\ faults' < 2 => manifest' = Absent
  BY DEF RolledBackIsOpen
<1>2. CASE UNCHANGED vars
  BY <1>1, <1>2 DEF vars, owner, bounds, RolledBackIsOpen
<1>3. CASE Next /\ RestoreRun
  <2>1. PICK o \in Outcome : /\ AtomicWrite(RunPath, snap[RunPath], o)
                             /\ Return(IF o = "ok" THEN "rolled_back" ELSE "stuck")
    BY <1>3 DEF RestoreRun
  <2>2. o = "ok"
    BY <1>1, <2>1 DEF Return
  <2>3. files'[RunPath] = snap[RunPath]
    BY <2>1, <2>2, WriteOfRun DEF Inv, TypeOK
  <2>4. faults' < 2 => faults < 2
    BY <1>3, FaultsStep
  <2>5. snap' = snap /\ (faults' < 2 => manifest' = Absent)
    BY <1>3, <2>4 DEF RestoreRun, NoLeftover, FinalizePhases
  <2> QED BY <2>3, <2>5
<1>4. CASE Next /\ ~RestoreRun
  <2>1. /\ UNCHANGED <<manifest, pc, snap, result>>
        /\ files' = files \/ \E q \in Strayable : OutsideWrite(q)
    BY <1>1, <1>4, OnlyRestoreRollsBack
  <2>2. files'[RunPath] = files[RunPath]
    BY <2>1, PathsAreDistinct DEF OutsideWrite, Inv, TypeOK, IsDirectory
  <2>3. faults' < 2 => faults < 2
    BY <1>4, FaultsStep
  <2> QED BY <1>1, <2>1, <2>2, <2>3 DEF RolledBackIsOpen
<1> QED BY <1>2, <1>3, <1>4

(* A finalize that failed to write and rolled back has left run.json as it *)
(* captured it, until the next call, and no bundle.json unless the removal *)
(* failed as well as the write, which takes two failing operations; only a *)
(* stray write to run.json itself could change that.                       *)
THEOREM RolledBackRunsAreOpen ==
  ASSUME RunPath \notin Strayable PROVE Spec => []RolledBackIsOpen
<1>1. Init => RolledBackIsOpen
  BY DEF Init, RolledBackIsOpen
<1>2. Inv /\ NoLeftover /\ RolledBackIsOpen /\ [Next]_vars => RolledBackIsOpen'
  BY RolledBackStep
<1> QED BY <1>1, <1>2, InvHolds, NoLeftoverHolds, PTL DEF Spec

(* Before the first death of the owner and the second failed operation,    *)
(* a run.json that says finalized is about to get its bundle.json, or its  *)
(* captured bytes back.                                                    *)
FinalizedIsPending ==
  crashes = 0 /\ faults <= 1 /\ IsFinalized(files) /\ manifest = Absent =>
    \/ pc = "manifesting"
    \/ pc = "restoring" /\ faults = 1

(* The calls of the owner other than finalize finalize no run.             *)
LEMMA WritesFinalizeNothing ==
  ASSUME "finalized" \notin SettableStates, Inv, Writes \/ EvidenceSteps, IsFinalized(files')
  PROVE  IsFinalized(files)
<1>0. IsDirectory(files)
  BY DEF Inv, TypeOK
<1>1. CASE files'[RunPath] = files[RunPath]
  BY <1>1 DEF IsFinalized
<1>2. ASSUME NEW c, WriteJson(RunPath, c), c.state # "finalized", ~IsFinalized(files)
      PROVE  FALSE
  <2> DEFINE k == IF IsSealed(RunPath) THEN 0 + 1 ELSE 0
  <2>1. files' = files \/ \E o \in Outcome : AtomicWriteAfter(k, RunPath, c, o)
    BY <1>2 DEF WriteJson, WriteJsonAfter
  <2> HIDE DEF k
  <2>2. files'[RunPath] \in {c, files[RunPath], Absent}
    BY <1>0, <2>1, AtomicWriteFiles, PathsAreDistinct DEF IsDirectory
  <2> QED BY <1>2, <2>2 DEF IsFinalized
<1>3. ASSUME ~IsFinalized(files), files'[RunPath] # files[RunPath] PROVE FALSE
  <2>1. CASE CreateRun
    <3> DEFINE doc == [state |-> "planning", replay_of |-> FALSE, finalized_at |-> 0]
    <3>1. PICK o \in Outcome : AtomicWrite(RunPath, doc, o)
      BY <2>1 DEF CreateRun
    <3>2. files'[RunPath] \in {doc, files[RunPath], Absent}
      BY <1>0, <3>1, WriteOfRun DEF Outcome
    <3> QED BY <1>3, <3>2 DEF IsFinalized
  <2>2. ASSUME NEW s \in SettableStates, SetState(s) PROVE FALSE
    <3> DEFINE new == [files[RunPath] EXCEPT !.state = s,
                         !.finalized_at = IF s = "finalized" THEN attempt ELSE @]
    <3>1. RunReadable /\ WriteJson(RunPath, new)
      BY <1>3, <2>2 DEF SetState, RefuseUnreadable, NoWrite
    <3>2. files[RunPath] \in RunDocument
      BY <1>0, <3>1, ReadableRun
    <3>3. new.state = s
      BY <3>2 DEF RunDocument
    <3> HIDE DEF new
    <3> QED BY <1>2, <1>3, <3>1, <3>3
  <2>3. CASE SetReplayOf
    <3> DEFINE new == [files[RunPath] EXCEPT !.replay_of = TRUE]
    <3>1. RunReadable /\ WriteJson(RunPath, new)
      BY <1>3, <2>3 DEF SetReplayOf, RefuseUnreadable, NoWrite
    <3>2. files[RunPath] \in RunDocument
      BY <1>0, <3>1, ReadableRun
    <3>3. new.state = files[RunPath].state /\ files[RunPath].state # "finalized"
      BY <1>3, <3>1, <3>2 DEF RunDocument, IsFinalized, RunReadable, Unparseable
    <3> HIDE DEF new
    <3> QED BY <1>2, <1>3, <3>1, <3>3
  <2>4. ~ \E p \in Path \ {RunPath} : \E c : \E n \in Nat : WriteJsonAfter(n, p, c)
    BY <1>0, <1>3, OtherDocumentsKeepRun
  <2>5. CASE \/ WriteArtifact
             \/ \E plan \in Plans : WritePlan(plan)
             \/ \E claims \in ClaimSets : WriteClaims(claims)
             \/ \E doc \in Rewrites : WriteExecutions(doc)
    BY <2>4, <2>5, PathsAreDistinct, RunIsNoOtherPath
       DEF WriteArtifact, WritePlan, WriteClaims, WriteExecutions, WriteJson
  <2>6. ASSUME NEW x \in Executions, AppendExecution(x) PROVE FALSE
    BY <1>0, <1>3, <2>4, <2>6, PathsAreDistinct, RunIsNoOtherPath
       DEF AppendExecution, NoWrite, WriteJson
  <2>7. CASE WriteText
    BY <1>0, <1>3, <2>7, OtherPathsKeepRun, PathsAreDistinct, RunIsNoOtherPath DEF WriteText
  <2>8. CASE EvidenceSteps
    BY <1>3, <2>8, EvidenceKeepsRun DEF Inv
  <2> QED BY <2>1, <2>2, <2>3, <2>5, <2>6, <2>7, <2>8 DEF Writes
<1> QED BY <1>1, <1>3

(* What finalize writes to bundle.json is a directory.                     *)
LEMMA SealIsContent ==
  ASSUME TypeOK, Consistent(snap)
  PROVE  /\ IsDirectory(SealedFiles) /\ SealedFiles # Absent
         /\ SealedFiles[RunPath] = FinalizedDocument
         /\ \A p \in Path \ {RunPath} : SealedFiles[p] = snap[p]
<1>1. IsDirectory(SealedFiles)
  BY FinalizedDocumentType, ContentOfPaths, DirectoryUpdate, PathsAreDistinct
     DEF SealedFiles, TypeOK
<1> QED BY <1>1, AbsentIsNoDirectory, PathsAreDistinct DEF SealedFiles, TypeOK, IsDirectory

(* A step of finalize keeps a finalized run.json pending.                  *)
LEMMA FinalizeKeepsPending ==
  ASSUME Inv, FinalizedIsPending, FinalizeStart \/ Finalize PROVE FinalizedIsPending'
<1>0. IsDirectory(files) /\ faults \in Nat /\ faults' \in Nat
  BY FaultsStep DEF Inv, TypeOK, Next
<1>1. SUFFICES ASSUME crashes' = 0, faults' <= 1, IsFinalized(files'), manifest' = Absent
               PROVE  pc' = "manifesting" \/ (pc' = "restoring" /\ faults' = 1)
  BY DEF FinalizedIsPending
<1>2. crashes = 0 /\ faults <= faults'
  <2>1. ~Crash
    <3>1. crashes' = crashes + 1 /\ crashes \in Nat => crashes' # 0
      OBVIOUS
    <3> QED BY <1>1, <3>1, InputsAreContent DEF Crash, Inv, TypeOK
  <2> QED BY <1>1, <2>1, FaultsStep DEF Next
<1>3. ASSUME IsFinalized(files), manifest = Absent PROVE pc \in {"manifesting", "restoring"}
  BY <1>0, <1>1, <1>2, <1>3 DEF FinalizedIsPending
<1>4. CASE PublishRun
  <2>1. PICK o \in Outcome : /\ AtomicWrite(RunPath, FinalizedDocument, o)
                             /\ pc' = IF o = "ok" THEN "manifesting" ELSE "restoring"
    BY <1>4 DEF PublishRun
  <2>2. o \in {"unwritten", "lost"} => files'[RunPath] \in {files[RunPath], Absent}
    BY <1>0, <2>1, WriteOfRun
  <2>3. pc = "sealing" /\ manifest = Absent
    BY <1>1, <1>4 DEF PublishRun
  <2>4. o = "ok"
    <3>1. o # "kept"
      BY <1>0, <1>1, <2>1 DEF AtomicWrite, AtomicWriteAfter, Faults, FailingOperations
    <3> QED BY <1>1, <1>3, <2>2, <2>3, <3>1 DEF IsFinalized, Outcome
  <2> QED BY <2>1, <2>4
<1>5. CASE PublishManifest
  <2>1. SealedFiles # Absent
    BY <1>5, SealIsContent DEF PublishManifest, Inv, SnapshotValidated, FinalizePhases
  <2> QED BY <1>0, <1>1, <1>5, <2>1 DEF PublishManifest, Fault, Faults, NoFault
<1>6. CASE ConfirmManifest
  <2>1. pc = "confirming" /\ files' = files
    BY <1>6 DEF ConfirmManifest
  <2>2. CASE UNCHANGED manifest
    BY <1>1, <1>3, <2>1, <2>2 DEF IsFinalized
  <2>3. CASE Fault /\ pc' = "restoring"
    BY <1>0, <1>1, <2>3 DEF Fault, Faults
  <2> QED BY <1>6, <2>2, <2>3 DEF ConfirmManifest
<1>7. CASE RestoreRun
  <2>1. PICK o \in Outcome : AtomicWrite(RunPath, snap[RunPath], o)
    BY <1>7 DEF RestoreRun
  <2>2. ~IsFinalized(snap) /\ manifest = Absent /\ pc = "restoring"
    BY <1>1, <1>7 DEF RestoreRun, Inv, SnapshotValidated, FinalizePhases
  <2>3. files'[RunPath] = files[RunPath] /\ o = "unwritten"
    BY <1>0, <1>1, <2>1, <2>2, WriteOfRun DEF Outcome, IsFinalized
  <2>4. faults' = faults + 1
    BY <2>1, <2>3 DEF AtomicWrite, AtomicWriteAfter, Faults, FailingOperations
  <2>5. faults = 1
    BY <1>0, <1>1, <1>2, <2>2, <2>3 DEF FinalizedIsPending, IsFinalized
  <2> QED BY <1>1, <2>4, <2>5
<1>8. CASE FinalizeStart \/ CollectFails \/ Validate \/ Compare
           \/ \E p \in Path : CollectFile(p) \/ CollectMissing(p)
  BY <1>1, <1>3, <1>8
     DEF FinalizeStart, CollectFails, Validate, Compare, CollectFile, CollectMissing,
         Traversing
<1> QED BY <1>4, <1>5, <1>6, <1>7, <1>8 DEF Finalize

(* A step keeps a finalized run.json pending.                              *)
LEMMA PendingStep ==
  ASSUME "finalized" \notin SettableStates, Inv, FinalizedIsPending, [Next]_vars
  PROVE  FinalizedIsPending'
<1>0. /\ IsDirectory(files) /\ faults \in Nat /\ crashes \in Nat
  BY InputsAreContent DEF Inv, TypeOK
<1>1. CASE UNCHANGED vars
  BY <1>1 DEF vars, owner, bounds, FinalizedIsPending, IsFinalized
<1>2. CASE Writes \/ EvidenceSteps
  <2>1. crashes' = crashes /\ manifest' = manifest /\ pc \in {"absent", "idle", "attaching"}
    BY <1>2, WritesFrame, EvidenceFrame
       DEF Writes, CreateRun, SetState, SetReplayOf, WriteArtifact, WritePlan, WriteClaims,
           AppendExecution, WriteExecutions, WriteText, Call, EvidenceSteps, AddEvidence,
           WriteAttachment, WriteRecord, Adding, bounds
  <2>2. faults' \in Nat /\ faults <= faults'
    BY <1>2, FaultsStep DEF Next
  <2> QED BY <1>0, <1>2, <2>1, <2>2, WritesFinalizeNothing DEF FinalizedIsPending
<1>3. CASE FinalizeStart \/ Finalize
  BY <1>3, FinalizeKeepsPending
<1>4. CASE Crash
  BY <1>0, <1>4 DEF Crash, FinalizedIsPending
<1>5. CASE Open
  BY <1>5 DEF Open, bounds, FinalizedIsPending, IsFinalized
<1>6. ASSUME NEW q \in Strayable, OutsideWrite(q) PROVE FinalizedIsPending'
  <2>1. UNCHANGED <<manifest, pc, faults, crashes>>
    BY <1>6 DEF OutsideWrite, owner
  <2>2. [stray |-> strays + 1] \in Stray
    BY <1>6, BoundsAreNaturals DEF OutsideWrite, Stray, Inv, TypeOK
  <2>3. files'[RunPath] \in {files[RunPath], Absent} \cup Stray
    BY <1>0, <1>6, <2>2, PathsAreDistinct DEF OutsideWrite, IsDirectory
  <2> QED BY <2>1, <2>3 DEF FinalizedIsPending, IsFinalized
<1>7. CASE VerifyStart \/ Verify
  <2>1. UNCHANGED <<files, manifest, pc, faults, crashes>>
    BY <1>7 DEF VerifyStart, Verify, VerifyFile, VerifyRunDocument, VerifyPresent,
                VerifyAdditions, VerifyManifestAgain, Verifying, owner, bounds
  <2> QED BY <2>1 DEF FinalizedIsPending, IsFinalized
<1> QED BY <1>1, <1>2, <1>3, <1>4, <1>5, <1>6, <1>7 DEF Next

(* Between calls a run.json that says finalized has its bundle.json, until *)
(* the owner has died once or two operations have failed, whatever the     *)
(* owner calls (no caller passes "finalized" to set_state).                *)
THEOREM OpenRunsLookOpen ==
  ASSUME "finalized" \notin SettableStates
  PROVE  Spec => [](crashes = 0 => OneFaultIsRolledBack)
<1>1. Init => FinalizedIsPending
  <2>1. RunPath \in Path
    BY PathsAreDistinct
  <2> QED BY <2>1 DEF Init, FinalizedIsPending, IsFinalized, Nothing
<1>2. Inv /\ FinalizedIsPending /\ [Next]_vars => FinalizedIsPending'
  BY PendingStep
<1>3. Inv /\ FinalizedIsPending => (crashes = 0 => OneFaultIsRolledBack)
  BY InputsAreContent DEF FinalizedIsPending, NeverLooksFinal, OneFaultIsRolledBack, Inv, TypeOK
<1> QED BY <1>1, <1>2, <1>3, InvHolds, PTL DEF Spec

-----------------------------------------------------------------------------
(* The two passes of verify_integrity_snapshot.                            *)

(* The owner has called nothing since it published bundle.json.            *)
Untouched == pc = "confirming" \/ result = "sealed"

SealStands ==
  /\ Untouched => manifest # Absent
  /\ result = "sealed" => pc \in {"idle", "crashed"} /\ RunLooksSealed(files)

(* No two calls of finalize publish the same manifest: a verification that *)
(* holds an older one will not find it again.                              *)
BeforePublishing == {"snapshotting", "comparing", "sealing", "manifesting"}

Numbered(d) ==
  d # Absent =>
    /\ d[RunPath].finalized_at <= attempt
    /\ pc \in BeforePublishing => d[RunPath].finalized_at < attempt

SealsAreNumbered ==
  /\ Numbered(manifest) /\ Numbered(rman)
  /\ rman # Absent => IsFinalized(rman)

(* A temporary that was read or sealed is still there.                     *)
Leftover == [opaque |-> "temp"]

LeftoverStays ==
  /\ files[TempPath] \in {Absent, Leftover}
  /\ seen[TempPath] \in {Absent, files[TempPath]}
  /\ snap[TempPath] \in {Absent, files[TempPath]}
  /\ manifest # Absent => manifest[TempPath] \in {Absent, files[TempPath]}

SealIsDated ==
  /\ manifest # Absent => Dated(manifest)
  /\ rman # Absent => Dated(rman)

(* If the sealed files were not there when the second pass began, it has   *)
(* read, or is still to read, something else.                              *)
ReaderMismatch(p) == IF rseen[p] = Absent THEN files[p] # rman[p] ELSE rseen[p] # rman[p]

LostSealShows ==
  rpc = "present_files" /\ ~rheld /\ Untouched /\ manifest = rman =>
    \E p \in Present(rman) : ReaderMismatch(p)

ComparedIsHeld == rpc = "manifest_again" /\ Untouched /\ manifest = rman => rheld

AcceptedIsHeld == rresult = "ok" /\ Untouched /\ manifest = rman => rheld

ReaderHistory ==
  /\ SealStands /\ SealsAreNumbered /\ LeftoverStays /\ SealIsDated
  /\ LostSealShows /\ ComparedIsHeld /\ AcceptedIsHeld

(* Only finalize changes bundle.json.                                      *)
LEMMA SealStep ==
  ASSUME Next
  PROVE  \/ UNCHANGED manifest
         \/ manifest' = Absent
         \/ PublishManifest /\ manifest' = SealedFiles
<1>1. CASE Writes \/ EvidenceSteps
  BY <1>1, WritesFrame, EvidenceFrame
<1>2. CASE FinalizeStart \/ Finalize
  BY <1>2, Zenon
     DEF FinalizeStart, Finalize, CollectFile, CollectMissing, CollectFails, Validate, Compare,
         PublishRun, PublishManifest, ConfirmManifest, RestoreRun
<1>3. CASE Crash \/ Open \/ \E q \in Strayable : OutsideWrite(q)
  BY <1>3 DEF Crash, Open, OutsideWrite
<1>4. CASE VerifyStart \/ Verify
  BY <1>4 DEF VerifyStart, Verify, VerifyFile, VerifyRunDocument, VerifyPresent,
              VerifyAdditions, VerifyManifestAgain, Verifying
<1> QED BY <1>1, <1>2, <1>3, <1>4 DEF Next

(* The verification and everybody else have no variable in common.         *)
LEMMA ReaderFrame ==
  /\ VerifyStart \/ Verify => UNCHANGED <<files, manifest, owner, bounds>>
  /\ Next /\ ~VerifyStart /\ ~Verify => UNCHANGED reader
<1>1. VerifyStart \/ Verify => UNCHANGED <<files, manifest, owner, bounds>>
  BY DEF VerifyStart, Verify, VerifyFile, VerifyRunDocument, VerifyPresent,
         VerifyAdditions, VerifyManifestAgain, Verifying
<1>2. FinalizeStart \/ Finalize => UNCHANGED reader
  BY Zenon
     DEF FinalizeStart, Finalize, CollectFile, CollectMissing, CollectFails, Validate, Compare,
         PublishRun, PublishManifest, ConfirmManifest, RestoreRun
<1>3. Crash \/ Open \/ (\E q \in Strayable : OutsideWrite(q)) => UNCHANGED reader
  BY DEF Crash, Open, OutsideWrite
<1>4. Writes \/ EvidenceSteps => UNCHANGED reader
  BY WritesFrame, EvidenceFrame
<1> QED BY <1>1, <1>2, <1>3, <1>4 DEF Next

(* What the calls that are one step return.                                *)
LEMMA WritesReturn == Writes => result' \in {"ok", "io", "frozen", "corrupt"}
<1> USE DEF Return, ReturnCode
<1>1. ASSUME NEW n, NEW p, NEW c, WriteJsonAfter(n, p, c)
      PROVE  result' \in {"ok", "io", "frozen"}
  BY <1>1 DEF WriteJsonAfter
<1> QED BY <1>1 DEF Writes, CreateRun, SetState, SetReplayOf, WriteArtifact, WritePlan,
                    WriteClaims, AppendExecution, WriteExecutions, WriteText, RefuseUnreadable,
                    WriteJson

(* What add_evidence returns, if it returns.                               *)
LEMMA EvidenceReturns ==
  EvidenceSteps => result' \in {result, "ok", "io", "frozen", "corrupt"}
                   /\ (pc = "idle" => result' # "sealed")
<1> USE DEF Return, ReturnCode
<1>1. ASSUME NEW record, NEW e, AddEvidence(e, record) PROVE result' \in {"ok", "corrupt"}
  BY <1>1 DEF AddEvidence
<1>2. ASSUME NEW a, NEW supplied, WriteAttachment(a, supplied)
      PROVE  pc = "attaching" /\ result' \in {result, "io", "corrupt"}
  BY <1>2 DEF WriteAttachment, Adding
<1>3. ASSUME WriteRecord PROVE pc = "attaching" /\ result' \in {"ok", "io", "frozen"}
  BY <1>3 DEF WriteRecord, Adding, WriteJson, WriteJsonAfter
<1> QED BY <1>1, <1>2, <1>3 DEF EvidenceSteps

(* The owner has called nothing since it published bundle.json: it has     *)
(* just done so, or this was so before, and only another process, or the   *)
(* owner's death, changed a file.                                          *)
LEMMA UntouchedBefore ==
  ASSUME Inv, SealStands, Next, Untouched'
  PROVE  /\ \/ PublishManifest /\ manifest' = SealedFiles
            \/ /\ Untouched /\ manifest' = manifest
               /\ \/ files' = files
                  \/ Crash
                  \/ \E q \in Strayable : OutsideWrite(q)
         /\ result' = "sealed" => pc' \in {"idle", "crashed"}
<1> USE DEF Untouched, SealStands, Return
<1>1. CASE Writes
  BY <1>1, WritesFrame, WritesReturn
<1>2. CASE EvidenceSteps
  BY <1>2, EvidenceFrame, EvidenceReturns
<1>3. CASE FinalizeStart
  <2>1. pc' = pc \/ (pc' = "snapshotting" /\ RunReadable /\ ~IsFinalized(files))
    BY <1>3 DEF FinalizeStart
  <2>2. RunReadable /\ ~IsFinalized(files) => ~RunLooksSealed(files)
    BY DEF RunReadable, RunLooksSealed, Unparseable
  <2> QED BY <1>3, <2>1, <2>2 DEF FinalizeStart
<1>4. CASE PublishManifest
  BY <1>4 DEF PublishManifest
<1>5. CASE ConfirmManifest
  BY <1>5 DEF ConfirmManifest
<1>6. CASE PublishRun \/ RestoreRun
  BY <1>6 DEF PublishRun, RestoreRun
<1>7. CASE CollectFails \/ Validate \/ Compare
  BY <1>7, Zenon DEF CollectFails, Validate, Compare, Traversing, ReturnFromTraversal
<1>8. ASSUME NEW p \in Path, CollectFile(p) \/ CollectMissing(p) PROVE FALSE
  BY <1>8 DEF CollectFile, CollectMissing, Traversing
<1>9. CASE Crash \/ Open
  BY <1>9 DEF Crash, Open
<1>10. CASE \E q \in Strayable : OutsideWrite(q)
  BY <1>10 DEF OutsideWrite, owner
<1>11. CASE VerifyStart \/ Verify
  BY <1>11, ReaderFrame DEF owner
<1> QED BY <1>1, <1>2, <1>3, <1>4, <1>5, <1>6, <1>7, <1>8, <1>9, <1>10, <1>11
        DEF Next, Finalize

(* A published manifest stands until finalize withdraws it, and finalize   *)
(* does not begin again.                                                   *)
LEMMA SealStandsStep ==
  ASSUME Inv, SealStands, [Next]_vars PROVE SealStands'
<1>1. CASE UNCHANGED vars
  BY <1>1 DEF vars, owner, SealStands, Untouched, RunLooksSealed, IsFinalized
<1>2. CASE Next
  <2>1. ASSUME PublishManifest PROVE SealedFiles # Absent
    BY <2>1, SealIsContent DEF PublishManifest, Inv, SnapshotValidated, FinalizePhases
  <2>2. ASSUME result' = "sealed" PROVE RunLooksSealed(files)'
    <3>1. Untouched'
      BY <2>2 DEF Untouched
    <3>2. ~PublishManifest
      BY <2>2 DEF PublishManifest, SealStands
    <3>3. /\ RunLooksSealed(files)
          /\ files' = files \/ Crash \/ \E q \in Strayable : OutsideWrite(q)
      BY <1>2, <3>1, <3>2, UntouchedBefore DEF Untouched, SealStands, Inv, PublishedLooksFinal
    <3> QED BY <3>3, OtherKeepsLooks DEF Inv, RunLooksSealed, IsFinalized
  <2> QED BY <1>2, <2>1, <2>2, UntouchedBefore DEF SealStands, Untouched
<1> QED BY <1>1, <1>2

(* A run.json that says finalized is a run document.                       *)
LEMMA FinalizedRun ==
  ASSUME NEW d, IsDirectory(d), IsFinalized(d)
  PROVE  d[RunPath] \in RunDocument /\ d[RunPath].finalized_at \in Nat
<1>1. d[RunPath] \in RunDocument
  BY ContentOfPaths, PathsAreDistinct DEF IsDirectory, IsFinalized
<1> QED BY <1>1, BoundsAreNaturals DEF RunDocument

(* What a verification holds is the manifest it found when it began.       *)
LEMMA HeldStep ==
  ASSUME Next, rman' # Absent
  PROVE  \/ rman' = rman
         \/ VerifyStart /\ rman' = manifest /\ UNCHANGED <<manifest, pc, attempt>>
<1> USE DEF Conclude, Reject
<1>1. CASE VerifyStart
  BY <1>1 DEF VerifyStart, Verifying, owner
<1>2. CASE Verify
  BY <1>2 DEF Verify, VerifyFile, VerifyRunDocument, VerifyPresent, VerifyAdditions,
              VerifyManifestAgain
<1> QED BY <1>1, <1>2, ReaderFrame DEF reader

(* The number of finalize calls, and the calls that have one.              *)
LEMMA AttemptStep ==
  ASSUME Inv, Next
  PROVE  /\ attempt \in Nat /\ attempt' \in Nat
         /\ \/ attempt' = attempt /\ (pc' \in BeforePublishing => pc \in BeforePublishing)
            \/ attempt' = attempt + 1 /\ FinalizeStart
<1> USE DEF BeforePublishing
<1>0. attempt \in Nat /\ attempt' \in Nat
  BY StepInv, BoundsAreNaturals DEF Inv, TypeOK
<1>1. CASE Writes
  BY <1>0, <1>1, WritesFrame
     DEF Writes, CreateRun, SetState, SetReplayOf, WriteArtifact, WritePlan, WriteClaims,
         AppendExecution, WriteExecutions, WriteText, Call
<1>2. CASE EvidenceSteps
  BY <1>0, <1>2, EvidenceFrame
     DEF EvidenceSteps, AddEvidence, WriteAttachment, WriteRecord, Adding
<1>3. CASE FinalizeStart
  BY <1>0, <1>3 DEF FinalizeStart
<1>4. CASE Finalize
  <2>1. attempt' = attempt
    BY <1>4, Zenon
       DEF Finalize, CollectFile, CollectMissing, CollectFails, Validate, Compare, PublishRun,
           PublishManifest, ConfirmManifest, RestoreRun
  <2>2. pc \in BeforePublishing \/ pc' \notin BeforePublishing
    BY <1>4 DEF Finalize, CollectFile, CollectMissing, CollectFails, Validate, Compare,
                PublishRun, PublishManifest, ConfirmManifest, RestoreRun, Traversing
  <2> QED BY <1>0, <2>1, <2>2
<1>5. CASE Crash \/ Open \/ \E q \in Strayable : OutsideWrite(q)
  BY <1>0, <1>5 DEF Crash, Open, OutsideWrite, owner
<1>6. CASE VerifyStart \/ Verify
  BY <1>0, <1>6, ReaderFrame DEF owner
<1> QED BY <1>1, <1>2, <1>3, <1>4, <1>5, <1>6 DEF Next

(* Each manifest has the number of the finalize call that published it.    *)
LEMMA NumberedStep ==
  ASSUME Inv, SealsAreNumbered, [Next]_vars PROVE SealsAreNumbered'
<1>1. CASE UNCHANGED vars
  BY <1>1 DEF vars, owner, reader, SealsAreNumbered, Numbered, IsFinalized
<1>2. CASE Next
  <2>1. ASSUME manifest # Absent
        PROVE  IsFinalized(manifest) /\ manifest[RunPath].finalized_at \in Nat
    BY <2>1, FinalizedRun DEF Inv, TypeOK, SealedWasConsistent
  <2>2. ASSUME rman # Absent PROVE rman[RunPath].finalized_at \in Nat
    BY <2>2, FinalizedRun DEF Inv, TypeOK, SealsAreNumbered
  <2>3. ASSUME NEW n \in Nat, n <= attempt, pc \in BeforePublishing => n < attempt
        PROVE  n <= attempt' /\ (pc' \in BeforePublishing => n < attempt')
    BY <1>2, <2>3, AttemptStep
  <2>4. Numbered(manifest)'
    <3>1. CASE UNCHANGED manifest
      BY <2>1, <2>3, <3>1 DEF SealsAreNumbered, Numbered
    <3>2. CASE PublishManifest /\ manifest' = SealedFiles
      <4>1. Consistent(snap) /\ attempt' = attempt /\ pc' \notin BeforePublishing
        BY <3>2 DEF PublishManifest, Inv, SnapshotValidated, FinalizePhases, BeforePublishing
      <4>2. manifest'[RunPath] = FinalizedDocument /\ snap[RunPath] \in RunDocument
        BY <3>2, <4>1, SealIsContent, ValidatedRun DEF Inv, TypeOK
      <4>3. FinalizedDocument.finalized_at = attempt /\ attempt \in Nat
        BY <1>2, <4>2, AttemptStep DEF FinalizedDocument, RunDocument
      <4> QED BY <4>1, <4>2, <4>3 DEF Numbered
    <3> QED BY <1>2, <3>1, <3>2, SealStep DEF Numbered
  <2>5. Numbered(rman)' /\ (rman' # Absent => IsFinalized(rman'))
    <3>1. CASE rman' = Absent
      BY <3>1 DEF Numbered
    <3>2. CASE rman' # Absent /\ rman' = rman
      BY <2>2, <2>3, <3>2 DEF SealsAreNumbered, Numbered, IsFinalized
    <3>3. CASE rman' # Absent /\ rman' = manifest /\ UNCHANGED <<pc, attempt>>
      BY <2>1, <3>3 DEF SealsAreNumbered, Numbered, IsFinalized
    <3> QED BY <1>2, <3>1, <3>2, <3>3, HeldStep
  <2> QED BY <2>4, <2>5 DEF SealsAreNumbered, IsFinalized
<1> QED BY <1>1, <1>2

(* So a manifest that is published now is none a verification holds.       *)
LEMMA NewSealIsNew ==
  ASSUME Inv, SealsAreNumbered, PublishManifest, manifest' = SealedFiles
  PROVE  manifest' # rman
<1>1. Consistent(snap) /\ attempt \in Nat
  BY BoundsAreNaturals DEF PublishManifest, Inv, TypeOK, SnapshotValidated, FinalizePhases
<1>2. /\ manifest'[RunPath] = FinalizedDocument /\ manifest' # Absent
      /\ snap[RunPath] \in RunDocument
  BY <1>1, SealIsContent, ValidatedRun DEF Inv, TypeOK
<1>3. FinalizedDocument.finalized_at = attempt
  BY <1>2 DEF FinalizedDocument, RunDocument
<1>4. rman # Absent => rman[RunPath].finalized_at < attempt
  BY DEF PublishManifest, SealsAreNumbered, Numbered, BeforePublishing
<1>5. rman # Absent => rman[RunPath].finalized_at \in Nat
  BY FinalizedRun DEF SealsAreNumbered, Inv, TypeOK
<1> QED BY <1>1, <1>2, <1>3, <1>4, <1>5

(* Only the death of the owner leaves a temporary, and it stays.           *)
LEMMA LeftoverStep ==
  ASSUME TempPath \notin Strayable, Inv, LeftoverStays, [Next]_vars PROVE LeftoverStays'
<1>0. TempPath \in Path /\ IsDirectory(files)
  BY PathsAreDistinct DEF Inv, TypeOK
<1>1. files'[TempPath] \in {files[TempPath], Leftover}
  <2>1. CASE UNCHANGED vars
    BY <2>1 DEF vars
  <2>2. ASSUME NEW q \in Strayable, OutsideWrite(q) PROVE files'[TempPath] = files[TempPath]
    BY <1>0, <2>2 DEF OutsideWrite, IsDirectory
  <2>3. CASE Next /\ ~ \E q \in Strayable : OutsideWrite(q)
    <3>1. OwnerWrite
      BY <2>3, EveryWrite
    <3> QED BY <1>0, <3>1 DEF OwnerWrite, Touches, IsDirectory, Leftover
  <2> QED BY <2>1, <2>2, <2>3
<1>2. seen'[TempPath] \in {seen[TempPath], files[TempPath], Absent}
  BY <1>0, WalkStep
<1>3. snap'[TempPath] \in {snap[TempPath], seen[TempPath]}
  BY WalkStep
<1>4. \/ manifest' = manifest \/ manifest' = Absent
      \/ manifest'[TempPath] = snap[TempPath]
  <2>1. CASE PublishManifest /\ manifest' = SealedFiles
    <3>1. Consistent(snap) /\ TempPath # RunPath
      BY <2>1, RunIsNoOtherPath DEF PublishManifest, Inv, SnapshotValidated, FinalizePhases
    <3>2. SealedFiles[TempPath] = snap[TempPath]
      BY <1>0, <3>1, SealIsContent DEF Inv
    <3> QED BY <2>1, <3>2
  <2>2. CASE ~(PublishManifest /\ manifest' = SealedFiles)
    BY <2>2, SealStep DEF vars
  <2> QED BY <2>1, <2>2
<1> QED BY <1>1, <1>2, <1>3, <1>4 DEF LeftoverStays

(* No stray bytes from the future, in the manifest or in a verification.   *)
LEMMA SealDatedStep ==
  ASSUME Inv, AllDated, SealIsDated, [Next]_vars PROVE SealIsDated'
<1>1. strays \in Nat /\ strays' \in Nat /\ strays <= strays'
  BY StraysStep
<1>2. ASSUME NEW d, Dated(d) PROVE \A p \in Path : \A n \in 1..MaxStrays :
                                     d[p] = [stray |-> n] => n <= strays'
  BY <1>1, <1>2, BoundsAreNaturals DEF Dated
<1>3. ASSUME PublishManifest, manifest' = SealedFiles PROVE Dated(manifest')
  <2>1. Consistent(snap) /\ Dated(snap)
    BY <1>3 DEF PublishManifest, Inv, SnapshotValidated, FinalizePhases, AllDated
  <2>2. FinalizedDocument \notin Stray
    BY <2>1, FinalizedDocumentType, RunDocumentIsNotStray DEF Inv
  <2>3. \A p \in Path \ {RunPath} : SealedFiles[p] = snap[p]
    BY <2>1, SealIsContent DEF Inv
  <2>4. SealedFiles[RunPath] \notin Stray
    BY <2>1, <2>2, SealIsContent DEF Inv
  <2>5. strays' = strays
    BY <1>3 DEF PublishManifest
  <2> QED BY <1>3, <2>1, <2>3, <2>4 DEF Dated, Stray
<1>4. manifest' # Absent => Dated(manifest)'
  <2>1. CASE manifest' = manifest
    BY <1>2, <2>1 DEF SealIsDated, Dated
  <2>2. CASE PublishManifest /\ manifest' = SealedFiles
    <3>1. Dated(manifest') /\ strays' = strays
      BY <1>3, <2>2 DEF PublishManifest
    <3> QED BY <3>1 DEF Dated
  <2>3. manifest' \in {manifest, Absent} \/ (PublishManifest /\ manifest' = SealedFiles)
    BY SealStep DEF vars
  <2> QED BY <2>1, <2>2, <2>3
<1>5. rman' # Absent => Dated(rman)'
  <2>1. CASE rman' # Absent /\ rman' = rman
    BY <1>2, <2>1 DEF SealIsDated, Dated
  <2>2. CASE rman' = manifest /\ rman' # Absent
    BY <1>2, <2>2 DEF SealIsDated, Dated
  <2>3. CASE UNCHANGED vars
    BY <2>1, <2>3 DEF vars, reader
  <2> QED BY <2>1, <2>2, <2>3, HeldStep
<1> QED BY <1>4, <1>5 DEF SealIsDated

(* While the owner calls nothing, sealed bytes that are gone do not come   *)
(* back: a stray write has bytes of its own, and a temporary stays.        *)
LEMMA SealedBytesStayGone ==
  ASSUME TempPath \notin Strayable, Inv, LeftoverStays, SealIsDated, rpc # "idle",
         manifest = rman, NEW p \in Present(rman), files[p] # rman[p],
         \/ files' = files
         \/ Crash
         \/ \E q \in Strayable : OutsideWrite(q)
  PROVE  files'[p] # rman[p]
<1>0. /\ p \in Path /\ rman[p] # Absent /\ IsDirectory(files) /\ rman # Absent
      /\ TempPath \in Path
  BY PathsAreDistinct DEF Present, Inv, TypeOK, ReaderHoldsSeal
<1>1. CASE files' = files
  BY <1>1
<1>2. CASE Crash
  <2>1. p # TempPath
    BY <1>0 DEF LeftoverStays
  <2> QED BY <1>0, <1>2, <2>1 DEF Crash, IsDirectory
<1>3. ASSUME NEW q \in Strayable, OutsideWrite(q) PROVE files'[p] # rman[p]
  <2>1. strays \in Nat /\ strays + 1 \in 1..MaxStrays
    BY <1>3, BoundsAreNaturals DEF OutsideWrite, Inv, TypeOK
  <2>2. rman[p] # [stray |-> strays + 1]
    BY <1>0, <2>1 DEF SealIsDated, Dated
  <2>3. files'[p] \in {files[p], Absent, [stray |-> strays + 1]}
    BY <1>0, <1>3 DEF OutsideWrite, IsDirectory
  <2> QED BY <1>0, <2>2, <2>3
<1> QED BY <1>1, <1>2, <1>3

(* A mismatch with the seal is not lost during the second pass.            *)
LEMMA LostSealStep ==
  ASSUME TempPath \notin Strayable, Inv, SealStands, SealsAreNumbered, LeftoverStays,
         SealIsDated, LostSealShows, [Next]_vars
  PROVE  LostSealShows'
<1> USE DEF Conclude, Reject
<1>1. SUFFICES ASSUME rpc' = "present_files", ~rheld', Untouched', manifest' = rman'
               PROVE  (\E p \in Present(rman) : ReaderMismatch(p))'
  BY DEF LostSealShows
<1>2. CASE UNCHANGED vars
  BY <1>1, <1>2 DEF vars, owner, reader, LostSealShows, Untouched, ReaderMismatch, Present
<1>3. CASE VerifyRunDocument
  <2>1. /\ rman' = rman /\ rseen' = Nothing /\ files' = files
        /\ rheld' = (\A p \in Present(rman) : files[p] = rman[p])
    BY <1>1, <1>3 DEF VerifyRunDocument, Verifying
  <2>2. PICK p \in Present(rman) : files[p] # rman[p]
    BY <1>1, <2>1, Zenon
  <2>3. rseen'[p] = Absent /\ p \in Present(rman)'
    BY <2>1, <2>2 DEF Nothing, Present
  <2> QED BY <2>1, <2>2, <2>3 DEF ReaderMismatch
<1>4. CASE Next /\ ~VerifyRunDocument
  <2>1. rpc = "present_files" /\ rman' = rman /\ rheld' = rheld
    BY <1>1, <1>4, ReaderFrame
       DEF reader, VerifyStart, Verify, VerifyFile, VerifyPresent, VerifyAdditions,
           VerifyManifestAgain
  <2>2. ~(PublishManifest /\ manifest' = SealedFiles)
    BY <1>1, <2>1, NewSealIsNew
  <2>3. /\ Untouched /\ manifest' = manifest
        /\ \/ files' = files
           \/ Crash
           \/ \E q \in Strayable : OutsideWrite(q)
    BY <1>1, <1>4, <2>2, UntouchedBefore
  <2>4. PICK p \in Present(rman) : ReaderMismatch(p)
    BY <1>1, <2>1, <2>3 DEF LostSealShows
  <2>5. /\ p \in Present(rman)' /\ p \in Path /\ IsDirectory(rseen) /\ rman[p] # Absent
    BY <2>1, <2>4 DEF Present, Inv, TypeOK
  <2>6. files[p] # rman[p] => files'[p] # rman[p]
    BY <1>1, <2>1, <2>3, SealedBytesStayGone
  <2>7. ASSUME NEW q \in Path, VerifyPresent(q) PROVE ReaderMismatch(p)'
    <3>1. files' = files
      BY <2>7 DEF VerifyPresent, Verifying
    <3>2. \/ rseen' = rseen
          \/ files[q] # Absent /\ rseen[q] = Absent /\ rseen' = [rseen EXCEPT ![q] = files[q]]
      BY <1>1, <2>7 DEF VerifyPresent
    <3> QED BY <2>1, <2>4, <2>5, <3>1, <3>2 DEF ReaderMismatch, IsDirectory
  <2>8. ASSUME rseen' = rseen PROVE ReaderMismatch(p)'
    BY <2>1, <2>4, <2>6, <2>8 DEF ReaderMismatch
  <2>9. rseen' = rseen \/ \E q \in Path : VerifyPresent(q)
    BY <1>1, <1>4, <2>1, ReaderFrame
       DEF reader, VerifyStart, Verify, VerifyFile, VerifyAdditions, VerifyManifestAgain
  <2> QED BY <2>5, <2>7, <2>8, <2>9
<1> QED BY <1>2, <1>3, <1>4

(* So the comparison with the manifest accepts no seal that was not there. *)
LEMMA ComparedStep ==
  ASSUME Inv, SealStands, SealsAreNumbered, LostSealShows, ComparedIsHeld, [Next]_vars
  PROVE  ComparedIsHeld'
<1> USE DEF Conclude, Reject
<1>1. SUFFICES ASSUME rpc' = "manifest_again", Untouched', manifest' = rman' PROVE rheld'
  BY DEF ComparedIsHeld
<1>2. CASE UNCHANGED vars
  BY <1>1, <1>2 DEF vars, owner, reader, ComparedIsHeld, Untouched
<1>3. CASE VerifyAdditions
  <2>1. /\ rpc = "present_files" /\ rseen = rman /\ UNCHANGED <<rman, rheld, manifest, pc, result>>
    BY <1>1, <1>3 DEF VerifyAdditions, Verifying, owner
  <2>2. \A p \in Present(rman) : ~ReaderMismatch(p)
    BY <2>1 DEF ReaderMismatch, Present
  <2> QED BY <1>1, <2>1, <2>2 DEF LostSealShows, Untouched
<1>4. CASE Next /\ ~VerifyAdditions
  <2>1. rpc = "manifest_again" /\ rman' = rman /\ rheld' = rheld
    BY <1>1, <1>4, ReaderFrame
       DEF reader, VerifyStart, Verify, VerifyFile, VerifyPresent, VerifyRunDocument,
           VerifyManifestAgain
  <2>2. ~(PublishManifest /\ manifest' = SealedFiles)
    BY <1>1, <2>1, NewSealIsNew
  <2> QED BY <1>1, <1>4, <2>1, <2>2, UntouchedBefore DEF ComparedIsHeld
<1> QED BY <1>2, <1>3, <1>4

(* An accepted seal was there, if it is still the one.                     *)
LEMMA AcceptedStep ==
  ASSUME Inv, SealStands, SealsAreNumbered, ComparedIsHeld, AcceptedIsHeld, [Next]_vars
  PROVE  AcceptedIsHeld'
<1> USE DEF Conclude, Reject
<1>1. SUFFICES ASSUME rresult' = "ok", Untouched', manifest' = rman' PROVE rheld'
  BY DEF AcceptedIsHeld
<1>2. CASE VerifyManifestAgain
  <2>1. /\ rpc = "manifest_again" /\ manifest = rman
        /\ UNCHANGED <<rheld, pc, result>>
    BY <1>1, <1>2 DEF VerifyManifestAgain, Verifying, owner
  <2> QED BY <1>1, <2>1 DEF ComparedIsHeld, Untouched
<1>3. CASE UNCHANGED vars
  BY <1>1, <1>3 DEF vars, owner, reader, AcceptedIsHeld, Untouched
<1>4. CASE Next /\ ~VerifyManifestAgain
  <2>1. rresult = "ok" /\ rheld' = rheld /\ rman' = rman
    BY <1>1, <1>4, ReaderFrame
       DEF reader, Inv, ReaderHoldsSeal, VerifyStart, Verify, VerifyFile, VerifyPresent,
           VerifyRunDocument, VerifyAdditions
  <2>2. ~(PublishManifest /\ manifest' = SealedFiles)
    BY <1>1, <2>1, NewSealIsNew
  <2>3. Untouched /\ manifest' = manifest
    BY <1>1, <1>4, <2>2, UntouchedBefore
  <2> QED BY <1>1, <2>1, <2>3 DEF AcceptedIsHeld
<1> QED BY <1>2, <1>3, <1>4

(* What the verifications of a run have seen holds throughout.             *)
THEOREM ReaderHistoryHolds ==
  ASSUME TempPath \notin Strayable PROVE Spec => []ReaderHistory
<1>1. Init => ReaderHistory
  <2>1. TempPath \in Path
    BY PathsAreDistinct
  <2> QED BY <2>1
          DEF Init, ReaderHistory, SealStands, Untouched, SealsAreNumbered, Numbered,
              LeftoverStays, SealIsDated, LostSealShows, ComparedIsHeld, AcceptedIsHeld, Nothing
<1>2. Inv /\ History /\ ReaderHistory /\ [Next]_vars => ReaderHistory'
  BY SealStandsStep, NumberedStep, LeftoverStep, SealDatedStep, LostSealStep, ComparedStep,
     AcceptedStep
     DEF History, ReaderHistory
<1> QED BY <1>1, <1>2, InvHolds, HistoryHolds, PTL DEF Spec

(* A run that verify_integrity_snapshot accepts was all there at one       *)
(* instant, with the sealed contents, whatever other processes did while   *)
(* it was read, if its bundle.json is that of the finalize after which the *)
(* owner has called nothing.  (The temporaries of the code have fresh      *)
(* names; the model has one for all, so nobody may remove it.)             *)
THEOREM AcceptedAtOneInstant ==
  ASSUME TempPath \notin Strayable PROVE Spec => []AcceptIsSimultaneous
<1>1. ReaderHistory => AcceptIsSimultaneous
  BY DEF ReaderHistory, AcceptedIsHeld, AcceptIsSimultaneous, Untouched
<1> QED BY <1>1, ReaderHistoryHolds, PTL

-----------------------------------------------------------------------------
(* No verification refuses without a reason.                               *)

(* Nobody but the owner writes, and it left no temporary.                  *)
Alone == strays = 0 /\ files[TempPath] = Absent

(* Without stray writes the traversals of finalize see the directory as it *)
(* is, and the one of the verification sees what is sealed.                *)
WalkIsFaithful ==
  pc \in {"snapshotting", "comparing"} /\ strays = 0 =>
    \A p \in Path : IF seen[p] = Absent THEN p \in todo \/ files[p] = Absent
                                        ELSE seen[p] = files[p]

CapturedIsThere ==
  strays = 0 =>
    /\ pc = "sealing" => files = snap
    /\ pc = "manifesting" => files = SealedFiles

SealedIsThere == Alone /\ Untouched => files = manifest

ReaderIsFaithful ==
  rpc = "present_files" /\ Alone /\ Untouched /\ manifest = rman =>
    \A p \in Path : IF rseen[p] = Absent THEN p \in rtodo <=> rman[p] # Absent
                                         ELSE rseen[p] = rman[p]

Undisturbed == /\ SealStands /\ SealsAreNumbered
               /\ WalkIsFaithful /\ CapturedIsThere /\ SealedIsThere /\ ReaderIsFaithful

(* A stray write is counted for good.                                      *)
LEMMA NoStrayBefore ==
  ASSUME Inv, [Next]_vars, strays' = 0
  PROVE  strays = 0 /\ ~ \E q \in Strayable : OutsideWrite(q)
<1>1. strays \in Nat /\ strays <= 0
  BY StraysStep
<1> QED BY <1>1 DEF OutsideWrite

(* Inside finalize only finalize, a verification or nothing goes on.       *)
LEMMA InsideFinalize ==
  ASSUME Inv, [Next]_vars, strays' = 0, pc' \in {"snapshotting", "comparing", "sealing", "manifesting"}
  PROVE  \/ FinalizeStart \/ Finalize
         \/ UNCHANGED <<files, manifest, owner, bounds>>
<1>1. ~ \E q \in Strayable : OutsideWrite(q)
  BY NoStrayBefore
<1>2. ~Writes /\ ~EvidenceSteps /\ ~Crash /\ ~Open
  BY WritesFrame, EvidenceFrame DEF Crash, Open
<1> QED BY <1>1, <1>2, ReaderFrame DEF Next, vars

(* A traversal of finalize sees the directory as it is.                    *)
LEMMA FaithfulWalkStep ==
  ASSUME Inv, WalkIsFaithful, [Next]_vars PROVE WalkIsFaithful'
<1>1. SUFFICES ASSUME pc' \in {"snapshotting", "comparing"}, strays' = 0, NEW p \in Path
               PROVE  IF seen'[p] = Absent THEN p \in todo' \/ files'[p] = Absent
                                           ELSE seen'[p] = files'[p]
  BY DEF WalkIsFaithful
<1>2. strays = 0 /\ IsDirectory(seen) /\ Nothing[p] = Absent
  BY <1>1, NoStrayBefore DEF Inv, TypeOK, Nothing
<1>3. CASE FinalizeStart \/ Validate
  <2>1. todo' = Present(files) /\ seen' = Nothing /\ files' = files
    BY <1>1, <1>3 DEF FinalizeStart, Validate, ReturnFromTraversal
  <2> QED BY <1>2, <2>1 DEF Present
<1>4. ASSUME NEW q \in Path, CollectFile(q) \/ CollectMissing(q)
      PROVE  IF seen'[p] = Absent THEN p \in todo' \/ files'[p] = Absent
                                  ELSE seen'[p] = files'[p]
  <2>1. IF seen[p] = Absent THEN p \in todo \/ files[p] = Absent ELSE seen[p] = files[p]
    BY <1>2, <1>4 DEF WalkIsFaithful, CollectFile, CollectMissing, Traversing
  <2>2. CASE CollectFile(q)
    BY <1>2, <2>1, <2>2 DEF CollectFile, IsDirectory
  <2>3. CASE CollectMissing(q)
    BY <2>1, <2>3 DEF CollectMissing
  <2> QED BY <1>4, <2>2, <2>3
<1>5. CASE UNCHANGED <<files, manifest, owner, bounds>>
  BY <1>1, <1>2, <1>5 DEF owner, walk, WalkIsFaithful
<1>6. ~(CollectFails \/ Compare \/ PublishRun \/ PublishManifest \/ ConfirmManifest \/ RestoreRun)
  BY <1>1 DEF CollectFails, Compare, PublishRun, PublishManifest, ConfirmManifest, RestoreRun,
              ReturnFromTraversal
<1> QED BY <1>1, <1>3, <1>4, <1>5, <1>6, InsideFinalize DEF Finalize

(* What finalize captured is what is there when it publishes.              *)
LEMMA CapturedStep ==
  ASSUME Inv, WalkIsFaithful, CapturedIsThere, [Next]_vars PROVE CapturedIsThere'
<1>1. SUFFICES ASSUME strays' = 0, pc' \in {"sealing", "manifesting"}
               PROVE  /\ pc' = "sealing" => files' = snap'
                      /\ pc' = "manifesting" => files' = SealedFiles'
  BY DEF CapturedIsThere
<1>2. strays = 0 /\ IsDirectory(files) /\ IsDirectory(seen)
  BY <1>1, NoStrayBefore DEF Inv, TypeOK
<1>3. CASE Compare
  <2>1. /\ pc = "comparing" /\ todo = {} /\ seen = snap /\ files' = files /\ snap' = snap
        /\ pc' = "sealing"
    BY <1>1, <1>3 DEF Compare, ReturnFromTraversal
  <2>2. \A p \in Path : seen[p] = files[p]
    BY <1>2, <2>1 DEF WalkIsFaithful
  <2>3. seen = files
    BY <1>2, <2>2 DEF IsDirectory
  <2> QED BY <2>1, <2>3
<1>4. CASE PublishRun
  <2>1. PICK o \in Outcome : /\ AtomicWrite(RunPath, FinalizedDocument, o)
                             /\ pc' = IF o = "ok" THEN "manifesting" ELSE "restoring"
    BY <1>4 DEF PublishRun
  <2>2. pc' = "manifesting" /\ files' = [files EXCEPT ![RunPath] = FinalizedDocument]
    BY <1>1, <2>1 DEF AtomicWrite, AtomicWriteAfter
  <2>3. files = snap /\ snap' = snap /\ attempt' = attempt
    BY <1>2, <1>4 DEF PublishRun, CapturedIsThere
  <2> QED BY <2>2, <2>3 DEF SealedFiles, FinalizedDocument
<1>5. CASE UNCHANGED <<files, manifest, owner, bounds>>
  BY <1>1, <1>2, <1>5 DEF owner, CapturedIsThere, SealedFiles, FinalizedDocument
<1>6. ~FinalizeStart
  BY <1>1 DEF FinalizeStart
<1>7. ~(CollectFails \/ Validate \/ PublishManifest \/ ConfirmManifest \/ RestoreRun)
  BY <1>1 DEF CollectFails, Validate, PublishManifest, ConfirmManifest, RestoreRun,
              ReturnFromTraversal
<1>8. ~ \E p \in Path : CollectFile(p) \/ CollectMissing(p)
  BY <1>1 DEF CollectFile, CollectMissing, Traversing
<1> QED BY <1>1, <1>3, <1>4, <1>5, <1>6, <1>7, <1>8, InsideFinalize DEF Finalize

(* While the owner calls nothing and nobody else writes, no file changes.  *)
LEMMA QuietStep ==
  ASSUME Inv, SealStands, Next, Untouched', Alone', ~(PublishManifest /\ manifest' = SealedFiles)
  PROVE  Untouched /\ Alone /\ manifest' = manifest /\ files' = files
<1>1. /\ Untouched /\ manifest' = manifest
      /\ files' = files \/ Crash
  BY UntouchedBefore, NoStrayBefore DEF Alone
<1>2. CASE Crash /\ files' # files
  <2>1. files'[TempPath] = [opaque |-> "temp"]
    BY <1>2, PathsAreDistinct DEF Crash, Inv, TypeOK, IsDirectory
  <2>2. [opaque |-> "temp"] \in Content
    BY DEF Content, Opaque
  <2> QED BY <2>1, <2>2, AbsentIsNoContent DEF Alone
<1> QED BY <1>1, <1>2, NoStrayBefore DEF Alone

(* The directory is the one that is sealed.                                *)
LEMMA SealedThereStep ==
  ASSUME Inv, SealStands, CapturedIsThere, SealedIsThere, [Next]_vars PROVE SealedIsThere'
<1>1. SUFFICES ASSUME Alone', Untouched' PROVE files' = manifest'
  BY DEF SealedIsThere
<1>2. CASE UNCHANGED vars
  BY <1>1, <1>2 DEF vars, owner, bounds, SealedIsThere, Alone, Untouched
<1>3. CASE PublishManifest /\ manifest' = SealedFiles
  <2>1. pc = "manifesting" /\ files' = files /\ strays = 0
    BY <1>1, <1>3, NoStrayBefore DEF PublishManifest, Alone
  <2> QED BY <1>3, <2>1 DEF CapturedIsThere
<1>4. CASE Next /\ ~(PublishManifest /\ manifest' = SealedFiles)
  BY <1>1, <1>4, QuietStep DEF SealedIsThere
<1> QED BY <1>2, <1>3, <1>4

(* The second pass of a verification sees what is sealed.                  *)
LEMMA FaithfulReaderStep ==
  ASSUME Inv, SealStands, SealsAreNumbered, SealedIsThere, ReaderIsFaithful, [Next]_vars
  PROVE  ReaderIsFaithful'
<1> USE DEF Conclude, Reject
<1>1. SUFFICES ASSUME rpc' = "present_files", Alone', Untouched', manifest' = rman',
                      NEW p \in Path
               PROVE  IF rseen'[p] = Absent THEN p \in rtodo' <=> rman'[p] # Absent
                                            ELSE rseen'[p] = rman'[p]
  BY DEF ReaderIsFaithful
<1>2. CASE UNCHANGED vars
  BY <1>1, <1>2 DEF vars, owner, reader, bounds, ReaderIsFaithful, Alone, Untouched
<1>3. CASE Next
  <2>1. rpc # "idle" /\ rman' = rman
    BY <1>1, <1>3, ReaderFrame
       DEF reader, VerifyStart, Verify, VerifyFile, VerifyRunDocument, VerifyPresent,
           VerifyAdditions, VerifyManifestAgain
  <2>2. Untouched /\ Alone /\ manifest' = manifest /\ files' = files
    BY <1>1, <1>3, <2>1, NewSealIsNew, QuietStep
  <2>3. files = rman /\ IsDirectory(rseen)
    BY <1>1, <2>1, <2>2 DEF SealedIsThere, Inv, TypeOK
  <2>4. CASE VerifyRunDocument
    <3>1. rtodo' = Present(files) /\ rseen' = Nothing
      BY <1>1, <2>4 DEF VerifyRunDocument
    <3> QED BY <2>1, <2>3, <3>1 DEF Nothing, Present
  <2>5. ASSUME NEW q \in Path, VerifyPresent(q)
        PROVE  IF rseen'[p] = Absent THEN p \in rtodo' <=> rman'[p] # Absent
                                     ELSE rseen'[p] = rman'[p]
    <3>1. \A r \in Path : IF rseen[r] = Absent THEN r \in rtodo <=> rman[r] # Absent
                                               ELSE rseen[r] = rman[r]
      BY <1>1, <2>1, <2>2, <2>5 DEF VerifyPresent, ReaderIsFaithful
    <3>2. \/ /\ rseen' = [rseen EXCEPT ![q] = files[q]] /\ rtodo' = rtodo \ {q}
             /\ files[q] # Absent
          \/ /\ rseen' = rseen /\ rtodo' = rtodo \ {q} /\ files[q] = Absent
      BY <1>1, <2>5 DEF VerifyPresent
    <3> QED BY <2>1, <2>3, <3>1, <3>2 DEF IsDirectory
  <2>6. CASE UNCHANGED <<rpc, rseen, rtodo>>
    BY <1>1, <2>1, <2>2, <2>6 DEF ReaderIsFaithful
  <2>7. \/ VerifyRunDocument
        \/ \E q \in Path : VerifyPresent(q)
        \/ UNCHANGED <<rpc, rseen, rtodo>>
    BY <1>1, <1>3, ReaderFrame
       DEF reader, VerifyStart, Verify, VerifyFile, VerifyAdditions, VerifyManifestAgain
  <2> QED BY <2>4, <2>5, <2>6, <2>7
<1> QED BY <1>2, <1>3

(* A refusal has its reason.                                               *)
LEMMA RefusalStep ==
  Inv /\ Undisturbed /\ [Next]_vars =>
    [rresult # "rejected" /\ rresult' = "rejected" /\ result = "sealed"
       => \/ rpc # "idle" /\ manifest # rman
          \/ strays > 0 \/ files[TempPath] # Absent]_vars
<1> SUFFICES ASSUME Inv, Undisturbed, Next, rresult # "rejected",
                    rresult' = "rejected", result = "sealed", rpc # "idle" => manifest = rman,
                    ~(strays > 0), files[TempPath] = Absent
             PROVE  FALSE
  OBVIOUS
<1> USE DEF Conclude, Reject
<1>1. strays = 0 /\ manifest # Absent
  BY BoundsAreNaturals, InputsAreContent
     DEF Inv, TypeOK, Undisturbed, SealStands, Untouched
<1>8. ~VerifyStart
  BY <1>1 DEF VerifyStart
<1>9. rpc # "idle" /\ manifest = rman
  BY <1>8, ReaderFrame DEF reader, Verify, VerifyFile, VerifyRunDocument, VerifyPresent,
                           VerifyAdditions, VerifyManifestAgain
<1>2. /\ files = rman /\ IsDirectory(rman) /\ IsDirectory(rseen) /\ IsFinalized(rman)
      /\ rtodo \subseteq Path
  BY <1>1, <1>9 DEF Undisturbed, SealedIsThere, Alone, Untouched, Inv, TypeOK, SealsAreNumbered
<1>3. rpc = "present_files" =>
        \A p \in Path : IF rseen[p] = Absent THEN p \in rtodo <=> rman[p] # Absent
                                             ELSE rseen[p] = rman[p]
  BY <1>1, <1>9 DEF Undisturbed, ReaderIsFaithful, Alone, Untouched
<1>4. ASSUME NEW p \in Path, VerifyPresent(p) PROVE FALSE
  <2>1. rpc = "present_files" /\ p \in rtodo /\ files[p] = Absent
    BY <1>4 DEF VerifyPresent
  <2>2. rseen[p] # Absent
    BY <1>2, <1>3, <2>1
  <2> QED BY <1>2, <1>3, <2>1, <2>2
<1>5. ASSUME VerifyAdditions PROVE FALSE
  <2>1. rpc = "present_files" /\ rtodo = {} /\ rseen # rman
    BY <1>5 DEF VerifyAdditions
  <2>2. \A p \in Path : rseen[p] = rman[p]
    BY <1>3, <2>1
  <2> QED BY <1>2, <2>1, <2>2 DEF IsDirectory
<1> QED BY <1>8, <1>9, <1>1, <1>2, <1>4, <1>5, ReaderFrame
        DEF reader, Verify, VerifyFile, VerifyRunDocument, VerifyManifestAgain

(* Without stray writes what is sealed is what is there.                   *)
THEOREM UndisturbedRuns == Spec => []Undisturbed
<1>1. Init => Undisturbed
  BY DEF Init, Undisturbed, SealStands, Untouched, SealsAreNumbered, Numbered,
         WalkIsFaithful, CapturedIsThere, SealedIsThere, ReaderIsFaithful
<1>2. Inv /\ Undisturbed /\ [Next]_vars => Undisturbed'
  BY SealStandsStep, NumberedStep, FaithfulWalkStep, CapturedStep, SealedThereStep,
     FaithfulReaderStep
     DEF Undisturbed
<1> QED BY <1>1, <1>2, InvHolds, PTL DEF Spec

(* A verification raises no false alarm: if the owner has called nothing   *)
(* since its finalize, it refuses only because bundle.json is another,     *)
(* another process has changed a file, or a temporary was left behind.     *)
THEOREM NoFalseAlarm == Spec => RefusalIsJustified
BY InvHolds, UndisturbedRuns, RefusalStep, PTL DEF Spec, RefusalIsJustified

=============================================================================
