------------------------------ MODULE Dossier ------------------------------
(***************************************************************************)
(* The contents of one run directory, and the structural validation that   *)
(* RunStore::finalize applies to them before it seals the run.             *)
(*                                                                         *)
(* A run directory is a function from paths to contents; Absent stands for *)
(* a path without a file.  SHA-256 is taken to be injective, so a digest   *)
(* map and the map of the contents it was computed from are the same       *)
(* value, and a manifest is a function from paths to contents as well.     *)
(***************************************************************************)
EXTENDS Naturals, FiniteSets

CONSTANTS
  EvidenceIds,   \* ids of evidence records; an id is also its record's path
  Attachments,   \* paths of attachment payloads (logs, captured outputs)
  Payloads,      \* payload bytes a provider may hand over
  CheckIds, ClaimIds,
  MaxFinalize,   \* bound: calls of finalize that get as far as its snapshot
  MaxStrays,     \* bound: writes by processes other than the owner
  Absent         \* no file at a path, no entry in a manifest

RunPath == "run.json"
ArtifactPath == "artifact.json"
PlanPath == "plan.json"
ClaimsPath == "claims.json"
ExecutionsPath == "executions.json"
ReportPath == "report.md"        \* stands for every file write_text writes
TempPath == "leftover.tmp"       \* a temporary a crashed atomic_write leaves

Documents == {RunPath, ArtifactPath, PlanPath, ClaimsPath, ExecutionsPath}
Path == Documents \cup {ReportPath, TempPath} \cup EvidenceIds \cup Attachments

ASSUME PathsDisjoint ==
  /\ EvidenceIds \cap Attachments = {}
  /\ (EvidenceIds \cup Attachments) \cap (Documents \cup {ReportPath, TempPath}) = {}

ASSUME BoundsAreNaturals == MaxFinalize \in Nat /\ MaxStrays \in Nat

RunState == {"planning", "running", "finalizing", "finalized", "aborted"}

(* finalized_at_utc is abstracted to the number of the finalize call that  *)
(* wrote it, 0 while there is none.                                        *)
RunDocument == [state : RunState, replay_of : BOOLEAN, finalized_at : 0..MaxFinalize]

Attachment == [path : Attachments, payload : Payloads]

Evidence == [attachments : SUBSET Attachment, derived_from : SUBSET EvidenceIds]

Execution == [check : CheckIds, evidence_ids : SUBSET EvidenceIds]

ExecutionsDocument == [executions : SUBSET Execution]

(* A plan names, for each check, the claims it evaluates.  sound says      *)
(* whether the recorded plan digest is the one of the recorded checks.     *)
PlanDocument == [checks : UNION {[S -> SUBSET ClaimIds] : S \in SUBSET CheckIds},
                 sound : BOOLEAN]

ClaimsDocument == [claims : SUBSET ClaimIds]

Payload == [bytes : Payloads]

Opaque == [opaque : {"artifact", "report", "temp"}]

(* What a process other than the owner leaves in a file: bytes no owner    *)
(* wrote and that parse as none of the JSON documents.                     *)
Stray == [stray : 1..MaxStrays]

Content == RunDocument \cup Opaque \cup PlanDocument \cup ClaimsDocument
           \cup ExecutionsDocument \cup Evidence \cup Payload \cup Stray

ASSUME AbsentIsNoContent == Absent \notin Content

(* What the owner puts at a path.                                          *)
ContentAt(p) ==
  CASE p = RunPath -> RunDocument
    [] p = PlanPath -> PlanDocument
    [] p = ClaimsPath -> ClaimsDocument
    [] p = ExecutionsPath -> ExecutionsDocument
    [] p \in {ArtifactPath, ReportPath, TempPath} -> Opaque
    [] p \in EvidenceIds -> Evidence
    [] p \in Attachments -> Payload

IsDirectory(d) ==
  /\ d \in [Path -> Content \cup {Absent}]
  /\ \A p \in Path : d[p] \in ContentAt(p) \cup Stray \cup {Absent}

ASSUME AbsentIsNoDirectory == ~IsDirectory(Absent)

Nothing == [p \in Path |-> Absent]

Present(d) == {p \in Path : d[p] # Absent}

Unparseable(c) == c \in Stray

IsFinalized(d) ==
  d[RunPath] \notin Stray \cup {Absent} /\ d[RunPath].state = "finalized"

-----------------------------------------------------------------------------
(* The checks of finalize, in the order of the source.                     *)

(* Every semantic document deserialises (SemanticSnapshot::capture_file).  *)
Deserializes(d) ==
  \A p \in Documents \cup EvidenceIds : ~Unparseable(d[p])

RequiredDocumentsPresent(d) ==
  \A p \in {RunPath, ArtifactPath, PlanPath, ClaimsPath} : d[p] # Absent

RecordedEvidence(d) == Present(d) \cap EvidenceIds

AttachmentsIntact(d) ==
  \A e \in RecordedEvidence(d) : \A a \in d[e].attachments :
    d[a.path] = [bytes |-> a.payload]

ClaimReferencesResolve(d) ==
  \A c \in DOMAIN d[PlanPath].checks :
    d[PlanPath].checks[c] \subseteq d[ClaimsPath].claims

RecordedExecutions(d) ==
  IF d[ExecutionsPath] = Absent THEN {} ELSE d[ExecutionsPath].executions

ExecutionReferencesResolve_ChecksOnly(d) ==
  \A x \in RecordedExecutions(d) : x.check \in DOMAIN d[PlanPath].checks

ExecutionReferencesResolve(d) ==
  \A x \in RecordedExecutions(d) :
    /\ x.check \in DOMAIN d[PlanPath].checks
    /\ x.evidence_ids \subseteq RecordedEvidence(d)

DerivationsResolve(d) ==
  \A e \in RecordedEvidence(d) :
    d[e].derived_from \subseteq RecordedEvidence(d) \ {e}

(* Everything finalize demands of a directory but the state of the run.    *)
Consistent(d) ==
  /\ Deserializes(d)
  /\ RequiredDocumentsPresent(d)
  /\ d[PlanPath].sound
  /\ AttachmentsIntact(d)
  /\ ClaimReferencesResolve(d)
  /\ ExecutionReferencesResolve(d)
  /\ DerivationsResolve(d)

=============================================================================
