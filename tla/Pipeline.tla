------------------------------ MODULE Pipeline ------------------------------
(***************************************************************************)
(* The commands verify and replay of scirust-verify: pipeline::prepare and *)
(* pipeline::run_verify, from the manifest to the sealed dossier and the   *)
(* exit code, one command at a time.  The manifest and the source tree are *)
(* edited while a command runs, calls of the store and of the runner fail, *)
(* and a command can be killed between any two steps.                      *)
(*                                                                         *)
(* The store is used through what EvidenceStore shows of it: a write takes *)
(* place or returns an error, and finalize seals the run or leaves it open.*)
(***************************************************************************)
EXTENDS Planning, Sequences, FiniteSets, Naturals

CONSTANTS
  Absent,
  Broken,      \* a manifest that does not load
  Manifests,   \* what scirust-verify.toml may say, NoManifest if it may be missing
  CliProfiles, \* values of --profile, Unset for none
  IsCargo,     \* there is a Cargo.toml
  Repository,  \* where the .git is: "root", "above" the project, or "none"
  Trees,       \* versions of the source tree
  DirtyTrees,  \* those with uncommitted changes
  DossierIgnored, \* .gitignore names .scirust-verify, or --output is elsewhere
  IdBefore,    \* <<i, j>>: check id i sorts before j
  GitFails,    \* git status may fail
  LostReads,   \* reads of executions.json may fail
  MaxRuns, MaxEdits, MaxFaults, MaxKills \* bounds

ASSUME PipelineAssumption ==
  /\ \A m \in Manifests : IsManifest(m)
  /\ CliProfiles \subseteq Profile \cup {Unset}
  /\ IsCargo \in BOOLEAN /\ GitFails \in BOOLEAN /\ LostReads \in BOOLEAN
  /\ DossierIgnored \in BOOLEAN /\ DirtyTrees \subseteq Trees
  /\ Repository \in {"root", "above", "none"}
  /\ MaxRuns \in Nat /\ MaxEdits \in Nat /\ MaxFaults \in Nat /\ MaxKills \in Nat

Loadable == Manifests \cup {NoManifest}

(* Manifest::validate refuses an id that is used twice, and the providers  *)
(* put their names in front of the ids, so none is an id of another one.   *)
BuiltIn == {CargoStep[s].id : s \in DOMAIN CargoStep}
           \cup {"cargo:metadata", "cargo:deny", "determinism:cross-process",
                 "core:source-clean"}

CheckIds == BuiltIn \cup {c.id : c \in CustomChecks \cup NumericChecks}

ASSUME IdsAreDistinct ==
  /\ \A m \in Manifests :
       /\ IsFiniteSet(m.custom) /\ IsFiniteSet(m.numeric)
       /\ \A c, d \in m.custom : c.id = d.id => c = d
       /\ \A c, d \in m.numeric : c.id = d.id => c = d
  /\ \A c \in CustomChecks, d \in NumericChecks : c.id # d.id
  /\ \A c \in CustomChecks \cup NumericChecks : c.id \notin BuiltIn

ClaimNames == {CargoStep[s].claim : s \in DOMAIN CargoStep}
              \cup {"dependency_snapshot", "dependency_policy_passes",
                    "cross_process_deterministic", "source_clean"}
              \cup {c.claim : c \in CustomChecks \cup NumericChecks}

(* The documents of a run, and what is in memory of them.                  *)
PlannedCheck ==
  [id : CheckIds, provider : {"cargo", "custom", "numeric", "determinism", "core"},
   claims : SUBSET ClaimNames, requirement : RequirementLevel]

ProbedSource == [tree : Trees, state : {"unknown", "dirty", "clean"}]

DossierOf(names) ==
  [state : {"planning", "running", "aborted", "finalized"},
   replay_of : 0..MaxRuns,
   artifact : ProbedSource \cup {Absent}, provenance : ProbedSource \cup {Absent},
   plan : SUBSET PlannedCheck, claims : [names -> RequirementLevel],
   manifest_used : Manifests \cup {Absent},
   executions : Seq([check : CheckIds, outcome : Verdict]),
   evaluations : SUBSET [claim : ClaimNames, item : GatingItem],
   report : [strict : BOOLEAN, verdict : DossierVerdict] \cup {Absent},
   sealed : BOOLEAN]

ASSUME AbsentIsNoDossier == \A names \in SUBSET ClaimNames : Absent \notin DossierOf(names)

VARIABLES
  disk,       \* scirust-verify.toml: a manifest, NoManifest, or Broken
  tree,       \* version of the source tree
  runs,       \* the dossiers below .scirust-verify/runs
  pc,         \* where the command is
  cli,        \* its options
  registry,   \* the manifest its providers were built from
  prepared,   \* what prepare returned
  run,        \* the run it created
  todo,       \* checks to execute
  executions, \* what was executed, in memory
  saved,      \* how many of them are in executions.json
  verdict,    \* the dossier verdict
  result,     \* how the last command ended
  happened,   \* history: what each check of each run really did
  edits, faults, kills

options == <<cli, registry, prepared>>
progress == <<run, todo, executions, saved, verdict>>
world == <<disk, tree, edits>>
vars == <<world, runs, pc, options, progress, result, happened, faults, kills>>

RunIds == 1..MaxRuns

NewDossier ==
  [state |-> "planning", replay_of |-> 0, artifact |-> Absent, provenance |-> Absent,
   plan |-> {}, claims |-> <<>>, manifest_used |-> Absent, executions |-> <<>>,
   evaluations |-> {}, report |-> Absent, sealed |-> FALSE]

Init ==
  /\ disk \in Manifests
  /\ tree \in Trees
  /\ runs = [r \in RunIds |-> Absent]
  /\ pc = "idle"
  /\ cli = Absent /\ registry = Absent /\ prepared = Absent
  /\ run = 0 /\ todo = {} /\ executions = <<>> /\ saved = 0
  /\ verdict = Absent
  /\ result = Absent
  /\ happened = [r \in RunIds |-> <<>>]
  /\ edits = 0 /\ faults = 0 /\ kills = 0

Fault == faults < MaxFaults /\ faults' = faults + 1
NoFault == UNCHANGED faults

(* The command ends: its locals are gone, the exit code is left.           *)
Exit(code, cause) ==
  /\ pc' = "idle"
  /\ result' = [code |-> code, cause |-> cause, run |-> run, verdict |-> verdict]
  /\ cli' = Absent /\ registry' = Absent /\ prepared' = Absent
  /\ run' = 0 /\ todo' = {} /\ executions' = <<>> /\ saved' = 0
  /\ verdict' = Absent

Goto(next) == pc' = next /\ UNCHANGED <<options, progress, result>>

(* A PipelineError other than Manifest: "internal error", printed, and a   *)
(* usage error returned.                                                   *)
InternalError == Fault /\ Exit(2, "internal")

(* What git status tells of the worktree.                                  *)
GitState ==
  CASE Repository = "none" -> "unknown"
    [] Repository # "none"
       /\ (tree \in DirtyTrees \/ (~DossierIgnored /\ \E r \in RunIds : runs[r] # Absent)) ->
         "dirty"
    [] OTHER -> "clean"

Source == [tree |-> tree, state |-> GitState]

-----------------------------------------------------------------------------
(* The command line.                                                       *)

Starting == pc = "idle" /\ \E r \in RunIds : runs[r] = Absent

StartVerify(profile, strict) ==
  /\ Starting
  /\ \/ disk = Broken /\ Exit(2, "manifest")
     \/ /\ disk # Broken
        /\ cli' = [profile |-> profile, strict |-> strict, replay_of |-> 0]
        /\ pc' = "registering" /\ result' = Absent
        /\ UNCHANGED <<registry, prepared, progress>>
  /\ UNCHANGED <<world, runs, happened, faults, kills>>

(* load_manifest_or_default reads the file a second time.                  *)
BuildRegistry ==
  /\ pc = "registering"
  /\ registry' = IF disk = Broken THEN NoManifest ELSE disk
  /\ pc' = "preparing"
  /\ UNCHANGED <<world, runs, cli, prepared, progress, result, happened, faults, kills>>

(* replay takes the providers and the profile from the stored manifest of  *)
(* a run, sealed or not.                                                   *)
StartReplay(original, strict) ==
  /\ Starting
  /\ runs[original] # Absent
  /\ \/ /\ Absent \in {runs[original].manifest_used, runs[original].artifact}
        /\ Exit(2, "no_manifest")
     \/ /\ Absent \notin {runs[original].manifest_used, runs[original].artifact}
        /\ registry' = runs[original].manifest_used
        /\ cli' = [profile |-> registry'.profile, strict |-> strict, replay_of |-> original]
        /\ pc' = "preparing" /\ result' = Absent
        /\ UNCHANGED <<prepared, progress>>
  /\ UNCHANGED <<world, runs, happened, faults, kills>>

(* prepare reads the file again, for the settings.                         *)
Prepare ==
  /\ pc = "preparing"
  /\ \/ disk = Broken /\ Exit(2, "manifest") /\ NoFault
     \/ /\ disk # Broken
        /\ LET levels == ResolveLevels(disk, cli.profile)
               checks == Plan(registry, levels, IsCargo)
           IN prepared' = [manifest |-> disk, source |-> Source,
                           checks |-> checks, claims |-> ClaimLevels(checks, levels)]
        /\ pc' = "creating" /\ NoFault
        /\ UNCHANGED <<cli, registry, progress, result>>
     \/ InternalError
  /\ UNCHANGED <<world, runs, happened, kills>>

NewRun(r) ==
  /\ run' = r /\ runs' = [runs EXCEPT ![r] = NewDossier]
  /\ todo' = prepared.checks /\ executions' = <<>> /\ saved' = 0
  /\ pc' = "artifact" /\ NoFault
  /\ UNCHANGED <<options, verdict, result>>

CreateRun_InPlace ==
  /\ pc = "creating"
  /\ \E r \in RunIds : (r = cli.replay_of \/ cli.replay_of = 0) /\ NewRun(r)
  /\ UNCHANGED <<world, happened, kills>>

(* A fresh identifier.                                                     *)
CreateRun ==
  /\ pc = "creating"
  /\ \/ \E r \in RunIds :
          /\ runs[r] = Absent /\ \A s \in 1..(r - 1) : runs[s] # Absent
          /\ NewRun(r)
     \/ InternalError /\ UNCHANGED runs
  /\ UNCHANGED <<world, happened, kills>>

-----------------------------------------------------------------------------
(* The documents of the run.                                               *)

Put(field, value) == runs' = [runs EXCEPT ![run][field] = value]

(* A store call whose error ends the command; the run keeps its state.     *)
Persist(field, value, next) ==
  /\ \/ Put(field, value) /\ NoFault /\ Goto(next)
     \/ InternalError /\ UNCHANGED runs
  /\ UNCHANGED <<world, happened, kills>>

WriteArtifact ==
  pc = "artifact" /\ Persist("artifact", prepared.source, "provenance")

(* The provenance is collected again.                                      *)
WriteProvenance ==
  pc = "provenance" /\ Persist("provenance", Source, "replay_of")

SetReplayOf ==
  pc = "replay_of" /\ Persist("replay_of", cli.replay_of, "plan")

WritePlan == pc = "plan" /\ Persist("plan", prepared.checks, "claims")

WriteClaims == pc = "claims" /\ Persist("claims", prepared.claims, "manifest_used")

(* An error of this write is dropped.                                      *)
WriteManifestUsed ==
  /\ pc = "manifest_used"
  /\ \/ Put("manifest_used", prepared.manifest) /\ NoFault
     \/ Fault /\ UNCHANGED runs
  /\ Goto("running")
  /\ UNCHANGED <<world, happened, kills>>

SetRunning == pc = "running" /\ Persist("state", "running", "executing")

-----------------------------------------------------------------------------
(* The checks, one after the other in the order of their ids.              *)

Happens(exit) == [exit |-> exit, contradicted |-> FALSE]

(* What the execution of a check can be.  git status is asked only when    *)
(* the project itself has a .git.                                          *)
Events(check) ==
  CASE check.provider = "cargo" ->
         {Happens(x) : x \in ExitStatus}
         \cup (IF check.id \in {"cargo:fmt", "cargo:clippy", "cargo:deny"}
                 THEN {Happens("missing_tool")} ELSE {})
    [] check.provider \in {"custom", "numeric"} ->
         [exit : ExitStatus, contradicted : BOOLEAN]
    [] check.provider = "determinism" ->
         {Happens(x) : x \in {"identical", "diverged", "insufficient"}}
    [] check.provider = "core" ->
         {Happens(IF Repository = "root" THEN GitState ELSE "unknown")}
         \cup (IF GitFails THEN {Happens("unknown")} ELSE {})

(* SourceCleanProvider: no .git at the root or a git status that fails     *)
(* counts as no uncommitted change, provided some repository is around.    *)
SourceCleanOutcome(exit) ==
  CASE exit = "dirty" -> "failed"
    [] exit = "clean" -> "verified"
    [] exit = "unknown" -> IF Repository = "none" THEN "skipped" ELSE "verified"

Expectation(check) == IF check.id = "cargo:metadata" THEN "ignore" ELSE "success"

Outcome(check, event) ==
  CASE event.exit = "missing_tool" -> "skipped"
    [] event.exit = "identical" -> "verified"
    [] event.exit = "diverged" -> "failed"
    [] event.exit = "insufficient" -> "not_verified"
    [] event.exit \in {"clean", "dirty", "unknown"} -> SourceCleanOutcome(event.exit)
    [] event.exit \in ExitStatus ->
         CommandOutcome(event.exit, Expectation(check), event.contradicted)

IsNext(check) ==
  check \in todo /\ \A c \in todo \ {check} : <<check.id, c.id>> \in IdBefore

ExecuteCheck(check, event) ==
  /\ pc = "executing"
  /\ IsNext(check)
  /\ executions' = Append(executions, [check |-> check.id, outcome |-> Outcome(check, event)])
  /\ happened' = [happened EXCEPT ![run] = Override(@, [i \in {check.id} |-> event])]
  /\ todo' = todo \ {check}
  /\ UNCHANGED <<world, runs, pc, options, run, saved, verdict, result, faults, kills>>

AbortRun_Continues ==
  /\ pc = "executing" /\ todo # {}
  /\ \E check \in todo : IsNext(check) /\ todo' = todo \ {check}
  /\ Fault
  /\ UNCHANGED <<world, runs, happened, kills, pc, result, options, run, executions, saved,
                 verdict>>

(* The runner or the store failed under a check: best_effort_abort, whose  *)
(* own error is dropped.                                                   *)
AbortRun ==
  /\ pc = "executing" /\ todo # {}
  /\ Put("state", "aborted") \/ UNCHANGED runs
  /\ InternalError
  /\ UNCHANGED <<world, happened, kills>>

-----------------------------------------------------------------------------
(* Evaluation, reports and the seal.                                       *)

Executed == pc = "executing" /\ todo = {}

(* append_execution of the next execution.  When its read of               *)
(* executions.json fails, it starts a new document.                        *)
AppendExecution ==
  /\ Executed
  /\ saved < Len(executions)
  /\ \/ /\ \/ /\ Put("executions", Append(runs[run].executions, executions[saved + 1]))
              /\ NoFault
           \/ /\ LostReads /\ saved > 0 /\ Fault
              /\ Put("executions", <<executions[saved + 1]>>)
        /\ saved' = saved + 1
        /\ UNCHANGED <<pc, result, options, run, todo, executions, verdict>>
     \/ InternalError /\ UNCHANGED runs
  /\ UNCHANGED <<world, happened, kills>>

Outcomes(claim, checks, executed) ==
  LET ids == {c.id : c \in Supporting(checks, claim)}
  IN {executed[i].outcome : i \in {j \in 1..Len(executed) : executed[j].check \in ids}}

(* evaluate_claims and the gate, over the claims with their levels.        *)
Evaluations(checks, claims, executed, strict) ==
  {[claim |-> claim,
    item |-> Strictly(strict, [level |-> claims[claim],
                               verdict |-> ClaimVerdict(Outcomes(claim, checks, executed))])] :
     claim \in DOMAIN claims}

Gate(evaluations) == AggregateDossierVerdict({e.item : e \in evaluations})

WriteEvaluations_Ungated ==
  /\ Executed /\ saved = Len(executions)
  /\ LET evaluations(strict) ==
           Evaluations(prepared.checks, prepared.claims, executions, strict)
     IN Put("evaluations", evaluations(cli.strict)) /\ verdict' = Gate(evaluations(FALSE))
  /\ pc' = "reporting"
  /\ UNCHANGED <<world, happened, kills, faults, result, options, run, todo, executions, saved>>

WriteEvaluations ==
  /\ Executed /\ saved = Len(executions)
  /\ \/ LET evaluations ==
              Evaluations(prepared.checks, prepared.claims, executions, cli.strict)
        IN /\ Put("evaluations", evaluations)
           /\ verdict' = Gate(evaluations)
           /\ NoFault /\ pc' = "reporting"
           /\ UNCHANGED <<result, options, run, todo, executions, saved>>
     \/ InternalError /\ UNCHANGED runs
  /\ UNCHANGED <<world, happened, kills>>

(* The report recomputes the verdict from evaluations.json.                *)
WriteReport ==
  /\ pc = "reporting"
  /\ Persist("report", [strict |-> cli.strict, verdict |-> Gate(runs[run].evaluations)],
             "finalizing")

Finalize ==
  /\ pc = "finalizing"
  /\ \/ /\ runs' = [runs EXCEPT ![run].sealed = TRUE, ![run].state = "finalized"]
        /\ NoFault /\ Goto("printing")
     \/ InternalError /\ UNCHANGED runs
  /\ UNCHANGED <<world, happened, kills>>

PrintVerdict ==
  /\ pc = "printing"
  /\ Exit(IF ExitSuccess(verdict) THEN 0 ELSE 1, "verdict")
  /\ UNCHANGED <<world, runs, happened, faults, kills>>

-----------------------------------------------------------------------------
(* The world around the command.                                           *)

EditManifest(m) ==
  /\ edits < MaxEdits /\ edits' = edits + 1
  /\ disk' = m
  /\ UNCHANGED <<tree, runs, pc, options, progress, result, happened, faults, kills>>

EditTree ==
  /\ edits < MaxEdits /\ edits' = edits + 1
  /\ tree' \in Trees
  /\ UNCHANGED <<disk, runs, pc, options, progress, result, happened, faults, kills>>

Kill ==
  /\ pc # "idle"
  /\ kills < MaxKills /\ kills' = kills + 1
  /\ Exit(Absent, "killed")
  /\ UNCHANGED <<world, runs, happened, faults>>

Command ==
  \/ BuildRegistry
  \/ Prepare
  \/ CreateRun
  \/ WriteArtifact \/ WriteProvenance \/ SetReplayOf \/ WritePlan \/ WriteClaims
  \/ WriteManifestUsed \/ SetRunning
  \/ \E check \in todo : \E event \in Events(check) : ExecuteCheck(check, event)
  \/ AbortRun
  \/ AppendExecution
  \/ WriteEvaluations
  \/ WriteReport
  \/ Finalize
  \/ PrintVerdict

Next ==
  \/ \E profile \in CliProfiles, strict \in BOOLEAN : StartVerify(profile, strict)
  \/ \E original \in RunIds, strict \in BOOLEAN : StartReplay(original, strict)
  \/ Command
  \/ \E m \in Manifests \cup {Broken} : EditManifest(m)
  \/ EditTree
  \/ Kill

Spec == Init /\ [][Next]_vars

-----------------------------------------------------------------------------
(* Properties.                                                             *)

(* What a check of a run really did, apart from how it was interpreted.    *)
Succeeded(check, r) ==
  /\ check.id \in DOMAIN happened[r]
  /\ LET event == happened[r][check.id]
     IN /\ event.exit \in {"zero", "identical", "clean"}
              \cup (IF Expectation(check) = "ignore" THEN {"nonzero"} ELSE {})
        /\ ~event.contradicted

CouldNotRun(check, r) ==
  /\ check.id \in DOMAIN happened[r]
  /\ happened[r][check.id].exit \in {"missing_tool", "unknown"}

IsSealed(r) == runs[r] # Absent /\ runs[r].sealed

(* A PASS is earned: of every required claim of the dossier, one check was *)
(* really executed and succeeded, and the others succeeded or could not    *)
(* run.  It is not a PASS by a missing, timed out or misread check.        *)
PassIsEarned ==
  \A r \in RunIds : IsSealed(r) /\ runs[r].report.verdict = "pass" =>
    \A claim \in DOMAIN runs[r].claims : runs[r].claims[claim] = "required" =>
      /\ \E c \in Supporting(runs[r].plan, claim) : Succeeded(c, r)
      /\ \A c \in Supporting(runs[r].plan, claim) : Succeeded(c, r) \/ CouldNotRun(c, r)

(* The dossier supports its verdict: whoever evaluates its plan, claims    *)
(* and executions again comes to the verdict of its report, and a command  *)
(* tells that one only (provided no history was lost).                     *)
DossierSupportsVerdict ==
  \A r \in RunIds :
    /\ IsSealed(r) =>
         Gate(Evaluations(runs[r].plan, runs[r].claims, runs[r].executions,
                          runs[r].report.strict)) = runs[r].report.verdict
    /\ result # Absent /\ result.cause = "verdict" /\ result.run = r =>
         IsSealed(r) /\ runs[r].report.verdict = result.verdict

(* In a sealed dossier every planned check is executed exactly once, and   *)
(* the record says what it did.                                            *)
SealedIsComplete ==
  \A r \in RunIds : IsSealed(r) =>
    /\ Len(runs[r].executions) = Cardinality(runs[r].plan)
    /\ \A c \in runs[r].plan : \E i \in 1..Len(runs[r].executions) :
         /\ runs[r].executions[i].check = c.id
         /\ c.id \in DOMAIN happened[r]
         /\ runs[r].executions[i].outcome = Outcome(c, happened[r][c.id])

(* "Replay always creates a NEW run; the original bundle stays untouched": *)
(* no command changes a run that another command created.                  *)
OtherRunsStay ==
  [][\A r \in RunIds :
       runs[r] # Absent /\ (pc = "idle" \/ r # run) => runs'[r] = runs[r]]_vars

-----------------------------------------------------------------------------
(* What the documentation says of the commands.                            *)

(* core/pipeline.rs: the manifest is persisted "so `replay` can re-execute *)
(* faithfully": a replay holds the claims of the original, at its levels.  *)
ReplayIsFaithful ==
  \A r \in RunIds : IsSealed(r) /\ runs[r].replay_of # 0 =>
    LET original == runs[runs[r].replay_of]
    IN IsSealed(runs[r].replay_of) => runs[r].claims = original.claims

=============================================================================
