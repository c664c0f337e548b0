--------------------------- MODULE PipelineProofs ---------------------------
(***************************************************************************)
(* Proofs about Pipeline, for any manifests, any number of runs, edits,    *)
(* failing calls and kills: what a sealed dossier says was really done.    *)
(***************************************************************************)
EXTENDS Pipeline, FiniteSetTheorems, SequenceTheorems, TLAPS

-----------------------------------------------------------------------------
(* The plan.                                                               *)

LEMMA LevelsAreLevels ==
  ASSUME NEW m, IsManifest(m), NEW profile \in Profile \cup {Unset}
  PROVE  IsLevels(ResolveLevels(m, profile))
<1> DEFINE effective == EffectiveProfile(m, profile)
           overrides == LevelOverrides(effective)
<1>1. effective \in Profile
  BY DEF EffectiveProfile, IsManifest, Profile, Unset
<1>2. IsLevels(DefaultClaimLevels)
  BY DEF IsLevels, DefaultClaimLevels, Slugs, RequirementLevel
<1>3. IsLevels(overrides)
  BY <1>1 DEF IsLevels, LevelOverrides, Profile, DefaultClaimLevels, Slugs, RequirementLevel
<1>4. ASSUME NEW f, NEW g, IsLevels(f), IsLevels(g) PROVE IsLevels(Override(f, g))
  BY <1>4 DEF IsLevels, Override
<1> QED
  BY <1>2, <1>3, <1>4 DEF ResolveLevels, IsManifest

IsProper(checks) ==
  /\ checks \subseteq PlannedCheck
  /\ IsFiniteSet(checks)
  /\ \A c, d \in checks : c.id = d.id => c = d

LEMMA ImageIsFinite ==
  ASSUME NEW S, IsFiniteSet(S), NEW f, f = [x \in S |-> f[x]]
  PROVE  IsFiniteSet({f[x] : x \in S})
<1> DEFINE T == {f[x] : x \in S}
<1>1. f \in Surjection(S, T)
  BY DEF Surjection
<1> QED
  BY <1>1, FS_Surjection

LEMMA PairIsFinite ==
  ASSUME NEW x, NEW y
  PROVE  IsFiniteSet({x, y})
<1>1. IsFiniteSet({x})
  BY FS_Singleton
<1>2. IsFiniteSet({x} \cup {y})
  BY <1>1, FS_AddElement
<1>3. {x, y} = {x} \cup {y}
  OBVIOUS
<1> QED
  BY <1>2, <1>3

LEMMA StepsAreFinite == IsFiniteSet(DOMAIN CargoStep)
<1>1. IsFiniteSet({"fmt", "clippy"} \cup {"check", "build"})
  BY PairIsFinite, FS_Union
<1>2. IsFiniteSet(({"fmt", "clippy"} \cup {"check", "build"}) \cup {"test", "doc"})
  BY <1>1, PairIsFinite, FS_Union
<1>3. DOMAIN CargoStep = ({"fmt", "clippy"} \cup {"check", "build"}) \cup {"test", "doc"}
  BY DEF CargoStep
<1> QED
  BY <1>2, <1>3

LEMMA CheckIsPlanned ==
  ASSUME NEW provider \in {"cargo", "custom", "numeric", "determinism", "core"},
         NEW id \in CheckIds, NEW claim \in ClaimNames, NEW level \in RequirementLevel
  PROVE  /\ Check(provider, id, claim, level) \in PlannedCheck
         /\ Check(provider, id, claim, level).id = id
<1>1. {claim} \in SUBSET ClaimNames
  OBVIOUS
<1> QED
  BY <1>1 DEF Check, PlannedCheck

LEMMA SingletonIsProper ==
  ASSUME NEW c \in PlannedCheck
  PROVE  IsProper({c})
<1>1. IsFiniteSet({c})
  BY FS_Singleton
<1> QED
  BY <1>1 DEF IsProper

LEMMA NothingIsProper == IsProper({})
BY FS_EmptySet DEF IsProper

LEMMA DeclaredPlanIsProper ==
  ASSUME NEW provider \in {"custom", "numeric"}, NEW default \in RequirementLevel,
         NEW checks, checks \subseteq CustomChecks \cup NumericChecks, IsFiniteSet(checks),
         \A c, d \in checks : c.id = d.id => c = d
  PROVE  /\ IsProper(DeclaredPlan(provider, checks, default))
         /\ \A c \in DeclaredPlan(provider, checks, default) :
              \E d \in checks : c.id = d.id
<1> DEFINE f == [c \in checks |-> Check(provider, c.id, c.claim,
                                       IF c.level = Unset THEN default ELSE c.level)]
           plan == DeclaredPlan(provider, checks, default)
<1>1. plan = {f[c] : c \in checks}
  BY DEF DeclaredPlan
<1>2. IsFiniteSet(plan)
  <2>1. f = [c \in checks |-> f[c]]
    OBVIOUS
  <2> HIDE DEF plan, f
  <2>2. IsFiniteSet({f[c] : c \in checks})
    BY <2>1, ImageIsFinite
  <2> QED
    BY <1>1, <2>2
<1>3. plan \subseteq PlannedCheck
  <2> SUFFICES ASSUME NEW c \in checks PROVE f[c] \in PlannedCheck
    BY <1>1
  <2>1. c.id \in CheckIds /\ c.claim \in ClaimNames
    BY DEF CheckIds, ClaimNames
  <2>2. (IF c.level = Unset THEN default ELSE c.level) \in RequirementLevel
    BY DeclaredAreChecks DEF Declared
  <2> QED
    BY <2>1, <2>2, CheckIsPlanned
<1>4. \A c \in plan : \E d \in checks : c = f[d] /\ c.id = d.id
  BY DEF DeclaredPlan, Check
<1>5. \A c, d \in plan : c.id = d.id => c = d
  BY <1>4
<1> QED
  BY <1>2, <1>3, <1>4, <1>5 DEF IsProper

LEMMA CargoPlanIsProper ==
  ASSUME NEW cargo \in Cargo, NEW levels, IsLevels(levels)
  PROVE  /\ IsProper(CargoPlan(cargo, levels))
         /\ \A c \in CargoPlan(cargo, levels) :
              c.id \in BuiltIn \ {"determinism:cross-process", "core:source-clean"}
<1> DEFINE chosen == {s \in cargo.steps : cargo.enabled /\ CargoStep[s].claim \in DOMAIN levels}
           f == [s \in chosen |-> Check("cargo", CargoStep[s].id, CargoStep[s].claim,
                                       levels[CargoStep[s].claim])]
           steps == {f[s] : s \in chosen}
           metadata == Check("cargo", "cargo:metadata", "dependency_snapshot", "informational")
           deny == Check("cargo", "cargo:deny", "dependency_policy_passes",
                         IF cargo.deny = "required" THEN "required" ELSE "optional")
           others == CargoPlan(cargo, levels) \ steps
<1>1. chosen \subseteq DOMAIN CargoStep
  BY DEF Cargo
<1>2. IsFiniteSet(steps)
  <2>1. IsFiniteSet(chosen)
    BY <1>1, StepsAreFinite, FS_Subset
  <2> HIDE DEF chosen
  <2> QED
    BY <2>1, ImageIsFinite
<1>3. steps \subseteq CargoPlan(cargo, levels) /\ others \subseteq {metadata, deny}
  BY DEF CargoPlan
<1>4. IsFiniteSet(CargoPlan(cargo, levels))
  <2>1. IsFiniteSet({metadata} \cup {deny})
    BY FS_Singleton, FS_Union
  <2>2. IsFiniteSet(others)
    BY <1>3, <2>1, FS_Subset, {metadata, deny} = {metadata} \cup {deny}
  <2>3. CargoPlan(cargo, levels) = steps \cup others
    BY <1>3
  <2> QED
    BY <1>2, <2>2, <2>3, FS_Union
<1>5. ASSUME NEW s \in chosen
      PROVE  /\ f[s] \in PlannedCheck
             /\ f[s].id = CargoStep[s].id
             /\ f[s].id \in BuiltIn \ {"determinism:cross-process", "core:source-clean",
                                       "cargo:metadata", "cargo:deny"}
  <2> DEFINE step == CargoStep[s]
  <2>1. /\ step.id \in {"cargo:fmt", "cargo:clippy", "cargo:check", "cargo:build",
                         "cargo:test", "cargo:doc"}
        /\ step.id \in {CargoStep[u].id : u \in DOMAIN CargoStep}
        /\ step.claim \in {CargoStep[u].claim : u \in DOMAIN CargoStep}
    BY <1>1 DEF CargoStep
  <2>2. levels[step.claim] \in RequirementLevel
    BY DEF IsLevels
  <2>3. step.claim \in ClaimNames /\ step.id \in CheckIds
    BY <2>1 DEF ClaimNames, CheckIds, BuiltIn
  <2>4. f[s] = Check("cargo", step.id, step.claim, levels[step.claim])
    OBVIOUS
  <2> HIDE DEF f
  <2>5. f[s] \in PlannedCheck /\ f[s].id = step.id
    <3> HIDE DEF step
    <3> QED
      BY <2>1, <2>2, <2>3, <2>4, CheckIsPlanned
  <2> QED
    BY <2>1, <2>5 DEF BuiltIn
<1>6. /\ {metadata, deny} \subseteq PlannedCheck
      /\ metadata.id = "cargo:metadata" /\ deny.id = "cargo:deny"
  <2>1. /\ {"dependency_snapshot", "dependency_policy_passes"} \subseteq ClaimNames
        /\ {"cargo:metadata", "cargo:deny"} \subseteq CheckIds
    BY DEF ClaimNames, CheckIds, BuiltIn
  <2>2. metadata \in PlannedCheck /\ metadata.id = "cargo:metadata"
    BY <2>1, CheckIsPlanned DEF RequirementLevel
  <2>3. deny \in PlannedCheck /\ deny.id = "cargo:deny"
    BY <2>1, CheckIsPlanned DEF RequirementLevel
  <2> HIDE DEF metadata, deny
  <2> QED
    BY <2>2, <2>3
<1>7. \A s, u \in chosen : f[s].id = f[u].id => s = u
  <2>1. \A s, u \in DOMAIN CargoStep : CargoStep[s].id = CargoStep[u].id => s = u
    BY DEF CargoStep
  <2> HIDE DEF f, chosen
  <2> QED
    BY <1>1, <1>5, <2>1
<1>8. \A c \in CargoPlan(cargo, levels) : (\E s \in chosen : c = f[s]) \/ c \in {metadata, deny}
  BY <1>3
<1> HIDE DEF f, chosen, metadata, deny, steps, others
<1>9. CargoPlan(cargo, levels) \subseteq PlannedCheck
  BY <1>5, <1>6, <1>8
<1>10. \A c, d \in CargoPlan(cargo, levels) : c.id = d.id => c = d
  BY <1>5, <1>6, <1>7, <1>8
<1>11. \A c \in CargoPlan(cargo, levels) :
        c.id \in BuiltIn \ {"determinism:cross-process", "core:source-clean"}
  BY <1>5, <1>6, <1>8 DEF BuiltIn
<1> QED
  BY <1>4, <1>9, <1>10, <1>11 DEF IsProper

LEMMA PlanIsProper ==
  ASSUME NEW from \in Loadable, NEW levels, IsLevels(levels), NEW is_cargo \in BOOLEAN
  PROVE  IsProper(Plan(from, levels, is_cargo))
<1> DEFINE cargo == IF is_cargo THEN CargoPlan(from.cargo, levels) ELSE {}
           determinism == DeterminismPlan(from.determinism, levels)
           custom == DeclaredPlan("custom", from.custom, "required")
           numeric == DeclaredPlan("numeric", from.numeric,
                                   LevelOr(levels, "numerically_close", "optional"))
           clean == SourceCleanPlan(levels)
<1>1. /\ from.cargo \in Cargo
      /\ from.custom \subseteq CustomChecks /\ IsFiniteSet(from.custom)
      /\ from.numeric \subseteq NumericChecks /\ IsFiniteSet(from.numeric)
      /\ \A c, d \in from.custom : c.id = d.id => c = d
      /\ \A c, d \in from.numeric : c.id = d.id => c = d
  <2>1. CASE from \in Manifests
    BY <2>1, PipelineAssumption, IdsAreDistinct DEF IsManifest
  <2>2. CASE from = NoManifest
    BY <2>2, FS_EmptySet DEF NoManifest, DefaultCargo, Cargo, CargoStep, DenyMode
  <2> QED
    BY <2>1, <2>2 DEF Loadable
<1>2. /\ IsProper(cargo)
      /\ \A c \in cargo : c.id \in BuiltIn \ {"determinism:cross-process", "core:source-clean"}
  BY <1>1, CargoPlanIsProper, FS_EmptySet DEF IsProper
<1>3. LevelOr(levels, "numerically_close", "optional") \in RequirementLevel
      /\ LevelOr(levels, "cross_process_deterministic", "optional") \in RequirementLevel
  BY DEF LevelOr, IsLevels, RequirementLevel
<1>4. /\ IsProper(custom)
      /\ \A c \in custom : \E d \in CustomChecks : c.id = d.id
  BY <1>1, DeclaredPlanIsProper DEF RequirementLevel
<1>5. /\ IsProper(numeric)
      /\ \A c \in numeric : \E d \in NumericChecks : c.id = d.id
  BY <1>1, <1>3, DeclaredPlanIsProper
<1>6. /\ IsProper(determinism)
      /\ \A c \in determinism : c.id = "determinism:cross-process"
  <2> DEFINE c == Check("determinism", "determinism:cross-process",
                       "cross_process_deterministic",
                       LevelOr(levels, "cross_process_deterministic", "optional"))
  <2>1. c \in PlannedCheck /\ c.id = "determinism:cross-process"
    <3>1. "cross_process_deterministic" \in ClaimNames
          /\ "determinism:cross-process" \in CheckIds
      BY DEF ClaimNames, CheckIds, BuiltIn
    <3> QED
      BY <1>3, <3>1, CheckIsPlanned
  <2>2. determinism = {} \/ determinism = {c}
    BY DEF DeterminismPlan
  <2> HIDE DEF c, determinism
  <2> QED
    BY <2>1, <2>2, SingletonIsProper, NothingIsProper
<1>7. /\ IsProper(clean)
      /\ \A c \in clean : c.id = "core:source-clean"
  <2> DEFINE c == Check("core", "core:source-clean", "source_clean", levels["source_clean"])
  <2>1. clean = {} \/ (clean = {c} /\ "source_clean" \in DOMAIN levels)
    BY DEF SourceCleanPlan
  <2>2. ASSUME "source_clean" \in DOMAIN levels
        PROVE  c \in PlannedCheck /\ c.id = "core:source-clean"
    <3>1. "source_clean" \in ClaimNames /\ "core:source-clean" \in CheckIds
      BY DEF ClaimNames, CheckIds, BuiltIn
    <3>2. levels["source_clean"] \in RequirementLevel
      BY <2>2 DEF IsLevels
    <3> QED
      BY <3>1, <3>2, CheckIsPlanned
  <2> HIDE DEF c, clean
  <2> QED
    BY <2>1, <2>2, SingletonIsProper, NothingIsProper
<1>8. Plan(from, levels, is_cargo) = cargo \cup determinism \cup custom \cup numeric \cup clean
  BY DEF Plan
<1>9. ASSUME NEW P, NEW Q, IsProper(P), IsProper(Q), \A c \in P, d \in Q : c.id # d.id
      PROVE  IsProper(P \cup Q)
  BY <1>9, FS_Union DEF IsProper
<1> HIDE DEF cargo, determinism, custom, numeric, clean
<1>10. {"determinism:cross-process", "core:source-clean"} \subseteq BuiltIn
  BY DEF BuiltIn
<1>11. IsProper(cargo \cup determinism)
  BY <1>2, <1>6, <1>9
<1>12. IsProper(cargo \cup determinism \cup custom)
  BY <1>2, <1>4, <1>6, <1>9, <1>10, <1>11, IdsAreDistinct
<1>13. IsProper(cargo \cup determinism \cup custom \cup numeric)
  BY <1>2, <1>4, <1>5, <1>6, <1>9, <1>10, <1>12, IdsAreDistinct
<1>14. IsProper(cargo \cup determinism \cup custom \cup numeric \cup clean)
  BY <1>2, <1>4, <1>5, <1>6, <1>7, <1>9, <1>10, <1>13, IdsAreDistinct
<1> QED
  BY <1>8, <1>14

-----------------------------------------------------------------------------
(* The inductive invariant.                                                *)

(* A command that has created its run, and the parts of its work.          *)
Documenting == {"artifact", "provenance", "replay_of", "plan", "claims", "manifest_used",
                "running"}
Concluding == {"reporting", "finalizing", "printing"}
Working == Documenting \cup {"executing"} \cup Concluding

Event ==
  [exit : ExitStatus \cup {"missing_tool", "identical", "diverged", "insufficient", "clean",
                           "dirty", "unknown"},
   contradicted : BOOLEAN]

IsDossier(d) ==
  /\ DOMAIN d.claims \subseteq ClaimNames
  /\ d \in DossierOf(DOMAIN d.claims)

IsPrepared(p) ==
  /\ DOMAIN p = {"manifest", "source", "checks", "claims"}
  /\ p.manifest \in Manifests /\ p.source \in ProbedSource
  /\ IsProper(p.checks)
  /\ p.claims \in [Claims(p.checks) -> RequirementLevel]

TypeOK ==
  /\ disk \in Manifests \cup {Broken}
  /\ tree \in Trees
  /\ pc \in {"idle", "registering", "preparing", "creating"} \cup Working
  /\ DOMAIN runs = RunIds
  /\ \A r \in RunIds : runs[r] # Absent => IsDossier(runs[r])
  /\ DOMAIN happened = RunIds
  /\ pc # "idle" =>
       cli \in [profile : Profile \cup {Unset}, strict : BOOLEAN, replay_of : 0..MaxRuns]
  /\ pc \in {"preparing", "creating"} => registry \in Loadable
  /\ pc \in Working \cup {"creating"} => IsPrepared(prepared)
  /\ executions \in Seq([check : CheckIds, outcome : Verdict])

(* The run of the command exists and is open.                              *)
RunIsOpen ==
  pc \in Working =>
    /\ run \in RunIds /\ runs[run] # Absent
    /\ runs[run].sealed <=> pc = "printing"

(* A check that is done, and what it is recorded as.                       *)
Finished == prepared.checks \ todo

IsRecordOf(e, c) ==
  /\ c.id \in DOMAIN happened[run]
  /\ happened[run][c.id] \in Event
  /\ happened[run][c.id].contradicted => happened[run][c.id].exit \in ExitStatus
  /\ happened[run][c.id].exit = "unknown" => Repository # "root" \/ GitFails
  /\ e = [check |-> c.id, outcome |-> Outcome(c, happened[run][c.id])]

(* Every check is either still to do or executed, once, and the executions *)
(* are those of the checks.                                                *)
ExecutedOnce ==
  pc \in Working =>
    /\ todo \subseteq prepared.checks
    /\ Len(executions) + Cardinality(todo) = Cardinality(prepared.checks)
    /\ \A c \in Finished : \E i \in 1..Len(executions) : IsRecordOf(executions[i], c)
    /\ \A i \in 1..Len(executions) : \E c \in Finished : IsRecordOf(executions[i], c)

NothingExecuted ==
  pc \in Documenting =>
    /\ todo = prepared.checks /\ executions = <<>> /\ saved = 0
    /\ runs[run].executions = <<>>

(* The documents of the run say what is in memory.                         *)
ExecutionsAreSaved ==
  pc \in Working =>
    /\ saved \in 0..Len(executions)
    /\ saved > 0 => todo = {}
    /\ ~LostReads =>
         /\ Len(runs[run].executions) = saved
         /\ \A i \in 1..saved : runs[run].executions[i] = executions[i]

PlanIsSaved ==
  /\ pc \in Working \ {"artifact", "provenance", "replay_of", "plan"} =>
       runs[run].plan = prepared.checks
  /\ pc \in Working \ {"artifact", "provenance", "replay_of", "plan", "claims"} =>
       runs[run].claims = prepared.claims

ConclusionIsSaved ==
  /\ pc \in Concluding =>
       /\ todo = {} /\ saved = Len(executions)
       /\ runs[run].evaluations =
            Evaluations(prepared.checks, prepared.claims, executions, cli.strict)
       /\ verdict = Gate(runs[run].evaluations)
  /\ pc \in {"finalizing", "printing"} =>
       runs[run].report = [strict |-> cli.strict, verdict |-> verdict]

CommandIsSound ==
  /\ RunIsOpen /\ ExecutedOnce /\ NothingExecuted /\ ExecutionsAreSaved
  /\ PlanIsSaved /\ ConclusionIsSaved

-----------------------------------------------------------------------------
(* Type correctness.                                                       *)

LEMMA ClaimLevelsAreLevels ==
  ASSUME NEW checks, IsProper(checks), NEW levels, IsLevels(levels)
  PROVE  /\ Claims(checks) \subseteq ClaimNames
         /\ ClaimLevels(checks, levels) \in [Claims(checks) -> RequirementLevel]
<1>1. Claims(checks) \subseteq ClaimNames
  BY DEF Claims, IsProper, PlannedCheck
<1>2. ASSUME NEW claim \in Claims(checks)
      PROVE  ClaimLevel(checks, levels, claim) \in RequirementLevel
  <2> DEFINE first == CHOOSE c \in Supporting(checks, claim) : TRUE
  <2>1. \E c : c \in Supporting(checks, claim)
    BY <1>2 DEF Claims, Supporting
  <2>2. first \in Supporting(checks, claim)
    BY <2>1
  <2> HIDE DEF first
  <2>3. first.requirement \in RequirementLevel
    BY <2>2 DEF Supporting, IsProper, PlannedCheck
  <2> QED
    BY <2>3 DEF ClaimLevel, LevelOr, IsLevels, first
<1> QED
  BY <1>1, <1>2 DEF ClaimLevels

LEMMA OutcomeIsVerdict ==
  ASSUME NEW c, NEW e \in Event
  PROVE  Outcome(c, e) \in Verdict
<1>1. \A x : SourceCleanOutcome("unknown") \in Verdict
             /\ SourceCleanOutcome("dirty") \in Verdict
             /\ SourceCleanOutcome("clean") \in Verdict
  BY DEF SourceCleanOutcome, Verdict
<1>2. CommandOutcome(e.exit, Expectation(c), e.contradicted) \in Verdict
  BY DEF CommandOutcome, InterpretExit, Verdict
<1> QED
  BY <1>1, <1>2 DEF Outcome, Event, ExitStatus, Verdict

LEMMA EventsAreEvents ==
  ASSUME NEW c \in PlannedCheck, NEW e \in Events(c)
  PROVE  /\ e \in Event
         /\ e.contradicted => e.exit \in ExitStatus
         /\ e.exit = "unknown" => Repository # "root" \/ GitFails
<1>1. GitState \in {"unknown", "dirty", "clean"}
      /\ (Repository = "root" => GitState # "unknown")
  BY DEF GitState
<1> HIDE DEF GitState
<1>2. CASE c.provider = "cargo"
  <2>1. \E x \in ExitStatus \cup {"missing_tool"} : e = Happens(x)
    BY <1>2 DEF Events
  <2> QED
    BY <2>1 DEF Happens, Event, ExitStatus
<1>3. CASE c.provider \in {"custom", "numeric"}
  <2>1. e \in [exit : ExitStatus, contradicted : BOOLEAN]
    BY <1>3 DEF Events
  <2> QED
    BY <2>1 DEF Event, ExitStatus
<1>4. CASE c.provider = "determinism"
  <2>1. \E x \in {"identical", "diverged", "insufficient"} : e = Happens(x)
    BY <1>4 DEF Events
  <2> QED
    BY <2>1 DEF Happens, Event, ExitStatus
<1>5. CASE c.provider = "core"
  <2>1. \/ e = Happens(IF Repository = "root" THEN GitState ELSE "unknown")
        \/ GitFails /\ e = Happens("unknown")
    BY <1>5, PipelineAssumption DEF Events
  <2> DEFINE x == IF Repository = "root" THEN GitState ELSE "unknown"
  <2>2. x \in {"unknown", "dirty", "clean"} /\ (x = "unknown" => Repository # "root")
    BY <1>1
  <2>3. CASE e = Happens(x)
    <3> HIDE DEF x
    <3> QED
      BY <2>2, <2>3 DEF Happens, Event, ExitStatus
  <2>4. CASE GitFails /\ e = Happens("unknown")
    BY <2>4 DEF Happens, Event, ExitStatus
  <2> QED
    BY <2>1, <2>3, <2>4
<1> QED
  BY <1>2, <1>3, <1>4, <1>5 DEF PlannedCheck

LEMMA ClaimVerdictIsVerdict ==
  ASSUME NEW outcomes \in SUBSET Verdict
  PROVE  ClaimVerdict(outcomes) \in Verdict
BY DEF ClaimVerdict, CombineVerdicts, Verdict

LEMMA EvaluationsAreEvaluations ==
  ASSUME NEW checks, NEW claims, DOMAIN claims \subseteq ClaimNames,
         \A c \in DOMAIN claims : claims[c] \in RequirementLevel,
         NEW executed \in Seq([check : CheckIds, outcome : Verdict]), NEW strict \in BOOLEAN
  PROVE  Evaluations(checks, claims, executed, strict)
           \in SUBSET [claim : ClaimNames, item : GatingItem]
<1>1. ASSUME NEW claim \in DOMAIN claims
      PROVE  Strictly(strict, [level |-> claims[claim],
                               verdict |-> ClaimVerdict(Outcomes(claim, checks, executed))])
               \in GatingItem
  <2>1. Outcomes(claim, checks, executed) \in SUBSET Verdict
    <3>1. ASSUME NEW i \in 1..Len(executed) PROVE executed[i].outcome \in Verdict
      <4>1. executed[i] \in [check : CheckIds, outcome : Verdict]
        BY ElementOfSeq
      <4> QED
        BY <4>1
    <3> QED
      BY <3>1 DEF Outcomes
  <2>2. ClaimVerdict(Outcomes(claim, checks, executed)) \in Verdict
    BY <2>1, ClaimVerdictIsVerdict
  <2>3. [level |-> claims[claim], verdict |-> ClaimVerdict(Outcomes(claim, checks, executed))]
          \in GatingItem
    BY <2>2 DEF GatingItem
  <2> QED
    BY <2>3 DEF Strictly, GatingItem, Verdict
<1>2. \A e \in Evaluations(checks, claims, executed, strict) :
        e \in [claim : ClaimNames, item : GatingItem]
  <2> SUFFICES ASSUME NEW claim \in DOMAIN claims,
                      NEW item \in GatingItem
               PROVE  [claim |-> claim, item |-> item] \in [claim : ClaimNames, item : GatingItem]
    BY <1>1 DEF Evaluations
  <2> QED
    OBVIOUS
<1> QED
  BY <1>2

LEMMA GateIsVerdict ==
  ASSUME NEW evaluations
  PROVE  Gate(evaluations) \in DossierVerdict
BY DEF Gate, AggregateDossierVerdict, DossierVerdict

LEMMA NewDossierIsDossier == IsDossier(NewDossier)
<1>1. NewDossier.claims \in [{} -> RequirementLevel] /\ DOMAIN NewDossier.claims = {}
  BY DEF NewDossier
<1>2. NewDossier.executions \in Seq([check : CheckIds, outcome : Verdict])
  BY DEF NewDossier
<1> QED
  BY <1>1, <1>2, PipelineAssumption DEF NewDossier, IsDossier, DossierOf

(* A document replaced by one of its kind.                                 *)
LEMMA DossierUpdates ==
  ASSUME NEW d, IsDossier(d)
  PROVE  /\ \A v \in {"running", "aborted", "finalized"} :
              IsDossier([d EXCEPT !["state"] = v])
         /\ \A v \in 0..MaxRuns : IsDossier([d EXCEPT !["replay_of"] = v])
         /\ \A v \in ProbedSource : IsDossier([d EXCEPT !["artifact"] = v])
         /\ \A v \in ProbedSource : IsDossier([d EXCEPT !["provenance"] = v])
         /\ \A v \in SUBSET PlannedCheck : IsDossier([d EXCEPT !["plan"] = v])
         /\ \A names \in SUBSET ClaimNames : \A v \in [names -> RequirementLevel] :
              IsDossier([d EXCEPT !["claims"] = v])
         /\ \A v \in Manifests : IsDossier([d EXCEPT !["manifest_used"] = v])
         /\ \A v \in Seq([check : CheckIds, outcome : Verdict]) :
              IsDossier([d EXCEPT !["executions"] = v])
         /\ \A v \in SUBSET [claim : ClaimNames, item : GatingItem] :
              IsDossier([d EXCEPT !["evaluations"] = v])
         /\ \A v \in [strict : BOOLEAN, verdict : DossierVerdict] :
              IsDossier([d EXCEPT !["report"] = v])
         /\ \A v \in BOOLEAN : IsDossier([d EXCEPT !["sealed"] = v])
<1>1. \A v \in {"running", "aborted", "finalized"} :
        IsDossier([d EXCEPT !["state"] = v])
  BY DEF IsDossier, DossierOf
<1>2. \A v \in 0..MaxRuns : IsDossier([d EXCEPT !["replay_of"] = v])
  BY DEF IsDossier, DossierOf
<1>3. \A v \in ProbedSource : IsDossier([d EXCEPT !["artifact"] = v])
  BY DEF IsDossier, DossierOf
<1>4. \A v \in ProbedSource : IsDossier([d EXCEPT !["provenance"] = v])
  BY DEF IsDossier, DossierOf
<1>5. \A v \in SUBSET PlannedCheck : IsDossier([d EXCEPT !["plan"] = v])
  BY DEF IsDossier, DossierOf
<1>6. \A names \in SUBSET ClaimNames : \A v \in [names -> RequirementLevel] :
        IsDossier([d EXCEPT !["claims"] = v])
  BY DEF IsDossier, DossierOf
<1>7. \A v \in Manifests : IsDossier([d EXCEPT !["manifest_used"] = v])
  BY DEF IsDossier, DossierOf
<1>8. \A v \in Seq([check : CheckIds, outcome : Verdict]) :
        IsDossier([d EXCEPT !["executions"] = v])
  BY DEF IsDossier, DossierOf
<1>9. \A v \in SUBSET [claim : ClaimNames, item : GatingItem] :
        IsDossier([d EXCEPT !["evaluations"] = v])
  BY DEF IsDossier, DossierOf
<1>10. \A v \in [strict : BOOLEAN, verdict : DossierVerdict] :
        IsDossier([d EXCEPT !["report"] = v])
  BY DEF IsDossier, DossierOf
<1>11. \A v \in BOOLEAN : IsDossier([d EXCEPT !["sealed"] = v])
  BY DEF IsDossier, DossierOf
<1> QED
  BY <1>1, <1>2, <1>3, <1>4, <1>5, <1>6, <1>7, <1>8, <1>9, <1>10, <1>11

LEMMA DossiersExist ==
  ASSUME NEW d, IsDossier(d)
  PROVE  d # Absent
BY AbsentIsNoDossier DEF IsDossier

LEMMA ExitTypes ==
  ASSUME TypeOK, NEW code, NEW cause, Exit(code, cause), UNCHANGED <<world, happened>>,
         DOMAIN runs' = RunIds, \A r \in RunIds : runs'[r] # Absent => IsDossier(runs'[r])
  PROVE  TypeOK' /\ RunIsOpen'
BY DEF TypeOK, RunIsOpen, Exit, world, Working, Documenting, Concluding

LEMMA PutTypes ==
  ASSUME TypeOK, RunIsOpen, pc \in Working, NEW field, NEW value, Put(field, value),
         IsDossier([runs[run] EXCEPT ![field] = value])
  PROVE  /\ DOMAIN runs' = RunIds
         /\ runs'[run] = [runs[run] EXCEPT ![field] = value] /\ runs'[run] # Absent
         /\ \A r \in RunIds \ {run} : runs'[r] = runs[r]
         /\ \A r \in RunIds : runs'[r] # Absent => IsDossier(runs'[r])
<1>1. /\ DOMAIN runs' = RunIds
      /\ runs'[run] = [runs[run] EXCEPT ![field] = value]
      /\ \A r \in RunIds \ {run} : runs'[r] = runs[r]
  BY DEF Put, TypeOK, RunIsOpen
<1>2. runs'[run] # Absent
  BY <1>1, DossiersExist
<1> QED
  BY <1>1, <1>2 DEF TypeOK

LEMMA PersistTypes ==
  ASSUME TypeOK, RunIsOpen, pc \in Working \ {"printing"},
         NEW field, field # "sealed", NEW value, NEW next \in Working \ {"printing"},
         Persist(field, value, next), IsDossier([runs[run] EXCEPT ![field] = value])
  PROVE  TypeOK' /\ RunIsOpen'
<1>1. CASE Put(field, value) /\ NoFault /\ Goto(next)
  <2>1. /\ DOMAIN runs' = RunIds
        /\ runs'[run] = [runs[run] EXCEPT ![field] = value] /\ runs'[run] # Absent
        /\ \A r \in RunIds : runs'[r] # Absent => IsDossier(runs'[r])
    BY <1>1, PutTypes
  <2>2. runs'[run].sealed = runs[run].sealed
    BY <2>1 DEF RunIsOpen, TypeOK, IsDossier, DossierOf
  <2>3. UNCHANGED <<world, happened, options, progress>> /\ pc' = next
    BY <1>1 DEF Persist, Goto
  <2>4. TypeOK'
    BY <2>1, <2>3 DEF TypeOK, world, options, progress, Working, Documenting, Concluding
  <2>5. RunIsOpen'
    BY <2>1, <2>2, <2>3 DEF RunIsOpen, progress
  <2> QED
    BY <2>4, <2>5
<1>2. CASE InternalError /\ UNCHANGED runs
  <2>1. Exit(2, "internal") /\ UNCHANGED <<world, happened, runs>>
    BY <1>2 DEF InternalError, Persist
  <2> QED
    BY <2>1, ExitTypes DEF TypeOK
<1> QED
  BY <1>1, <1>2 DEF Persist

LEMMA SourceIsProbed ==
  ASSUME TypeOK
  PROVE  Source \in ProbedSource
<1>1. GitState \in {"unknown", "dirty", "clean"}
  BY DEF GitState
<1> QED
  BY <1>1 DEF Source, ProbedSource, TypeOK

LEMMA PreparedIsPrepared ==
  ASSUME TypeOK, pc = "preparing", disk # Broken,
         NEW levels, levels = ResolveLevels(disk, cli.profile),
         NEW checks, checks = Plan(registry, levels, IsCargo)
  PROVE  IsPrepared([manifest |-> disk, source |-> Source, checks |-> checks,
                     claims |-> ClaimLevels(checks, levels)])
<1>1. disk \in Manifests /\ IsManifest(disk) /\ cli.profile \in Profile \cup {Unset}
      /\ registry \in Loadable
  BY PipelineAssumption DEF TypeOK
<1>2. IsLevels(levels)
  BY <1>1, LevelsAreLevels
<1>3. IsProper(checks)
  BY <1>1, <1>2, PlanIsProper, PipelineAssumption
<1>4. ClaimLevels(checks, levels) \in [Claims(checks) -> RequirementLevel]
  BY <1>2, <1>3, ClaimLevelsAreLevels
<1> QED
  BY <1>1, <1>3, <1>4, SourceIsProbed DEF IsPrepared

LEMMA CommandTypes ==
  ASSUME TypeOK, CommandIsSound, [Next]_vars
  PROVE  TypeOK' /\ RunIsOpen'
<1> USE DEF CommandIsSound, Documenting, Concluding, Working
<1> DEFINE dossier == runs[run]
<1>a. pc \in Working => IsDossier(dossier) /\ IsPrepared(prepared)
  BY DEF TypeOK, RunIsOpen
<1>b. DOMAIN runs = RunIds /\ \A r \in RunIds : runs[r] # Absent => IsDossier(runs[r])
  BY DEF TypeOK
<1>1. ASSUME NEW profile \in CliProfiles, NEW strict \in BOOLEAN, StartVerify(profile, strict)
      PROVE  TypeOK' /\ RunIsOpen'
  <2>1. CASE Exit(2, "manifest")
    BY <1>b, <1>1, <2>1, ExitTypes DEF StartVerify
  <2>2. CASE pc' = "registering"
    <3>1. /\ cli' = [profile |-> profile, strict |-> strict, replay_of |-> 0]
          /\ UNCHANGED <<world, runs, happened, progress>>
      BY <1>1, <2>2 DEF StartVerify, Exit
    <3>2. cli' \in [profile : Profile \cup {Unset}, strict : BOOLEAN, replay_of : 0..MaxRuns]
      BY <3>1, PipelineAssumption
    <3> QED
      BY <2>2, <3>1, <3>2 DEF TypeOK, RunIsOpen, world, progress
  <2> QED
    BY <1>1, <2>1, <2>2 DEF StartVerify
<1>2. ASSUME NEW original \in RunIds, NEW strict \in BOOLEAN, StartReplay(original, strict)
      PROVE  TypeOK' /\ RunIsOpen'
  <2>1. CASE Exit(2, "no_manifest")
    BY <1>b, <1>2, <2>1, ExitTypes DEF StartReplay
  <2>2. CASE pc' = "preparing"
    <3>1. runs[original].manifest_used \in Manifests \cup {Absent}
      BY <1>b, <1>2 DEF StartReplay, IsDossier, DossierOf
    <3>2. /\ registry' \in Manifests /\ registry'.profile \in Profile \cup {Unset}
          /\ cli' = [profile |-> registry'.profile, strict |-> strict,
                     replay_of |-> original]
      BY <1>2, <2>2, <3>1, PipelineAssumption DEF StartReplay, Exit, IsManifest
    <3>3. cli' \in [profile : Profile \cup {Unset}, strict : BOOLEAN, replay_of : 0..MaxRuns]
      BY <3>2, PipelineAssumption DEF RunIds
    <3> QED
      BY <1>2, <2>2, <3>2, <3>3
      DEF StartReplay, Exit, TypeOK, RunIsOpen, world, progress, Loadable
  <2> QED
    BY <1>2, <2>1, <2>2 DEF StartReplay
<1>3. CASE BuildRegistry
  BY <1>3 DEF BuildRegistry, TypeOK, RunIsOpen, world, progress, Loadable
<1>4. CASE Prepare
  <2>1. CASE Exit(2, "manifest") \/ Exit(2, "internal")
    BY <1>b, <1>4, <2>1, ExitTypes DEF Prepare
  <2>2. CASE pc' = "creating"
    <3>1. IsPrepared(prepared')
      BY <1>4, <2>2, PreparedIsPrepared DEF Prepare, InternalError, Exit
    <3>2. UNCHANGED <<world, runs, happened, cli, registry, progress>>
      BY <1>4, <2>2 DEF Prepare, InternalError, Exit
    <3> QED
      BY <1>4, <2>2, <3>1, <3>2 DEF Prepare, TypeOK, RunIsOpen, world, progress
  <2> QED
    BY <1>4, <2>1, <2>2 DEF Prepare, InternalError
<1>5. CASE CreateRun
  <2>1. ASSUME NEW r \in RunIds, NewRun(r) PROVE TypeOK' /\ RunIsOpen'
    <3>1. /\ DOMAIN runs' = RunIds /\ runs'[r] = NewDossier /\ ~runs'[r].sealed
          /\ \A s \in RunIds \ {r} : runs'[s] = runs[s]
      BY <1>b, <2>1 DEF NewRun, NewDossier
    <3>2. runs'[r] # Absent /\ IsDossier(runs'[r])
      BY <3>1, NewDossierIsDossier, DossiersExist
    <3>3. pc = "creating" /\ UNCHANGED <<world, happened, options>>
      BY <1>5, <2>1 DEF CreateRun, NewRun
    <3>4. run' = r /\ executions' = <<>> /\ pc' = "artifact"
      BY <2>1 DEF NewRun
    <3>5. executions' \in Seq([check : CheckIds, outcome : Verdict])
      BY <3>4
    <3> QED
      BY <3>1, <3>2, <3>3, <3>4, <3>5 DEF TypeOK, RunIsOpen, world, options
  <2>2. CASE InternalError /\ UNCHANGED runs
    BY <1>b, <1>5, <2>2, ExitTypes DEF CreateRun, InternalError
  <2> QED
    BY <1>5, <2>1, <2>2 DEF CreateRun
<1>6. CASE WriteArtifact
  BY <1>a, <1>6, DossierUpdates, PersistTypes DEF WriteArtifact, IsPrepared
<1>7. CASE WriteProvenance
  BY <1>a, <1>7, DossierUpdates, PersistTypes, SourceIsProbed DEF WriteProvenance
<1>8. CASE SetReplayOf
  <2>1. cli.replay_of \in 0..MaxRuns
    BY <1>8 DEF SetReplayOf, TypeOK
  <2> QED
    BY <1>a, <1>8, <2>1, DossierUpdates, PersistTypes DEF SetReplayOf
<1>9. CASE WritePlan
  BY <1>a, <1>9, DossierUpdates, PersistTypes DEF WritePlan, IsPrepared, IsProper
<1>10. CASE WriteClaims
  <2>1. prepared.claims \in [Claims(prepared.checks) -> RequirementLevel]
        /\ Claims(prepared.checks) \in SUBSET ClaimNames
    BY <1>a, <1>10 DEF WriteClaims, IsPrepared, IsProper, Claims, PlannedCheck
  <2> QED
    BY <1>a, <1>10, <2>1, DossierUpdates, PersistTypes DEF WriteClaims
<1>11. CASE WriteManifestUsed
  <2>1. /\ IsDossier([runs[run] EXCEPT !["manifest_used"] = prepared.manifest])
        /\ pc = "manifest_used" /\ Goto("running") /\ UNCHANGED <<world, happened>>
    BY <1>a, <1>11, DossierUpdates DEF WriteManifestUsed, IsPrepared
  <2>2. CASE Put("manifest_used", prepared.manifest)
    <3>1. /\ DOMAIN runs' = RunIds
          /\ runs'[run] = [runs[run] EXCEPT !["manifest_used"] = prepared.manifest]
          /\ runs'[run] # Absent
          /\ \A r \in RunIds : runs'[r] # Absent => IsDossier(runs'[r])
      BY <2>1, <2>2, PutTypes
    <3>2. runs'[run].sealed = runs[run].sealed
      BY <1>a, <2>1, <3>1 DEF IsDossier, DossierOf
    <3> QED
      BY <2>1, <3>1, <3>2 DEF TypeOK, RunIsOpen, Goto, world, options, progress
  <2>3. CASE UNCHANGED runs
    BY <2>1, <2>3 DEF TypeOK, RunIsOpen, Goto, world, options, progress
  <2> QED
    BY <1>11, <2>2, <2>3 DEF WriteManifestUsed
<1>12. CASE SetRunning
  BY <1>a, <1>12, DossierUpdates, PersistTypes DEF SetRunning
<1>13. ASSUME NEW check \in todo, NEW event \in Events(check), ExecuteCheck(check, event)
       PROVE  TypeOK' /\ RunIsOpen'
  <2>1. check \in PlannedCheck
    BY <1>a, <1>13 DEF ExecuteCheck, IsPrepared, IsProper, ExecutedOnce
  <2>2. [check |-> check.id, outcome |-> Outcome(check, event)]
          \in [check : CheckIds, outcome : Verdict]
    BY <2>1, EventsAreEvents, OutcomeIsVerdict DEF PlannedCheck
  <2>3. executions' \in Seq([check : CheckIds, outcome : Verdict])
    BY <1>13, <2>2, AppendProperties DEF ExecuteCheck, TypeOK
  <2> QED
    BY <1>13, <2>3 DEF ExecuteCheck, TypeOK, RunIsOpen, world, options
<1>14. CASE AbortRun
  <2>1. /\ pc = "executing" /\ Exit(2, "internal") /\ UNCHANGED <<world, happened>>
    BY <1>14 DEF AbortRun, InternalError
  <2>2. CASE Put("state", "aborted")
    BY <1>a, <2>1, <2>2, DossierUpdates, PutTypes, ExitTypes
  <2>3. CASE UNCHANGED runs
    BY <1>b, <2>1, <2>3, ExitTypes
  <2> QED
    BY <1>14, <2>2, <2>3 DEF AbortRun
<1>15. CASE AppendExecution
  <2>1. pc = "executing" /\ saved < Len(executions) /\ UNCHANGED <<world, happened>>
    BY <1>15 DEF AppendExecution, Executed
  <2>2. CASE InternalError /\ UNCHANGED runs
    BY <1>b, <2>1, <2>2, ExitTypes DEF InternalError
  <2>3. CASE UNCHANGED <<pc, options, executions>> /\ run' = run
    <3> DEFINE E == [check : CheckIds, outcome : Verdict]
    <3>1. /\ runs[run].executions \in Seq(E)
          /\ executions[saved + 1] \in E
      <4>1. executions \in Seq(E) /\ saved + 1 \in 1..Len(executions)
        BY <2>1 DEF ExecutionsAreSaved, TypeOK
      <4>2. runs[run].executions \in Seq(E)
        BY <1>a, <2>1 DEF IsDossier, DossierOf
      <4> QED
        BY <4>1, <4>2, ElementOfSeq
    <3>2. PICK s \in Seq(E) : Put("executions", s)
      <4>1. Append(runs[run].executions, executions[saved + 1]) \in Seq(E)
            /\ <<executions[saved + 1]>> \in Seq(E)
        BY <3>1
      <4>2. /\ \/ Put("executions", Append(runs[run].executions, executions[saved + 1]))
               \/ Put("executions", <<executions[saved + 1]>>)
        BY <1>15, <2>1, <2>3 DEF AppendExecution, InternalError, Exit
      <4> QED
        BY <4>1, <4>2
    <3>3. IsDossier([runs[run] EXCEPT !["executions"] = s])
      BY <1>a, <2>1, <3>2, DossierUpdates
    <3>4. /\ DOMAIN runs' = RunIds
          /\ runs'[run] = [runs[run] EXCEPT !["executions"] = s]
          /\ runs'[run] # Absent
          /\ \A r \in RunIds : runs'[r] # Absent => IsDossier(runs'[r])
      BY <2>1, <3>2, <3>3, PutTypes
    <3>5. runs'[run].sealed = runs[run].sealed
      BY <1>a, <2>1, <3>4 DEF IsDossier, DossierOf
    <3> QED
      BY <2>1, <2>3, <3>4, <3>5 DEF TypeOK, RunIsOpen, world, options
  <2> QED
    BY <1>15, <2>2, <2>3 DEF AppendExecution
<1>16. CASE WriteEvaluations
  <2>1. pc = "executing" /\ UNCHANGED <<world, happened>>
    BY <1>16 DEF WriteEvaluations, Executed
  <2>2. CASE InternalError /\ UNCHANGED runs
    BY <1>b, <2>1, <2>2, ExitTypes DEF InternalError
  <2>3. CASE pc' = "reporting"
    <3> DEFINE evaluations ==
                 Evaluations(prepared.checks, prepared.claims, executions, cli.strict)
    <3>1. /\ Put("evaluations", evaluations)
          /\ UNCHANGED <<options, run, executions>>
      BY <1>16, <2>3 DEF WriteEvaluations, InternalError, Exit
    <3>2. evaluations \in SUBSET [claim : ClaimNames, item : GatingItem]
      <4>1. /\ DOMAIN prepared.claims \subseteq ClaimNames
            /\ \A c \in DOMAIN prepared.claims : prepared.claims[c] \in RequirementLevel
        BY <1>a, <2>1 DEF IsPrepared, IsProper, Claims, PlannedCheck
      <4>2. executions \in Seq([check : CheckIds, outcome : Verdict])
            /\ cli.strict \in BOOLEAN
        BY <2>1 DEF TypeOK
      <4> QED
        BY <4>1, <4>2, EvaluationsAreEvaluations
    <3> HIDE DEF evaluations
    <3>3. IsDossier([runs[run] EXCEPT !["evaluations"] = evaluations])
      BY <1>a, <2>1, <3>2, DossierUpdates
    <3>4. /\ DOMAIN runs' = RunIds
          /\ runs'[run] = [runs[run] EXCEPT !["evaluations"] = evaluations]
          /\ runs'[run] # Absent
          /\ \A r \in RunIds : runs'[r] # Absent => IsDossier(runs'[r])
      BY <2>1, <3>1, <3>3, PutTypes
    <3>5. runs'[run].sealed = runs[run].sealed
      BY <1>a, <2>1, <3>4 DEF IsDossier, DossierOf
    <3> QED
      BY <2>1, <2>3, <3>1, <3>4, <3>5 DEF TypeOK, RunIsOpen, world, options
  <2> QED
    BY <1>16, <2>2, <2>3 DEF WriteEvaluations
<1>17. CASE WriteReport
  <2>1. [strict |-> cli.strict, verdict |-> Gate(runs[run].evaluations)]
          \in [strict : BOOLEAN, verdict : DossierVerdict]
    BY <1>17, GateIsVerdict DEF WriteReport, TypeOK
  <2> QED
    BY <1>a, <1>17, <2>1, DossierUpdates, PersistTypes DEF WriteReport
<1>18. CASE Finalize
  <2>1. pc = "finalizing" /\ UNCHANGED <<world, happened>>
    BY <1>18 DEF Finalize
  <2>2. CASE InternalError /\ UNCHANGED runs
    BY <1>b, <2>1, <2>2, ExitTypes DEF InternalError
  <2>3. CASE pc' = "printing"
    <3> DEFINE sealed == [[runs[run] EXCEPT !["sealed"] = TRUE] EXCEPT !["state"] = "finalized"]
    <3>1. /\ runs' = [runs EXCEPT ![run].sealed = TRUE, ![run].state = "finalized"]
          /\ UNCHANGED <<options, progress>>
      BY <1>18, <2>3 DEF Finalize, InternalError, Exit, Goto
    <3>2. /\ DOMAIN runs' = RunIds /\ runs'[run] = sealed
          /\ \A r \in RunIds \ {run} : runs'[r] = runs[r]
      BY <1>b, <2>1, <3>1 DEF RunIsOpen
    <3>3. IsDossier(sealed)
      BY <1>a, <2>1, DossierUpdates
    <3>4. sealed.sealed
      BY <1>a, <2>1 DEF IsDossier, DossierOf
    <3> HIDE DEF sealed
    <3>5. runs'[run] # Absent /\ \A r \in RunIds : runs'[r] # Absent => IsDossier(runs'[r])
      BY <1>b, <3>2, <3>3, DossiersExist
    <3> QED
      BY <2>1, <2>3, <3>1, <3>2, <3>4, <3>5 DEF TypeOK, RunIsOpen, world, options, progress
  <2> QED
    BY <1>18, <2>2, <2>3 DEF Finalize, Goto
<1>19. CASE PrintVerdict
  BY <1>b, <1>19, ExitTypes DEF PrintVerdict
<1>20. ASSUME NEW m \in Manifests \cup {Broken}, EditManifest(m)
       PROVE  TypeOK' /\ RunIsOpen'
  BY <1>20 DEF EditManifest, TypeOK, RunIsOpen, options, progress
<1>21. CASE EditTree
  BY <1>21 DEF EditTree, TypeOK, RunIsOpen, options, progress
<1>22. CASE Kill
  BY <1>b, <1>22, ExitTypes DEF Kill
<1>23. CASE UNCHANGED vars
  BY <1>23 DEF vars, TypeOK, RunIsOpen, world, options, progress
<1> QED
  BY <1>1, <1>2, <1>3, <1>4, <1>5, <1>6, <1>7, <1>8, <1>9, <1>10, <1>11, <1>12, <1>13, <1>14,
     <1>15, <1>16, <1>17, <1>18, <1>19, <1>20, <1>21, <1>22, <1>23 DEF Next, Command

-----------------------------------------------------------------------------
(* The steps of a command.                                                 *)

LEMMA IdleIsSound ==
  ASSUME pc' \notin Working
  PROVE  CommandIsSound'
BY DEF CommandIsSound, RunIsOpen, ExecutedOnce, NothingExecuted, ExecutionsAreSaved,
       PlanIsSaved, ConclusionIsSaved, Working, Documenting, Concluding

LEMMA ExitIsSound ==
  ASSUME NEW code, NEW cause, Exit(code, cause)
  PROVE  CommandIsSound'
BY IdleIsSound DEF Exit, Working, Documenting, Concluding

LEMMA ExecutedOnceStays ==
  ASSUME ExecutedOnce, pc \in Working,
         UNCHANGED <<prepared, todo, executions, run, happened>>
  PROVE  ExecutedOnce'
BY DEF ExecutedOnce, Finished, IsRecordOf

(* The documents of the run other than the one that is written.            *)
LEMMA OthersStay ==
  ASSUME TypeOK, RunIsOpen, pc \in Working, NEW field, NEW value, Put(field, value),
         field \in DOMAIN runs[run]
  PROVE  /\ runs'[run][field] = value
         /\ \A g \in {"plan", "claims", "executions", "evaluations", "report", "sealed"} :
              g # field => runs'[run][g] = runs[run][g]
<1>1. runs'[run] = [runs[run] EXCEPT ![field] = value]
  BY DEF TypeOK, RunIsOpen, Put
<1>2. {"plan", "claims", "executions", "evaluations", "report", "sealed"}
        \subseteq DOMAIN runs[run]
  BY DEF TypeOK, RunIsOpen, IsDossier, DossierOf
<1> QED
  BY <1>1, <1>2

LEMMA FieldsExist ==
  ASSUME TypeOK, RunIsOpen, pc \in Working
  PROVE  {"artifact", "provenance", "replay_of", "plan", "claims", "manifest_used", "state",
          "executions", "evaluations", "report", "sealed"} \subseteq DOMAIN runs[run]
BY DEF TypeOK, RunIsOpen, IsDossier, DossierOf

LEMMA DocumentIsSound ==
  ASSUME CommandIsSound, RunIsOpen', pc \in Documenting,
         pc' \in Documenting \cup {"executing"}, UNCHANGED <<happened, options, progress>>,
         runs'[run].executions = runs[run].executions,
         pc' \in Working \ {"artifact", "provenance", "replay_of", "plan"} =>
           runs'[run].plan = prepared.checks,
         pc' \in Working \ {"artifact", "provenance", "replay_of", "plan", "claims"} =>
           runs'[run].claims = prepared.claims
  PROVE  CommandIsSound'
<1> USE DEF Documenting, Concluding, Working, CommandIsSound, options, progress
<1>1. ExecutedOnce'
  BY ExecutedOnceStays
<1>2. NothingExecuted' /\ ExecutionsAreSaved'
  BY DEF NothingExecuted, ExecutionsAreSaved
<1>3. PlanIsSaved' /\ ConclusionIsSaved'
  BY DEF PlanIsSaved, ConclusionIsSaved
<1> QED
  BY <1>1, <1>2, <1>3

LEMMA PersistIsSound ==
  ASSUME TypeOK, CommandIsSound, RunIsOpen', pc \in Documenting,
         NEW field \in {"artifact", "provenance", "replay_of", "plan", "claims", "state"},
         NEW value, NEW next \in Documenting \cup {"executing"},
         Persist(field, value, next),
         next \in Working \ {"artifact", "provenance", "replay_of", "plan"} =>
           \/ field = "plan" /\ value = prepared.checks
           \/ field # "plan" /\ runs[run].plan = prepared.checks,
         next \in Working \ {"artifact", "provenance", "replay_of", "plan", "claims"} =>
           \/ field = "claims" /\ value = prepared.claims
           \/ field # "claims" /\ runs[run].claims = prepared.claims
  PROVE  CommandIsSound'
<1>1. CASE InternalError
  BY <1>1, ExitIsSound DEF InternalError
<1>2. CASE Put(field, value) /\ Goto(next)
  <2>1. /\ runs'[run][field] = value
        /\ \A g \in {"plan", "claims", "executions", "evaluations", "report", "sealed"} :
             g # field => runs'[run][g] = runs[run][g]
    BY <1>2, OthersStay, FieldsExist DEF CommandIsSound, Working
  <2>2. pc' = next /\ UNCHANGED <<happened, options, progress>>
    BY <1>2 DEF Persist, Goto
  <2> QED
    BY <2>1, <2>2, DocumentIsSound
<1> QED
  BY <1>1, <1>2 DEF Persist

LEMMA ExecuteIsSound ==
  ASSUME TypeOK, CommandIsSound, RunIsOpen', NEW check \in todo, NEW event \in Events(check),
         ExecuteCheck(check, event)
  PROVE  CommandIsSound'
<1> USE DEF Documenting, Concluding, Working, CommandIsSound
<1> DEFINE h == happened[run]
           record == [check |-> check.id, outcome |-> Outcome(check, event)]
<1>1. /\ pc = "executing" /\ pc' = "executing" /\ run \in RunIds
      /\ executions' = Append(executions, record) /\ todo' = todo \ {check}
      /\ happened' = [happened EXCEPT ![run] = Override(@, [i \in {check.id} |-> event])]
      /\ UNCHANGED <<runs, options, run, saved, verdict>>
  BY DEF ExecuteCheck, RunIsOpen
<1>2. /\ IsProper(prepared.checks) /\ check \in PlannedCheck /\ check \in prepared.checks
      /\ todo \subseteq prepared.checks
  BY <1>1 DEF TypeOK, IsPrepared, ExecutedOnce, IsProper
<1>3. /\ DOMAIN happened'[run] = DOMAIN h \cup {check.id}
      /\ happened'[run][check.id] = event
      /\ \A x \in DOMAIN h \ {check.id} : happened'[run][x] = h[x]
  BY <1>1 DEF Override, TypeOK
<1>4. Finished' = Finished \cup {check} /\ \A c \in Finished : c.id # check.id
  BY <1>1, <1>2 DEF Finished, options, IsProper
<1>5. \A c \in Finished : \A e : IsRecordOf(e, c) => IsRecordOf(e, c)'
  BY <1>1, <1>3, <1>4 DEF IsRecordOf
<1>6. IsRecordOf(record, check)'
  BY <1>1, <1>2, <1>3, EventsAreEvents DEF IsRecordOf
<1>7. /\ Len(executions') = Len(executions) + 1 /\ Len(executions) \in Nat
      /\ executions'[Len(executions) + 1] = record
      /\ \A i \in 1..Len(executions) : executions'[i] = executions[i]
  <2>1. executions \in Seq([check : CheckIds, outcome : Verdict])
    BY DEF TypeOK
  <2> HIDE DEF record
  <2> QED
    BY <1>1, <2>1
<1>8. Cardinality(todo') = Cardinality(todo) - 1 /\ Cardinality(todo) \in Nat
  <2>1. IsFiniteSet(todo)
    BY <1>2, FS_Subset DEF IsProper
  <2> QED
    BY <1>1, <2>1, FS_RemoveElement, FS_CardinalityType
<1> HIDE DEF h, record
<1>9. ExecutedOnce'
  <2>1. /\ todo' \subseteq prepared'.checks
        /\ Len(executions') + Cardinality(todo') = Cardinality(prepared'.checks)
    <3>1. Len(executions) + Cardinality(todo) = Cardinality(prepared.checks)
      BY <1>1 DEF ExecutedOnce
    <3> QED
      BY <1>1, <1>2, <1>7, <1>8, <3>1 DEF options
  <2>2. ASSUME NEW c \in Finished' PROVE \E i \in 1..Len(executions') : IsRecordOf(executions[i], c)'
    <3>1. CASE c = check
      BY <1>6, <1>7, <3>1
    <3>2. CASE c \in Finished
      <4>1. PICK i \in 1..Len(executions) : IsRecordOf(executions[i], c)
        BY <1>1, <3>2 DEF ExecutedOnce
      <4>2. IsRecordOf(executions[i], c)'
        BY <1>5, <1>7, <3>2, <4>1 DEF IsRecordOf
      <4> QED
        BY <1>7, <4>2
    <3> QED
      BY <1>4, <3>1, <3>2
  <2>3. ASSUME NEW i \in 1..Len(executions') PROVE \E c \in Finished' : IsRecordOf(executions[i], c)'
    <3>1. CASE i = Len(executions) + 1
      BY <1>4, <1>6, <1>7, <3>1
    <3>2. CASE i \in 1..Len(executions)
      <4>1. PICK c \in Finished : IsRecordOf(executions[i], c)
        BY <1>1, <3>2 DEF ExecutedOnce
      <4> QED
        BY <1>4, <1>5, <1>7, <3>2, <4>1
    <3> QED
      BY <1>7, <3>1, <3>2
  <2> QED
    BY <2>1, <2>2, <2>3 DEF ExecutedOnce
<1>10. NothingExecuted' /\ ExecutionsAreSaved'
  BY <1>1, <1>7 DEF NothingExecuted, ExecutionsAreSaved
<1>11. PlanIsSaved' /\ ConclusionIsSaved'
  BY <1>1 DEF PlanIsSaved, ConclusionIsSaved, options
<1> QED
  BY <1>9, <1>10, <1>11

LEMMA NewRunIsSound ==
  ASSUME TypeOK, CommandIsSound, RunIsOpen', pc = "creating", NEW r \in RunIds, NewRun(r)
  PROVE  CommandIsSound'
<1> USE DEF Documenting, Concluding, Working, CommandIsSound
<1>1. /\ run' = r /\ runs'[r] = NewDossier /\ todo' = prepared.checks /\ executions' = <<>>
      /\ saved' = 0 /\ pc' = "artifact" /\ UNCHANGED options
  BY DEF NewRun, TypeOK
<1>2. IsFiniteSet(prepared.checks)
  BY DEF TypeOK, IsPrepared, IsProper
<1>3. Cardinality(prepared.checks) \in Nat
  BY <1>2, FS_CardinalityType
<1>4. Finished' = {}
  BY <1>1 DEF Finished, options
<1>5. ExecutedOnce'
  BY <1>1, <1>3, <1>4 DEF ExecutedOnce, options
<1>6. NothingExecuted' /\ ExecutionsAreSaved'
  BY <1>1 DEF NothingExecuted, ExecutionsAreSaved, NewDossier, options
<1>7. PlanIsSaved' /\ ConclusionIsSaved'
  BY <1>1 DEF PlanIsSaved, ConclusionIsSaved
<1> QED
  BY <1>5, <1>6, <1>7

LEMMA AppendIsSound ==
  ASSUME TypeOK, CommandIsSound, RunIsOpen', AppendExecution, ~InternalError
  PROVE  CommandIsSound'
<1> USE DEF Documenting, Concluding, Working, CommandIsSound
<1> DEFINE old == runs[run].executions
           next == executions[saved + 1]
<1>1. /\ pc = "executing" /\ todo = {} /\ saved < Len(executions) /\ saved' = saved + 1
      /\ UNCHANGED <<pc, options, run, todo, executions, verdict, happened>>
      /\ \/ Put("executions", Append(old, next))
         \/ LostReads /\ Put("executions", <<next>>)
  BY DEF AppendExecution, Executed
<1>2. /\ runs'[run].plan = runs[run].plan /\ runs'[run].claims = runs[run].claims
  BY <1>1, OthersStay, FieldsExist
<1>3. ~LostReads => runs'[run].executions = Append(old, next)
  BY <1>1, OthersStay, FieldsExist, ZenonT(60)
<1>4. /\ saved \in 0..Len(executions) /\ Len(executions) \in Nat
      /\ old \in Seq([check : CheckIds, outcome : Verdict])
      /\ ~LostReads => Len(old) = saved /\ \A i \in 1..saved : old[i] = executions[i]
  BY <1>1 DEF ExecutionsAreSaved, TypeOK, RunIsOpen, IsDossier, DossierOf
<1>5. ~LostReads => /\ Len(Append(old, next)) = saved + 1
                    /\ \A i \in 1..(saved + 1) : Append(old, next)[i] = executions[i]
  <2> HIDE DEF old
  <2> QED
    BY <1>4
<1>6. ExecutionsAreSaved'
  <2>1. ~LostReads => /\ Len(runs'[run].executions) = saved + 1
                      /\ \A i \in 1..(saved + 1) : runs'[run].executions[i] = executions[i]
    <3> HIDE DEF old, next
    <3> QED
      BY <1>3, <1>5
  <2>2. run' = run /\ executions' = executions /\ saved' = saved + 1 /\ todo' = {}
    BY <1>1
  <2>3. saved + 1 \in 0..Len(executions)
    BY <1>1, <1>4
  <2> QED
    BY <2>1, <2>2, <2>3 DEF ExecutionsAreSaved
<1>7. ExecutedOnce' /\ NothingExecuted'
  BY <1>1, ExecutedOnceStays DEF NothingExecuted, options
<1>8. PlanIsSaved' /\ ConclusionIsSaved'
  BY <1>1, <1>2 DEF PlanIsSaved, ConclusionIsSaved, options
<1> QED
  BY <1>6, <1>7, <1>8

LEMMA EvaluateIsSound ==
  ASSUME TypeOK, CommandIsSound, RunIsOpen', WriteEvaluations, ~InternalError
  PROVE  CommandIsSound'
<1> USE DEF Documenting, Concluding, Working, CommandIsSound
<1> DEFINE evaluations ==
             Evaluations(prepared.checks, prepared.claims, executions, cli.strict)
<1>1. /\ pc = "executing" /\ todo = {} /\ saved = Len(executions) /\ pc' = "reporting"
      /\ Put("evaluations", evaluations) /\ verdict' = Gate(evaluations)
      /\ UNCHANGED <<options, run, todo, executions, saved, happened>>
  BY DEF WriteEvaluations, Executed
<1>2. evaluations' = evaluations
  BY <1>1 DEF options
<1> HIDE DEF evaluations
<1>3. /\ runs'[run].plan = runs[run].plan /\ runs'[run].claims = runs[run].claims
      /\ runs'[run].executions = runs[run].executions
      /\ runs'[run].evaluations = evaluations
  BY <1>1, OthersStay, FieldsExist
<1>4. ExecutedOnce' /\ NothingExecuted' /\ ExecutionsAreSaved'
  BY <1>1, <1>3, ExecutedOnceStays DEF NothingExecuted, ExecutionsAreSaved, options
<1>5. PlanIsSaved'
  BY <1>1, <1>3 DEF PlanIsSaved, options
<1>6. ConclusionIsSaved'
  BY <1>1, <1>2, <1>3 DEF ConclusionIsSaved, evaluations
<1> QED
  BY <1>4, <1>5, <1>6

LEMMA ReportIsSound ==
  ASSUME TypeOK, CommandIsSound, RunIsOpen', WriteReport, ~InternalError
  PROVE  CommandIsSound'
<1> USE DEF Documenting, Concluding, Working, CommandIsSound
<1> DEFINE report == [strict |-> cli.strict, verdict |-> Gate(runs[run].evaluations)]
<1>1. /\ pc = "reporting" /\ pc' = "finalizing" /\ Put("report", report)
      /\ UNCHANGED <<options, progress, happened>>
  BY DEF WriteReport, Persist, Goto
<1>2. report = [strict |-> cli.strict, verdict |-> verdict]
  BY <1>1 DEF ConclusionIsSaved
<1> HIDE DEF report
<1>3. /\ runs'[run].plan = runs[run].plan /\ runs'[run].claims = runs[run].claims
      /\ runs'[run].executions = runs[run].executions
      /\ runs'[run].evaluations = runs[run].evaluations
      /\ runs'[run].report = report
  BY <1>1, OthersStay, FieldsExist
<1>4. ExecutedOnce' /\ NothingExecuted' /\ ExecutionsAreSaved'
  BY <1>1, <1>3, ExecutedOnceStays DEF NothingExecuted, ExecutionsAreSaved, options, progress
<1>5. PlanIsSaved'
  BY <1>1, <1>3 DEF PlanIsSaved, options, progress
<1>6. ConclusionIsSaved'
  BY <1>1, <1>2, <1>3 DEF ConclusionIsSaved, options, progress
<1> QED
  BY <1>4, <1>5, <1>6

LEMMA FinalizeSeals ==
  ASSUME TypeOK, RunIsOpen, Finalize, ~InternalError
  PROVE  /\ pc = "finalizing" /\ pc' = "printing" /\ run \in RunIds /\ runs'[run].sealed
         /\ UNCHANGED <<options, progress, happened, result>>
         /\ \A g \in {"plan", "claims", "executions", "evaluations", "report"} :
              runs'[run][g] = runs[run][g]
         /\ \A r \in RunIds \ {run} : runs'[r] = runs[r]
<1>1. /\ pc = "finalizing" /\ pc' = "printing"
      /\ runs' = [runs EXCEPT ![run].sealed = TRUE, ![run].state = "finalized"]
      /\ UNCHANGED <<options, progress, happened, result>>
  BY DEF Finalize, Goto
<1>2. /\ run \in RunIds /\ IsDossier(runs[run]) /\ DOMAIN runs = RunIds
  BY <1>1 DEF TypeOK, RunIsOpen, Working, Concluding
<1>3. runs'[run] = [[runs[run] EXCEPT !["sealed"] = TRUE] EXCEPT !["state"] = "finalized"]
      /\ \A r \in RunIds \ {run} : runs'[r] = runs[r]
  BY <1>1, <1>2
<1>4. {"plan", "claims", "executions", "evaluations", "report", "sealed"} \subseteq DOMAIN runs[run]
  BY <1>2 DEF IsDossier, DossierOf
<1> QED
  BY <1>1, <1>2, <1>3, <1>4

LEMMA FinalizeIsSound ==
  ASSUME TypeOK, CommandIsSound, RunIsOpen', Finalize, ~InternalError
  PROVE  CommandIsSound'
<1> USE DEF Documenting, Concluding, Working, CommandIsSound
<1>1. /\ pc = "finalizing" /\ pc' = "printing" /\ UNCHANGED <<options, progress, happened>>
      /\ runs'[run].plan = runs[run].plan /\ runs'[run].claims = runs[run].claims
      /\ runs'[run].executions = runs[run].executions
      /\ runs'[run].evaluations = runs[run].evaluations
      /\ runs'[run].report = runs[run].report
  BY FinalizeSeals
<1>2. ExecutedOnce' /\ NothingExecuted' /\ ExecutionsAreSaved'
  BY <1>1, ExecutedOnceStays DEF NothingExecuted, ExecutionsAreSaved, options, progress
<1>3. PlanIsSaved'
  BY <1>1 DEF PlanIsSaved, options, progress
<1>4. ConclusionIsSaved'
  BY <1>1 DEF ConclusionIsSaved, options, progress
<1> QED
  BY <1>2, <1>3, <1>4

LEMMA UndisturbedIsSound ==
  ASSUME CommandIsSound, RunIsOpen', UNCHANGED <<pc, options, progress, happened, runs>>
  PROVE  CommandIsSound'
<1> USE DEF CommandIsSound, options, progress
<1>1. ExecutedOnce'
  BY DEF ExecutedOnce, Finished, IsRecordOf
<1>2. NothingExecuted' /\ ExecutionsAreSaved'
  BY DEF NothingExecuted, ExecutionsAreSaved
<1>3. PlanIsSaved' /\ ConclusionIsSaved'
  BY DEF PlanIsSaved, ConclusionIsSaved
<1> QED
  BY <1>1, <1>2, <1>3

LEMMA CommandStep ==
  ASSUME TypeOK, CommandIsSound, [Next]_vars
  PROVE  CommandIsSound'
<1> USE DEF Documenting, Concluding, Working
<1>a. TypeOK' /\ RunIsOpen'
  BY CommandTypes
<1>b. PlanIsSaved
  BY DEF CommandIsSound
<1>c. CASE InternalError
  BY <1>c, ExitIsSound DEF InternalError
<1> SUFFICES ASSUME ~InternalError PROVE CommandIsSound'
  BY <1>c
<1>1. ASSUME NEW profile \in CliProfiles, NEW strict \in BOOLEAN, StartVerify(profile, strict)
      PROVE  CommandIsSound'
  BY <1>1, IdleIsSound DEF StartVerify, Exit
<1>2. ASSUME NEW original \in RunIds, NEW strict \in BOOLEAN, StartReplay(original, strict)
      PROVE  CommandIsSound'
  BY <1>2, IdleIsSound DEF StartReplay, Exit
<1>3. CASE BuildRegistry
  BY <1>3, IdleIsSound DEF BuildRegistry
<1>4. CASE Prepare
  BY <1>4, IdleIsSound DEF Prepare, Exit
<1>5. CASE CreateRun
  BY <1>a, <1>5, NewRunIsSound DEF CreateRun
<1>6. CASE WriteArtifact
  BY <1>a, <1>6, PersistIsSound DEF WriteArtifact
<1>7. CASE WriteProvenance
  BY <1>a, <1>7, PersistIsSound DEF WriteProvenance
<1>8. CASE SetReplayOf
  BY <1>a, <1>8, PersistIsSound DEF SetReplayOf
<1>9. CASE WritePlan
  BY <1>a, <1>9, PersistIsSound DEF WritePlan
<1>10. CASE WriteClaims
  BY <1>a, <1>b, <1>10, PersistIsSound DEF WriteClaims, PlanIsSaved
<1>11. CASE WriteManifestUsed
  <2>1. /\ pc = "manifest_used" /\ pc' = "running" /\ UNCHANGED <<happened, options, progress>>
    BY <1>11 DEF WriteManifestUsed, Goto
  <2>2. /\ runs'[run].plan = runs[run].plan /\ runs'[run].claims = runs[run].claims
        /\ runs'[run].executions = runs[run].executions
    BY <1>11, <2>1, OthersStay, FieldsExist DEF WriteManifestUsed, CommandIsSound
  <2> QED
    BY <1>a, <1>b, <2>1, <2>2, DocumentIsSound DEF PlanIsSaved
<1>12. CASE SetRunning
  BY <1>a, <1>b, <1>12, PersistIsSound DEF SetRunning, PlanIsSaved
<1>13. ASSUME NEW check \in todo, NEW event \in Events(check), ExecuteCheck(check, event)
       PROVE  CommandIsSound'
  BY <1>a, <1>13, ExecuteIsSound
<1>14. CASE AbortRun
  BY <1>14 DEF AbortRun
<1>15. CASE AppendExecution
  BY <1>a, <1>15, AppendIsSound
<1>16. CASE WriteEvaluations
  BY <1>a, <1>16, EvaluateIsSound
<1>17. CASE WriteReport
  BY <1>a, <1>17, ReportIsSound
<1>18. CASE Finalize
  BY <1>a, <1>18, FinalizeIsSound
<1>19. CASE PrintVerdict
  BY <1>19, ExitIsSound DEF PrintVerdict
<1>20. ASSUME NEW m \in Manifests \cup {Broken}, EditManifest(m)
       PROVE  CommandIsSound'
  BY <1>a, <1>20, UndisturbedIsSound DEF EditManifest
<1>21. CASE EditTree
  BY <1>a, <1>21, UndisturbedIsSound DEF EditTree
<1>22. CASE Kill
  BY <1>22, ExitIsSound DEF Kill
<1>23. CASE UNCHANGED vars
  BY <1>a, <1>23, UndisturbedIsSound DEF vars
<1> QED
  BY <1>1, <1>2, <1>3, <1>4, <1>5, <1>6, <1>7, <1>8, <1>9, <1>10, <1>11, <1>12, <1>13, <1>14,
     <1>15, <1>16, <1>17, <1>18, <1>19, <1>20, <1>21, <1>22, <1>23 DEF Next, Command

-----------------------------------------------------------------------------
(* What a step does to the runs.                                           *)

LEMMA WhoWrites ==
  ASSUME TypeOK, CommandIsSound, [Next]_vars, NEW r \in RunIds
  PROVE  \/ runs'[r] = runs[r] /\ happened'[r] = happened[r]
         \/ runs[r] = Absent /\ runs'[r] = NewDossier /\ happened'[r] = happened[r]
         \/ /\ r = run /\ pc \in Working \ {"printing"} /\ runs[r] # Absent
            /\ runs'[r].sealed => Finalize /\ ~InternalError
<1> USE DEF Documenting, Concluding, Working
<1>a. /\ RunIsOpen /\ DOMAIN runs = RunIds /\ DOMAIN happened = RunIds
  BY DEF CommandIsSound, TypeOK
<1> SUFFICES ASSUME ~(runs'[r] = runs[r] /\ happened'[r] = happened[r])
             PROVE  \/ runs[r] = Absent /\ runs'[r] = NewDossier /\ happened'[r] = happened[r]
                    \/ /\ r = run /\ pc \in Working \ {"printing"} /\ runs[r] # Absent
                       /\ runs'[r].sealed => Finalize /\ ~InternalError
  OBVIOUS
<1>1. ASSUME NEW field, field \in DOMAIN runs[run], field # "sealed", NEW value,
             Put(field, value), pc \in Working \ {"printing"}, UNCHANGED happened
      PROVE  r = run /\ runs[r] # Absent /\ ~runs'[r].sealed
  <2>1. r = run
    BY <1>1, <1>a DEF Put
  <2>2. runs'[run].sealed = runs[run].sealed
    BY <1>1, <1>a, OthersStay
  <2> QED
    BY <1>1, <1>a, <2>1, <2>2 DEF RunIsOpen
<1>2. ASSUME NEW field, NEW value, NEW next, Persist(field, value, next),
             field \in DOMAIN runs[run], field # "sealed", pc \in Working \ {"printing"}
      PROVE  r = run /\ runs[r] # Absent /\ ~runs'[r].sealed
  BY <1>1, <1>2 DEF Persist
<1>3. CASE CreateRun
  <2>1. ASSUME NEW s \in RunIds, runs[s] = Absent, NewRun(s)
        PROVE  runs[r] = Absent /\ runs'[r] = NewDossier /\ happened'[r] = happened[r]
    BY <1>3, <1>a, <2>1 DEF CreateRun, NewRun
  <2> QED
    BY <1>3, <2>1 DEF CreateRun
<1>f. pc \in Working => /\ {"artifact", "provenance", "replay_of", "plan", "claims", "manifest_used",
                           "state", "executions", "evaluations", "report"} \subseteq DOMAIN runs[run]
  BY <1>a, FieldsExist
<1>4. CASE WriteArtifact
  BY <1>2, <1>4, <1>f DEF WriteArtifact
<1>5. CASE WriteProvenance
  BY <1>2, <1>5, <1>f DEF WriteProvenance
<1>6. CASE SetReplayOf
  BY <1>2, <1>6, <1>f DEF SetReplayOf
<1>7. CASE WritePlan
  BY <1>2, <1>7, <1>f DEF WritePlan
<1>8. CASE WriteClaims
  BY <1>2, <1>8, <1>f DEF WriteClaims
<1>9. CASE WriteManifestUsed
  BY <1>1, <1>9, <1>f DEF WriteManifestUsed
<1>10. CASE SetRunning
  BY <1>2, <1>10, <1>f DEF SetRunning
<1>11. ASSUME NEW check \in todo, NEW event \in Events(check), ExecuteCheck(check, event)
       PROVE  r = run /\ pc \in Working \ {"printing"} /\ runs[r] # Absent /\ ~runs'[r].sealed
  BY <1>11, <1>a DEF ExecuteCheck, RunIsOpen
<1>12. CASE AbortRun
  BY <1>1, <1>12, <1>f DEF AbortRun
<1>13. CASE AppendExecution
  BY <1>1, <1>13, <1>f DEF AppendExecution, Executed
<1>14. CASE WriteEvaluations
  BY <1>1, <1>14, <1>f DEF WriteEvaluations, Executed
<1>15. CASE WriteReport
  BY <1>2, <1>15, <1>f DEF WriteReport
<1>16. CASE Finalize
  <2>1. ~InternalError
    BY <1>16 DEF Finalize, InternalError, Exit, Goto
  <2>2. r = run /\ pc = "finalizing"
    BY <1>16, <1>a, <2>1, FinalizeSeals DEF Finalize
  <2> QED
    BY <1>16, <1>a, <2>1, <2>2 DEF RunIsOpen
<1>17. ASSUME UNCHANGED <<runs, happened>> PROVE FALSE
  BY <1>17
<1> QED
  BY <1>3, <1>4, <1>5, <1>6, <1>7, <1>8, <1>9, <1>10, <1>11, <1>12, <1>13, <1>14, <1>15, <1>16,
     <1>17
  DEF Next, Command, vars, StartVerify, StartReplay, BuildRegistry, Prepare, PrintVerdict,
      EditManifest, EditTree, Kill, WriteArtifact, WriteProvenance, SetReplayOf, WritePlan,
      WriteClaims, WriteManifestUsed, SetRunning, WriteReport

LEMMA SealedStay ==
  ASSUME TypeOK, CommandIsSound, [Next]_vars, NEW r \in RunIds
  PROVE  /\ IsSealed(r) => IsSealed(r)' /\ runs'[r] = runs[r] /\ happened'[r] = happened[r]
         /\ IsSealed(r)' /\ ~IsSealed(r) => r = run /\ Finalize /\ ~InternalError
<1>1. NewDossier.sealed = FALSE
  BY DEF NewDossier
<1>2. r = run /\ pc \in Working \ {"printing"} => ~IsSealed(r)
  BY DEF CommandIsSound, RunIsOpen, IsSealed
<1> QED
  BY <1>1, <1>2, WhoWrites DEF IsSealed

-----------------------------------------------------------------------------
(* What the executions of a run are worth.                                 *)

LEMMA OutcomesAreReal ==
  ASSUME TypeOK, CommandIsSound, pc \in Concluding, NEW claim
  PROVE  Outcomes(claim, prepared.checks, executions)
           = {Outcome(c, happened[run][c.id]) : c \in Supporting(prepared.checks, claim)}
<1> DEFINE S == Supporting(prepared.checks, claim)
           real(c) == Outcome(c, happened[run][c.id])
<1>1. /\ S \subseteq prepared.checks /\ Finished = prepared.checks
      /\ \A c, d \in prepared.checks : c.id = d.id => c = d
      /\ \A c \in prepared.checks : \E i \in 1..Len(executions) : IsRecordOf(executions[i], c)
      /\ \A i \in 1..Len(executions) : \E c \in prepared.checks : IsRecordOf(executions[i], c)
  BY DEF CommandIsSound, ConclusionIsSaved, ExecutedOnce, Finished, Supporting, TypeOK,
         IsPrepared, IsProper, Working
<1>2. \A e, c : IsRecordOf(e, c) => e.check = c.id /\ e.outcome = real(c)
  BY DEF IsRecordOf
<1>3. ASSUME NEW i \in 1..Len(executions), executions[i].check \in {c.id : c \in S}
      PROVE  \E c \in S : executions[i].outcome = real(c)
  <2>1. PICK c \in prepared.checks : IsRecordOf(executions[i], c)
    BY <1>1
  <2>2. PICK d \in S : executions[i].check = d.id
    BY <1>3
  <2>3. c = d
    BY <1>1, <1>2, <2>1, <2>2
  <2> QED
    BY <1>2, <2>1, <2>3
<1>4. ASSUME NEW c \in S
      PROVE  \E i \in 1..Len(executions) :
               executions[i].check \in {d.id : d \in S} /\ executions[i].outcome = real(c)
  BY <1>1, <1>2
<1> HIDE DEF S, real
<1>5. Outcomes(claim, prepared.checks, executions)
        = {executions[i].outcome :
             i \in {j \in 1..Len(executions) : executions[j].check \in {c.id : c \in S}}}
  BY DEF Outcomes, S
<1>6. Outcomes(claim, prepared.checks, executions) = {real(c) : c \in S}
  BY <1>3, <1>4, <1>5
<1> QED
  BY <1>6 DEF S, real

(* What really happened, for each outcome, where git always answers.       *)
GitAnswers == Repository = "none" \/ (Repository = "root" /\ ~GitFails)

LEMMA OutcomeTells ==
  ASSUME GitAnswers, TypeOK, NEW c, NEW r \in RunIds, c.id \in DOMAIN happened[r],
         happened[r][c.id] \in Event,
         happened[r][c.id].contradicted => happened[r][c.id].exit \in ExitStatus,
         happened[r][c.id].exit = "unknown" => Repository # "root" \/ GitFails
  PROVE  /\ Outcome(c, happened[r][c.id]) = "verified" => Succeeded(c, r)
         /\ Outcome(c, happened[r][c.id]) \in {"skipped", "unsupported"} => CouldNotRun(c, r)
<1> DEFINE event == happened[r][c.id]
<1>1. CASE event.exit \in ExitStatus
  <2>1. Outcome(c, event) = CommandOutcome(event.exit, Expectation(c), event.contradicted)
    BY <1>1 DEF Outcome, ExitStatus
  <2>2. Expectation(c) \in ExitExpectation
    BY DEF Expectation, ExitExpectation
  <2>3. event.contradicted \in BOOLEAN
    BY DEF Event
  <2> QED
    BY <1>1, <2>1, <2>2, <2>3
    DEF CommandOutcome, InterpretExit, ExitStatus, ExitExpectation, Succeeded
<1>2. CASE event.exit \in {"missing_tool", "identical", "diverged", "insufficient"}
  BY <1>2 DEF Outcome, Succeeded, CouldNotRun, ExitStatus
<1>3. CASE event.exit \in {"clean", "dirty", "unknown"}
  <2>1. Outcome(c, event) = SourceCleanOutcome(event.exit)
    BY <1>3 DEF Outcome, ExitStatus
  <2> QED
    BY <1>3, <2>1 DEF SourceCleanOutcome, Succeeded, CouldNotRun, ExitStatus, GitAnswers
<1> QED
  BY <1>1, <1>2, <1>3 DEF Event

LEMMA PassTells ==
  ASSUME NEW items, AggregateDossierVerdict(items) = "pass",
         NEW item \in items, item.level = "required"
  PROVE  item.verdict = "verified"
BY DEF AggregateDossierVerdict

LEMMA VerifiedTells ==
  ASSUME NEW outcomes \in SUBSET Verdict, ClaimVerdict(outcomes) = "verified"
  PROVE  "verified" \in outcomes /\ outcomes \subseteq {"verified", "skipped", "unsupported"}
BY DEF ClaimVerdict, CombineVerdicts, Verdict

-----------------------------------------------------------------------------
(* The theorems.                                                           *)

LEMMA InitIsSound == Init => TypeOK /\ CommandIsSound
<1> SUFFICES ASSUME Init PROVE TypeOK /\ CommandIsSound
  OBVIOUS
<1>1. executions \in Seq([check : CheckIds, outcome : Verdict])
  BY DEF Init
<1>2. TypeOK
  BY <1>1 DEF Init, TypeOK, Working, Documenting, Concluding
<1>3. CommandIsSound
  BY DEF Init, CommandIsSound, RunIsOpen, ExecutedOnce, NothingExecuted, ExecutionsAreSaved,
         PlanIsSaved, ConclusionIsSaved, Working, Documenting, Concluding
<1> QED
  BY <1>2, <1>3

(* The documents of the runs and the memory of the command are of their    *)
(* types, and the documents say what is in memory, in every reachable      *)
(* state.                                                                  *)
THEOREM TypeCorrect == Spec => [](TypeOK /\ CommandIsSound)
<1>1. TypeOK /\ CommandIsSound /\ [Next]_vars => (TypeOK /\ CommandIsSound)'
  BY CommandTypes, CommandStep
<1> QED
  BY InitIsSound, <1>1, PTL DEF Spec

(* A command changes the run it has created, and no other one.             *)
THEOREM OtherRunsAreUntouched == Spec => OtherRunsStay
<1>1. TypeOK /\ CommandIsSound /\ [Next]_vars
      => [\A r \in RunIds :
            runs[r] # Absent /\ (pc = "idle" \/ r # run) => runs'[r] = runs[r]]_vars
  <2> SUFFICES ASSUME TypeOK, CommandIsSound, [Next]_vars, NEW r \in RunIds, runs[r] # Absent,
                      pc = "idle" \/ r # run
               PROVE  runs'[r] = runs[r]
    OBVIOUS
  <2> QED
    BY WhoWrites DEF Working, Documenting, Concluding
<1> QED
  BY TypeCorrect, <1>1, PTL DEF Spec, OtherRunsStay

IsComplete(r) ==
  /\ Len(runs[r].executions) = Cardinality(runs[r].plan)
  /\ \A c \in runs[r].plan : \E i \in 1..Len(runs[r].executions) :
       /\ runs[r].executions[i].check = c.id
       /\ c.id \in DOMAIN happened[r]
       /\ runs[r].executions[i].outcome = Outcome(c, happened[r][c.id])

LEMMA FinalizeIsComplete ==
  ASSUME ~LostReads, TypeOK, CommandIsSound, Finalize, ~InternalError
  PROVE  IsComplete(run)'
<1> USE DEF CommandIsSound, Working, Documenting, Concluding
<1>1. /\ pc = "finalizing" /\ run' = run /\ happened' = happened
      /\ runs'[run].plan = runs[run].plan /\ runs'[run].executions = runs[run].executions
  BY FinalizeSeals DEF progress
<1>2. /\ runs[run].plan = prepared.checks /\ todo = {} /\ saved = Len(executions)
      /\ Len(runs[run].executions) = saved
      /\ \A i \in 1..saved : runs[run].executions[i] = executions[i]
  BY <1>1 DEF PlanIsSaved, ConclusionIsSaved, ExecutionsAreSaved
<1>3. /\ Len(executions) + Cardinality(todo) = Cardinality(prepared.checks)
      /\ \A c \in prepared.checks : \E i \in 1..Len(executions) : IsRecordOf(executions[i], c)
  BY <1>1, <1>2 DEF ExecutedOnce, Finished
<1>4. Cardinality(todo) = 0 /\ Len(executions) \in Nat
  BY <1>2, FS_EmptySet DEF TypeOK
<1>5. Len(runs[run].executions) = Cardinality(runs[run].plan)
  BY <1>2, <1>3, <1>4
<1>6. ASSUME NEW c \in runs[run].plan
      PROVE  \E i \in 1..Len(runs[run].executions) :
               /\ runs[run].executions[i].check = c.id
               /\ c.id \in DOMAIN happened[run]
               /\ runs[run].executions[i].outcome = Outcome(c, happened[run][c.id])
  <2>1. PICK i \in 1..Len(executions) : IsRecordOf(executions[i], c)
    BY <1>2, <1>3
  <2>2. runs[run].executions[i] = executions[i] /\ i \in 1..Len(runs[run].executions)
    BY <1>2
  <2> QED
    BY <2>1, <2>2 DEF IsRecordOf
<1> QED
  BY <1>1, <1>5, <1>6 DEF IsComplete

(* In a sealed dossier every planned check is executed exactly once, and   *)
(* its record says what it did, as long as every read of executions.json   *)
(* succeeds: append_execution takes one that fails for an empty document.  *)
THEOREM SealedRunsAreComplete ==
  ASSUME ~LostReads
  PROVE  Spec => []SealedIsComplete
<1>1. TypeOK /\ CommandIsSound /\ SealedIsComplete /\ [Next]_vars => SealedIsComplete'
  <2> SUFFICES ASSUME TypeOK, CommandIsSound, SealedIsComplete, [Next]_vars,
                      NEW r \in RunIds, IsSealed(r)'
               PROVE  IsComplete(r)'
    BY DEF SealedIsComplete, IsComplete, IsSealed
  <2>1. CASE IsSealed(r)
    BY <2>1, SealedStay DEF SealedIsComplete, IsComplete
  <2>2. CASE ~IsSealed(r)
    <3>1. r = run /\ Finalize /\ ~InternalError
      BY <2>2, SealedStay
    <3>2. run' = run
      BY <3>1, FinalizeSeals DEF CommandIsSound, progress
    <3> QED
      BY <3>1, <3>2, FinalizeIsComplete DEF IsComplete
  <2> QED
    BY <2>1, <2>2
<1>2. Init => SealedIsComplete
  BY DEF Init, SealedIsComplete, IsSealed
<1> QED
  BY TypeCorrect, <1>1, <1>2, PTL DEF Spec

(* What the report of a sealed run says follows from its other documents.   *)
IsSupported(r) ==
  Gate(Evaluations(runs[r].plan, runs[r].claims, runs[r].executions, runs[r].report.strict))
    = runs[r].report.verdict

LEMMA FinalizeIsSupported ==
  ASSUME ~LostReads, TypeOK, CommandIsSound, Finalize, ~InternalError
  PROVE  IsSupported(run)'
<1> USE DEF CommandIsSound, Working, Documenting, Concluding
<1>1. /\ pc = "finalizing" /\ run' = run
      /\ \A g \in {"plan", "claims", "executions", "report"} : runs'[run][g] = runs[run][g]
  BY FinalizeSeals DEF progress
<1>2. /\ runs[run].plan = prepared.checks /\ runs[run].claims = prepared.claims
      /\ saved = Len(executions)
      /\ Len(runs[run].executions) = saved
      /\ \A i \in 1..saved : runs[run].executions[i] = executions[i]
      /\ runs[run].report = [strict |-> cli.strict, verdict |-> verdict]
      /\ runs[run].evaluations =
           Evaluations(prepared.checks, prepared.claims, executions, cli.strict)
      /\ verdict = Gate(runs[run].evaluations)
  BY <1>1 DEF PlanIsSaved, ConclusionIsSaved, ExecutionsAreSaved
<1>3. runs[run].executions = executions
  <2> DEFINE E == [check : CheckIds, outcome : Verdict]
             saved_ones == runs[run].executions
  <2>1. executions \in Seq(E) /\ saved_ones \in Seq(E)
    BY <1>1 DEF TypeOK, RunIsOpen, IsDossier, DossierOf
  <2>2. Len(saved_ones) = Len(executions) /\ \A i \in 1..Len(saved_ones) : saved_ones[i] = executions[i]
    BY <1>2
  <2> HIDE DEF E, saved_ones
  <2>3. saved_ones = executions
    BY <2>1, <2>2, SeqEqual
  <2> QED
    BY <2>3 DEF saved_ones
<1>4. IsSupported(run)
  BY <1>2, <1>3 DEF IsSupported
<1> QED
  BY <1>1, <1>4 DEF IsSupported

(* What a command has told is what the report of its sealed run says.      *)
ToldIsSealed ==
  result # Absent /\ result.cause = "verdict" /\ result.run \in RunIds =>
    IsSealed(result.run) /\ runs[result.run].report.verdict = result.verdict

LEMMA ToldStays ==
  ASSUME TypeOK, CommandIsSound, ToldIsSealed, [Next]_vars
  PROVE  ToldIsSealed'
<1> USE DEF Documenting, Concluding, Working
<1>1. ASSUME result' = result PROVE ToldIsSealed'
  BY <1>1, SealedStay DEF ToldIsSealed
<1>2. CASE result' = Absent
  BY <1>2 DEF ToldIsSealed
<1>3. ASSUME NEW code, NEW cause \in {"manifest", "no_manifest", "internal", "killed"},
             Exit(code, cause)
      PROVE  ToldIsSealed'
  BY <1>3 DEF Exit, ToldIsSealed
<1>4. CASE PrintVerdict
  <2>1. /\ pc = "printing" /\ runs' = runs
        /\ result'.cause = "verdict" /\ result'.run = run /\ result'.verdict = verdict
    BY <1>4 DEF PrintVerdict, Exit
  <2>2. IsSealed(run) /\ runs[run].report.verdict = verdict
    BY <2>1 DEF CommandIsSound, RunIsOpen, ConclusionIsSaved, IsSealed
  <2> QED
    BY <2>1, <2>2 DEF ToldIsSealed, IsSealed
<1>5. CASE InternalError
  BY <1>3, <1>5 DEF InternalError
<1>6. ASSUME ~InternalError, result' # result, result' # Absent, ~PrintVerdict
      PROVE  \E code, cause : /\ cause \in {"manifest", "no_manifest", "internal", "killed"}
                             /\ Exit(code, cause)
  <2>1. ASSUME NEW profile \in CliProfiles, NEW strict \in BOOLEAN, StartVerify(profile, strict)
        PROVE  Exit(2, "manifest")
    BY <1>6, <2>1 DEF StartVerify
  <2>2. ASSUME NEW original \in RunIds, NEW strict \in BOOLEAN, StartReplay(original, strict)
        PROVE  Exit(2, "no_manifest")
    BY <1>6, <2>2 DEF StartReplay
  <2>3. CASE Prepare
    BY <1>6, <2>3 DEF Prepare
  <2>4. CASE Kill
    BY <2>4 DEF Kill
  <2>5. ~ (\/ BuildRegistry \/ CreateRun \/ WriteArtifact \/ WriteProvenance \/ SetReplayOf
           \/ WritePlan \/ WriteClaims \/ WriteManifestUsed \/ SetRunning \/ AbortRun
           \/ AppendExecution \/ WriteEvaluations \/ WriteReport \/ Finalize \/ EditTree)
    BY <1>6 DEF BuildRegistry, CreateRun, NewRun, WriteArtifact, WriteProvenance, SetReplayOf,
         WritePlan, WriteClaims, WriteManifestUsed, SetRunning, AbortRun, AppendExecution,
         WriteEvaluations, WriteReport, Finalize, EditTree, Persist, Goto
  <2>6. \A c, e : ~ExecuteCheck(c, e)
    BY <1>6 DEF ExecuteCheck
  <2>7. \A m : ~EditManifest(m)
    BY <1>6 DEF EditManifest
  <2>8. ~UNCHANGED vars
    BY <1>6 DEF vars
  <2> QED
    BY <1>6, <2>1, <2>2, <2>3, <2>4, <2>5, <2>6, <2>7, <2>8 DEF Next, Command
<1> QED
  BY <1>1, <1>2, <1>3, <1>4, <1>5, <1>6

(* Whoever evaluates the plan, the claims and the executions of a sealed   *)
(* dossier again comes to the verdict of its report, and the verdict that  *)
(* a command tells is that one, as long as no execution is lost.           *)
THEOREM DossiersSupportTheirVerdicts ==
  ASSUME ~LostReads
  PROVE  Spec => []DossierSupportsVerdict
<1> DEFINE Sealed == \A r \in RunIds : IsSealed(r) => IsSupported(r)
<1>1. TypeOK /\ CommandIsSound /\ Sealed /\ [Next]_vars => Sealed'
  <2> SUFFICES ASSUME TypeOK, CommandIsSound, Sealed, [Next]_vars,
                      NEW r \in RunIds, IsSealed(r)'
               PROVE  IsSupported(r)'
    OBVIOUS
  <2>1. CASE IsSealed(r)
    BY <2>1, SealedStay DEF IsSupported
  <2>2. CASE ~IsSealed(r)
    <3>1. r = run /\ Finalize /\ ~InternalError
      BY <2>2, SealedStay
    <3>2. run' = run
      BY <3>1, FinalizeSeals DEF CommandIsSound, progress
    <3> QED
      BY <3>1, <3>2, FinalizeIsSupported DEF IsSupported
  <2> QED
    BY <2>1, <2>2
<1>2. TypeOK /\ CommandIsSound /\ ToldIsSealed /\ [Next]_vars => ToldIsSealed'
  BY ToldStays
<1>3. Init => Sealed /\ ToldIsSealed
  BY DEF Init, IsSealed, ToldIsSealed
<1>4. Sealed /\ ToldIsSealed => DossierSupportsVerdict
  BY DEF DossierSupportsVerdict, IsSupported, ToldIsSealed
<1> HIDE DEF Sealed
<1> QED
  BY TypeCorrect, <1>1, <1>2, <1>3, <1>4, PTL DEF Spec

(* A PASS is earned.                                                       *)
IsEarned(r) ==
  runs[r].report.verdict = "pass" =>
    \A claim \in DOMAIN runs[r].claims : runs[r].claims[claim] = "required" =>
      /\ \E c \in Supporting(runs[r].plan, claim) : Succeeded(c, r)
      /\ \A c \in Supporting(runs[r].plan, claim) : Succeeded(c, r) \/ CouldNotRun(c, r)

LEMMA ConclusionIsEarned ==
  ASSUME GitAnswers, TypeOK, CommandIsSound, pc = "finalizing"
  PROVE  IsEarned(run)
<1> USE DEF CommandIsSound, Working, Documenting, Concluding
<1>1. /\ run \in RunIds /\ runs[run].plan = prepared.checks
      /\ runs[run].claims = prepared.claims /\ runs[run].report.verdict = verdict
      /\ verdict = Gate(Evaluations(prepared.checks, prepared.claims, executions, cli.strict))
  BY DEF RunIsOpen, PlanIsSaved, ConclusionIsSaved
<1>2. SUFFICES ASSUME verdict = "pass", NEW claim \in DOMAIN prepared.claims,
                      prepared.claims[claim] = "required"
               PROVE  /\ \E c \in Supporting(prepared.checks, claim) : Succeeded(c, run)
                      /\ \A c \in Supporting(prepared.checks, claim) :
                           Succeeded(c, run) \/ CouldNotRun(c, run)
  BY <1>1 DEF IsEarned
<1> DEFINE outcomes == Outcomes(claim, prepared.checks, executions)
           item == [level |-> "required", verdict |-> ClaimVerdict(outcomes)]
<1>3. ClaimVerdict(outcomes) = "verified"
  <2>1. [claim |-> claim, item |-> Strictly(cli.strict, item)]
          \in Evaluations(prepared.checks, prepared.claims, executions, cli.strict)
    BY <1>2 DEF Evaluations
  <2>2. Strictly(cli.strict, item)
          \in {e.item : e \in Evaluations(prepared.checks, prepared.claims, executions, cli.strict)}
    BY <2>1
  <2>3. Strictly(cli.strict, item).level = "required"
    BY DEF Strictly
  <2>4. Strictly(cli.strict, item).verdict = "verified"
    BY <1>1, <1>2, <2>2, <2>3, PassTells DEF Gate
  <2> QED
    BY <2>4 DEF Strictly
<1>4. outcomes = {Outcome(c, happened[run][c.id]) : c \in Supporting(prepared.checks, claim)}
  BY OutcomesAreReal
<1>5. ASSUME NEW c \in Supporting(prepared.checks, claim)
      PROVE  /\ Outcome(c, happened[run][c.id]) \in Verdict
             /\ Outcome(c, happened[run][c.id]) = "verified" => Succeeded(c, run)
             /\ Outcome(c, happened[run][c.id]) \in {"skipped", "unsupported"} =>
                  CouldNotRun(c, run)
  <2>1. \E e : IsRecordOf(e, c)
    BY DEF ExecutedOnce, Finished, ConclusionIsSaved, Supporting
  <2> QED
    BY <1>1, <2>1, OutcomeTells, OutcomeIsVerdict DEF IsRecordOf
<1>6. outcomes \in SUBSET Verdict
  BY <1>4, <1>5
<1>7. "verified" \in outcomes /\ outcomes \subseteq {"verified", "skipped", "unsupported"}
  <2> HIDE DEF outcomes
  <2> QED
    BY <1>3, <1>6, VerifiedTells
<1> HIDE DEF outcomes
<1> QED
  BY <1>4, <1>5, <1>7

(* A PASS is earned: of every required claim one check really ran and      *)
(* succeeded, and the others succeeded or could not run.  Assumed of git:  *)
(* the project is the root of its repository and git status answers, or it *)
(* is in no repository; otherwise source_clean counts as verified without  *)
(* having been looked at.                                                  *)
THEOREM PassesAreEarned ==
  ASSUME GitAnswers
  PROVE  Spec => []PassIsEarned
<1> DEFINE Sealed == \A r \in RunIds : IsSealed(r) => IsEarned(r)
<1>1. TypeOK /\ CommandIsSound /\ Sealed /\ [Next]_vars => Sealed'
  <2> SUFFICES ASSUME TypeOK, CommandIsSound, Sealed, [Next]_vars,
                      NEW r \in RunIds, IsSealed(r)'
               PROVE  IsEarned(r)'
    OBVIOUS
  <2>1. CASE IsSealed(r)
    BY <2>1, SealedStay DEF IsEarned, Succeeded, CouldNotRun
  <2>2. CASE ~IsSealed(r)
    <3>1. r = run /\ Finalize /\ ~InternalError
      BY <2>2, SealedStay
    <3>2. /\ pc = "finalizing" /\ happened' = happened
          /\ \A g \in {"plan", "claims", "report"} : runs'[r][g] = runs[r][g]
      BY <3>1, FinalizeSeals DEF CommandIsSound
    <3>3. IsEarned(r)
      BY <3>1, <3>2, ConclusionIsEarned
    <3> QED
      BY <3>2, <3>3 DEF IsEarned, Succeeded, CouldNotRun
  <2> QED
    BY <2>1, <2>2
<1>2. Init => Sealed
  BY DEF Init, IsSealed
<1>3. Sealed => PassIsEarned
  BY DEF PassIsEarned, IsEarned
<1> HIDE DEF Sealed
<1> QED
  BY TypeCorrect, <1>1, <1>2, <1>3, PTL DEF Spec

-----------------------------------------------------------------------------
(* Replays, where the manifest stays as it is.                             *)

(* What prepare makes of the manifest m when no --profile is given.        *)
LevelsOf(m) == ResolveLevels(m, Unset)
PlanOf(m) == Plan(m, LevelsOf(m), IsCargo)
ClaimsOf(m) == ClaimLevels(PlanOf(m), LevelsOf(m))

(* Every command works for m, and every sealed run is one of m.            *)
OnlyManifest(m) ==
  /\ \A r \in RunIds : runs[r] # Absent => runs[r].manifest_used \in {Absent, m}
  /\ pc # "idle" => cli.profile \in {Unset, m.profile}
  /\ pc = "preparing" => registry = m
  /\ pc \in Working \cup {"creating"} =>
       prepared.manifest = m /\ prepared.checks = PlanOf(m) /\ prepared.claims = ClaimsOf(m)
  /\ \A r \in RunIds : IsSealed(r) => runs[r].plan = PlanOf(m) /\ runs[r].claims = ClaimsOf(m)

(* The profile of the stored manifest, passed on by replay, is the one     *)
(* that is effective without it.                                           *)
LEMMA StoredProfileIsEffective ==
  ASSUME NEW m, NEW profile \in {Unset, m.profile}
  PROVE  ResolveLevels(m, profile) = LevelsOf(m)
<1>1. EffectiveProfile(m, profile) = EffectiveProfile(m, Unset)
  <2>1. CASE m.profile = Unset
    BY <2>1
  <2>2. CASE m.profile # Unset
    <3>1. EffectiveProfile(m, Unset) = m.profile
      BY <2>2, Zenon DEF EffectiveProfile
    <3>2. EffectiveProfile(m, m.profile) = m.profile
      BY <2>2, Zenon DEF EffectiveProfile
    <3> QED
      BY <3>1, <3>2
  <2> QED
    BY <2>1, <2>2
<1> QED
  BY <1>1 DEF ResolveLevels, LevelsOf

(* Only WriteManifestUsed changes what a run says of its manifest.         *)
LEMMA WhoNamesTheManifest ==
  ASSUME TypeOK, CommandIsSound, [Next]_vars, NEW r \in RunIds, runs'[r] # Absent
  PROVE  \/ runs'[r].manifest_used = Absent
         \/ runs[r] # Absent /\ runs'[r].manifest_used = runs[r].manifest_used
         \/ pc = "manifest_used" /\ runs'[r].manifest_used = prepared.manifest
<1> USE DEF Documenting, Concluding, Working
<1>a. RunIsOpen /\ DOMAIN runs = RunIds
  BY DEF CommandIsSound, TypeOK
<1> DEFINE Kept == runs[r] # Absent /\ runs'[r].manifest_used = runs[r].manifest_used
<1>f. pc \in Working => /\ {"artifact", "provenance", "replay_of", "plan", "claims", "manifest_used",
                           "state", "executions", "evaluations", "report", "sealed"}
                             \subseteq DOMAIN runs[run]
  BY <1>a, FieldsExist
<1>0. CASE UNCHANGED runs
  BY <1>0
<1>1. ASSUME NEW field, field \in DOMAIN runs[run], NEW value, Put(field, value), pc \in Working,
             field # "manifest_used" \/ value = prepared.manifest
      PROVE  Kept \/ (field = "manifest_used" /\ runs'[r].manifest_used = prepared.manifest)
  <2>1. CASE r = run
    <3>1. runs'[r] = [runs[r] EXCEPT ![field] = value] /\ runs[r] # Absent
      BY <1>1, <1>a, <2>1 DEF Put, RunIsOpen
    <3>2. "manifest_used" \in DOMAIN runs[r] /\ field \in DOMAIN runs[r]
      BY <1>1, <1>f, <2>1
    <3> QED
      BY <1>1, <3>1, <3>2
  <2>2. CASE r # run
    BY <1>1, <1>a, <2>2 DEF Put
  <2> QED
    BY <2>1, <2>2
<1>2. ASSUME NEW field, NEW value, NEW next, Persist(field, value, next),
             field \in DOMAIN runs[run], field # "manifest_used", pc \in Working
      PROVE  Kept \/ UNCHANGED runs
  BY <1>1, <1>2 DEF Persist
<1> HIDE DEF Kept
<1>3. CASE CreateRun
  <2>1. ASSUME NEW s \in RunIds, NewRun(s) PROVE runs'[r] = runs[r] \/ runs'[r] = NewDossier
    BY <1>a, <2>1 DEF NewRun
  <2>2. NewDossier.manifest_used = Absent
    BY DEF NewDossier
  <2> QED
    BY <1>0, <1>3, <2>1, <2>2 DEF CreateRun
<1>4. CASE WriteArtifact
  BY <1>0, <1>2, <1>4, <1>f DEF WriteArtifact, Kept
<1>5. CASE WriteProvenance
  BY <1>0, <1>2, <1>5, <1>f DEF WriteProvenance, Kept
<1>6. CASE SetReplayOf
  BY <1>0, <1>2, <1>6, <1>f DEF SetReplayOf, Kept
<1>7. CASE WritePlan
  BY <1>0, <1>2, <1>7, <1>f DEF WritePlan, Kept
<1>8. CASE WriteClaims
  BY <1>0, <1>2, <1>8, <1>f DEF WriteClaims, Kept
<1>9. CASE WriteManifestUsed
  <2>1. pc = "manifest_used"
    BY <1>9 DEF WriteManifestUsed
  <2>2. CASE Put("manifest_used", prepared.manifest)
    BY <1>1, <1>f, <2>1, <2>2 DEF Kept
  <2> QED
    BY <1>0, <1>9, <2>1, <2>2 DEF WriteManifestUsed
<1>10. CASE SetRunning
  BY <1>0, <1>2, <1>10, <1>f DEF SetRunning, Kept
<1>11. CASE AbortRun
  BY <1>0, <1>1, <1>11, <1>f DEF AbortRun, Kept
<1>12. CASE AppendExecution
  BY <1>0, <1>1, <1>12, <1>f DEF AppendExecution, Executed, Kept
<1>13. CASE WriteEvaluations
  BY <1>0, <1>1, <1>13, <1>f DEF WriteEvaluations, Executed, Kept
<1>14. CASE WriteReport
  BY <1>0, <1>2, <1>14, <1>f DEF WriteReport, Kept
<1>15. CASE Finalize
  <2>1. CASE UNCHANGED runs
    BY <1>0, <2>1
  <2>2. CASE runs' = [runs EXCEPT ![run].sealed = TRUE, ![run].state = "finalized"]
    <3>1. pc = "finalizing" /\ run \in RunIds /\ runs[run] # Absent
      BY <1>15, <1>a DEF Finalize, RunIsOpen
    <3>2. runs'[run] = [[runs[run] EXCEPT !["sealed"] = TRUE] EXCEPT !["state"] = "finalized"]
          /\ \A s \in RunIds \ {run} : runs'[s] = runs[s]
      BY <1>a, <2>2, <3>1
    <3>3. Kept
      BY <1>f, <3>1, <3>2 DEF Kept
    <3> QED
      BY <3>3 DEF Kept
  <2> QED
    BY <1>15, <2>1, <2>2 DEF Finalize
<1> QED
  BY <1>0, <1>3, <1>4, <1>5, <1>6, <1>7, <1>8, <1>9, <1>10, <1>11, <1>12, <1>13, <1>14, <1>15
  DEF Next, Command, vars, StartVerify, StartReplay, BuildRegistry, Prepare, PrintVerdict,
      ExecuteCheck, EditManifest, EditTree, Kill, world, options, progress

(* Where a command comes from, and what it keeps.                          *)
LEMMA CommandsKeepTheManifest ==
  ASSUME NEW m \in Manifests \ {Broken}, CliProfiles = {Unset}, TypeOK, CommandIsSound,
         OnlyManifest(m), disk = m, [Next]_vars
  PROVE  /\ pc' # "idle" => cli'.profile \in {Unset, m.profile}
         /\ pc' = "preparing" => registry' = m
         /\ pc' \in Working \cup {"creating"} =>
              /\ prepared'.manifest = m /\ prepared'.checks = PlanOf(m)
              /\ prepared'.claims = ClaimsOf(m)
<1> USE DEF Documenting, Concluding, Working
<1> DEFINE Goal == /\ pc' # "idle" => cli'.profile \in {Unset, m.profile}
                   /\ pc' = "preparing" => registry' = m
                   /\ pc' \in Working \cup {"creating"} =>
                        /\ prepared'.manifest = m /\ prepared'.checks = PlanOf(m)
                        /\ prepared'.claims = ClaimsOf(m)
<1> SUFFICES Goal
  OBVIOUS
<1>1. ASSUME pc' = "idle" PROVE Goal
  BY <1>1
<1>2. ASSUME pc \in Working \cup {"creating"}, pc' \in Working, UNCHANGED options PROVE Goal
  BY <1>2 DEF OnlyManifest, options
<1>3. ASSUME UNCHANGED <<pc, options>> PROVE Goal
  BY <1>3 DEF OnlyManifest, options
<1>4. ASSUME NEW profile \in CliProfiles, NEW strict \in BOOLEAN, StartVerify(profile, strict)
      PROVE  Goal
  BY <1>4 DEF StartVerify, Exit
<1>5. ASSUME NEW original \in RunIds, NEW strict \in BOOLEAN, StartReplay(original, strict)
      PROVE  Goal
  <2>1. CASE pc' = "idle"
    BY <1>1, <2>1
  <2>2. CASE pc' # "idle"
    <3>1. /\ runs[original] # Absent /\ runs[original].manifest_used # Absent
          /\ registry' = runs[original].manifest_used /\ pc' = "preparing"
          /\ cli' = [profile |-> registry'.profile, strict |-> strict, replay_of |-> original]
      BY <1>5, <2>2 DEF StartReplay, Exit
    <3>2. registry' = m
      BY <3>1 DEF OnlyManifest
    <3> QED
      BY <3>1, <3>2
  <2> QED
    BY <2>1, <2>2
<1>6. CASE BuildRegistry
  BY <1>6 DEF BuildRegistry, OnlyManifest
<1>7. CASE Prepare
  <2>1. CASE pc' = "idle"
    BY <1>1, <2>1
  <2>2. CASE pc' # "idle"
    <3>1. /\ pc = "preparing" /\ pc' = "creating" /\ UNCHANGED <<cli, registry>>
          /\ prepared' = [manifest |-> disk, source |-> Source,
                          checks |-> Plan(registry, ResolveLevels(disk, cli.profile), IsCargo),
                          claims |-> ClaimLevels(
                            Plan(registry, ResolveLevels(disk, cli.profile), IsCargo),
                            ResolveLevels(disk, cli.profile))]
      BY <1>7, <2>2 DEF Prepare, InternalError, Exit
    <3>2. registry = m /\ cli.profile \in {Unset, m.profile}
      BY <3>1 DEF OnlyManifest
    <3>3. ResolveLevels(disk, cli.profile) = LevelsOf(m)
      BY <3>2, StoredProfileIsEffective
    <3> QED
      BY <3>1, <3>2, <3>3 DEF PlanOf, ClaimsOf
  <2> QED
    BY <2>1, <2>2
<1>8. CASE CreateRun
  BY <1>1, <1>2, <1>8 DEF CreateRun, NewRun, InternalError, Exit
<1>9. ASSUME NEW field, NEW value, NEW next \in Working, Persist(field, value, next), pc \in Working
      PROVE  Goal
  BY <1>1, <1>2, <1>9 DEF Persist, Goto, InternalError, Exit
<1>10. CASE \/ WriteArtifact \/ WriteProvenance \/ SetReplayOf \/ WritePlan \/ WriteClaims
            \/ SetRunning \/ WriteReport
  BY <1>9, <1>10 DEF WriteArtifact, WriteProvenance, SetReplayOf, WritePlan, WriteClaims,
       SetRunning, WriteReport
<1>11. CASE WriteManifestUsed
  BY <1>2, <1>11 DEF WriteManifestUsed, Goto
<1>12. ASSUME NEW check \in todo, NEW event \in Events(check), ExecuteCheck(check, event)
       PROVE  Goal
  BY <1>3, <1>12 DEF ExecuteCheck
<1>13. CASE AbortRun \/ PrintVerdict \/ Kill
  BY <1>1, <1>13 DEF AbortRun, InternalError, PrintVerdict, Kill, Exit
<1>14. CASE AppendExecution
  BY <1>1, <1>3, <1>14 DEF AppendExecution, InternalError, Exit
<1>15. CASE WriteEvaluations
  <2>1. pc = "executing"
    BY <1>15 DEF WriteEvaluations, Executed
  <2>2. (UNCHANGED options /\ pc' = "reporting") \/ InternalError
    BY <1>15 DEF WriteEvaluations, options
  <2> QED
    BY <1>1, <1>2, <2>1, <2>2 DEF InternalError, Exit
<1>16. CASE Finalize
  <2>1. pc = "finalizing" /\ ((pc' = "printing" /\ UNCHANGED options) \/ pc' = "idle")
    BY <1>16 DEF Finalize, Goto, InternalError, Exit
  <2> QED
    BY <1>1, <1>2, <2>1
<1>17. ASSUME NEW n \in Manifests \cup {Broken}, EditManifest(n) PROVE Goal
  BY <1>3, <1>17 DEF EditManifest
<1>18. CASE EditTree
  BY <1>3, <1>18 DEF EditTree
<1>19. CASE UNCHANGED vars
  BY <1>3, <1>19 DEF vars
<1> HIDE DEF Goal
<1>20. CASE Command
  <2>1. CASE BuildRegistry \/ Prepare \/ CreateRun
    BY <2>1, <1>6, <1>7, <1>8
  <2>2. CASE \E check \in todo : \E event \in Events(check) : ExecuteCheck(check, event)
    BY <2>2, <1>12
  <2>3. CASE \/ WriteArtifact \/ WriteProvenance \/ SetReplayOf \/ WritePlan \/ WriteClaims
             \/ SetRunning \/ WriteReport
    BY <2>3, <1>10
  <2>4. CASE WriteManifestUsed \/ AppendExecution \/ WriteEvaluations \/ Finalize
    BY <2>4, <1>11, <1>14, <1>15, <1>16
  <2>5. CASE AbortRun \/ PrintVerdict
    BY <2>5, <1>13
  <2> QED
    BY <1>20, <2>1, <2>2, <2>3, <2>4, <2>5 DEF Command
<1>21. CASE Kill
  BY <1>13, <1>21
<1>22. CASE \E profile \in CliProfiles, strict \in BOOLEAN : StartVerify(profile, strict)
  BY <1>22, <1>4
<1>23. CASE \E original \in RunIds, strict \in BOOLEAN : StartReplay(original, strict)
  BY <1>23, <1>5
<1>24. CASE \E n \in Manifests \cup {Broken} : EditManifest(n)
  BY <1>24, <1>17
<1>25. CASE Next
  BY <1>25, <1>18, <1>20, <1>21, <1>22, <1>23, <1>24 DEF Next
<1> QED
  BY <1>19, <1>25

(* A sealed replay of a sealed run has its plan.                           *)
ReplayRepeatsPlan ==
  \A r \in RunIds : IsSealed(r) /\ runs[r].replay_of # 0 =>
    (IsSealed(runs[r].replay_of) => runs[r].plan = runs[runs[r].replay_of].plan)

(* A replay repeats the plan and the claims of a sealed original, at its   *)
(* levels, whatever fails, is killed or is edited in the source tree, as   *)
(* long as nobody edits the manifest and no command has a --profile.       *)
THEOREM UneditedReplaysAreFaithful ==
  ASSUME NEW m \in Manifests \ {Broken}, CliProfiles = {Unset}
  PROVE  Spec /\ [](disk = m) => [](ReplayIsFaithful /\ ReplayRepeatsPlan)
<1>1. TypeOK /\ CommandIsSound /\ OnlyManifest(m) /\ disk = m /\ [Next]_vars => OnlyManifest(m)'
  <2> SUFFICES ASSUME TypeOK, CommandIsSound, OnlyManifest(m), disk = m, [Next]_vars
               PROVE  OnlyManifest(m)'
    OBVIOUS
  <2>1. ASSUME NEW r \in RunIds, runs'[r] # Absent PROVE runs'[r].manifest_used \in {Absent, m}
    <3>1. pc = "manifest_used" => prepared.manifest = m
      BY DEF OnlyManifest, Working, Documenting
    <3> QED
      BY <2>1, <3>1, WhoNamesTheManifest DEF OnlyManifest
  <2>2. ASSUME NEW r \in RunIds, IsSealed(r)'
        PROVE  runs'[r].plan = PlanOf(m) /\ runs'[r].claims = ClaimsOf(m)
    <3>1. CASE IsSealed(r)
      BY <3>1, SealedStay DEF OnlyManifest
    <3>2. CASE ~IsSealed(r)
      <4>1. r = run /\ Finalize /\ ~InternalError
        BY <2>2, <3>2, SealedStay
      <4>2. /\ pc = "finalizing"
            /\ runs'[r].plan = runs[r].plan /\ runs'[r].claims = runs[r].claims
        BY <4>1, FinalizeSeals DEF CommandIsSound
      <4>3. runs[r].plan = prepared.checks /\ runs[r].claims = prepared.claims
        BY <4>1, <4>2 DEF CommandIsSound, PlanIsSaved, Working, Concluding
      <4>4. prepared.checks = PlanOf(m) /\ prepared.claims = ClaimsOf(m)
        BY <4>2 DEF OnlyManifest, Working, Concluding
      <4> QED
        BY <4>2, <4>3, <4>4
    <3> QED
      BY <3>1, <3>2
  <2>3. PlanOf(m)' = PlanOf(m) /\ ClaimsOf(m)' = ClaimsOf(m)
    BY DEF PlanOf, ClaimsOf, LevelsOf
  <2> QED
    BY <2>1, <2>2, <2>3, CommandsKeepTheManifest DEF OnlyManifest, IsSealed
<1>2. Init => OnlyManifest(m)
  BY DEF Init, OnlyManifest, IsSealed, Working, Documenting, Concluding
<1>3. TypeOK /\ OnlyManifest(m) => ReplayIsFaithful /\ ReplayRepeatsPlan
  <2> SUFFICES ASSUME TypeOK, OnlyManifest(m), NEW r \in RunIds, IsSealed(r), runs[r].replay_of # 0,
                      IsSealed(runs[r].replay_of)
               PROVE  /\ runs[r].claims = runs[runs[r].replay_of].claims
                      /\ runs[r].plan = runs[runs[r].replay_of].plan
    BY DEF ReplayIsFaithful, ReplayRepeatsPlan
  <2>1. runs[r].replay_of \in RunIds
    <3>1. runs[r].replay_of \in 0..MaxRuns
      BY DEF TypeOK, IsSealed, IsDossier, DossierOf
    <3> QED
      BY <3>1, PipelineAssumption DEF RunIds
  <2> QED
    BY <2>1 DEF OnlyManifest
<1>4. Spec => [](TypeOK /\ CommandIsSound)
  BY TypeCorrect
<1> QED
  BY <1>1, <1>2, <1>3, <1>4, PTL DEF Spec

-----------------------------------------------------------------------------
(* Laws of the gate, for any set of items.                                 *)

Gated(items, level) == {i.verdict : i \in {j \in items : j.level = level}}

LEMMA GateOf ==
  ASSUME NEW items
  PROVE  LET required == Gated(items, "required")
             recommended == Gated(items, "recommended")
         IN /\ AggregateDossierVerdict(items) = "fail" <=> "failed" \in required
            /\ AggregateDossierVerdict(items) = "pass" <=>
                 required \subseteq {"verified"} /\ recommended \subseteq {"verified"}
            /\ ExitSuccess(AggregateDossierVerdict(items)) <=>
                 required \cap {"failed", "not_verified", "unsupported"} = {}
BY DEF AggregateDossierVerdict, Gated, ExitSuccess

(* No claim that is added, whatever became of it, makes a gate better: one *)
(* that passes with it has passed without it, and a failure stays.         *)
THEOREM MoreClaimsNeverHelp ==
  ASSUME NEW items, NEW more, items \subseteq more
  PROVE  /\ AggregateDossierVerdict(more) = "pass" => AggregateDossierVerdict(items) = "pass"
         /\ ExitSuccess(AggregateDossierVerdict(more))
              => ExitSuccess(AggregateDossierVerdict(items))
         /\ AggregateDossierVerdict(items) = "fail" => AggregateDossierVerdict(more) = "fail"
<1>1. /\ Gated(items, "required") \subseteq Gated(more, "required")
      /\ Gated(items, "recommended") \subseteq Gated(more, "recommended")
  BY DEF Gated
<1> QED
  BY <1>1, GateOf

(* --strict only tightens the gate: it turns no gate into a better one,    *)
(* and makes none fail that did not fail without it.                       *)
THEOREM StrictOnlyTightens ==
  ASSUME NEW items \in SUBSET GatingItem
  PROVE  LET strictly == AggregateDossierVerdict({Strictly(TRUE, i) : i \in items})
             loosely == AggregateDossierVerdict(items)
         IN /\ strictly = "pass" <=> loosely = "pass"
            /\ ExitSuccess(strictly) => ExitSuccess(loosely)
            /\ strictly = "fail" <=> loosely = "fail"
<1> DEFINE tight == {Strictly(TRUE, i) : i \in items}
<1>1. ASSUME NEW i \in items
      PROVE  /\ Strictly(TRUE, i).level = i.level
             /\ Strictly(TRUE, i).verdict = i.verdict
                  \/ /\ i.level = "required" /\ i.verdict = "skipped"
                     /\ Strictly(TRUE, i).verdict = "unsupported"
             /\ i.level # "required" => Strictly(TRUE, i).verdict = i.verdict
             /\ i.verdict # "skipped" => Strictly(TRUE, i).verdict = i.verdict
  BY DEF Strictly, GatingItem
<1>2. ASSUME NEW level, NEW v \in Gated(tight, level)
      PROVE  \E i \in items : i.level = level /\ v = Strictly(TRUE, i).verdict
  <2>1. PICK j \in tight : j.level = level /\ v = j.verdict
    BY DEF Gated
  <2>2. PICK i \in items : j = Strictly(TRUE, i)
    BY <2>1
  <2> QED
    BY <1>1, <2>1, <2>2
<1>3. ASSUME NEW i \in items
      PROVE  Strictly(TRUE, i).verdict \in Gated(tight, i.level) /\ i.verdict \in Gated(items, i.level)
  <2>1. Strictly(TRUE, i) \in tight
    OBVIOUS
  <2> HIDE DEF tight
  <2> QED
    BY <1>1, <2>1 DEF Gated
<1> HIDE DEF tight
<1>4. ASSUME NEW level, NEW v \in Gated(items, level)
      PROVE  \E i \in items : i.level = level /\ v = i.verdict
  BY DEF Gated
<1>5. Gated(tight, "recommended") = Gated(items, "recommended")
  <2>1. ASSUME NEW v \in Gated(tight, "recommended") PROVE v \in Gated(items, "recommended")
    <3>1. PICK i \in items : i.level = "recommended" /\ v = Strictly(TRUE, i).verdict
      BY <1>2
    <3> QED
      BY <1>1, <1>3, <3>1
  <2>2. ASSUME NEW v \in Gated(items, "recommended") PROVE v \in Gated(tight, "recommended")
    <3>1. PICK i \in items : i.level = "recommended" /\ v = i.verdict
      BY <1>4
    <3> QED
      BY <1>1, <1>3, <3>1
  <2> QED
    BY <2>1, <2>2
<1>6. ASSUME NEW v \in Gated(items, "required"), v # "skipped"
      PROVE  v \in Gated(tight, "required")
  <2>1. PICK i \in items : i.level = "required" /\ v = i.verdict
    BY <1>4, <1>6
  <2> QED
    BY <1>1, <1>3, <1>6, <2>1
<1>7. ASSUME NEW v \in Gated(tight, "required"), v # "unsupported"
      PROVE  v \in Gated(items, "required")
  <2>1. PICK i \in items : i.level = "required" /\ v = Strictly(TRUE, i).verdict
    BY <1>2, <1>7
  <2> QED
    BY <1>1, <1>3, <1>7, <2>1
<1>8. "skipped" \in Gated(items, "required") => "unsupported" \in Gated(tight, "required")
  <2> SUFFICES ASSUME "skipped" \in Gated(items, "required")
               PROVE  "unsupported" \in Gated(tight, "required")
    OBVIOUS
  <2>1. PICK i \in items : i.level = "required" /\ i.verdict = "skipped"
    BY <1>4
  <2>2. Strictly(TRUE, i).verdict = "unsupported"
    BY <2>1 DEF Strictly, GatingItem
  <2> QED
    BY <1>3, <2>1, <2>2
<1>9. "failed" \in Gated(tight, "required") <=> "failed" \in Gated(items, "required")
  BY <1>6, <1>7
<1>10. Gated(tight, "required") \subseteq {"verified"}
        <=> Gated(items, "required") \subseteq {"verified"}
  <2>1. ASSUME Gated(tight, "required") \subseteq {"verified"}
        PROVE  Gated(items, "required") \subseteq {"verified"}
    BY <1>6, <1>8, <2>1
  <2>2. ASSUME Gated(items, "required") \subseteq {"verified"}
        PROVE  Gated(tight, "required") \subseteq {"verified"}
    <3> SUFFICES ASSUME NEW v \in Gated(tight, "required") PROVE v = "verified"
      OBVIOUS
    <3>1. PICK i \in items : i.level = "required" /\ v = Strictly(TRUE, i).verdict
      BY <1>2
    <3>2. i.verdict = "verified"
      BY <1>3, <2>2, <3>1
    <3> QED
      BY <1>1, <3>1, <3>2
  <2> QED
    BY <2>1, <2>2
<1>11. \A v \in {"failed", "not_verified", "unsupported"} :
        v \in Gated(items, "required") => v \in Gated(tight, "required")
  BY <1>6
<1>12. /\ AggregateDossierVerdict(tight) = "pass" <=> AggregateDossierVerdict(items) = "pass"
       /\ ExitSuccess(AggregateDossierVerdict(tight)) => ExitSuccess(AggregateDossierVerdict(items))
       /\ AggregateDossierVerdict(tight) = "fail" <=> AggregateDossierVerdict(items) = "fail"
  BY <1>5, <1>9, <1>10, <1>11, GateOf
<1> QED
  BY <1>12 DEF tight

=============================================================================
