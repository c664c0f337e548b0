------------------------------ MODULE Planning ------------------------------
(***************************************************************************)
(* From a manifest to the checks of a run and the claims they support: the *)
(* settings of pipeline::resolve_settings, the plan of every provider the  *)
(* command line registers, and the claims that prepare derives from them.  *)
(*                                                                         *)
(* A manifest that says nothing of [cargo] has DefaultCargo; one that has  *)
(* the section but not its key "enabled" is parsed with enabled = FALSE.   *)
(***************************************************************************)
EXTENDS Verdicts

CONSTANTS
  CustomChecks,  \* the [[custom_checks]] some manifest declares
  NumericChecks, \* the [[numeric_checks]] some manifest declares
  OtherSlugs     \* keys of [claims] that no default names

Unset == "unset"

Profile == {"basic", "scientific", "reproducibility", "strict"}

(* The claim of a command check is "kind@id"; its level may be left out.   *)
Declared == [id : STRING, claim : STRING, level : RequirementLevel \cup {Unset}]

ASSUME DeclaredAreChecks ==
  /\ CustomChecks \subseteq Declared
  /\ NumericChecks \subseteq Declared
  /\ OtherSlugs \subseteq STRING

DefaultClaimLevels ==
  [builds |-> "required", tests_pass |-> "required",
   lint_clean |-> "recommended", fmt_clean |-> "recommended",
   docs_build |-> "optional", dependency_policy_passes |-> "optional",
   deterministic |-> "optional", cross_process_deterministic |-> "optional",
   thread_invariant |-> "optional", numerically_close |-> "optional",
   source_clean |-> "informational", reproducible |-> "optional"]

Slugs == DOMAIN DefaultClaimLevels \cup OtherSlugs

IsLevels(levels) ==
  /\ DOMAIN levels \subseteq Slugs
  /\ \A slug \in DOMAIN levels : levels[slug] \in RequirementLevel

CargoStep ==
  [fmt |-> [id |-> "cargo:fmt", claim |-> "fmt_clean"],
   clippy |-> [id |-> "cargo:clippy", claim |-> "lint_clean"],
   check |-> [id |-> "cargo:check", claim |-> "builds"],
   build |-> [id |-> "cargo:build", claim |-> "builds"],
   test |-> [id |-> "cargo:test", claim |-> "tests_pass"],
   doc |-> [id |-> "cargo:doc", claim |-> "docs_build"]]

DenyMode == {"off", "optional", "required"}

DefaultCargo ==
  [enabled |-> TRUE, steps |-> {"fmt", "clippy", "build", "test"}, deny |-> "optional"]

Cargo == [enabled : BOOLEAN, steps : SUBSET DOMAIN CargoStep, deny : DenyMode]

IsManifest(m) ==
  /\ DOMAIN m = {"profile", "cargo", "determinism", "custom", "numeric", "claims"}
  /\ m.profile \in Profile \cup {Unset}
  /\ m.cargo \in Cargo
  /\ m.determinism \in BOOLEAN
  /\ m.custom \subseteq CustomChecks /\ m.numeric \subseteq NumericChecks
  /\ IsLevels(m.claims)

(* What is planned and executed when there is no manifest.                 *)
NoManifest ==
  [profile |-> Unset, cargo |-> DefaultCargo, determinism |-> FALSE,
   custom |-> {}, numeric |-> {}, claims |-> <<>>]

-----------------------------------------------------------------------------
(* resolve_settings: defaults < profile < manifest, and the profile of the *)
(* command line before that of the manifest.                               *)

LevelOverrides(profile) ==
  CASE profile = "basic" -> <<>>
    [] profile = "scientific" ->
         [deterministic |-> "recommended", numerically_close |-> "recommended"]
    [] profile = "reproducibility" ->
         [deterministic |-> "recommended", cross_process_deterministic |-> "required",
          source_clean |-> "required"]
    [] profile = "strict" ->
         [builds |-> "required", tests_pass |-> "required", lint_clean |-> "required",
          fmt_clean |-> "required", source_clean |-> "required"]

Override(f, g) ==
  [x \in DOMAIN f \cup DOMAIN g |-> IF x \in DOMAIN g THEN g[x] ELSE f[x]]

EffectiveProfile(manifest, cli_profile) ==
  CASE cli_profile # Unset -> cli_profile
    [] cli_profile = Unset /\ manifest.profile # Unset -> manifest.profile
    [] OTHER -> "basic"

ResolveLevels(manifest, cli_profile) ==
  Override(Override(DefaultClaimLevels,
                    LevelOverrides(EffectiveProfile(manifest, cli_profile))),
           manifest.claims)

-----------------------------------------------------------------------------
(* The plans of the providers.                                             *)

Check(provider, id, claim, level) ==
  [id |-> id, provider |-> provider, claims |-> {claim}, requirement |-> level]

LevelOr(levels, slug, default) ==
  IF slug \in DOMAIN levels THEN levels[slug] ELSE default

(* cargo metadata runs if [claims] names its slug, and is only observed;   *)
(* cargo deny runs whether or not the provider is enabled.                 *)
CargoPlan(cargo, levels) ==
  {Check("cargo", CargoStep[s].id, CargoStep[s].claim, levels[CargoStep[s].claim]) :
     s \in {t \in cargo.steps : cargo.enabled /\ CargoStep[t].claim \in DOMAIN levels}}
  \cup (IF cargo.enabled /\ "dependency_snapshot" \in DOMAIN levels
          THEN {Check("cargo", "cargo:metadata", "dependency_snapshot", "informational")}
          ELSE {})
  \cup (IF cargo.deny # "off" /\ "dependency_policy_passes" \in DOMAIN levels
          THEN {Check("cargo", "cargo:deny", "dependency_policy_passes",
                      IF cargo.deny = "required" THEN "required" ELSE "optional")}
          ELSE {})

DeterminismPlan(enabled, levels) ==
  IF enabled
    THEN {Check("determinism", "determinism:cross-process", "cross_process_deterministic",
                LevelOr(levels, "cross_process_deterministic", "optional"))}
    ELSE {}

DeclaredPlan(provider, checks, default) ==
  {Check(provider, c.id, c.claim, IF c.level = Unset THEN default ELSE c.level) : c \in checks}

SourceCleanPlan(levels) ==
  IF "source_clean" \in DOMAIN levels
    THEN {Check("core", "core:source-clean", "source_clean", levels["source_clean"])}
    ELSE {}

(* prepare's plan: the providers were built from one reading of the        *)
(* manifest (build_registry), the levels from another.                     *)
Plan(registry, levels, is_cargo) ==
  (IF is_cargo THEN CargoPlan(registry.cargo, levels) ELSE {})
  \cup DeterminismPlan(registry.determinism, levels)
  \cup DeclaredPlan("custom", registry.custom, "required")
  \cup DeclaredPlan("numeric", registry.numeric,
                    LevelOr(levels, "numerically_close", "optional"))
  \cup SourceCleanPlan(levels)

Claims(checks) == UNION {c.claims : c \in checks}

Supporting(checks, claim) == {c \in checks : claim \in c.claims}

(* A claim [claims] has no level for takes the level of its first check.   *)
ClaimLevel(checks, levels, claim) ==
  LevelOr(levels, claim, (CHOOSE c \in Supporting(checks, claim) : TRUE).requirement)

ClaimLevels(checks, levels) ==
  [claim \in Claims(checks) |-> ClaimLevel(checks, levels, claim)]

=============================================================================
