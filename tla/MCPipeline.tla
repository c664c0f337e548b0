----------------------------- MODULE MCPipeline -----------------------------
(* Values for TLC of the constants of Pipeline.                            *)
EXTENDS Pipeline

Simulation == [id |-> "custom:sim", claim |-> "sim@sim", level |-> Unset]
Gamma == [id |-> "numeric:gamma", claim |-> "oracle_equivalent@gamma", level |-> "required"]

OneCustom == {Simulation}
OneNumeric == {Gamma}
NoChecks == {}
NoSlugs == {}
Snapshot == {"dependency_snapshot"}

NoCargo == [enabled |-> FALSE, steps |-> {}, deny |-> "off"]

(* A library with its own checks, and one that must be reproducible.       *)
Library == [NoManifest EXCEPT !.cargo = NoCargo, !.custom = CustomChecks,
                              !.numeric = NumericChecks]
Reproducible == [Library EXCEPT !.profile = "reproducibility", !.determinism = TRUE,
                                !.custom = {Simulation}, !.numeric = {}]

(* Two checks of one claim; a snapshot that is only observed and a tool    *)
(* that may be missing.                                                     *)
BuiltTwice == [NoManifest EXCEPT !.cargo.steps = {"check", "build"}, !.cargo.deny = "off"]
Audited == [NoManifest EXCEPT
  !.cargo.steps = {}, !.cargo.deny = "required",
  !.claims = [dependency_snapshot |-> "optional", dependency_policy_passes |-> "required"]]
Projects == {Library, Reproducible, BuiltTwice, Audited}

(* The library with a clean tree required.                                 *)
CleanLibrary == [Library EXCEPT !.claims = [source_clean |-> "required"]]
TwoLibraries == {Library, CleanLibrary}

(* One check and a clean tree.                                             *)
SmallLibrary == [CleanLibrary EXCEPT !.numeric = {}]
AnyProject == Projects \cup {SmallLibrary}

NoProfile == {Unset}
AnyProfile == {Unset, "reproducibility", "strict"}

TwoTrees == {1, 2}
OneTree == {1}
SecondTree == {2}
NoTree == {}

Ids == <<"cargo:build", "cargo:check", "cargo:clippy", "cargo:deny", "cargo:doc",
         "cargo:fmt", "cargo:metadata", "cargo:test", "core:source-clean", "custom:fit",
         "custom:sim", "determinism:cross-process", "numeric:gamma">>
IdOrder == {<<Ids[p[1]], Ids[p[2]]>> :
              p \in {q \in (1..Len(Ids)) \X (1..Len(Ids)) : q[1] < q[2]}}

(* The bound on commands: every project has one, with every disturbance;   *)
(* a second command on the project finds a run of the small library and    *)
(* works on that or on an unreadable manifest.                             *)
IsSecond == pc # "idle" /\ runs[1] # Absent /\ run # 1
SecondIsSmall ==
  IsSecond => /\ tree = 1 /\ cli.profile = Unset
              /\ disk \in {SmallLibrary, Broken}
              /\ {check.id : check \in runs[1].plan} \subseteq {"custom:sim", "core:source-clean"}

=============================================================================
