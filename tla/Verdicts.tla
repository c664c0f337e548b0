------------------------------ MODULE Verdicts ------------------------------
(***************************************************************************)
(* The pure logic between what a command did and what a run is worth: how  *)
(* an exit is interpreted, how the outcomes of the checks of a claim are   *)
(* combined, and how the claims gate the dossier (verdict_engine, policy,  *)
(* model/verdict).  An outcome counts once or many times alike, so lists   *)
(* of verdicts are sets here.                                              *)
(***************************************************************************)
Verdict == {"verified", "failed", "not_verified", "skipped", "unsupported"}

RequirementLevel == {"required", "recommended", "optional", "informational"}

DossierVerdict == {"pass", "pass_with_gaps", "not_verified", "fail"}

GatingItem == [level : RequirementLevel, verdict : Verdict]

(* How a command ended, as the runner records it.                          *)
ExitStatus == {"zero", "nonzero", "signal", "timed_out", "spawn_failed"}

ExitExpectation == {"success", "ignore"}

InterpretExit(exit, expect) ==
  CASE exit \notin {"zero", "nonzero"} -> "not_verified"
    [] exit = "nonzero" /\ expect = "success" -> "failed"
    [] OTHER -> "verified"

CommandOutcome_ByExitOnly(exit, expect, contradicted) == InterpretExit(exit, expect)

(* A success is refuted by an observation of the program that contradicts  *)
(* it, and by nothing else: output that does not parse changes nothing.    *)
CommandOutcome(exit, expect, contradicted) ==
  IF contradicted /\ InterpretExit(exit, expect) = "verified"
    THEN "failed"
    ELSE InterpretExit(exit, expect)

CombineVerdicts(verdicts) ==
  CASE verdicts = {} -> "verified"
    [] "failed" \in verdicts -> "failed"
    [] "not_verified" \in verdicts /\ "failed" \notin verdicts -> "not_verified"
    [] "verified" \in verdicts /\ verdicts \cap {"failed", "not_verified"} = {} -> "verified"
    [] verdicts = {"unsupported"} -> "unsupported"
    [] OTHER -> "skipped"

(* evaluate_claims for one claim, given the outcomes of the executions of  *)
(* the checks linked to it.                                                *)
ClaimVerdict(outcomes) ==
  IF outcomes = {} THEN "not_verified" ELSE CombineVerdicts(outcomes)

AggregateDossierVerdict(items) ==
  LET required == {i.verdict : i \in {j \in items : j.level = "required"}}
      recommended == {i.verdict : i \in {j \in items : j.level = "recommended"}}
  IN CASE "failed" \in required -> "fail"
       [] "failed" \notin required
          /\ required \cap {"not_verified", "unsupported"} # {} -> "not_verified"
       [] required \subseteq {"verified"} /\ recommended \subseteq {"verified"} -> "pass"
       [] OTHER -> "pass_with_gaps"

(* --strict: a required claim that could not be checked is a hard gap.     *)
Strictly(strict, item) ==
  IF strict /\ item.level = "required" /\ item.verdict = "skipped"
    THEN [item EXCEPT !.verdict = "unsupported"]
    ELSE item

ExitSuccess(verdict) == verdict \in {"pass", "pass_with_gaps"}

=============================================================================
