----------------------------- MODULE SciCapsule -----------------------------
(***************************************************************************)
(* The SciCapsule bridge: which execution result it accepts                *)
(* (adapters/scicapsule.rs), and the documents its program writes about it *)
(* (scicapsule_main.rs).                                                   *)
(***************************************************************************)
EXTENDS ToolEvidence

Looks == <<1, 1>>

(* The signatures a trust policy asked for are all there: enough distinct  *)
(* signers and enough distinct signature envelopes.                        *)
ThresholdIsMet(result) ==
  /\ result.required_signatures > 0
  /\ result.required_signatures <= Len(result.matched_signers)
  /\ result.required_signatures <= Len(result.signatures)

(* ingest_value.  envelope stands for the fields with one fixed value and  *)
(* for the digests and texts that only have to be well formed.             *)
Conforms(result) ==
  /\ result.envelope
  /\ result.status = "succeeded"
  /\ result.trust_is_scientific_verdict = FALSE
  /\ IsListWithin(result.signatures, 1)
  /\ IsListWithin(result.matched_signers, 1)
  /\ ThresholdIsMet(result)
  /\ result.execution_mode = "bounded_process_unix" /\ result.sandbox = "none"
  /\ result.source_version = 1

(* ingest_scicapsule_execution                                             *)
Accepts(seen) ==
  /\ LooksRegular(seen[1]) /\ ReadsBounded(seen[2])
  /\ Doc(seen[2]).json
  /\ Conforms(Doc(seen[2]))

Evidence(seen) ==
  [attachments |-> {}, derived_from |-> {},
   inputs |-> <<Digest(seen[2])>>,
   facts |-> [matched_signers |-> Doc(seen[2]).matched_signers,
              required_signatures |-> Doc(seen[2]).required_signatures]]

Check == "scicapsule:execution-evidence-v2"
Claim == "scicapsule_execution_evidence_contract"

Documents(seen) ==
  OneClaimDocuments(Check, Claim, Digest(seen[2]), Evidence(seen), NoPayload)

=============================================================================
