----------------------------- MODULE NnisParity -----------------------------
(***************************************************************************)
(* The NNIS bridge: which pair of a parity evidence and a validation       *)
(* result it accepts (adapters/nnis_parity.rs), and the documents its      *)
(* program writes about them (nnis_parity_main.rs).                        *)
(***************************************************************************)
EXTENDS ToolEvidence

Kind == {"record", "suite"}
ParityLevel == {"generation_trajectory", "logit_and_generation"}
NonClaim == {"promotion_authorized", "serving_performance_verified",
             "general_model_family_support_verified"}
ValidationAttachment == "evidence/files/nnis-parity-validation.json"

(* The inputs, in the order in which the program looks at them: stat and   *)
(* read of the evidence, stat and read of the validation, and one more     *)
(* read of the validation for the copy that is sealed.                     *)
Looks == <<1, 1, 2, 2, 2>>

(* read_regular_bounded: stat, read, and the two sizes compared.           *)
ReadsWhole(before, read) ==
  /\ LooksRegular(before) /\ Doc(before).size > 0
  /\ ReadsBounded(read) /\ Doc(read).size > 0
  /\ Doc(read).size = Doc(before).size

Binds_AnyCommit(evidence, validation) ==
  /\ Doc(evidence).kind \in Kind
  /\ validation.envelope
  /\ validation.kind = Doc(evidence).kind
  /\ validation.source = Digest(evidence)
  /\ IsListWithin(validation.specs, 1) /\ Len(validation.specs) = validation.count
  /\ validation.asserted = {}

(* ingest_values.  envelope stands for the fields that must have one       *)
(* fixed value: keys, versions, contract, media types, status and scope.   *)
Binds(evidence, validation) ==
  /\ Doc(evidence).kind \in Kind
  /\ validation.envelope
  /\ validation.kind = Doc(evidence).kind
  /\ validation.source = Digest(evidence)
  /\ validation.commit = Doc(evidence).commit
  /\ validation.count \in 1..ItemLimit
  /\ IsListWithin(validation.specs, 1) /\ Len(validation.specs) = validation.count
  /\ Doc(evidence).kind = "record" => validation.count = 1
  /\ Doc(evidence).kind = "suite" => validation.count >= 2
  /\ IsListWithin(validation.levels, 1)
  /\ \A i \in DOMAIN validation.levels : validation.levels[i] \in ParityLevel
  /\ IsListWithin(validation.runtimes, 1) /\ IsListWithin(validation.backends, 1)
  /\ validation.asserted = {}
  /\ validation.boundary

(* ingest_nnis_parity; both files must also decode.                        *)
Ingests(seen) ==
  /\ ReadsWhole(seen[1], seen[2])
  /\ ReadsWhole(seen[3], seen[4])
  /\ Doc(seen[2]).json /\ Doc(seen[4]).json
  /\ Binds(seen[2], Doc(seen[4]))

(* run, up to the work root: the second read must give the bytes that      *)
(* were validated.                                                         *)
Accepts(seen) == Ingests(seen) /\ Digest(seen[5]) = Digest(seen[4])

(* The copy sealed as an attachment is the second read, under the digest   *)
(* of the first.                                                           *)
Evidence(seen) ==
  [attachments |-> {[path |-> ValidationAttachment, payload |-> seen[4].bytes]},
   derived_from |-> {},
   inputs |-> <<Digest(seen[2]), Digest(seen[4])>>,
   facts |-> [kind |-> Doc(seen[2]).kind, checkpoints |-> Doc(seen[4]).count]]

Check == "nnis:parity-evidence-binding-v1"
Claim == "nnis_parity_evidence_binding_contract"

Documents(seen) ==
  OneClaimDocuments(Check, Claim, Digest(seen[2]), Evidence(seen),
                    [p \in {ValidationAttachment} |-> seen[5].bytes])

=============================================================================
