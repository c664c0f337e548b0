----------------------------- MODULE SealedRun -----------------------------
(***************************************************************************)
(* What the evidence store promises of one run, without files, processes   *)
(* or failures: a run is open until it is sealed with one validated        *)
(* content; the seal may be withdrawn or replaced only until it is         *)
(* acknowledged; afterwards it never changes; and whoever verifies the run *)
(* is given the content it is sealed with at that moment, or an error.     *)
(***************************************************************************)
CONSTANTS
  Consistent(_),  \* the contents that may be sealed
  None

VARIABLES
  seal,         \* the sealed content, or None
  acknowledged, \* the seal is there to stay
  accepted      \* what the last verification returned, None for an error

vars == <<seal, acknowledged, accepted>>

Init == seal = None /\ acknowledged = FALSE /\ accepted = None

Seal ==
  /\ seal = None \/ ~acknowledged
  /\ seal' # None /\ Consistent(seal')
  /\ UNCHANGED <<acknowledged, accepted>>

Withdraw ==
  /\ seal # None /\ ~acknowledged
  /\ seal' = None
  /\ UNCHANGED <<acknowledged, accepted>>

Acknowledge ==
  /\ seal # None /\ ~acknowledged
  /\ acknowledged' = TRUE
  /\ UNCHANGED <<seal, accepted>>

Accept ==
  /\ seal # None
  /\ accepted' = seal
  /\ UNCHANGED <<seal, acknowledged>>

Refuse ==
  /\ accepted' = None
  /\ UNCHANGED <<seal, acknowledged>>

Next == Seal \/ Withdraw \/ Acknowledge \/ Accept \/ Refuse

Spec == Init /\ [][Next]_vars

=============================================================================
