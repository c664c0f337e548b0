--------------------------- MODULE MCAttestation ---------------------------
(* Values for TLC of the constants of Attestation: two principals with a   *)
(* key each sign one run to one output name, and one command authenticates *)
(* what stands there against a policy outside or under .scirust-verify.    *)
EXTENDS Attestation, TLC

CONSTANTS a1, a2, u1, r1, r2, p1, p2, k1, k2, outside, embedded

RunOf == [c \in {a1, a2, u1} |-> r1]
PrincipalOf == a1 :> p1 @@ a2 :> p2
KeyOf == a1 :> k1 @@ a2 :> k2
SealedOf == [r \in {r1, r2} |-> 1]
FirstPolicy ==
  outside :> [i \in 1..2 |-> IF i = 1 THEN <<p1, k1>> ELSE <<p2, k1>>]
  @@ embedded :> [i \in 1..2 |-> IF i = 1 THEN <<p1, k1>> ELSE <<p2, k2>>]
=============================================================================
