------------------------------ MODULE Numerics ------------------------------
(***************************************************************************)
(* compare of scirust-verify-numerics: when a float is close enough to the *)
(* expected one.  A float is its bit pattern in a format with              *)
(* MantissaBits and ExponentBits, binary64 being 52 and 11, and the value  *)
(* of a finite one an integer, in units of the smallest subnormal.         *)
(***************************************************************************)
EXTENDS Integers, FiniteSets

CONSTANTS
  MantissaBits,
  ExponentBits,
  Nothing        \* None

ASSUME FormatIsBinary ==
  /\ MantissaBits \in Nat \ {0}
  /\ ExponentBits \in Nat \ {0, 1}

ASSUME NothingIsNoNumber == Nothing \notin Nat

SignBit == 2^(ExponentBits + MantissaBits)

Infinity == (2^ExponentBits - 1) * 2^MantissaBits

Floats == 0 .. 2 * SignBit - 1

(* The finite floats that are not negative have the patterns below that of *)
(* infinity, in the order of their values.                                 *)
Bounds == 0 .. Infinity - 1

IsNegative(x) == x >= SignBit
Pattern(x)    == x % SignBit
IsNaN(x)      == Pattern(x) > Infinity
IsInfinite(x) == Pattern(x) = Infinity
IsZero(x)     == Pattern(x) = 0
IsFinite(x)   == Pattern(x) < Infinity

Finite == {x \in Floats : IsFinite(x)}

Absolute(n) == IF n < 0 THEN -n ELSE n
Larger(m, n) == IF m < n THEN n ELSE m

Magnitude(p) ==
  LET exponent == p \div 2^MantissaBits
      fraction == p % 2^MantissaBits
  IN IF exponent = 0 THEN fraction ELSE (2^MantissaBits + fraction) * 2^(exponent - 1)

Value(x) == IF IsNegative(x) THEN -Magnitude(Pattern(x)) ELSE Magnitude(Pattern(x))

One == Magnitude((2^(ExponentBits - 1) - 1) * 2^MantissaBits)

(* The float nearest to m / n, the even one of two: what an operation of   *)
(* the machine returns.  Infinity stands where its successor would be.     *)
Nearest(m, n) ==
  LET Distance(p) == Absolute(Magnitude(p) * n - m)
  IN CHOOSE p \in 0 .. Infinity :
       \A q \in 0 .. Infinity :
         \/ Distance(p) < Distance(q)
         \/ Distance(p) = Distance(q) /\ (p % 2 = 0 \/ p = q)

(* (observed - expected).abs() of finite floats, and its ratio to the      *)
(* larger of the two.                                                      *)
AbsError(expected, observed) == Nearest(Absolute(Value(observed) - Value(expected)), 1)

RelError(expected, observed) ==
  LET error == AbsError(expected, observed)
      scale == Larger(Magnitude(Pattern(expected)), Magnitude(Pattern(observed)))
  IN IF scale > 0 /\ error # Infinity
       THEN Nearest(Magnitude(error) * One, scale)
       ELSE error

(* The bits as a signed integer are below zero exactly when the sign is    *)
(* set; they are turned around there.                                      *)
ToOrdered_Unmapped(x) == IF IsNegative(x) THEN x - 2 * SignBit ELSE x

ToOrdered(x) == IF IsNegative(x) THEN -SignBit - (x - 2 * SignBit) ELSE x

UlpDistance(x, y) == Absolute(ToOrdered(x) - ToOrdered(y))

Tolerance ==
  [absolute : Bounds \cup {Nothing}, relative : Bounds \cup {Nothing},
   max_ulps : Nat \cup {Nothing}, strict_signed_zero : BOOLEAN]

AcceptedByCriterion(expected, observed, tolerance) ==
  \/ tolerance.absolute # Nothing /\ AbsError(expected, observed) <= tolerance.absolute
  \/ tolerance.relative # Nothing /\ RelError(expected, observed) <= tolerance.relative
  \/ tolerance.max_ulps # Nothing /\ UlpDistance(expected, observed) <= tolerance.max_ulps

Compare(expected, observed, tolerance) ==
  CASE IsNaN(expected) \/ IsNaN(observed) -> IsNaN(expected) /\ IsNaN(observed)
    [] ~IsNaN(expected) /\ ~IsNaN(observed)
       /\ (IsInfinite(expected) \/ IsInfinite(observed)) -> expected = observed
    [] IsZero(expected) /\ IsZero(observed) ->
         tolerance.strict_signed_zero => IsNegative(expected) = IsNegative(observed)
    [] OTHER ->
         expected = observed \/ AcceptedByCriterion(expected, observed, tolerance)

----------------------------------------------------------------------------
(* The reference: the words of model/tolerance.rs about exact values.      *)

(* Units in the last place: the finite values on the way from one to the   *)
(* other.                                                                  *)
Steps(x, y) ==
  Cardinality({Value(z) : z \in {z \in Finite :
    \/ Value(x) < Value(z) /\ Value(z) <= Value(y)
    \/ Value(y) < Value(z) /\ Value(z) <= Value(x)}})

Within(expected, observed, tolerance) ==
  LET error == Absolute(Value(observed) - Value(expected))
      scale == Larger(Magnitude(Pattern(expected)), Magnitude(Pattern(observed)))
  IN \/ expected = observed
     \/ /\ error = 0
        /\ tolerance.strict_signed_zero => IsNegative(expected) = IsNegative(observed)
     \/ /\ error # 0
        /\ \/ tolerance.absolute # Nothing /\ error <= Magnitude(tolerance.absolute)
           \/ tolerance.relative # Nothing /\ error * One <= Magnitude(tolerance.relative) * scale
           \/ tolerance.max_ulps # Nothing /\ Steps(expected, observed) <= tolerance.max_ulps

(* The bounds k floats further.                                            *)
Shifted(tolerance, k) ==
  LET By(bound) == IF bound = Nothing \/ bound + k < 0 THEN Nothing ELSE bound + k
  IN [tolerance EXCEPT !.absolute = By(@), !.relative = By(@)]

=============================================================================
