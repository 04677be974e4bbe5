------------------------------ MODULE LegacyDec ------------------------------
(***************************************************************************)
(* The fixed-point decimals of cosmossdk.io/math (external), as the        *)
(* liquidity modules use them: a decimal d is the integer d * Prec.  The   *)
(* library has Prec = 10^18; the models choose a smaller precision and     *)
(* keep every rounding rule.                                               *)
(***************************************************************************)
EXTENDS Integers

CONSTANT Prec  \* decimal units per whole unit

ASSUME PrecAssumption == Prec \in Nat \ {0}

(* The decimal of an integer: ToLegacyDec, LegacyNewDec. *)
Dec(n) == n * Prec

One == Prec

(* Quotient and remainder that truncate towards zero, as math/big does. *)
TruncDiv(a, b) == IF (a >= 0) = (b > 0) \/ a = 0
                  THEN (IF a >= 0 THEN a ELSE -a) \div (IF b > 0 THEN b ELSE -b)
                  ELSE -((IF a >= 0 THEN a ELSE -a) \div (IF b > 0 THEN b ELSE -b))

(* chopPrecisionAndRound of a non-negative number: half goes to even. *)
ChopPositive(n) ==
  LET quo == n \div Prec
      rem == n % Prec
  IN CASE 2 * rem < Prec -> quo
       [] 2 * rem > Prec -> quo + 1
       [] OTHER -> quo + (quo % 2)

ChopRound(n) == IF n >= 0 THEN ChopPositive(n) ELSE -ChopPositive(-n)

(* Division that rounds up; only used with a positive divisor. *)
CeilDiv(a, b) == -((-a) \div b)

Mul(a, b)         == ChopRound(a * b)
MulTruncate(a, b) == TruncDiv(a * b, Prec)
MulRoundUp(a, b)  == CeilDiv(a * b, Prec)
Quo(a, b)         == ChopRound(TruncDiv(a * Prec * Prec, b))
QuoTruncate(a, b) == TruncDiv(a * Prec, b)
QuoRoundUp(a, b)  == CeilDiv(a * Prec, b)

(* Ceil keeps a decimal, TruncateInt returns an integer. *)
Ceil(a)        == CeilDiv(a, Prec) * Prec
TruncateInt(a) == TruncDiv(a, Prec)
==============================================================================
