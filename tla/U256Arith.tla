------------------------------ MODULE U256Arith ------------------------------
(***************************************************************************)
(* The ruint U256 operations the fee calculator uses, over naturals up to  *)
(* MaxU256.  The code's MaxU256 is 2^256 - 1; model-checking instances use *)
(* a small word so that saturation is reached by small inputs, and the     *)
(* theorems hold for every positive MaxU256.                               *)
(***************************************************************************)
EXTENDS Naturals

CONSTANT MaxU256

ASSUME MaxU256Assumption == MaxU256 \in Nat \ {0}

U256 == 0..MaxU256

\* Uint::saturating_mul and Uint::saturating_add: clamp at the maximum.
SaturatingMul(a, b) == IF a * b > MaxU256 THEN MaxU256 ELSE a * b

SaturatingAdd(a, b) == IF a + b > MaxU256 THEN MaxU256 ELSE a + b

\* The Add operator of Uint (used by +=) wraps modulo 2^256.
WrappingAdd(a, b) == (a + b) % (MaxU256 + 1)

\* Uint::wrapping_div is floor division for unsigned words.
WrappingDiv(a, b) == a \div b

\* An unbounded natural cut down to the word: what a saturating chain
\* computes when it is exact.
Clamp(x) == IF x > MaxU256 THEN MaxU256 ELSE x

=============================================================================
