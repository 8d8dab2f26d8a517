-------------------------------- MODULE Bits --------------------------------
(***************************************************************************)
(* Fixed-width bit vectors as naturals.  A w-bit vector is a member of     *)
(* 0 .. 2^w - 1; truncation is a remainder, a shift is a product or a      *)
(* quotient, and two's complement is arithmetic modulo 2^w.                *)
(***************************************************************************)
EXTENDS Integers

\* All w-bit vectors.
Word(w) == 0 .. 2^w - 1

\* v & ((1 << w) - 1).
Truncate(v, w) == v % 2^w

\* v[i].
Bit(v, i) == (v \div 2^i) % 2

\* The sign bit of the w-bit vector in the low bits of v.
SignSet(v, w) == Bit(v, w - 1) = 1

\* Two's complement of the w-bit vector in the low bits of v.
Negated(v, w) == (2^w - Truncate(v, w)) % 2^w

\* The integer the low w bits of v stand for in two's complement.
AsSigned(v, w) ==
    IF SignSet(v, w) THEN Truncate(v, w) - 2^w ELSE Truncate(v, w)

\* The integer an operand stands for.
AsOperand(v, w, signed) == IF signed THEN AsSigned(v, w) ELSE Truncate(v, w)

\* The integers a w-bit result can represent.
Representable(w, signed) ==
    IF signed THEN -(2^(w - 1)) .. 2^(w - 1) - 1 ELSE 0 .. 2^w - 1

\* The w-bit ring v rotated left by k <= w.
RotatedLeft(v, k, w) == Truncate(v, w - k) * 2^k + v \div 2^(w - k)

\* The w-bit vector v with its bits in the opposite order.
Reversed(v, w) ==
    LET reversed[i \in 0 .. w] ==
            IF i = 0 THEN 0 ELSE 2 * reversed[i - 1] + Bit(v, i - 1)
    IN  reversed[w]

\* x | y, of w-bit vectors.
BitwiseOr(x, y, w) ==
    LET either[i \in 0 .. w] ==
            IF i = 0 THEN 0
            ELSE IF Bit(x, i - 1) = 1 \/ Bit(y, i - 1) = 1 THEN either[i - 1] + 2^(i - 1)
            ELSE either[i - 1]
    IN  either[w]

Magnitude(n) == IF n < 0 THEN -n ELSE n
=============================================================================
