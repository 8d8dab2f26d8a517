--------------------------- MODULE ArithmeticModel --------------------------
(***************************************************************************)
(* The executable semantics of native multiply and divide,                 *)
(* model/m64k/multiply_divide.py, as operators.  The register width XLEN   *)
(* (64 in the code) is a parameter.                                        *)
(***************************************************************************)
EXTENDS Bits

CONSTANTS
    XLEN,  \* bits of a register
    None   \* a result, flag set or fault that is absent

\* Negative and zero of the low w bits; carry is always clear.
ResultFlags(v, w, overflow) ==
    [negative |-> SignSet(v, w), zero |-> Truncate(v, w) = 0,
     overflow |-> overflow, carry |-> FALSE]

NoDivision(fault) ==
    [quotient |-> None, remainder |-> None, flags |-> None, fault |-> fault]

\* The quotient truncates toward zero; the remainder has the dividend's sign.
Divide(low, high, divisor, w, signed, double, form, update_flags) ==
    LET bits == IF double THEN Truncate(high, w) * 2^w + Truncate(low, w)
                          ELSE Truncate(low, w)
        n == AsOperand(bits, IF double THEN 2 * w ELSE w, signed)
        d == AsOperand(divisor, w, signed)
        q_magnitude == Magnitude(n) \div Magnitude(d)
        q == IF (n < 0) # (d < 0) THEN -q_magnitude ELSE q_magnitude
        r == n - q * d
        wants_q == form # "REMAINDER"
        wants_r == form # "QUOTIENT"
        flag_value == IF wants_q THEN q % 2^w ELSE r % 2^w
    IN  IF d = 0 THEN NoDivision("ZERO")
        ELSE IF wants_q /\ q \notin Representable(w, signed)
        THEN NoDivision("QUOTIENT_OVERFLOW")
        ELSE [quotient  |-> IF wants_q THEN q % 2^w ELSE None,
              remainder |-> IF wants_r THEN r % 2^w ELSE None,
              flags     |-> IF update_flags
                            THEN ResultFlags(flag_value, w, FALSE) ELSE None,
              fault     |-> None]

\* A widening result is the 2w-bit product, split at XLEN bits when 2w exceeds
\* a register; a narrow one is its low half, overflowing when the product does
\* not fit.
Multiply(left, right, w, signed, form, update_flags) ==
    LET product == AsOperand(left, w, signed) * AsOperand(right, w, signed)
        full == product % 2^(2 * w)
        widening == form = "WIDENING"
        low == IF widening THEN Truncate(full, XLEN) ELSE Truncate(full, w)
        flags == IF widening THEN ResultFlags(full, 2 * w, FALSE)
                 ELSE ResultFlags(low, w, product \notin Representable(w, signed))
    IN  [low   |-> low,
         high  |-> IF widening /\ 2 * w > XLEN
                   THEN (full \div 2^XLEN) % 2^XLEN ELSE None,
         flags |-> IF update_flags THEN flags ELSE None]
=============================================================================
