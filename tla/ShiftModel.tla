----------------------------- MODULE ShiftModel -----------------------------
(***************************************************************************)
(* The executable semantics of the scalar shifts and rotates, shift_rotate *)
(* of model/m64k/scalar.py.  The count is the low bits of its register: as *)
(* many as index a register of XLEN bits (six of 64 in the code).          *)
(***************************************************************************)
EXTENDS Bits

CONSTANTS XLEN, None

RotateExtends(op) == op \in {"ROXL", "ROXR"}

\* The ring of operand and extend bit after a rotate through extend.
RotatedRing(op, v, n, w, x) ==
    LET ring == Truncate(v, w) * 2 + x
        k == n % (w + 1)
    IN  RotatedLeft(ring, IF op = "ROXL" THEN k ELSE (w + 1 - k) % (w + 1), w + 1)

ShiftedValue(op, v, n, w, x) ==
    CASE op \in {"LSL", "ASL"} -> (Truncate(v, w) * 2^n) % 2^w
      [] op = "LSR" -> Truncate(v, w) \div 2^n
      [] op = "ASR" -> (AsSigned(v, w) \div 2^n) % 2^w
      [] op = "ROL" -> RotatedLeft(Truncate(v, w), n % w, w)
      [] op = "ROR" -> RotatedLeft(Truncate(v, w), (w - (n % w)) % w, w)
      [] RotateExtends(op) -> RotatedRing(op, v, n, w, x) \div 2

\* The last bit shifted out; a rotate's carry is the bit that crossed the end.
ShiftedCarry(op, v, n, w, x) ==
    CASE op \in {"LSL", "ASL"} -> n \in 1 .. w /\ Bit(v, w - n) = 1
      [] op = "LSR" -> n \in 1 .. w /\ Bit(v, n - 1) = 1
      [] op = "ASR" -> n > 0 /\ Bit(v, IF n < w THEN n - 1 ELSE w - 1) = 1
      [] op = "ROL" -> n > 0 /\ Bit(ShiftedValue(op, v, n, w, x), 0) = 1
      [] op = "ROR" -> n > 0 /\ SignSet(ShiftedValue(op, v, n, w, x), w)
      [] RotateExtends(op) -> Bit(RotatedRing(op, v, n, w, x), 0) = 1

ShiftRotate(op, v, count, w, x, update_flags) ==
    LET n == count % XLEN
        value == ShiftedValue(op, v, n, w, x)
        carry == ShiftedCarry(op, v, n, w, x)
        flags == [negative |-> SignSet(value, w), zero |-> value = 0,
                  overflow |-> op = "ASL"
                                /\ AsSigned(v, w) * 2^n \notin Representable(w, TRUE),
                  carry |-> carry]
    IN  [value |-> value,
         flags |-> IF update_flags THEN flags ELSE None,
         extend |-> IF RotateExtends(op) THEN carry ELSE None]
=============================================================================
