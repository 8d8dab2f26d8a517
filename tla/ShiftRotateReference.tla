------------------------- MODULE ShiftRotateReference -----------------------
(***************************************************************************)
(* rtl/core/execute/shift/m64k_shift_rotate.sv: the combinational circuit  *)
(* that computes every shift and rotate at once, with a barrel per family; *)
(* the reference the other circuits are compared with.                     *)
(***************************************************************************)
EXTENDS Bits

CONSTANTS
    XLEN,    \* bits of a register; 64 in the code
    Stages   \* stages of a barrel and bits of a count; 6 in the code

Right(op) == op \in {"ASR", "LSR", "ROR", "ROXR"}
PlainRotate(op) == op \in {"ROL", "ROR"}
ExtendRotate(op) == op \in {"ROXL", "ROXR"}

\* A barrel: stage s moves the value by 2^s bits if bit s of the count is set.
\* A stage the code leaves out of a ring's barrel is one no count of it sets.
Barrel(Move(_, _), v, n) ==
    LET before[s \in 0 .. Stages] ==
            IF s > 0 /\ Bit(n, s - 1) = 1 THEN Move(before[s - 1], 2^(s - 1))
            ELSE IF s > 0 THEN before[s - 1] ELSE v
    IN  before[Stages]

\* Lines 70-90: every stage drops what leaves the operand.
BarrelShiftLeft(v, n, w) ==
    LET Move(x, k) == Truncate(x * 2^k, w) IN Barrel(Move, v, n)

\* Lines 92-112.
BarrelShiftRight(v, fill, n) ==
    LET Move(x, k) == x \div 2^k + fill * (2^k - 1) * 2^(XLEN - k) IN Barrel(Move, v, n)

\* Lines 114-199: a register and the four rings have each a barrel.
BarrelRotateLeft(v, n, w) ==
    LET Move(x, k) == RotatedLeft(x, k, w) IN Barrel(Move, v, n)

\* A rotation to the right is one of the reversed value to the left.
BarrelRotate(op, v, n, w) ==
    IF Right(op) THEN Reversed(BarrelRotateLeft(Reversed(v, w), n, w), w)
                 ELSE BarrelRotateLeft(v, n, w)

\* reduce_modulo9, reduce_modulo17 and reduce_modulo33, lines 201-238.
ReduceModulo(n, ring) ==
    LET Less(c, m) == IF c >= m THEN c - m ELSE c
    IN  Less(Less(Less(n, 4 * ring), 2 * ring), ring)

\* Defect: the comparison leaves out the bit that becomes the sign.
AslOverflowShort(v, w, n) ==
    /\ n # 0
    /\ IF n >= w THEN Truncate(v, w) # 0
                 ELSE \E i \in w - n .. w - 1 : Bit(v, i) # Bit(v, w - 1)

\* asl_overflow, lines 240-296: some bit that leaves the operand or becomes its
\* sign differs from its sign.
AslOverflow(v, w, n) ==
    /\ n # 0
    /\ IF n >= w THEN Truncate(v, w) # 0
                 ELSE \E i \in w - 1 - n .. w - 1 : Bit(v, i) # Bit(v, w - 1)

\* The shifts, lines 367-376.
Shifted(op, v, n, w) ==
    LET negative == op = "ASR" /\ SignSet(v, w)
        input == IF negative THEN Truncate(v, w) + 2^XLEN - 2^w ELSE Truncate(v, w)
    IN  IF Right(op)
        THEN Truncate(BarrelShiftRight(input, IF negative THEN 1 ELSE 0, n), w)
        ELSE BarrelShiftLeft(input, n, w)

\* The rotates of the register filled with copies of the operand, lines 336-383.
Rotated(op, v, n, w) ==
    LET replicated == Truncate(v, w) * ((2^XLEN - 1) \div (2^w - 1))
    IN  Truncate(BarrelRotate(op, replicated, n % w, XLEN), w)

\* The ring of the operand over the extend bit, rotated, lines 385-400.
RotatedRing(op, v, n, w, extend_in) ==
    BarrelRotate(op, Truncate(v, w) * 2 + extend_in, ReduceModulo(n, w + 1), w + 1)

\* Lines 430-459.
ReferenceCarry(op, v, n, w, result) ==
    /\ n # 0
    /\ CASE op \in {"ASL", "LSL"} -> n <= w /\ Bit(v, w - n) = 1
         [] op = "ASR" -> Bit(v, IF n >= w THEN w - 1 ELSE n - 1) = 1
         [] op = "LSR" -> n <= w /\ Bit(v, n - 1) = 1
         [] op = "ROL" -> Bit(result, 0) = 1
         [] op = "ROR" -> SignSet(result, w)

\* The outputs, lines 402-471.
ShiftRotate(op, v, n, w, extend_in, update_flags) ==
    LET ring == RotatedRing(op, v, n, w, extend_in)
        result == IF ExtendRotate(op) THEN ring \div 2
                  ELSE IF PlainRotate(op) THEN Rotated(op, v, n, w)
                  ELSE Shifted(op, v, n, w)
        extend == IF ExtendRotate(op) THEN Bit(ring, 0) = 1 ELSE extend_in = 1
    IN  [result |-> result, negative |-> SignSet(result, w), zero |-> result = 0,
         overflow |-> op = "ASL" /\ AslOverflow(v, w, n),
         carry |-> IF ExtendRotate(op) THEN extend ELSE ReferenceCarry(op, v, n, w, result),
         flags_valid |-> update_flags, extend_out |-> extend,
         extend_valid |-> ExtendRotate(op)]
=============================================================================
