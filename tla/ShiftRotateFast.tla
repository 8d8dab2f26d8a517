--------------------------- MODULE ShiftRotateFast --------------------------
(***************************************************************************)
(* rtl/core/execute/shift/m64k_shift_rotate_fast.sv: the logarithmic       *)
(* network that computes every shift and rotate but those through extend.  *)
(* XLEN is 64 and Stages 6 in the code.                                    *)
(***************************************************************************)
EXTENDS Bits

CONSTANTS
    XLEN,    \* bits of a register
    Stages   \* stages of the network, which is also the bits of a count

Shift == {"ASL", "ASR", "LSL", "LSR"}
Rotate == {"ROL", "ROR"}

Supported(op) == op \in Shift \cup Rotate

ShiftsRight(op) == op \in {"ASR", "LSR", "ROR"}

\* reverse64, lines 34-42, for right shifts and rotates.
Facing(op, v) == IF ShiftsRight(op) THEN Reversed(v, XLEN) ELSE v

\* The operand, its sign extension or its copies, lines 189-200.
NetworkInput(op, source, w) ==
    LET operand == Truncate(source, w)
    IN  Facing(op, CASE op \in Rotate -> operand * ((2^XLEN - 1) \div (2^w - 1))
                     [] op = "ASR" -> AsSigned(source, w) % 2^XLEN
                     [] OTHER -> operand)

\* A rotate's count is reduced modulo the operand width, lines 158-187.
NetworkCount(op, count, w) == IF op \in Rotate THEN count % w ELSE count

\* Lines 202-224: the network's value before stage s, which moves it 2^s bits.
Network(op, source, count, w) ==
    LET n == NetworkCount(op, count, w)
        fill == IF op = "ASR" /\ SignSet(source, w) THEN 1 ELSE 0
        Moved(v, k) == IF op \in Rotate THEN RotatedLeft(v, k, XLEN)
                                        ELSE Truncate(v, XLEN - k) * 2^k + fill * (2^k - 1)
        before[s \in 0 .. Stages] ==
            IF s = 0 THEN NetworkInput(op, source, w)
            ELSE IF Bit(n, s - 1) = 1 THEN Moved(before[s - 1], 2^(s - 1))
            ELSE before[s - 1]
    IN  before

\* Lines 229-256: the last bit to leave, from the operand or the rotated result.
FastCarry(op, source, count, w, result) ==
    /\ count # 0
    /\ CASE op \in {"ASL", "LSL"} -> count <= w /\ Bit(source, w - count) = 1
         [] op = "ASR" -> IF count >= w THEN SignSet(source, w)
                                        ELSE Bit(source, count - 1) = 1
         [] op = "LSR" -> count <= w /\ Bit(source, count - 1) = 1
         [] op = "ROL" -> Bit(result, 0) = 1
         [] op = "ROR" -> SignSet(result, w)

\* stage_changes_asl_sign, lines 44-106: the bits that stage s moves into or past
\* the sign bit are not all alike; a stage as wide as the operand moves all.
StageChangesSign(v, w, s) ==
    IF 2^s >= w THEN Truncate(v, w) # 0
    ELSE Truncate(v, w) \div 2^(w - 1 - 2^s) \notin {0, 2^(2^s + 1) - 1}

\* Lines 258-263.
FastOverflow(op, network, count, w) ==
    /\ op = "ASL"
    /\ \E s \in 0 .. Stages - 1 : Bit(count, s) = 1 /\ StageChangesSign(network[s], w, s)

FastShift(op, source, count, w) ==
    LET network == Network(op, source, count, w)
        result == Truncate(Facing(op, network[Stages]), w)
    IN  [result |-> result, negative |-> SignSet(result, w), zero |-> result = 0,
         overflow |-> FastOverflow(op, network, count, w),
         carry |-> FastCarry(op, source, count, w, result)]
=============================================================================
