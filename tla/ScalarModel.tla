----------------------------- MODULE ScalarModel ----------------------------
(***************************************************************************)
(* The executable semantics of the scalar integer operations and of the    *)
(* conditions, model/m64k/scalar.py.  A result is its value, its flags and *)
(* its extend bit, None where the operation publishes none.                *)
(***************************************************************************)
EXTENDS Bits

CONSTANTS
    None,
    BitAnd(_, _), BitOr(_, _), BitXor(_, _)   \* bitwise operators on naturals

Flags(v, w, overflow, carry) ==
    [negative |-> SignSet(v, w), zero |-> Truncate(v, w) = 0,
     overflow |-> overflow, carry |-> carry]

\* add, add_with_extend: carry is the carry out of the operand width.
Add(left, right, x, w) ==
    LET full == Truncate(left, w) + Truncate(right, w) + x
        signed == AsSigned(left, w) + AsSigned(right, w) + x
    IN  [value |-> full % 2^w,
         flags |-> Flags(full, w, signed \notin Representable(w, TRUE), full >= 2^w)]

\* subtract, subtract_with_extend: carry is the borrow.
Subtract(left, right, x, w) ==
    LET full == Truncate(left, w) - (Truncate(right, w) + x)
        signed == AsSigned(left, w) - AsSigned(right, w) - x
    IN  [value |-> full % 2^w,
         flags |-> Flags(full % 2^w, w, signed \notin Representable(w, TRUE), full < 0)]

\* _logical_result and test.
Logical(v, w) ==
    [value |-> Truncate(v, w), flags |-> Flags(v, w, FALSE, FALSE)]

\* The function of the model an operation stands for.
Computed(op, left, right, x, w) ==
    CASE op = "ADD" -> Add(left, right, 0, w)
      [] op = "ADCX" -> Add(left, right, x, w)
      [] op \in {"SUB", "CMP"} -> Subtract(left, right, 0, w)
      [] op = "SBCX" -> Subtract(left, right, x, w)
      [] op = "NEG" -> Subtract(0, right, 0, w)
      [] op = "NEGX" -> Subtract(0, right, x, w)
      [] op = "AND" -> Logical(BitAnd(left, right), w)
      [] op = "OR" -> Logical(BitOr(left, right), w)
      [] op = "XOR" -> Logical(BitXor(left, right), w)
      [] op = "NOT" -> Logical(-right - 1, w)
      [] op = "TST" -> Logical(right, w)

\* Compare and test publish flags and no value; only the operations with an
\* extend input publish an extend bit, which is their carry.
Integer(op, left, right, x, w, update_flags) ==
    LET computed == Computed(op, left, right, x, w)
        compares == op \in {"CMP", "TST"}
    IN  [value  |-> IF compares THEN None ELSE computed.value,
         flags  |-> IF compares \/ update_flags THEN computed.flags ELSE None,
         extend |-> IF op \in {"ADCX", "SBCX", "NEGX"}
                    THEN computed.flags.carry ELSE None]

\* evaluate_condition.
Holds(condition, f) ==
    CASE condition = "TRUE" -> TRUE
      [] condition = "FALSE" -> FALSE
      [] condition = "HIGH" -> ~f.carry /\ ~f.zero
      [] condition = "LOW_OR_SAME" -> f.carry \/ f.zero
      [] condition = "CARRY_CLEAR" -> ~f.carry
      [] condition = "CARRY_SET" -> f.carry
      [] condition = "NOT_EQUAL" -> ~f.zero
      [] condition = "EQUAL" -> f.zero
      [] condition = "OVERFLOW_CLEAR" -> ~f.overflow
      [] condition = "OVERFLOW_SET" -> f.overflow
      [] condition = "PLUS" -> ~f.negative
      [] condition = "MINUS" -> f.negative
      [] condition = "GREATER_OR_EQUAL" -> f.negative = f.overflow
      [] condition = "LESS_THAN" -> f.negative # f.overflow
      [] condition = "GREATER_THAN" -> ~f.zero /\ f.negative = f.overflow
      [] condition = "LESS_OR_EQUAL" -> f.zero \/ f.negative # f.overflow
=============================================================================
