--------------------------- MODULE IntegerExecute ---------------------------
(***************************************************************************)
(* rtl/core/execute/integer: the scalar ALU (m64k_integer_alu.sv) and its  *)
(* registered, tagged wrapper (m64k_integer_execute.sv).  Reset clears the *)
(* valid bit only; response_register = None stands for a register that has *)
(* never been written.  edge and integrity_error are histories: what the   *)
(* last clock edge sampled and what the combinational output showed at it. *)
(***************************************************************************)
EXTENDS ExecuteBackend

CONSTANTS
    OperandSize,  \* names of the operand sizes
    Width,        \* their widths; 8, 16, 32 and 64 in the code
    Request,      \* the requests the dispatcher may present
    BitAnd(_, _), BitOr(_, _), BitXor(_, _)   \* bitwise operators on naturals

\* m64k_integer_operation_is_legal; the codes above TST are RESERVED.
Operation == {"ADD", "SUB", "ADCX", "SBCX", "AND", "OR", "XOR", "NOT", "NEG",
              "NEGX", "CMP", "TST"}
Legal(operation) == operation \in Operation

IntegerRequest ==
    [tag : Tag, source_left : Word(XLEN), source_right : Word(XLEN),
     operand_size : OperandSize, operation : Operation \cup {"RESERVED"},
     extend_in : {0, 1}, update_flags : BOOLEAN]

IntegerResponse ==
    [tag : Tag, result_valid : BOOLEAN, result : ResultRecord, flags_valid : BOOLEAN,
     negative : BOOLEAN, zero : BOOLEAN, overflow : BOOLEAN, carry : BOOLEAN,
     extend_valid : BOOLEAN, extend : BOOLEAN]

ASSUME WidthAssumption ==
    /\ XLEN \in Nat
    /\ Width \in [OperandSize -> Nat \ {0}]
    /\ \A s \in OperandSize : Width[s] <= XLEN
\* What ^ means, up to the width of a register: a fact of arithmetic that the proofs cite,
\* as the provers leave ^ uninterpreted.
ASSUME PowerAssumption == \A n \in 0 .. XLEN - 1 : 2^(n + 1) = 2 * 2^n
\* The bitwise operators act on registers, and on each bit alone.
ASSUME BitwiseAssumption ==
    \A x, y \in Word(XLEN) :
        /\ {BitAnd(x, y), BitOr(x, y), BitXor(x, y)} \subseteq Word(XLEN)
        /\ \A s \in OperandSize :
              LET low(v) == Truncate(v, Width[s])
              IN  /\ BitAnd(low(x), low(y)) = low(BitAnd(x, y))
                  /\ BitOr(low(x), low(y)) = low(BitOr(x, y))
                  /\ BitXor(low(x), low(y)) = low(BitXor(x, y))
ASSUME RequestAssumption == Request \subseteq IntegerRequest /\ None \notin Request

VARIABLES
    response_register_valid,
    response_register,
    edge,                     \* history: what the last edge sampled
    integrity_error           \* history: the output at the last edge

vars == <<response_register_valid, response_register, edge, integrity_error>>

response_valid == response_register_valid

\* Defect: a waiting response is overwritten.
AlwaysAvailable(rdy) == TRUE

response_slot_available(rdy) == ~response_register_valid \/ rdy

-----------------------------------------------------------------------------
(* The ALU, m64k_integer_alu.sv.                                           *)

Subtracts(op) == op \in {"SUB", "CMP", "NEG", "SBCX", "NEGX"}
UsesAdder(op) == Subtracts(op) \/ op \in {"ADD", "ADCX"}

\* One adder serves every arithmetic operation: subtraction adds the complement
\* with carry in (lines 56-93).
AdderSum(r, w) ==
    LET left == IF r.operation \in {"NEG", "NEGX"} THEN 0 ELSE Truncate(r.source_left, w)
        right == IF Subtracts(r.operation) THEN 2^w - 1 - Truncate(r.source_right, w)
                                           ELSE Truncate(r.source_right, w)
        carry_in == CASE r.operation = "ADD" -> 0
                      [] r.operation = "ADCX" -> r.extend_in
                      [] r.operation \in {"SBCX", "NEGX"} -> 1 - r.extend_in
                      [] OTHER -> 1
    IN  left + right + carry_in

\* Defect: the carry out of the operand stays in the result.
WideResult(r, w) ==
    LET left == Truncate(r.source_left, w)
        right == Truncate(r.source_right, w)
    IN  CASE UsesAdder(r.operation) -> AdderSum(r, w)
          [] r.operation = "AND" -> BitAnd(left, right)
          [] r.operation = "OR" -> BitOr(left, right)
          [] r.operation = "XOR" -> BitXor(left, right)
          [] r.operation = "NOT" -> 2^w - 1 - right
          [] r.operation = "TST" -> right

ArithmeticResult(r, w) ==
    LET left == Truncate(r.source_left, w)
        right == Truncate(r.source_right, w)
    IN  CASE UsesAdder(r.operation) -> Truncate(AdderSum(r, w), w)
          [] r.operation = "AND" -> BitAnd(left, right)
          [] r.operation = "OR" -> BitOr(left, right)
          [] r.operation = "XOR" -> BitXor(left, right)
          [] r.operation = "NOT" -> 2^w - 1 - right
          [] r.operation = "TST" -> right

\* Defect: the carry of a subtraction is not turned into a borrow.
CarryOnly(r, w) == UsesAdder(r.operation) /\ Bit(AdderSum(r, w), w) = 1

CarryOrBorrow(r, w) ==
    /\ UsesAdder(r.operation)
    /\ (Bit(AdderSum(r, w), w) = 1) # Subtracts(r.operation)

\* Overflow is decided from the sign bits alone, lines 140-149.
ArithmeticOverflow(r, w) ==
    LET left == SignSet(r.source_left, w)
        right == SignSet(r.source_right, w)
        result == SignSet(ArithmeticResult(r, w), w)
    IN  \/ r.operation \in {"ADD", "ADCX"} /\ left = right /\ result # left
        \/ r.operation \in {"SUB", "SBCX", "CMP"} /\ left # right /\ result # left
        \/ r.operation \in {"NEG", "NEGX"} /\ right /\ result

AlwaysWritesFlags(op) == op \in {"CMP", "TST"}

\* The response of a legal request, m64k_integer_execute.sv:66-78.
CalculatedResponse(r) ==
    LET w == Width[r.operand_size]
        value == ArithmeticResult(r, w)
        has_result == ~AlwaysWritesFlags(r.operation)
    IN  [tag |-> r.tag,
         result_valid |-> has_result,
         result |-> Result(has_result, "LOW", value),
         flags_valid |-> r.update_flags \/ AlwaysWritesFlags(r.operation),
         negative |-> SignSet(value, w),
         zero |-> value = 0,
         overflow |-> ArithmeticOverflow(r, w),
         carry |-> CarryOrBorrow(r, w),
         extend_valid |-> r.operation \in {"ADCX", "SBCX", "NEGX"},
         extend |-> CarryOrBorrow(r, w)]

-----------------------------------------------------------------------------
(* The wrapper, m64k_integer_execute.sv.                                   *)

Init ==
    /\ response_register_valid = FALSE
    /\ response_register = None
    /\ edge = ResetEdge
    /\ integrity_error = FALSE

Reset ==
    /\ response_register_valid' = FALSE
    /\ UNCHANGED response_register
    /\ edge' = ResetEdge
    /\ integrity_error' = FALSE

LegalRequest(req) == IF req = None THEN FALSE ELSE Legal(req.operation)

\* The histories of an edge at which req is presented and the slot is free or
\* not: an illegal request completes no handshake and raises integrity_error.
Observe(req, sq, rdy) ==
    /\ edge' = ClockEdge(
            IF LegalRequest(req) /\ response_slot_available(rdy) THEN req ELSE None,
            sq, rdy)
    /\ integrity_error' = (req # None /\ ~LegalRequest(req))

Accepts(req, sq) == IF LegalRequest(req) THEN req.tag # sq ELSE FALSE

\* The response leaves, or there was none, and an accepted request replaces it.
Load(req, sq, rdy) ==
    /\ response_slot_available(rdy)
    /\ Accepts(req, sq)
    /\ Observe(req, sq, rdy)
    /\ response_register_valid' = TRUE
    /\ response_register' = CalculatedResponse(req)

\* Nothing replaces it: no request, a squashed one or an illegal one.
Drain(req, sq, rdy) ==
    /\ response_slot_available(rdy)
    /\ ~Accepts(req, sq)
    /\ Observe(req, sq, rdy)
    /\ response_register_valid' = FALSE
    /\ UNCHANGED response_register

\* The response waits, whatever is presented or squashed.
Hold(req, sq, rdy) ==
    /\ ~response_slot_available(rdy)
    /\ Observe(req, sq, rdy)
    /\ UNCHANGED <<response_register_valid, response_register>>

Clock(req, sq, rdy) == Load(req, sq, rdy) \/ Drain(req, sq, rdy) \/ Hold(req, sq, rdy)

Next ==
    \/ Reset
    \/ \E req \in Request \cup {None}, sq \in Tag \cup {None}, rdy \in BOOLEAN :
            Clock(req, sq, rdy)

Spec == Init /\ [][Next]_vars

-----------------------------------------------------------------------------
(* Correctness.                                                            *)

Model == INSTANCE ScalarModel

\* The response register keeps its declared widths: no sum, complement or negation
\* carries a bit out of the result.
TypeOK ==
    /\ response_register_valid \in BOOLEAN
    /\ response_register # None => response_register \in IntegerResponse
    /\ edge \in EdgeRecord(Request)
    /\ integrity_error \in BOOLEAN

\* What the consumer of a response sees.
Visible(rsp) ==
    [tag |-> rsp.tag,
     value |-> IF rsp.result_valid THEN rsp.result.value ELSE None,
     flags |-> VisibleFlags(rsp),
     extend |-> IF rsp.extend_valid THEN rsp.extend ELSE None]

\* The response the executable model prescribes for request r.
Architectural(r) ==
    LET i == Model!Integer(r.operation, r.source_left, r.source_right, r.extend_in,
                           Width[r.operand_size], r.update_flags)
    IN  [tag |-> r.tag, value |-> i.value, flags |-> i.flags, extend |-> i.extend]

\* The pipe is a tagged execution unit that holds nothing unpublished and whose
\* outcome is the executable model: carry, borrow, overflow and extend taken
\* from one adder agree with integer arithmetic; an illegal or squashed request
\* leaves no response, and a response is never dropped or overwritten.
Unit == INSTANCE ExecutionUnit WITH
    Outcome <- Architectural,
    Capacity <- 0,
    inflight <- <<>>,
    response <- IF response_valid THEN Visible(response_register) ELSE None

ImplementsUnit == Unit!Spec

\* The flags a comparison publishes decide every ordering condition the way the
\* integers the compared operands stand for are ordered.
ConditionsOrderComparedOperands ==
    (response_valid /\ edge.request # None /\ edge.request.operation = "CMP") =>
        LET r == edge.request
            w == Width[r.operand_size]
            f == VisibleFlags(response_register)
            left(signed) == AsOperand(r.source_left, w, signed)
            right(signed) == AsOperand(r.source_right, w, signed)
        IN  /\ Model!Holds("HIGH", f) <=> left(FALSE) > right(FALSE)
            /\ Model!Holds("LOW_OR_SAME", f) <=> left(FALSE) <= right(FALSE)
            /\ Model!Holds("CARRY_SET", f) <=> left(FALSE) < right(FALSE)
            /\ Model!Holds("EQUAL", f) <=> left(TRUE) = right(TRUE)
            /\ Model!Holds("LESS_THAN", f) <=> left(TRUE) < right(TRUE)
            /\ Model!Holds("GREATER_OR_EQUAL", f) <=> left(TRUE) >= right(TRUE)
            /\ Model!Holds("GREATER_THAN", f) <=> left(TRUE) > right(TRUE)
            /\ Model!Holds("LESS_OR_EQUAL", f) <=> left(TRUE) <= right(TRUE)
=============================================================================
