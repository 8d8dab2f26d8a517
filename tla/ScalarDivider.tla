---------------------------- MODULE ScalarDivider ---------------------------
(***************************************************************************)
(* rtl/core/execute/divide/m64k_scalar_divider.sv: the radix-4 restoring   *)
(* divider.  One action per branch of the clocked process; every step is a *)
(* rising clock edge.  Register widths are parameters: XLEN is 64 and      *)
(* Width is 8, 16, 32 and 64 in the code.                                  *)
(*                                                                         *)
(* request and edge are history variables: no action reads them.  request  *)
(* is the last accepted request (the operand registers are consumed by the *)
(* recurrence), edge is what the last clock edge sampled.                  *)
(***************************************************************************)
EXTENDS ExecuteBackend

CONSTANTS
    OperandSize,  \* names of the operand sizes
    Width,        \* their widths
    Request       \* the requests the dispatcher may present

Form == {"QUOTIENT", "REMAINDER", "QUOTIENT_REMAINDER"}
Fault == {"NONE", "ZERO", "QUOTIENT_OVERFLOW"}

\* A double-width dividend requires the fused form (line 240).
DivideRequest ==
    {r \in [tag : Tag, operand_size : OperandSize, result_form : Form,
            signed_operation : BOOLEAN, double_width_dividend : BOOLEAN,
            update_flags : BOOLEAN, dividend_low : Word(XLEN),
            dividend_high : Word(XLEN), divisor : Word(XLEN)] :
        r.double_width_dividend => r.result_form = "QUOTIENT_REMAINDER"}

DivideResponse ==
    [tag : Tag, result_count : 0 .. 2, results : [1 .. 2 -> ResultRecord],
     flags_valid : BOOLEAN, negative : BOOLEAN, zero : BOOLEAN, overflow : BOOLEAN,
     carry : BOOLEAN, fault_valid : BOOLEAN, fault : Fault]

\* The iteration counter has eight bits.
ASSUME WidthAssumption ==
    /\ XLEN \in 2 .. 255
    /\ Width \in [OperandSize -> Nat]
    /\ \A s \in OperandSize :
          Width[s] >= 2 /\ Width[s] <= XLEN /\ Width[s] % 2 = 0
\* What ^ means, up to the width of the dividend register: a fact of arithmetic that the
\* proofs cite, as the provers leave ^ uninterpreted.
ASSUME PowerAssumption == \A n \in 0 .. 2 * XLEN - 1 : 2^(n + 1) = 2 * 2^n
ASSUME RequestAssumption == Request \subseteq DivideRequest /\ None \notin Request

VARIABLES
    state,                 \* IDLE, ITERATE or RESPONSE
    operation,             \* operation_tag, _result_form, _signed, _update_flags
    quotient_negative,
    remainder_negative,
    operand_width,         \* stands for operand_mask and operand_sign_bit
    divisor_magnitude,
    dividend_quotient,     \* 2*XLEN bits: dividend leaves left, quotient enters right
    partial_remainder,
    iterations_remaining,
    response,              \* the response register
    request,               \* history: the last accepted request
    edge                   \* history: what the last edge sampled

datapath == <<dividend_quotient, partial_remainder, iterations_remaining>>
control == <<operation, quotient_negative, remainder_negative, operand_width,
             divisor_magnitude>>
vars == <<state, control, datapath, response, request, edge>>

request_ready == state = "IDLE"
response_valid == state = "RESPONSE"

\* The response register of an operation that has produced nothing.
EmptyResponse(tag, role0, role1) ==
    [tag |-> tag, result_count |-> 0,
     results |-> <<Result(FALSE, role0, 0), Result(FALSE, role1, 0)>>,
     flags_valid |-> FALSE, negative |-> FALSE, zero |-> FALSE,
     overflow |-> FALSE, carry |-> FALSE, fault_valid |-> FALSE, fault |-> "NONE"]

-----------------------------------------------------------------------------
(* The operands an accepted request is reduced to, lines 169-236.          *)

RequestWidth(r) == Width[r.operand_size]

TruncatedDivisor(r) == Truncate(r.divisor, RequestWidth(r))

DividendWidth(r) ==
    IF r.double_width_dividend THEN 2 * RequestWidth(r) ELSE RequestWidth(r)

RawDividend(r) ==
    LET w == RequestWidth(r)
        low == Truncate(r.dividend_low, w)
    IN  IF r.double_width_dividend
        THEN Truncate(r.dividend_high, w) * 2^w + low ELSE low

DivisorIsNegative(r) ==
    r.signed_operation /\ SignSet(TruncatedDivisor(r), RequestWidth(r))

DividendIsNegative(r) ==
    /\ r.signed_operation
    /\ SignSet(IF r.double_width_dividend THEN r.dividend_high ELSE r.dividend_low,
               RequestWidth(r))

\* The negation is of the sign extension to one bit more than the register, so
\* the most negative dividend keeps its magnitude.
DividendMagnitude(r) ==
    IF DividendIsNegative(r) THEN 2^DividendWidth(r) - RawDividend(r)
                             ELSE RawDividend(r)

AlignedDividend(r) ==
    Truncate(DividendMagnitude(r) * 2^(2 * XLEN - DividendWidth(r)), 2 * XLEN)

DivisorMagnitude(r) ==
    IF DivisorIsNegative(r) THEN Negated(TruncatedDivisor(r), RequestWidth(r))
                            ELSE TruncatedDivisor(r)

-----------------------------------------------------------------------------
(* Two cascaded restoring steps, lines 107-127.                            *)

\* Defect: the trial subtraction is kept only when it leaves a remainder.
RestoreIfPositive(p, b, d) ==
    LET shifted == 2 * p + b
    IN  IF shifted > d THEN [remainder |-> Truncate(shifted - d, XLEN), bit |-> 1]
                       ELSE [remainder |-> Truncate(shifted, XLEN), bit |-> 0]

\* Shift bit b into remainder p and subtract divisor d if it fits.
Restore(p, b, d) ==
    LET shifted == 2 * p + b
    IN  IF shifted >= d THEN [remainder |-> Truncate(shifted - d, XLEN), bit |-> 1]
                        ELSE [remainder |-> Truncate(shifted, XLEN), bit |-> 0]

FirstStep ==
    Restore(partial_remainder, Bit(dividend_quotient, 2 * XLEN - 1), divisor_magnitude)

SecondStep ==
    Restore(FirstStep.remainder, Bit(dividend_quotient, 2 * XLEN - 2), divisor_magnitude)

\* Defect: the quotient register keeps the dividend bits that leave it.
WideDividendQuotient ==
    dividend_quotient * 4 + 2 * FirstStep.bit + SecondStep.bit

NextDividendQuotient ==
    Truncate(dividend_quotient * 4, 2 * XLEN) + 2 * FirstStep.bit + SecondStep.bit

-----------------------------------------------------------------------------
(* The result of the last iteration, lines 301-378.                        *)

\* A magnitude with its sign restored in the operand width.
WithSign(v, negative) ==
    IF negative THEN Negated(v, operand_width) ELSE Truncate(v, operand_width)

\* Defect: the most negative quotient is taken for an overflow.
MostNegativeOverflows(magnitude) ==
    LET wide == magnitude >= 2^operand_width
        low == Truncate(magnitude, XLEN)
    IN  wide \/ (operation.signed /\ SignSet(low, operand_width))

QuotientOverflows(magnitude) ==
    LET wide == magnitude >= 2^operand_width
        low == Truncate(magnitude, XLEN)
    IN  IF ~operation.signed THEN wide
        ELSE IF quotient_negative THEN wide \/ low > 2^(operand_width - 1)
        ELSE wide \/ SignSet(low, operand_width)

FinishedResponse(magnitude, remainder_magnitude) ==
    LET q == WithSign(Truncate(magnitude, XLEN), quotient_negative)
        r == WithSign(remainder_magnitude, remainder_negative)
        form == operation.result_form
        flag_value == IF form = "REMAINDER" THEN r ELSE q
    IN  IF form # "REMAINDER" /\ QuotientOverflows(magnitude)
        THEN [response EXCEPT
                !.result_count = 0,
                !.results = [i \in 1 .. 2 |-> Result(FALSE, response.results[i].role, 0)],
                !.flags_valid = FALSE, !.negative = FALSE, !.zero = FALSE,
                !.overflow = FALSE, !.carry = FALSE,
                !.fault_valid = TRUE, !.fault = "QUOTIENT_OVERFLOW"]
        ELSE [response EXCEPT
                !.result_count = IF form = "QUOTIENT_REMAINDER" THEN 2 ELSE 1,
                !.results =
                    IF form = "REMAINDER"
                    THEN <<Result(TRUE, "REMAINDER", r), Result(FALSE, "QUOTIENT", 0)>>
                    ELSE <<Result(TRUE, "QUOTIENT", q),
                           Result(form = "QUOTIENT_REMAINDER", "REMAINDER",
                                  IF form = "QUOTIENT_REMAINDER" THEN r ELSE 0)>>,
                !.flags_valid = operation.update_flags,
                !.negative = SignSet(flag_value, operand_width),
                !.zero = (Truncate(flag_value, operand_width) = 0),
                !.overflow = FALSE, !.carry = FALSE,
                !.fault_valid = FALSE, !.fault = "NONE"]

-----------------------------------------------------------------------------
(* Every register is cleared, lines 138-152.                               *)
Cleared ==
    [state |-> "IDLE",
     operation |-> [tag |-> ZeroTag, result_form |-> "QUOTIENT",
                    signed |-> FALSE, update_flags |-> FALSE],
     response |-> EmptyResponse(ZeroTag, "LOW", "LOW")]

Init ==
    /\ state = Cleared.state
    /\ operation = Cleared.operation
    /\ quotient_negative = FALSE /\ remainder_negative = FALSE
    /\ operand_width = 0
    /\ divisor_magnitude = 0
    /\ dividend_quotient = 0
    /\ partial_remainder = 0
    /\ iterations_remaining = 0
    /\ response = Cleared.response
    /\ request = None
    /\ edge = ResetEdge

Reset ==
    /\ state' = Cleared.state
    /\ operation' = Cleared.operation
    /\ quotient_negative' = FALSE /\ remainder_negative' = FALSE
    /\ operand_width' = 0
    /\ divisor_magnitude' = 0
    /\ dividend_quotient' = 0
    /\ partial_remainder' = 0
    /\ iterations_remaining' = 0
    /\ response' = Cleared.response
    /\ request' = None
    /\ edge' = ResetEdge

\* An unsquashed request is accepted; a zero divisor faults at once.
Accept(r, sq, rdy) ==
    /\ sq # r.tag
    /\ edge' = ClockEdge(r, sq, rdy)
    /\ request' = r
    /\ operation' = [tag |-> r.tag, result_form |-> r.result_form,
                     signed |-> r.signed_operation, update_flags |-> r.update_flags]
    /\ quotient_negative' = (DividendIsNegative(r) # DivisorIsNegative(r))
    /\ remainder_negative' = DividendIsNegative(r)
    /\ operand_width' = RequestWidth(r)
    /\ divisor_magnitude' = DivisorMagnitude(r)
    /\ dividend_quotient' = AlignedDividend(r)
    /\ partial_remainder' = 0
    /\ iterations_remaining' = IF r.double_width_dividend THEN RequestWidth(r)
                               ELSE RequestWidth(r) \div 2
    /\ LET empty == EmptyResponse(r.tag, "QUOTIENT", "REMAINDER")
       IN  IF TruncatedDivisor(r) = 0
           THEN /\ state' = "RESPONSE"
                /\ response' = [empty EXCEPT !.fault_valid = TRUE, !.fault = "ZERO"]
           ELSE /\ state' = "ITERATE"
                /\ response' = empty

\* Nothing is presented to the idle divider, or its request is squashed.
AcceptNothing(req, sq, rdy) ==
    /\ req # None => req.tag = sq
    /\ edge' = ClockEdge(req, sq, rdy)
    /\ UNCHANGED <<state, control, datapath, response, request>>

\* Defect: any squash cancels the operation.
CancelAny(sq, rdy) ==
    /\ state = "ITERATE"
    /\ sq # None
    /\ edge' = ClockEdge(None, sq, rdy)
    /\ state' = "IDLE"
    /\ UNCHANGED <<control, datapath, response, request>>

\* A squash with the operation's tag cancels it, on its last iteration too.
Cancel(sq, rdy) ==
    /\ state = "ITERATE"
    /\ sq = operation.tag
    /\ edge' = ClockEdge(None, sq, rdy)
    /\ state' = "IDLE"
    /\ UNCHANGED <<control, datapath, response, request>>

StepDatapath ==
    /\ dividend_quotient' = NextDividendQuotient
    /\ partial_remainder' = SecondStep.remainder
    /\ iterations_remaining' = (iterations_remaining - 1) % 256

Iterate(sq, rdy) ==
    /\ state = "ITERATE"
    /\ sq # operation.tag
    /\ iterations_remaining # 1
    /\ edge' = ClockEdge(None, sq, rdy)
    /\ StepDatapath
    /\ UNCHANGED <<state, control, response, request>>

Finish(sq, rdy) ==
    /\ state = "ITERATE"
    /\ sq # operation.tag
    /\ iterations_remaining = 1
    /\ edge' = ClockEdge(None, sq, rdy)
    /\ StepDatapath
    /\ state' = "RESPONSE"
    /\ response' = FinishedResponse(NextDividendQuotient, SecondStep.remainder)
    /\ UNCHANGED <<control, request>>

\* Defect: a squash with its tag drops a published response.
RespondUnlessSquashed(sq, rdy) ==
    /\ response_valid
    /\ edge' = ClockEdge(None, sq, rdy)
    /\ state' = IF rdy \/ sq = operation.tag THEN "IDLE" ELSE state
    /\ UNCHANGED <<control, datapath, response, request>>

\* Defect: a squash, whatever its tag, keeps the consumer from taking the response.
RespondUnsquashedOnly(sq, rdy) ==
    /\ response_valid
    /\ edge' = ClockEdge(None, sq, rdy)
    /\ state' = IF rdy /\ sq = None THEN "IDLE" ELSE state
    /\ UNCHANGED <<control, datapath, response, request>>

\* A squash no longer matters: the response waits for its consumer.
Respond(sq, rdy) ==
    /\ response_valid
    /\ edge' = ClockEdge(None, sq, rdy)
    /\ state' = IF rdy THEN "IDLE" ELSE state
    /\ UNCHANGED <<control, datapath, response, request>>

Clock(sq, rdy) ==
    \/ /\ request_ready
       /\ \/ \E r \in Request : Accept(r, sq, rdy)
          \/ \E req \in Request \cup {None} : AcceptNothing(req, sq, rdy)
    \/ Cancel(sq, rdy)
    \/ Iterate(sq, rdy)
    \/ Finish(sq, rdy)
    \/ Respond(sq, rdy)

Next == Reset \/ \E sq \in Tag \cup {None}, rdy \in BOOLEAN : Clock(sq, rdy)

Spec == Init /\ [][Next]_vars

\* The clock runs and the consumer is eventually ready.
Fairness ==
    /\ WF_vars(Next)
    /\ WF_vars(\E sq \in Tag \cup {None} : Respond(sq, TRUE))

-----------------------------------------------------------------------------
(* Correctness.                                                            *)

Model == INSTANCE ArithmeticModel

\* The registers keep their declared widths: no alignment, iteration or sign correction
\* carries a bit out of one.
TypeOK ==
    /\ state \in {"IDLE", "ITERATE", "RESPONSE"}
    /\ operation \in [tag : Tag, result_form : Form,
                      signed : BOOLEAN, update_flags : BOOLEAN]
    /\ quotient_negative \in BOOLEAN /\ remainder_negative \in BOOLEAN
    /\ operand_width \in 0 .. XLEN
    /\ divisor_magnitude \in Word(XLEN)
    /\ dividend_quotient \in Word(2 * XLEN)
    /\ partial_remainder \in Word(XLEN)
    /\ iterations_remaining \in 0 .. 255
    /\ response \in DivideResponse
    /\ request \in Request \cup {None}
    /\ edge \in EdgeRecord(Request)

\* What the consumer of a response sees.
Visible(rsp) ==
    [tag |-> rsp.tag, results |-> VisibleResults(rsp), flags |-> VisibleFlags(rsp),
     fault |-> IF rsp.fault_valid THEN rsp.fault ELSE None]

\* The response the executable model prescribes for request r.
Architectural(r) ==
    LET d == Model!Divide(r.dividend_low, r.dividend_high, r.divisor,
                          RequestWidth(r), r.signed_operation,
                          r.double_width_dividend, r.result_form, r.update_flags)
    IN  [tag |-> r.tag,
         results |-> Written("QUOTIENT", d.quotient) \o Written("REMAINDER", d.remainder),
         flags |-> d.flags, fault |-> d.fault]

\* Every published response is the one the executable model prescribes for the
\* request it answers: two's complement truncation, magnitudes, alignment, the
\* recurrence, the sign restoration and the overflow rules agree with integer
\* division, whatever the divider computed before.  The result count and the valid
\* bits, either of which a consumer may use, say the same.
ResponseIsArchitectural ==
    response_valid => Visible(response) = Architectural(request) /\ Packed(response)

\* Between iterations the quotient bits produced, the remainder and the bits
\* still to come always reassemble the dividend, the remainder is reduced, and
\* the bits still to come are those the counter has left.
Recurrence ==
    state = "ITERATE" =>
        LET left == 2 * iterations_remaining
            made == DividendWidth(request) - left
            quotient == Truncate(dividend_quotient, made)
            rest == dividend_quotient \div 2^(2 * XLEN - left)
        IN  /\ iterations_remaining >= 1 /\ made >= 0
            /\ partial_remainder < divisor_magnitude
            /\ DividendMagnitude(request) =
                  (quotient * divisor_magnitude + partial_remainder) * 2^left + rest

\* The divider is a tagged execution unit of capacity one whose outcome is the
\* executable model: one response per accepted request, exact-tag squash of the
\* unpublished operation only, irrevocable responses.
Unit == INSTANCE ExecutionUnit WITH
    Outcome <- Architectural,
    Capacity <- 1,
    inflight <- IF state = "ITERATE" THEN <<request>> ELSE <<>>,
    response <- IF response_valid THEN Visible(response) ELSE None

ImplementsUnit == Unit!Spec

\* An operation in flight is answered unless its own tag is squashed or the
\* divider is reset.
UnsquashedIsAnswered ==
    \A t \in Tag :
        (state = "ITERATE" /\ operation.tag = t)
            ~> \/ response_valid /\ response.tag = t
               \/ edge.squash = t
               \/ edge.reset

\* The divider always becomes ready for another request.
AlwaysReadyAgain == []<>request_ready
=============================================================================
