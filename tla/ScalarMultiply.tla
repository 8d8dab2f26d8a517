--------------------------- MODULE ScalarMultiply ---------------------------
(***************************************************************************)
(* rtl/core/execute/multiply/m64k_scalar_multiply.sv: the four-register    *)
(* multiplier.  A stage is None while its valid bit is clear: the code     *)
(* reads the payload of a stage only under its valid bit.  The fields a    *)
(* request carries through the stages are its op; edge is a history        *)
(* variable that no action reads.                                          *)
(***************************************************************************)
EXTENDS ExecuteBackend

CONSTANTS
    OperandSize,  \* names of the operand sizes
    Width,        \* their widths; 8, 16, 32 and 64 in the code
    Request       \* the requests the dispatcher may present

MultiplyRequest ==
    [tag : Tag, source_left : Word(XLEN), source_right : Word(XLEN),
     operand_size : OperandSize, signed_operation : BOOLEAN,
     widening : BOOLEAN, update_flags : BOOLEAN]

MultiplyResponse ==
    [tag : Tag, result_count : 1 .. 2, results : [1 .. 2 -> ResultRecord],
     flags_valid : BOOLEAN, negative : BOOLEAN, zero : BOOLEAN, overflow : BOOLEAN,
     carry : BOOLEAN]

\* The payloads of the stages: the request, and what was computed from it.
OperandStage == [op : MultiplyRequest]
PartialProductStage ==
    [op : MultiplyRequest, low_low : Word(XLEN), low_high : Word(XLEN),
     high_low : Word(XLEN), high_high : Word(XLEN)]
ReductionStage ==
    [op : MultiplyRequest, low_low : Word(XLEN), cross_sum : Word(XLEN + 1),
     corrected_high_high : Word(XLEN)]

\* A size fills the register or fits twice in it (lines 197-263).
ASSUME WidthAssumption ==
    /\ XLEN \in Nat /\ XLEN % 2 = 0
    /\ Width \in [OperandSize -> Nat \ {0}]
    /\ \A s \in OperandSize : Width[s] = XLEN \/ 2 * Width[s] <= XLEN
\* What ^ means, up to the width of the product: a fact of arithmetic that the proofs
\* cite, as the provers leave ^ uninterpreted.
ASSUME PowerAssumption == \A n \in 0 .. 2 * XLEN - 1 : 2^(n + 1) = 2 * 2^n
ASSUME RequestAssumption == Request \subseteq MultiplyRequest
\* Absence is no request and no payload: in the code it is a clear valid bit.
ASSUME AbsenceAssumption ==
    None \notin MultiplyRequest \cup OperandStage \cup PartialProductStage
                 \cup ReductionStage \cup MultiplyResponse

VARIABLES
    operand_stage,
    partial_product_stage,
    reduction_stage,
    result_stage,
    edge                    \* history: what the last edge sampled

stages == <<operand_stage, partial_product_stage, reduction_stage, result_stage>>
vars == <<stages, edge>>

\* The bits of one half of a register; 32 in the code.
Half == XLEN \div 2
LowHalf(v) == Truncate(v, Half)
HighHalf(v) == v \div 2^Half

\* Defect: the pipeline waits for an empty response register.
AdvancesWhenEmpty(rdy) == result_stage = None

pipeline_advances(rdy) == result_stage = None \/ rdy
response_valid == result_stage # None

-----------------------------------------------------------------------------
(* The arithmetic of each stage.                                           *)

\* prepare_operand, lines 56-67, and the operand stage, lines 299-305.
PreparedOperands(r) ==
    [op |-> [r EXCEPT !.source_left = Truncate(@, Width[r.operand_size]),
                      !.source_right = Truncate(@, Width[r.operand_size])]]

\* Four half-by-half partial products, lines 111-124.
CalculatedPartialProducts(stage) ==
    LET left == stage.op.source_left
        right == stage.op.source_right
    IN  [op |-> stage.op,
         low_low |-> LowHalf(left) * LowHalf(right),
         low_high |-> LowHalf(left) * HighHalf(right),
         high_low |-> HighHalf(left) * LowHalf(right),
         high_high |-> HighHalf(left) * HighHalf(right)]

\* Defect: the corrected high half is left signed.
UnboundedReduction(stage) ==
    LET op == stage.op
        correction(negative, other) ==
            IF op.signed_operation /\ SignSet(negative, XLEN) THEN other ELSE 0
    IN  [op |-> op,
         low_low |-> stage.low_low,
         cross_sum |-> Truncate(stage.low_high + stage.high_low, XLEN + 1),
         corrected_high_high |->
            stage.high_high - correction(op.source_left, op.source_right)
                            - correction(op.source_right, op.source_left)]

\* Defect: the carry of the cross sum is lost.
NarrowCrossSum(stage) ==
    LET op == stage.op
        correction(negative, other) ==
            IF op.signed_operation /\ SignSet(negative, XLEN) THEN other ELSE 0
    IN  [op |-> op,
         low_low |-> stage.low_low,
         cross_sum |-> Truncate(stage.low_high + stage.high_low, XLEN),
         corrected_high_high |->
            (stage.high_high - correction(op.source_left, op.source_right)
                             - correction(op.source_right, op.source_left)) % 2^XLEN]

\* The cross sum keeps its carry; a negative register operand subtracts the
\* other from the high half, modulo a register (lines 126-147).
CalculatedReduction(stage) ==
    LET op == stage.op
        correction(negative, other) ==
            IF op.signed_operation /\ SignSet(negative, XLEN) THEN other ELSE 0
    IN  [op |-> op,
         low_low |-> stage.low_low,
         cross_sum |-> Truncate(stage.low_high + stage.high_low, XLEN + 1),
         corrected_high_high |->
            (stage.high_high - correction(op.source_left, op.source_right)
                             - correction(op.source_right, op.source_left)) % 2^XLEN]

\* The exact double-register product of the prepared operands, lines 150-152.
CalculatedFullProduct(stage) ==
    LET low_sum == stage.low_low + LowHalf(stage.cross_sum) * 2^Half
        high_sum == stage.corrected_high_high + HighHalf(stage.cross_sum)
                        + Bit(low_sum, XLEN)
    IN  Truncate(high_sum, XLEN) * 2^XLEN + Truncate(low_sum, XLEN)

\* A signed product narrower than a register is corrected in its own 2w bits
\* and sign extended, lines 154-187.
SemanticProduct(stage) ==
    LET op == stage.op
        w == Width[op.operand_size]
        full == CalculatedFullProduct(stage)
        correction(negative, other) ==
            IF SignSet(negative, w) THEN Truncate(other, w) * 2^w ELSE 0
        corrected == (Truncate(full, 2 * w)
                        - correction(op.source_left, op.source_right)
                        - correction(op.source_right, op.source_left)) % 2^(2 * w)
    IN  IF op.signed_operation /\ w # XLEN
        THEN AsSigned(corrected, 2 * w) % 2^(2 * XLEN)
        ELSE full

\* Defect: a negative product that fits is taken for an overflow.
UnsignedOverflows(product, w, signed) == product \div 2^w # 0

\* The bits above a narrow result are not its extension.
NarrowOverflows(product, w, signed) ==
    product \div 2^w #
        IF signed /\ SignSet(product, w) THEN 2^(2 * XLEN - w) - 1 ELSE 0

\* Lines 189-268.
CalculatedResponse(stage) ==
    LET op == stage.op
        w == Width[op.operand_size]
        product == SemanticProduct(stage)
        result_width == IF op.widening THEN 2 * w ELSE w
        has_high == result_width > XLEN
    IN  [tag |-> op.tag,
         result_count |-> IF has_high THEN 2 ELSE 1,
         results |->
            <<Result(TRUE, "LOW",
                     Truncate(product, IF has_high THEN XLEN ELSE result_width)),
              Result(has_high, "HIGH", IF has_high THEN product \div 2^XLEN ELSE 0)>>,
         flags_valid |-> op.update_flags,
         negative |-> SignSet(product, result_width),
         zero |-> Truncate(product, result_width) = 0,
         overflow |-> ~op.widening /\ NarrowOverflows(product, w, op.signed_operation),
         carry |-> FALSE]

-----------------------------------------------------------------------------
(* The clocked process, lines 271-318.                                     *)

Init ==
    /\ operand_stage = None
    /\ partial_product_stage = None
    /\ reduction_stage = None
    /\ result_stage = None
    /\ edge = ResetEdge

Reset ==
    /\ operand_stage' = None
    /\ partial_product_stage' = None
    /\ reduction_stage' = None
    /\ result_stage' = None
    /\ edge' = ResetEdge

\* What a stage hands on: nothing when it is empty or its tag is squashed.
Handed(stage, sq, Calculated(_)) ==
    IF stage = None THEN None
    ELSE IF stage.op.tag = sq THEN None
    ELSE Calculated(stage)

Kept(stage) == stage

\* Every stage moves on; the request's own squash drops it.
Advance(req, sq, rdy) ==
    /\ pipeline_advances(rdy)
    /\ edge' = ClockEdge(req, sq, rdy)
    /\ result_stage' = Handed(reduction_stage, sq, CalculatedResponse)
    /\ reduction_stage' = Handed(partial_product_stage, sq, CalculatedReduction)
    /\ partial_product_stage' = Handed(operand_stage, sq, CalculatedPartialProducts)
    /\ operand_stage' = IF req = None THEN None
                        ELSE IF req.tag = sq THEN None
                        ELSE PreparedOperands(req)

\* Defect: a squash is not seen while the response blocks the pipeline.
StallUnsquashed(sq, rdy) ==
    /\ ~pipeline_advances(rdy)
    /\ edge' = ClockEdge(None, sq, rdy)
    /\ UNCHANGED stages

\* The response blocks every stage, but a squash still empties the stages that
\* have not been published.
Stall(sq, rdy) ==
    /\ ~pipeline_advances(rdy)
    /\ edge' = ClockEdge(None, sq, rdy)
    /\ operand_stage' = Handed(operand_stage, sq, Kept)
    /\ partial_product_stage' = Handed(partial_product_stage, sq, Kept)
    /\ reduction_stage' = Handed(reduction_stage, sq, Kept)
    /\ UNCHANGED result_stage

Clock(sq, rdy) ==
    \/ \E req \in Request \cup {None} : Advance(req, sq, rdy)
    \/ Stall(sq, rdy)

Next == Reset \/ \E sq \in Tag \cup {None}, rdy \in BOOLEAN : Clock(sq, rdy)

Spec == Init /\ [][Next]_vars

\* The clock runs and the consumer is eventually ready.
FairSpec ==
    /\ Spec
    /\ WF_vars(\E req \in Request \cup {None}, sq \in Tag \cup {None} :
                    Advance(req, sq, TRUE))

-----------------------------------------------------------------------------
(* Correctness.                                                            *)

Model == INSTANCE ArithmeticModel

\* Every stage keeps its declared widths: no partial product, cross sum, correction or
\* narrowed result carries a bit out of its field.
TypeOK ==
    /\ operand_stage # None => operand_stage \in OperandStage
    /\ partial_product_stage # None => partial_product_stage \in PartialProductStage
    /\ reduction_stage # None => reduction_stage \in ReductionStage
    /\ result_stage # None => result_stage \in MultiplyResponse
    /\ edge \in EdgeRecord(Request)

\* What the consumer of a response sees.
Visible(rsp) ==
    [tag |-> rsp.tag, results |-> VisibleResults(rsp), flags |-> VisibleFlags(rsp)]

\* The response the executable model prescribes for request r.
Architectural(r) ==
    LET m == Model!Multiply(r.source_left, r.source_right, Width[r.operand_size],
                            r.signed_operation,
                            IF r.widening THEN "WIDENING" ELSE "NARROW", r.update_flags)
    IN  [tag |-> r.tag,
         results |-> Written("LOW", m.low) \o Written("HIGH", m.high),
         flags |-> m.flags]

\* The request a stage holds, as a queue of none or one.
Held(stage) == IF stage = None THEN <<>> ELSE <<stage.op>>

\* The multiplier is a tagged execution unit of capacity three whose outcome is
\* the executable model: responses in request order, exact-tag squash at every
\* unpublished stage whether the pipeline moves or stalls, irrevocable responses.
\* A request is recognised by its prepared operands.
Unit == INSTANCE ExecutionUnit WITH
    Outcome <- Architectural,
    Capacity <- 3,
    inflight <- Held(reduction_stage) \o Held(partial_product_stage)
                    \o Held(operand_stage),
    response <- IF response_valid THEN Visible(result_stage) ELSE None,
    edge <- [edge EXCEPT !.request = IF @ = None THEN None ELSE PreparedOperands(@).op],
    Request <- MultiplyRequest

ImplementsUnit == Unit!Spec

\* The full product the reduction stage stands for is the product of its
\* prepared operands, as register integers when they fill a register: the carry
\* of the cross sum and both high-half corrections are accounted for.
ReductionKeepsTheProduct ==
    reduction_stage # None =>
        LET op == reduction_stage.op
            signed == op.signed_operation /\ Width[op.operand_size] = XLEN
        IN  CalculatedFullProduct(reduction_stage) =
              (AsOperand(op.source_left, XLEN, signed)
                 * AsOperand(op.source_right, XLEN, signed)) % 2^(2 * XLEN)

InFlight(t) == \E s \in {operand_stage, partial_product_stage, reduction_stage} :
    s # None /\ s.op.tag = t

\* An operation in flight is answered unless its own tag is squashed or the
\* multiplier is reset.
UnsquashedIsAnswered ==
    \A t \in Tag :
        InFlight(t) ~> \/ response_valid /\ result_stage.tag = t
                       \/ edge.squash = t
                       \/ edge.reset
=============================================================================
