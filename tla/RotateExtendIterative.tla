------------------------ MODULE RotateExtendIterative -----------------------
(***************************************************************************)
(* rtl/core/execute/shift/m64k_rotate_extend_iterative.sv: rotate through  *)
(* extend in one conditional power-of-two rotation per clock edge.  A      *)
(* right rotation is a left rotation of the reversed ring.  request and    *)
(* edge are history variables: no action reads them.                       *)
(***************************************************************************)
EXTENDS ExecuteBackend

CONSTANTS
    OperandSize,  \* names of the operand sizes
    Width,        \* their widths; 8, 16, 32 and 64 in the code
    Stages,       \* rotation stages, which is also the bits of a count; 6 in the code
    Request       \* the requests the dispatcher may present

Direction == {"LEFT", "RIGHT"}

RotateRequest ==
    [tag : Tag, source : Word(XLEN), count : Word(Stages), extend_in : {0, 1},
     operand_size : OperandSize, direction : Direction, update_flags : BOOLEAN]

RotateExtendResponse ==
    [tag : Tag, result : Word(XLEN), flags_valid : BOOLEAN, negative : BOOLEAN,
     zero : BOOLEAN, overflow : BOOLEAN, carry : BOOLEAN, extend_valid : BOOLEAN,
     extend : BOOLEAN]

\* A count indexes a register, and eight rings of any size cover every count.
ASSUME WidthAssumption ==
    /\ Stages \in Nat \ {0} /\ XLEN \in Nat /\ XLEN = 2^Stages
    /\ OperandSize # {}
    /\ Width \in [OperandSize -> Nat \ {0}]
    /\ \A s \in OperandSize : Width[s] <= XLEN /\ 8 * (Width[s] + 1) > XLEN
\* What the provers need of the powers of two, which define the registers' sizes.
ASSUME PowerAssumption == \A n \in 0 .. XLEN + Stages : 2^(n + 1) = 2 * 2^n
ASSUME RequestAssumption == Request \subseteq RotateRequest /\ None \notin Request

VARIABLES
    state,            \* IDLE, ITERATE or RESPONSE
    operation,        \* operation_tag, _size, _direction, _update_flags
    effective_count,
    stage_index,
    ring_state,
    response,         \* the response register
    request,          \* history: the last accepted request
    edge              \* history: what the last edge sampled

vars == <<state, operation, effective_count, stage_index, ring_state, response,
          request, edge>>

request_ready == state = "IDLE"
response_valid == state = "RESPONSE"

-----------------------------------------------------------------------------
\* c less m if it fits.
Reduced(c, m) == IF c >= m THEN c - m ELSE c

\* Defect: the last conditional subtraction is missing.
PartlyReducedCount(count, w) == Reduced(Reduced(count, 4 * (w + 1)), 2 * (w + 1))

\* reduce_rotate_count, lines 46-86: the count modulo the ring, by subtracting
\* multiples of the ring.  Where the code omits a step, no count reaches it.
ReducedCount(count, w) ==
    Reduced(Reduced(Reduced(count, 4 * (w + 1)), 2 * (w + 1)), w + 1)

\* make_ring, lines 88-99: the extend bit below the operand.
Ring(r) == Truncate(r.source, Width[r.operand_size]) * 2 + r.extend_in

\* reverse_ring, lines 161-193, for right rotations.
Oriented(ring, direction, w) ==
    IF direction = "RIGHT" THEN Reversed(ring, w + 1) ELSE ring

\* rotate_left_stage, lines 101-159, when the count has this stage's bit; a
\* stage wider than the operand does nothing.
RotatedRing ==
    LET w == Width[operation.operand_size]
    IN  IF Bit(effective_count, stage_index) = 1 /\ 2^stage_index <= w
        THEN RotatedLeft(ring_state, 2^stage_index, w + 1)
        ELSE ring_state

\* Lines 247-276.
RotateResponse(tag, ring, w, update_flags) ==
    [tag |-> tag, result |-> ring \div 2, flags_valid |-> update_flags,
     negative |-> Bit(ring, w) = 1, zero |-> ring \div 2 = 0, overflow |-> FALSE,
     carry |-> Bit(ring, 0) = 1, extend_valid |-> TRUE, extend |-> Bit(ring, 0) = 1]

-----------------------------------------------------------------------------
\* Every register cleared, lines 213-221; the zero size is the first one.
ZeroSize == CHOOSE s \in OperandSize : \A z \in OperandSize : Width[s] <= Width[z]

ClearedOperation ==
    [tag |-> ZeroTag, operand_size |-> ZeroSize, direction |-> "LEFT",
     update_flags |-> FALSE]

ClearedResponse ==
    [tag |-> ZeroTag, result |-> 0, flags_valid |-> FALSE, negative |-> FALSE,
     zero |-> FALSE, overflow |-> FALSE, carry |-> FALSE, extend_valid |-> FALSE,
     extend |-> FALSE]

Init ==
    /\ state = "IDLE"
    /\ operation = ClearedOperation
    /\ effective_count = 0
    /\ stage_index = 0
    /\ ring_state = 0
    /\ response = ClearedResponse
    /\ request = None
    /\ edge = ResetEdge

Reset ==
    /\ state' = "IDLE"
    /\ operation' = ClearedOperation
    /\ effective_count' = 0
    /\ stage_index' = 0
    /\ ring_state' = 0
    /\ response' = ClearedResponse
    /\ request' = None
    /\ edge' = ResetEdge

Accept(r, sq, rdy) ==
    LET w == Width[r.operand_size]
    IN  /\ sq # r.tag
        /\ edge' = ClockEdge(r, sq, rdy)
        /\ request' = r
        /\ operation' = [tag |-> r.tag, operand_size |-> r.operand_size,
                         direction |-> r.direction, update_flags |-> r.update_flags]
        /\ effective_count' = ReducedCount(r.count, w)
        /\ stage_index' = 0
        /\ ring_state' = Oriented(Ring(r), r.direction, w)
        /\ state' = "ITERATE"
        /\ UNCHANGED response

\* Nothing is presented to the idle unit, or its request is squashed.
AcceptNothing(req, sq, rdy) ==
    /\ req # None => req.tag = sq
    /\ edge' = ClockEdge(req, sq, rdy)
    /\ UNCHANGED <<state, operation, effective_count, stage_index, ring_state,
                   response, request>>

\* A squash with the operation's tag cancels it, at its last stage too.
Cancel(sq, rdy) ==
    /\ state = "ITERATE"
    /\ sq = operation.tag
    /\ edge' = ClockEdge(None, sq, rdy)
    /\ state' = "IDLE"
    /\ UNCHANGED <<operation, effective_count, stage_index, ring_state, response,
                   request>>

\* Defect: the stage counter wraps before the last stage.
IterateWrapping(sq, rdy) ==
    /\ state = "ITERATE"
    /\ sq # operation.tag
    /\ stage_index # Stages - 1
    /\ edge' = ClockEdge(None, sq, rdy)
    /\ ring_state' = RotatedRing
    /\ stage_index' = (stage_index + 1) % (Stages - 1)
    /\ UNCHANGED <<state, operation, effective_count, response, request>>

Iterate(sq, rdy) ==
    /\ state = "ITERATE"
    /\ sq # operation.tag
    /\ stage_index # Stages - 1
    /\ edge' = ClockEdge(None, sq, rdy)
    /\ ring_state' = RotatedRing
    /\ stage_index' = stage_index + 1
    /\ UNCHANGED <<state, operation, effective_count, response, request>>

\* Defect: the last stage steps the counter too.
FinishPastLast(sq, rdy) ==
    LET w == Width[operation.operand_size]
    IN  /\ state = "ITERATE"
        /\ sq # operation.tag
        /\ stage_index = Stages - 1
        /\ edge' = ClockEdge(None, sq, rdy)
        /\ ring_state' = RotatedRing
        /\ stage_index' = stage_index + 1
        /\ response' = RotateResponse(operation.tag,
                            Oriented(RotatedRing, operation.direction, w), w,
                            operation.update_flags)
        /\ state' = "RESPONSE"
        /\ UNCHANGED <<operation, effective_count, request>>

\* Defect: the last stage answers whatever is squashed.
FinishSquashed(sq, rdy) ==
    LET w == Width[operation.operand_size]
    IN  /\ state = "ITERATE"
        /\ stage_index = Stages - 1
        /\ edge' = ClockEdge(None, sq, rdy)
        /\ ring_state' = RotatedRing
        /\ response' = RotateResponse(operation.tag,
                            Oriented(RotatedRing, operation.direction, w), w,
                            operation.update_flags)
        /\ state' = "RESPONSE"
        /\ UNCHANGED <<operation, effective_count, stage_index, request>>

Finish(sq, rdy) ==
    LET w == Width[operation.operand_size]
    IN  /\ state = "ITERATE"
        /\ sq # operation.tag
        /\ stage_index = Stages - 1
        /\ edge' = ClockEdge(None, sq, rdy)
        /\ ring_state' = RotatedRing
        /\ response' = RotateResponse(operation.tag,
                            Oriented(RotatedRing, operation.direction, w), w,
                            operation.update_flags)
        /\ state' = "RESPONSE"
        /\ UNCHANGED <<operation, effective_count, stage_index, request>>

\* A squash no longer matters: the response waits for its consumer.
Respond(sq, rdy) ==
    /\ response_valid
    /\ edge' = ClockEdge(None, sq, rdy)
    /\ state' = IF rdy THEN "IDLE" ELSE state
    /\ UNCHANGED <<operation, effective_count, stage_index, ring_state, response,
                   request>>

Clock(sq, rdy) ==
    \/ /\ request_ready
       /\ \/ \E r \in Request : Accept(r, sq, rdy)
          \/ \E req \in Request \cup {None} : AcceptNothing(req, sq, rdy)
    \/ Cancel(sq, rdy)
    \/ Iterate(sq, rdy)
    \/ Finish(sq, rdy)
    \/ Respond(sq, rdy)

Next == Reset \/ \E sq \in Tag \cup {None}, rdy \in BOOLEAN : Clock(sq, rdy)

Spec == Init /\ [][Next]_vars

\* The clock runs while an operation is in flight, and the consumer is eventually ready.
Fairness ==
    /\ WF_vars(\E sq \in Tag \cup {None}, rdy \in BOOLEAN :
                    Cancel(sq, rdy) \/ Iterate(sq, rdy) \/ Finish(sq, rdy))
    /\ WF_vars(\E sq \in Tag \cup {None} : Respond(sq, TRUE))

-----------------------------------------------------------------------------
(* Correctness.                                                            *)

Model == INSTANCE ShiftModel

\* The registers keep their declared widths: the ring, the reduced count and the stage
\* index never leave their fields.
TypeOK ==
    /\ state \in {"IDLE", "ITERATE", "RESPONSE"}
    /\ operation \in [tag : Tag, operand_size : OperandSize,
                      direction : Direction, update_flags : BOOLEAN]
    /\ effective_count \in Word(Stages)
    /\ stage_index \in 0 .. Stages - 1
    /\ ring_state \in Word(XLEN + 1)
    /\ response \in RotateExtendResponse
    /\ request \in Request \cup {None}
    /\ edge \in EdgeRecord(Request)

\* What the consumer of a response sees.
Visible(rsp) ==
    [tag |-> rsp.tag, value |-> rsp.result, flags |-> VisibleFlags(rsp),
     extend |-> IF rsp.extend_valid THEN rsp.extend ELSE None]

\* The response the executable model prescribes for request r.
Architectural(r) ==
    LET m == Model!ShiftRotate(IF r.direction = "LEFT" THEN "ROXL" ELSE "ROXR",
                               r.source, r.count, Width[r.operand_size],
                               r.extend_in, r.update_flags)
    IN  [tag |-> r.tag, value |-> m.value, flags |-> m.flags, extend |-> m.extend]

\* After the stages below stage_index the ring is rotated by the low bits of the
\* reduced count, whichever its direction, and the reduced count is below the
\* ring width, so no stage the operand is too narrow for is ever wanted.
RingIsPartlyRotated ==
    state = "ITERATE" =>
        LET w == Width[operation.operand_size]
        IN  /\ effective_count = request.count % (w + 1)
            /\ ring_state = RotatedLeft(Oriented(Ring(request), request.direction, w),
                                        effective_count % 2^stage_index, w + 1)

\* The unit is a tagged execution unit of capacity one whose outcome is the
\* executable model, for every size, count and direction.
Unit == INSTANCE ExecutionUnit WITH
    Outcome <- Architectural,
    Capacity <- 1,
    inflight <- IF state = "ITERATE" THEN <<request>> ELSE <<>>,
    response <- IF response_valid THEN Visible(response) ELSE None

ImplementsUnit == Unit!Spec

\* An operation in flight is answered unless its own tag is squashed or the unit
\* is reset.
UnsquashedIsAnswered ==
    \A t \in Tag :
        (state = "ITERATE" /\ operation.tag = t)
            ~> \/ response_valid /\ response.tag = t
               \/ edge.squash = t
               \/ edge.reset
=============================================================================
