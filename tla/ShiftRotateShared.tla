-------------------------- MODULE ShiftRotateShared -------------------------
(***************************************************************************)
(* rtl/core/execute/shift/m64k_shift_rotate_shared.sv: every scalar shift  *)
(* and rotate on one ShiftRotateFast network.  An ordinary operation       *)
(* answers at the edge that accepts it, even while the previous response   *)
(* is being consumed; a rotate through extend (ROX) uses the network for   *)
(* two complementary shifts and answers one edge later.                    *)
(*                                                                         *)
(* request and edge are history variables: no action reads them.           *)
(***************************************************************************)
EXTENDS ExecuteBackend

CONSTANTS
    OperandSize,  \* names of the operand sizes
    Width,        \* their widths; 8, 16, 32 and 64 in the code
    Stages,       \* stages of the network and bits of a count; 6 in the code
    Request       \* the requests the dispatcher may present

Operation == {"ASL", "ASR", "LSL", "LSR", "ROL", "ROR", "ROXL", "ROXR"}

ShiftRequest ==
    [tag : Tag, source : Word(XLEN), count : Word(Stages), operand_size : OperandSize,
     operation : Operation, extend_in : {0, 1}, update_flags : BOOLEAN]

ShiftResponse ==
    [tag : Tag, result : Word(XLEN), flags_valid : BOOLEAN, negative : BOOLEAN,
     zero : BOOLEAN, overflow : BOOLEAN, carry : BOOLEAN, extend_valid : BOOLEAN,
     extend_out : BOOLEAN]

\* What the second pass of a rotate through extend knows of the first.
RoxState ==
    [first_partial : Word(XLEN), effective_count : Word(Stages),
     operand_size : OperandSize, right : BOOLEAN, extend_in : BOOLEAN,
     first_extend_out : BOOLEAN, update_flags : BOOLEAN]

\* A count indexes a register, eight rings of any size cover every count, and copies of
\* an operand fill a register.
ASSUME WidthAssumption ==
    /\ Stages \in Nat \ {0} /\ XLEN = 2^Stages
    /\ Width \in [OperandSize -> Nat \ {0}]
    /\ \A s \in OperandSize :
          Width[s] <= XLEN /\ 8 * (Width[s] + 1) > XLEN /\ XLEN % Width[s] = 0
\* What the provers need of the powers of two, which define the registers' sizes.
ASSUME PowerAssumption == \A n \in 0 .. XLEN + Stages : 2^(n + 1) = 2 * 2^n
ASSUME RequestAssumption == Request \subseteq ShiftRequest /\ None \notin Request

VARIABLES
    state,           \* IDLE, ROX_SECOND or RESPONSE
    response_state,  \* the response register; None until first written
    rox,             \* the rox_ registers; None until first written
    request,         \* history: the last accepted request
    edge             \* history: what the last edge sampled

vars == <<state, response_state, rox, request, edge>>

Datapath == INSTANCE ShiftRotateFast

response_valid == state = "RESPONSE"

RotatesExtend(op) == op \in {"ROXL", "ROXR"}

\* An idle unit is ready, and one whose response is being consumed.
Vacant(rdy) == state = "IDLE" \/ (response_valid /\ rdy)

\* Lines 221-222.
RequestReady(op, rdy) == Vacant(rdy) /\ (RotatesExtend(op) \/ Datapath!Supported(op))

-----------------------------------------------------------------------------
(* The two passes of a rotate through extend.                              *)

Reduced(c, m) == IF c >= m THEN c - m ELSE c

\* reduce_rox_count, lines 71-110: the count modulo the ring, by subtracting
\* multiples of the ring.  Where the code omits a step, no count reaches it.
ReducedCount(count, w) ==
    Reduced(Reduced(Reduced(count, 4 * (w + 1)), 2 * (w + 1)), w + 1)

\* A rotation by one, lines 148-181: the operand with the extend bit shifted in,
\* and the bit shifted out.
RotatedByOne(r, w) ==
    LET operand == Truncate(r.source, w)
    IN  IF r.operation = "ROXR"
        THEN [value |-> operand \div 2 + r.extend_in * 2^(w - 1), out |-> Bit(operand, 0) = 1]
        ELSE [value |-> Truncate(2 * operand, w) + r.extend_in, out |-> SignSet(operand, w)]

\* The first pass rotates by one and shifts by the rest, lines 195-200.
FirstPass(r) ==
    LET w == Width[r.operand_size]
        n == ReducedCount(r.count, w)
        op == IF r.operation = "ROXR" THEN "LSR" ELSE "LSL"
    IN  IF n = 0 THEN Datapath!FastShift(op, Truncate(r.source, w), 0, w)
                 ELSE Datapath!FastShift(op, RotatedByOne(r, w).value, n - 1, w)

\* Defect: the register keeps the count of the first pass.
FirstPartialShortCount(r) ==
    LET w == Width[r.operand_size]
        n == ReducedCount(r.count, w)
    IN  [first_partial |-> FirstPass(r).result, effective_count |-> n - 1,
         operand_size |-> r.operand_size, right |-> r.operation = "ROXR",
         extend_in |-> r.extend_in = 1,
         first_extend_out |-> IF n = 1 THEN RotatedByOne(r, w).out ELSE FirstPass(r).carry,
         update_flags |-> r.update_flags]

\* What the accepting edge leaves in the rox_ registers, lines 245-253.
FirstPartial(r) ==
    LET w == Width[r.operand_size]
        n == ReducedCount(r.count, w)
    IN  [first_partial |-> FirstPass(r).result, effective_count |-> n,
         operand_size |-> r.operand_size, right |-> r.operation = "ROXR",
         extend_in |-> r.extend_in = 1,
         first_extend_out |-> IF n = 1 THEN RotatedByOne(r, w).out ELSE FirstPass(r).carry,
         update_flags |-> r.update_flags]

\* Defect: the complement is of the operand and not of the ring.
OperandComplementCount == Width[rox.operand_size] - rox.effective_count

ComplementCount == Width[rox.operand_size] + 1 - rox.effective_count

\* The second pass shifts the operand the other way by the rest of the ring, lines
\* 189-194; a shift by all of a register is beyond the network.
SecondPartial ==
    IF ComplementCount = XLEN THEN 0
    ELSE Datapath!FastShift(IF rox.right THEN "LSL" ELSE "LSR", response_state.result,
                            Truncate(ComplementCount, Stages),
                            Width[rox.operand_size]).result

\* Lines 225-229.
RoxResult ==
    IF rox.effective_count = 0 THEN response_state.result
                               ELSE BitwiseOr(rox.first_partial, SecondPartial, XLEN)

RoxExtend == IF rox.effective_count = 0 THEN rox.extend_in ELSE rox.first_extend_out

-----------------------------------------------------------------------------
\* Lines 242-265.
OrdinaryResponse(r) ==
    LET d == Datapath!FastShift(r.operation, r.source, r.count, Width[r.operand_size])
    IN  [tag |-> r.tag, result |-> d.result, flags_valid |-> r.update_flags,
         negative |-> d.negative, zero |-> d.zero, overflow |-> d.overflow,
         carry |-> d.carry, extend_valid |-> FALSE, extend_out |-> r.extend_in = 1]

\* The response register between the passes keeps the tag and the operand.
PendingResponse(r) ==
    [tag |-> r.tag, result |-> Truncate(r.source, Width[r.operand_size]),
     flags_valid |-> FALSE, negative |-> FALSE, zero |-> FALSE, overflow |-> FALSE,
     carry |-> FALSE, extend_valid |-> FALSE, extend_out |-> FALSE]

\* Lines 274-281.
RoxResponse ==
    [tag |-> response_state.tag, result |-> RoxResult, flags_valid |-> rox.update_flags,
     negative |-> SignSet(RoxResult, Width[rox.operand_size]), zero |-> RoxResult = 0,
     overflow |-> FALSE, carry |-> RoxExtend, extend_valid |-> TRUE,
     extend_out |-> RoxExtend]

Init ==
    /\ state = "IDLE"
    /\ response_state = None
    /\ rox = None
    /\ request = None
    /\ edge = ResetEdge

\* Only the state is reset: the other registers keep what they held.
Reset ==
    /\ state' = "IDLE"
    /\ request' = None
    /\ edge' = ResetEdge
    /\ UNCHANGED <<response_state, rox>>

AcceptOrdinary(r, sq, rdy) ==
    /\ RequestReady(r.operation, rdy)
    /\ ~RotatesExtend(r.operation)
    /\ sq # r.tag
    /\ edge' = ClockEdge(r, sq, rdy)
    /\ request' = r
    /\ response_state' = OrdinaryResponse(r)
    /\ state' = "RESPONSE"
    /\ UNCHANGED rox

AcceptRox(r, sq, rdy) ==
    /\ RequestReady(r.operation, rdy)
    /\ RotatesExtend(r.operation)
    /\ sq # r.tag
    /\ edge' = ClockEdge(r, sq, rdy)
    /\ request' = r
    /\ response_state' = PendingResponse(r)
    /\ rox' = FirstPartial(r)
    /\ state' = "ROX_SECOND"

\* Nothing is presented to the vacant unit, or its request is squashed; a response
\* that was waiting is consumed.
AcceptNothing(req, sq, rdy) ==
    /\ Vacant(rdy)
    /\ req # None => RequestReady(req.operation, rdy) /\ req.tag = sq
    /\ edge' = ClockEdge(req, sq, rdy)
    /\ state' = "IDLE"
    /\ UNCHANGED <<response_state, rox, request>>

\* A squash no longer matters: the response waits for its consumer.
Hold(sq, rdy) ==
    /\ response_valid
    /\ ~rdy
    /\ edge' = ClockEdge(None, sq, rdy)
    /\ UNCHANGED <<state, response_state, rox, request>>

\* Defect: any squash cancels the operation between the passes.
CancelAny(sq, rdy) ==
    /\ state = "ROX_SECOND"
    /\ sq # None
    /\ edge' = ClockEdge(None, sq, rdy)
    /\ state' = "IDLE"
    /\ UNCHANGED <<response_state, rox, request>>

\* A squash with the operation's tag cancels it between the passes.
Cancel(sq, rdy) ==
    /\ state = "ROX_SECOND"
    /\ sq = response_state.tag
    /\ edge' = ClockEdge(None, sq, rdy)
    /\ state' = "IDLE"
    /\ UNCHANGED <<response_state, rox, request>>

\* Defect: the second pass answers whatever is squashed.
SecondPassSquashed(sq, rdy) ==
    /\ state = "ROX_SECOND"
    /\ edge' = ClockEdge(None, sq, rdy)
    /\ response_state' = RoxResponse
    /\ state' = "RESPONSE"
    /\ UNCHANGED <<rox, request>>

SecondPass(sq, rdy) ==
    /\ state = "ROX_SECOND"
    /\ sq # response_state.tag
    /\ edge' = ClockEdge(None, sq, rdy)
    /\ response_state' = RoxResponse
    /\ state' = "RESPONSE"
    /\ UNCHANGED <<rox, request>>

Clock(sq, rdy) ==
    \/ /\ Vacant(rdy)
       /\ \/ \E r \in Request : AcceptOrdinary(r, sq, rdy) \/ AcceptRox(r, sq, rdy)
          \/ \E req \in Request \cup {None} : AcceptNothing(req, sq, rdy)
    \/ Hold(sq, rdy)
    \/ Cancel(sq, rdy)
    \/ SecondPass(sq, rdy)

Next == Reset \/ \E sq \in Tag \cup {None}, rdy \in BOOLEAN : Clock(sq, rdy)

Spec == Init /\ [][Next]_vars

-----------------------------------------------------------------------------
(* Correctness.                                                            *)

Model == INSTANCE ShiftModel

\* The registers keep their declared widths: neither pass leaves a bit or a count
\* outside its field.
TypeOK ==
    /\ state \in {"IDLE", "ROX_SECOND", "RESPONSE"}
    /\ response_state \in ShiftResponse \cup {None}
    /\ rox \in RoxState \cup {None}
    /\ request \in Request \cup {None}
    /\ edge \in EdgeRecord(Request)

\* What the consumer of a response sees.
Visible(rsp) ==
    [tag |-> rsp.tag, value |-> rsp.result, flags |-> VisibleFlags(rsp),
     extend |-> IF rsp.extend_valid THEN rsp.extend_out ELSE None]

\* The response the executable model prescribes for request r.
Architectural(r) ==
    LET m == Model!ShiftRotate(r.operation, r.source, r.count, Width[r.operand_size],
                               r.extend_in, r.update_flags)
    IN  [tag |-> r.tag, value |-> m.value, flags |-> m.flags, extend |-> m.extend]

\* Between the passes the registers belong to one operation, and the two shifts
\* never produce a bit both: their or is a rotation, with every bit in one place.
PassesAreComplementary ==
    state = "ROX_SECOND" =>
        /\ response_state = PendingResponse(request)
        /\ rox.effective_count = request.count % (Width[request.operand_size] + 1)
        /\ rox.effective_count # 0 => RoxResult = rox.first_partial + SecondPartial

Reference == INSTANCE ShiftRotateReference

\* One network, shared and used twice, answers with every output of the circuit that
\* has a barrel for each family, though they find counts, carries, overflows and
\* rings in different ways: what m64k_shift_rotate_fast_miter.sv asserts of the
\* network, extended to the two passes.
MatchesReference ==
    response_valid =>
        LET r == request
            reference == Reference!ShiftRotate(r.operation, r.source, r.count,
                             Width[r.operand_size], r.extend_in, r.update_flags)
        IN  \A output \in DOMAIN reference : response_state[output] = reference[output]

\* The unit is a tagged execution unit of capacity one whose outcome is the
\* executable model; results, flags and extend appear together.
Unit == INSTANCE ExecutionUnit WITH
    Outcome <- Architectural,
    Capacity <- 1,
    inflight <- IF state = "ROX_SECOND" THEN <<request>> ELSE <<>>,
    response <- IF response_valid THEN Visible(response_state) ELSE None

ImplementsUnit == Unit!Spec

\* An accepted ordinary operation is answered at once and a rotate through extend at
\* the next edge, unless that edge squashes its tag or resets; what was accepted or
\* published before makes no difference.
LatencyIsFixed ==
    [][LET r == edge.request
       IN  (r # None /\ r.tag # edge.squash) =>
            IF ~RotatesExtend(r.operation)
            THEN response_valid /\ response_state.tag = r.tag
            ELSE /\ ~response_valid
                 /\ \/ edge'.reset
                    \/ edge'.squash = r.tag
                    \/ response_valid' /\ response_state'.tag = r.tag]_vars

\* "accepts_ordinary && response_ready |=> request_ready" of
\* verification/rtl/m64k_shift_rotate_shared_checker.sv: the edge after one that
\* accepts an ordinary operation with response_ready high finds the unit ready.
OrdinaryStreamRemainsReady ==
    [][LET r == edge.request
       IN  (/\ r # None /\ r.tag # edge.squash /\ ~RotatesExtend(r.operation)
            /\ edge.response_ready /\ ~edge'.reset)
           => Vacant(edge'.response_ready)]_vars
=============================================================================
