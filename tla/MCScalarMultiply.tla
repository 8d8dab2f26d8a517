-------------------------- MODULE MCScalarMultiply --------------------------
(***************************************************************************)
(* Instances of ScalarMultiply for TLC.  The arithmetic instance is an     *)
(* 8-bit machine whose sizes are a quarter, a half and all of a register.  *)
(***************************************************************************)
EXTENDS ScalarMultiply

MCWidth == [s \in OperandSize |->
    CASE s = "WORD" -> XLEN \div 4 [] s = "LONG" -> XLEN \div 2 [] s = "QUAD" -> XLEN]

\* The source registers of a w-bit operation: every value of the operand, under
\* clear and under set upper bits.
Sources(w) == {v + 2^w * upper : v \in Word(w), upper \in {0, 2^(XLEN - w) - 1}}

AllRequests ==
    UNION {[tag : {ZeroTag}, source_left : Sources(MCWidth[s]),
            source_right : Sources(MCWidth[s]), operand_size : {s},
            signed_operation : BOOLEAN, widening : BOOLEAN, update_flags : {TRUE}] :
              s \in OperandSize}

\* A multiplier just reset takes one request to its end and is reset again.
OneRequestNext ==
    IF edge.reset THEN \E r \in Request : Advance(r, None, TRUE)
    ELSE IF stages = <<None, None, None, None>> THEN Reset
    ELSE Advance(None, None, TRUE)

OneRequestSpec == Init /\ [][OneRequestNext]_vars

\* One widening and one narrow overflowing request of each tag.
FewRequests ==
    UNION {{[tag |-> t, source_left |-> 14, source_right |-> 9,
             operand_size |-> "QUAD", signed_operation |-> TRUE,
             widening |-> TRUE, update_flags |-> FALSE],
            [tag |-> t, source_left |-> 11, source_right |-> 6,
             operand_size |-> "LONG", signed_operation |-> TRUE,
             widening |-> FALSE, update_flags |-> TRUE]} : t \in Tag}
=============================================================================
