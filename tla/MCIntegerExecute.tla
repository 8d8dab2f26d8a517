-------------------------- MODULE MCIntegerExecute --------------------------
(***************************************************************************)
(* An instance of IntegerExecute for TLC: a 4-bit machine with a 2-bit and *)
(* a 4-bit operand size.  The first request takes every value; the ones    *)
(* that follow it, replacing or waiting for its response, are few.         *)
(***************************************************************************)
EXTENDS IntegerExecute, Bitwise

MCWidth == [s \in OperandSize |-> IF s = "LONG" THEN 2 ELSE 4]
MCAnd(a, b) == a & b
MCOr(a, b) == a | b
MCXor(a, b) == a ^^ b

FewRequests ==
    [tag : Tag, source_left : {7}, source_right : {9}, operand_size : {"QUAD"},
     operation : {"SBCX", "RESERVED"}, extend_in : {1}, update_flags : {FALSE}]

AllRequests ==
    FewRequests \cup
    [tag : {ZeroTag}, source_left : Word(4), source_right : Word(4),
     operand_size : OperandSize, operation : Operation, extend_in : {0, 1},
     update_flags : BOOLEAN]

Presented ==
    IF edge.reset /\ response_register = None THEN Request ELSE FewRequests \cup {None}

MCNext ==
    \/ Reset
    \/ \E sq \in Tag \cup {None}, rdy \in BOOLEAN :
         \E req \in Presented : Clock(req, sq, rdy)

MCSpec == Init /\ [][MCNext]_vars
=============================================================================
