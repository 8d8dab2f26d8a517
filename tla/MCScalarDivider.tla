--------------------------- MODULE MCScalarDivider --------------------------
(***************************************************************************)
(* Instances of ScalarDivider for TLC: a 4-bit machine with a 2-bit and a  *)
(* 4-bit operand size, the two relations a size has to the register (half  *)
(* of it and all of it).                                                   *)
(***************************************************************************)
EXTENDS ScalarDivider

MCWidth == [s \in OperandSize |-> IF s = "LONG" THEN 2 ELSE 4]

\* Every request of every size, form and operand value.  The high dividend register is
\* ignored by a same-width division: two values of it suffice.
EveryRequest ==
    {r \in [tag : {ZeroTag}, operand_size : OperandSize, result_form : Form,
            signed_operation : BOOLEAN, double_width_dividend : BOOLEAN,
            update_flags : BOOLEAN, dividend_low : Word(4),
            dividend_high : Word(4), divisor : Word(4)] :
        IF r.double_width_dividend THEN r.result_form = "QUOTIENT_REMAINDER"
                                   ELSE r.dividend_high \in {0, 15}}

\* A few requests of each length, outcome and fault for interleavings.
Quad(t, high, low, divisor, double) ==
    [tag |-> t, operand_size |-> "QUAD",
     result_form |-> IF double THEN "QUOTIENT_REMAINDER" ELSE "REMAINDER",
     signed_operation |-> TRUE, double_width_dividend |-> double,
     update_flags |-> ~double, dividend_low |-> low, dividend_high |-> high,
     divisor |-> divisor]

FewRequests ==
    UNION {{Quad(t, 0, 9, 14, FALSE),      \* -7 rem -2, two iterations
            Quad(t, 15, 2, 13, TRUE),      \* -14 / -3, four iterations
            Quad(t, 7, 1, 2, TRUE),        \* overflow
            Quad(t, 1, 1, 0, TRUE)} : t \in Tag \ {ZeroTag}}

AllRequests == EveryRequest \cup FewRequests

Few == INSTANCE ScalarDivider WITH Request <- FewRequests

HasZeroTag(r) == r # None /\ r.tag = ZeroTag

\* A divider just reset takes any request.  One with the zero tag has it to itself, its
\* consumer waiting, and then the divider is reset again; the others interleave.
MCNext ==
    IF HasZeroTag(request) THEN IF request_ready THEN Reset ELSE Clock(None, TRUE)
    ELSE \/ Few!Next
         \/ edge.reset /\ \E r \in EveryRequest : Accept(r, None, TRUE)

\* Only a step of Few!Next leaves the divider ready for a request with the zero tag, so
\* the clock that runs is Few's.
MCSpec == Init /\ [][MCNext]_vars /\ Few!Fairness
=============================================================================
