----------------------- MODULE MCRotateExtendIterative ----------------------
(***************************************************************************)
(* Instances of RotateExtendIterative for TLC: a 16-bit machine with sizes *)
(* of 2, 4, 8 and 16 bits, where the count is reduced by the same number   *)
(* of conditional subtractions as for 8, 16, 32 and 64 bits.               *)
(***************************************************************************)
EXTENDS RotateExtendIterative

MCWidth == [s \in OperandSize |->
    CASE s = "BYTE" -> 2 [] s = "WORD" -> 4 [] s = "LONG" -> 8 [] s = "QUAD" -> 16]

\* A rotation moves bits and never combines them: under set upper bits, every
\* operand of the smaller sizes, and of the others single bits, none and all.
Sources(s) ==
    LET w == MCWidth[s]
        operands == IF w <= 4 THEN Word(w) ELSE {2^i : i \in 0 .. w - 1} \cup {0, 2^w - 1}
    IN  {2^16 - 2^w + v : v \in operands}

EveryRequest ==
    UNION {[tag : {ZeroTag}, source : Sources(s), count : Word(4), extend_in : {0, 1},
            operand_size : {s}, direction : Direction, update_flags : {TRUE}] :
              s \in OperandSize}

\* A few requests for interleavings: rotations of a 4-bit operand by 3 and by 15.
FewRequests ==
    {r \in [tag : Tag \ {ZeroTag}, source : {6}, count : {3, 15}, extend_in : {1},
            operand_size : {"WORD"}, direction : Direction, update_flags : {TRUE}] :
        (r.count = 3) = (r.direction = "RIGHT")}

AllRequests == EveryRequest \cup FewRequests

Few == INSTANCE RotateExtendIterative WITH Request <- FewRequests

HasZeroTag(r) == r # None /\ r.tag = ZeroTag

\* A unit just reset takes any request.  One with the zero tag has it to itself, and
\* then the unit is reset again; with the others everything interleaves.
MCNext ==
    IF request = None /\ edge.reset THEN Next
    ELSE IF HasZeroTag(request) \/ HasZeroTag(edge.request)
         THEN IF request_ready THEN Reset ELSE Next
    ELSE Few!Next

MCSpec == Init /\ [][MCNext]_vars /\ Fairness
=============================================================================
