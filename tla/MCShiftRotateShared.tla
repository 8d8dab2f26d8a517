------------------------- MODULE MCShiftRotateShared ------------------------
(***************************************************************************)
(* Instances of ShiftRotateShared for TLC: a 16-bit machine with sizes of  *)
(* 2, 4, 8 and 16 bits, which have to the register and to the four-bit     *)
(* count the relations 8, 16, 32 and 64 have to 64 and six bits.           *)
(***************************************************************************)
EXTENDS ShiftRotateShared

MCWidth == [s \in OperandSize |->
    CASE s = "BYTE" -> 2 [] s = "WORD" -> 4 [] s = "LONG" -> 8 [] s = "QUAD" -> 16]

\* Under set upper bits, every operand of the smaller sizes, and of the others
\* single bits, none, all, and every length of sign.
Sources(s) ==
    LET w == MCWidth[s]
        operands == IF w <= 4 THEN Word(w)
                    ELSE {0} \cup {2^i : i \in 0 .. w - 1} \cup {2^w - 2^i : i \in 0 .. w - 1}
    IN  {2^16 - 2^w + v : v \in operands}

\* Only a rotate through extend reads the extend bit.
Requests(s, operations, extends) ==
    [tag : {ZeroTag}, source : Sources(s), count : Word(4), operand_size : {s},
     operation : operations, extend_in : extends, update_flags : {TRUE}]

EveryRequest ==
    UNION ({Requests(s, {op \in Operation : ~RotatesExtend(op)}, {0}) : s \in OperandSize}
           \cup {Requests(s, {"ROXL", "ROXR"}, {0, 1}) : s \in OperandSize})

\* A few requests for interleavings: an ordinary shift, and rotates through extend
\* by none of, one of and most of a 4-bit operand's ring.
FewRequests ==
    {r \in [tag : Tag \ {ZeroTag}, source : {9}, count : {0, 1, 9}, operand_size : {"WORD"},
            operation : {"ASL", "ROXL", "ROXR"}, extend_in : {1}, update_flags : {TRUE}] :
        r.operation = (CASE r.count = 0 -> "ROXL" [] r.count = 1 -> "ASL" [] OTHER -> "ROXR")}

AllRequests == EveryRequest \cup FewRequests

Few == INSTANCE ShiftRotateShared WITH Request <- FewRequests

\* A unit that holds nothing from before takes any request.  One with the zero tag has
\* the unit to itself to its end; with the others everything interleaves.
MCNext ==
    IF response_state = None /\ edge.reset THEN Next
    ELSE IF response_state = None \/ response_state.tag # ZeroTag THEN Few!Next
    ELSE IF response_valid
         THEN \E sq \in Tag \cup {None} : Hold(sq, FALSE) \/ AcceptNothing(None, sq, TRUE)
    ELSE IF state = "IDLE" THEN UNCHANGED vars
    ELSE Next

MCSpec == Init /\ [][MCNext]_vars
=============================================================================
