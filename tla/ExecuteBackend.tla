--------------------------- MODULE ExecuteBackend ---------------------------
(***************************************************************************)
(* rtl/core/execute/common/m64k_execute_backend_pkg.sv: the tags, result   *)
(* roles and result records the execution units share, and the sampling of *)
(* their ports at a clock edge.                                            *)
(***************************************************************************)
EXTENDS Bits, Sequences

CONSTANTS
    Tag,      \* execution tags: context, ROB slot, generation, sequence, uop
    ZeroTag,  \* the tag whose bits are all zero
    None,     \* absence of a request, a squash, a response or a flag set
    XLEN      \* bits of a register; 64 in the code

ASSUME TagAssumption == ZeroTag \in Tag /\ None \notin Tag
\* Absence is no register value.
ASSUME NoneAssumption == None \notin Word(XLEN)
\* What the provers need of the powers of two, which define a register's size.
ASSUME LengthAssumption == XLEN \in Nat /\ \A n \in 0 .. XLEN : 2^(n + 1) = 2 * 2^n

Role == {"LOW", "HIGH", "QUOTIENT", "REMAINDER"}

Result(valid, role, value) == [valid |-> valid, role |-> role, value |-> value]

ResultRecord == [valid : BOOLEAN, role : Role, value : Word(XLEN)]

\* What a clock edge samples: the request that completed its handshake, the
\* squash, and the consumer's ready.
EdgeRecord(Request) ==
    [reset : BOOLEAN, request : Request \cup {None},
     squash : Tag \cup {None}, response_ready : BOOLEAN]

ResetEdge ==
    [reset |-> TRUE, request |-> None, squash |-> None, response_ready |-> FALSE]

ClockEdge(req, sq, rdy) ==
    [reset |-> FALSE, request |-> req, squash |-> sq, response_ready |-> rdy]

-----------------------------------------------------------------------------
(* What the consumer of a response sees.                                   *)

VisibleResults(rsp) ==
    [i \in 1 .. rsp.result_count |->
        [role |-> rsp.results[i].role, value |-> rsp.results[i].value]]

VisibleFlags(rsp) ==
    IF rsp.flags_valid
    THEN [negative |-> rsp.negative, zero |-> rsp.zero,
          overflow |-> rsp.overflow, carry |-> rsp.carry]
    ELSE None

\* The result list a model value contributes.
Written(role, value) ==
    IF value = None THEN <<>> ELSE <<[role |-> role, value |-> value]>>

\* result_count and the valid bits say the same.
Packed(rsp) == \A i \in 1 .. 2 : rsp.results[i].valid <=> i <= rsp.result_count
=============================================================================
