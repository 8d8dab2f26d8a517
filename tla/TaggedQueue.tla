----------------------------- MODULE TaggedQueue ----------------------------
(***************************************************************************)
(* Queues of operations that carry a tag, and the squash of a tag: what    *)
(* the exact comparisons of the units of rtl/core/execute leave of the     *)
(* operations they hold.                                                   *)
(***************************************************************************)
EXTENDS Naturals, Sequences

\* The operations of a queue whose tag is not the squashed one, in their order.
Surviving(queue, squash) ==
    LET surviving[n \in 0 .. Len(queue)] ==
            IF n = 0 THEN <<>>
            ELSE IF queue[n].tag = squash THEN surviving[n - 1]
            ELSE Append(surviving[n - 1], queue[n])
    IN  surviving[Len(queue)]
=============================================================================
