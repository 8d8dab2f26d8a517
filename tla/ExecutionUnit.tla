---------------------------- MODULE ExecutionUnit ---------------------------
(***************************************************************************)
(* What every tagged execution unit of the backend promises its neighbours,*)
(* one rising clock edge per step.  The unit owns the operations it        *)
(* accepted and has not published (inflight, oldest first) and at most one *)
(* published response.  A squash removes exactly the unpublished           *)
(* operations that carry its tag; a published response is irrevocable      *)
(* until the consumer takes it.                                            *)
(*                                                                         *)
(* Sources of the promise: the handshakes and squash comparisons of        *)
(* rtl/core/execute/**, and the tag contract of                            *)
(* rtl/core/execute/common/m64k_execute_backend_pkg.sv.                    *)
(***************************************************************************)
EXTENDS TaggedQueue

CONSTANTS
    Tag,         \* execution tags
    None,        \* absence of a request, a squash or a response
    Request,     \* the requests the dispatcher may present, records with a tag
    Outcome(_),  \* the architectural response to a request
    Capacity     \* the unpublished operations the unit can hold

VARIABLES
    inflight,    \* accepted and unpublished requests, oldest first
    response,    \* the published response, or None
    edge         \* what the last clock edge sampled

vars == <<inflight, response, edge>>

\* What a clock edge samples: the request that completed its handshake, the
\* squash and the consumer's ready.
Sample ==
    [reset : BOOLEAN, request : Request \cup {None},
     squash : Tag \cup {None}, response_ready : BOOLEAN]

ResetEdge ==
    [reset |-> TRUE, request |-> None, squash |-> None,
     response_ready |-> FALSE]

Offered(e) == IF e.request = None THEN <<>> ELSE <<e.request>>

Init ==
    /\ inflight = <<>>
    /\ response = None
    /\ edge = ResetEdge

Reset ==
    /\ inflight' = <<>>
    /\ response' = None
    /\ edge' = ResetEdge

\* The published response stays, or leaves when the consumer is ready.
Keep(queue) ==
    /\ inflight' = queue
    /\ response' = IF edge'.response_ready THEN None ELSE response

\* The oldest surviving operation is published into a free response slot.
Publish(queue) ==
    /\ response = None \/ edge'.response_ready
    /\ queue # <<>>
    /\ response' = Outcome(Head(queue))
    /\ inflight' = Tail(queue)

Clock ==
    /\ edge' \in Sample
    /\ ~edge'.reset
    /\ LET queue == Surviving(inflight \o Offered(edge'), edge'.squash)
       IN  Keep(queue) \/ Publish(queue)
    /\ Len(inflight') <= Capacity

Next == Reset \/ Clock

Spec == Init /\ [][Next]_vars
=============================================================================
