------------------------ MODULE MCEndpointAdmission ------------------------
(* One slot, two projects that can own the endpoint, and requests that     *)
(* queue for the slot while the authority is lost, moved and regained.     *)
EXTENDS EndpointAdmission, TLC

CONSTANTS alpha, beta

OneEach == (alpha :> 1) @@ (beta :> 1)

Interchangeable == Permutations(Requests)

\* Bound: a third request is followed while a queue is full and it holds nothing.
ThirdIsTurnedAway ==
    \/ Cardinality({r \in Requests : stage[r] # "none" \/ call[r] # "none"}) <= 2
    \/ /\ \E p \in Projects : QueueFull(p)
       /\ \E r \in Requests : pc[r] = "idle" /\ stage[r] \in {"started", "authenticated", "responding"}
=============================================================================
