------------------------- MODULE MCProjectAdmission -------------------------
(* Instances of ProjectAdmission for TLC. *)
EXTENDS ProjectAdmission

CONSTANTS alpha, beta, gamma, r1, r2, r3, r4, r5

(* alpha and beta are capped below the capacity and gamma is not, so that   *)
(* the caps and the capacity both bind.                                     *)
ThreeProjects == {alpha, beta, gamma}
ThreeLimits == (alpha :> 1) @@ (beta :> 1) @@ (gamma :> 2)

(* Five requests fill both slots and three places in the queues, two of     *)
(* them in the same one; requests are interchangeable.                      *)
FiveRequests == {r1, r2, r3, r4, r5}
Interchangeable == Permutations(FiveRequests)
=============================================================================
