----------------------- MODULE MCProjectAdmissionLoop -----------------------
(* An instance of ProjectAdmissionLoop for TLC: three projects with caps   *)
(* below, at and at the capacity, so that the loop skips, grants and stops *)
(* for each of its three reasons.                                          *)
EXTENDS ProjectAdmissionLoop

CONSTANTS alpha, beta, gamma, r1, r2, r3, r4

ThreeProjects == {alpha, beta, gamma}
FourRequests == {r1, r2, r3, r4}
ThreeLimits == (alpha :> 1) @@ (beta :> 2) @@ (gamma :> 2)
=============================================================================
