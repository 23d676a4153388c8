------------------------------- MODULE MCGates -------------------------------
(* The three in-process gates that let bounded work through one at a time: the   *)
(* model gate, the keyed work queue and the report budget.  They share nothing,  *)
(* so a behaviour is that of one of them and the others stay as they started.    *)
EXTENDS ModelGate, WorkQueue, ReportBudget, TLC

CONSTANTS k1, k2, k3, a1, a2, b1, b2, t1, large, middle, s1, s2

VARIABLE gate

MCKeyOf == a1 :> k1 @@ a2 :> k1 @@ b1 :> k2 @@ b2 :> k2 @@ t1 :> k3

\* A job as large as the whole budget, one that leaves room for one more, small ones.
MCBytes == large :> 4 @@ middle :> 3 @@ s1 :> 1 @@ s2 :> 1

allVars == <<gate, gateVars, wqVars, rbVars>>

MCInit == gate \in {"model", "work", "report"} /\ GateInit /\ WQInit /\ RBInit

MCNext ==
    /\ UNCHANGED gate
    /\ \/ gate = "model" /\ GateNext /\ UNCHANGED <<wqVars, rbVars>>
       \/ gate = "work" /\ WQNext /\ UNCHANGED <<gateVars, rbVars>>
       \/ gate = "report" /\ RBNext /\ UNCHANGED <<gateVars, wqVars>>

MCSpec == MCInit /\ [][MCNext]_allVars /\ GateFairness /\ WQFairness
=============================================================================
