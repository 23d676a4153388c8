-------------------------- MODULE MCRouterChanges --------------------------
(* One Router and two Guardrails, g1 with one version and g2 with one. *)
EXTENDS RouterChanges, TLC

CONSTANTS v1, v2, g1, g2

MCGuardrailOf == v1 :> g1 @@ v2 :> g2

\* One draft sends traffic to v1 and keeps v2 on a disabled Route, the other one sends
\* traffic to v2.
MCDrafts == {v1 :> "on" @@ v2 :> "off", v1 :> "none" @@ v2 :> "on"}
=============================================================================
