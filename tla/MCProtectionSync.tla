-------------------------- MODULE MCProtectionSync --------------------------
(* Two Runners of one pool; the first comes back once on a new stream.  In  *)
(* the passing run it was with the Controller that serves the operator, and *)
(* comes back at another one.                                               *)
EXTENDS ProtectionSync
CONSTANTS r1, r2
MCOpener == <<r1, r2, r1>>
=============================================================================
