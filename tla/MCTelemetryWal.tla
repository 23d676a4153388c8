---------------------------- MODULE MCTelemetryWal ----------------------------
(* Three handlers: one event of two parts, one light and one heavy event. *)
EXTENDS TelemetryWal

CONSTANTS pair, light, heavy

TwoParts == [e \in Emitters |-> IF e = pair THEN 2 ELSE 1]
Weights == [e \in Emitters |-> IF e = heavy THEN 5 ELSE 3]
====
