--------------------------- MODULE MCRateAdmission ---------------------------
(* One pool with two projects; the operator may provision either policy. *)
EXTENDS RateAdmission, TLC

CONSTANTS pool, north, south, current, other, r1, r2, r3, r4

NorthOrSouth == [r \in Requests |-> {pool, IF r \in {r1, r3} THEN north ELSE south}]
OtherWithoutSouth == [v \in Revisions |-> IF v = current THEN Budgets ELSE {pool, north}]
AllCurrent == [r \in Requests |-> current]
TwoInAWindow == [v \in Revisions |-> [b \in Budgets |-> IF b = north THEN 1 ELSE 2]]

\* Requests of the same project are interchangeable.
SameProject == {p @@ q : p \in Permutations({r1, r3}), q \in Permutations({r2, r4})}
====
