----------------------------- MODULE WorkQueue -----------------------------
(***************************************************************************)
(* KeyedWorkQueue: one queued job per key, a trigger during execution asks *)
(* for one more pass at the tail, all passes share a concurrency ceiling.  *)
(* The control server runs every Runner's reconciliation through one.      *)
(*                                                                         *)
(* Triggers of one key share the entry's promise, which settles when the   *)
(* entry is deleted; a pass that fails settles it as one that succeeds, so *)
(* outcomes are left out.                                                  *)
(***************************************************************************)
EXTENDS Integers, Sequences, FiniteSets, FiniteSetsExt

CONSTANTS
    Keys, Triggers,
    KeyOf,          \* the key of each call
    Concurrency

ASSUME QueueAssumption ==
    /\ IsFiniteSet(Keys) /\ KeyOf \in [Triggers -> Keys]
    /\ Concurrency \in Nat \ {0}

VARIABLES
    entry,      \* entries: none, queued, or running
    again,      \* the keys whose running entry has again set
    queue,
    passes,     \* active
    waiting,    \* calls whose promise is not settled
    fresh       \* history: the waiting calls that a pass began after

wqVars == <<entry, again, queue, passes, waiting, fresh>>

WQInit ==
    /\ entry = [k \in Keys |-> "none"] /\ again = {}
    /\ queue = <<>> /\ passes = 0
    /\ waiting = {} /\ fresh = {}

TriggersOf(k) == {c \in Triggers : KeyOf[c] = k}

\* pump: the keys it takes from the head of q, while n passes run.
Taken(q, n) == Min({Len(q), IF n < Concurrency THEN Concurrency - n ELSE 0})

Pump(q, n, ent, ag, wait, fr) ==
    LET t      == Taken(q, n)
        begins == {q[i] : i \in 1 .. t}
    IN  /\ queue' = SubSeq(q, t + 1, Len(q))
        /\ passes' = n + t
        /\ entry' = [k \in Keys |-> IF k \in begins THEN "running" ELSE ent[k]]
        /\ again' = ag \ begins
        /\ waiting' = wait
        /\ fresh' = fr \cup {c \in wait : KeyOf[c] \in begins}

\* Mutant: a trigger during a pass is answered by that pass.
CallFoundJoins(c) ==
    /\ c \notin waiting /\ entry[KeyOf[c]] # "none"
    /\ waiting' = waiting \cup {c}
    /\ UNCHANGED <<entry, again, queue, passes, fresh>>

\* run, with an entry there and without one.
CallFound(c) ==
    LET k == KeyOf[c]
    IN  /\ c \notin waiting /\ entry[k] # "none"
        /\ again' = IF entry[k] = "running" THEN again \cup {k} ELSE again
        /\ waiting' = waiting \cup {c}
        /\ UNCHANGED <<entry, queue, passes, fresh>>

CallNew(c) ==
    LET k == KeyOf[c]
    IN  /\ c \notin waiting /\ entry[k] = "none"
        /\ Pump(Append(queue, k), passes, [entry EXCEPT ![k] = "queued"], again, waiting \cup {c}, fresh)

\* finish, with and without another pass asked for.
FinishAgain(k) ==
    /\ entry[k] = "running" /\ k \in again
    /\ Pump(Append(queue, k), passes - 1, [entry EXCEPT ![k] = "queued"], again, waiting, fresh)

\* Mutant: the slot is given back and nobody takes it.
FinishLastSilently(k) ==
    /\ entry[k] = "running" /\ k \notin again
    /\ entry' = [entry EXCEPT ![k] = "none"] /\ passes' = passes - 1
    /\ waiting' = waiting \ TriggersOf(k) /\ fresh' = fresh \ TriggersOf(k)
    /\ UNCHANGED <<again, queue>>

FinishLast(k) ==
    /\ entry[k] = "running" /\ k \notin again
    /\ Pump(queue, passes - 1, [entry EXCEPT ![k] = "none"], again, waiting \ TriggersOf(k), fresh \ TriggersOf(k))

WQNext ==
    \/ \E c \in Triggers : CallFound(c) \/ CallNew(c)
    \/ \E k \in Keys : FinishAgain(k) \/ FinishLast(k)

\* Passes end: a pass awaits database calls and stream writes that time out.
WQFairness == \A k \in Keys : WF_wqVars(FinishAgain(k) \/ FinishLast(k))

WQSpec == WQInit /\ [][WQNext]_wqVars /\ WQFairness

-----------------------------------------------------------------------------
(* Properties *)

Promise == INSTANCE CoalescedWork WITH
    phase <- [c \in Triggers |-> IF c \notin waiting THEN "idle" ELSE IF c \in fresh THEN "covered" ELSE "owed"],
    running <- {k \in Keys : entry[k] = "running"}

\* The queue does what it promises: never more passes than the ceiling, never two for
\* a key, a call answered only by a pass that began after it, and no key starved by
\* busy ones ("newer generations are never lost and busy identities cannot starve
\* the rest", KeyedWorkQueue).
QueueKeepsItsPromise == Promise!CWSpec

\* The ceiling is used: passes counts the running entries, and a queued key means
\* that it is reached (run, pump, finish).
QueueBusy ==
    /\ passes = Cardinality({k \in Keys : entry[k] = "running"})
    /\ queue # <<>> => passes = Concurrency
    /\ \A k \in Keys : entry[k] = "queued" <=> \E i \in DOMAIN queue : queue[i] = k

=============================================================================
