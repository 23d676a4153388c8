--------------------------- MODULE CoalescedWork ---------------------------
(***************************************************************************)
(* What a work queue with one job per identity promises its callers: at    *)
(* most Concurrency passes run, at most one of them for a key, and a call  *)
(* is answered only by a pass that began after the call was made.          *)
(***************************************************************************)
EXTENDS Naturals, FiniteSets

CONSTANTS
    Keys, Triggers,
    KeyOf,          \* the key that each call asks a pass for
    Concurrency

VARIABLES
    phase,          \* idle; owed: no pass began since the call; covered: one did
    running         \* the keys with a pass under way

cwVars == <<phase, running>>

CWInit == phase = [c \in Triggers |-> "idle"] /\ running = {}

\* One turn of the queue: the calls that are made, passes that end and answer some of
\* the calls they covered, and passes that begin, for every call made until now.
Turn(calls, ends, answered, begins) ==
    /\ running' = (running \ ends) \cup begins
    /\ begins \cap (running \ ends) = {} /\ Cardinality(running') <= Concurrency
    /\ \A c \in calls : phase[c] = "idle"
    /\ \A c \in answered : phase[c] = "covered" /\ KeyOf[c] \in ends
    /\ phase' = [c \in Triggers |->
                   IF c \in answered THEN "idle"
                   ELSE IF KeyOf[c] \in begins /\ (c \in calls \/ phase[c] # "idle") THEN "covered"
                   ELSE IF c \in calls THEN "owed" ELSE phase[c]]

CWNext == \E calls \in SUBSET Triggers, ends \in SUBSET running, answered \in SUBSET Triggers, begins \in SUBSET Keys :
              Turn(calls, ends, answered, begins)

Owed(k) == \E c \in Triggers : KeyOf[c] = k /\ phase[c] = "owed"

\* A pass that is owed begins, whatever the other keys ask for.
BeginsFairly(k) == Owed(k) /\ \E ends \in SUBSET running, answered \in SUBSET Triggers, begins \in SUBSET Keys :
                       k \in begins /\ Turn({}, ends, answered, begins)

CWSpec == CWInit /\ [][CWNext]_cwVars /\ \A k \in Keys : WF_cwVars(BeginsFairly(k))
=============================================================================
