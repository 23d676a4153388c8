---------------------------- MODULE RateAdmission ----------------------------
(***************************************************************************)
(* The rate-of-starts budgets that Runners share through Redis.  A policy  *)
(* is provisioned once by an operator; every request then runs one script  *)
(* on the Redis server that charges all budgets of its scope or none.  In  *)
(* pool mode (distributed_rate_admission) a scope is the pool and the      *)
(* project; in group mode (group_rate_admission) it is the group, the      *)
(* project and the pool.  The two scripts differ in nothing else, so one   *)
(* module stands for both: Scope says which keys a request names.          *)
(*                                                                         *)
(* Answers can be lost and late, the server's clock can be set back, keys  *)
(* can be evicted, and Runners can disagree about the policy's revision.   *)
(***************************************************************************)
EXTENDS Integers, FiniteSets, FiniteSetsExt

CONSTANTS
    Requests,   \* admission attempts, each with an identity of its own
    Budgets,    \* the sorted-set keys: pool or group, projects, pools
    Revisions,  \* policies a Runner may be configured with
    Named,      \* Named[v]: the budgets policy v names
    Scope,      \* Scope[r]: the budgets r is charged to
    Revision,   \* Revision[r]: the policy of the Runner that sends r
    Limit,      \* Limit[v][b]: starts revision v allows budget b in a window
    Window,     \* window_ms
    Second,     \* the ticks of a second: 1000 for clocks in milliseconds
    Policy,     \* the hash key that holds the policy's digest
    NoRevision, \* no digest has been written
    MaxTime     \* bound on the Redis server's clock

ASSUME RateAssumption ==
    /\ IsFiniteSet(Requests) /\ IsFiniteSet(Budgets) /\ Policy \notin Budgets
    /\ NoRevision \notin Revisions
    /\ Scope \in [Requests -> SUBSET Budgets] /\ Named \in [Revisions -> SUBSET Budgets]
    /\ Revision \in [Requests -> Revisions]
    /\ \A r \in Requests : Scope[r] \subseteq Named[Revision[r]]
    /\ Limit \in [Revisions -> [Budgets -> Nat \ {0}]]
    /\ Window \in Nat \ {0} /\ Second \in Nat \ {0} /\ MaxTime \in Nat

VARIABLES
    clock,      \* TIME of the Redis server
    alive,      \* the keys that exist
    digest,     \* 'digest' of the policy hash
    last,       \* 'last_ms' of the policy hash
    history,    \* members of each budget's sorted set, the sentinel apart
    score,      \* when a request was charged; -1 if it was not
    wire,       \* what became of a request's script
    pc,         \* the request at its Runner
    retryAfter  \* the whole seconds a rate-limited request is told to wait

redis == <<clock, alive, digest, last, history, score>>
vars == <<redis, wire, pc, retryAfter>>

Keys == Budgets \cup {Policy}

RateTypeOK ==
    /\ clock \in 0 .. MaxTime /\ last \in 0 .. MaxTime
    /\ alive \subseteq Keys /\ digest \in Revisions \cup {NoRevision}
    /\ history \in [Budgets -> SUBSET Requests]
    /\ \A b \in Budgets : \A r \in history[b] : b \in Scope[r] /\ score[r] >= 0
    /\ score \in [Requests -> -1 .. MaxTime]
    /\ wire \in [Requests -> {"none", "sent", "admitted", "limited", "unavailable"}]
    /\ pc \in [Requests -> {"new", "waiting", "started", "rejected", "failed"}]
    /\ retryAfter \in [Requests -> Nat]

Init ==
    /\ clock = 0 /\ last = 0 /\ alive = {} /\ digest = NoRevision
    /\ history = [b \in Budgets |-> {}]
    /\ score = [r \in Requests |-> -1]
    /\ wire = [r \in Requests |-> "none"] /\ pc = [r \in Requests |-> "new"]
    /\ retryAfter = [r \in Requests |-> 0]

-----------------------------------------------------------------------------
(* The operator and the server *)

\* state_keys: what _PROVISION looks at and writes for policy v.
StateKeys(v) == {Policy} \cup Named[v]

Exists(v, keys) == StateKeys(v) \cap keys /= {}

\* _PROVISION refuses when any of the policy's own keys exists.
Provision(v) ==
    /\ ~Exists(v, alive)
    /\ alive' = alive \cup StateKeys(v) /\ digest' = v /\ last' = 0
    /\ history' = [b \in Budgets |-> IF b \in Named[v] THEN {} ELSE history[b]]
    /\ UNCHANGED <<clock, score, wire, pc, retryAfter>>

\* The script stops part way: some sentinels are written, the digest is not.
ProvisionInterrupted(v) ==
    /\ ~Exists(v, alive)
    /\ \E written \in SUBSET Named[v] : alive' = alive \cup {Policy} \cup written
    /\ UNCHANGED <<clock, digest, last, history, score, wire, pc, retryAfter>>

\* A key is evicted or expires.  The loss of all that a provisioning looks at, which
\* an operator would answer with a new one, is not modelled.
Evict(k) ==
    /\ k \in alive
    /\ \A v \in Revisions : Exists(v, alive \ {k})
    /\ alive' = alive \ {k}
    /\ UNCHANGED <<clock, digest, last, history, score, wire, pc, retryAfter>>

\* Time passes, or the server's clock is set.
SetClock(t) ==
    /\ t /= clock
    /\ clock' = t
    /\ UNCHANGED <<alive, digest, last, history, score, wire, pc, retryAfter>>

-----------------------------------------------------------------------------
(* _ADMIT and _ADMIT_GROUP *)

\* Every key is there, the Runner's policy is the provisioned one, and the clock is
\* not behind the last admission.
Usable(r) ==
    /\ Policy \in alive /\ digest = Revision[r] /\ Scope[r] \subseteq alive
    /\ clock >= last

\* Mutant: a start on the edge of the window is forgotten one tick early.
RemainingTooFew(b) == {q \in history[b] : score[q] > clock - Window + 1}

\* ZREMRANGEBYSCORE from 0 to now - window.
Remaining(b) == {q \in history[b] : score[q] > clock - Window}

Full(r) == {b \in Scope[r] : Cardinality(Remaining(b)) >= Limit[digest][b]}

\* The script's delay: the full budget whose oldest start expires last decides.
Delay(r) == (Max({Min({score[q] : q \in Remaining(b)}) : b \in Full(r)}) + Window) - clock

\* Mutant: a part of a second is dropped.
SecondsRoundedDown(d) == Max({1, d \div Second})

\* max(1, math.ceil(delay / 1000)) of admit: Retry-After has whole seconds.
Seconds(d) == Max({1, (d + Second - 1) \div Second})

Trimmed(r) == [b \in Budgets |-> IF b \in Scope[r] THEN Remaining(b) ELSE history[b]]

EvalUnavailable(r) ==
    /\ wire[r] = "sent" /\ ~Usable(r)
    /\ wire' = [wire EXCEPT ![r] = "unavailable"]
    /\ UNCHANGED <<redis, pc, retryAfter>>

EvalLimited(r) ==
    /\ wire[r] = "sent" /\ Usable(r) /\ Full(r) /= {}
    /\ last' = clock /\ history' = Trimmed(r)
    /\ wire' = [wire EXCEPT ![r] = "limited"]
    /\ retryAfter' = [retryAfter EXCEPT ![r] = Seconds(Delay(r))]
    /\ UNCHANGED <<clock, alive, digest, score, pc>>

\* No budget of the scope is full: the request is added to all of them.
EvalAdmitted(r) ==
    /\ wire[r] = "sent" /\ Usable(r) /\ Full(r) = {}
    /\ last' = clock
    /\ history' = [b \in Budgets |-> IF b \in Scope[r] THEN Remaining(b) \cup {r} ELSE history[b]]
    /\ score' = [score EXCEPT ![r] = clock]
    /\ wire' = [wire EXCEPT ![r] = "admitted"]
    /\ UNCHANGED <<clock, alive, digest, pc, retryAfter>>

-----------------------------------------------------------------------------
(* admit *)

Send(r) ==
    /\ pc[r] = "new"
    /\ pc' = [pc EXCEPT ![r] = "waiting"] /\ wire' = [wire EXCEPT ![r] = "sent"]
    /\ UNCHANGED <<redis, retryAfter>>

Receive(r) ==
    /\ pc[r] = "waiting" /\ wire[r] \in {"admitted", "limited", "unavailable"}
    /\ pc' = [pc EXCEPT ![r] = CASE wire[r] = "admitted" -> "started"
                                 [] wire[r] = "limited" -> "rejected"
                                 [] OTHER -> "failed"]
    /\ UNCHANGED <<redis, wire, retryAfter>>

\* Mutant: an unanswered charge is taken for granted.
TimeoutStarts(r) ==
    /\ pc[r] = "waiting"
    /\ pc' = [pc EXCEPT ![r] = "started"]
    /\ UNCHANGED <<redis, wire, retryAfter>>

\* No answer in time.  The script may have run, or may run yet; it is not retried
\* and the request does not start.
Timeout(r) ==
    /\ pc[r] = "waiting"
    /\ pc' = [pc EXCEPT ![r] = "failed"]
    /\ UNCHANGED <<redis, wire, retryAfter>>

Attempt(r) ==
    \/ Send(r) \/ EvalUnavailable(r) \/ EvalLimited(r) \/ EvalAdmitted(r)
    \/ Receive(r) \/ Timeout(r)

Next ==
    \/ \E v \in Revisions : Provision(v) \/ ProvisionInterrupted(v)
    \/ \E k \in Keys : Evict(k)
    \/ \E t \in 0 .. MaxTime : SetClock(t)
    \/ \E r \in Requests : Attempt(r)

Spec == Init /\ [][Next]_vars

-----------------------------------------------------------------------------
(* Properties *)

Charged(b, from, to) == {r \in Requests : b \in Scope[r] /\ score[r] > from /\ score[r] <= to /\ score[r] >= 0}

\* In no window, wherever it starts, is a budget charged more often than the
\* provisioned policy allows: not at its edges, not after the clock was set back,
\* not across evictions or repeated provisioning, not by Runners whose policies
\* differ.
WindowRespected ==
    \A b \in Budgets, t \in 0 .. MaxTime :
      digest /= NoRevision => Cardinality(Charged(b, t - Window, t)) <= Limit[digest][b]

\* A request starts only when its charge was confirmed: an ambiguous answer never
\* lets one run outside the budget.
StartedWasCharged == \A r \in Requests : pc[r] = "started" => score[r] >= 0

Starts(b, t) == {q \in history[b] : score[q] > t - Window}

\* Retry-After, in the whole seconds the client is told, is long enough and not a
\* second too long: of the starts counted when r was turned away, every budget of r
\* is back below its limit when that time is over, and a second earlier, unless that
\* was the second it is told at least, some budget is not.
RetryIsTight ==
    [][\A r \in Requests :
         wire[r] = "sent" /\ wire'[r] = "limited" =>
           LET at == clock + Second * retryAfter'[r]
           IN  /\ \A b \in Scope[r] : Cardinality(Starts(b, at)) < Limit[digest][b]
               /\ \/ retryAfter'[r] = 1
                  \/ \E b \in Scope[r] : Cardinality(Starts(b, at - Second)) >= Limit[digest][b]]_vars
====
