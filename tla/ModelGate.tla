----------------------------- MODULE ModelGate -----------------------------
(***************************************************************************)
(* The concurrency gate of one registered model on one event loop: calls   *)
(* wait in a deque of futures, permits go to them in order, and the cap    *)
(* can be changed at any moment from another thread.  A call can be        *)
(* cancelled while it waits, and also between the moment its future is     *)
(* resolved and the moment its task runs again.                            *)
(***************************************************************************)
EXTENDS Integers, Sequences, SequencesExt, FiniteSets, FiniteSetsExt

CONSTANTS
    Calls,      \* tasks that call the model
    MaxLimit    \* the largest cap that is configured

ASSUME GateAssumption == IsFiniteSet(Calls) /\ MaxLimit \in Nat \ {0}

VARIABLES
    configured, \* _limits[runtime_id]
    updates,    \* a gate.update callback is scheduled on the loop
    limit,      \* the gate's limit
    active,     \* the gate's active
    waiters,    \* the deque of futures, each named by its call
    pc          \* where each call is

gateVars == <<configured, updates, limit, active, waiters, pc>>

\* waiting: its future is pending; dropped: its future was cancelled; granted: its
\* future is resolved; doomed: granted, and then the task was cancelled before it
\* ran; holding: inside the model_slot body.
Permits == {c \in Calls : pc[c] \in {"granted", "doomed", "holding"}}

\* The gate exists from the first call on; its limit is the configured one.
GateInit ==
    /\ configured \in 1 .. MaxLimit /\ limit = configured /\ updates = FALSE
    /\ active = 0 /\ waiters = <<>>
    /\ pc = [c \in Calls |-> "idle"]

-----------------------------------------------------------------------------
(* _wake *)

Pending(queue, state, k) == {i \in 1 .. k : state[queue[i]] = "waiting"}

\* The loop pops until the gate is full or the deque empty; a future that is
\* already done is dropped and takes no permit.
Popped(queue, state, held, cap) ==
    Min({k \in 0 .. Len(queue) : k = Len(queue) \/ held + Cardinality(Pending(queue, state, k)) >= cap})

\* Mutant: a cancelled future takes a permit with it.
WakeCountsCancelled(queue, state, held, cap) ==
    LET k == Min({Len(queue), IF held < cap THEN cap - held ELSE 0})
    IN  /\ waiters' = SubSeq(queue, k + 1, Len(queue))
        /\ active' = held + k
        /\ pc' = [c \in Calls |->
                    IF state[c] = "waiting" /\ \E i \in 1 .. k : queue[i] = c THEN "granted" ELSE state[c]]

Wake(queue, state, held, cap) ==
    LET k == Popped(queue, state, held, cap)
        resolved == {queue[i] : i \in Pending(queue, state, k)}
    IN  /\ waiters' = SubSeq(queue, k + 1, Len(queue))
        /\ active' = held + Cardinality(resolved)
        /\ pc' = [c \in Calls |-> IF c \in resolved THEN "granted" ELSE state[c]]

-----------------------------------------------------------------------------
\* configure_model_limit, on any thread: the loop is told, later.
Configure(n) ==
    /\ configured' = n /\ updates' = TRUE
    /\ UNCHANGED <<limit, active, waiters, pc>>

\* Mutant: a raised cap waits for the next release.
UpdateSilently ==
    /\ updates
    /\ updates' = FALSE /\ limit' = configured
    /\ UNCHANGED <<configured, active, waiters, pc>>

\* The scheduled callback reads the limit that is configured by then.
Update ==
    /\ updates
    /\ updates' = FALSE /\ limit' = configured
    /\ Wake(waiters, pc, active, configured)
    /\ UNCHANGED configured

\* Mutant: a new call is admitted under the cap of the last callback.
AcquireStale(c) ==
    /\ pc[c] = "idle"
    /\ Wake(Append(waiters, c), [pc EXCEPT ![c] = "waiting"], active, limit)
    /\ UNCHANGED <<configured, updates, limit>>

\* Mutant: a new call goes to the head of the deque.
AcquireJumps(c) ==
    /\ pc[c] = "idle"
    /\ limit' = configured
    /\ Wake(<<c>> \o waiters, [pc EXCEPT ![c] = "waiting"], active, configured)
    /\ UNCHANGED <<configured, updates>>

\* model_slot: _gate applies the configured limit, then acquire queues the call
\* and wakes, all before the first await.
Acquire(c) ==
    /\ pc[c] = "idle"
    /\ limit' = configured
    /\ Wake(Append(waiters, c), [pc EXCEPT ![c] = "waiting"], active, configured)
    /\ UNCHANGED <<configured, updates>>

Resume(c) ==
    /\ pc[c] = "granted"
    /\ pc' = [pc EXCEPT ![c] = "holding"]
    /\ UNCHANGED <<configured, updates, limit, active, waiters>>

\* The task is cancelled: a pending future is cancelled with it and stays in the
\* deque, a resolved one cannot be taken back.
Cancel(c) ==
    /\ pc[c] \in {"waiting", "granted"}
    /\ pc' = [pc EXCEPT ![c] = IF pc[c] = "waiting" THEN "dropped" ELSE "doomed"]
    /\ UNCHANGED <<configured, updates, limit, active, waiters>>

\* The cancelled task runs: it leaves the deque, if it is still in it.
CleanUp(c) ==
    /\ pc[c] = "dropped"
    /\ Wake(RemoveFirst(waiters, c), [pc EXCEPT ![c] = "idle"], active, limit)
    /\ UNCHANGED <<configured, updates, limit>>

\* Mutant: the permit of a call cancelled after its grant is forgotten.
GiveBackForgets(c) ==
    /\ pc[c] = "doomed"
    /\ Wake(waiters, [pc EXCEPT ![c] = "idle"], active, limit)
    /\ UNCHANGED <<configured, updates, limit>>

\* The task cancelled after its grant runs: it gives the permit back.
GiveBack(c) ==
    /\ pc[c] = "doomed"
    /\ Wake(waiters, [pc EXCEPT ![c] = "idle"], active - 1, limit)
    /\ UNCHANGED <<configured, updates, limit>>

Release(c) ==
    /\ pc[c] = "holding"
    /\ Wake(waiters, [pc EXCEPT ![c] = "idle"], active - 1, limit)
    /\ UNCHANGED <<configured, updates, limit>>

Step(c) == Resume(c) \/ CleanUp(c) \/ GiveBack(c) \/ Release(c)

GateNext ==
    \/ \E n \in 1 .. MaxLimit : Configure(n)
    \/ Update
    \/ \E c \in Calls : Acquire(c) \/ Cancel(c) \/ Step(c)

\* The loop runs what is ready, and a model call ends: the HTTP client has a timeout.
GateFairness == WF_gateVars(Update) /\ \A c \in Calls : WF_gateVars(Step(c))

GateSpec == GateInit /\ [][GateNext]_gateVars /\ GateFairness

-----------------------------------------------------------------------------
(* Properties *)

\* The counter is the number of permits out, through every order of grants,
\* cancellations and releases.
ActiveIsPermits == active = Cardinality(Permits)

\* A free permit and a waiting call never coexist, whatever ended or changed last:
\* no wakeup is lost.
NoLostWakeup == active < limit => waiters = <<>>

\* A grant never takes the gate above its cap, and a call that arrives after the
\* cap was lowered is held to the lowered cap even before the callback runs.
GrantsWithinCap ==
    [][/\ active' > active => active' <= limit'
       /\ \A c \in Calls : pc[c] = "idle" /\ pc'[c] = "granted" => active' <= configured']_gateVars

\* Permits go to calls in the order they came: none is granted, on arrival or
\* later, while a call that came before it keeps waiting.
FirstComeFirstServed ==
    [][\A i \in DOMAIN waiters : \A c \in Calls :
         /\ pc[c] \in {"idle", "waiting"} /\ pc'[c] = "granted"
         /\ pc[waiters[i]] = "waiting" /\ pc'[waiters[i]] = "waiting"
         => \E j \in 1 .. i - 1 : waiters[j] = c]_gateVars

\* A call that waits is granted or cancelled in the end, however others cancel and
\* however the cap moves.
EveryCallProceeds == \A c \in Calls : pc[c] = "waiting" ~> pc[c] /= "waiting"
====
