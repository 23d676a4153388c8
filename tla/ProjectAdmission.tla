-------------------------- MODULE ProjectAdmission --------------------------
(***************************************************************************)
(* Bounded per-project admission of one Runner process                     *)
(* (runner/project_admission.py, class ProjectAdmission): FIFO inside a     *)
(* project, round-robin across the projects that may run.                  *)
(*                                                                         *)
(* Every `async with self._lock` body runs without an await, so it is one  *)
(* atomic step of the event loop and one action here.  What interleaves is *)
(* what happens between those bodies: a waiter whose future is already     *)
(* set but whose task has not run yet, a timeout or a cancellation that    *)
(* arrives in that gap, and the shielded clean-up that follows it.         *)
(***************************************************************************)
EXTENDS Integers, Sequences, SequencesExt, FiniteSets

CONSTANTS
    Projects,           \* the keys of project_limits
    Requests,           \* tasks that call acquire()
    Capacity,           \* capacity
    Limit,              \* project_limits
    MaxQueued,          \* max_queued
    MaxQueuedPerProject \* max_queued_per_project

\* The checks of ProjectAdmission.__init__.
ASSUME ConfigurationAssumption ==
    /\ Capacity \in Nat \ {0}
    /\ Limit \in [Projects -> Nat \ {0}]
    /\ MaxQueued \in Nat
    /\ MaxQueuedPerProject \in Nat

\* project_limits is a dict and a process has finitely many tasks.
ASSUME FiniteAssumption == IsFiniteSet(Projects) /\ IsFiniteSet(Requests)

VARIABLES
    active,      \* _active; an absent key is 0
    activeTotal, \* _active_total
    waiting,     \* _waiting; an absent key is the empty queue
    roundRobin,  \* _round_robin
    queued,      \* _queued
    pc,          \* where the task of a request is
    project,     \* the project the request asked for
    granted      \* _Waiter.granted; FALSE when the request has no waiter

admissionVars ==
    <<active, activeTotal, waiting, roundRobin, queued, pc, project, granted>>

(***************************************************************************)
(* "idle":       outside acquire() and without a permit;                   *)
(* "queued":     awaiting the shielded future of its waiter;               *)
(* "cancelling": timed out or cancelled, _cancel_waiter() still to run;    *)
(* "holding":    owns an AdmissionPermit that is not released;             *)
(* "released":   still refers to a permit whose _released flag is set.     *)
(***************************************************************************)
Location == {"idle", "queued", "cancelling", "holding", "released"}

Waiting(r) == pc[r] \in {"queued", "cancelling"}

TypeOK ==
    /\ active \in [Projects -> Nat]
    /\ activeTotal \in Nat
    /\ waiting \in [Projects -> Seq(Requests)]
    /\ roundRobin \in Seq(Projects)
    /\ queued \in Nat
    /\ pc \in [Requests -> Location]
    /\ project \in [Requests -> Projects]
    /\ granted \in [Requests -> BOOLEAN]

Init ==
    /\ active = [p \in Projects |-> 0]
    /\ activeTotal = 0
    /\ waiting = [p \in Projects |-> <<>>]
    /\ roundRobin = <<>>
    /\ queued = 0
    /\ pc = [r \in Requests |-> "idle"]
    /\ project \in [Requests -> Projects]
    /\ granted = [r \in Requests |-> FALSE]

-----------------------------------------------------------------------------
(* Mutant of CanGrant: the capacity test is off by one. *)
CanGrantOneTooMany(act, total, p) == total <= Capacity /\ act[p] < Limit[p]

(* _can_grant, for given values of _active and _active_total. *)
CanGrant(act, total, p) == total < Capacity /\ act[p] < Limit[p]

(***************************************************************************)
(* _dispatch_locked, entered with the given bookkeeping.  The loop rotates *)
(* the projects that cannot be granted to the tail of _round_robin until   *)
(* it meets one that can, grants the head of that project's queue and goes *)
(* on until a whole round finds nobody.  From every state in which it is   *)
(* called one round already finds nobody after the first grant, and a      *)
(* round that finds nobody puts the deque back as it was; so the loop is   *)
(* the choice of the FIRST eligible position.  ProjectAdmissionLoop has    *)
(* the loop as it is written and shows the two to be the same.             *)
(***************************************************************************)
RotateOut(rr, k) == SubSeq(rr, k + 1, Len(rr)) \o SubSeq(rr, 1, k - 1)

Eligible(act, total, rr) == {i \in 1..Len(rr) : CanGrant(act, total, rr[i])}

DispatchNobody(act, total, wait, rr, q, gr) ==
    /\ Eligible(act, total, rr) = {}
    /\ active' = act
    /\ activeTotal' = total
    /\ waiting' = wait
    /\ roundRobin' = rr
    /\ queued' = q
    /\ granted' = gr

(* Mutant of DispatchFirst: the project that was granted keeps its place. *)
DispatchWithoutRotation(act, total, wait, rr, q, gr) ==
    \E k \in Eligible(act, total, rr) :
        LET p == rr[k]
        IN  /\ \A i \in Eligible(act, total, rr) : k <= i
            /\ active' = [act EXCEPT ![p] = @ + 1]
            /\ activeTotal' = total + 1
            /\ waiting' = [wait EXCEPT ![p] = Tail(@)]
            /\ roundRobin' = IF Len(wait[p]) = 1 THEN RemoveAt(rr, k) ELSE rr
            /\ queued' = q - 1
            /\ granted' = [gr EXCEPT ![Head(wait[p])] = TRUE]

DispatchFirst(act, total, wait, rr, q, gr) ==
    \E k \in Eligible(act, total, rr) :
        LET p == rr[k]
            rotated == RotateOut(rr, k)
        IN  /\ \A i \in Eligible(act, total, rr) : k <= i
            /\ active' = [act EXCEPT ![p] = @ + 1]
            /\ activeTotal' = total + 1
            /\ waiting' = [wait EXCEPT ![p] = Tail(@)]
            /\ roundRobin' = IF Len(wait[p]) = 1 THEN rotated ELSE Append(rotated, p)
            /\ queued' = q - 1
            /\ granted' = [gr EXCEPT ![Head(wait[p])] = TRUE]

Dispatch(act, total, wait, rr, q, gr) ==
    \/ DispatchNobody(act, total, wait, rr, q, gr)
    \/ DispatchFirst(act, total, wait, rr, q, gr)

(* Mutant of ReleaseLocked: the freed slot is not dispatched. *)
ReleaseWithoutDispatch(p, gr) ==
    /\ active' = [active EXCEPT ![p] = @ - 1]
    /\ activeTotal' = activeTotal - 1
    /\ granted' = gr
    /\ UNCHANGED <<waiting, roundRobin, queued>>

(* _release_locked: give the slot of p back, then dispatch. *)
ReleaseLocked(p, gr) ==
    Dispatch([active EXCEPT ![p] = @ - 1], activeTotal - 1,
             waiting, roundRobin, queued, gr)

(* _remove_locked: take an ungranted waiter out of its queue. *)
RemoveWaiter(p, r) == [waiting EXCEPT ![p] = RemoveFirst(@, r)]

(* Mutant of RemoveProject: the emptied project stays in the deque. *)
RemoveProjectForgotten(p) == roundRobin

RemoveProject(p) ==
    IF Len(waiting[p]) = 1 THEN RemoveFirst(roundRobin, p) ELSE roundRobin

-----------------------------------------------------------------------------
(* acquire(): a free slot is taken at once.  No waiter is passed over by    *)
(* this: see WorkConserving.                                                *)
AcquireNow(r, p) ==
    /\ pc[r] = "idle"
    /\ CanGrant(active, activeTotal, p)
    /\ active' = [active EXCEPT ![p] = @ + 1]
    /\ activeTotal' = activeTotal + 1
    /\ pc' = [pc EXCEPT ![r] = "holding"]
    /\ project' = [project EXCEPT ![r] = p]
    /\ UNCHANGED <<waiting, roundRobin, queued, granted>>

QueueFull(p) == queued >= MaxQueued \/ Len(waiting[p]) >= MaxQueuedPerProject

(* acquire(): AdmissionRejected("queue_full"); nothing changes. *)
AcquireRejected(r, p) ==
    /\ pc[r] = "idle"
    /\ ~CanGrant(active, activeTotal, p)
    /\ QueueFull(p)
    /\ UNCHANGED admissionVars

(* acquire(): join the queue of the project, then dispatch. *)
AcquireQueued(r, p) ==
    /\ pc[r] = "idle"
    /\ ~CanGrant(active, activeTotal, p)
    /\ ~QueueFull(p)
    /\ Dispatch(active, activeTotal,
                [waiting EXCEPT ![p] = Append(@, r)],
                IF waiting[p] = <<>> THEN Append(roundRobin, p) ELSE roundRobin,
                queued + 1, granted)
    /\ pc' = [pc EXCEPT ![r] = "queued"]
    /\ project' = [project EXCEPT ![r] = p]

(* The waiting task runs after its future was set: acquire() returns. *)
Resume(r) ==
    /\ pc[r] = "queued"
    /\ granted[r]
    /\ pc' = [pc EXCEPT ![r] = "holding"]
    /\ granted' = [granted EXCEPT ![r] = FALSE]
    /\ UNCHANGED <<active, activeTotal, waiting, roundRobin, queued, project>>

(* wait_for times out, or the task is cancelled, before it ran again; the   *)
(* grant may already have been made, or be made before the clean-up runs.   *)
Interrupt(r) ==
    /\ pc[r] = "queued"
    /\ pc' = [pc EXCEPT ![r] = "cancelling"]
    /\ UNCHANGED <<active, activeTotal, waiting, roundRobin, queued, project, granted>>

(* Mutant of CancelGranted: a timeout that races the grant loses the slot. *)
CancelGrantedLeaks(r) ==
    /\ pc[r] = "cancelling"
    /\ granted[r]
    /\ pc' = [pc EXCEPT ![r] = "idle"]
    /\ granted' = [granted EXCEPT ![r] = FALSE]
    /\ UNCHANGED <<active, activeTotal, waiting, roundRobin, queued, project>>

(* _cancel_waiter(), shielded: a grant nobody will use is given back, ...   *)
CancelGranted(r) ==
    /\ pc[r] = "cancelling"
    /\ granted[r]
    /\ ReleaseLocked(project[r], [granted EXCEPT ![r] = FALSE])
    /\ pc' = [pc EXCEPT ![r] = "idle"]
    /\ UNCHANGED project

(* ... and a waiter without one leaves its queue. *)
CancelWaiting(r) ==
    /\ pc[r] = "cancelling"
    /\ ~granted[r]
    /\ Dispatch(active, activeTotal, RemoveWaiter(project[r], r),
                RemoveProject(project[r]), queued - 1, granted)
    /\ pc' = [pc EXCEPT ![r] = "idle"]
    /\ UNCHANGED project

CancelWaiter(r) == CancelGranted(r) \/ CancelWaiting(r)

(* AdmissionPermit.release(): the first call gives the slot back, ...       *)
Release(r) ==
    /\ pc[r] = "holding"
    /\ ReleaseLocked(project[r], granted)
    /\ pc' = [pc EXCEPT ![r] = "released"]
    /\ UNCHANGED project

(* ... any later call returns because _released is set. *)
ReleaseAgain(r) ==
    /\ pc[r] = "released"
    /\ UNCHANGED admissionVars

(* The caller drops its permit object and may call acquire() again. *)
Forget(r) ==
    /\ pc[r] = "released"
    /\ pc' = [pc EXCEPT ![r] = "idle"]
    /\ UNCHANGED <<active, activeTotal, waiting, roundRobin, queued, project, granted>>

Acquire(r, p) == AcquireNow(r, p) \/ AcquireRejected(r, p) \/ AcquireQueued(r, p)

Next ==
    \E r \in Requests :
        \/ \E p \in Projects : Acquire(r, p)
        \/ Resume(r)
        \/ Interrupt(r)
        \/ CancelWaiter(r)
        \/ Release(r)
        \/ ReleaseAgain(r)
        \/ Forget(r)

Spec == Init /\ [][Next]_admissionVars

(***************************************************************************)
(* The event loop runs every ready task: a granted waiter resumes, a       *)
(* shielded clean-up completes and a permit holder, whose callers all      *)
(* release in a `finally`, releases.  No request is obliged to arrive and  *)
(* no timeout is obliged to fire (acquire() accepts timeout=None).  At     *)
(* most one of the three is enabled for a request at any time.             *)
(***************************************************************************)
Fairness ==
    \A r \in Requests : WF_admissionVars(Resume(r) \/ CancelWaiter(r) \/ Release(r))

-----------------------------------------------------------------------------
(* A request owns a slot from the grant on, not from when its task runs. *)
HasPermit(r) == pc[r] = "holding" \/ (Waiting(r) /\ granted[r])

InQueue(r) == Waiting(r) /\ ~granted[r]

Holders(p) == {r \in Requests : HasPermit(r) /\ project[r] = p}

AllHolders == {r \in Requests : HasPermit(r)}

(* The counters _active and _active_total are exactly the permits that are  *)
(* out, through every interleaving of grants, timeouts, cancellations and   *)
(* repeated releases: no slot is lost and none is freed twice.              *)
PermitAccounting ==
    /\ activeTotal = Cardinality(AllHolders)
    /\ \A p \in Projects : active[p] = Cardinality(Holders(p))

(* At no time do more requests own a slot than the capacity of the group or *)
(* the hard cap of their project, counting the grants whose tasks have not  *)
(* run and the ones that are being cancelled.                               *)
CapacityRespected ==
    /\ Cardinality(AllHolders) <= Capacity
    /\ \A p \in Projects : Cardinality(Holders(p)) <= Limit[p]

(* The comment in acquire(): "Dispatch always drains eligible queued        *)
(* projects before releasing the lock".  Whenever the lock is free a        *)
(* project with waiters cannot be granted, so no slot idles while somebody  *)
(* could use it and a newcomer that takes a slot passes no waiter over.     *)
WorkConserving ==
    \A p \in Projects : waiting[p] # <<>> => ~CanGrant(active, activeTotal, p)

(* _round_robin lists exactly the projects with a queue, once each; the     *)
(* queues hold exactly the ungranted waiters, once each.  With it           *)
(* _waiting[project], deque.remove and future.set_result cannot raise.      *)
(* _queued counts them, and max_queued and max_queued_per_project bound     *)
(* them.                                                                    *)
QueueBook ==
    /\ IsInjective(roundRobin)
    /\ Range(roundRobin) = {p \in Projects : waiting[p] # <<>>}
    /\ \A p \in Projects :
          /\ IsInjective(waiting[p])
          /\ Range(waiting[p]) = {r \in Requests : InQueue(r) /\ project[r] = p}
          /\ Len(waiting[p]) <= MaxQueuedPerProject
    /\ queued = Cardinality({r \in Requests : InQueue(r)})
    /\ queued <= MaxQueued

Position(p) == CHOOSE i \in DOMAIN roundRobin : roundRobin[i] = p

NewHolder(r) == ~HasPermit(r) /\ HasPermit(r)'

(* "Round-robin across eligible projects": while a project with waiters is  *)
(* below its own cap, every slot that another project gets moves it closer  *)
(* to the head of _round_robin, so it is overtaken by each other project at *)
(* most once.                                                               *)
RoundRobinFair ==
    [][\A p \in Projects :
          (waiting[p] # <<>> /\ active[p] < Limit[p] /\ waiting'[p] = waiting[p]
             /\ \E r \in Requests : NewHolder(r))
          => Position(p)' < Position(p)]_admissionVars

(* A request that waits is granted, times out or is cancelled: no project   *)
(* starves another, although its queue is rotated past while it is capped.  *)
NoStarvation == \A r \in Requests : InQueue(r) ~> ~InQueue(r)
=============================================================================
