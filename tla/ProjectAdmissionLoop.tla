------------------------ MODULE ProjectAdmissionLoop ------------------------
(***************************************************************************)
(* ProjectAdmission with _dispatch_locked as the loop that the code runs:  *)
(* pop a project, rotate it to the tail and count it as skipped when it    *)
(* cannot be granted, grant its first waiter and start the count again     *)
(* when it can.  The specification ProjectAdmission, in which the loop is  *)
(* one choice of the first eligible project, is what it implements.        *)
(***************************************************************************)
EXTENDS ProjectAdmission

\* The variables of the loop; skipped is its local counter.
Book(act, total, wait, rr, q, gr) ==
    [active |-> act, total |-> total, waiting |-> wait, roundRobin |-> rr,
     queued |-> q, granted |-> gr, skipped |-> 0]

\* One iteration whose project cannot be granted.
Skip(b) ==
    [b EXCEPT !.roundRobin = Append(Tail(@), Head(@)), !.skipped = @ + 1]

\* One iteration that grants the head of the project's queue.
Grant(b) ==
    LET p == Head(b.roundRobin)
        rest == Tail(b.waiting[p])
    IN  [b EXCEPT !.waiting[p] = rest,
                  !.queued = @ - 1,
                  !.roundRobin = IF rest = <<>> THEN Tail(@) ELSE Append(Tail(@), p),
                  !.total = @ + 1,
                  !.active[p] = @ + 1,
                  !.granted[Head(b.waiting[p])] = TRUE,
                  !.skipped = 0]

\* Mutant of LoopCondition: the last project of a round is not looked at.
LoopConditionShort(b) ==
    b.total < Capacity /\ b.roundRobin # <<>> /\ b.skipped + 1 < Len(b.roundRobin)

LoopCondition(b) ==
    b.total < Capacity /\ b.roundRobin # <<>> /\ b.skipped < Len(b.roundRobin)

RECURSIVE DispatchLoop(_)
DispatchLoop(b) ==
    IF ~LoopCondition(b) THEN b
    ELSE IF CanGrant(b.active, b.total, Head(b.roundRobin)) THEN DispatchLoop(Grant(b))
    ELSE DispatchLoop(Skip(b))

DispatchLocked(act, total, wait, rr, q, gr) ==
    LET b == DispatchLoop(Book(act, total, wait, rr, q, gr))
    IN  /\ active' = b.active
        /\ activeTotal' = b.total
        /\ waiting' = b.waiting
        /\ roundRobin' = b.roundRobin
        /\ queued' = b.queued
        /\ granted' = b.granted

-----------------------------------------------------------------------------
\* The operations that dispatch, with the loop in place of the choice.
\* Mutant of LoopReleaseLocked: the freed slot is not dispatched.
LoopReleaseWithoutDispatch(p, gr) == ReleaseWithoutDispatch(p, gr)

LoopReleaseLocked(p, gr) ==
    DispatchLocked([active EXCEPT ![p] = @ - 1], activeTotal - 1,
                   waiting, roundRobin, queued, gr)

LoopAcquireQueued(r, p) ==
    /\ pc[r] = "idle"
    /\ ~CanGrant(active, activeTotal, p)
    /\ ~QueueFull(p)
    /\ DispatchLocked(active, activeTotal,
                      [waiting EXCEPT ![p] = Append(@, r)],
                      IF waiting[p] = <<>> THEN Append(roundRobin, p) ELSE roundRobin,
                      queued + 1, granted)
    /\ pc' = [pc EXCEPT ![r] = "queued"]
    /\ project' = [project EXCEPT ![r] = p]

LoopCancelWaiter(r) ==
    /\ pc[r] = "cancelling"
    /\ IF granted[r]
       THEN LoopReleaseLocked(project[r], [granted EXCEPT ![r] = FALSE])
       ELSE DispatchLocked(active, activeTotal, RemoveWaiter(project[r], r),
                           RemoveProject(project[r]), queued - 1, granted)
    /\ pc' = [pc EXCEPT ![r] = "idle"]
    /\ UNCHANGED project

LoopRelease(r) ==
    /\ pc[r] = "holding"
    /\ LoopReleaseLocked(project[r], granted)
    /\ pc' = [pc EXCEPT ![r] = "released"]
    /\ UNCHANGED project

LoopNext ==
    \E r \in Requests :
        \/ \E p \in Projects :
              AcquireNow(r, p) \/ AcquireRejected(r, p) \/ LoopAcquireQueued(r, p)
        \/ Resume(r)
        \/ Interrupt(r)
        \/ LoopCancelWaiter(r)
        \/ LoopRelease(r)
        \/ ReleaseAgain(r)
        \/ Forget(r)

\* Fairness is that of ProjectAdmission: its Resume, CancelWaiter and Release are
\* enabled exactly when those of the loop are.
LoopSpec == Init /\ [][LoopNext]_admissionVars /\ Fairness

-----------------------------------------------------------------------------
\* The loop _dispatch_locked, from every state in which the Runner enters it,
\* makes exactly the step that ProjectAdmission specifies: at most one grant, to
\* the first project of _round_robin that can be granted, and the deque left in
\* the order the rotations leave it in.
LoopImplementsDispatch == Spec
=============================================================================
