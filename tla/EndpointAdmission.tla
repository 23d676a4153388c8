-------------------------- MODULE EndpointAdmission --------------------------
(***************************************************************************)
(* A runtime request on its way through one Runner: the fence of the       *)
(* serving period (runner/synchronization.py), the admission of the        *)
(* endpoint's project (EndpointAdmission of runner/project_admission.py)   *)
(* with the optional rate budget in Redis, the protected execution and the *)
(* response (runner/api.py, scan.py, output_streaming.py), while the       *)
(* control client loses and regains the serving authority and publishes    *)
(* snapshots in which endpoints change owner.                              *)
(*                                                                         *)
(* A step is what one task of the event loop does between two awaits.  The *)
(* publication of a snapshot runs on the preparation thread and can fall   *)
(* into such a step: between the authentication of a request and the look  *)
(* at the owner of its endpoint, and between that and the check that a     *)
(* request which got a free slot makes right after it.                     *)
(***************************************************************************)
EXTENDS ProjectAdmission

CONSTANTS
    Endpoints,
    NoProject,      \* the credential is not valid, or the endpoint has no owner
    RateMode,       \* "none", "pool" (rate) or "group" (group_rate)
    LeaseEnforced,  \* the Runner has a serving lease
    MaxPeriods,     \* bound: serving periods of a behaviour
    MaxGenerations  \* bound: generations published in a behaviour

ASSUME RateModeAssumption ==
    /\ RateMode \in {"none", "pool", "group"}
    /\ LeaseEnforced \in BOOLEAN
    /\ NoProject \notin Projects

VARIABLES
    serving,    \* RunnerControlClient.synchronized
    period,     \* which synchronization_lost event is the current one
    applied,    \* a snapshot was applied in the current synchronization epoch
    generation, \* ArtifactStore._generation
    owner,      \* the _project_id of the endpoints of the published snapshot
    stage,      \* where the worker task of the request is, from none to closed
    endpoint,   \* the endpoint it is for
    entered,    \* the period whose event the middleware captured
    pinned,     \* <<owner, generation>> of the snapshot it authenticated with
    call,       \* the EVAL that charges the rate budget
    cancelled,  \* the worker was cancelled by the middleware
    response    \* what the client has seen

controlVars == <<serving, period, applied, generation, owner>>

requestVars == <<stage, endpoint, entered, pinned, call, cancelled, response>>

endpointVars == <<admissionVars, controlVars, requestVars>>

EndpointInit ==
    /\ Init
    /\ serving = FALSE
    /\ period = 0
    /\ applied = FALSE
    /\ generation = 0
    /\ owner = [e \in Endpoints |-> NoProject]
    /\ stage = [r \in Requests |-> "none"]
    /\ endpoint \in [Requests -> Endpoints]
    /\ entered = [r \in Requests |-> 0]
    /\ pinned = [r \in Requests |-> <<NoProject, 0>>]
    /\ call = [r \in Requests |-> "none"]
    /\ cancelled = [r \in Requests |-> FALSE]
    /\ response = [r \in Requests |-> "none"]

-----------------------------------------------------------------------------
(* The control client.                                                     *)

(* _revoke_synchronization: a lost stream, an expired or refused lease, the *)
(* start of a new stream or stop().  The event of the period is set for     *)
(* good, and an apply that is under way may no longer reopen serving.       *)
Revoke ==
    /\ serving \/ applied
    /\ serving' = FALSE
    /\ applied' = FALSE
    /\ UNCHANGED <<period, generation, owner, admissionVars, requestVars>>

(* Mutant of MayPublish: the snapshot is replaced under running requests. *)
MayPublishServing == TRUE

(* _apply_desired_state revokes first when there is a lease or a group rate. *)
MayPublish == (LeaseEnforced \/ RateMode = "group") => ~serving

(* ArtifactStore.publish, on the preparation thread.  A revocation while it *)
(* was prepared makes the epoch stale: published, but not applied.          *)
Publish ==
    /\ MayPublish
    /\ \/ UNCHANGED <<generation, owner>>
       \/ /\ generation < MaxGenerations
          /\ generation' = generation + 1
          /\ owner' \in [Endpoints -> Projects \cup {NoProject}]
    /\ \/ applied' = TRUE
       \/ applied' = applied
    /\ UNCHANGED <<serving, period, admissionVars, requestVars>>

(* _allow_synchronized_serving, and with a lease its first grant: a new     *)
(* event for a new period.                                                  *)
Allow ==
    /\ ~serving
    /\ applied
    /\ period < MaxPeriods
    /\ serving' = TRUE
    /\ period' = period + 1
    /\ UNCHANGED <<applied, generation, owner, admissionVars, requestVars>>

-----------------------------------------------------------------------------
(* The middleware and the worker of one request.                           *)

(* The event captured by the middleware is set. *)
Revoked(r) == ~serving \/ entered[r] # period

Go(r, s) == stage' = [stage EXCEPT ![r] = s]

(* RuntimeSynchronizationMiddleware: capture the event of the period and    *)
(* start the worker.  Without authority the answer is 503 and nothing runs. *)
Arrive(r, e) ==
    /\ stage[r] = "none"
    /\ call[r] # "sent"
    /\ serving
    /\ Go(r, "started")
    /\ endpoint' = [endpoint EXCEPT ![r] = e]
    /\ entered' = [entered EXCEPT ![r] = period]
    /\ call' = [call EXCEPT ![r] = "none"]
    /\ UNCHANGED <<admissionVars, controlVars, pinned, cancelled, response>>

Owner(r) == owner[endpoint[r]]

(* _authenticate_endpoint pins the snapshot the request will run on. *)
Authenticate(r) ==
    /\ stage[r] = "started"
    /\ IF Owner(r) = NoProject
       THEN Go(r, "responding") /\ UNCHANGED pinned
       ELSE Go(r, "authenticated") /\ pinned' = [pinned EXCEPT ![r] = <<Owner(r), generation>>]
    /\ UNCHANGED <<admissionVars, controlVars, endpoint, entered, call, cancelled, response>>

(* EndpointAdmission.acquire goes on without an await: nothing is acquired  *)
(* without authority, a valid credential and an owner.                      *)
Refuse(r) ==
    /\ stage[r] = "authenticated"
    /\ ~serving \/ Owner(r) = NoProject
    /\ Go(r, "responding")
    /\ UNCHANGED <<admissionVars, controlVars, endpoint, entered, pinned, call, cancelled, response>>

(* Past the permit: either the charge is sent, or the execution starts. *)
GoOn(r) ==
    IF RateMode = "none"
    THEN Go(r, "executing") /\ UNCHANGED call
    ELSE Go(r, "charging") /\ call' = [call EXCEPT ![r] = "sent"]

(* The owner is resolved and ProjectAdmission.acquire called.  A free slot  *)
(* is taken without an await: only a publication comes before the recheck.  *)
BeginAdmitted(r) ==
    /\ stage[r] = "authenticated"
    /\ serving
    /\ Owner(r) # NoProject
    /\ AcquireNow(r, Owner(r))
    /\ Go(r, "rechecking")
    /\ UNCHANGED <<controlVars, endpoint, entered, pinned, call, cancelled, response>>

(* Mutant of BeginQueued: the authority is first looked at after the queue. *)
BeginQueuedUnchecked(r) ==
    /\ stage[r] = "authenticated"
    /\ Owner(r) # NoProject
    /\ AcquireQueued(r, Owner(r))
    /\ Go(r, "admission")
    /\ UNCHANGED <<controlVars, endpoint, entered, pinned, call, cancelled, response>>

BeginQueued(r) ==
    /\ stage[r] = "authenticated"
    /\ serving
    /\ Owner(r) # NoProject
    /\ AcquireQueued(r, Owner(r))
    /\ Go(r, "admission")
    /\ UNCHANGED <<controlVars, endpoint, entered, pinned, call, cancelled, response>>

BeginRejected(r) ==
    /\ stage[r] = "authenticated"
    /\ serving
    /\ Owner(r) # NoProject
    /\ AcquireRejected(r, Owner(r))
    /\ Go(r, "responding")
    /\ UNCHANGED <<controlVars, endpoint, entered, pinned, call, cancelled, response>>

(* The checks after every wait: authority, owner and, with a group rate,    *)
(* the whole allocation the request was validated against (which is what it *)
(* authenticated with: then nothing is published while the Runner serves).  *)
StillCurrent(r) ==
    /\ serving
    /\ Owner(r) = project[r]
    /\ RateMode = "group" => pinned[r] = <<Owner(r), generation>>

(* What a request with its slot does; a stale one is unwound. *)
CheckAndGoOn(r) ==
    /\ IF StillCurrent(r) THEN GoOn(r) ELSE Go(r, "releasing") /\ UNCHANGED call
    /\ UNCHANGED <<controlVars, endpoint, entered, pinned, cancelled, response>>

(* The free slot was taken in this very step of the event loop, ... *)
Recheck(r) ==
    /\ stage[r] = "rechecking"
    /\ CheckAndGoOn(r)
    /\ UNCHANGED admissionVars

(* ... or the waiter runs with the slot it was granted. *)
Admitted(r) ==
    /\ stage[r] = "admission"
    /\ Resume(r)
    /\ CheckAndGoOn(r)

QueueTimeout(r) ==
    /\ stage[r] = "admission"
    /\ Interrupt(r)
    /\ UNCHANGED <<controlVars, requestVars>>

(* Where the task goes when acquire() or the handler has cleaned up. *)
AfterCleanUp(r) == IF cancelled[r] THEN "fenced" ELSE "responding"

LeaveQueue(r) ==
    /\ stage[r] = "admission"
    /\ CancelWaiter(r)
    /\ Go(r, AfterCleanUp(r))
    /\ UNCHANGED <<controlVars, endpoint, entered, pinned, call, cancelled, response>>

(* Redis runs the EVAL at any time after it was sent, also when nobody      *)
(* waits for the answer any more.                                           *)
RedisAnswers(r) ==
    /\ call[r] = "sent"
    /\ \E outcome \in {"charged", "refused"} : call' = [call EXCEPT ![r] = outcome]
    /\ UNCHANGED <<admissionVars, controlVars, stage, endpoint, entered, pinned, cancelled, response>>

(* The answer arrives: the checks are made again, and a charge is never     *)
(* given back.                                                              *)
Charged(r) ==
    /\ stage[r] = "charging"
    /\ call[r] = "charged"
    /\ Go(r, IF StillCurrent(r) THEN "executing" ELSE "releasing")
    /\ UNCHANGED <<admissionVars, controlVars, endpoint, entered, pinned, call, cancelled, response>>

(* rate_limited; or the answer is late, lost or not understood, which says  *)
(* nothing about the charge: AdmissionUnavailable, and never a retry.       *)
ChargeFails(r) ==
    /\ stage[r] = "charging"
    /\ Go(r, "releasing")
    /\ UNCHANGED <<admissionVars, controlVars, endpoint, entered, pinned, call, cancelled, response>>

(* The handler ends, well or with an exception: its `finally` is next. *)
Finish(r) ==
    /\ stage[r] = "executing"
    /\ Go(r, "releasing")
    /\ UNCHANGED <<admissionVars, controlVars, endpoint, entered, pinned, call, cancelled, response>>

(* _release_project_permit, shielded. *)
ReleasePermit(r) ==
    /\ stage[r] = "releasing"
    /\ Release(r)
    /\ Go(r, AfterCleanUp(r))
    /\ UNCHANGED <<controlVars, endpoint, entered, pinned, call, cancelled, response>>

(* The test of checked_send. *)
Sendable(r) == serving /\ ~Revoked(r)

(* A message of the worker: the response of a handler that has released its *)
(* permit, or a frame of a stream that still holds it.                      *)
Send(r) ==
    /\ stage[r] \in {"executing", "responding"}
    /\ response[r] \in {"none", "headers"}
    /\ Sendable(r)
    /\ response' = [response EXCEPT ![r] = IF @ = "none" THEN "headers" ELSE "complete"]
    /\ UNCHANGED <<admissionVars, controlVars, stage, endpoint, entered, pinned, call, cancelled>>

(* checked_send raises _SynchronizationLost in the worker. *)
SendRefused(r) ==
    /\ stage[r] \in {"executing", "responding"}
    /\ response[r] \in {"none", "headers"}
    /\ ~Sendable(r)
    /\ Go(r, IF stage[r] = "executing" THEN "releasing" ELSE "fenced")
    /\ cancelled' = [cancelled EXCEPT ![r] = TRUE]
    /\ UNCHANGED <<admissionVars, controlVars, endpoint, entered, pinned, call, response>>

Complete(r) ==
    /\ stage[r] = "responding"
    /\ response[r] = "complete"
    /\ Go(r, "closed")
    /\ UNCHANGED <<admissionVars, controlVars, endpoint, entered, pinned, call, cancelled, response>>

(* Mutant of Unwind: the cancelled handler forgets its permit. *)
UnwindWithoutRelease(r) ==
    CASE stage[r] \in {"started", "responding", "charging", "executing"} -> "fenced"
      [] OTHER -> stage[r]

(* Where a cancellation takes the worker: clean-ups are shielded and go on. *)
Unwind(r) ==
    CASE stage[r] \in {"started", "responding"} -> "fenced"
      [] stage[r] \in {"charging", "executing"} -> "releasing"
      [] OTHER -> stage[r]

(* Mutant of CancelWorker: a waiter that was granted meanwhile is not told. *)
CancelWorkerUnlessGranted(r) ==
    /\ stage[r] \in {"started", "admission", "charging", "executing", "releasing", "responding"}
    /\ Revoked(r)
    /\ ~cancelled[r]
    /\ cancelled' = [cancelled EXCEPT ![r] = TRUE]
    /\ Go(r, Unwind(r))
    /\ IF pc[r] = "queued" /\ ~granted[r] THEN Interrupt(r) ELSE UNCHANGED admissionVars
    /\ UNCHANGED <<controlVars, endpoint, entered, pinned, call, response>>

(* The lost event wakes the middleware, which cancels the worker.  A waiter *)
(* is interrupted also when its grant was made and it has not run yet.      *)
CancelWorker(r) ==
    /\ stage[r] \in {"started", "admission", "charging", "executing", "releasing", "responding"}
    /\ Revoked(r)
    /\ ~cancelled[r]
    /\ cancelled' = [cancelled EXCEPT ![r] = TRUE]
    /\ Go(r, Unwind(r))
    /\ IF pc[r] = "queued" THEN Interrupt(r) ELSE UNCHANGED admissionVars
    /\ UNCHANGED <<controlVars, endpoint, entered, pinned, call, response>>

(* The middleware answers for a worker that is gone: 503 when nothing was   *)
(* sent, a broken transport when only headers were.                         *)
Answer(r) ==
    /\ stage[r] = "fenced"
    /\ Go(r, "closed")
    /\ response' = [response EXCEPT ![r] =
                       CASE @ = "none" -> "refused" [] @ = "headers" -> "aborted" [] OTHER -> @]
    /\ UNCHANGED <<admissionVars, controlVars, endpoint, entered, pinned, call, cancelled>>

(* The request is over, and its permit and its locals with it. *)
Depart(r) ==
    /\ stage[r] = "closed"
    /\ Go(r, "none")
    /\ IF pc[r] = "released" THEN Forget(r) ELSE UNCHANGED admissionVars
    /\ entered' = [entered EXCEPT ![r] = 0]
    /\ pinned' = [pinned EXCEPT ![r] = <<NoProject, 0>>]
    /\ cancelled' = [cancelled EXCEPT ![r] = FALSE]
    /\ response' = [response EXCEPT ![r] = "none"]
    /\ UNCHANGED <<controlVars, endpoint, call>>

(* The event loop is inside the handler of a request. *)
Busy == \E r \in Requests : stage[r] \in {"authenticated", "rechecking"}

Acquires(r) ==
    \/ Refuse(r)
    \/ BeginAdmitted(r)
    \/ BeginQueued(r)
    \/ BeginRejected(r)
    \/ Recheck(r)

WorkerStep(r) ==
    \/ Authenticate(r)
    \/ Admitted(r)
    \/ LeaveQueue(r)
    \/ Charged(r)
    \/ ReleasePermit(r)
    \/ Send(r)
    \/ SendRefused(r)
    \/ Complete(r)
    \/ Answer(r)
    \/ Depart(r)

EventLoop ==
    \/ Revoke
    \/ Allow
    \/ \E r \in Requests :
          \/ \E e \in Endpoints : Arrive(r, e)
          \/ WorkerStep(r)
          \/ QueueTimeout(r)
          \/ ChargeFails(r)
          \/ Finish(r)
          \/ CancelWorker(r)

EndpointNext ==
    \/ Publish
    \/ \E r \in Requests : RedisAnswers(r) \/ Acquires(r)
    \/ ~Busy /\ EventLoop

EndpointSpec == EndpointInit /\ [][EndpointNext]_endpointVars

(***************************************************************************)
(* The event loop runs the tasks that are ready, the watcher of the lost   *)
(* event among them, and is never busy for ever.  Nothing obliges an       *)
(* execution to end by itself, Redis to answer, or a queue to time out.    *)
(***************************************************************************)
EndpointFairness ==
    \A r \in Requests :
        /\ WF_endpointVars(Acquires(r))
        /\ WF_endpointVars(WorkerStep(r))
        /\ WF_endpointVars(CancelWorker(r))

EndpointFairSpec == EndpointSpec /\ EndpointFairness

-----------------------------------------------------------------------------
(* "Do not charge one project and then execute under another snapshot"      *)
(* (EndpointAdmission.acquire): the snapshot a request runs on was          *)
(* authenticated for the project that is charged for it.                    *)
ChargedForItsSnapshot ==
    \A r \in Requests : stage[r] = "executing" => pinned[r][1] = project[r]

(* With a lease or a group rate the fence makes that comment true: a        *)
(* snapshot is published only without authority, so between authentication  *)
(* and charge the owner cannot change, and work that survives the loss of   *)
(* its period is checked again.  Whoever charges or executes does it for    *)
(* the project its snapshot was authenticated for, in whatever period.      *)
FencedChargesMatch ==
    (LeaseEnforced \/ RateMode = "group") =>
        \A r \in Requests :
            stage[r] \in {"admission", "charging", "executing"} => pinned[r][1] = project[r]

(* With a lease or a group rate every snapshot change is fenced: a request  *)
(* whose period is still current runs on the allocation that is published.  *)
CurrentWhileServing ==
    \A r \in Requests :
        (stage[r] = "executing" /\ ~Revoked(r) /\ (LeaseEnforced \/ RateMode = "group"))
        => pinned[r] = <<owner[endpoint[r]], generation>>

(* A request owns a slot exactly while its worker charges, executes or has  *)
(* still to clean up, whatever cancelled it: none is leaked, none is used   *)
(* after it was given back.                                                 *)
PermitFollowsWork ==
    \A r \in Requests :
        /\ stage[r] \in {"rechecking", "charging", "executing", "releasing"} => pc[r] = "holding"
        /\ stage[r] \in {"none", "started", "authenticated", "responding", "fenced", "closed"} => ~HasPermit(r) /\ ~Waiting(r)

(* Once the middleware has cancelled a worker (synchronization.py) it never *)
(* charges, executes or responds any more, and a grant that raced the       *)
(* cancellation is given back unused, although the shielded future keeps it *)
(* (ProjectAdmission.acquire) and authority may be regained before the task *)
(* runs again.                                                              *)
CancelledWorkStops ==
    \A r \in Requests :
        cancelled[r] => /\ stage[r] \in {"admission", "releasing", "fenced", "closed"}
                        /\ pc[r] # "queued"

(* After the loss of its period a request leaves the Runner, queued,        *)
(* charging or executing, and its slot is free again.                       *)
FencedWorkLeaves ==
    \A r \in Requests :
        (stage[r] # "none" /\ Revoked(r)) ~> (stage[r] = "none" /\ ~HasPermit(r))
=============================================================================
