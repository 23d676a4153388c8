---------------------------- MODULE ServingLease ----------------------------
(***************************************************************************)
(* The serving lease between the Controller and one Runner that enforces   *)
(* it.                                                                     *)
(*                                                                         *)
(*   Runner: the lease object (runner/serving_lease.py) and the control    *)
(*   client that applies snapshots, acknowledges them and renews the lease *)
(*   (runner/control_client.py).                                           *)
(*   Controller: snapshot dispatch, acknowledgement and grants on a stream *)
(*   (control-channel/control-server.ts), the session rows                 *)
(*   (services/runner-control-sessions.ts) and the grant ledger            *)
(*   (services/runner-lease-ledger.ts).                                    *)
(*                                                                         *)
(* A stream is FIFO and dies as a whole; the Runner handles a lease        *)
(* response before the desired states that arrived earlier.  An await of   *)
(* the Controller and a database transaction end a step.  One clock stands *)
(* for CLOCK_BOOTTIME and for the database's clock: the ledger's allowance *)
(* for their difference is the constant Uncertainty.                       *)
(***************************************************************************)
EXTENDS Integers, Sequences, FiniteSets

CONSTANTS
    Duration,        \* LEASE_PROBE_DURATION_MS, and the Runner's maximum
    Uncertainty,     \* LEASE_PROBE_UNCERTAINTY_MS
    ResponseTimeout, \* _LEASE_RESPONSE_TIMEOUT_SECONDS
    MaxTime,         \* bound: the clock
    MaxGeneration,   \* bound: desired generations
    MaxSessions,     \* bound: control streams
    MaxSnapshots,    \* bound: dispatched snapshots
    MaxNonce         \* bound: lease challenges

ASSUME LeaseAssumption ==
    /\ Duration \in Nat \ {0}
    /\ Uncertainty \in Nat
    /\ ResponseTimeout \in Nat
    /\ MaxGeneration \in Nat

VARIABLES
    now,         \* the clock
    desired,     \* controllerState.desiredGeneration
    leftAt,      \* when the desired generation moved past each generation
    session,     \* runnerInstances.controlSessionId, 0 when disconnected
    row,         \* the snapshot columns of that control session
    grants,      \* runnerServingGrants
    conn,        \* the session of the registered connection, 0 for none
    dispatching, \* the snapshot between its transaction and its message
    pendingSnapshot,
    verifiedSnapshot,
    lastReconcile, \* lastReconcileGeneration
    handling,    \* messages of the Runner between two awaits of their handlers
    up,          \* messages of the stream to the Controller
    down,        \* messages of the stream to the Runner
    sessions, snapshots, nonces, \* how many were used
    stream,      \* the Runner's stream, 0 between two
    inbox,       \* desired states waiting for the consumer
    applying,    \* the desired state being applied
    store,       \* ArtifactStore._generation
    lease,       \* the ServingLease object and _synchronized
    snapshotNonce, ready, \* _lease_snapshot_nonce, _lease_snapshot_ready
    pending,     \* _pending_lease
    loop,        \* where _lease_renewals is
    superseded,  \* the synchronization epoch changed since it challenged
    reconnect,   \* _lease_reconnect
    period,      \* serving periods started; identifies the loss event
    served       \* the last snapshot under which serving was granted

database == <<now, desired, leftAt, session, row, grants>>

connection == <<conn, dispatching, pendingSnapshot, verifiedSnapshot, lastReconcile, handling>>

counters == <<sessions, snapshots, nonces>>

runner == <<stream, inbox, applying, store, lease, snapshotNonce, ready, pending,
            loop, superseded, reconnect, period, served>>

vars == <<database, connection, up, down, counters, runner>>

None == 0

NoRow == [nonce |-> None, generation |-> None, acknowledged |-> "no"]

NoApply == [snapshot |-> None, generation |-> None, stale |-> FALSE]

NoChallenge == [nonce |-> None, generation |-> None, started |-> 0, snapshot |-> None, valid |-> FALSE]

\* ServingLease.revoke: the allocation goes with the authority.
NoLease == [synchronized |-> FALSE, expired |-> TRUE, deadline |-> 0, generation |-> None]

Init ==
    /\ now = 0
    /\ desired = 1
    /\ leftAt = [g \in 1..MaxGeneration |-> 0]
    /\ session = None
    /\ row = NoRow
    /\ grants = {}
    /\ conn = None
    /\ dispatching = None
    /\ pendingSnapshot = None
    /\ verifiedSnapshot = None
    /\ lastReconcile = None
    /\ handling = {}
    /\ up = <<>>
    /\ down = <<>>
    /\ sessions = 0
    /\ snapshots = 0
    /\ nonces = 0
    /\ stream = None
    /\ inbox = <<>>
    /\ applying = NoApply
    /\ store = 0
    /\ lease = NoLease
    /\ snapshotNonce = None
    /\ ready = FALSE
    /\ pending = NoChallenge
    /\ loop = "wait"
    /\ superseded = FALSE
    /\ reconnect = FALSE
    /\ period = 0
    /\ served = None

-----------------------------------------------------------------------------
(* The Runner's authority.                                                 *)

(* _expire_if_needed would revoke now. *)
Due == lease.deadline # 0 /\ now >= lease.deadline

(* RunnerControlClient.synchronized, as the fences read it. *)
Serving == lease.synchronized /\ ~lease.expired /\ ~Due

(* _revoke_synchronization: the flag, the lease with its allocation, the    *)
(* snapshot and the challenge all go; whoever captured the synchronization  *)
(* epoch earlier sees that it changed.                                      *)
Revoke ==
    /\ lease' = NoLease
    /\ snapshotNonce' = None
    /\ ready' = FALSE
    /\ pending' = NoChallenge
    /\ superseded' = TRUE

(* Mutant of ExpiredLease: the allocation outlives the authority. *)
ExpiredLeaseKeepsAllocation == [lease EXCEPT !.expired = TRUE, !.deadline = 0]

(* ServingLease.revoke, which knows nothing of the control client. *)
ExpiredLease == [NoLease EXCEPT !.synchronized = lease.synchronized]

(* The watchdog, or any reader of the lease after its deadline. *)
Expire ==
    /\ Due
    /\ lease' = ExpiredLease
    /\ pending' = [pending EXCEPT !.valid = FALSE]
    /\ UNCHANGED <<database, connection, up, down, counters, stream, inbox, applying, store,
                   snapshotNonce, ready, loop, superseded, reconnect, period, served>>

Tick ==
    /\ now < MaxTime
    /\ now' = now + 1
    /\ UNCHANGED <<desired, leftAt, session, row, grants, connection, up, down, counters, runner>>

-----------------------------------------------------------------------------
(* The stream.                                                             *)

(* _connect_once and the registration: a new session row, and a connection  *)
(* that replaces the old one if the Controller still has it.                *)
Connect ==
    /\ stream = None
    /\ applying = NoApply
    /\ sessions < MaxSessions
    /\ sessions' = sessions + 1
    /\ stream' = sessions + 1
    /\ session' = sessions + 1
    /\ row' = NoRow
    /\ conn' = sessions + 1
    /\ dispatching' = None
    /\ pendingSnapshot' = None
    /\ verifiedSnapshot' = None
    /\ lastReconcile' = None
    /\ reconnect' = FALSE
    /\ loop' = "wait"
    /\ Revoke
    /\ UNCHANGED <<now, desired, leftAt, grants, handling, up, down, snapshots, nonces,
                   inbox, applying, store, period, served>>

(* What the end of a stream does to the Runner, in `finally`. *)
EndStream ==
    /\ stream' = None
    /\ up' = <<>>
    /\ down' = <<>>
    /\ inbox' = <<>>
    /\ applying' = [applying EXCEPT !.stale = (applying # NoApply)]
    /\ loop' = "wait"
    /\ Revoke

(* The transport breaks, or the renewal loop cancels the stream. *)
Break ==
    /\ stream # None
    /\ EndStream
    /\ UNCHANGED <<database, connection, counters, store, reconnect, period, served>>

(* disconnected(): the Controller notices the end of the stream and stops   *)
(* using the connection at once ...                                         *)
Disconnected ==
    /\ conn # None
    /\ conn # stream
    /\ conn' = None
    /\ dispatching' = None
    /\ UNCHANGED <<database, pendingSnapshot, verifiedSnapshot, lastReconcile, handling, up, down,
                   counters, runner>>

(* ... and closes its session when the messages it accepted are dealt with, *)
(* unless a replacement has a session of its own.                           *)
Offline ==
    /\ session # None
    /\ session # conn
    /\ \A h \in handling : h.session # session
    /\ session' = None
    /\ UNCHANGED <<now, desired, leftAt, row, grants, connection, up, down, counters, runner>>

(* markStaleRunnersOffline: heartbeats came late, and the session is closed *)
(* while the stream and the connection live on.                             *)
MarkStale ==
    /\ session # None
    /\ session' = None
    /\ UNCHANGED <<now, desired, leftAt, row, grants, connection, up, down, counters, runner>>

(* A write to a stream that is gone is lost. *)
Write(s, m) == down' = IF s = stream THEN Append(down, m) ELSE down

-----------------------------------------------------------------------------
(* Snapshots.                                                              *)

(* Some transaction of the Controller advances the desired generation. *)
Advance ==
    /\ desired < MaxGeneration
    /\ desired' = desired + 1
    /\ leftAt' = [leftAt EXCEPT ![desired] = now]
    /\ UNCHANGED <<now, session, row, grants, connection, up, down, counters, runner>>

(* A rejected artifact, or the snapshot another Runner rejected, makes the   *)
(* Controller send this connection its desired state again.                 *)
ReconcileAgain ==
    /\ conn # None
    /\ snapshots < MaxSnapshots
    /\ lastReconcile' = None
    /\ UNCHANGED <<database, conn, dispatching, pendingSnapshot, verifiedSnapshot, handling, up, down,
                   counters, runner>>

(* reconcileOnce up to dispatchedAllocation: the session row gets the nonce *)
(* of the snapshot that is about to be sent.                                *)
Dispatch ==
    /\ conn # None
    /\ conn = session
    /\ dispatching = None
    /\ lastReconcile # desired
    /\ snapshots < MaxSnapshots
    /\ snapshots' = snapshots + 1
    /\ dispatching' = snapshots + 1
    /\ row' = [nonce |-> snapshots + 1, generation |-> desired, acknowledged |-> "no"]
    /\ UNCHANGED <<now, desired, leftAt, session, grants, conn, pendingSnapshot, verifiedSnapshot,
                   lastReconcile, handling, up, down, sessions, nonces, runner>>

(* ... and from there on: the connection forgets the verified snapshot. *)
SendSnapshot ==
    /\ dispatching # None
    /\ pendingSnapshot' = dispatching
    /\ verifiedSnapshot' = None
    /\ Write(conn, [type |-> "desired", snapshot |-> dispatching, generation |-> row.generation])
    /\ lastReconcile' = row.generation
    /\ dispatching' = None
    /\ UNCHANGED <<database, conn, handling, up, counters, runner>>

(* The reader of the stream passes a desired state to the consumer. *)
ReceiveSnapshot ==
    /\ down # <<>>
    /\ Head(down).type = "desired"
    /\ inbox' = Append(inbox, Head(down))
    /\ down' = Tail(down)
    /\ UNCHANGED <<database, connection, up, counters, stream, applying, store, lease, snapshotNonce,
                   ready, pending, loop, superseded, reconnect, period, served>>

(* Mutant of StartApply: the running period is not fenced first. *)
StartApplyServing ==
    /\ inbox # <<>>
    /\ applying = NoApply
    /\ applying' = [snapshot |-> Head(inbox).snapshot, generation |-> Head(inbox).generation, stale |-> FALSE]
    /\ inbox' = Tail(inbox)
    /\ UNCHANGED <<database, connection, up, down, counters, stream, store, lease, snapshotNonce,
                   ready, pending, loop, superseded, reconnect, period, served>>

(* _apply_desired_state revokes before it prepares anything. *)
StartApply ==
    /\ inbox # <<>>
    /\ applying = NoApply
    /\ applying' = [snapshot |-> Head(inbox).snapshot, generation |-> Head(inbox).generation, stale |-> FALSE]
    /\ inbox' = Tail(inbox)
    /\ Revoke
    /\ UNCHANGED <<database, connection, up, down, counters, stream, store, loop, reconnect, period, served>>

(* ArtifactStore.apply has published on its own thread; the caller returns  *)
(* because a revocation made its synchronization epoch stale.               *)
AbandonApply ==
    /\ applying # NoApply
    /\ applying.stale
    /\ \/ applying.generation >= store /\ store' = applying.generation
       \/ UNCHANGED store
    /\ applying' = NoApply
    /\ UNCHANGED <<database, connection, up, down, counters, stream, inbox, lease, snapshotNonce,
                   ready, pending, loop, superseded, reconnect, period, served>>

(* The snapshot is published, the allocation activated, and the ACK queued  *)
(* before a renewal is allowed.                                             *)
FinishApply ==
    /\ applying # NoApply
    /\ ~applying.stale
    /\ applying.generation >= store
    /\ store' = applying.generation
    /\ lease' = [NoLease EXCEPT !.synchronized = TRUE, !.generation = applying.generation]
    /\ snapshotNonce' = applying.snapshot
    /\ ready' = TRUE
    /\ up' = Append(up, [type |-> "ack", snapshot |-> applying.snapshot,
                         generation |-> applying.generation, accepted |-> TRUE])
    /\ applying' = NoApply
    /\ UNCHANGED <<database, connection, down, counters, stream, inbox, pending, loop, superseded,
                   reconnect, period, served>>

(* Verification or preparation fails: NACK, and _fail_lease. *)
RejectApply ==
    /\ applying # NoApply
    /\ ~applying.stale
    /\ up' = Append(up, [type |-> "ack", snapshot |-> applying.snapshot,
                         generation |-> applying.generation, accepted |-> FALSE])
    /\ applying' = NoApply
    /\ reconnect' = TRUE
    /\ Revoke
    /\ UNCHANGED <<database, connection, down, counters, stream, inbox, store, loop, period, served>>

(* The handlers of one stream run one after the other. *)
Idle == conn # None /\ conn = stream /\ up # <<>> /\ \A h \in handling : h.session # conn

(* desiredStateResult: only the latest snapshot of the stream, in memory    *)
(* and in the session row, is acknowledged, in a transaction ...            *)
Acknowledge ==
    LET m == Head(up)
        current == /\ pendingSnapshot = m.snapshot
                   /\ session = conn
                   /\ row.nonce = m.snapshot
                   /\ row.generation = desired
                   /\ row.acknowledged = "no"
        verdict == IF m.accepted THEN "accepted" ELSE "rejected"
    IN  /\ Idle
        /\ m.type = "ack"
        /\ up' = Tail(up)
        /\ IF current
           THEN /\ row' = [row EXCEPT !.acknowledged = verdict]
                /\ handling' = handling \cup {[session |-> conn, nonce |-> None, snapshot |-> m.snapshot,
                                               generation |-> m.generation, stage |-> verdict]}
           ELSE UNCHANGED <<row, handling>>
        /\ UNCHANGED <<now, desired, leftAt, session, grants, conn, dispatching, pendingSnapshot,
                       verifiedSnapshot, lastReconcile, down, counters, runner>>

(* ... after which the connection is only touched if that snapshot is still *)
(* the one it waits for.  A rejected snapshot is dispatched again.          *)
Acknowledged(h) ==
    /\ h.stage \in {"accepted", "rejected"}
    /\ handling' = handling \ {h}
    /\ IF conn = h.session /\ pendingSnapshot = h.snapshot
       THEN /\ pendingSnapshot' = None
            /\ verifiedSnapshot' = IF h.stage = "accepted" THEN h.snapshot ELSE None
            /\ lastReconcile' = IF h.stage = "accepted" THEN lastReconcile ELSE None
       ELSE UNCHANGED <<pendingSnapshot, verifiedSnapshot, lastReconcile>>
    /\ UNCHANGED <<database, conn, dispatching, up, down, counters, runner>>

-----------------------------------------------------------------------------
(* Leases.                                                                 *)

(* _lease_renewals: a challenge for the active allocation, timed before it  *)
(* is sent.                                                                 *)
Challenge ==
    /\ stream # None
    /\ loop = "wait"
    /\ ~reconnect
    /\ ready
    /\ snapshotNonce # None
    /\ lease.generation # None
    /\ ~Due
    /\ nonces < MaxNonce
    /\ nonces' = nonces + 1
    /\ pending' = [nonce |-> nonces + 1, generation |-> lease.generation, started |-> now,
                   snapshot |-> snapshotNonce, valid |-> TRUE]
    /\ up' = Append(up, [type |-> "lease", nonce |-> nonces + 1, snapshot |-> snapshotNonce,
                         generation |-> lease.generation])
    /\ superseded' = FALSE
    /\ loop' = "reply"
    /\ UNCHANGED <<database, connection, down, sessions, snapshots, stream, inbox, applying, store,
                   lease, snapshotNonce, ready, reconnect, period, served>>

(* challenge() finds no allocation, because the lease expired. *)
ChallengeFails ==
    /\ stream # None
    /\ loop = "wait"
    /\ ready
    /\ snapshotNonce # None
    /\ lease.generation = None \/ Due
    /\ reconnect' = TRUE
    /\ EndStream
    /\ UNCHANGED <<database, connection, counters, store, period, served>>

(* A failed lease asked for a new stream. *)
Reconnect ==
    /\ stream # None
    /\ reconnect
    /\ loop # "sleep"
    /\ EndStream
    /\ UNCHANGED <<database, connection, counters, store, reconnect, period, served>>

(* servingLeaseRequest: ignored when the session was closed, and refused at *)
(* once unless it names the verified snapshot of the connection.            *)
ReceiveRequest ==
    LET m == Head(up)
        bound == verifiedSnapshot # None /\ m.snapshot = verifiedSnapshot
    IN  /\ Idle
        /\ m.type = "lease"
        /\ up' = Tail(up)
        /\ \/ /\ session = conn /\ bound
              /\ handling' = handling \cup {[session |-> conn, nonce |-> m.nonce, snapshot |-> m.snapshot,
                                             generation |-> m.generation, stage |-> "issue"]}
              /\ UNCHANGED down
           \/ /\ session = conn /\ ~bound
              /\ Write(conn, [type |-> "lease", nonce |-> m.nonce, snapshot |-> m.snapshot, granted |-> FALSE])
              /\ UNCHANGED handling
           \/ /\ session # conn
              /\ UNCHANGED <<handling, down>>
        /\ UNCHANGED <<database, conn, dispatching, pendingSnapshot, verifiedSnapshot, lastReconcile,
                       counters, runner>>

(* Mutant of Grantable: the desired generation is not read in the transaction. *)
GrantableStale(h) ==
    /\ session = h.session
    /\ row.nonce = h.snapshot
    /\ row.generation = h.generation
    /\ row.acknowledged = "accepted"

(* What the transaction of issueSnapshotBound requires. *)
Grantable(h) ==
    /\ session = h.session
    /\ row.nonce = h.snapshot
    /\ row.generation = h.generation
    /\ row.acknowledged = "accepted"
    /\ desired = h.generation
    /\ \A g \in grants : g.nonce # h.nonce

(* conservativeExpiresAt. *)
ConservativeExpiry == now + Duration + Uncertainty

(* issueSnapshotBound commits a grant, or the request is refused. *)
Issue(h) ==
    /\ h.stage = "issue"
    /\ IF Grantable(h)
       THEN /\ grants' = grants \cup {[nonce |-> h.nonce, generation |-> h.generation,
                                       expires |-> ConservativeExpiry]}
            /\ handling' = (handling \ {h}) \cup {[h EXCEPT !.stage = "check"]}
            /\ UNCHANGED down
       ELSE /\ handling' = handling \ {h}
            /\ IF conn = h.session
               THEN Write(h.session, [type |-> "lease", nonce |-> h.nonce, snapshot |-> h.snapshot, granted |-> FALSE])
               ELSE UNCHANGED down
            /\ UNCHANGED grants
    /\ UNCHANGED <<now, desired, leftAt, session, row, conn, dispatching, pendingSnapshot,
                   verifiedSnapshot, lastReconcile, up, counters, runner>>

(* The reply is dropped when the connection or its snapshot was replaced    *)
(* meanwhile; the grant stays in the ledger either way.                     *)
Check(h) ==
    /\ h.stage = "check"
    /\ handling' = (handling \ {h}) \cup IF conn = h.session /\ verifiedSnapshot = h.snapshot
                                         THEN {[h EXCEPT !.stage = "send"]} ELSE {}
    /\ UNCHANGED <<database, conn, dispatching, pendingSnapshot, verifiedSnapshot, lastReconcile, up,
                   down, counters, runner>>

(* isCurrent reads the session once more, and the response is written. *)
Reply(h) ==
    /\ h.stage = "send"
    /\ handling' = handling \ {h}
    /\ IF session = h.session
       THEN Write(h.session, [type |-> "lease", nonce |-> h.nonce, snapshot |-> h.snapshot, granted |-> TRUE])
       ELSE UNCHANGED down
    /\ UNCHANGED <<database, conn, dispatching, pendingSnapshot, verifiedSnapshot, lastReconcile, up,
                   counters, runner>>

(* A response to another challenge says nothing. *)
IgnoreResponse ==
    /\ down # <<>>
    /\ Head(down).type = "lease"
    /\ Head(down).nonce # pending.nonce
    /\ down' = Tail(down)
    /\ UNCHANGED <<database, connection, up, counters, runner>>

(* Mutant of Deadline: the lease is timed from the receipt of the answer. *)
DeadlineFromReceipt == now + Duration

(* started_at + duration_seconds. *)
Deadline == pending.started + Duration

(* The tests of _accept_lease_response and ServingLease.accept. *)
Acceptable(m) ==
    /\ m.granted
    /\ m.snapshot = pending.snapshot
    /\ pending.snapshot = snapshotNonce
    /\ pending.valid
    /\ ~Due
    /\ pending.generation = lease.generation
    /\ now < Deadline

(* accept(): a first grant opens a new period, a renewal prolongs it. *)
AcceptResponse ==
    /\ down # <<>>
    /\ Head(down).type = "lease"
    /\ Head(down).nonce = pending.nonce
    /\ Acceptable(Head(down))
    /\ lease' = [lease EXCEPT !.expired = FALSE, !.deadline = Deadline]
    /\ period' = IF lease.expired THEN period + 1 ELSE period
    /\ served' = snapshotNonce
    /\ pending' = NoChallenge
    /\ down' = Tail(down)
    /\ UNCHANGED <<database, connection, up, counters, stream, inbox, applying, store, snapshotNonce,
                   ready, loop, superseded, reconnect>>

(* _fail_lease, for a refusal as well as for a late answer. *)
FailResponse ==
    /\ down # <<>>
    /\ Head(down).type = "lease"
    /\ Head(down).nonce = pending.nonce
    /\ ~Acceptable(Head(down))
    /\ reconnect' = TRUE
    /\ applying' = [applying EXCEPT !.stale = (applying # NoApply)]
    /\ Revoke
    /\ down' = Tail(down)
    /\ UNCHANGED <<database, connection, up, counters, stream, inbox, store, loop, period, served>>

(* The renewal loop runs after its reply event was set. *)
Renewed ==
    /\ stream # None
    /\ loop = "reply"
    /\ pending = NoChallenge
    /\ ~reconnect
    /\ superseded \/ Serving
    /\ loop' = IF superseded THEN "wait" ELSE "sleep"
    /\ UNCHANGED <<database, connection, up, down, counters, stream, inbox, applying, store, lease,
                   snapshotNonce, ready, pending, superseded, reconnect, period, served>>

(* No answer in time, or the authority is gone when the loop runs again. *)
GiveUp ==
    /\ stream # None
    /\ loop = "reply"
    /\ \/ pending # NoChallenge /\ now >= pending.started + ResponseTimeout
       \/ pending = NoChallenge /\ ~reconnect /\ ~superseded /\ ~Serving
    /\ reconnect' = TRUE
    /\ EndStream
    /\ UNCHANGED <<database, connection, counters, store, period, served>>

(* asyncio.sleep(1.0) *)
Wake ==
    /\ loop = "sleep"
    /\ loop' = "wait"
    /\ UNCHANGED <<database, connection, up, down, counters, stream, inbox, applying, store, lease,
                   snapshotNonce, ready, pending, superseded, reconnect, period, served>>

Next ==
    \/ Tick
    \/ Expire
    \/ Connect
    \/ Break
    \/ Disconnected
    \/ Offline
    \/ MarkStale
    \/ Advance
    \/ ReconcileAgain
    \/ Dispatch
    \/ SendSnapshot
    \/ ReceiveSnapshot
    \/ StartApply
    \/ AbandonApply
    \/ FinishApply
    \/ RejectApply
    \/ Acknowledge
    \/ Challenge
    \/ ChallengeFails
    \/ Reconnect
    \/ ReceiveRequest
    \/ \E h \in handling : Acknowledged(h) \/ Issue(h) \/ Check(h) \/ Reply(h)
    \/ IgnoreResponse
    \/ AcceptResponse
    \/ FailResponse
    \/ Renewed
    \/ GiveUp
    \/ Wake

Spec == Init /\ [][Next]_vars

-----------------------------------------------------------------------------
(* "Controller must durably track grants" (serving_lease.py): as long as a  *)
(* Runner serves, the ledger has a grant for the generation it serves that  *)
(* runs out no earlier than the Runner's deadline, whatever was delayed,    *)
(* lost, replaced or not answered on the way.                               *)
AuthorityIsInTheLedger ==
    Serving => \E g \in grants :
                  g.generation = lease.generation /\ lease.deadline <= g.expires - Uncertainty

(* Once the Controller has moved past a generation, no Runner serves it for *)
(* longer than one lease: nothing is granted for it any more, and delay     *)
(* does not extend what was granted.                                        *)
StaleServingBounded ==
    (Serving /\ lease.generation < desired) => now < leftAt[lease.generation] + Duration

(* "A missed renewal cannot silently revive an expired serving period": a   *)
(* new period only starts on a snapshot that was applied after every        *)
(* earlier period, never on a late response or a cached allocation.         *)
NoRevival == [][period' # period => snapshotNonce > served]_vars

(* While the Runner serves, the store holds the very generation the lease   *)
(* was granted for, and no other is being published.                        *)
ServesWhatWasGranted == Serving => (store = lease.generation /\ applying = NoApply)
=============================================================================
