# Verification of TaskLattice Guard

TLA+ models of the parts of TaskLattice Guard that decide *who may serve what,
when, and at whose expense*: the admission of requests on a Runner, the serving
authority a Runner holds from the Controller, the rate budgets Runners share,
the gates in front of each model and of the Controller's own work, the change
requests that decide what Routers send traffic to, the protection modes that
operators switch, and the log that keeps the evidence of what happened. Every
definition is translated from the code and names its lines in `PROJECT.json`
(`map`).

## The system

A **Controller** (TypeScript, PostgreSQL) owns projects, guardrails, endpoints
and their desired state. **Runners** (Python, one asyncio loop each) keep a
control stream to it, apply snapshots of the desired state, and protect the
traffic of the endpoints in them. Runners may share rate budgets in **Redis**
and send evidence back to the Controller.

| Component | State | Operations | Hard because | Correct when |
|---|---|---|---|---|
| Project admission (`runner/project_admission.py`) | active counts, per-project deques, round-robin order | acquire, timeout, cancel, release, dispatch | a waiter can be granted and cancelled at once; clean-up is shielded and waits for the lock | counts are the permits out, caps hold, no slot idles, nobody starves |
| Endpoint admission and fence (`project_admission.py`, `synchronization.py`, `api.py`, `scan.py`) | the request's stage, its pinned snapshot, its serving period | authenticate, acquire, charge, execute, send, cancel | authority, owner and allocation are read before two waits; snapshots are published by another thread | who charges or executes does it for the project that was authenticated, cancelled work does nothing more, no permit leaks |
| Serving lease (`serving_lease.py`, `control_client.py`, `control-server.ts`, `runner-control-sessions.ts`, `runner-lease-ledger.ts`) | lease, challenge, session row, ledger, stream | connect, dispatch, apply, acknowledge, challenge, grant, expire | streams are lost and replaced between any two steps of either side | a serving Runner is covered by a grant, and outlives a generation by at most one lease |
| Telemetry WAL (`telemetry.py`, `telemetry_budget.py`, `telemetry-batches.ts`) | WAL, rejected WAL, lock, batch, budget | emit, flush, quarantine | worker threads outlive their cancelled handlers; crashes; ambiguous answers | nothing promised is lost, and the backlog drains |
| Redis rate admission (`distributed_rate_admission.py`, `group_rate_admission.py`) | policy hash, sorted sets | provision, admit | lost answers, a clock that is set back, evicted keys | no window exceeds its limit, and Retry-After is long enough |
| Model gate (`model_concurrency.py`) | limit, active, deque of futures | configure, acquire, release | the cap moves from another thread; cancellation after the grant | the counter is exact and no wakeup is lost |
| Protection modes (`protection-modes.ts`, `control-server.ts`, `control_client.py`, `artifact_store.py`) | mode and its generation, applied mode, Runner rows, connections, overlay file | change, read, send, take over or refuse, report, declare | two passes per stream, streams that are lost and replaced, results recorded by transactions that do not see each other | a declared mode is in effect, overlays never go back, a Runner that returns serves under the modes asked for |
| Keyed work queue (`work-queue.ts`) | entries, queue, active passes | run, pump, finish | triggers during a pass, shared ceiling | no trigger is lost, no key starves |
| Report budget (`report-budget.ts`) | active jobs, bytes, queue | acquire, time out, release, pump | a large head of the line that gives up | memory is bounded, nobody waits for what is free |
| Traffic routing and publication (`traffic-routing.ts`, `control-plane.ts`, `guardrail-packages.ts`) | Routers, drafts, change requests, revisions, bindings, versions, generation | save, submit, approve, revert, restore, bind, delete (Routers, Endpoints, Guardrails, versions), publish, release, import | a decision is made long after its review, deletions look at references, Runners lag behind | what is routed exists, the rollback stays possible, *active* is what is served |
| Control client and server, the rest | validation and compilation jobs, report spools | dispatch, cancel, upload, acknowledge | overlapping timers, retries | not modelled |
| Artifact store | artifacts, routes, endpoints, generation | apply, restore, publish | persisted before it is published | publication and the overlay are modelled, restore of desired states is not |
| Credentials, groups, model activation | PostgreSQL rows | one transaction each, linked by generations and an outbox | activations that wait for several Runners | not modelled |

Interactions. A request passes the fence, is authenticated against the
snapshot the control client published, takes a slot of project admission, is
charged in Redis, waits for model gates while it executes, leaves evidence in
the WAL and sends its response through the fence. What the snapshot routes to
was approved in a change request, and the mode under which it is evaluated comes
as an overlay of its own on the same stream. The lease decides when the
fence is open; a new snapshot, a lost stream or an expired lease closes it and
cancels the work behind it. `PROJECT.json` lists every component, including
those left out with the reason, and every hazard with its line.

## Modules

| Module | Models | Checked by |
|---|---|---|
| `ProjectAdmission` | `ProjectAdmission`, `AdmissionPermit`; `_dispatch_locked` as one choice: the first eligible project of the round-robin order | `MCProjectAdmission` |
| `ProjectAdmissionLoop` | the `while` loop of `_dispatch_locked`, iteration by iteration, as a recursive function; it implements `ProjectAdmission` | `MCProjectAdmissionLoop` |
| `EndpointAdmission` | the path of a request; composes `ProjectAdmission` with the fence, the published snapshot and the Redis charge | `MCEndpointAdmission` |
| `AdmissionProofs` | theorems about `ProjectAdmission` and `EndpointAdmission` | TLAPS |
| `ServingLease` | Runner and Controller sides of a lease, and the stream between them | `MCServingLease` |
| `ServingLeaseProofs` | theorems about `ServingLease` | TLAPS |
| `TelemetryWal` | exporter, its threads, its files, the Controller's commits | `MCTelemetryWal` |
| `TelemetryWalProofs` | theorems about `TelemetryWal` | TLAPS |
| `RateAdmission` | the Redis scripts and their client, pool and group mode alike | `MCRateAdmission` |
| `RateAdmissionProofs` | theorems about `RateAdmission` | TLAPS |
| `ModelGate` | one model's gate on one event loop | `MCGates` |
| `CoalescedWork` | what `KeyedWorkQueue` promises its callers, as an abstract specification | through `WorkQueue` |
| `WorkQueue` | `KeyedWorkQueue`, shown to implement `CoalescedWork` | `MCGates` |
| `ReportBudget` | `ReportBudget` of one Controller | `MCGates` |
| `GatesProofs` | theorems about `ModelGate`, `WorkQueue` and `ReportBudget`, and the refinement of `CoalescedWork` | TLAPS |
| `RouterChanges` | Routers, change requests, revisions, Guardrail versions, and what Runners apply and report of them | `MCRouterChanges` |
| `RouterChangesProofs` | theorems about `RouterChanges` | TLAPS |
| `ProtectionSync` | protection modes from the operator's change to the Runners and back | `MCProtectionSync` |
| `ProtectionSyncProofs` | theorems about `ProtectionSync` | TLAPS |
| `QueueLemmas` | lemmas the proofs share: queues without duplicates, least and greatest of a set of naturals, the cardinality of what one element changes | TLAPS |

Conventions. A step is what a task does between two awaits, one transaction, one
Redis script, or one system call of a worker thread, whichever the code makes
atomic. Operators named *Mutant of ...* are plausible bugs of the definition
below them: with the mutant in its place, the property it is listed with fails.
Every bound is a constant named `Max...` and appears in the guard it bounds.

**ProjectAdmission.** `pc[r]` is where a request is: queued, granted but not
yet running, interrupted (its clean-up waits for the lock), holding, released.
`_lock` is only held between awaits, so a locked section is one step. The
shield around a waiter's future is what makes *granted and then cancelled* a
state of its own (`CancelGranted`).

**EndpointAdmission.** `period` names the `synchronization_lost` event: a
request keeps the number of the one it captured. `pinned` is the snapshot it
authenticated with. Handlers of LiteLLM, scan and output stream differ in what
they evaluate, not in how they hold and release their permit, so one execution
stands for them. A permit that is granted at once is a step of its own
(`BeginAdmitted`), and `Recheck` looks at the owner and the authority again after
it, as it does for a waiter. That no byte of one period is sent in the next is the
guard of `Send`, tested by `checked_send` before every message. `Publish` is a step of the preparation thread and the only one
that can come between `Authenticate` and the owner look-up of the same handler.

**ServingLease.** `handling` holds messages whose handlers await something, so
that a session can be replaced between the check, the grant and the answer.
One clock stands for the Runner's `CLOCK_BOOTTIME` and the database's; what the
ledger adds for their difference is `Uncertainty`. The model has one Runner: grants are
bound to a session, and different Runners share only `desired` and the order to
send everybody the desired state again when one of them rejects it
(`ReconcileAgain`, which also stands for a rejected artifact). `MarkStale` is the
sweep that closes a session whose stream and connection live on; what comes over
that stream afterwards is dropped.

**TelemetryWal.** A line is the set of parts whose bytes are in it, whether it
parses and whether it has its newline, so half-written lines and lines that
swallow the next one are ordinary states. A write is cut anywhere: within the
text, which then does not parse, or just before the newline, which leaves a line
that parses and that the next append goes on in (`WriteHalf`). `_read_lines`
returns texts, so a batch has no newlines (`ReadLines`). Weights stand for encoded
sizes.

**RateAdmission.** Scripts are atomic in Redis. `Scope` says which keys a
request names; that is all the pool and the group script differ in. Time is in
milliseconds, of which `Second` make a second: `Delay` is what the script
returns, `Seconds` what the client makes of it, at least one and rounded up. A
policy is provisioned when none of the keys that it names exists (`StateKeys`).
The loss of the whole database, after which an operator provisions again, is not
modelled.

**ModelGate.** `_wake` pops until the cap is reached or the deque is empty and
drops futures that are done: `Popped` is how far it gets, in one step, because
nothing in it awaits.

**WorkQueue** and **CoalescedWork.** The abstract specification knows calls and
passes only: a call is *owed* a pass until one begins after it, then *covered*,
and is answered only when it is covered; no more passes run than the ceiling,
never two of a key, and a pass that is owed begins. `WorkQueue` has the entries,
the `again` flag and the queue of the code, and a history variable `fresh` for
the calls that a pass began after; `Promise` is the refinement mapping. `pump`
starts several passes in one step, so a turn of the abstract queue may too. A
pass settles its promise whether it fails or not, so outcomes are left out.

**ReportBudget.** Each action is what happens between two awaits. Jobs that are
too large, or find the queue full, are refused and change nothing. The bytes of
the jobs at work are counted as the set of their (job, byte) pairs.

**RouterChanges.** A snapshot is abstracted to how it uses each version: `on`
(weight on an enabled Route), `off` (weight on a disabled one), `idle` (weight
zero) or `none`, because `resolvePublication`, `runtimeSnapshots` and the
reference checks tell exactly these apart. `savedAs` says whether the draft
still has the draft revision that was published or submitted; `recentFrom` and
`touched` are the five-minute windows, which `Age` lets pass. A revision's
number is its key, so deleted revisions leave gaps, as in the table. Runners
apply the projection of one generation (`ApplyState`) and report it later
(`Heartbeat`); `known` and `fresh` are what the Controller has of that. A deleted
Endpoint is bound to `SoftDeleted` and leaves the projection; the deletion
advances the generation of the Controller and not that of the Router. One
project is modelled, so the owner check of `runtimeSnapshots` has nothing to
refuse. `versionReferences` keeps the retirement with the latest `created_at`,
the model looks at all of them: that is the same as long as publications commit
in the order in which their transactions began, which the order of generations
stands for here. Checks that only refuse more (selectors, imports, calls in flight, roles) are left out.

**ProtectionSync.** Rows, connections and Runner processes are separate, and a
stream can be lost, replaced, swept or restarted between any two steps. Its
reductions: `desiredState` locks the generation before it reads the modes, so
both are one read; an overlay is on its way from the read of a pass until the
Runner takes it, and lost with its stream; an accepted result says what the next
heartbeat says and is one with it; passes and heartbeats that change nothing are
left out. The transaction of `recordResult` is two steps: in the first it writes
its row and reads the Guardrail and the other rows, in the second it commits
what it decided; transactions that are open at once therefore miss each other's
row, as under read committed. The operator's request begins an overlay pass for
the streams of its own Controller (`Local`); the other Controller has only its
timers. The Guardrail stays published, and a heartbeat that is late is `Sweep`.
`PassInVain` ends a full pass whose session was closed. In the code the pass goes
on after the overlay was skipped, and stops where `dispatchedAllocation` finds no
open session (`control-server.ts:895`); that is so for Runners that acknowledge
snapshots, as the Runner of this repository always does.

## What the runs check

| Run | Shows | Bounds |
|---|---|---|
| `project_admission` | counters, caps, work conservation, consistent and bounded queues, round-robin order | 3 projects, 5 requests, 2 slots: a capped project in front of an eligible one, and cancelled waiters in both |
| `dispatch_loop` | the loop implements the one-step dispatch (refinement, from every reachable state); no starvation | 3 projects, 4 requests: the loop skips, grants and stops for each of its three reasons |
| `endpoint_pool` | permits follow work; a cancelled worker neither charges, executes nor responds, and gives back a grant that raced its cancellation | 1 slot, 2 requests, 2 projects, 2 periods, 2 published generations: an endpoint can move away and back while a request waits; a third request is followed while it finds the queue full (`ThirdIsTurnedAway`) |
| `endpoint_fenced_leaves` | with a lease: work in a current period runs on the published allocation, whoever charges or executes does it for the project it authenticated for, and fenced work leaves | 2 requests, without Redis |
| `endpoint_snapshot_race` | **finding** | |
| `serving_lease` | grants cover serving, bounded staleness, no revival | 2 streams, 3 snapshots, 3 challenges, 3 ticks, leases of 2: a renewal that races a refresh or the sweep of stale sessions, a replaced stream, a second period |
| `telemetry_wal` | nothing lost, the batch leads but for a last line that a later append went on in, oldest first; evidence stays for good only behind a line that does not parse or a full rejected WAL | 3 handlers, one with two parts, one failure, one crash; the gateway's budget below the Runner's |
| `rate_admission` | windows, confirmed charges, a Retry-After that is long enough and not a second too long | 4 requests, 3 budgets, window 3, seconds of 2, clock to 3: a window can slide past a start, a delay can be a part of a second, and the clock can be set back |
| `gates` | model gate: counter, wakeups, caps, order, every call proceeds; work queue: it implements its promise, and uses its ceiling; report budget: memory, and no idle room | 4 calls, caps 1 to 3; 5 callers of 3 keys and 2 passes, so that one key waits while two are triggered again; 4 jobs of 3 sizes in 4 bytes |
| `router_changes` | what is routed exists, the rollback is kept, *active* is truthful, served versions are kept | 1 Router, 1 Endpoint, 1 Runner, 2 Guardrails with one version each, 3 revisions, 4 generations: publish, replace and revert, or delete, restore and release again; the Endpoint is bound or deleted in between |
| `protection_modes` | overlays in order, declared is in effect, serving with overlay, applied at last | 2 Runners, one of which begins on the operator's Controller and reconnects once on the other, 2 modes, 3 generations, 2 disturbances (lost stream, restart with or without its file, late heartbeat, failed write, other change) |
| `protection_offline` | **finding** | as above with 1 disturbance, and both streams of that Runner on the operator's Controller |

The three gates share no state. `MCGates` starts a behaviour in one of them and
leaves the others as they began, so that one run checks each over all its own
states; the liveness properties of a gate hold trivially where it never starts,
and are checked where it does.

`CHECK_DEADLOCK FALSE` is used where the system may stop: the lease model when
its bounded streams and challenges are used up, Routers when the generations
are, protection modes when everything has been applied, and the exporter when its
handlers have emitted everything and the WAL is empty or cannot be sent.

**Fairness.** An event loop runs the tasks that are ready: weak fairness of each
task's own step. Nothing is assumed of executions, queue timeouts or Redis in
`endpoint_fenced_leaves`; permits are returned in `dispatch_loop` because the
handlers run under deadlines, and model calls end in `gates`
because `ModelConcurrencyTransport` puts a timeout around them; passes of the
work queue end because the database calls they await time out. In
`protection_modes` and `protection_offline` only this is assumed: while there is
a message to handle, a result to record or a full pass to make, one of them is
made (heartbeats and the reconciliation timers repeat for ever). In
`telemetry_wal` the exporter retries every five seconds, and a Controller that is asked
again and again answers in time once (strong fairness of `Accepted`).

## Findings

1. `endpoint_snapshot_race`: without a lease or a group rate, a snapshot
   published between the authentication of a request and the look-up of its
   owner charges one project and executes on the snapshot of another
   (`runner/api.py:301`, `runner/project_admission.py:155`).
2. `protection_offline`: `markStaleRunnersOffline` ends the session of a Runner
   whose heartbeats were late and leaves its stream open. From then on the
   Controller drops whatever comes over that stream as not current, without
   ending it, so a connected and heartbeating Runner stays `offline` and gets no
   overlay and no desired state, although `docs/architecture.md:351` says that
   `offline` reflects connectivity (`control-plane.ts:2383`,
   `control-server.ts:571`). A Runner with a serving lease reconnects when the
   lease lapses.

Some properties say less than one might expect, because of what the code does:

* `OnlyBlockedEvidenceStays` (`TelemetryWal`) excuses evidence behind a line
  that was half written when the process was killed, which stops the WAL for
  good (`runner/telemetry.py:119`), and what was set aside. That can be an event
  the gateway would take, when the budget is halved below it
  (`runner/telemetry.py:294`).
* `BatchStillLeads` (`TelemetryWal`) lets the last line of an upload grow: when the
  process was killed just before the newline of an append, the line is complete
  and is sent after the restart; an append during that upload goes on in it, and
  the delivery raises *changed unexpectedly* (`runner/telemetry.py:162`). Nothing
  is lost, but the line that is left does not parse and stops the WAL, as above.
* `RetryIsTight` (`RateAdmission`) is about the starts that were counted: others
  may be admitted first, and a client is told one second at least.
* `ServedVersionsKept` (`RouterChanges`) is about Routers that exist:
  `versionReferences` looks at no removed Router (`traffic-routing.ts:650`), so
  a version that left routing with its Router can be deleted while a Runner that
  lags behind still serves it.
* `RolloutIsTruthful` lets a Runner that lags behind route a deleted Endpoint
  while its Router is reported active: `softDeleteEndpoint` advances the desired
  generation of the Controller and not that of the Router
  (`control-plane.ts:2177`), which is what `routerRolloutState` compares with. It
  also lets a Router that is reported active be left out by Runners when a disabled Route of it has a weighted target:
  `docs/revision-lifecycle.md:38` says that older Router revisions pinning a
  deleted version fail validation if restored, but `resolvePublication` looks at
  enabled Routes with a weight only (`traffic-routing.ts:188`). A revision whose
  disabled Route has a weight on a deleted version is therefore restored, and
  `runtimeSnapshots` then leaves out the whole Router (`traffic-routing.ts:623`)
  while `routerRolloutState` reports it active.
* `RollbackKept` keeps the versions of the rollback target, not their release: a
  Guardrail that only the target uses can be soft-deleted, which resets its
  versions (`assertGuardrailUnused` does not look at rollback targets), and the
  revert is then refused.

## What is proved

Every safety property that a passing run checks, invariant or action property,
is also a theorem, for every value of the constants that the `ASSUME` of its
module admits: finite sets of requests, projects, calls, jobs and Runners,
positive caps, limits and windows, natural bounds. `EndpointAdmission`'s
theorems need no fairness and hold of both of its configurations. In each
`*Proofs` module the inductive invariant comes first, then what each kind of
step does to the state (one lemma per kind), then one lemma per action, and the
theorems last. (The invariants of the WAL, of endpoint admission and of the
protection modes were checked by TLC on the bounds of the runs first.) Invariants
are proved by `Init => Inv`,
`Inv /\ [Next]_vars => Inv'` and `Inv => P`, action properties from `Inv` and one
step.

**`AdmissionProofs`, project admission.** `TypeCorrect`, `PermitsCounted`,
`CapsHold`, `QueuesConsistent` and `WorkConserved` say what `TypeOK`,
`PermitAccounting`, `CapacityRespected`, `QueueBook` (with the queue limits) and
`WorkConserving` say. (Types are proved and not given to a run, here and below.)
None of them is inductive alone. The inductive invariant `BooksInv` has the
types; the counters as the cardinalities of the sets of holders; every queued
request in the deque of its project exactly once, and only requests that have
not been granted; each project with waiters once in `roundRobin`; the caps; and
no project with waiters that could be granted. The last part needs `QueueBook`,
because dispatch grants the *head* of a deque and must know that it is a waiter;
the caps need the counters, and the counters need to know that a request is
granted at most once, which is again the deques' matter. `WaitersMoveUp`
(`RoundRobinFair`) needs in addition that a grant takes a project that stands in
front of every eligible one: removal of the granted project shifts the others
forward, and putting it back at the end moves nobody.

**`AdmissionProofs`, endpoint admission.** `EndpointUsesAdmission` is the
refinement `EndpointSpec => Spec`: every step of the composed system is a step of
`ProjectAdmission` or leaves it alone, so the theorems above hold of it too.
`SlotsFollowWork`, `RunsOnThePublished`, `FencedChargesAreRight` and
`CancelledWorkIsOver` (`PermitFollowsWork`, `CurrentWhileServing`,
`FencedChargesMatch`, `CancelledWorkStops`) follow from `EndpointInv`: the stage of a worker fits what it
has of project admission, nobody entered in a period to come, and while its
period lasts a request under a lease or a group rate has authenticated with what
is published. `FencedChargesMatch` needs one fact more (`Matched`): while
authority lasts, an authenticated request has the owner that is published, because
snapshots are published only without authority and authority returns only when the
event loop is in no handler. `CancelledWorkStops` is inductive beside
`EndpointInv`.

**`RateAdmissionProofs`.** `RateTypeCorrect`, `WindowsRespected`,
`StartsWereCharged` and `RetryAfterIsTight`. `WindowRespected` speaks about every
window of the past, the scripts count only the set that is left in Redis. The
inductive invariant connects them: a charged request whose start lies in the
window that ends at `last` is still in the set of each of its budgets; no start
is later than `last`; and nothing was charged before a policy was provisioned,
whose digest then never changes. When a request is charged at `clock`, the
windows that contain `clock` and earlier starts are counted by the remaining set,
and all others are as before. A Retry-After is long enough
because what remains of a full budget is its limit and never more
(`WindowRespected` again), so that one start that expires makes room in it, and
rounding up waits for that; a second earlier the budget that gets room last
has none yet.

**`GatesProofs`.** Of the work queue, `CeilingIsUsed` (`QueueBusy`) and
`QueuePromiseSafety`: it refines `CoalescedWork` but for fairness. The report
budget: `ReportMemoryBounded`, `NobodyWaitsForRoom`. The model gate:
`PermitsAreCounted`, `WakeupsAreNotLost`, `GrantsStayWithinCap`,
`PermitsGoInOrder`. As in project admission, `pump` and `_wake` start from
bookkeeping in the middle of an operation, so the invariants are predicates on
values: queues without duplicates that hold exactly who waits, and counters that
are the cardinalities of who runs.

**`ServingLeaseProofs`.** `GrantsAreTracked`, `StaleServingEnds`,
`PublishedIsGranted` and `ExpiredStaysExpired`. The invariant follows a challenge
through all the places where it can be: what the ledger has for its nonce is what
it asked for, whether the request, its handler or the answer is on the way
(`Answers`); grants of a generation end one lease after the Controller left it
(`Ledger`); the lease's generation is the published one (`Allocation`); and
snapshots reach the Runner in the order of their nonces, none twice (`Order`).

**`RouterChangesProofs`.** `RoutedVersionsStayReady`, `RollbackStaysPossible`,
`RolloutStateIsTruthful` and `DeletionWaitsForRunners`. `Numbering`: revisions are
numbered up to the active one, which is kept. `Following`: no Runner knows a
generation before it is desired. `Rollout`: a Runner at the generation desired for
a Router serves what the tables say, but for deleted Endpoints, reported or not;
the report only follows it.
`Served`: what a Runner serves is pinned by the active revision, or was retired in
a generation that the Runner has not applied, and that is what the deletion
checks look for.

**`TelemetryWalProofs`.** `ReturnedIsKept`, `UploadStillLeads` and
`EvidenceLeavesInOrder` (`NothingLost`, `BatchStillLeads`, `OldestFirst`). Threads
outlive their cancelled handlers, so the lock says little about them; the
invariant says that a part is handed to one thread once (`Writers`), that the part
of a line that parses is in no other line of the WAL or of what was last read
(`Unique`), that the lines of an upload are still there or the last of them was
swallowed (`Upload`), and that what the delivery
task reads under the lock lacks nothing a handler has seen written (`Reading`):
the stray thread that may still write has a part nobody was promised.

**`ProtectionSyncProofs`.** `OverlaysAreInOrder`, `ServingStartsWithOverlay` and
`DeclarationsAreTrue`. What a pass has read is for the stream its Runner has
(`Linked`), not older than the stream, and newer than what the Runner has or no
longer due (`Fresh`); a generation names one mode (`Named`, by a function from
generations to modes). `Reported` is the heart: whatever anyone has on record of
a Runner, in its row, in an open transaction or in a decision, is in effect where
it serves and is not taken back by what is on its way; `Decided`: what a
transaction has found applied is still what it may declare.

**Only model-checked**: liveness (`NoStarvation`, `FencedWorkLeaves`,
`OnlyBlockedEvidenceStays`, `EveryCallProceeds`, `AppliedAtLast`, and the fairness
part of `QueueKeepsItsPromise`), because the prover has no rules for fairness that
its backends could use; and the refinement `LoopImplementsDispatch`, because
what the recursion of the loop computes needs an induction over its input.

## What is not modelled

* The evaluation of guardrails, the compiler and the toolkit: their results are
  inputs here, and what they decide depends on third-party engines and models.
* The console, the CLI, translations, presets, HTTP routes, the schema and the
  charts, which are most of the repository's lines: no state of their own that
  several steps could bring out of order.
* Validation dispatch and chunked reports, endpoint credentials, group moves and
  model activation: stateful, and next in line.
* Within modelled components: the group branch of `EndpointAdmission`'s rate mode
  is in the model and in no run; restore of desired states; the rollout error of
  a Router; call records; `reportDatabaseWork` (advisory locks of PostgreSQL).

The map therefore covers the code that coordinates, a small share of all lines.

## Plan

1. Control channel: the Runner's message queue with its priority messages and
   its overflow, work results tied to a serving period.
2. `ArtifactStore`: persist, publish, restore after a crash.
3. Validation runs: dispatch, cancellation, chunked reports with acknowledgement.
4. Endpoint credentials, model activation across a pool, and group moves against
   outstanding grants.
