--------------------------- MODULE RouterChanges ---------------------------
(***************************************************************************)
(* Traffic Routers and the Guardrail versions they send traffic to.        *)
(* Drafts are saved, submitted as change requests, approved into numbered  *)
(* revisions, reverted and restored; revisions, versions, Guardrails and   *)
(* Routers and Endpoints are deleted; Runners follow the desired           *)
(* generation at their own pace.  Each operation is one transaction, hence *)
(* one action: those that decide under what is routed hold the             *)
(* "traffic-router-bindings" lock; the others lock the rows they change    *)
(* and only add or close what such a decision may find or not find.        *)
(*                                                                         *)
(* A snapshot says how it uses each version: "on" (positive weight on an   *)
(* enabled Route), "off" (positive weight on a disabled Route), "idle"     *)
(* (weight zero) or "none".  Selectors, import checks, in-flight calls and *)
(* the actors of a decision only add refusals and are left out.            *)
(***************************************************************************)
EXTENDS Naturals, FiniteSets, FiniteSetsExt

CONSTANTS
    Routers, Endpoints, Runners,
    Guardrails, Versions,
    GuardrailOf,    \* the Guardrail of each version
    Drafts,         \* the publishable drafts that administrators save
    None,           \* no Router, no change request, a Router that is omitted
    SoftDeleted,    \* the binding of an Endpoint with deletedAt: every reader skips its row
    MaxRevision, MaxGeneration

\* routingIssues: the Fallback Route is enabled and its one target has all the weight.
ASSUME RouterAssumption ==
    /\ IsFiniteSet(Versions) /\ GuardrailOf \in [Versions -> Guardrails]
    /\ Drafts \subseteq [Versions -> {"none", "idle", "off", "on"}] /\ Drafts # {}
    /\ \A d \in Drafts : \E v \in Versions : d[v] = "on"
    /\ None \notin Routers /\ SoftDeleted \notin Routers \cup {None}
    /\ {MaxRevision, MaxGeneration} \subseteq Nat

VARIABLES
    router,      \* the Router rows
    revisions,   \* traffic_router_revision: number -> snapshot and generation
    pending,     \* the pending change request of each Router
    applied,     \* the change request that produced the active revision
    boundTo,     \* endpoints.trafficRouterId
    version,     \* the state of each Guardrail version
    gone,        \* the soft-deleted Guardrails
    generation,  \* controllerState.desiredGeneration
    runner       \* what each Runner serves, and what the Controller knows of it

rcVars == <<router, revisions, pending, applied, boundTo, version, gone, generation, runner>>

\* Some versions may have been published before the first Router is created.
RCInit ==
    /\ router = [r \in Routers |-> [state |-> "none", draft |-> CHOOSE d \in Drafts : TRUE, savedAs |-> {},
                    active |-> 0, desired |-> 0, touched |-> FALSE, recentFrom |-> 1]]
    /\ revisions = [r \in Routers |-> <<>>]
    /\ pending = [r \in Routers |-> None] /\ applied = [r \in Routers |-> None]
    /\ boundTo = [e \in Endpoints |-> None]
    /\ version \in [Versions -> {"none", "ready"}] /\ gone = {}
    /\ generation = 0
    /\ runner = [w \in Runners |-> [gen |-> 0, routes |-> [r \in Routers |-> None], known |-> 0, fresh |-> FALSE]]

-----------------------------------------------------------------------------
(* Reading the tables *)

Live(r)       == router[r].state = "live"
ActiveSnap(r) == revisions[r][router[r].active].snap
BoundTo(r)    == {e \in Endpoints : boundTo[e] = r}
DeletedEndpoints == {e \in Endpoints : boundTo[e] = SoftDeleted}
Exists(v)     == version[v] \in {"pending", "ready"}
Pins(snap, v) == snap[v] # "none"

Publishable(snap) ==
    \A v \in Versions : snap[v] = "on" => version[v] = "ready" /\ GuardrailOf[v] \notin gone

GuardrailsVisible(snap) == \A v \in Versions : Pins(snap, v) => GuardrailOf[v] \notin gone

\* The revision that the active change can be reverted to without approval.
RollbackTarget(r) == IF applied[r] # None /\ applied[r].kind = "publish" THEN applied[r].base ELSE 0

\* runtimeSnapshots: a Router with a dangling weighted target is left out whole.  Its
\* owner check never fails here: drafts name only Guardrails that the caller's project
\* can read (assertDraftGuardrailsVisible), and one project is modelled.
Projected(r) ==
    IF /\ Live(r) /\ router[r].active # 0
       /\ \A v \in Versions : ActiveSnap(r)[v] \in {"on", "off"} => Exists(v) /\ GuardrailOf[v] \notin gone
    THEN [snap |-> ActiveSnap(r), eps |-> BoundTo(r)]
    ELSE None

\* Mutant: a change of the bindings is not waited for.
RolloutOfRevision(r) ==
    /\ router[r].active # 0 /\ Runners # {}
    /\ \A w \in Runners : runner[w].known >= revisions[r][router[r].active].gen /\ runner[w].fresh

\* routerRolloutState = "active".
RolloutActive(r) ==
    /\ router[r].active # 0 /\ Runners # {}
    /\ \A w \in Runners : runner[w].known >= router[r].desired /\ runner[w].fresh

\* versionReferences: an edited draft has neither the draft revision that was published
\* nor the one that was submitted; savedAs holds those of the two that it has.
DraftEdited(r) == router[r].savedAs = {}

\* Mutant: the pre-approved rollback target is not a reference.
ReferencedWithoutRollback(v) ==
    \E r \in Routers : Live(r) /\
        \/ router[r].active # 0 /\ Pins(ActiveSnap(r), v)
        \/ pending[r] # None /\ Pins(pending[r].snap, v)
        \/ DraftEdited(r) /\ Pins(router[r].draft, v)

Referenced(v) ==
    \E r \in Routers : Live(r) /\
        \/ router[r].active # 0 /\ Pins(ActiveSnap(r), v)
        \/ pending[r] # None /\ Pins(pending[r].snap, v)
        \/ DraftEdited(r) /\ Pins(router[r].draft, v)
        \/ RollbackTarget(r) \in DOMAIN revisions[r] /\ Pins(revisions[r][RollbackTarget(r)].snap, v)

\* The revisions of r by which v stopped being served.
Retirements(r, v) ==
    {n \in DOMAIN revisions[r] :
        /\ ~Pins(revisions[r][n].snap, v)
        /\ \E k \in DOMAIN revisions[r] : /\ k < n /\ Pins(revisions[r][k].snap, v)
                                          /\ ~\E j \in DOMAIN revisions[r] : k < j /\ j < n}

\* Mutant: a Runner that has not applied the retiring generation is no blocker.
RetiredLongAgo(v) ==
    \A r \in Routers : Live(r) => \A n \in Retirements(r, v) : n < router[r].recentFrom

\* versionReferences keeps the latest retirement only.  Generations grow with time, so
\* it has the largest one, and when it is old and applied everywhere, all of them are.
NoLongerServed(v) ==
    \A r \in Routers : Live(r) => \A n \in Retirements(r, v) :
        /\ n < router[r].recentFrom
        /\ \A w \in Runners : runner[w].fresh => runner[w].known >= revisions[r][n].gen

-----------------------------------------------------------------------------
(* Drafts and change requests *)

Create(r) ==
    /\ router[r].state = "none"
    /\ \E d \in Drafts, eps \in SUBSET Endpoints :
        /\ GuardrailsVisible(d) /\ \A e \in eps : boundTo[e] = None
        /\ router' = [router EXCEPT ![r].state = "live", ![r].draft = d, ![r].touched = TRUE]
        /\ boundTo' = [e \in Endpoints |-> IF e \in eps THEN r ELSE boundTo[e]]
    /\ UNCHANGED <<revisions, pending, applied, version, gone, generation, runner>>

Save(r) ==
    /\ Live(r)
    /\ \E d \in Drafts :
        /\ GuardrailsVisible(d)
        /\ router' = [router EXCEPT ![r].draft = d, ![r].savedAs = {}, ![r].touched = TRUE]
    /\ UNCHANGED <<revisions, pending, applied, boundTo, version, gone, generation, runner>>

Change(r, snap) == [snap |-> snap, base |-> router[r].active, eps |-> BoundTo(r)]

Submit(r) ==
    /\ Live(r) /\ pending[r] = None
    /\ Publishable(router[r].draft)
    /\ pending' = [pending EXCEPT ![r] = Change(r, router[r].draft)]
    /\ router' = [router EXCEPT ![r].savedAs = @ \cup {"pending"}]
    /\ UNCHANGED <<revisions, applied, boundTo, version, gone, generation, runner>>

\* Restoring a historical revision replaces the draft and submits it.
SubmitRestore(r) ==
    /\ Live(r) /\ pending[r] = None
    /\ \E n \in DOMAIN revisions[r] \ {router[r].active} :
        LET snap == revisions[r][n].snap
        IN  /\ Publishable(snap)
            /\ router' = [router EXCEPT ![r].draft = snap, ![r].savedAs = {"pending"}, ![r].touched = TRUE]
            /\ pending' = [pending EXCEPT ![r] = Change(r, snap)]
    /\ UNCHANGED <<revisions, applied, boundTo, version, gone, generation, runner>>

\* applySnapshot: what the draft becomes, and whether it is the one published.
ApplySnapshot(r, snap, draft, saved) ==
    /\ router[r].active < MaxRevision /\ generation < MaxGeneration
    /\ generation' = generation + 1
    /\ revisions' = [revisions EXCEPT ![r] =
           [n \in DOMAIN @ \cup {router[r].active + 1} |->
               IF n = router[r].active + 1 THEN [snap |-> snap, gen |-> generation'] ELSE @[n]]]
    /\ router' = [router EXCEPT ![r].active = @ + 1, ![r].desired = generation', ![r].touched = TRUE,
                                ![r].draft = draft, ![r].savedAs = saved]
    /\ UNCHANGED <<boundTo, version, gone, runner>>

Stale(r) ==
    \/ router[r].active # pending[r].base
    \/ ~Publishable(pending[r].snap)
    \/ pending[r].eps # BoundTo(r)

Approve(r) ==
    /\ Live(r) /\ pending[r] # None /\ ~Stale(r)
    /\ ApplySnapshot(r, pending[r].snap, router[r].draft, IF "pending" \in router[r].savedAs THEN {"active"} ELSE {})
    /\ applied' = [applied EXCEPT ![r] = [kind |-> "publish", base |-> pending[r].base]]
    /\ pending' = [pending EXCEPT ![r] = None]

\* A stale change is superseded instead; rejecting and withdrawing close it too.
CloseChange(r) ==
    /\ Live(r) /\ pending[r] # None
    /\ pending' = [pending EXCEPT ![r] = None]
    /\ router' = [router EXCEPT ![r].savedAs = @ \ {"pending"}]
    /\ UNCHANGED <<revisions, applied, boundTo, version, gone, generation, runner>>

Revert(r) ==
    /\ Live(r) /\ RollbackTarget(r) \in DOMAIN revisions[r]
    /\ LET snap == revisions[r][RollbackTarget(r)].snap
       IN  Publishable(snap) /\ ApplySnapshot(r, snap, snap, {"active"})
    /\ applied' = [applied EXCEPT ![r] = [kind |-> "revert", base |-> router[r].active]]
    /\ pending' = [pending EXCEPT ![r] = None]

-----------------------------------------------------------------------------
(* Revisions, bindings and Routers *)

DeleteRevision(r) ==
    /\ Live(r) /\ RolloutActive(r) /\ ~router[r].touched
    /\ \E n \in DOMAIN revisions[r] \ {router[r].active, RollbackTarget(r)} :
        revisions' = [revisions EXCEPT ![r] = [k \in DOMAIN @ \ {n} |-> @[k]]]
    /\ UNCHANGED <<router, pending, applied, boundTo, version, gone, generation, runner>>

Bind(r) ==
    /\ Live(r) /\ generation < MaxGeneration
    /\ GuardrailsVisible(IF router[r].active = 0 THEN router[r].draft ELSE ActiveSnap(r))
    /\ \E eps \in SUBSET Endpoints :
        /\ eps # BoundTo(r) /\ \A e \in eps : boundTo[e] \in {r, None}
        /\ boundTo' = [e \in Endpoints |-> IF e \in eps THEN r ELSE IF boundTo[e] = r THEN None ELSE boundTo[e]]
    /\ generation' = generation + 1
    /\ router' = [router EXCEPT ![r].desired = generation']
    /\ UNCHANGED <<revisions, pending, applied, version, gone, runner>>

\* softDeleteEndpoint: the Runners get a new generation, the Router's row does not.
DeleteEndpoint(e) ==
    /\ boundTo[e] # SoftDeleted /\ generation < MaxGeneration
    /\ generation' = generation + 1
    /\ boundTo' = [boundTo EXCEPT ![e] = SoftDeleted]
    /\ UNCHANGED <<router, revisions, pending, applied, version, gone, runner>>

Remove(r) ==
    /\ Live(r) /\ BoundTo(r) = {} /\ generation < MaxGeneration
    /\ generation' = generation + 1
    /\ router' = [router EXCEPT ![r].state = "removed", ![r].desired = generation']
    /\ UNCHANGED <<revisions, pending, applied, boundTo, version, gone, runner>>

\* Five minutes pass for the revisions so far and for the row.
Age(r) ==
    /\ router[r].touched \/ router[r].recentFrom <= router[r].active
    /\ router' = [router EXCEPT ![r].recentFrom = router[r].active + 1, ![r].touched = FALSE]
    /\ UNCHANGED <<revisions, pending, applied, boundTo, version, gone, generation, runner>>

-----------------------------------------------------------------------------
(* Guardrail versions *)

\* requestGuardrailPublish compiles outside a transaction; this is its second one.
PublishVersion(v) ==
    /\ version[v] = "none" /\ GuardrailOf[v] \notin gone /\ generation < MaxGeneration
    /\ version' = [version EXCEPT ![v] = "ready"]
    /\ generation' = generation + 1
    /\ UNCHANGED <<router, revisions, pending, applied, boundTo, gone, runner>>

ReleaseVersion(v) ==
    /\ version[v] = "pending" /\ GuardrailOf[v] \notin gone /\ generation < MaxGeneration
    /\ version' = [version EXCEPT ![v] = "ready"]
    /\ generation' = generation + 1
    /\ UNCHANGED <<router, revisions, pending, applied, boundTo, gone, runner>>

\* All the stored versions of g, reset by clearGuardrailOperationalData.
Reset(g) == [v \in Versions |-> IF GuardrailOf[v] = g /\ Exists(v) THEN "pending" ELSE version[v]]

\* A package brings the versions fresh; importing into a deleted Guardrail restores it.
ImportPackage(g) ==
    \E fresh \in SUBSET {v \in Versions : GuardrailOf[v] = g /\ ~Exists(v)} :
        LET stored   == IF g \in gone THEN Reset(g) ELSE version
            advances == Cardinality(fresh) + (IF g \in gone THEN 1 ELSE 0)
        IN  /\ advances # 0 /\ generation + advances <= MaxGeneration
            /\ version' = [v \in Versions |-> IF v \in fresh THEN "pending" ELSE stored[v]]
            /\ gone' = gone \ {g}
            /\ generation' = generation + advances
            /\ UNCHANGED <<router, revisions, pending, applied, boundTo, runner>>

\* Without a ready version left, the Guardrail goes back to draft in a new generation.
DeleteVersion(v) ==
    /\ Exists(v) /\ GuardrailOf[v] \notin gone
    /\ ~Referenced(v) /\ NoLongerServed(v)
    /\ version' = [version EXCEPT ![v] = "deleted"]
    /\ generation' = IF \E u \in Versions : GuardrailOf[u] = GuardrailOf[v] /\ version'[u] = "ready"
                     THEN generation ELSE generation + 1
    /\ generation' <= MaxGeneration
    /\ UNCHANGED <<router, revisions, pending, applied, boundTo, gone, runner>>

Mentions(snap, g) == \E v \in Versions : GuardrailOf[v] = g /\ Pins(snap, v)

\* Mutant: what the active snapshots send traffic to is not looked at.
GuardrailUnusedRecently(g) ==
    \A r \in Routers :
        /\ router[r].recentFrom <= router[r].active => \A n \in DOMAIN revisions[r] : ~Mentions(revisions[r][n].snap, g)
        /\ Live(r) /\ pending[r] # None => ~Mentions(pending[r].snap, g)

\* assertGuardrailUnused; the recent revisions of a removed Router count too.
GuardrailUnused(g) ==
    \A r \in Routers :
        /\ router[r].recentFrom <= router[r].active => \A n \in DOMAIN revisions[r] : ~Mentions(revisions[r][n].snap, g)
        /\ Live(r) /\ router[r].active # 0 => ~Mentions(ActiveSnap(r), g)
        /\ Live(r) /\ pending[r] # None => ~Mentions(pending[r].snap, g)

SoftDelete(g) ==
    /\ g \notin gone /\ generation < MaxGeneration
    /\ GuardrailUnused(g)
    /\ version' = Reset(g)
    /\ gone' = gone \cup {g}
    /\ generation' = generation + 1
    /\ UNCHANGED <<router, revisions, pending, applied, boundTo, runner>>

-----------------------------------------------------------------------------
(* Runners *)

\* desiredStateForPool reads the tables and the generation in one transaction.  A
\* state that arrives late is a Runner that applied it and has not reported it yet.
ApplyState(w) ==
    /\ generation > runner[w].gen
    /\ runner' = [runner EXCEPT ![w].gen = generation, ![w].routes = [r \in Routers |-> Projected(r)]]
    /\ UNCHANGED <<router, revisions, pending, applied, boundTo, version, gone, generation>>

Heartbeat(w) ==
    /\ runner' = [runner EXCEPT ![w].known = runner[w].gen, ![w].fresh = TRUE]
    /\ runner' # runner
    /\ UNCHANGED <<router, revisions, pending, applied, boundTo, version, gone, generation>>

\* Sixty seconds pass without a heartbeat.
GoStale(w) ==
    /\ runner[w].fresh
    /\ runner' = [runner EXCEPT ![w].fresh = FALSE]
    /\ UNCHANGED <<router, revisions, pending, applied, boundTo, version, gone, generation>>

RCNext ==
    \/ \E r \in Routers :
        \/ Create(r) \/ Save(r) \/ Submit(r) \/ SubmitRestore(r) \/ Approve(r) \/ CloseChange(r) \/ Revert(r)
        \/ DeleteRevision(r) \/ Bind(r) \/ Remove(r) \/ Age(r)
    \/ \E e \in Endpoints : DeleteEndpoint(e)
    \/ \E v \in Versions : PublishVersion(v) \/ ReleaseVersion(v) \/ DeleteVersion(v)
    \/ \E g \in Guardrails : ImportPackage(g) \/ SoftDelete(g)
    \/ \E w \in Runners : ApplyState(w) \/ Heartbeat(w) \/ GoStale(w)

RCSpec == RCInit /\ [][RCNext]_rcVars

-----------------------------------------------------------------------------
(* Properties *)

\* What traffic is sent to exists: every weighted target on an enabled Route of an
\* active snapshot is a ready version of a Guardrail that is not deleted, whatever
\* was deleted, reset or imported since the change was submitted
\* (resolvePublication, staleReason, versionReferences, assertGuardrailUnused).
RoutedVersionsReady ==
    \A r \in Routers, v \in Versions :
        Live(r) /\ router[r].active # 0 /\ ActiveSnap(r)[v] = "on" => version[v] = "ready" /\ GuardrailOf[v] \notin gone

\* The pre-approved rollback stays possible: while the change that produced the active
\* revision can be reverted, its base revision is kept, and so is every version that
\* base sends traffic to (deleteRevision, the rollback_target reference).
RollbackKept ==
    \A r \in Routers : Live(r) /\ RollbackTarget(r) # 0 =>
        /\ RollbackTarget(r) \in DOMAIN revisions[r]
        /\ \A v \in Versions : revisions[r][RollbackTarget(r)].snap[v] = "on" => Exists(v)

\* w routes r by its active snapshot, to the Endpoints bound now and at most to some
\* that were deleted since.
FollowedBy(w, r) ==
    \E eps \in SUBSET Endpoints :
        /\ runner[w].routes[r] = [snap |-> ActiveSnap(r), eps |-> eps]
        /\ BoundTo(r) = eps \ DeletedEndpoints

\* A Router reported active is the one that is served: every Runner of the pool routes
\* by the active snapshot and by every change of the bindings (routerRolloutState
\* against runtimeSnapshots and what Runners applied).  There are two exceptions.
\* Deleting an Endpoint is no change of its Router, so a Runner that lags behind may
\* still route the deleted Endpoint; and a weighted target on a disabled Route, which
\* resolvePublication does not look at, can make the Router be left out instead.
RolloutIsTruthful ==
    \A r \in Routers : Live(r) /\ RolloutActive(r) =>
        \A w \in Runners :
            \/ FollowedBy(w, r)
            \/ runner[w].routes[r] = None /\ \E v \in Versions : ActiveSnap(r)[v] = "off"

Serves(w, r, v) ==
    /\ runner[w].routes[r] # None
    /\ runner[w].routes[r].eps # {} /\ runner[w].routes[r].snap[v] = "on"

Deleted(v) == Exists(v) /\ version'[v] = "deleted"

\* A version that leaves a Router which still exists is deleted only after every
\* online Runner has stopped serving it, however far Runners lag behind
\* (versionDeletionImpact: runner_sync).  The history of a removed Router is not
\* looked at, so nothing is said of versions that left with one.
ServedVersionsKept ==
    [][\A v \in Versions : Deleted(v) =>
        ~\E w \in Runners, r \in Routers : Live(r) /\ runner[w].fresh /\ Serves(w, r, v)]_rcVars
=============================================================================
