------------------------ MODULE RouterChangesProofs ------------------------
(***************************************************************************)
(* Theorems about Routers and the versions they send traffic to, for every *)
(* set of Routers, Endpoints, Runners and versions, every set of drafts    *)
(* and any number of revisions and generations.                            *)
(***************************************************************************)
EXTENDS RouterChanges, FiniteSetTheorems, TLAPS

-----------------------------------------------------------------------------
(***************************************************************************)
(* The inductive invariant.  RoutedVersionsReady and RollbackKept are      *)
(* parts of it; the other parts are                                        *)
(*   Numbering   revisions are numbered up to the active one, which is     *)
(*               kept, and a Router that was never created has no trace;   *)
(*   Following   a Runner knows no generation before it is desired;        *)
(*   Rollout     a Runner at the generation desired for a Router serves    *)
(*               what the tables say, reported or not, and at most some    *)
(*               Endpoints that were deleted since;                        *)
(*   Served      what a Runner still serves is active, or has been retired *)
(*               in a generation that the Runner has not applied.          *)
(***************************************************************************)
Snapshot == [Versions -> {"none", "idle", "off", "on"}]

RouterRow ==
    [state : {"none", "live", "removed"}, draft : Snapshot, savedAs : SUBSET {"pending", "active"},
     active : Nat, desired : Nat, touched : BOOLEAN, recentFrom : Nat]

Revision == [snap : Snapshot, gen : Nat]

ChangeRequest == [snap : Snapshot, base : Nat, eps : SUBSET Endpoints]

AppliedChange == [kind : {"publish", "revert"}, base : Nat]

Route == [snap : Snapshot, eps : SUBSET Endpoints]

RunnerRow == [gen : Nat, routes : [Routers -> Route \cup {None}], known : Nat, fresh : BOOLEAN]

RevisionTypes ==
    /\ DOMAIN revisions = Routers
    /\ \A r \in Routers : \A n \in DOMAIN revisions[r] : n \in Nat /\ revisions[r][n] \in Revision

ControllerTypes ==
    /\ router \in [Routers -> RouterRow]
    /\ RevisionTypes
    /\ pending \in [Routers -> ChangeRequest \cup {None}]
    /\ applied \in [Routers -> AppliedChange \cup {None}]
    /\ boundTo \in [Endpoints -> Routers \cup {None, SoftDeleted}]
    /\ version \in [Versions -> {"none", "pending", "ready", "deleted"}]
    /\ gone \subseteq Guardrails
    /\ generation \in Nat

RunnerTypes == runner \in [Runners -> RunnerRow]

Numbering ==
    \A r \in Routers :
        /\ router[r].active # 0 => router[r].active \in DOMAIN revisions[r]
        /\ \A n \in DOMAIN revisions[r] : 0 < n /\ n <= router[r].active
        /\ router[r].state = "none" =>
             /\ router[r].active = 0 /\ applied[r] = None
             /\ \A w \in Runners : runner[w].routes[r] = None

Following == \A w \in Runners : runner[w].known <= runner[w].gen /\ runner[w].gen <= generation

Rollout ==
    \A r \in Routers, w \in Runners :
        Live(r) /\ router[r].active # 0 /\ router[r].desired <= runner[w].gen =>
            \/ FollowedBy(w, r)
            \/ runner[w].routes[r] = None /\ \E v \in Versions : ActiveSnap(r)[v] = "off"

\* v left r in a generation that w has not applied.
RetiredAfter(r, v, w) == \E n \in Retirements(r, v) : runner[w].gen < revisions[r][n].gen

Served ==
    \A r \in Routers, v \in Versions, w \in Runners :
        Live(r) /\ runner[w].routes[r] # None /\ Pins(runner[w].routes[r].snap, v) =>
            \/ router[r].active # 0 /\ Pins(ActiveSnap(r), v)
            \/ RetiredAfter(r, v, w)

RouterInv ==
    /\ ControllerTypes /\ RunnerTypes
    /\ Numbering /\ Following
    /\ RoutedVersionsReady /\ RollbackKept
    /\ Rollout /\ Served

-----------------------------------------------------------------------------
(* What the operations do, in the terms of the invariant. *)

Kept(q) ==
    /\ router'[q].state = router[q].state
    /\ router'[q].active = router[q].active /\ router'[q].desired = router[q].desired

\* A Runner's bindings of q agree with the tables, deleted Endpoints aside, if they did.
BindingsKept(q) ==
    \A eps \in SUBSET Endpoints : BoundTo(q) = eps \ DeletedEndpoints => BoundTo(q)' = eps \ DeletedEndpoints'

\* Drafts, change requests that are opened or closed, and the passing of time.
Quiet(r) == Save(r) \/ Submit(r) \/ SubmitRestore(r) \/ CloseChange(r) \/ Age(r)

QuietStep ==
    /\ \A q \in Routers : Kept(q)
    /\ UNCHANGED <<revisions, applied, boundTo, version, gone, generation, runner>>

LEMMA DraftsArePublishable ==
    Drafts \subseteq Snapshot /\ Drafts # {} /\ (CHOOSE d \in Drafts : TRUE) \in Snapshot
BY RouterAssumption DEF Snapshot

LEMMA RowsOf ==
    ASSUME ControllerTypes, NEW r \in Routers
    PROVE  /\ router[r] \in RouterRow
           /\ pending[r] # None => pending[r] \in ChangeRequest
           /\ applied[r] # None => applied[r] \in AppliedChange
           /\ RollbackTarget(r) \in Nat
           /\ \A n \in DOMAIN revisions[r] : n \in Nat /\ revisions[r][n] \in Revision /\ revisions[r][n].snap \in Snapshot
BY DEF ControllerTypes, RevisionTypes, RollbackTarget, AppliedChange, Revision

LEMMA ChangeType ==
    ASSUME ControllerTypes, NEW r \in Routers, NEW snap \in Snapshot
    PROVE  Change(r, snap) \in ChangeRequest
BY RowsOf DEF Change, ChangeRequest, BoundTo, RouterRow

LEMMA QuietSteps ==
    ASSUME ControllerTypes, NEW r \in Routers, Quiet(r)
    PROVE  QuietStep /\ ControllerTypes'
<1>0. router \in [Routers -> RouterRow] /\ pending \in [Routers -> ChangeRequest \cup {None}] /\ router[r] \in RouterRow
  BY DEF ControllerTypes
<1>1. SUFFICES QuietStep /\ router' \in [Routers -> RouterRow] /\ pending' \in [Routers -> ChangeRequest \cup {None}]
  BY DEF QuietStep, ControllerTypes, RevisionTypes
<1>2. CASE Save(r)
  <2>1. PICK d \in Drafts :
          router' = [router EXCEPT ![r].draft = d, ![r].savedAs = {}, ![r].touched = TRUE]
    BY <1>2 DEF Save
  <2>2. d \in Snapshot BY DraftsArePublishable
  <2>3. router' \in [Routers -> RouterRow] BY <1>0, <2>1, <2>2 DEF RouterRow
  <2>4. \A q \in Routers : Kept(q) BY <1>0, <2>1 DEF Kept, RouterRow
  <2>. QED BY <1>0, <1>2, <2>3, <2>4 DEF Save, QuietStep
<1>3. CASE Submit(r)
  <2>1. router' = [router EXCEPT ![r].savedAs = @ \cup {"pending"}] BY <1>3 DEF Submit
  <2>2. router' \in [Routers -> RouterRow] BY <1>0, <2>1 DEF RouterRow
  <2>3. \A q \in Routers : Kept(q) BY <1>0, <2>1 DEF Kept, RouterRow
  <2>4. Change(r, router[r].draft) \in ChangeRequest BY <1>0, ChangeType DEF RouterRow
  <2>. QED BY <1>0, <1>3, <2>2, <2>3, <2>4 DEF Submit, QuietStep
<1>4. CASE SubmitRestore(r)
  <2>1. PICK n \in DOMAIN revisions[r] :
          /\ router' = [router EXCEPT ![r].draft = revisions[r][n].snap, ![r].savedAs = {"pending"}, ![r].touched = TRUE]
          /\ pending' = [pending EXCEPT ![r] = Change(r, revisions[r][n].snap)]
    BY <1>4 DEF SubmitRestore
  <2>2. PICK snap \in Snapshot : snap = revisions[r][n].snap BY RowsOf
  <2>3. router' \in [Routers -> RouterRow] BY <1>0, <2>1, <2>2 DEF RouterRow
  <2>4. \A q \in Routers : Kept(q) BY <1>0, <2>1 DEF Kept, RouterRow
  <2>5. Change(r, snap) \in ChangeRequest BY ChangeType
  <2>6. pending' \in [Routers -> ChangeRequest \cup {None}] BY <1>0, <2>1, <2>2, <2>5
  <2>. QED BY <1>4, <2>3, <2>4, <2>6 DEF SubmitRestore, QuietStep
<1>5. CASE CloseChange(r)
  <2>1. router' = [router EXCEPT ![r].savedAs = @ \ {"pending"}] BY <1>5 DEF CloseChange
  <2>2. router' \in [Routers -> RouterRow] BY <1>0, <2>1 DEF RouterRow
  <2>3. \A q \in Routers : Kept(q) BY <1>0, <2>1 DEF Kept, RouterRow
  <2>. QED BY <1>0, <1>5, <2>2, <2>3 DEF CloseChange, QuietStep
<1>6. CASE Age(r)
  <2>4. PICK k \in Nat : k = router[r].active + 1 BY <1>0 DEF RouterRow
  <2>1. router' = [router EXCEPT ![r].recentFrom = k, ![r].touched = FALSE] BY <1>6, <2>4 DEF Age
  <2>2. router' \in [Routers -> RouterRow] BY <1>0, <2>1 DEF RouterRow
  <2>3. \A q \in Routers : Kept(q) BY <1>0, <2>1 DEF Kept, RouterRow
  <2>. QED BY <1>0, <1>6, <2>2, <2>3 DEF Age, QuietStep
<1>. QED BY <1>2, <1>3, <1>4, <1>5, <1>6 DEF Quiet

CreateStep(r) ==
    /\ router[r].state = "none" /\ router'[r].active = router[r].active
    /\ \A q \in Routers \ {r} : Kept(q) /\ BindingsKept(q)
    /\ UNCHANGED <<revisions, applied, version, gone, generation, runner>>

LEMMA CreateSteps ==
    ASSUME ControllerTypes, NEW r \in Routers, Create(r)
    PROVE  CreateStep(r) /\ ControllerTypes'
<1>0. router \in [Routers -> RouterRow] /\ router[r] \in RouterRow /\ boundTo \in [Endpoints -> Routers \cup {None, SoftDeleted}]
  BY DEF ControllerTypes
<1>1. PICK d \in Drafts, eps \in SUBSET Endpoints :
        /\ \A e \in eps : boundTo[e] = None
        /\ router' = [router EXCEPT ![r].state = "live", ![r].draft = d, ![r].touched = TRUE]
        /\ boundTo' = [e \in Endpoints |-> IF e \in eps THEN r ELSE boundTo[e]]
  BY DEF Create
<1>2. d \in Snapshot BY DraftsArePublishable
<1>3. router' \in [Routers -> RouterRow] BY <1>0, <1>1, <1>2 DEF RouterRow
<1>4. \A q \in Routers \ {r} : Kept(q) BY <1>0, <1>1 DEF Kept, RouterRow
<1>5. router'[r].active = router[r].active BY <1>0, <1>1 DEF RouterRow
<1>6. boundTo' \in [Endpoints -> Routers \cup {None, SoftDeleted}] BY <1>0, <1>1
<1>7. \A q \in Routers \ {r} : BindingsKept(q)
  <2>1. \A q \in Routers \ {r} : BoundTo(q)' = BoundTo(q) BY <1>0, <1>1, RouterAssumption DEF BoundTo
  <2>2. DeletedEndpoints' = DeletedEndpoints BY <1>0, <1>1, RouterAssumption DEF DeletedEndpoints
  <2>. QED BY <2>1, <2>2 DEF BindingsKept
<1>8. UNCHANGED <<revisions, pending, applied, version, gone, generation, runner>> /\ router[r].state = "none" BY DEF Create
<1>9. CreateStep(r) BY <1>4, <1>5, <1>7, <1>8 DEF CreateStep
<1>. QED BY <1>3, <1>6, <1>8, <1>9 DEF ControllerTypes, RevisionTypes

\* An approval or a revert: snap becomes the next revision, in a new generation.
PublicationStep(r, snap) ==
    /\ Live(r) /\ Publishable(snap)
    /\ router'[r].state = "live" /\ router'[r].active = router[r].active + 1 /\ router'[r].desired = generation + 1
    /\ DOMAIN revisions'[r] = DOMAIN revisions[r] \cup {router[r].active + 1}
    /\ revisions'[r][router[r].active + 1] = [snap |-> snap, gen |-> generation + 1]
    /\ \A n \in DOMAIN revisions[r] \ {router[r].active + 1} : revisions'[r][n] = revisions[r][n]
    /\ RollbackTarget(r)' \in {0, router[r].active}
    /\ \A q \in Routers \ {r} : Kept(q) /\ revisions'[q] = revisions[q] /\ applied'[q] = applied[q]
    /\ generation' = generation + 1
    /\ UNCHANGED <<boundTo, version, gone, runner>>

LEMMA Publications ==
    ASSUME ControllerTypes, NEW r \in Routers, Live(r), NEW snap \in Snapshot, Publishable(snap),
           NEW draft \in Snapshot, NEW saved \in SUBSET {"pending", "active"},
           NEW change \in AppliedChange,
           ApplySnapshot(r, snap, draft, saved),
           applied' = [applied EXCEPT ![r] = change], change.kind = "publish" => change.base = router[r].active,
           pending' = [pending EXCEPT ![r] = None]
    PROVE  PublicationStep(r, snap) /\ ControllerTypes'
<1>0. /\ router \in [Routers -> RouterRow] /\ router[r] \in RouterRow /\ generation \in Nat
      /\ DOMAIN revisions = Routers /\ RevisionTypes
      /\ pending \in [Routers -> ChangeRequest \cup {None}] /\ applied \in [Routers -> AppliedChange \cup {None}]
  BY DEF ControllerTypes, RevisionTypes
<1>1. PICK k \in Nat, g \in Nat : k = router[r].active + 1 /\ g = generation + 1 BY <1>0 DEF RouterRow
<1>2. PICK old : old = revisions[r] BY Zenon
<1>3. PICK row \in Revision : row = [snap |-> snap, gen |-> g] BY <1>1 DEF Revision
<1>4. /\ generation' = g
      /\ revisions' = [revisions EXCEPT ![r] = [n \in DOMAIN old \cup {k} |-> IF n = k THEN row ELSE old[n]]]
      /\ router' = [router EXCEPT ![r].active = k, ![r].desired = g, ![r].touched = TRUE,
                                  ![r].draft = draft, ![r].savedAs = saved]
      /\ UNCHANGED <<boundTo, version, gone, runner>>
  BY <1>0, <1>1, <1>2, <1>3 DEF ApplySnapshot
<1>5. router' \in [Routers -> RouterRow] BY <1>0, <1>1, <1>4 DEF RouterRow
<1>6. /\ router'[r].state = router[r].state /\ router'[r].active = k /\ router'[r].desired = g
      /\ \A q \in Routers \ {r} : Kept(q)
  BY <1>0, <1>1, <1>4 DEF RouterRow, Kept
<1>7. /\ DOMAIN revisions' = Routers
      /\ \A q \in Routers \ {r} : revisions'[q] = revisions[q]
      /\ DOMAIN revisions'[r] = DOMAIN old \cup {k} /\ revisions'[r][k] = row
      /\ \A n \in DOMAIN old \ {k} : revisions'[r][n] = old[n]
  BY <1>0, <1>4
<1>8. RevisionTypes'
  <2>1. SUFFICES ASSUME NEW q \in Routers, NEW n \in DOMAIN revisions'[q]
                 PROVE  n \in Nat /\ revisions'[q][n] \in Revision
    BY <1>7 DEF RevisionTypes
  <2>2. CASE q # r BY <1>0, <1>7, <2>2 DEF RevisionTypes
  <2>3. CASE q = r /\ n = k BY <1>7, <2>3
  <2>4. CASE q = r /\ n # k
    <3>1. n \in DOMAIN revisions[r] /\ revisions'[r][n] = revisions[r][n] BY <1>2, <1>7, <2>4
    <3>. QED BY <1>0, <2>4, <3>1 DEF RevisionTypes
  <2>. QED BY <2>2, <2>3, <2>4
<1>9. applied' \in [Routers -> AppliedChange \cup {None}] /\ pending' \in [Routers -> ChangeRequest \cup {None}]
  BY <1>0
<1>10. applied'[r] = change /\ \A q \in Routers \ {r} : applied'[q] = applied[q] BY <1>0
<1>11. RollbackTarget(r)' \in {0, router[r].active} BY <1>10 DEF RollbackTarget
<1>12. PublicationStep(r, snap)
  BY <1>1, <1>2, <1>3, <1>4, <1>6, <1>7, <1>10, <1>11 DEF PublicationStep, Live
<1>. QED BY <1>1, <1>4, <1>5, <1>8, <1>9, <1>12 DEF ControllerTypes

LEMMA PublicationSteps ==
    ASSUME ControllerTypes, NEW r \in Routers, Approve(r) \/ Revert(r)
    PROVE  /\ ControllerTypes'
           /\ \E snap \in Snapshot : PublicationStep(r, snap)
<1>0. router[r] \in RouterRow /\ router[r].draft \in Snapshot /\ router[r].active \in Nat BY RowsOf DEF RouterRow
<1>1. CASE Approve(r)
  <2>1. pending[r] \in ChangeRequest BY <1>1, RowsOf DEF Approve
  <2>2. PICK snap \in Snapshot, base \in Nat : snap = pending[r].snap /\ base = pending[r].base BY <2>1 DEF ChangeRequest
  <2>3. PICK saved \in SUBSET {"pending", "active"} : saved = IF "pending" \in router[r].savedAs THEN {"active"} ELSE {}
    OBVIOUS
  <2>4. PICK change \in AppliedChange : change = [kind |-> "publish", base |-> base] BY DEF AppliedChange
  <2>5. Live(r) /\ Publishable(snap) /\ base = router[r].active BY <1>1, <2>2 DEF Approve, Stale
  <2>6. /\ ApplySnapshot(r, snap, router[r].draft, saved)
        /\ applied' = [applied EXCEPT ![r] = change] /\ pending' = [pending EXCEPT ![r] = None]
    BY <1>1, <2>2, <2>3, <2>4 DEF Approve
  <2>7. change.base = router[r].active BY <2>4, <2>5
  <2>. QED BY <1>0, <2>5, <2>6, <2>7, Publications
<1>2. CASE Revert(r)
  <2>1. RollbackTarget(r) \in DOMAIN revisions[r] BY <1>2 DEF Revert
  <2>2. PICK snap \in Snapshot : snap = revisions[r][RollbackTarget(r)].snap BY <2>1, RowsOf
  <2>3. PICK change \in AppliedChange : change = [kind |-> "revert", base |-> router[r].active] BY <1>0 DEF AppliedChange
  <2>4. Live(r) /\ Publishable(snap) BY <1>2, <2>2 DEF Revert
  <2>5. /\ ApplySnapshot(r, snap, snap, {"active"})
        /\ applied' = [applied EXCEPT ![r] = change] /\ pending' = [pending EXCEPT ![r] = None]
    BY <1>2, <2>2, <2>3 DEF Revert
  <2>6. change.kind # "publish" BY <2>3
  <2>7. {"active"} \in SUBSET {"pending", "active"} OBVIOUS
  <2>. QED BY <2>4, <2>5, <2>6, <2>7, Publications
<1>. QED BY <1>1, <1>2

DeleteRevisionStep(r) ==
    /\ Live(r) /\ RolloutActive(r)
    /\ \E n \in DOMAIN revisions[r] \ {router[r].active, RollbackTarget(r)} :
         /\ DOMAIN revisions'[r] = DOMAIN revisions[r] \ {n}
         /\ \A k \in DOMAIN revisions[r] \ {n} : revisions'[r][k] = revisions[r][k]
    /\ \A q \in Routers \ {r} : revisions'[q] = revisions[q]
    /\ UNCHANGED <<router, applied, boundTo, version, gone, generation, runner>>

LEMMA DeleteRevisionSteps ==
    ASSUME ControllerTypes, NEW r \in Routers, DeleteRevision(r)
    PROVE  DeleteRevisionStep(r) /\ ControllerTypes'
<1>0. RevisionTypes /\ DOMAIN revisions = Routers BY DEF ControllerTypes, RevisionTypes
<1>1. PICK old : old = revisions[r] BY Zenon
<1>2. PICK n \in DOMAIN old \ {router[r].active, RollbackTarget(r)} :
        revisions' = [revisions EXCEPT ![r] = [k \in DOMAIN old \ {n} |-> old[k]]]
  BY <1>1 DEF DeleteRevision
<1>3. /\ DOMAIN revisions' = Routers
      /\ \A q \in Routers \ {r} : revisions'[q] = revisions[q]
      /\ DOMAIN revisions'[r] = DOMAIN old \ {n}
      /\ \A k \in DOMAIN old \ {n} : revisions'[r][k] = old[k]
  BY <1>0, <1>2
<1>4. UNCHANGED <<router, pending, applied, boundTo, version, gone, generation, runner>> /\ Live(r) /\ RolloutActive(r)
  BY DEF DeleteRevision
<1>5. DeleteRevisionStep(r) BY <1>1, <1>2, <1>3, <1>4 DEF DeleteRevisionStep
<1>6. RevisionTypes'
  <2>1. SUFFICES ASSUME NEW q \in Routers, NEW k \in DOMAIN revisions'[q]
                 PROVE  k \in Nat /\ revisions'[q][k] \in Revision
    BY <1>3 DEF RevisionTypes
  <2>2. k \in DOMAIN revisions[q] /\ revisions'[q][k] = revisions[q][k] BY <1>1, <1>3
  <2>. QED BY <1>0, <2>2 DEF RevisionTypes
<1>. QED BY <1>4, <1>5, <1>6 DEF ControllerTypes

\* Bind and Remove: the row of r waits for a new generation.
RedesireStep(r) ==
    /\ router[r].state = "live" /\ router'[r].state \in {"live", "removed"}
    /\ router'[r].active = router[r].active /\ router'[r].desired = generation + 1
    /\ \A q \in Routers \ {r} : Kept(q) /\ BindingsKept(q)
    /\ generation' = generation + 1
    /\ UNCHANGED <<revisions, applied, version, gone, runner>>

LEMMA RedesireSteps ==
    ASSUME ControllerTypes, NEW r \in Routers, Bind(r) \/ Remove(r)
    PROVE  RedesireStep(r) /\ ControllerTypes'
<1>0. router \in [Routers -> RouterRow] /\ router[r] \in RouterRow /\ boundTo \in [Endpoints -> Routers \cup {None, SoftDeleted}]
  BY DEF ControllerTypes
<1>1. PICK g \in Nat : g = generation + 1 BY DEF ControllerTypes
<1>2. CASE Bind(r)
  <2>1. PICK eps \in SUBSET Endpoints :
          /\ \A e \in eps : boundTo[e] \in {r, None}
          /\ boundTo' = [e \in Endpoints |-> IF e \in eps THEN r ELSE IF boundTo[e] = r THEN None ELSE boundTo[e]]
    BY <1>2 DEF Bind
  <2>2. router' = [router EXCEPT ![r].desired = g] /\ generation' = g BY <1>1, <1>2 DEF Bind
  <2>3. router' \in [Routers -> RouterRow] BY <1>0, <2>2 DEF RouterRow
  <2>4. /\ router'[r].state = router[r].state /\ router'[r].active = router[r].active /\ router'[r].desired = g
        /\ \A q \in Routers \ {r} : Kept(q)
    BY <1>0, <2>2 DEF RouterRow, Kept
  <2>5. boundTo' \in [Endpoints -> Routers \cup {None, SoftDeleted}] BY <1>0, <2>1
  <2>6. \A q \in Routers \ {r} : BindingsKept(q)
    <3>1. \A q \in Routers \ {r} : BoundTo(q)' = BoundTo(q) BY <1>0, <2>1, RouterAssumption DEF BoundTo
    <3>2. DeletedEndpoints' = DeletedEndpoints BY <1>0, <2>1, RouterAssumption DEF DeletedEndpoints
    <3>. QED BY <3>1, <3>2 DEF BindingsKept
  <2>7. UNCHANGED <<revisions, pending, applied, version, gone, runner>> /\ router[r].state = "live" BY <1>2 DEF Bind, Live
  <2>8. RedesireStep(r) BY <1>1, <2>2, <2>4, <2>6, <2>7 DEF RedesireStep
  <2>. QED BY <2>2, <2>3, <2>5, <2>7, <2>8 DEF ControllerTypes, RevisionTypes
<1>3. CASE Remove(r)
  <2>1. router' = [router EXCEPT ![r].state = "removed", ![r].desired = g] /\ generation' = g BY <1>1, <1>3 DEF Remove
  <2>2. router' \in [Routers -> RouterRow] BY <1>0, <2>1 DEF RouterRow
  <2>3. /\ router'[r].state = "removed" /\ router'[r].active = router[r].active /\ router'[r].desired = g
        /\ \A q \in Routers \ {r} : Kept(q)
    BY <1>0, <2>1 DEF RouterRow, Kept
  <2>4. UNCHANGED <<revisions, pending, applied, boundTo, version, gone, runner>> /\ router[r].state = "live" BY <1>3 DEF Remove, Live
  <2>5. \A q \in Routers : BindingsKept(q) BY <2>4 DEF BindingsKept, BoundTo, DeletedEndpoints
  <2>6. RedesireStep(r) BY <1>1, <2>1, <2>3, <2>4, <2>5 DEF RedesireStep
  <2>. QED BY <2>1, <2>2, <2>4, <2>6 DEF ControllerTypes, RevisionTypes
<1>. QED BY <1>2, <1>3

\* A deleted Endpoint leaves the bindings, and nothing else but the generation changes.
EndpointStep ==
    /\ \A q \in Routers : BindingsKept(q)
    /\ generation' = generation + 1
    /\ UNCHANGED <<router, revisions, applied, version, gone, runner>>

LEMMA EndpointSteps ==
    ASSUME ControllerTypes, NEW e \in Endpoints, DeleteEndpoint(e)
    PROVE  EndpointStep /\ ControllerTypes'
<1>0. boundTo \in [Endpoints -> Routers \cup {None, SoftDeleted}] /\ generation \in Nat BY DEF ControllerTypes
<1>1. boundTo' = [boundTo EXCEPT ![e] = SoftDeleted] /\ generation' = generation + 1
  BY DEF DeleteEndpoint
<1>2. UNCHANGED <<router, revisions, pending, applied, version, gone, runner>> BY DEF DeleteEndpoint
<1>3. boundTo' \in [Endpoints -> Routers \cup {None, SoftDeleted}] BY <1>0, <1>1
<1>4. \A q \in Routers : BindingsKept(q)
  <2>1. \A q \in Routers : BoundTo(q)' = BoundTo(q) \ {e} BY <1>0, <1>1, RouterAssumption DEF BoundTo
  <2>2. DeletedEndpoints' = DeletedEndpoints \cup {e} BY <1>0, <1>1 DEF DeletedEndpoints
  <2>. QED BY <2>1, <2>2 DEF BindingsKept
<1>. QED BY <1>0, <1>1, <1>2, <1>3, <1>4 DEF EndpointStep, ControllerTypes, RevisionTypes

VersionAction(v) == PublishVersion(v) \/ ReleaseVersion(v) \/ DeleteVersion(v)
GuardrailAction(g) == ImportPackage(g) \/ SoftDelete(g)

\* Whatever happens to a version that r sends traffic to leaves it ready, and nothing
\* but a deletion takes a version away.
VersionStep ==
    /\ generation' \in Nat /\ generation <= generation'
    /\ \A v \in Versions : version[v] = "ready" /\ GuardrailOf[v] \notin gone =>
         \/ version'[v] = "ready" /\ GuardrailOf[v] \notin gone'
         \/ DeleteVersion(v)
         \/ GuardrailUnused(GuardrailOf[v])
    /\ \A v \in Versions : Exists(v) => Exists(v)' \/ DeleteVersion(v)
    /\ UNCHANGED <<router, revisions, pending, applied, boundTo, runner>>

LEMMA VersionSteps ==
    ASSUME ControllerTypes, \E v \in Versions : VersionAction(v)
    PROVE  VersionStep /\ ControllerTypes'
<1>0. version \in [Versions -> {"none", "pending", "ready", "deleted"}] /\ generation \in Nat BY DEF ControllerTypes
<1>1. PICK v \in Versions : VersionAction(v) OBVIOUS
<1>2. UNCHANGED <<router, revisions, pending, applied, boundTo, gone, runner>>
  BY <1>1 DEF VersionAction, PublishVersion, ReleaseVersion, DeleteVersion
<1>3. generation' \in {generation, generation + 1}
  BY <1>1 DEF VersionAction, PublishVersion, ReleaseVersion, DeleteVersion
<1>4. \/ version' = [version EXCEPT ![v] = "ready"]
      \/ version' = [version EXCEPT ![v] = "deleted"] /\ DeleteVersion(v)
  BY <1>1 DEF VersionAction, PublishVersion, ReleaseVersion, DeleteVersion
<1>5. version' \in [Versions -> {"none", "pending", "ready", "deleted"}] BY <1>0, <1>4
<1>6. VersionStep
  <2>1. \A u \in Versions : version[u] = "ready" => version'[u] = "ready" \/ DeleteVersion(u) BY <1>0, <1>4
  <2>2. \A u \in Versions : Exists(u) => Exists(u)' \/ DeleteVersion(u) BY <1>0, <1>4 DEF Exists
  <2>. QED BY <1>0, <1>2, <1>3, <2>1, <2>2 DEF VersionStep
<1>. QED BY <1>0, <1>2, <1>3, <1>5, <1>6 DEF ControllerTypes, RevisionTypes

LEMMA GuardrailSteps ==
    ASSUME ControllerTypes, \E g \in Guardrails : GuardrailAction(g)
    PROVE  VersionStep /\ ControllerTypes' /\ \A v \in Versions : ~Deleted(v)
<1>0. version \in [Versions -> {"none", "pending", "ready", "deleted"}] /\ generation \in Nat /\ gone \subseteq Guardrails
  BY DEF ControllerTypes
<1>1. PICK g \in Guardrails : GuardrailAction(g) OBVIOUS
<1>2. CASE ImportPackage(g)
  <2>1. PICK fresh \in SUBSET {v \in Versions : GuardrailOf[v] = g /\ ~Exists(v)} :
          /\ version' = [v \in Versions |-> IF v \in fresh THEN "pending" ELSE (IF g \in gone THEN Reset(g) ELSE version)[v]]
          /\ gone' = gone \ {g}
          /\ generation' = generation + (Cardinality(fresh) + (IF g \in gone THEN 1 ELSE 0))
          /\ UNCHANGED <<router, revisions, pending, applied, boundTo, runner>>
    BY <1>2 DEF ImportPackage
  <2>2. Cardinality(fresh) \in Nat BY RouterAssumption, FS_Subset, FS_CardinalityType
  <2>3. generation' \in Nat /\ generation <= generation' BY <1>0, <2>1, <2>2
  <2>4. \A v \in Versions : version'[v] = version[v] \/ (version'[v] = "pending" /\ ~Exists(v))
                            \/ (version'[v] = "pending" /\ GuardrailOf[v] = g /\ g \in gone)
    BY <1>0, <2>1 DEF Reset
  <2>5. version' \in [Versions -> {"none", "pending", "ready", "deleted"}]
    <3>1. version' = [v \in Versions |-> version'[v]] BY <2>1
    <3>2. \A v \in Versions : version'[v] \in {"none", "pending", "ready", "deleted"} BY <1>0, <2>4
    <3>. QED BY <3>1, <3>2
  <2>6. /\ \A v \in Versions : version[v] = "ready" /\ GuardrailOf[v] \notin gone => version'[v] = "ready" /\ GuardrailOf[v] \notin gone'
        /\ \A v \in Versions : Exists(v) => Exists(v)'
        /\ \A v \in Versions : ~Deleted(v)
    BY <2>1, <2>4 DEF Exists, Deleted
  <2>7. VersionStep BY <2>1, <2>3, <2>6 DEF VersionStep
  <2>. QED BY <1>0, <2>1, <2>3, <2>5, <2>6, <2>7 DEF ControllerTypes, RevisionTypes
<1>3. CASE SoftDelete(g)
  <2>1. /\ version' = [v \in Versions |-> IF GuardrailOf[v] = g /\ Exists(v) THEN "pending" ELSE version[v]]
        /\ gone' = gone \cup {g} /\ generation' = generation + 1 /\ GuardrailUnused(g)
        /\ UNCHANGED <<router, revisions, pending, applied, boundTo, runner>>
    BY <1>3 DEF SoftDelete, Reset
  <2>2. version' \in [Versions -> {"none", "pending", "ready", "deleted"}] BY <1>0, <2>1
  <2>3. /\ \A v \in Versions : version[v] = "ready" /\ GuardrailOf[v] \notin gone =>
             \/ version'[v] = "ready" /\ GuardrailOf[v] \notin gone'
             \/ GuardrailUnused(GuardrailOf[v])
        /\ \A v \in Versions : Exists(v) => Exists(v)'
        /\ \A v \in Versions : ~Deleted(v)
    BY <1>0, <2>1 DEF Exists, Deleted
  <2>4. VersionStep BY <1>0, <2>1, <2>3 DEF VersionStep
  <2>. QED BY <1>0, <2>1, <2>2, <2>3, <2>4 DEF ControllerTypes, RevisionTypes
<1>. QED BY <1>1, <1>2, <1>3 DEF GuardrailAction

RunnerAction(w) == ApplyState(w) \/ Heartbeat(w) \/ GoStale(w)

RunnerStep(w) ==
    /\ \/ /\ runner'[w].gen = generation /\ runner[w].gen <= generation /\ runner'[w].known = runner[w].known
          /\ \A r \in Routers : runner'[w].routes[r] = Projected(r)
       \/ /\ runner'[w].gen = runner[w].gen /\ runner'[w].routes = runner[w].routes
          /\ runner'[w].known \in {runner[w].known, runner[w].gen}
    /\ \A x \in Runners \ {w} : runner'[x] = runner[x]
    /\ UNCHANGED <<router, revisions, applied, boundTo, version, gone, generation>>

LEMMA ActiveSnapType ==
    ASSUME ControllerTypes, Numbering, NEW r \in Routers, router[r].active # 0
    PROVE  /\ ActiveSnap(r) \in Snapshot
           /\ router[r].active \in DOMAIN revisions[r]
BY RowsOf DEF Numbering, ActiveSnap

LEMMA ProjectedType ==
    ASSUME ControllerTypes, Numbering, NEW r \in Routers
    PROVE  Projected(r) \in Route \cup {None}
<1>1. CASE Projected(r) = None BY <1>1
<1>2. CASE router[r].active # 0 /\ Projected(r) = [snap |-> ActiveSnap(r), eps |-> BoundTo(r)]
  <2>1. ActiveSnap(r) \in Snapshot BY <1>2, ActiveSnapType
  <2>2. BoundTo(r) \in SUBSET Endpoints BY DEF BoundTo
  <2>. QED BY <1>2, <2>1, <2>2 DEF Route
<1>. QED BY <1>1, <1>2 DEF Projected

LEMMA RunnerSteps ==
    ASSUME ControllerTypes, RunnerTypes, Numbering, NEW w \in Runners, RunnerAction(w)
    PROVE  RunnerStep(w) /\ ControllerTypes' /\ RunnerTypes'
<1>0. runner \in [Runners -> RunnerRow] /\ runner[w] \in RunnerRow /\ generation \in Nat BY DEF RunnerTypes, ControllerTypes
<1>1. UNCHANGED <<router, revisions, pending, applied, boundTo, version, gone, generation>>
  BY DEF RunnerAction, ApplyState, Heartbeat, GoStale
<1>2. ControllerTypes' BY <1>1 DEF ControllerTypes, RevisionTypes
<1>3. CASE ApplyState(w)
  <2>1. PICK projection \in [Routers -> Route \cup {None}] : projection = [r \in Routers |-> Projected(r)]
    BY ProjectedType
  <2>2. runner' = [runner EXCEPT ![w].gen = generation, ![w].routes = projection] /\ generation > runner[w].gen
    BY <1>3, <2>1 DEF ApplyState
  <2>3. RunnerTypes' BY <1>0, <2>1, <2>2 DEF RunnerTypes, RunnerRow
  <2>4. /\ runner'[w].gen = generation /\ runner'[w].routes = projection /\ runner'[w].known = runner[w].known
        /\ \A x \in Runners \ {w} : runner'[x] = runner[x]
    BY <1>0, <2>2 DEF RunnerRow
  <2>5. runner[w].gen <= generation BY <1>0, <2>2 DEF RunnerRow
  <2>. QED BY <1>1, <1>2, <2>1, <2>3, <2>4, <2>5 DEF RunnerStep
<1>4. CASE Heartbeat(w)
  <2>1. runner' = [runner EXCEPT ![w].known = runner[w].gen, ![w].fresh = TRUE] BY <1>4 DEF Heartbeat
  <2>2. RunnerTypes' BY <1>0, <2>1 DEF RunnerTypes, RunnerRow
  <2>3. /\ runner'[w].gen = runner[w].gen /\ runner'[w].routes = runner[w].routes /\ runner'[w].known = runner[w].gen
        /\ \A x \in Runners \ {w} : runner'[x] = runner[x]
    BY <1>0, <2>1 DEF RunnerRow
  <2>. QED BY <1>1, <1>2, <2>2, <2>3 DEF RunnerStep
<1>5. CASE GoStale(w)
  <2>1. runner' = [runner EXCEPT ![w].fresh = FALSE] BY <1>5 DEF GoStale
  <2>2. RunnerTypes' BY <1>0, <2>1 DEF RunnerTypes, RunnerRow
  <2>3. /\ runner'[w].gen = runner[w].gen /\ runner'[w].routes = runner[w].routes /\ runner'[w].known = runner[w].known
        /\ \A x \in Runners \ {w} : runner'[x] = runner[x]
    BY <1>0, <2>1 DEF RunnerRow
  <2>. QED BY <1>1, <1>2, <2>2, <2>3 DEF RunnerStep
<1>. QED BY <1>3, <1>4, <1>5 DEF RunnerAction

\* Every step is one of eight kinds.
Step ==
    \/ QuietStep
    \/ \E r \in Routers : CreateStep(r)
    \/ \E r \in Routers, snap \in Snapshot : PublicationStep(r, snap)
    \/ \E r \in Routers : DeleteRevisionStep(r)
    \/ \E r \in Routers : RedesireStep(r)
    \/ EndpointStep
    \/ VersionStep
    \/ \E w \in Runners : RunnerStep(w)

LEMMA Steps ==
    ASSUME ControllerTypes, RunnerTypes, Numbering, [RCNext]_rcVars
    PROVE  Step /\ ControllerTypes' /\ RunnerTypes'
<1>1. CASE UNCHANGED rcVars
  <2>1. QuietStep BY <1>1 DEF QuietStep, Kept, rcVars
  <2>. QED BY <1>1, <2>1 DEF Step, rcVars, ControllerTypes, RevisionTypes, RunnerTypes
<1>2. CASE \E w \in Runners : RunnerAction(w)
  BY <1>2, RunnerSteps DEF Step
<1>3. CASE \E v \in Versions : VersionAction(v)
  BY <1>3, VersionSteps DEF Step, VersionStep, RunnerTypes
<1>4. CASE \E g \in Guardrails : GuardrailAction(g)
  BY <1>4, GuardrailSteps DEF Step, VersionStep, RunnerTypes
<1>5. CASE \E r \in Routers : Quiet(r) BY <1>5, QuietSteps DEF Step, QuietStep, RunnerTypes
<1>6. CASE \E r \in Routers : Create(r) BY <1>6, CreateSteps DEF Step, CreateStep, RunnerTypes
<1>7. CASE \E r \in Routers : Approve(r) \/ Revert(r)
  BY <1>7, PublicationSteps DEF Step, PublicationStep, RunnerTypes
<1>8. CASE \E r \in Routers : DeleteRevision(r)
  BY <1>8, DeleteRevisionSteps DEF Step, DeleteRevisionStep, RunnerTypes
<1>9. CASE \E r \in Routers : Bind(r) \/ Remove(r)
  BY <1>9, RedesireSteps DEF Step, RedesireStep, RunnerTypes
<1>10. CASE \E e \in Endpoints : DeleteEndpoint(e)
  BY <1>10, EndpointSteps DEF Step, EndpointStep, RunnerTypes
<1>. QED BY <1>1, <1>2, <1>3, <1>4, <1>5, <1>6, <1>7, <1>8, <1>9, <1>10
         DEF RCNext, Quiet, VersionAction, GuardrailAction, RunnerAction

-----------------------------------------------------------------------------
(* The parts of the invariant are preserved. *)

LEMMA NumberingKept ==
    ASSUME ControllerTypes, RunnerTypes, Numbering, Step
    PROVE  Numbering'
<1>1. CASE QuietStep BY <1>1 DEF QuietStep, Kept, Numbering
<1>2. CASE \E r \in Routers : CreateStep(r)
  <2>1. PICK r \in Routers : CreateStep(r) BY <1>2
  <2>2. SUFFICES ASSUME NEW q \in Routers
        PROVE  /\ router'[q].active # 0 => router'[q].active \in DOMAIN revisions'[q]
               /\ \A n \in DOMAIN revisions'[q] : 0 < n /\ n <= router'[q].active
               /\ router'[q].state = "none" =>
                    /\ router'[q].active = 0 /\ applied'[q] = None
                    /\ \A w \in Runners : runner'[w].routes[q] = None
    BY DEF Numbering
  <2>3. CASE q = r BY <2>1, <2>3 DEF CreateStep, Numbering
  <2>4. CASE q # r BY <2>1, <2>4 DEF CreateStep, Numbering, Kept
  <2>. QED BY <2>3, <2>4
<1>3. CASE \E r \in Routers, snap \in Snapshot : PublicationStep(r, snap)
  <2>1. PICK r \in Routers, snap \in Snapshot : PublicationStep(r, snap) BY <1>3
  <2>2. SUFFICES ASSUME NEW q \in Routers
        PROVE  /\ router'[q].active # 0 => router'[q].active \in DOMAIN revisions'[q]
               /\ \A n \in DOMAIN revisions'[q] : 0 < n /\ n <= router'[q].active
               /\ router'[q].state = "none" =>
                    /\ router'[q].active = 0 /\ applied'[q] = None
                    /\ \A w \in Runners : runner'[w].routes[q] = None
    BY DEF Numbering
  <2>3. CASE q = r
    <3>1. router[r].active \in Nat /\ \A n \in DOMAIN revisions[r] : n \in Nat BY RowsOf DEF RouterRow
    <3>2. /\ router'[r].state = "live" /\ router'[r].active = router[r].active + 1
          /\ DOMAIN revisions'[r] = DOMAIN revisions[r] \cup {router[r].active + 1}
      BY <2>1 DEF PublicationStep
    <3>. QED BY <2>3, <3>1, <3>2 DEF Numbering
  <2>4. CASE q # r BY <2>1, <2>4 DEF PublicationStep, Numbering, Kept
  <2>. QED BY <2>3, <2>4
<1>4. CASE \E r \in Routers : DeleteRevisionStep(r)
  <2>1. PICK r \in Routers : DeleteRevisionStep(r) BY <1>4
  <2>2. /\ \A q \in Routers : DOMAIN revisions'[q] \subseteq DOMAIN revisions[q]
        /\ \A q \in Routers : router[q].active \in DOMAIN revisions[q] => router[q].active \in DOMAIN revisions'[q]
    BY <2>1 DEF DeleteRevisionStep
  <2>3. UNCHANGED <<router, applied, runner>> BY <2>1 DEF DeleteRevisionStep
  <2>. QED BY <2>2, <2>3 DEF Numbering
<1>5. CASE \E r \in Routers : RedesireStep(r)
  <2>1. PICK r \in Routers : RedesireStep(r) BY <1>5
  <2>2. /\ \A q \in Routers : router'[q].active = router[q].active
        /\ \A q \in Routers : router'[q].state = "none" => router[q].state = "none"
    BY <2>1 DEF RedesireStep, Kept
  <2>3. UNCHANGED <<revisions, applied, runner>> BY <2>1 DEF RedesireStep
  <2>. QED BY <2>2, <2>3 DEF Numbering
<1>6. CASE VersionStep BY <1>6 DEF VersionStep, Numbering
<1>7. CASE \E w \in Runners : RunnerStep(w)
  <2>1. PICK w \in Runners : RunnerStep(w) BY <1>7
  <2>2. \A r \in Routers : router[r].state = "none" => Projected(r) = None BY DEF Projected, Live
  <2>3. \A r \in Routers, x \in Runners : router[r].state = "none" /\ runner[x].routes[r] = None => runner'[x].routes[r] = None
    BY <2>1, <2>2 DEF RunnerStep
  <2>4. UNCHANGED <<router, revisions, applied>> BY <2>1 DEF RunnerStep
  <2>. QED BY <2>3, <2>4 DEF Numbering
<1>8. CASE EndpointStep BY <1>8 DEF EndpointStep, Numbering
<1>. QED BY <1>1, <1>2, <1>3, <1>4, <1>5, <1>6, <1>7, <1>8 DEF Step

LEMMA FollowingKept ==
    ASSUME ControllerTypes, RunnerTypes, Following, Step
    PROVE  Following'
<1>0. generation \in Nat /\ \A w \in Runners : runner[w].gen \in Nat /\ runner[w].known \in Nat
  BY DEF ControllerTypes, RunnerTypes, RunnerRow
<1>1. CASE \E w \in Runners : RunnerStep(w)
  <2>1. PICK w \in Runners : RunnerStep(w) BY <1>1
  <2>2. generation' = generation BY <2>1 DEF RunnerStep
  <2>3. \A x \in Runners : x # w => runner'[x] = runner[x] BY <2>1 DEF RunnerStep
  <2>4. runner'[w].known <= runner'[w].gen /\ runner'[w].gen <= generation BY <1>0, <2>1 DEF RunnerStep, Following
  <2>. QED BY <2>2, <2>3, <2>4 DEF Following
<1>2. CASE runner' = runner /\ generation' \in Nat /\ generation <= generation' BY <1>0, <1>2 DEF Following
<1>3. CASE runner' = runner /\ generation' \in {generation, generation + 1} BY <1>0, <1>2, <1>3
<1>4. \/ \E w \in Runners : RunnerStep(w)
      \/ VersionStep
      \/ runner' = runner /\ generation' \in {generation, generation + 1}
  BY DEF Step, QuietStep, CreateStep, PublicationStep, DeleteRevisionStep, RedesireStep, EndpointStep
<1>. QED BY <1>1, <1>2, <1>3, <1>4 DEF VersionStep

\* What is active after a step was active before it, or has just been published.
LEMMA ActiveAfter ==
    ASSUME ControllerTypes, Numbering, Step, NEW q \in Routers, Live(q)', router'[q].active # 0
    PROVE  \/ /\ Live(q) /\ router[q].active # 0 /\ router'[q].active = router[q].active
              /\ ActiveSnap(q)' = ActiveSnap(q)
           \/ \E snap \in Snapshot : PublicationStep(q, snap) /\ ActiveSnap(q)' = snap
<1>1. CASE QuietStep BY <1>1 DEF QuietStep, Kept, Live, ActiveSnap
<1>2. CASE \E r \in Routers : CreateStep(r)
  <2>1. PICK r \in Routers : CreateStep(r) BY <1>2
  <2>2. q # r BY <2>1 DEF CreateStep, Numbering
  <2>. QED BY <2>1, <2>2 DEF CreateStep, Kept, Live, ActiveSnap
<1>3. CASE \E r \in Routers, snap \in Snapshot : PublicationStep(r, snap)
  <2>1. PICK r \in Routers, snap \in Snapshot : PublicationStep(r, snap) BY <1>3
  <2>2. CASE q = r
    <3>1. router'[q].active = router[q].active + 1 /\ revisions'[q][router[q].active + 1] = [snap |-> snap, gen |-> generation + 1]
      BY <2>1, <2>2 DEF PublicationStep
    <3>2. ActiveSnap(q)' = snap BY <3>1 DEF ActiveSnap
    <3>. QED BY <2>1, <2>2, <3>2
  <2>3. CASE q # r BY <2>1, <2>3 DEF PublicationStep, Kept, Live, ActiveSnap
  <2>. QED BY <2>2, <2>3
<1>4. CASE \E r \in Routers : DeleteRevisionStep(r)
  <2>1. PICK r \in Routers : DeleteRevisionStep(r) BY <1>4
  <2>2. router' = router BY <2>1 DEF DeleteRevisionStep
  <2>3. router[q].active \in DOMAIN revisions[q] BY <2>2 DEF Numbering
  <2>4. revisions'[q][router[q].active] = revisions[q][router[q].active] BY <2>1, <2>3 DEF DeleteRevisionStep
  <2>. QED BY <2>2, <2>4 DEF Live, ActiveSnap
<1>5. CASE \E r \in Routers : RedesireStep(r)
  <2>1. PICK r \in Routers : RedesireStep(r) BY <1>5
  <2>. QED BY <2>1 DEF RedesireStep, Kept, Live, ActiveSnap
<1>6. CASE VersionStep BY <1>6 DEF VersionStep, Live, ActiveSnap
<1>7. CASE \E w \in Runners : RunnerStep(w) BY <1>7 DEF RunnerStep, Live, ActiveSnap
<1>8. CASE EndpointStep BY <1>8 DEF EndpointStep, Live, ActiveSnap
<1>. QED BY <1>1, <1>2, <1>3, <1>4, <1>5, <1>6, <1>7, <1>8 DEF Step

\* Deletions leave what r sends traffic to alone.
LEMMA DeletedIsUnreferenced ==
    ASSUME NEW r \in Routers, NEW v \in Versions, Live(r), DeleteVersion(v)
    PROVE  /\ router[r].active # 0 => ~Pins(ActiveSnap(r), v)
           /\ RollbackTarget(r) \in DOMAIN revisions[r] => ~Pins(revisions[r][RollbackTarget(r)].snap, v)
BY DEF DeleteVersion, Referenced

LEMMA RoutedKept ==
    ASSUME ControllerTypes, Numbering, RoutedVersionsReady, Step
    PROVE  RoutedVersionsReady'
<1>1. SUFFICES ASSUME NEW q \in Routers, NEW v \in Versions, Live(q)', router'[q].active # 0, ActiveSnap(q)'[v] = "on"
               PROVE  version'[v] = "ready" /\ GuardrailOf[v] \notin gone'
  BY DEF RoutedVersionsReady
<1>2. CASE \E snap \in Snapshot : PublicationStep(q, snap) /\ ActiveSnap(q)' = snap
  BY <1>1, <1>2 DEF PublicationStep, Publishable
<1>3. CASE Live(q) /\ router[q].active # 0 /\ ActiveSnap(q)' = ActiveSnap(q)
  <2>1. ActiveSnap(q)[v] = "on" /\ Pins(ActiveSnap(q), v) BY <1>1, <1>3 DEF Pins
  <2>2. version[v] = "ready" /\ GuardrailOf[v] \notin gone BY <1>3, <2>1 DEF RoutedVersionsReady
  <2>3. ~DeleteVersion(v) BY <1>3, <2>1, DeletedIsUnreferenced
  <2>4. ~GuardrailUnused(GuardrailOf[v]) BY <1>3, <2>1 DEF GuardrailUnused, Mentions
  <2>5. CASE VersionStep BY <2>2, <2>3, <2>4, <2>5 DEF VersionStep
  <2>6. CASE UNCHANGED <<version, gone>> BY <2>2, <2>6
  <2>. QED BY <2>5, <2>6 DEF Step, QuietStep, CreateStep, PublicationStep, DeleteRevisionStep, RedesireStep, EndpointStep, RunnerStep
<1>. QED BY <1>1, <1>2, <1>3, ActiveAfter

\* The version that is still there after a step, unless this very step deletes it.
LEMMA ExistsAfter ==
    ASSUME Step, NEW v \in Versions, Exists(v)
    PROVE  Exists(v)' \/ DeleteVersion(v)
<1>1. CASE VersionStep BY <1>1 DEF VersionStep
<1>2. CASE version' = version BY <1>2 DEF Exists
<1>. QED BY <1>1, <1>2 DEF Step, QuietStep, CreateStep, PublicationStep, DeleteRevisionStep, RedesireStep, EndpointStep, RunnerStep

\* The rollback target after a step was the target before it, or the active revision,
\* and its row is still the same.
LEMMA TargetAfter ==
    ASSUME ControllerTypes, Numbering, RollbackKept, Step, NEW q \in Routers, Live(q)', RollbackTarget(q)' # 0
    PROVE  /\ Live(q)
           /\ RollbackTarget(q)' \in DOMAIN revisions[q] \cap DOMAIN revisions'[q]
           /\ revisions'[q][RollbackTarget(q)'] = revisions[q][RollbackTarget(q)']
           /\ RollbackTarget(q)' = RollbackTarget(q) \/ (router[q].active # 0 /\ RollbackTarget(q)' = router[q].active)
<1>0. SUFFICES /\ Live(q)
               /\ \/ RollbackTarget(q)' = RollbackTarget(q)
                  \/ router[q].active # 0 /\ RollbackTarget(q)' = router[q].active
               /\ \A n \in DOMAIN revisions[q] :
                    n = RollbackTarget(q)' => n \in DOMAIN revisions'[q] /\ revisions'[q][n] = revisions[q][n]
  BY DEF RollbackKept, Numbering
<1>1. CASE QuietStep BY <1>1 DEF QuietStep, Kept, Live, RollbackTarget
<1>2. CASE \E r \in Routers : CreateStep(r)
  <2>1. PICK r \in Routers : CreateStep(r) BY <1>2
  <2>2. q # r BY <2>1 DEF CreateStep, Numbering, RollbackTarget
  <2>. QED BY <2>1, <2>2 DEF CreateStep, Kept, Live, RollbackTarget
<1>3. CASE \E r \in Routers, snap \in Snapshot : PublicationStep(r, snap)
  <2>1. PICK r \in Routers, snap \in Snapshot : PublicationStep(r, snap) BY <1>3
  <2>2. CASE q = r
    <3>1. RollbackTarget(q)' = router[q].active /\ Live(q) BY <2>1, <2>2 DEF PublicationStep
    <3>2. router[q].active \in Nat BY RowsOf DEF RouterRow
    <3>3. \A n \in DOMAIN revisions[q] \ {router[q].active + 1} : n \in DOMAIN revisions'[q] /\ revisions'[q][n] = revisions[q][n]
      BY <2>1, <2>2 DEF PublicationStep
    <3>. QED BY <3>1, <3>2, <3>3
  <2>3. CASE q # r BY <2>1, <2>3 DEF PublicationStep, Kept, Live, RollbackTarget
  <2>. QED BY <2>2, <2>3
<1>4. CASE \E r \in Routers : DeleteRevisionStep(r)
  <2>1. PICK r \in Routers : DeleteRevisionStep(r) BY <1>4
  <2>2. router' = router /\ RollbackTarget(q)' = RollbackTarget(q) BY <2>1 DEF DeleteRevisionStep, RollbackTarget
  <2>. QED BY <2>1, <2>2 DEF DeleteRevisionStep, Live
<1>5. CASE \E r \in Routers : RedesireStep(r)
  <2>1. PICK r \in Routers : RedesireStep(r) BY <1>5
  <2>. QED BY <2>1 DEF RedesireStep, Kept, Live, RollbackTarget
<1>6. CASE VersionStep BY <1>6 DEF VersionStep, Live, RollbackTarget
<1>7. CASE \E w \in Runners : RunnerStep(w) BY <1>7 DEF RunnerStep, Live, RollbackTarget
<1>8. CASE EndpointStep BY <1>8 DEF EndpointStep, Live, RollbackTarget
<1>. QED BY <1>1, <1>2, <1>3, <1>4, <1>5, <1>6, <1>7, <1>8 DEF Step

LEMMA RollbackStaysKept ==
    ASSUME ControllerTypes, Numbering, RoutedVersionsReady, RollbackKept, Step
    PROVE  RollbackKept'
<1>1. SUFFICES ASSUME NEW q \in Routers, Live(q)', RollbackTarget(q)' # 0
               PROVE  /\ RollbackTarget(q)' \in DOMAIN revisions'[q]
                      /\ \A v \in Versions : revisions'[q][RollbackTarget(q)'].snap[v] = "on" => Exists(v)'
  BY DEF RollbackKept
<1>2. PICK n : n = RollbackTarget(q)' BY Zenon
<1>3. /\ Live(q) /\ n \in DOMAIN revisions[q] /\ n \in DOMAIN revisions'[q] /\ revisions'[q][n] = revisions[q][n]
      /\ n = RollbackTarget(q) \/ (router[q].active # 0 /\ n = router[q].active)
  BY <1>1, <1>2, TargetAfter
<1>4. SUFFICES ASSUME NEW v \in Versions, revisions[q][n].snap[v] = "on"
               PROVE  Exists(v)'
  BY <1>2, <1>3
<1>5. Pins(revisions[q][n].snap, v) BY <1>4 DEF Pins
<1>6. CASE n = RollbackTarget(q)
  <2>1. n # 0 BY <1>1, <1>2
  <2>2. Exists(v) BY <1>3, <1>4, <1>6, <2>1 DEF RollbackKept
  <2>3. ~DeleteVersion(v) BY <1>3, <1>5, <1>6, DeletedIsUnreferenced
  <2>. QED BY <2>2, <2>3, ExistsAfter
<1>7. CASE router[q].active # 0 /\ n = router[q].active
  <2>1. revisions[q][n].snap = ActiveSnap(q) BY <1>7 DEF ActiveSnap
  <2>2. Exists(v) BY <1>3, <1>4, <1>7, <2>1 DEF RoutedVersionsReady, Exists
  <2>3. ~DeleteVersion(v) BY <1>3, <1>5, <1>7, <2>1, DeletedIsUnreferenced
  <2>. QED BY <2>2, <2>3, ExistsAfter
<1>. QED BY <1>3, <1>6, <1>7

\* A Runner that applies the tables gets the whole Router, or none of it because of a
\* target on a disabled Route.
LEMMA ProjectedIsComplete ==
    ASSUME ControllerTypes, Numbering, RoutedVersionsReady, NEW r \in Routers, Live(r), router[r].active # 0
    PROVE  \/ Projected(r) = [snap |-> ActiveSnap(r), eps |-> BoundTo(r)]
           \/ Projected(r) = None /\ \E v \in Versions : ActiveSnap(r)[v] = "off"
<1>1. CASE \E v \in Versions : ActiveSnap(r)[v] = "off" BY <1>1 DEF Projected
<1>2. CASE ~\E v \in Versions : ActiveSnap(r)[v] = "off"
  <2>1. \A v \in Versions : ActiveSnap(r)[v] \in {"on", "off"} => Exists(v) /\ GuardrailOf[v] \notin gone
    BY <1>2 DEF RoutedVersionsReady, Exists
  <2>. QED BY <2>1 DEF Projected
<1>. QED BY <1>1, <1>2

LEMMA BoundIsNotDeleted ==
    ASSUME NEW r \in Routers
    PROVE  BoundTo(r) = BoundTo(r) \ DeletedEndpoints
BY RouterAssumption DEF BoundTo, DeletedEndpoints

LEMMA RolloutKept ==
    ASSUME ControllerTypes, RunnerTypes, Numbering, Following, RoutedVersionsReady, Rollout, Step
    PROVE  Rollout'
<1>1. SUFFICES ASSUME NEW q \in Routers, NEW w \in Runners,
                      Live(q)', router'[q].active # 0, router'[q].desired <= runner'[w].gen
               PROVE  \/ FollowedBy(w, q)'
                      \/ runner'[w].routes[q] = None /\ \E v \in Versions : ActiveSnap(q)'[v] = "off"
  BY DEF Rollout
<1>2. generation \in Nat /\ runner[w].gen \in Nat /\ runner[w].gen <= generation
  BY DEF ControllerTypes, RunnerTypes, RunnerRow, Following
<1>3. CASE runner' = runner /\ router'[q].desired = generation + 1 BY <1>1, <1>2, <1>3
<1>4. ASSUME runner' = runner, router'[q].desired = router[q].desired, BindingsKept(q),
             Live(q), router[q].active # 0, ActiveSnap(q)' = ActiveSnap(q)
      PROVE  \/ FollowedBy(w, q)'
             \/ runner'[w].routes[q] = None /\ \E v \in Versions : ActiveSnap(q)'[v] = "off"
  <2>1. router[q].desired <= runner[w].gen BY <1>1, <1>4
  <2>2. CASE FollowedBy(w, q)
    <3>1. PICK eps \in SUBSET Endpoints :
            runner[w].routes[q] = [snap |-> ActiveSnap(q), eps |-> eps] /\ BoundTo(q) = eps \ DeletedEndpoints
      BY <2>2 DEF FollowedBy
    <3>2. BoundTo(q)' = eps \ DeletedEndpoints' BY <1>4, <3>1 DEF BindingsKept
    <3>. QED BY <1>4, <3>1, <3>2 DEF FollowedBy
  <2>3. CASE runner[w].routes[q] = None /\ \E v \in Versions : ActiveSnap(q)[v] = "off" BY <1>4, <2>3
  <2>. QED BY <1>4, <2>1, <2>2, <2>3 DEF Rollout
<1>5. CASE \E x \in Runners : RunnerStep(x)
  <2>1. PICK x \in Runners : RunnerStep(x) BY <1>5
  <2>2. UNCHANGED <<router, revisions, boundTo>> BY <2>1 DEF RunnerStep
  <2>3. Live(q) /\ router[q].active # 0 /\ router[q].desired <= runner'[w].gen BY <1>1, <2>2 DEF Live
  <2>4. ActiveSnap(q)' = ActiveSnap(q) /\ BoundTo(q)' = BoundTo(q) /\ DeletedEndpoints' = DeletedEndpoints
    BY <2>2 DEF ActiveSnap, BoundTo, DeletedEndpoints
  <2>5. CASE runner'[w].gen = runner[w].gen /\ runner'[w].routes = runner[w].routes
    BY <2>3, <2>4, <2>5 DEF Rollout, FollowedBy
  <2>6. CASE runner'[w].routes[q] = Projected(q)
    <3>1. CASE Projected(q) = [snap |-> ActiveSnap(q), eps |-> BoundTo(q)]
      <4>1. PICK eps \in SUBSET Endpoints : eps = BoundTo(q) /\ eps = eps \ DeletedEndpoints
        BY BoundIsNotDeleted DEF BoundTo
      <4>. QED BY <2>4, <2>6, <3>1, <4>1 DEF FollowedBy
    <3>2. CASE Projected(q) = None /\ \E v \in Versions : ActiveSnap(q)[v] = "off" BY <2>4, <2>6, <3>2
    <3>. QED BY <2>3, <3>1, <3>2, ProjectedIsComplete
  <2>. QED BY <2>1, <2>5, <2>6 DEF RunnerStep
<1>6. CASE \E snap \in Snapshot : PublicationStep(q, snap) BY <1>3, <1>6 DEF PublicationStep
<1>7. CASE RedesireStep(q) BY <1>3, <1>7 DEF RedesireStep
<1>8. CASE /\ Live(q) /\ router[q].active # 0 /\ router'[q].active = router[q].active
           /\ ActiveSnap(q)' = ActiveSnap(q)
  <2>0. boundTo' = boundTo => BindingsKept(q) BY DEF BindingsKept, BoundTo, DeletedEndpoints
  <2>1. CASE QuietStep BY <1>4, <1>8, <2>0, <2>1 DEF QuietStep, Kept
  <2>2. CASE \E r \in Routers : CreateStep(r)
    <3>1. PICK r \in Routers : CreateStep(r) BY <2>2
    <3>2. q # r BY <1>8, <3>1 DEF CreateStep, Live
    <3>. QED BY <1>4, <1>8, <3>1, <3>2 DEF CreateStep, Kept
  <2>3. CASE \E r \in Routers, snap \in Snapshot : PublicationStep(r, snap)
    <3>1. PICK r \in Routers, snap \in Snapshot : PublicationStep(r, snap) BY <2>3
    <3>2. CASE q # r BY <1>4, <1>8, <2>0, <3>1, <3>2 DEF PublicationStep, Kept
    <3>. QED BY <1>6, <3>1, <3>2
  <2>4. CASE \E r \in Routers : DeleteRevisionStep(r) BY <1>4, <1>8, <2>0, <2>4 DEF DeleteRevisionStep
  <2>5. CASE \E r \in Routers : RedesireStep(r)
    <3>1. PICK r \in Routers : RedesireStep(r) BY <2>5
    <3>2. CASE q # r BY <1>4, <1>8, <3>1, <3>2 DEF RedesireStep, Kept
    <3>. QED BY <1>7, <3>1, <3>2
  <2>6. CASE VersionStep BY <1>4, <1>8, <2>0, <2>6 DEF VersionStep
  <2>7. CASE EndpointStep BY <1>4, <1>8, <2>7 DEF EndpointStep
  <2>. QED BY <1>5, <2>1, <2>2, <2>3, <2>4, <2>5, <2>6, <2>7 DEF Step
<1>. QED BY <1>1, <1>6, <1>8, ActiveAfter

\* A retirement stays one when a later revision is added.
LEMMA RetirementsGrow ==
    ASSUME ControllerTypes, Numbering, NEW r \in Routers, NEW snap \in Snapshot, PublicationStep(r, snap),
           NEW v \in Versions, NEW n \in Retirements(r, v)
    PROVE  n \in Retirements(r, v)' /\ revisions'[r][n] = revisions[r][n]
<1>1. /\ DOMAIN revisions'[r] = DOMAIN revisions[r] \cup {router[r].active + 1}
      /\ \A k \in DOMAIN revisions[r] \ {router[r].active + 1} : revisions'[r][k] = revisions[r][k]
  BY DEF PublicationStep
<1>2. router[r].active \in Nat /\ \A k \in DOMAIN revisions[r] : k \in Nat /\ k <= router[r].active
  BY RowsOf DEF RouterRow, Numbering
<1>3. \A k \in DOMAIN revisions[r] : k # router[r].active + 1 /\ revisions'[r][k] = revisions[r][k] BY <1>1, <1>2
<1>4. /\ n \in DOMAIN revisions[r] /\ ~Pins(revisions[r][n].snap, v)
      /\ \E k \in DOMAIN revisions[r] : /\ k < n /\ Pins(revisions[r][k].snap, v)
                                        /\ ~\E j \in DOMAIN revisions[r] : k < j /\ j < n
  BY DEF Retirements
<1>5. PICK k \in DOMAIN revisions[r] : /\ k < n /\ Pins(revisions[r][k].snap, v)
                                       /\ ~\E j \in DOMAIN revisions[r] : k < j /\ j < n
  BY <1>4
<1>6. ~\E j \in DOMAIN revisions'[r] : k < j /\ j < n BY <1>1, <1>2, <1>4, <1>5
<1>7. Pins(revisions'[r][k].snap, v) /\ ~Pins(revisions'[r][n].snap, v) BY <1>3, <1>4, <1>5 DEF Pins
<1>8. n \in DOMAIN revisions'[r] /\ k \in DOMAIN revisions'[r] BY <1>1, <1>4
<1>. QED BY <1>3, <1>4, <1>5, <1>6, <1>7, <1>8 DEF Retirements, Pins

\* A publication without v retires it.
LEMMA PublicationRetires ==
    ASSUME ControllerTypes, Numbering, NEW r \in Routers, NEW snap \in Snapshot, PublicationStep(r, snap),
           NEW v \in Versions, router[r].active # 0, Pins(ActiveSnap(r), v), ~Pins(snap, v)
    PROVE  /\ router[r].active + 1 \in Retirements(r, v)'
           /\ revisions'[r][router[r].active + 1].gen = generation + 1
<1>1. PICK a \in Nat : a = router[r].active BY RowsOf DEF RouterRow
<1>2. /\ DOMAIN revisions'[r] = DOMAIN revisions[r] \cup {a + 1}
      /\ revisions'[r][a + 1] = [snap |-> snap, gen |-> generation + 1]
      /\ \A k \in DOMAIN revisions[r] \ {a + 1} : revisions'[r][k] = revisions[r][k]
  BY <1>1 DEF PublicationStep
<1>3. a \in DOMAIN revisions[r] /\ \A k \in DOMAIN revisions[r] : k \in Nat /\ k <= a
  BY <1>1, RowsOf DEF Numbering
<1>4. revisions'[r][a] = revisions[r][a] /\ Pins(revisions'[r][a].snap, v) BY <1>1, <1>2, <1>3 DEF ActiveSnap, Pins
<1>5. ~Pins(revisions'[r][a + 1].snap, v) BY <1>2 DEF Pins
<1>6. ~\E j \in DOMAIN revisions'[r] : a < j /\ j < a + 1 BY <1>2, <1>3
<1>7. a + 1 \in DOMAIN revisions'[r] /\ a \in DOMAIN revisions'[r] /\ a < a + 1 BY <1>2, <1>3
<1>. QED BY <1>1, <1>2, <1>4, <1>5, <1>6, <1>7 DEF Retirements, Pins

LEMMA ServedKept ==
    ASSUME ControllerTypes, RunnerTypes, Numbering, Following, Rollout, Served, Step
    PROVE  Served'
<1>1. SUFFICES ASSUME NEW q \in Routers, NEW v \in Versions, NEW w \in Runners,
                      Live(q)', runner'[w].routes[q] # None, Pins(runner'[w].routes[q].snap, v)
               PROVE  \/ router'[q].active # 0 /\ Pins(ActiveSnap(q)', v)
                      \/ RetiredAfter(q, v, w)'
  BY DEF Served, Pins
<1>2. generation \in Nat /\ runner[w].gen \in Nat /\ runner[w].gen <= generation
  BY DEF ControllerTypes, RunnerTypes, RunnerRow, Following
<1>3. ASSUME Live(q), runner'[w].routes = runner[w].routes
      PROVE  (router[q].active # 0 /\ Pins(ActiveSnap(q), v)) \/ RetiredAfter(q, v, w)
  BY <1>1, <1>3 DEF Served
<1>4. ASSUME Live(q), runner'[w].routes = runner[w].routes, runner'[w].gen = runner[w].gen,
             revisions'[q] = revisions[q], router'[q].active = router[q].active
      PROVE  (router'[q].active # 0 /\ Pins(ActiveSnap(q)', v)) \/ RetiredAfter(q, v, w)'
  <2>1. ActiveSnap(q)' = ActiveSnap(q) BY <1>4 DEF ActiveSnap
  <2>2. RetiredAfter(q, v, w)' <=> RetiredAfter(q, v, w) BY <1>4 DEF RetiredAfter, Retirements, Pins
  <2>. QED BY <1>3, <1>4, <2>1, <2>2
<1>5. CASE QuietStep BY <1>1, <1>4, <1>5 DEF QuietStep, Kept, Live
<1>6. CASE \E r \in Routers : CreateStep(r)
  <2>1. PICK r \in Routers : CreateStep(r) BY <1>6
  <2>2. q # r BY <1>1, <2>1 DEF CreateStep, Numbering
  <2>. QED BY <1>1, <1>4, <2>1, <2>2 DEF CreateStep, Kept, Live
<1>7. CASE \E r \in Routers, snap \in Snapshot : PublicationStep(r, snap)
  <2>1. PICK r \in Routers, snap \in Snapshot : PublicationStep(r, snap) BY <1>7
  <2>2. CASE q # r BY <1>1, <1>4, <2>1, <2>2 DEF PublicationStep, Kept, Live
  <2>3. CASE q = r
    <3>1. PublicationStep(q, snap) /\ Live(q) /\ runner' = runner BY <2>1, <2>3 DEF PublicationStep
    <3>2. CASE RetiredAfter(q, v, w)
      <4>1. PICK n \in Retirements(q, v) : runner[w].gen < revisions[q][n].gen BY <3>2 DEF RetiredAfter
      <4>2. n \in Retirements(q, v)' /\ revisions'[q][n] = revisions[q][n] BY <3>1, RetirementsGrow
      <4>. QED BY <3>1, <4>1, <4>2 DEF RetiredAfter
    <3>3. CASE router[q].active # 0 /\ Pins(ActiveSnap(q), v)
      <4>1. router'[q].active = router[q].active + 1 /\ router[q].active \in Nat
        BY <3>1, RowsOf DEF PublicationStep, RouterRow
      <4>2. ActiveSnap(q)' = snap BY <3>1 DEF PublicationStep, ActiveSnap
      <4>3. CASE Pins(snap, v) BY <4>1, <4>2, <4>3
      <4>4. CASE ~Pins(snap, v)
        <5>1. /\ router[q].active + 1 \in Retirements(q, v)'
              /\ revisions'[q][router[q].active + 1].gen = generation + 1
          BY <3>1, <3>3, <4>4, PublicationRetires
        <5>2. runner'[w].gen < generation + 1 BY <1>2, <3>1
        <5>. QED BY <5>1, <5>2 DEF RetiredAfter
      <4>. QED BY <4>3, <4>4
    <3>. QED BY <1>3, <3>1, <3>2, <3>3
  <2>. QED BY <2>2, <2>3
<1>8. CASE \E r \in Routers : DeleteRevisionStep(r)
  <2>1. PICK r \in Routers : DeleteRevisionStep(r) BY <1>8
  <2>2. router' = router /\ runner' = runner BY <2>1 DEF DeleteRevisionStep
  <2>3. CASE q # r BY <1>1, <1>4, <2>1, <2>2, <2>3 DEF DeleteRevisionStep, Live
  <2>4. CASE q = r
    <3>1. Live(q) /\ router[q].active # 0 /\ runner[w].known >= router[q].desired
      BY <2>1, <2>4 DEF DeleteRevisionStep, RolloutActive
    <3>2. router[q].desired \in Nat /\ runner[w].known \in Nat /\ runner[w].known <= runner[w].gen
      BY RowsOf DEF RouterRow, RunnerTypes, RunnerRow, Following
    <3>3. router[q].desired <= runner[w].gen BY <1>2, <3>1, <3>2
    <3>4. FollowedBy(w, q) BY <1>1, <2>2, <3>1, <3>3 DEF Rollout
    <3>5. Pins(ActiveSnap(q), v) BY <1>1, <2>2, <3>4 DEF FollowedBy, Pins
    <3>6. router[q].active \in DOMAIN revisions[q] BY <3>1 DEF Numbering
    <3>7. ActiveSnap(q)' = ActiveSnap(q) BY <2>1, <2>2, <2>4, <3>6 DEF DeleteRevisionStep, ActiveSnap
    <3>. QED BY <2>2, <3>1, <3>5, <3>7
  <2>. QED BY <2>3, <2>4
<1>9. CASE \E r \in Routers : RedesireStep(r)
  <2>1. PICK r \in Routers : RedesireStep(r) BY <1>9
  <2>. QED BY <1>1, <1>4, <2>1 DEF RedesireStep, Kept, Live
<1>10. CASE VersionStep BY <1>1, <1>4, <1>10 DEF VersionStep, Live
<1>11. CASE \E x \in Runners : RunnerStep(x)
  <2>1. PICK x \in Runners : RunnerStep(x) BY <1>11
  <2>2. UNCHANGED <<router, revisions, boundTo>> /\ Live(q) BY <1>1, <2>1 DEF RunnerStep, Live
  <2>3. CASE runner'[w].routes = runner[w].routes /\ runner'[w].gen = runner[w].gen BY <1>4, <2>2, <2>3
  <2>4. CASE runner'[w].routes[q] = Projected(q)
    <3>1. router[q].active # 0 /\ runner'[w].routes[q] = [snap |-> ActiveSnap(q), eps |-> BoundTo(q)]
      BY <1>1, <2>4 DEF Projected
    <3>2. Pins(ActiveSnap(q), v) BY <1>1, <3>1 DEF Pins
    <3>3. ActiveSnap(q)' = ActiveSnap(q) BY <2>2 DEF ActiveSnap
    <3>. QED BY <2>2, <3>1, <3>2, <3>3
  <2>. QED BY <2>1, <2>3, <2>4 DEF RunnerStep
<1>12. CASE EndpointStep BY <1>1, <1>4, <1>12 DEF EndpointStep, Live
<1>. QED BY <1>5, <1>6, <1>7, <1>8, <1>9, <1>10, <1>11, <1>12 DEF Step

-----------------------------------------------------------------------------
LEMMA InitialTables ==
    ASSUME RCInit
    PROVE  RouterInv
<1>1. /\ \A r \in Routers : revisions[r] = <<>> /\ DOMAIN revisions[r] = {}
      /\ DOMAIN revisions = Routers
  BY DEF RCInit
<1>2. RevisionTypes BY <1>1 DEF RevisionTypes
<1>3. router \in [Routers -> RouterRow] /\ \A r \in Routers : router[r].state = "none" /\ router[r].active = 0
  <2>1. PICK d \in Snapshot : d = CHOOSE x \in Drafts : TRUE BY DraftsArePublishable
  <2>2. router = [r \in Routers |-> [state |-> "none", draft |-> d, savedAs |-> {},
                    active |-> 0, desired |-> 0, touched |-> FALSE, recentFrom |-> 1]]
    BY <2>1 DEF RCInit
  <2>. QED BY <2>1, <2>2 DEF RouterRow
<1>4. ControllerTypes
  <2>1. version \in [Versions -> {"none", "pending", "ready", "deleted"}] BY DEF RCInit
  <2>. QED BY <1>2, <1>3, <2>1 DEF RCInit, ControllerTypes
<1>5. RunnerTypes /\ Following /\ \A w \in Runners, r \in Routers : runner[w].routes[r] = None
  BY DEF RCInit, RunnerTypes, RunnerRow, Following
<1>6. Numbering
  <2>1. \A r \in Routers : applied[r] = None BY DEF RCInit
  <2>. QED BY <1>1, <1>3, <1>5, <2>1 DEF Numbering
<1>7. \A r \in Routers : ~Live(r) BY <1>3 DEF Live
<1>. QED BY <1>4, <1>5, <1>6, <1>7 DEF RouterInv, RoutedVersionsReady, RollbackKept, Rollout, Served

LEMMA RouterStep ==
    ASSUME RouterInv, [RCNext]_rcVars
    PROVE  RouterInv'
<1>1. Step /\ ControllerTypes' /\ RunnerTypes' BY Steps DEF RouterInv
<1>2. Numbering' /\ Following' BY <1>1, NumberingKept, FollowingKept DEF RouterInv
<1>3. RoutedVersionsReady' BY <1>1, RoutedKept DEF RouterInv
<1>4. RollbackKept' BY <1>1, RollbackStaysKept DEF RouterInv
<1>5. Rollout' BY <1>1, RolloutKept DEF RouterInv
<1>6. Served' BY <1>1, ServedKept DEF RouterInv
<1>. QED BY <1>1, <1>2, <1>3, <1>4, <1>5, <1>6 DEF RouterInv

\* The tables and the Runners keep the invariant, types included, from the first
\* Router on.
THEOREM RouterInvariant == RCSpec => []RouterInv
<1>1. RCInit => RouterInv BY InitialTables
<1>2. RouterInv /\ [RCNext]_rcVars => RouterInv' BY RouterStep
<1>. QED BY <1>1, <1>2, PTL DEF RCSpec

\* Every weighted target on an enabled Route of an active snapshot is a ready version of
\* a Guardrail that is not deleted.
THEOREM RoutedVersionsStayReady == RCSpec => []RoutedVersionsReady
<1>1. RouterInv => RoutedVersionsReady BY DEF RouterInv
<1>. QED BY <1>1, RouterInvariant, PTL

\* The revision that the active change can be reverted to without approval is kept, with
\* every version it sends traffic to.
THEOREM RollbackStaysPossible == RCSpec => []RollbackKept
<1>1. RouterInv => RollbackKept BY DEF RouterInv
<1>. QED BY <1>1, RouterInvariant, PTL

\* Every Runner serves the active snapshot of a Router whose rollout is reported active,
\* with the current bindings and at most some Endpoints that were deleted since, unless
\* a weighted target on a disabled Route is missing.
THEOREM RolloutStateIsTruthful == RCSpec => []RolloutIsTruthful
<1>1. RouterInv => RolloutIsTruthful
  <2>1. SUFFICES ASSUME RouterInv, NEW r \in Routers, Live(r), RolloutActive(r), NEW w \in Runners
                 PROVE  \/ FollowedBy(w, r)
                        \/ runner[w].routes[r] = None /\ \E v \in Versions : ActiveSnap(r)[v] = "off"
    BY DEF RolloutIsTruthful
  <2>2. /\ router[r].active # 0 /\ router[r].desired \in Nat
        /\ runner[w].known >= router[r].desired /\ runner[w].known <= runner[w].gen
        /\ runner[w].known \in Nat /\ runner[w].gen \in Nat
    BY <2>1, RowsOf DEF RouterInv, RolloutActive, Following, RunnerTypes, RunnerRow, RouterRow
  <2>3. router[r].desired <= runner[w].gen BY <2>2
  <2>. QED BY <2>1, <2>2, <2>3 DEF RouterInv, Rollout
<1>. QED BY <1>1, RouterInvariant, PTL

\* No version is deleted while an online Runner serves it through a Router that exists.
THEOREM DeletionWaitsForRunners == RCSpec => ServedVersionsKept
<1>1. ASSUME RouterInv, [RCNext]_rcVars, NEW v \in Versions, Deleted(v),
             NEW w \in Runners, NEW r \in Routers, Live(r), runner[w].fresh, Serves(w, r, v)
      PROVE  FALSE
  <2>1. Step BY <1>1, Steps DEF RouterInv
  <2>2. DeleteVersion(v)
    <3>1. Exists(v) /\ ~Exists(v)' BY <1>1 DEF Deleted, Exists
    <3>. QED BY <2>1, <3>1, ExistsAfter
  <2>3. runner[w].routes[r] # None /\ Pins(runner[w].routes[r].snap, v) BY <1>1 DEF Serves, Pins
  <2>4. ~(router[r].active # 0 /\ Pins(ActiveSnap(r), v)) BY <1>1, <2>2, DeletedIsUnreferenced
  <2>5. PICK n \in Retirements(r, v) : runner[w].gen < revisions[r][n].gen
    BY <1>1, <2>3, <2>4 DEF RouterInv, Served, RetiredAfter
  <2>6. runner[w].known >= revisions[r][n].gen BY <1>1, <2>2 DEF DeleteVersion, NoLongerServed
  <2>7. n \in DOMAIN revisions[r] BY DEF Retirements
  <2>8. revisions[r][n].gen \in Nat BY <1>1, <2>7, RowsOf DEF RouterInv, Revision
  <2>9. runner[w].known \in Nat /\ runner[w].gen \in Nat /\ runner[w].known <= runner[w].gen
    BY <1>1 DEF RouterInv, RunnerTypes, RunnerRow, Following
  <2>. QED BY <2>5, <2>6, <2>8, <2>9
<1>2. RouterInv /\ [RCNext]_rcVars =>
        [\A v \in Versions : Deleted(v) =>
            ~\E w \in Runners, r \in Routers : Live(r) /\ runner[w].fresh /\ Serves(w, r, v)]_rcVars
  BY <1>1
<1>. QED BY <1>2, RouterInvariant, PTL DEF RCSpec, ServedVersionsKept
=============================================================================
