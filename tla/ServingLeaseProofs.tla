------------------------- MODULE ServingLeaseProofs -------------------------
(***************************************************************************)
(* Theorems about the serving lease, for every lease duration, every       *)
(* uncertainty of the clocks and every number of streams, snapshots and    *)
(* challenges.                                                             *)
(***************************************************************************)
EXTENDS ServingLease, QueueLemmas

-----------------------------------------------------------------------------
(***************************************************************************)
(* The inductive invariant has four parts on top of the types:             *)
(*   Ledger       when the grants of a generation run out at the latest;   *)
(*   Answers      what the ledger holds for a nonce is what the challenge  *)
(*                with that nonce asked for, wherever request and answer   *)
(*                are on their way;                                        *)
(*   Allocation   the generation of the lease is the published one;        *)
(*   Order        snapshots reach the Runner in the order of their nonces, *)
(*                and none of them twice.                                  *)
(***************************************************************************)
UpMessage ==
    [type : {"ack"}, snapshot : Nat, generation : Nat, accepted : BOOLEAN]
    \cup [type : {"lease"}, nonce : Nat, snapshot : Nat, generation : Nat]

Desired == [type : {"desired"}, snapshot : Nat, generation : Nat]

DownMessage == Desired \cup [type : {"lease"}, nonce : Nat, snapshot : Nat, granted : BOOLEAN]

Handler ==
    [session : Nat, nonce : Nat, snapshot : Nat, generation : Nat,
     stage : {"accepted", "rejected", "issue", "check", "send"}]

LeaseTypes ==
    /\ now \in Nat /\ desired \in Nat \ {0} /\ desired \in {1} \cup 1 .. MaxGeneration /\ leftAt \in [1 .. MaxGeneration -> Nat]
    /\ row \in [nonce : Nat, generation : Nat, acknowledged : {"no", "accepted", "rejected"}]
    /\ grants \subseteq [nonce : Nat, generation : Nat, expires : Nat]
    /\ session \in Nat /\ conn \in Nat /\ stream \in Nat
    /\ sessions \in Nat /\ snapshots \in Nat /\ nonces \in Nat
    /\ dispatching \in Nat
    /\ handling \subseteq Handler
    /\ up \in Seq(UpMessage) /\ down \in Seq(DownMessage) /\ inbox \in Seq(Desired)
    /\ applying \in [snapshot : Nat, generation : Nat, stale : BOOLEAN]
    /\ store \in Nat /\ snapshotNonce \in Nat /\ served \in Nat
    /\ lease \in [synchronized : BOOLEAN, expired : BOOLEAN, deadline : Nat, generation : Nat]
    /\ pending \in [nonce : Nat, generation : Nat, started : Nat, snapshot : Nat, valid : BOOLEAN]

Ledger ==
    \A g \in grants :
       /\ g.generation \in 1 .. desired
       /\ g.expires <= now + Duration + Uncertainty
       /\ g.generation < desired => g.expires <= leftAt[g.generation] + Duration + Uncertainty

InLedger(n) == \E g \in grants : g.nonce = n

(* A request on its way, in the hands of its handler, granted, answered. *)
Asked(m) ==
    m.type = "lease" => /\ m.nonce \in 1 .. nonces
                        /\ m.nonce = pending.nonce => m.generation = pending.generation

Handled(h) ==
    /\ h.nonce <= nonces
    /\ h.stage \in {"issue", "check", "send"} => h.nonce # None
    /\ h.nonce # None /\ h.nonce = pending.nonce => h.generation = pending.generation
    /\ h.stage \in {"check", "send"} => InLedger(h.nonce)

Granted(g) ==
    /\ g.nonce \in 1 .. nonces
    /\ g.nonce = pending.nonce =>
          /\ g.generation = pending.generation
          /\ pending.started + Duration + Uncertainty <= g.expires

Answered(m) ==
    m.type = "lease" => m.nonce \in 1 .. nonces /\ (m.granted => InLedger(m.nonce))

Challenged == pending.nonce <= nonces /\ pending.started <= now

Answers ==
    /\ Challenged
    /\ \A m \in Range(up) : Asked(m)
    /\ \A h \in handling : Handled(h)
    /\ \A g \in grants : Granted(g)
    /\ \A m \in Range(down) : Answered(m)

Allocation ==
    /\ lease.generation # None => lease.synchronized /\ store = lease.generation /\ applying = NoApply
    /\ pending.nonce # None => pending.generation # None
    /\ ~lease.expired =>
          /\ lease.generation # None /\ lease.deadline # 0
          /\ \E g \in grants : g.generation = lease.generation /\ lease.deadline <= g.expires - Uncertainty

(* s is a nonce of a snapshot that was sent. *)
Sent(s) == s <= snapshots /\ (dispatching # None => s < dispatching)

(* The Runner still has to apply a snapshot with the nonce s. *)
Ahead(s) ==
    /\ Sent(s) /\ served < s /\ snapshotNonce < s
    /\ applying # NoApply => applying.snapshot < s

InOrder(q) ==
    \A i, j \in DOMAIN q :
       i < j /\ q[i].type = "desired" /\ q[j].type = "desired" => q[i].snapshot < q[j].snapshot

Order ==
    /\ dispatching # None => dispatching = snapshots
    /\ Sent(served) /\ Sent(snapshotNonce) /\ Sent(applying.snapshot)
    /\ \A m \in Range(inbox) : Ahead(m.snapshot)
    /\ \A m \in Range(down) : m.type = "desired" => Ahead(m.snapshot)
    /\ \A m \in Range(inbox), d \in Range(down) : d.type = "desired" => m.snapshot < d.snapshot
    /\ InOrder(inbox)
    /\ InOrder(down)
    /\ applying # NoApply => served < applying.snapshot
    /\ lease.generation # None /\ lease.expired => served < snapshotNonce

LeaseInv == LeaseTypes /\ Ledger /\ Answers /\ Allocation /\ Order

LEMMA LeaseInit == Init => LeaseInv
<1> SUFFICES ASSUME Init PROVE LeaseInv OBVIOUS
<1> USE DEF None, NoRow, NoApply, NoChallenge, NoLease
<1>1. LeaseTypes BY LeaseAssumption DEF Init, LeaseTypes
<1>2. Ledger BY DEF Init, Ledger
<1>3. Answers BY DEF Init, Answers, Range, Challenged, Asked, Handled, Granted, Answered
<1>4. Allocation BY DEF Init, Allocation
<1>5. Order BY DEF Init, Order, Sent, InOrder, Range
<1> QED BY <1>1, <1>2, <1>3, <1>4, <1>5 DEF LeaseInv

-----------------------------------------------------------------------------
(* Types. *)

LEMMA AllocationTypes ==
    /\ NoRow \in [nonce : Nat, generation : Nat, acknowledged : {"no", "accepted", "rejected"}]
    /\ NoApply \in [snapshot : Nat, generation : Nat, stale : BOOLEAN]
    /\ NoChallenge \in [nonce : Nat, generation : Nat, started : Nat, snapshot : Nat, valid : BOOLEAN]
    /\ NoLease \in [synchronized : BOOLEAN, expired : BOOLEAN, deadline : Nat, generation : Nat]
BY DEF NoRow, NoApply, NoChallenge, NoLease, None

(* What a reader of either stream may rely on. *)
LEMMA MessageFields ==
    /\ \A m \in UpMessage :
          /\ m.type = "ack" => m.snapshot \in Nat /\ m.generation \in Nat /\ m.accepted \in BOOLEAN
          /\ m.type = "lease" => m.nonce \in Nat /\ m.snapshot \in Nat /\ m.generation \in Nat
    /\ \A m \in DownMessage :
          /\ m.type = "desired" => m \in Desired
          /\ m.type = "lease" => m.nonce \in Nat /\ m.snapshot \in Nat /\ m.granted \in BOOLEAN
    /\ \A m \in Desired : m.snapshot \in Nat /\ m.generation \in Nat
BY DEF UpMessage, DownMessage, Desired

(* A message that is sent is one of the messages of its stream. *)
LEMMA MessagesSent ==
    ASSUME NEW n \in Nat, NEW s \in Nat, NEW g \in Nat, NEW b \in BOOLEAN
    PROVE  /\ [type |-> "ack", snapshot |-> s, generation |-> g, accepted |-> b] \in UpMessage
           /\ [type |-> "lease", nonce |-> n, snapshot |-> s, generation |-> g] \in UpMessage
           /\ [type |-> "desired", snapshot |-> s, generation |-> g] \in DownMessage
           /\ [type |-> "lease", nonce |-> n, snapshot |-> s, granted |-> b] \in DownMessage
BY DEF UpMessage, DownMessage, Desired

(* A write to a stream, and a read from it. *)
LEMMA SendAndReceive ==
    ASSUME NEW S, NEW s \in Seq(S)
    PROVE  /\ \A m \in S : Append(s, m) \in Seq(S)
           /\ s # <<>> => Head(s) \in S /\ Tail(s) \in Seq(S)
OBVIOUS

(* What is written to the Runner is on its stream, or lost. *)
LEMMA WriteTypes ==
    ASSUME NEW m \in DownMessage, NEW s, down \in Seq(DownMessage), Write(s, m) \/ UNCHANGED down
    PROVE  down' \in Seq(DownMessage)
BY SendAndReceive DEF Write

LEMMA TypesStep == ASSUME LeaseTypes, [Next]_vars PROVE LeaseTypes'
<1> USE DEF database, connection, counters, runner
<1>u. CASE UNCHANGED vars BY <1>u DEF vars, LeaseTypes
<1>t. CASE Tick BY <1>t DEF Tick, LeaseTypes
<1>e. CASE Expire
  <2>1. lease' \in [synchronized : BOOLEAN, expired : BOOLEAN, deadline : Nat, generation : Nat]
    BY <1>e DEF Expire, ExpiredLease, NoLease, None, LeaseTypes
  <2>2. pending' \in [nonce : Nat, generation : Nat, started : Nat, snapshot : Nat, valid : BOOLEAN]
    BY <1>e DEF Expire, LeaseTypes
  <2> QED BY <1>e, <2>1, <2>2 DEF Expire, LeaseTypes
<1>s. ASSUME EndStream, UNCHANGED <<database, connection, counters, store, period, served>> PROVE LeaseTypes'
  <2>1. applying' \in [snapshot : Nat, generation : Nat, stale : BOOLEAN]
    BY <1>s DEF EndStream, NoApply, None, LeaseTypes
  <2>2. up' \in Seq(UpMessage) /\ down' \in Seq(DownMessage) /\ inbox' \in Seq(Desired)
    BY <1>s DEF EndStream
  <2> QED BY <1>s, <2>1, <2>2, AllocationTypes DEF EndStream, Revoke, None, LeaseTypes
<1>c. CASE Connect
  <2>1. sessions + 1 \in Nat /\ None \in Nat BY DEF LeaseTypes, None
  <2>2. /\ lease' = NoLease /\ snapshotNonce' = None /\ pending' = NoChallenge /\ row' = NoRow
        /\ sessions' = sessions + 1 /\ stream' = sessions + 1 /\ session' = sessions + 1
        /\ conn' = sessions + 1 /\ dispatching' = None
        /\ UNCHANGED <<now, desired, leftAt, grants, handling, up, down, snapshots, nonces,
                       inbox, applying, store, period, served>>
    BY <1>c, Zenon DEF Connect, Revoke
  <2> QED BY <2>1, <2>2, AllocationTypes DEF LeaseTypes
<1>b. CASE Break \/ ChallengeFails \/ Reconnect \/ GiveUp
  BY <1>s, <1>b, Zenon DEF Break, ChallengeFails, Reconnect, GiveUp
<1>d. CASE Disconnected BY <1>d DEF Disconnected, None, LeaseTypes
<1>o. CASE Offline BY <1>o DEF Offline, None, LeaseTypes
<1>ms. CASE MarkStale BY <1>ms DEF MarkStale, None, LeaseTypes
<1>re. CASE ReconcileAgain BY <1>re DEF ReconcileAgain, LeaseTypes
<1>a. CASE Advance
  <2>1. leftAt' \in [1 .. MaxGeneration -> Nat] BY <1>a DEF Advance, LeaseTypes
  <2>2. desired' \in Nat \ {0} /\ desired' \in 1 .. MaxGeneration
    <3>1. desired \in Nat \ {0} /\ desired < MaxGeneration /\ desired' = desired + 1 BY <1>a DEF Advance, LeaseTypes
    <3> QED BY <3>1, LeaseAssumption
  <2> QED BY <1>a, <2>1, <2>2 DEF Advance, LeaseTypes
<1>di. CASE Dispatch BY <1>di DEF Dispatch, LeaseTypes
<1>ss. CASE SendSnapshot
  <2>1. down' \in Seq(DownMessage)
    BY <1>ss, MessagesSent, SendAndReceive DEF SendSnapshot, Write, LeaseTypes
  <2> QED BY <1>ss, <2>1 DEF SendSnapshot, None, LeaseTypes
<1>rs. CASE ReceiveSnapshot
  <2>0. Head(down) \in DownMessage /\ Head(down).type = "desired" /\ down' \in Seq(DownMessage)
    BY <1>rs, SendAndReceive DEF ReceiveSnapshot, LeaseTypes
  <2>1. Head(down) \in Desired /\ down' \in Seq(DownMessage)
    BY <2>0, MessageFields, Zenon
  <2>2. inbox' \in Seq(Desired)
    BY <1>rs, <2>1, SendAndReceive DEF ReceiveSnapshot, LeaseTypes
  <2> QED BY <1>rs, <2>1, <2>2 DEF ReceiveSnapshot, LeaseTypes
<1>sa. CASE StartApply
  <2>1. Head(inbox) \in Desired /\ inbox' \in Seq(Desired)
    BY <1>sa, SendAndReceive DEF StartApply, LeaseTypes
  <2>2. applying' \in [snapshot : Nat, generation : Nat, stale : BOOLEAN]
    BY <1>sa, <2>1, MessageFields DEF StartApply
  <2> QED BY <1>sa, <2>1, <2>2, AllocationTypes DEF StartApply, Revoke, None, LeaseTypes
<1>aa. CASE AbandonApply BY <1>aa, AllocationTypes DEF AbandonApply, LeaseTypes
<1>fa. CASE FinishApply
  <2>1. up' \in Seq(UpMessage) BY <1>fa, MessagesSent, SendAndReceive DEF FinishApply, LeaseTypes
  <2>2. lease' \in [synchronized : BOOLEAN, expired : BOOLEAN, deadline : Nat, generation : Nat]
    BY <1>fa DEF FinishApply, NoLease, None, LeaseTypes
  <2> QED BY <1>fa, <2>1, <2>2, AllocationTypes DEF FinishApply, LeaseTypes
<1>ra. CASE RejectApply
  <2>1. up' \in Seq(UpMessage) BY <1>ra, MessagesSent, SendAndReceive DEF RejectApply, LeaseTypes
  <2> QED BY <1>ra, <2>1, AllocationTypes DEF RejectApply, Revoke, None, LeaseTypes
<1>ac. CASE Acknowledge
  <2>1. up' \in Seq(UpMessage) /\ Head(up) \in UpMessage /\ Head(up).type = "ack"
    BY <1>ac, SendAndReceive DEF Acknowledge, Idle, LeaseTypes
  <2>2. handling' \subseteq Handler
    <3>1. Head(up).snapshot \in Nat /\ Head(up).generation \in Nat BY <2>1, MessageFields, Zenon
    <3>2. \A v \in {"accepted", "rejected"} :
             [session |-> conn, nonce |-> None, snapshot |-> Head(up).snapshot,
              generation |-> Head(up).generation, stage |-> v] \in Handler
      BY <3>1 DEF Handler, None, LeaseTypes
    <3> QED BY <1>ac, <3>2 DEF Acknowledge, LeaseTypes
  <2>3. row' \in [nonce : Nat, generation : Nat, acknowledged : {"no", "accepted", "rejected"}]
    BY <1>ac DEF Acknowledge, LeaseTypes
  <2> QED BY <1>ac, <2>1, <2>2, <2>3 DEF Acknowledge, LeaseTypes
<1>ch. CASE Challenge
  <2>0. [type |-> "lease", nonce |-> nonces + 1, snapshot |-> snapshotNonce,
         generation |-> lease.generation] \in UpMessage
    BY DEF UpMessage, LeaseTypes
  <2>1. up' \in Seq(UpMessage) BY <1>ch, <2>0, SendAndReceive DEF Challenge, LeaseTypes
  <2>2. nonces' \in Nat BY <1>ch DEF Challenge, LeaseTypes
  <2>3. pending' \in [nonce : Nat, generation : Nat, started : Nat, snapshot : Nat, valid : BOOLEAN]
    BY <1>ch DEF Challenge, LeaseTypes
  <2> QED BY <1>ch, <2>1, <2>2, <2>3 DEF Challenge, LeaseTypes
<1>rr. CASE ReceiveRequest
  <2>1. up' \in Seq(UpMessage) /\ Head(up) \in UpMessage /\ Head(up).type = "lease"
    BY <1>rr, SendAndReceive DEF ReceiveRequest, Idle, LeaseTypes
  <2>2. Head(up).nonce \in Nat /\ Head(up).snapshot \in Nat /\ Head(up).generation \in Nat
    BY <2>1, MessageFields
  <2>3. handling' \subseteq Handler
    <3>1. [session |-> conn, nonce |-> Head(up).nonce, snapshot |-> Head(up).snapshot,
           generation |-> Head(up).generation, stage |-> "issue"] \in Handler
      BY <2>2 DEF Handler, LeaseTypes
    <3> QED BY <1>rr, <3>1 DEF ReceiveRequest, LeaseTypes
  <2>4. down' \in Seq(DownMessage)
    <3>1. [type |-> "lease", nonce |-> Head(up).nonce, snapshot |-> Head(up).snapshot,
           granted |-> FALSE] \in DownMessage
      BY <2>2 DEF DownMessage
    <3>2. down \in Seq(DownMessage) BY DEF LeaseTypes
    <3> QED BY <1>rr, <3>1, <3>2, WriteTypes, Zenon DEF ReceiveRequest
  <2> QED BY <1>rr, <2>1, <2>3, <2>4 DEF ReceiveRequest, LeaseTypes
<1>h. ASSUME NEW h \in handling, Acknowledged(h) \/ Issue(h) \/ Check(h) \/ Reply(h) PROVE LeaseTypes'
  <2>1. h \in Handler BY DEF LeaseTypes
  <2>r. ASSUME NEW b \in BOOLEAN
        PROVE  [type |-> "lease", nonce |-> h.nonce, snapshot |-> h.snapshot, granted |-> b] \in DownMessage
    BY <2>1 DEF DownMessage, Handler
  <2>2. CASE Acknowledged(h) BY <2>2 DEF Acknowledged, LeaseTypes
  <2>3. CASE Issue(h)
    <3>1. [h EXCEPT !.stage = "check"] \in Handler BY <2>1 DEF Handler
    <3>2. handling' \subseteq Handler BY <2>3, <3>1 DEF Issue, LeaseTypes
    <3>3. down' \in Seq(DownMessage)
      <4>1. down \in Seq(DownMessage) BY DEF LeaseTypes
      <4> QED BY <2>3, <2>r, <4>1, WriteTypes, Zenon DEF Issue
    <3>4. grants' \subseteq [nonce : Nat, generation : Nat, expires : Nat]
      <4>1. [nonce |-> h.nonce, generation |-> h.generation, expires |-> ConservativeExpiry]
               \in [nonce : Nat, generation : Nat, expires : Nat]
        BY <2>1, LeaseAssumption DEF ConservativeExpiry, Handler, LeaseTypes
      <4> QED BY <2>3, <4>1 DEF Issue, LeaseTypes
    <3> QED BY <2>3, <3>2, <3>3, <3>4 DEF Issue, LeaseTypes
  <2>4. CASE Check(h)
    <3>1. [h EXCEPT !.stage = "send"] \in Handler BY <2>1 DEF Handler
    <3> QED BY <2>4, <3>1 DEF Check, LeaseTypes
  <2>5. CASE Reply(h)
    <3>1. down' \in Seq(DownMessage)
      <4>1. down \in Seq(DownMessage) BY DEF LeaseTypes
      <4> QED BY <2>5, <2>r, <4>1, WriteTypes, Zenon DEF Reply
    <3> QED BY <2>5, <3>1 DEF Reply, LeaseTypes
  <2> QED BY <1>h, <2>2, <2>3, <2>4, <2>5
<1>ig. CASE IgnoreResponse BY <1>ig, SendAndReceive DEF IgnoreResponse, LeaseTypes
<1>ar. CASE AcceptResponse
  <2>1. down' \in Seq(DownMessage) BY <1>ar, SendAndReceive DEF AcceptResponse, LeaseTypes
  <2>2. lease' \in [synchronized : BOOLEAN, expired : BOOLEAN, deadline : Nat, generation : Nat]
    <3>1. Deadline \in Nat BY LeaseAssumption DEF Deadline, LeaseTypes
    <3> QED BY <1>ar, <3>1 DEF AcceptResponse, LeaseTypes
  <2> QED BY <1>ar, <2>1, <2>2, AllocationTypes DEF AcceptResponse, LeaseTypes
<1>fr. CASE FailResponse
  <2>1. down' \in Seq(DownMessage) BY <1>fr, SendAndReceive DEF FailResponse, LeaseTypes
  <2> QED BY <1>fr, <2>1, AllocationTypes DEF FailResponse, Revoke, None, LeaseTypes
<1>rn. CASE Renewed BY <1>rn DEF Renewed, LeaseTypes
<1>w. CASE Wake BY <1>w DEF Wake, LeaseTypes
<1> QED
  BY <1>u, <1>t, <1>e, <1>c, <1>b, <1>d, <1>o, <1>ms, <1>re, <1>a, <1>di, <1>ss, <1>rs, <1>sa, <1>aa, <1>fa, <1>ra,
     <1>ac, <1>ch, <1>rr, <1>h, <1>ig, <1>ar, <1>fr, <1>rn, <1>w, Zenon DEF Next

-----------------------------------------------------------------------------
(* Which steps touch what. *)

LEMMA LeaseSteps ==
    ASSUME [Next]_vars
    PROVE  /\ UNCHANGED <<now, desired, leftAt>> \/ Tick \/ Advance
           /\ UNCHANGED grants \/ \E h \in handling : Issue(h)
           /\ UNCHANGED up \/ up' = <<>> \/ (up # <<>> /\ up' = Tail(up)) \/ FinishApply \/ RejectApply
              \/ Challenge
           /\ UNCHANGED handling \/ Acknowledge \/ ReceiveRequest
              \/ \E h \in handling : Acknowledged(h) \/ Issue(h) \/ Check(h) \/ Reply(h)
           /\ UNCHANGED down \/ down' = <<>> \/ (down # <<>> /\ down' = Tail(down)) \/ SendSnapshot
              \/ ReceiveRequest \/ \E h \in handling : Issue(h) \/ Reply(h)
           /\ UNCHANGED pending \/ pending' = NoChallenge \/ pending' = [pending EXCEPT !.valid = FALSE]
              \/ Challenge
           /\ UNCHANGED nonces \/ Challenge
<1> USE DEF database, connection, counters, runner, Revoke, EndStream
<1>1. CASE UNCHANGED vars BY <1>1 DEF vars
<1>2. CASE Tick \/ Expire \/ Connect \/ Break \/ Disconnected \/ Offline \/ MarkStale \/ ReconcileAgain
           \/ Advance \/ Dispatch \/ SendSnapshot
  BY <1>2 DEF Tick, Expire, Connect, Break, Disconnected, Offline, MarkStale, ReconcileAgain,
                Advance, Dispatch, SendSnapshot
<1>3. CASE ReceiveSnapshot \/ StartApply \/ AbandonApply \/ FinishApply \/ RejectApply
  BY <1>3 DEF ReceiveSnapshot, StartApply, AbandonApply, FinishApply, RejectApply
<1>4. CASE Acknowledge \/ ReceiveRequest BY <1>4 DEF Acknowledge, ReceiveRequest, Idle
<1>5. CASE Challenge \/ ChallengeFails \/ Reconnect \/ Renewed \/ GiveUp \/ Wake
  BY <1>5 DEF Challenge, ChallengeFails, Reconnect, Renewed, GiveUp, Wake
<1>6. CASE IgnoreResponse \/ AcceptResponse \/ FailResponse
  BY <1>6 DEF IgnoreResponse, AcceptResponse, FailResponse
<1>7. CASE \E h \in handling : Acknowledged(h) \/ Issue(h) \/ Check(h) \/ Reply(h)
  BY <1>7 DEF Acknowledged, Issue, Check, Reply
<1> QED BY <1>1, <1>2, <1>3, <1>4, <1>5, <1>6, <1>7, Zenon DEF Next

-----------------------------------------------------------------------------
(* The ledger: a grant is issued for the desired generation only, and the   *)
(* clock of a generation that was left stands still in leftAt.              *)
LEMMA LedgerStep == ASSUME LeaseTypes, Ledger, [Next]_vars PROVE Ledger'
<1> USE LeaseAssumption
<1>1. CASE Tick
  <2>1. UNCHANGED <<desired, leftAt, grants>> /\ now' = now + 1 BY <1>1 DEF Tick
  <2>2. \A g \in grants : g.expires \in Nat BY DEF LeaseTypes
  <2>3. now \in Nat BY DEF LeaseTypes
  <2> QED BY <2>1, <2>2, <2>3 DEF Ledger
<1>2. CASE Advance
  <2>1. /\ desired' = desired + 1 /\ desired < MaxGeneration /\ leftAt' = [leftAt EXCEPT ![desired] = now]
        /\ UNCHANGED <<now, grants>>
    BY <1>2 DEF Advance
  <2>2. leftAt \in [1 .. MaxGeneration -> Nat] /\ desired \in Nat \ {0} /\ now \in Nat BY DEF LeaseTypes
  <2>3. ASSUME NEW g \in grants, g.generation < desired + 1
        PROVE  g.expires <= leftAt'[g.generation] + Duration + Uncertainty
    <3>1. g.generation \in 1 .. desired /\ g.expires <= now + Duration + Uncertainty BY DEF Ledger
    <3>2. CASE g.generation = desired BY <3>1, <3>2, <2>1, <2>2
    <3>3. CASE g.generation # desired
      <4>1. g.generation < desired BY <3>1, <3>3, <2>2
      <4>2. leftAt'[g.generation] = leftAt[g.generation] BY <4>1, <3>1, <2>1, <2>2
      <4> QED BY <4>1, <4>2 DEF Ledger
    <3> QED BY <3>2, <3>3
  <2>4. \A g \in grants : g.generation \in 1 .. desired + 1 BY <2>2 DEF Ledger
  <2> QED BY <2>1, <2>3, <2>4 DEF Ledger
<1>3. ASSUME NEW h \in handling, Issue(h) PROVE Ledger'
  <2>1. UNCHANGED <<now, desired, leftAt>> BY <1>3 DEF Issue
  <2>2. CASE UNCHANGED grants BY <2>1, <2>2 DEF Ledger
  <2>3. CASE /\ desired = h.generation
             /\ grants' = grants \cup {[nonce |-> h.nonce, generation |-> h.generation,
                                        expires |-> ConservativeExpiry]}
    <3>1. desired \in 1 .. desired /\ ~(desired < desired) BY DEF LeaseTypes
    <3>2. ConservativeExpiry <= now + Duration + Uncertainty BY DEF ConservativeExpiry, LeaseTypes
    <3> QED BY <2>1, <2>3, <3>1, <3>2 DEF Ledger
  <2> QED BY <1>3, <2>2, <2>3, Zenon DEF Issue, Grantable
<1>4. CASE UNCHANGED <<now, desired, leftAt, grants>> BY <1>4 DEF Ledger
<1> QED BY <1>1, <1>2, <1>3, <1>4, LeaseSteps, Zenon

-----------------------------------------------------------------------------
(* Requests and answers.  Nothing that happens makes a request, a grant or  *)
(* an answer on its way wrong: a new challenge has a new nonce.             *)
LEMMA AnswersPersist ==
    ASSUME LeaseTypes, Challenged, [Next]_vars
    PROVE  /\ Challenged'
           /\ \A m \in UpMessage : Asked(m) => Asked(m)'
           /\ \A h \in Handler : Handled(h) => Handled(h)'
           /\ \A g \in grants : Granted(g) => Granted(g)'
           /\ \A m \in DownMessage : Answered(m) => Answered(m)'
<1>1. grants \subseteq grants'
  BY LeaseSteps DEF Issue
<1>2. now \in Nat /\ now' \in Nat /\ now <= now'
  <2>1. now \in Nat BY DEF LeaseTypes
  <2>2. now' = now \/ now' = now + 1 BY LeaseSteps DEF Tick, Advance
  <2> QED BY <2>1, <2>2
<1>3. pending \in [nonce : Nat, generation : Nat, started : Nat, snapshot : Nat, valid : BOOLEAN]
  BY DEF LeaseTypes
<1>4. nonces \in Nat /\ pending.nonce <= nonces /\ pending.started <= now
  BY DEF LeaseTypes, Challenged
<1>5. \/ /\ nonces' = nonces
         /\ pending'.nonce = pending.nonce /\ pending'.generation = pending.generation
         /\ pending'.started = pending.started
      \/ nonces' = nonces /\ pending'.nonce = 0 /\ pending'.started = 0
      \/ nonces' = nonces + 1 /\ pending'.nonce = nonces + 1 /\ pending'.started = now /\ now' = now
  <2>1. CASE Challenge BY <2>1 DEF Challenge, database
  <2>2. CASE nonces' = nonces
    <3>1. CASE UNCHANGED pending BY <2>2, <3>1
    <3>2. CASE pending' = NoChallenge BY <2>2, <3>2 DEF NoChallenge, None
    <3>3. CASE pending' = [pending EXCEPT !.valid = FALSE] BY <2>2, <3>3, <1>3
    <3> QED BY <2>1, <3>1, <3>2, <3>3, LeaseSteps, Zenon
  <2> QED BY <2>1, <2>2, LeaseSteps, Zenon
<1>6. Challenged' BY <1>2, <1>3, <1>4, <1>5 DEF Challenged
<1>7. \A n : InLedger(n) => InLedger(n)' BY <1>1 DEF InLedger
<1>8. ASSUME NEW m \in UpMessage, Asked(m) PROVE Asked(m)'
  <2>1. CASE m.type # "lease" BY <2>1 DEF Asked
  <2>2. CASE m.type = "lease"
    <3>1. m.nonce \in 1 .. nonces /\ (m.nonce = pending.nonce => m.generation = pending.generation)
      BY <1>8, <2>2 DEF Asked
    <3>2. m.nonce \in 1 .. nonces' /\ (m.nonce = pending'.nonce => m.generation = pending'.generation)
      BY <1>4, <1>5, <3>1
    <3> QED BY <3>2 DEF Asked
  <2> QED BY <2>1, <2>2
<1>9. ASSUME NEW h \in Handler, Handled(h) PROVE Handled(h)'
  <2>1. h.nonce \in Nat BY DEF Handler
  <2>2. /\ h.nonce <= nonces
        /\ h.nonce # 0 /\ h.nonce = pending.nonce => h.generation = pending.generation
    BY <1>9 DEF Handled, None
  <2>3. /\ h.nonce <= nonces'
        /\ h.nonce # 0 /\ h.nonce = pending'.nonce => h.generation = pending'.generation
    BY <1>4, <1>5, <2>1, <2>2
  <2> QED BY <1>7, <1>9, <2>3 DEF Handled, None
<1>10. ASSUME NEW g \in grants, Granted(g) PROVE Granted(g)'
  <2>1. g.nonce \in Nat /\ g.expires \in Nat BY DEF LeaseTypes
  <2>2. /\ g.nonce \in 1 .. nonces
        /\ g.nonce = pending.nonce => /\ g.generation = pending.generation
                                      /\ pending.started + Duration + Uncertainty <= g.expires
    BY <1>10 DEF Granted
  <2>3. /\ g.nonce \in 1 .. nonces'
        /\ g.nonce = pending'.nonce => /\ g.generation = pending'.generation
                                       /\ pending'.started + Duration + Uncertainty <= g.expires
    BY <1>4, <1>5, <2>1, <2>2
  <2> QED BY <2>3 DEF Granted
<1>11. ASSUME NEW m \in DownMessage, Answered(m) PROVE Answered(m)'
  <2>1. nonces' = nonces \/ nonces' = nonces + 1 BY <1>5
  <2>2. \A n : n \in 1 .. nonces => n \in 1 .. nonces' BY <2>1, <1>4
  <2> QED BY <1>7, <1>11, <2>2 DEF Answered
<1> QED BY <1>6, <1>8, <1>9, <1>10, <1>11

LEMMA AnswersStep == ASSUME LeaseTypes, LeaseTypes', Answers, [Next]_vars PROVE Answers'
<1> USE LeaseAssumption
<1>t. /\ up \in Seq(UpMessage) /\ down \in Seq(DownMessage) /\ handling \subseteq Handler
      /\ up' \in Seq(UpMessage) /\ down' \in Seq(DownMessage) /\ handling' \subseteq Handler
  BY DEF LeaseTypes
<1>c. /\ Challenged'
      /\ \A m \in UpMessage : Asked(m) => Asked(m)'
      /\ \A h \in Handler : Handled(h) => Handled(h)'
      /\ \A g \in grants : Granted(g) => Granted(g)'
      /\ \A m \in DownMessage : Answered(m) => Answered(m)'
  BY AnswersPersist DEF Answers
<1>a. /\ \A m \in Range(up) : Asked(m) /\ Asked(m)'
      /\ \A h \in handling : Handled(h) /\ Handled(h)'
      /\ \A g \in grants : Granted(g) /\ Granted(g)'
      /\ \A m \in Range(down) : Answered(m) /\ Answered(m)'
  <2>1. Range(up) \subseteq UpMessage /\ Range(down) \subseteq DownMessage
    BY <1>t, RangeOfQueue
  <2> QED BY <2>1, <1>t, <1>c DEF Answers
<1>up. ASSUME NEW m \in Range(up') PROVE Asked(m)'
  <2>1. CASE UNCHANGED up BY <2>1, <1>a, <1>up
  <2>2. CASE up' = <<>> BY <2>2, <1>t, <1>up, RangeOfQueue
  <2>3. CASE up # <<>> /\ up' = Tail(up) BY <2>3, <1>t, <1>a, <1>up, RangeOfQueue
  <2>4. ASSUME NEW e \in UpMessage, up' = Append(up, e), Asked(e)' PROVE Asked(m)'
    <3>1. m \in Range(up) \cup {e} BY <2>4, <1>t, <1>up, RangeOfQueue
    <3> QED BY <3>1, <2>4, <1>a
  <2>5. CASE FinishApply \/ RejectApply
    <3>1. PICK b \in BOOLEAN : up' = Append(up, [type |-> "ack", snapshot |-> applying.snapshot,
                                                 generation |-> applying.generation, accepted |-> b])
      BY <2>5 DEF FinishApply, RejectApply
    <3>2. PICK e : e = [type |-> "ack", snapshot |-> applying.snapshot,
                        generation |-> applying.generation, accepted |-> b]
      OBVIOUS
    <3>3. e \in UpMessage BY <3>2 DEF UpMessage, LeaseTypes
    <3>4. Asked(e)' BY <3>2 DEF Asked
    <3> QED BY <3>1, <3>2, <3>3, <3>4, <2>4
  <2>6. CASE Challenge
    <3>1. PICK e : e = [type |-> "lease", nonce |-> nonces + 1, snapshot |-> snapshotNonce,
                        generation |-> lease.generation]
      OBVIOUS
    <3>2. e \in UpMessage BY <3>1 DEF UpMessage, LeaseTypes
    <3>3. nonces' = nonces + 1 /\ nonces \in Nat /\ pending'.generation = lease.generation
      BY <2>6 DEF Challenge, LeaseTypes
    <3>4. Asked(e)' BY <3>1, <3>3 DEF Asked
    <3>5. up' = Append(up, e) BY <2>6, <3>1 DEF Challenge
    <3> QED BY <3>2, <3>4, <3>5, <2>4
  <2> QED BY <2>1, <2>2, <2>3, <2>5, <2>6, LeaseSteps, Zenon
<1>ha. ASSUME NEW x \in handling' PROVE Handled(x)'
  <2>1. CASE x \in handling BY <2>1, <1>a
  <2>2. CASE Acknowledge /\ x \notin handling
    <3>1. x.nonce = None /\ x.stage \in {"accepted", "rejected"} BY <2>2 DEF Acknowledge
    <3>2. nonces \in Nat BY DEF LeaseTypes
    <3>3. Handled(x) BY <3>1, <3>2 DEF Handled, None
    <3> QED BY <3>3, <1>t, <1>c
  <2>3. CASE ReceiveRequest /\ x \notin handling
    <3>1. /\ x.nonce = Head(up).nonce /\ x.generation = Head(up).generation /\ x.stage = "issue"
          /\ up # <<>> /\ Head(up).type = "lease"
      BY <2>3 DEF ReceiveRequest, Idle
    <3>2. Asked(Head(up)) BY <3>1, <1>t, <1>a, RangeOfQueue
    <3>3. /\ x.nonce \in 1 .. nonces /\ nonces \in Nat
          /\ x.nonce = pending.nonce => x.generation = pending.generation
      BY <3>1, <3>2 DEF Asked, LeaseTypes
    <3>4. Handled(x) BY <3>1, <3>3 DEF Handled, None
    <3> QED BY <3>4, <1>t, <1>c
  <2>4. ASSUME NEW h \in handling, Acknowledged(h) \/ Issue(h) \/ Check(h) \/ Reply(h), x \notin handling
        PROVE  Handled(x)'
    <3>1. h \in Handler /\ Handled(h)' BY <1>t, <1>a
    <3>2. CASE Issue(h)
      <4>1. x = [h EXCEPT !.stage = "check"] /\ InLedger(h.nonce)' /\ h.stage = "issue"
        <5>1. h.stage = "issue" /\ x = [h EXCEPT !.stage = "check"] BY <3>2, <2>4 DEF Issue
        <5>2. PICK g \in grants' : g.nonce = h.nonce
          <6>1. Grantable(h) BY <3>2, <2>4 DEF Issue
          <6>2. [nonce |-> h.nonce, generation |-> h.generation, expires |-> ConservativeExpiry] \in grants'
            BY <3>2, <6>1 DEF Issue
          <6> QED BY <6>2
        <5> QED BY <5>1, <5>2 DEF InLedger
      <4>2. x.nonce = h.nonce /\ x.generation = h.generation /\ x.stage = "check"
        BY <4>1, <3>1 DEF Handler
      <4> QED BY <4>1, <4>2, <3>1 DEF Handled
    <3>3. CASE Check(h)
      <4>1. x = [h EXCEPT !.stage = "send"] /\ h.stage = "check" BY <3>3, <2>4 DEF Check
      <4>2. x.nonce = h.nonce /\ x.generation = h.generation /\ x.stage = "send"
        BY <4>1, <3>1 DEF Handler
      <4> QED BY <4>1, <4>2, <3>1 DEF Handled
    <3>4. CASE Acknowledged(h) \/ Reply(h) BY <3>4, <2>4 DEF Acknowledged, Reply
    <3> QED BY <2>4, <3>2, <3>3, <3>4
  <2> QED BY <2>1, <2>2, <2>3, <2>4, LeaseSteps, Zenon
<1>gr. ASSUME NEW g \in grants' PROVE Granted(g)'
  <2>1. CASE g \in grants BY <2>1, <1>a
  <2>2. ASSUME NEW h \in handling, Issue(h), g \notin grants PROVE Granted(g)'
    <3>1. /\ g = [nonce |-> h.nonce, generation |-> h.generation, expires |-> ConservativeExpiry]
          /\ h.stage = "issue" /\ UNCHANGED <<now, pending, nonces>>
      BY <2>2 DEF Issue, counters, runner
    <3>2. h \in Handler /\ Handled(h) BY <1>t, <1>a
    <3>3. h.nonce \in 1 .. nonces /\ (h.nonce = pending.nonce => h.generation = pending.generation)
      <4>1. h.nonce \in Nat /\ nonces \in Nat BY <3>2 DEF Handler, LeaseTypes
      <4>2. h.nonce # 0 /\ h.nonce <= nonces BY <3>1, <3>2 DEF Handled, None
      <4> QED BY <3>2, <4>1, <4>2 DEF Handled, None
    <3>4. pending.started + Duration + Uncertainty <= ConservativeExpiry
      <4>1. pending.started \in Nat /\ now \in Nat BY DEF LeaseTypes
      <4>2. pending.started <= now BY DEF Answers, Challenged
      <4> QED BY <4>1, <4>2 DEF ConservativeExpiry
    <3> QED BY <3>1, <3>3, <3>4 DEF Granted
  <2> QED BY <2>1, <2>2, LeaseSteps
<1>do. ASSUME NEW m \in Range(down') PROVE Answered(m)'
  <2>1. CASE UNCHANGED down BY <2>1, <1>a, <1>do
  <2>2. CASE down' = <<>> BY <2>2, <1>t, <1>do, RangeOfQueue
  <2>3. CASE down # <<>> /\ down' = Tail(down) BY <2>3, <1>t, <1>a, <1>do, RangeOfQueue
  <2>4. ASSUME NEW s, NEW e \in DownMessage, Write(s, e) \/ UNCHANGED down, Answered(e)'
        PROVE  Answered(m)'
    <3>1. m \in Range(down) \cup {e} BY <2>4, <1>t, <1>do, RangeOfQueue DEF Write
    <3> QED BY <3>1, <2>4, <1>a
  <2>5. CASE SendSnapshot
    <3>1. PICK e : e = [type |-> "desired", snapshot |-> dispatching, generation |-> row.generation]
      OBVIOUS
    <3>2. e \in DownMessage BY <3>1 DEF DownMessage, Desired, LeaseTypes
    <3>3. Answered(e)' BY <3>1 DEF Answered
    <3>4. Write(conn, e) BY <2>5, <3>1 DEF SendSnapshot
    <3> QED BY <3>2, <3>3, <3>4, <2>4
  <2>6. CASE ReceiveRequest
    <3>1. up # <<>> /\ Head(up).type = "lease" BY <2>6 DEF ReceiveRequest, Idle
    <3>2. Asked(Head(up)) /\ Head(up) \in UpMessage BY <3>1, <1>t, <1>a, RangeOfQueue
    <3>3. PICK e : e = [type |-> "lease", nonce |-> Head(up).nonce, snapshot |-> Head(up).snapshot,
                        granted |-> FALSE]
      OBVIOUS
    <3>4. e \in DownMessage BY <3>1, <3>2, <3>3 DEF DownMessage, UpMessage
    <3>5. Answered(e) BY <3>1, <3>2, <3>3 DEF Answered, Asked
    <3>6. Write(conn, e) \/ UNCHANGED down BY <2>6, <3>3 DEF ReceiveRequest
    <3> QED BY <3>4, <3>5, <3>6, <1>c, <2>4
  <2>7. ASSUME NEW h \in handling, Issue(h) \/ Reply(h) PROVE Answered(m)'
    <3>1. h \in Handler /\ Handled(h) /\ h.stage # "accepted" /\ h.stage # "rejected"
      BY <2>7, <1>t, <1>a DEF Issue, Reply
    <3>2. PICK b \in BOOLEAN : /\ Write(h.session, [type |-> "lease", nonce |-> h.nonce, snapshot |-> h.snapshot,
                                                    granted |-> b]) \/ UNCHANGED down
                               /\ b => h.stage = "send"
      BY <2>7 DEF Issue, Reply
    <3>e. PICK e : e = [type |-> "lease", nonce |-> h.nonce, snapshot |-> h.snapshot, granted |-> b] OBVIOUS
    <3>3. e \in DownMessage BY <3>1, <3>e DEF DownMessage, Handler
    <3>4. h.nonce \in 1 .. nonces
      <4>1. h.nonce \in Nat /\ nonces \in Nat BY <3>1 DEF Handler, LeaseTypes
      <4>2. h.nonce # 0 /\ h.nonce <= nonces BY <3>1 DEF Handled, Handler, None
      <4> QED BY <4>1, <4>2
    <3>5. Answered(e) BY <3>1, <3>2, <3>4, <3>e DEF Answered, Handled
    <3> QED BY <3>2, <3>3, <3>5, <3>e, <1>c, <2>4
  <2> QED BY <2>1, <2>2, <2>3, <2>5, <2>6, <2>7, LeaseSteps, Zenon
<1> QED BY <1>c, <1>up, <1>ha, <1>gr, <1>do DEF Answers

-----------------------------------------------------------------------------
(* The allocation: an answer gives the authority that the ledger holds. *)
LEMMA AllocationStep == ASSUME LeaseTypes, LeaseTypes', Answers, Allocation, [Next]_vars PROVE Allocation'
<1> USE LeaseAssumption
<1>t. /\ lease \in [synchronized : BOOLEAN, expired : BOOLEAN, deadline : Nat, generation : Nat]
      /\ pending \in [nonce : Nat, generation : Nat, started : Nat, snapshot : Nat, valid : BOOLEAN]
      /\ grants \subseteq [nonce : Nat, generation : Nat, expires : Nat]
      /\ down \in Seq(DownMessage)
  BY DEF LeaseTypes
<1>g. grants \subseteq grants' BY LeaseSteps DEF Issue
<1>1. CASE lease' = NoLease /\ pending' = NoChallenge
  BY <1>1 DEF NoLease, NoChallenge, None, Allocation
<1>2. CASE UNCHANGED <<lease, store, applying, pending>>
  BY <1>2, <1>g DEF Allocation
<1>3. CASE Expire
  <2>1. lease'.generation = None /\ lease'.expired BY <1>3 DEF Expire, ExpiredLease, NoLease
  <2>2. pending'.nonce = pending.nonce /\ pending'.generation = pending.generation
    BY <1>3, <1>t DEF Expire
  <2> QED BY <2>1, <2>2 DEF Allocation
<1>4. CASE FinishApply
  <2>1. /\ lease'.generation = applying.generation /\ lease'.synchronized /\ lease'.expired
        /\ store' = applying.generation /\ applying' = NoApply /\ pending' = pending
    BY <1>4 DEF FinishApply, NoLease
  <2> QED BY <2>1 DEF Allocation
<1>5. CASE AbandonApply
  <2>1. lease.generation = None /\ lease.expired BY <1>5 DEF AbandonApply, Allocation
  <2>2. UNCHANGED <<lease, pending>> BY <1>5 DEF AbandonApply
  <2> QED BY <2>1, <2>2 DEF Allocation
<1>6. CASE Challenge
  <2>1. /\ UNCHANGED <<lease, store, applying, grants>> /\ pending'.generation = lease.generation
        /\ lease.generation # None
    BY <1>6 DEF Challenge, database
  <2> QED BY <2>1 DEF Allocation
<1>7. CASE AcceptResponse
  <2>1. PICK m \in DownMessage : m = Head(down) /\ Answered(m) /\ m.type = "lease"
    BY <1>7, <1>t, TailAt, RangeOfQueue DEF AcceptResponse, Answers
  <2>2. m.nonce = pending.nonce /\ m.granted /\ pending.generation = lease.generation
    BY <1>7, <2>1 DEF AcceptResponse, Acceptable
  <2>3. pending.nonce # 0 /\ InLedger(pending.nonce)
    BY <2>1, <2>2 DEF Answered
  <2>4. PICK g \in grants : g.nonce = pending.nonce BY <2>3 DEF InLedger
  <2>5. g.generation = pending.generation /\ pending.started + Duration + Uncertainty <= g.expires
    BY <2>4 DEF Answers, Granted
  <2>6. /\ lease'.expired = FALSE /\ lease'.deadline = pending.started + Duration
        /\ lease'.generation = lease.generation /\ lease'.synchronized = lease.synchronized
    BY <1>7, <1>t DEF AcceptResponse, Deadline
  <2>7. lease.generation # None /\ lease.synchronized /\ store = lease.generation /\ applying = NoApply
    BY <2>2, <2>3 DEF Allocation, None
  <2>8. UNCHANGED <<store, applying>> /\ pending' = NoChallenge BY <1>7 DEF AcceptResponse
  <2>9. lease'.deadline # 0 /\ lease'.deadline <= g.expires - Uncertainty
    BY <1>t, <2>5, <2>6
  <2> QED BY <2>2, <2>4, <2>5, <2>6, <2>7, <2>8, <2>9, <1>g DEF Allocation, NoChallenge, None
<1>8. CASE Tick \/ Disconnected \/ Offline \/ MarkStale \/ ReconcileAgain
           \/ Advance \/ Dispatch \/ SendSnapshot \/ ReceiveSnapshot
           \/ Acknowledge \/ ReceiveRequest \/ IgnoreResponse \/ Renewed \/ Wake \/ UNCHANGED vars
  <2>1. UNCHANGED <<lease, store, applying, pending>>
    BY <1>8 DEF Tick, Disconnected, Offline, MarkStale, ReconcileAgain,
                Advance, Dispatch, SendSnapshot, ReceiveSnapshot, Acknowledge,
                ReceiveRequest, IgnoreResponse, Renewed, Wake, vars, runner
  <2> QED BY <2>1, <1>2
<1>9. CASE \E h \in handling : Acknowledged(h) \/ Issue(h) \/ Check(h) \/ Reply(h)
  <2>1. UNCHANGED <<lease, store, applying, pending>>
    BY <1>9 DEF Acknowledged, Issue, Check, Reply, runner
  <2> QED BY <2>1, <1>2
<1>10. CASE Connect \/ Break \/ StartApply \/ RejectApply \/ ChallengeFails \/ Reconnect \/ FailResponse \/ GiveUp
  <2>1. lease' = NoLease /\ pending' = NoChallenge
    BY <1>10 DEF Connect, Break, StartApply, RejectApply, ChallengeFails, Reconnect, FailResponse, GiveUp,
                 EndStream, Revoke
  <2> QED BY <2>1, <1>1
<1> QED BY <1>3, <1>4, <1>5, <1>6, <1>7, <1>8, <1>9, <1>10, Zenon DEF Next

-----------------------------------------------------------------------------
(* The order of the snapshots. *)

LEMMA InOrderTail ==
    ASSUME NEW S, NEW q \in Seq(S), q # <<>>, InOrder(q)
    PROVE  /\ InOrder(Tail(q))
           /\ \A m \in Range(Tail(q)) :
                 Head(q).type = "desired" /\ m.type = "desired" => Head(q).snapshot < m.snapshot
<1>1. /\ 1 \in DOMAIN q /\ Head(q) = q[1]
      /\ \A i \in DOMAIN Tail(q) : i \in Nat /\ 1 < i + 1 /\ i + 1 \in DOMAIN q /\ Tail(q)[i] = q[i + 1]
  BY TailAt
<1>2. ASSUME NEW i \in DOMAIN Tail(q), NEW j \in DOMAIN Tail(q), i < j,
             Tail(q)[i].type = "desired", Tail(q)[j].type = "desired"
      PROVE  Tail(q)[i].snapshot < Tail(q)[j].snapshot
  <2>1. i + 1 < j + 1 BY <1>1, <1>2
  <2> QED BY <2>1, <1>1, <1>2 DEF InOrder
<1>3. ASSUME NEW i \in DOMAIN Tail(q), Head(q).type = "desired", Tail(q)[i].type = "desired"
      PROVE  Head(q).snapshot < Tail(q)[i].snapshot
  BY <1>1, <1>3 DEF InOrder
<1> QED BY <1>2, <1>3 DEF InOrder, Range

LEMMA InOrderAppend ==
    ASSUME NEW S, NEW q \in Seq(S), NEW e \in S, InOrder(q),
           e.type = "desired" => \A m \in Range(q) : m.type = "desired" => m.snapshot < e.snapshot
    PROVE  InOrder(Append(q, e))
<1>1. /\ \A i \in DOMAIN q : i \in Nat /\ i < Len(q) + 1
      /\ \A i \in DOMAIN Append(q, e) :
            \/ i \in DOMAIN q /\ Append(q, e)[i] = q[i]
            \/ i = Len(q) + 1 /\ i \in Nat /\ Append(q, e)[i] = e
  BY AppendAt
<1>2. ASSUME NEW i \in DOMAIN Append(q, e), NEW j \in DOMAIN Append(q, e), i < j,
             Append(q, e)[i].type = "desired", Append(q, e)[j].type = "desired"
      PROVE  Append(q, e)[i].snapshot < Append(q, e)[j].snapshot
  <2>1. i \in DOMAIN q /\ Append(q, e)[i] = q[i]
    <3>1. CASE j \in DOMAIN q BY <3>1, <1>1, <1>2
    <3>2. CASE j = Len(q) + 1 BY <3>2, <1>1, <1>2
    <3> QED BY <3>1, <3>2, <1>1
  <2>2. CASE j \in DOMAIN q /\ Append(q, e)[j] = q[j] BY <2>1, <2>2, <1>2 DEF InOrder
  <2>3. CASE Append(q, e)[j] = e BY <2>1, <2>3, <1>2 DEF Range
  <2> QED BY <2>2, <2>3, <1>1
<1> QED BY <1>2 DEF InOrder

LEMMA EmptyInOrder == InOrder(<<>>) /\ Range(<<>>) = {}
BY DEF InOrder, Range

LEMMA SnapshotTypes ==
    ASSUME LeaseTypes
    PROVE  /\ inbox \in Seq(Desired) /\ down \in Seq(DownMessage)
           /\ Range(inbox) \subseteq Desired /\ Range(down) \subseteq DownMessage
           /\ \A m \in Desired : m.snapshot \in Nat /\ m.type = "desired"
           /\ \A m \in Range(inbox) : m.snapshot \in Nat
           /\ \A d \in Range(down) : d.type = "desired" => d.snapshot \in Nat
<1>1. inbox \in Seq(Desired) /\ down \in Seq(DownMessage) BY DEF LeaseTypes
<1>2. Range(inbox) \subseteq Desired /\ Range(down) \subseteq DownMessage BY <1>1, RangeOfQueue
<1>3. \A m \in Desired : m.snapshot \in Nat /\ m.type = "desired" BY DEF Desired
<1> QED BY <1>1, <1>2, <1>3, MessageFields

(* A step that only takes snapshots away, or withdraws authority. *)
LEMMA OrderKept ==
    ASSUME LeaseTypes, Order,
           \A s : Sent(s) => Sent(s)',
           dispatching' # None => dispatching' = snapshots',
           served' = served,
           snapshotNonce' = snapshotNonce \/ snapshotNonce' = None,
           \/ applying'.snapshot = applying.snapshot /\ (applying' # NoApply => applying # NoApply)
           \/ applying' = NoApply,
           UNCHANGED inbox \/ inbox' = <<>>,
           \A d \in Range(down') : d.type = "desired" => d \in Range(down),
           InOrder(down'),
           lease'.generation # None /\ lease'.expired => served < snapshotNonce'
    PROVE  Order'
<1>0. /\ \A m \in Range(inbox) : m.snapshot \in Nat
      /\ \A d \in Range(down) : d.type = "desired" => d.snapshot \in Nat
      /\ served \in Nat
  BY SnapshotTypes DEF LeaseTypes
<1>1. Sent(served)' /\ Sent(snapshotNonce)' /\ Sent(applying.snapshot)'
  <2>1. PICK a, b, c : a = served' /\ b = snapshotNonce' /\ c = applying'.snapshot OBVIOUS
  <2>2. Sent(None) BY <1>0 DEF Order, Sent, None, LeaseTypes
  <2>4. Sent(a) /\ Sent(b) /\ Sent(c) BY <2>1, <2>2 DEF Order, NoApply
  <2>3. Sent(a)' /\ Sent(b)' /\ Sent(c)' BY <2>4
  <2> QED BY <2>1, <2>3 DEF Sent
<1>2. \A s \in Nat : Ahead(s) => Ahead(s)'
  <2> SUFFICES ASSUME NEW s \in Nat, Ahead(s) PROVE Ahead(s)' OBVIOUS
  <2>1. Sent(s)' BY DEF Ahead
  <2>2. served' < s BY DEF Ahead
  <2>3. snapshotNonce' < s BY <1>0 DEF Ahead, None
  <2>4. applying' # NoApply => applying'.snapshot < s BY DEF Ahead
  <2> QED BY <2>1, <2>2, <2>3, <2>4 DEF Ahead
<1>3. Range(inbox') \subseteq Range(inbox) /\ InOrder(inbox') BY EmptyInOrder DEF Order
<1>4. \A m \in Range(inbox') : Ahead(m.snapshot)' BY <1>0, <1>2, <1>3 DEF Order
<1>5. \A m \in Range(down') : m.type = "desired" => Ahead(m.snapshot)' BY <1>0, <1>2 DEF Order
<1>6. \A m \in Range(inbox'), d \in Range(down') : d.type = "desired" => m.snapshot < d.snapshot
  BY <1>3 DEF Order
<1>7. applying' # NoApply => served' < applying'.snapshot BY DEF Order
<1> QED BY <1>1, <1>3, <1>4, <1>5, <1>6, <1>7 DEF Order

LEMMA NoApplyIsFresh == [NoApply EXCEPT !.stale = FALSE] = NoApply
<1>1. \A a \in [snapshot : Nat, generation : Nat, stale : BOOLEAN] :
         a.stale = FALSE => [a EXCEPT !.stale = FALSE] = a
  OBVIOUS
<1>2. NoApply.stale = FALSE BY DEF NoApply
<1> QED BY <1>1, <1>2, AllocationTypes

LEMMA OrderStep ==
    ASSUME LeaseTypes, LeaseTypes', Answers, Allocation, Order, [Next]_vars
    PROVE  Order'
<1>t. /\ inbox \in Seq(Desired) /\ down \in Seq(DownMessage)
      /\ \A m \in Desired : m.snapshot \in Nat /\ m.type = "desired"
      /\ \A m \in Range(inbox) : m.snapshot \in Nat
      /\ \A d \in Range(down) : d.type = "desired" => d.snapshot \in Nat
  BY SnapshotTypes
<1>n. /\ served \in Nat /\ snapshotNonce \in Nat /\ snapshots \in Nat /\ dispatching \in Nat
      /\ applying.snapshot \in Nat
  BY DEF LeaseTypes
<1>o. /\ dispatching # None => dispatching = snapshots
      /\ Sent(served) /\ Sent(snapshotNonce) /\ Sent(applying.snapshot)
      /\ \A m \in Range(inbox) : Ahead(m.snapshot)
      /\ \A m \in Range(down) : m.type = "desired" => Ahead(m.snapshot)
      /\ \A m \in Range(inbox), d \in Range(down) : d.type = "desired" => m.snapshot < d.snapshot
      /\ InOrder(inbox) /\ InOrder(down)
      /\ applying # NoApply => served < applying.snapshot
      /\ lease.generation # None /\ lease.expired => served < snapshotNonce
  BY DEF Order
<1>p. \/ UNCHANGED <<dispatching, snapshots>>
      \/ dispatching' = None /\ UNCHANGED snapshots
      => /\ \A s : Sent(s) => Sent(s)'
         /\ dispatching' # None => dispatching' = snapshots'
  BY <1>o DEF Sent
(* Answers and the end of a stream leave the snapshots in order. *)
<1>d. ASSUME NEW e \in DownMessage, NEW s, e.type = "lease",
             \/ UNCHANGED down \/ down' = <<>> \/ (down # <<>> /\ down' = Tail(down)) \/ Write(s, e)
      PROVE  (\A d \in Range(down') : d.type = "desired" => d \in Range(down)) /\ InOrder(down')
  <2>1. CASE UNCHANGED down BY <2>1, <1>o
  <2>2. CASE down' = <<>> BY <2>2, EmptyInOrder
  <2>3. CASE down # <<>> /\ down' = Tail(down) BY <2>3, <1>t, <1>o, InOrderTail, RangeOfQueue
  <2>4. CASE down' = Append(down, e) BY <2>4, <1>d, <1>t, <1>o, InOrderAppend, RangeOfQueue
  <2> QED BY <1>d, <2>1, <2>2, <2>3, <2>4 DEF Write
<1>e. PICK answer \in DownMessage : answer.type = "lease"
  <2>1. [type |-> "lease", nonce |-> 0, snapshot |-> 0, granted |-> FALSE] \in DownMessage BY DEF DownMessage
  <2> QED BY <2>1
<1>1. ASSUME UNCHANGED <<snapshots, dispatching, served, snapshotNonce, applying, inbox, lease>>,
             NEW m \in DownMessage, NEW s, m.type = "lease",
             \/ UNCHANGED down \/ (down # <<>> /\ down' = Tail(down)) \/ Write(s, m)
      PROVE  Order'
  <2>1. (\A d \in Range(down') : d.type = "desired" => d \in Range(down)) /\ InOrder(down')
    BY <1>1, <1>d
  <2> QED BY <1>1, <1>p, <1>o, <2>1, OrderKept
<1>2. ASSUME Revoke, UNCHANGED <<snapshots, served>>,
             UNCHANGED dispatching \/ dispatching' = None,
             \/ applying'.snapshot = applying.snapshot /\ (applying' # NoApply => applying # NoApply)
             \/ applying' = NoApply,
             UNCHANGED inbox \/ inbox' = <<>>,
             UNCHANGED down \/ down' = <<>> \/ (down # <<>> /\ down' = Tail(down))
      PROVE  Order'
  <2>1. (\A d \in Range(down') : d.type = "desired" => d \in Range(down)) /\ InOrder(down')
    BY <1>2, <1>d, <1>e
  <2>2. lease'.generation = None /\ snapshotNonce' = None BY <1>2 DEF Revoke, NoLease
  <2> QED BY <1>2, <1>p, <2>1, <2>2, OrderKept
<1>3. CASE UNCHANGED <<snapshots, dispatching, served, snapshotNonce, applying, inbox, lease, down>>
  BY <1>3, <1>1, <1>e
<1>4. CASE Tick \/ Offline \/ MarkStale \/ ReconcileAgain
           \/ Advance \/ Acknowledge \/ Challenge \/ Renewed \/ Wake \/ UNCHANGED vars
  <2>1. UNCHANGED <<snapshots, dispatching, served, snapshotNonce, applying, inbox, lease, down>>
    BY <1>4 DEF Tick, Offline, MarkStale, ReconcileAgain,
                Advance, Acknowledge, Challenge, Renewed, Wake, vars, connection, counters, runner
  <2> QED BY <2>1, <1>3
<1>5. CASE Disconnected
  <2>1. /\ UNCHANGED <<snapshots, served, snapshotNonce, applying, inbox, lease, down>> /\ dispatching' = None
    BY <1>5 DEF Disconnected, counters, runner
  <2> QED BY <2>1, <1>p, <1>o, OrderKept
<1>6. CASE Connect
  <2>1. /\ Revoke /\ dispatching' = None /\ UNCHANGED <<snapshots, served, applying, inbox, down>>
    BY <1>6 DEF Connect
  <2> QED BY <2>1, <1>2
<1>7. ASSUME EndStream, UNCHANGED <<database, connection, counters, store, period, served>> PROVE Order'
  <2>1. /\ Revoke /\ inbox' = <<>> /\ down' = <<>> /\ UNCHANGED <<snapshots, served, dispatching>>
        /\ applying' = [applying EXCEPT !.stale = (applying # NoApply)]
    BY <1>7 DEF EndStream, counters, connection
  <2>2. applying \in [snapshot : Nat, generation : Nat, stale : BOOLEAN] BY DEF LeaseTypes
  <2>3. applying'.snapshot = applying.snapshot BY <2>1, <2>2
  <2>4. applying = NoApply => applying' = NoApply
    <3>1. ASSUME applying = NoApply PROVE applying' = [NoApply EXCEPT !.stale = FALSE] BY <2>1, <3>1
    <3>2. [NoApply EXCEPT !.stale = FALSE] = NoApply BY NoApplyIsFresh
    <3> QED BY <3>1, <3>2
  <2> QED BY <2>1, <2>3, <2>4, <1>2
<1>8. CASE Break \/ ChallengeFails \/ Reconnect \/ GiveUp
  BY <1>8, <1>7, Zenon DEF Break, ChallengeFails, Reconnect, GiveUp
<1>9. CASE RejectApply
  <2>1. /\ Revoke /\ applying' = NoApply /\ UNCHANGED <<snapshots, served, dispatching, inbox, down>>
    BY <1>9 DEF RejectApply, connection, counters
  <2> QED BY <2>1, <1>2
<1>10. CASE FailResponse
  <2>1. /\ Revoke /\ UNCHANGED <<snapshots, served, dispatching, inbox>>
        /\ down # <<>> /\ down' = Tail(down)
        /\ applying' = [applying EXCEPT !.stale = (applying # NoApply)]
    BY <1>10 DEF FailResponse, connection, counters
  <2>2. applying \in [snapshot : Nat, generation : Nat, stale : BOOLEAN] BY DEF LeaseTypes
  <2>3. applying'.snapshot = applying.snapshot BY <2>1, <2>2
  <2>4. applying = NoApply => applying' = NoApply
    <3>1. ASSUME applying = NoApply PROVE applying' = [NoApply EXCEPT !.stale = FALSE] BY <2>1, <3>1
    <3>2. [NoApply EXCEPT !.stale = FALSE] = NoApply BY NoApplyIsFresh
    <3> QED BY <3>1, <3>2
  <2> QED BY <2>1, <2>3, <2>4, <1>2
<1>11. CASE Expire
  <2>1. /\ UNCHANGED <<snapshots, dispatching, served, snapshotNonce, applying, inbox, down>>
        /\ lease'.generation = None
    BY <1>11 DEF Expire, ExpiredLease, NoLease, connection, counters
  <2> QED BY <2>1, <1>p, <1>o, OrderKept
<1>12. CASE IgnoreResponse
  <2>1. /\ UNCHANGED <<snapshots, dispatching, served, snapshotNonce, applying, inbox, lease>>
        /\ down # <<>> /\ down' = Tail(down)
    BY <1>12 DEF IgnoreResponse, connection, counters, runner
  <2> QED BY <2>1, <1>1, <1>e
<1>13. CASE ReceiveRequest
  <2>1. UNCHANGED <<snapshots, dispatching, served, snapshotNonce, applying, inbox, lease>>
    BY <1>13 DEF ReceiveRequest, counters, runner
  <2>2. up \in Seq(UpMessage) /\ up # <<>> /\ Head(up).type = "lease"
    BY <1>13 DEF ReceiveRequest, Idle, LeaseTypes
  <2>3. Head(up) \in UpMessage BY <2>2, TailAt
  <2>4. PICK m : m = [type |-> "lease", nonce |-> Head(up).nonce, snapshot |-> Head(up).snapshot,
                      granted |-> FALSE]
    OBVIOUS
  <2>5. m \in DownMessage /\ m.type = "lease" BY <2>2, <2>3, <2>4, MessageFields DEF DownMessage
  <2>6. UNCHANGED down \/ Write(conn, m) BY <1>13, <2>4 DEF ReceiveRequest
  <2> QED BY <2>1, <2>5, <2>6, <1>1
<1>14. ASSUME NEW h \in handling, Acknowledged(h) \/ Issue(h) \/ Check(h) \/ Reply(h) PROVE Order'
  <2>1. UNCHANGED <<snapshots, dispatching, served, snapshotNonce, applying, inbox, lease>>
    BY <1>14 DEF Acknowledged, Issue, Check, Reply, counters, runner
  <2>2. h \in Handler BY DEF LeaseTypes
  <2>m. PICK b \in BOOLEAN : \/ UNCHANGED down
                             \/ Write(h.session, [type |-> "lease", nonce |-> h.nonce, snapshot |-> h.snapshot,
                                                  granted |-> b])
    BY <1>14 DEF Acknowledged, Issue, Check, Reply
  <2>3. PICK m : m = [type |-> "lease", nonce |-> h.nonce, snapshot |-> h.snapshot, granted |-> b] OBVIOUS
  <2>4. m \in DownMessage /\ m.type = "lease" BY <2>2, <2>3 DEF DownMessage, Handler
  <2> QED BY <2>1, <2>m, <2>3, <2>4, <1>1
<1>15. CASE AbandonApply
  <2>1. /\ UNCHANGED <<snapshots, dispatching, served, snapshotNonce, inbox, lease, down>> /\ applying' = NoApply
    BY <1>15 DEF AbandonApply, connection, counters
  <2> QED BY <2>1, <1>p, <1>o, OrderKept
<1>16. CASE Dispatch
  <2>1. /\ UNCHANGED <<served, snapshotNonce, applying, inbox, down, lease>>
        /\ dispatching' = snapshots + 1 /\ snapshots' = snapshots + 1 /\ dispatching = None
    BY <1>16 DEF Dispatch, runner
  <2>2. PICK n \in Nat : n = snapshots BY <1>n
  <2>3. \A s : (s <= n => (s <= n + 1 /\ s < n + 1)) \/ s \notin Int BY <2>2
  <2>4. \A s \in Nat : Sent(s) => Sent(s)' BY <2>1, <2>2, <2>3 DEF Sent
  <2>5. Sent(served)' /\ Sent(snapshotNonce)' /\ Sent(applying.snapshot)'
    BY <2>1, <2>2, <1>n, <1>o DEF Sent, None
  <2>6. \A s \in Nat : Ahead(s) => Ahead(s)' BY <2>1, <2>4 DEF Ahead
  <2>7. /\ \A m \in Range(inbox) : Ahead(m.snapshot)'
        /\ \A m \in Range(down) : m.type = "desired" => Ahead(m.snapshot)'
    BY <2>6, <1>t, <1>o
  <2> QED BY <2>1, <2>5, <2>7, <1>o DEF Order
<1>17. CASE SendSnapshot
  <2>1. /\ UNCHANGED <<served, snapshotNonce, applying, inbox, lease, snapshots>>
        /\ dispatching' = None /\ dispatching # None
    BY <1>17 DEF SendSnapshot, counters, runner
  <2>2. PICK e : e = [type |-> "desired", snapshot |-> dispatching, generation |-> row.generation]
    OBVIOUS
  <2>3. e \in DownMessage /\ e.snapshot = dispatching BY <2>2 DEF DownMessage, Desired, LeaseTypes
  <2>4. down' = down \/ down' = Append(down, e) BY <1>17, <2>2 DEF SendSnapshot, Write
  <2>5. \A s : Sent(s) => s < dispatching BY <2>1 DEF Sent
  <2>6. \A s : Sent(s) => Sent(s)' BY <2>1 DEF Sent
  <2>7. \A s : Ahead(s) => Ahead(s)' BY <2>1, <2>6 DEF Ahead
  <2>8. PICK d \in Nat : d = dispatching BY <1>n
  <2>9. Sent(d)' BY <2>8, <2>1, <1>n, <1>o DEF Sent
  <2>10. Ahead(d)' BY <2>8, <2>9, <2>1, <2>5, <1>o DEF Ahead
  <2>11. Range(down') \subseteq Range(down) \cup {e} BY <2>3, <2>4, <1>t, RangeOfQueue
  <2>12. InOrder(down')
    <3>1. \A m \in Range(down) : m.type = "desired" => m.snapshot < e.snapshot
      BY <2>3, <2>5, <1>o DEF Ahead
    <3> QED BY <3>1, <2>3, <2>4, <1>t, <1>o, InOrderAppend
  <2>13. \A m \in Range(down') : m.type = "desired" => Ahead(m.snapshot)'
    BY <2>3, <2>7, <2>8, <2>10, <2>11, <1>o
  <2>14. \A m \in Range(inbox), x \in Range(down') : x.type = "desired" => m.snapshot < x.snapshot
    BY <2>3, <2>5, <2>11, <1>o DEF Ahead
  <2>15. Sent(served)' /\ Sent(snapshotNonce)' /\ Sent(applying.snapshot)' BY <2>1, <1>o DEF Sent
  <2>16. \A m \in Range(inbox) : Ahead(m.snapshot)' BY <2>7, <1>o
  <2> QED BY <2>1, <2>12, <2>13, <2>14, <2>15, <2>16, <1>o DEF Order
<1>18. CASE ReceiveSnapshot
  <2>1. /\ UNCHANGED <<served, snapshotNonce, applying, lease, snapshots, dispatching>>
        /\ down # <<>> /\ Head(down).type = "desired" /\ inbox' = Append(inbox, Head(down)) /\ down' = Tail(down)
    BY <1>18 DEF ReceiveSnapshot, connection, counters
  <2>2. PICK e : e = Head(down) OBVIOUS
  <2>3. e \in Range(down) /\ e \in DownMessage /\ e.type = "desired"
    BY <2>1, <2>2, <1>t, RangeOfQueue
  <2>4. e \in Desired BY <2>3, MessageFields, Zenon
  <2>5. Range(inbox') = Range(inbox) \cup {e} BY <2>1, <2>2, <2>4, <1>t, RangeOfQueue
  <2>6. Range(down') \subseteq Range(down) BY <2>1, <1>t, RangeOfQueue
  <2>7. InOrder(down') /\ \A m \in Range(down') : m.type = "desired" => e.snapshot < m.snapshot
    BY <2>1, <2>2, <2>3, <1>t, <1>o, InOrderTail
  <2>8. InOrder(inbox')
    <3>1. \A m \in Range(inbox) : m.snapshot < e.snapshot BY <2>3, <1>o
    <3> QED BY <3>1, <2>1, <2>2, <2>4, <1>t, <1>o, InOrderAppend
  <2>9. \A s : Ahead(s) => Ahead(s)' BY <2>1 DEF Ahead, Sent
  <2>10. Ahead(e.snapshot) BY <2>3, <1>o
  <2>11. \A m \in Range(inbox') : Ahead(m.snapshot)' BY <2>5, <2>9, <2>10, <1>o
  <2>12. \A m \in Range(down') : m.type = "desired" => Ahead(m.snapshot)' BY <2>6, <2>9, <1>o
  <2>13. \A m \in Range(inbox'), d \in Range(down') : d.type = "desired" => m.snapshot < d.snapshot
    BY <2>5, <2>6, <2>7, <1>o
  <2>14. Sent(served)' /\ Sent(snapshotNonce)' /\ Sent(applying.snapshot)' BY <2>1, <1>o DEF Sent
  <2> QED BY <2>1, <2>7, <2>8, <2>11, <2>12, <2>13, <2>14, <1>o DEF Order
<1>19. CASE StartApply
  <2>1. /\ UNCHANGED <<served, down, snapshots, dispatching>> /\ inbox # <<>> /\ inbox' = Tail(inbox)
        /\ applying'.snapshot = Head(inbox).snapshot
        /\ snapshotNonce' = None /\ lease'.generation = None
    BY <1>19 DEF StartApply, Revoke, NoLease, connection, counters
  <2>2. PICK e \in Desired : e = Head(inbox) /\ e \in Range(inbox) BY <2>1, <1>t, RangeOfQueue, TailAt
  <2>3. Range(inbox') \subseteq Range(inbox) BY <2>1, <1>t, RangeOfQueue
  <2>4. InOrder(inbox') /\ \A m \in Range(inbox') : e.snapshot < m.snapshot
    <3>1. Range(inbox') \subseteq Desired BY <2>1, <1>t, TailAt, RangeOfQueue
    <3> QED BY <3>1, <2>1, <2>2, <1>t, <1>o, InOrderTail
  <2>5. \A d \in Range(down) : d.type = "desired" => e.snapshot < d.snapshot BY <2>2, <1>o
  <2>6. \A s \in Nat : Ahead(s) /\ e.snapshot < s => Ahead(s)'
    <3> SUFFICES ASSUME NEW s \in Nat, Ahead(s), e.snapshot < s PROVE Ahead(s)' OBVIOUS
    <3>1. Sent(s)' BY <2>1 DEF Ahead, Sent
    <3>2. snapshotNonce' < s BY <2>1, <1>n DEF Ahead, None
    <3>3. served' < s /\ applying'.snapshot < s BY <2>1, <2>2 DEF Ahead
    <3> QED BY <3>1, <3>2, <3>3 DEF Ahead
  <2>7. \A m \in Range(inbox') : Ahead(m.snapshot)' BY <2>3, <2>4, <2>6, <1>t, <1>o
  <2>8. \A m \in Range(down) : m.type = "desired" => Ahead(m.snapshot)' BY <2>5, <2>6, <1>t, <1>o
  <2>9. Ahead(e.snapshot) BY <2>2, <1>o
  <2>10. Sent(served)' /\ Sent(snapshotNonce)' /\ Sent(applying.snapshot)'
    <3>1. Sent(served)' BY <2>1, <1>o DEF Sent
    <3>2. Sent(snapshotNonce)' BY <2>1, <1>n, <1>o DEF Sent, None
    <3>3. Sent(applying.snapshot)' BY <2>1, <2>2, <2>9 DEF Sent, Ahead
    <3> QED BY <3>1, <3>2, <3>3
  <2>11. served' < applying'.snapshot BY <2>1, <2>2, <2>9 DEF Ahead
  <2> QED BY <2>1, <2>3, <2>4, <2>7, <2>8, <2>10, <2>11, <1>o DEF Order
<1>20. CASE FinishApply
  <2>1. /\ UNCHANGED <<served, inbox, down, snapshots, dispatching>> /\ applying # NoApply /\ applying' = NoApply
        /\ snapshotNonce' = applying.snapshot
    BY <1>20 DEF FinishApply, connection, counters
  <2>2. \A s : Ahead(s) => Ahead(s)' BY <2>1 DEF Ahead, Sent
  <2>3. Sent(served)' /\ Sent(snapshotNonce)' BY <2>1, <1>o DEF Sent
  <2>4. Sent(applying.snapshot)' BY <2>1, <1>n, <1>o DEF Sent, NoApply, None
  <2> QED BY <2>1, <2>2, <2>3, <2>4, <1>o DEF Order
<1>21. CASE AcceptResponse
  <2>1. /\ UNCHANGED <<snapshotNonce, inbox, applying, snapshots, dispatching>> /\ served' = snapshotNonce
        /\ lease'.expired = FALSE /\ down # <<>> /\ down' = Tail(down)
    BY <1>21 DEF AcceptResponse, connection, counters, LeaseTypes
  <2>2. applying = NoApply
    <3>1. /\ Head(down).type = "lease" /\ Head(down).nonce = pending.nonce
          /\ pending.generation = lease.generation
      BY <1>21 DEF AcceptResponse, Acceptable
    <3>2. Answered(Head(down)) BY <2>1, <1>t, RangeOfQueue DEF Answers
    <3>3. pending.nonce # None BY <3>1, <3>2 DEF Answered, None
    <3> QED BY <3>1, <3>3 DEF Allocation
  <2>3. \A s : Ahead(s) => Ahead(s)' BY <2>1 DEF Ahead, Sent
  <2>4. (\A d \in Range(down') : d.type = "desired" => d \in Range(down)) /\ InOrder(down')
    BY <2>1, <1>d, <1>e
  <2>5. Sent(served)' /\ Sent(snapshotNonce)' /\ Sent(applying.snapshot)' BY <2>1, <1>o DEF Sent
  <2> QED BY <2>1, <2>2, <2>3, <2>4, <2>5, <1>o DEF Order
<1> QED
  BY <1>4, <1>5, <1>6, <1>8, <1>9, <1>10, <1>11, <1>12, <1>13, <1>14, <1>15, <1>16, <1>17, <1>18, <1>19,
     <1>20, <1>21, Zenon DEF Next

-----------------------------------------------------------------------------
(* The theorems. *)

LEMMA LeaseInvariant == Spec => []LeaseInv
<1>1. LeaseInv /\ [Next]_vars => LeaseInv'
  <2> SUFFICES ASSUME LeaseInv, [Next]_vars PROVE LeaseInv' OBVIOUS
  <2>1. LeaseTypes' BY TypesStep DEF LeaseInv
  <2>2. Ledger' BY LedgerStep DEF LeaseInv
  <2>3. Answers' BY <2>1, AnswersStep DEF LeaseInv
  <2>4. Allocation' BY <2>1, AllocationStep DEF LeaseInv
  <2>5. Order' BY <2>1, OrderStep DEF LeaseInv
  <2> QED BY <2>1, <2>2, <2>3, <2>4, <2>5 DEF LeaseInv
<1> QED BY <1>1, LeaseInit, PTL DEF Spec

(* "Controller must durably track grants" (serving_lease.py): whatever was  *)
(* delayed, lost or replaced between issueSnapshotBound and                 *)
(* _accept_lease_response, a Runner that serves does so under a grant of    *)
(* the ledger for its generation that runs out no earlier than its own      *)
(* deadline.                                                                *)
THEOREM GrantsAreTracked == Spec => []AuthorityIsInTheLedger
<1>1. LeaseInv => AuthorityIsInTheLedger
  BY DEF LeaseInv, Allocation, AuthorityIsInTheLedger, Serving
<1> QED BY <1>1, LeaseInvariant, PTL

(* Once advanceDesiredGeneration has moved past a generation, no Runner     *)
(* serves it for longer than one lease duration, whatever the uncertainty   *)
(* between the two clocks adds to the ledger.                               *)
THEOREM StaleServingEnds == Spec => []StaleServingBounded
<1>1. LeaseInv => StaleServingBounded
  <2> SUFFICES ASSUME LeaseInv, Serving, lease.generation < desired
               PROVE  now < leftAt[lease.generation] + Duration
    BY DEF StaleServingBounded
  <2>1. PICK g \in grants : g.generation = lease.generation /\ lease.deadline <= g.expires - Uncertainty
    BY DEF LeaseInv, Allocation, Serving
  <2>2. lease.deadline # 0 /\ now < lease.deadline
    <3>1. lease.deadline # 0 /\ ~(lease.deadline # 0 /\ now >= lease.deadline)
      BY DEF LeaseInv, Allocation, Serving, Due
    <3>2. now \in Nat /\ lease.deadline \in Nat BY DEF LeaseInv, LeaseTypes
    <3> QED BY <3>1, <3>2
  <2>3. g.expires <= leftAt[g.generation] + Duration + Uncertainty BY <2>1 DEF LeaseInv, Ledger
  <2>4. g.generation \in 1 .. desired BY DEF LeaseInv, Ledger
  <2>5. now \in Nat /\ lease.deadline \in Nat /\ g.expires \in Nat BY DEF LeaseInv, LeaseTypes
  <2>6. leftAt[g.generation] \in Nat
    <3>1. desired \in Nat \ {0} /\ desired \in {1} \cup 1 .. MaxGeneration /\ leftAt \in [1 .. MaxGeneration -> Nat]
      BY DEF LeaseInv, LeaseTypes
    <3>2. g.generation \in 1 .. MaxGeneration BY <2>1, <2>4, <3>1, LeaseAssumption
    <3> QED BY <3>1, <3>2
  <2> QED BY <2>1, <2>2, <2>3, <2>5, <2>6, LeaseAssumption
<1> QED BY <1>1, LeaseInvariant, PTL

(* Between _apply_desired_state and the fences: the generation that is      *)
(* served is the published one, and no other is being published.            *)
THEOREM PublishedIsGranted == Spec => []ServesWhatWasGranted
<1>1. LeaseInv => ServesWhatWasGranted
  BY DEF LeaseInv, Allocation, ServesWhatWasGranted, Serving
<1> QED BY <1>1, LeaseInvariant, PTL

(* "A missed renewal cannot silently revive an expired serving period"      *)
(* (serving_lease.py): accept() opens a period only on a snapshot that      *)
(* _apply_desired_state finished after every earlier period.                *)
THEOREM ExpiredStaysExpired == Spec => NoRevival
<1>1. LeaseInv /\ [Next]_vars => [period' # period => snapshotNonce > served]_vars
  <2> SUFFICES ASSUME LeaseInv, Next, period' # period PROVE snapshotNonce > served
    BY DEF vars, runner
  <2>1. AcceptResponse /\ lease.expired
    <3>1. CASE Tick \/ Expire \/ Connect \/ Break \/ Disconnected \/ Offline \/ MarkStale \/ ReconcileAgain
           \/ Advance \/ Dispatch \/ SendSnapshot
      BY <3>1 DEF Tick, Expire, Connect, Break, Disconnected, Offline, MarkStale, ReconcileAgain,
                Advance, Dispatch, SendSnapshot, runner
    <3>2. CASE ReceiveSnapshot \/ StartApply \/ AbandonApply \/ FinishApply \/ RejectApply
      BY <3>2 DEF ReceiveSnapshot, StartApply, AbandonApply, FinishApply, RejectApply
    <3>3. CASE Acknowledge \/ ReceiveRequest BY <3>3 DEF Acknowledge, ReceiveRequest, runner
    <3>4. CASE Challenge \/ ChallengeFails \/ Reconnect \/ Renewed \/ GiveUp \/ Wake
      BY <3>4 DEF Challenge, ChallengeFails, Reconnect, Renewed, GiveUp, Wake
    <3>5. CASE IgnoreResponse \/ AcceptResponse \/ FailResponse
      BY <3>5 DEF IgnoreResponse, AcceptResponse, FailResponse, runner
    <3>6. CASE \E h \in handling : Acknowledged(h) \/ Issue(h) \/ Check(h) \/ Reply(h)
      BY <3>6 DEF Acknowledged, Issue, Check, Reply, runner
    <3> QED BY <3>1, <3>2, <3>3, <3>4, <3>5, <3>6, Zenon DEF Next
  <2>2. lease.generation # None
    <3>1. /\ Head(down).type = "lease" /\ Head(down).nonce = pending.nonce /\ down # <<>>
          /\ pending.generation = lease.generation
      BY <2>1 DEF AcceptResponse, Acceptable
    <3>2. Answered(Head(down))
      BY <3>1, RangeOfQueue DEF LeaseInv, LeaseTypes, Answers
    <3>3. pending.nonce # None BY <3>1, <3>2 DEF Answered, None
    <3> QED BY <3>1, <3>3 DEF LeaseInv, Allocation
  <2>3. served < snapshotNonce BY <2>1, <2>2 DEF LeaseInv, Order
  <2> QED BY <2>3 DEF LeaseInv, LeaseTypes
<1> QED BY <1>1, LeaseInvariant, PTL DEF Spec, NoRevival
=============================================================================
