------------------------- MODULE RateAdmissionProofs -------------------------
EXTENDS RateAdmission, QueueLemmas

-----------------------------------------------------------------------------
(***************************************************************************)
(* The inductive invariant.  WindowRespected looks at all starts of the    *)
(* past, the scripts only at what is left in the sorted sets: Counted says *)
(* that what matters for the next decision is still there.                 *)
(***************************************************************************)

(* RateTypeOK but for what a Retry-After is. *)
Types ==
    /\ clock \in 0 .. MaxTime /\ last \in 0 .. MaxTime
    /\ alive \subseteq Keys /\ digest \in Revisions \cup {NoRevision}
    /\ history \in [Budgets -> SUBSET Requests]
    /\ score \in [Requests -> -1 .. MaxTime]
    /\ wire \in [Requests -> {"none", "sent", "admitted", "limited", "unavailable"}]
    /\ pc \in [Requests -> {"new", "waiting", "started", "rejected", "failed"}]

(* A policy is provisioned at most once, and before it nothing is charged. *)
Provisioned ==
    /\ (\E v \in Revisions : ~Exists(v, alive)) => digest = NoRevision /\ alive = {}
    /\ digest = NoRevision => \A r \in Requests : score[r] = -1

(* Every start up to the last decision that lies in the window that ends    *)
(* there is in the sets of its budgets, which hold nothing else's starts.   *)
Counted ==
    /\ \A r \in Requests : score[r] <= last
    /\ \A b \in Budgets, r \in Requests :
         b \in Scope[r] /\ score[r] >= 0 /\ score[r] > last - Window => r \in history[b]
    /\ \A b \in Budgets : \A r \in history[b] : b \in Scope[r] /\ score[r] >= 0

(* What the client knows of its charge. *)
Answered ==
    \A r \in Requests :
        /\ pc[r] = "new" => wire[r] = "none"
        /\ wire[r] \in {"none", "sent"} => score[r] = -1
        /\ wire[r] = "admitted" => score[r] >= 0
        /\ pc[r] = "started" => score[r] >= 0

RateInv == Types /\ Provisioned /\ Counted /\ Answered /\ WindowRespected

-----------------------------------------------------------------------------
(* Before anything happened. *)
LEMMA RateInvInit == Init => RateInv
<1> SUFFICES ASSUME Init PROVE RateInv OBVIOUS
<1> USE RateAssumption DEF Init
<1>1. Types BY DEF Types, Keys
<1>2. Provisioned BY DEF Provisioned
<1>3. Counted BY DEF Counted
<1>4. Answered BY DEF Answered
<1>5. WindowRespected BY DEF WindowRespected
<1> QED BY <1>1, <1>2, <1>3, <1>4, <1>5 DEF RateInv

(* Steps that charge nothing and leave the policy and the sets alone keep   *)
(* everything that is said about starts.                                    *)
LEMMA ChargesUnchanged ==
    ASSUME RateInv, UNCHANGED <<digest, last, history, score>>
    PROVE  Counted' /\ WindowRespected'
BY DEF RateInv, Counted, WindowRespected, Charged

(* _PROVISION succeeds only where nothing was provisioned, so nothing was    *)
(* charged.                                                                 *)
LEMMA RateInvProvision ==
    ASSUME RateInv, NEW v \in Revisions, Provision(v)
    PROVE  RateInv'
<1> USE RateAssumption DEF RateInv, Provision
<1>1. \A r \in Requests : score[r] = -1 BY DEF Provisioned
<1>2. Types' BY DEF Types, Keys, StateKeys
<1>3. Provisioned' BY <1>1 DEF Provisioned, Exists, StateKeys, Types
<1>4. Counted' BY <1>1 DEF Counted
<1>5. Answered' BY DEF Answered
<1>6. WindowRespected'
  <2> SUFFICES ASSUME NEW b \in Budgets, NEW t \in 0 .. MaxTime
               PROVE  Cardinality(Charged(b, t - Window, t)') <= Limit[v][b]
    BY DEF WindowRespected
  <2>1. Charged(b, t - Window, t)' = {} BY <1>1 DEF Charged
  <2>2. Limit[v][b] \in Nat OBVIOUS
  <2>3. Cardinality(Charged(b, t - Window, t)') = 0 BY <2>1, FS_EmptySet, Zenon
  <2> QED BY <2>2, <2>3
<1> QED BY <1>2, <1>3, <1>4, <1>5, <1>6

(* An interrupted provisioning leaves keys and no digest. *)
LEMMA RateInvInterrupted ==
    ASSUME RateInv, NEW v \in Revisions, ProvisionInterrupted(v)
    PROVE  RateInv'
<1> USE RateAssumption DEF RateInv, ProvisionInterrupted
<1>1. Types' BY DEF Types, Keys
<1>2. Provisioned' BY DEF Provisioned, Exists, StateKeys
<1>3. Counted' /\ WindowRespected' BY ChargesUnchanged
<1>4. Answered' BY DEF Answered
<1> QED BY <1>1, <1>2, <1>3, <1>4

(* Evictions never take all of a policy's keys. *)
LEMMA RateInvEvict ==
    ASSUME RateInv, NEW k \in Keys, Evict(k)
    PROVE  RateInv'
<1> USE RateAssumption DEF RateInv, Evict
<1>1. Types' BY DEF Types
<1>2. Provisioned' BY DEF Provisioned
<1>3. Counted' /\ WindowRespected' BY ChargesUnchanged
<1>4. Answered' BY DEF Answered
<1> QED BY <1>1, <1>2, <1>3, <1>4

(* The clock appears in nothing that is said about starts. *)
LEMMA RateInvClock ==
    ASSUME RateInv, NEW t \in 0 .. MaxTime, SetClock(t)
    PROVE  RateInv'
<1> USE RateAssumption DEF RateInv, SetClock
<1>1. Types' BY DEF Types
<1>2. Provisioned' BY DEF Provisioned
<1>3. Counted' /\ WindowRespected' BY ChargesUnchanged
<1>4. Answered' BY DEF Answered
<1> QED BY <1>1, <1>2, <1>3, <1>4

(* The client's own steps: sending, receiving and giving up. *)
LEMMA RateInvClient ==
    ASSUME RateInv, NEW r \in Requests, Send(r) \/ EvalUnavailable(r) \/ Receive(r) \/ Timeout(r)
    PROVE  RateInv'
<1> USE DEF RateInv
<1>1. UNCHANGED redis BY DEF Send, EvalUnavailable, Receive, Timeout
<1>2. Types'
  <2>1. /\ wire' \in [Requests -> {"none", "sent", "admitted", "limited", "unavailable"}]
        /\ pc' \in [Requests -> {"new", "waiting", "started", "rejected", "failed"}]
    <3>1. CASE Send(r) \/ EvalUnavailable(r) \/ Timeout(r)
      BY <3>1 DEF Types, Send, EvalUnavailable, Timeout
    <3>2. CASE Receive(r)
      <4>1. PICK a \in {"started", "rejected", "failed"} : pc' = [pc EXCEPT ![r] = a] /\ wire' = wire
        BY <3>2 DEF Receive
      <4> QED BY <4>1 DEF Types
    <3> QED BY <3>1, <3>2
  <2> QED BY <1>1, <2>1 DEF Types, redis
<1>3. Provisioned' BY <1>1 DEF Provisioned, redis
<1>4. Counted' /\ WindowRespected' BY <1>1, ChargesUnchanged DEF redis
<1>5. Answered'
  <2>1. CASE Send(r) BY <2>1, <1>1 DEF Send, Answered, Types, redis
  <2>2. CASE EvalUnavailable(r) BY <2>2, <1>1 DEF EvalUnavailable, Answered, Types, redis
  <2>3. CASE Receive(r) BY <2>3, <1>1 DEF Receive, Answered, Types, redis
  <2>4. CASE Timeout(r) BY <2>4, <1>1 DEF Timeout, Answered, Types, redis
  <2> QED BY <2>1, <2>2, <2>3, <2>4
<1> QED BY <1>2, <1>3, <1>4, <1>5

(* A refused request only drops starts that have left the window. *)
LEMMA RateInvLimited ==
    ASSUME RateInv, NEW r \in Requests, EvalLimited(r)
    PROVE  RateInv'
<1> USE RateAssumption DEF RateInv, EvalLimited
<1>1. Types' BY DEF Types, Trimmed, Remaining
<1>2. Provisioned' BY DEF Provisioned
<1>3. clock >= last /\ clock \in Int /\ last \in Int /\ Window \in Int BY DEF Usable, Types
<1>4. \A q \in Requests : score[q] \in Int BY DEF Types
<1>5. Counted'
  <2>1. \A q \in Requests : score'[q] <= last' BY <1>3, <1>4 DEF Counted
  <2>2. ASSUME NEW b \in Budgets, NEW q \in Requests, b \in Scope[q],
               score[q] >= 0, score[q] > clock - Window
        PROVE  q \in Trimmed(r)[b]
    <3>1. score[q] > last - Window BY <1>3, <1>4, <2>2
    <3>2. q \in history[b] BY <2>2, <3>1 DEF Counted
    <3> QED BY <2>2, <3>2 DEF Trimmed, Remaining
  <2>3. \A b \in Budgets : history'[b] \subseteq history[b] BY DEF Trimmed, Remaining, Types
  <2> QED BY <2>1, <2>2, <2>3 DEF Counted
<1>6. Answered' BY DEF Answered, Types
<1>7. WindowRespected' BY DEF WindowRespected, Charged
<1> QED BY <1>1, <1>2, <1>5, <1>6, <1>7

(* The step that matters: a request is charged.  The windows that hold its  *)
(* start hold otherwise only what Remaining counted; the others are as they *)
(* were.                                                                    *)
LEMMA RateInvAdmitted ==
    ASSUME RateInv, NEW r \in Requests, EvalAdmitted(r)
    PROVE  RateInv'
<1> USE RateAssumption DEF RateInv
<1>1. /\ clock >= last /\ clock \in 0 .. MaxTime /\ last \in 0 .. MaxTime
      /\ MaxTime \in Nat /\ Window \in Nat
      /\ score \in [Requests -> -1 .. MaxTime] /\ history \in [Budgets -> SUBSET Requests]
      /\ digest = Revision[r] /\ digest \in Revisions /\ digest # NoRevision
      /\ score[r] = -1 /\ score' = [score EXCEPT ![r] = clock]
      /\ last' = clock /\ digest' = digest /\ alive' = alive
  <2>1. /\ clock \in 0 .. MaxTime /\ last \in 0 .. MaxTime
        /\ MaxTime \in Nat /\ Window \in Nat
        /\ score \in [Requests -> -1 .. MaxTime] /\ history \in [Budgets -> SUBSET Requests]
    BY DEF Types
  <2>2. /\ clock >= last /\ digest = Revision[r] BY DEF EvalAdmitted, Usable
  <2>3. digest \in Revisions /\ digest # NoRevision BY <2>2
  <2>4. score[r] = -1 BY DEF EvalAdmitted, Answered
  <2>5. /\ score' = [score EXCEPT ![r] = clock]
        /\ last' = clock /\ digest' = digest /\ alive' = alive
    BY DEF EvalAdmitted
  <2> QED BY <2>1, <2>2, <2>3, <2>4, <2>5
<1>2. \A q \in Requests : q # r => score'[q] = score[q] BY <1>1
<1>3. score'[r] = clock BY <1>1
<1>4. Types' BY <1>1 DEF Types, EvalAdmitted, Remaining
<1>5. Provisioned' BY <1>1 DEF Provisioned
<1>6. Counted'
  <2>1. \A q \in Requests : score'[q] <= last' BY <1>1, <1>2, <1>3 DEF Counted
  <2>2. ASSUME NEW b \in Budgets, NEW q \in Requests, b \in Scope[q],
               score'[q] >= 0, score'[q] > clock - Window
        PROVE  q \in history'[b]
    <3>1. CASE q = r BY <3>1, <2>2 DEF EvalAdmitted, Types
    <3>2. CASE q # r
      <4>1. score[q] >= 0 /\ score[q] > clock - Window BY <3>2, <2>2, <1>2
      <4>2. score[q] > last - Window BY <4>1, <1>1
      <4>3. q \in history[b] BY <2>2, <4>1, <4>2 DEF Counted
      <4> QED BY <2>2, <4>1, <4>3 DEF EvalAdmitted, Remaining
    <3> QED BY <3>1, <3>2
  <2>3. ASSUME NEW b \in Budgets, NEW q \in history'[b]
        PROVE  b \in Scope[q] /\ score'[q] >= 0
    <3>1. q \in history[b] \/ (q = r /\ b \in Scope[r])
      BY <2>3 DEF EvalAdmitted, Remaining
    <3>2. CASE q = r /\ b \in Scope[r] BY <3>2, <1>1, <1>3
    <3>3. CASE q \in history[b]
      <4>1. q \in Requests /\ b \in Scope[q] /\ score[q] >= 0 BY <3>3, <1>1 DEF Counted
      <4>2. q # r BY <4>1, <1>1
      <4> QED BY <4>1, <4>2, <1>2
    <3> QED BY <3>1, <3>2, <3>3
  <2> QED BY <2>1, <2>2, <2>3, <1>1 DEF Counted
<1>7. Answered'
  <2>1. clock >= 0 /\ wire' = [wire EXCEPT ![r] = "admitted"] /\ pc' = pc /\ wire[r] = "sent"
    BY <1>1 DEF EvalAdmitted
  <2> QED BY <2>1, <1>2, <1>3 DEF Answered, Types
<1>8. WindowRespected'
  <2> SUFFICES ASSUME NEW b \in Budgets, NEW t \in 0 .. MaxTime
               PROVE  Cardinality(Charged(b, t - Window, t)') <= Limit[digest][b]
    BY <1>1 DEF WindowRespected
  <2> DEFINE old == Charged(b, t - Window, t)
             new == Charged(b, t - Window, t)'
  <2>1. Cardinality(old) <= Limit[digest][b] BY <1>1 DEF WindowRespected
  <2>2. new = {q \in Requests : b \in Scope[q] /\ score'[q] > t - Window /\ score'[q] <= t /\ score'[q] >= 0}
    BY DEF Charged
  <2>3. old = {q \in Requests : b \in Scope[q] /\ score[q] > t - Window /\ score[q] <= t /\ score[q] >= 0}
    BY DEF Charged
  <2> HIDE DEF old, new
  <2>4. ASSUME r \notin new PROVE Cardinality(new) <= Limit[digest][b]
    <3>1. r \notin old BY <2>3, <1>1
    <3>2. \A q \in Requests : q # r => (q \in new <=> q \in old) BY <2>2, <2>3, <1>2
    <3>3. new \subseteq Requests /\ old \subseteq Requests BY <2>2, <2>3
    <3>5. \A q : q \in new <=> q \in old BY <2>4, <3>1, <3>2, <3>3, Zenon
    <3>4. new = old BY <3>5, Zenon
    <3> QED BY <3>4, <2>1
  <2>5. ASSUME r \in new PROVE Cardinality(new) <= Limit[digest][b]
    <3>1. b \in Scope[r] /\ clock > t - Window /\ clock <= t BY <2>5, <2>2, <1>3
    <3>2. new \subseteq Remaining(b) \cup {r}
      <4> SUFFICES ASSUME NEW q \in new, q # r PROVE q \in Remaining(b) OBVIOUS
      <4>1. q \in Requests /\ b \in Scope[q] /\ score[q] > t - Window /\ score[q] >= 0
        BY <2>2, <1>2
      <4>2. score[q] > clock - Window /\ score[q] > last - Window BY <4>1, <3>1, <1>1
      <4>3. q \in history[b] BY <4>1, <4>2 DEF Counted
      <4> QED BY <4>2, <4>3 DEF Remaining
    <3>3. Remaining(b) \subseteq Requests BY <1>1 DEF Remaining
    <3>4. IsFiniteSet(Remaining(b)) BY <3>3, FS_Subset
    <3>5. Cardinality(Remaining(b)) \in Nat BY <3>4, FS_CardinalityType
    <3>6. Limit[digest][b] \in Nat BY <1>1
    <3>7. Cardinality(Remaining(b)) < Limit[digest][b]
      BY <3>1, <3>5, <3>6 DEF EvalAdmitted, Full
    <3>8. IsFiniteSet(Remaining(b) \cup {r})
          /\ Cardinality(Remaining(b) \cup {r}) <= Cardinality(Remaining(b)) + 1
      <4>1. Cardinality(Remaining(b) \cup {r})
              = IF r \in Remaining(b) THEN Cardinality(Remaining(b)) ELSE Cardinality(Remaining(b)) + 1
        BY <3>4, FS_AddElement
      <4>2. IsFiniteSet(Remaining(b) \cup {r}) BY <3>4, FS_AddElement
      <4> QED BY <4>1, <4>2, <3>5
    <3>9. Cardinality(new) <= Cardinality(Remaining(b) \cup {r}) BY <3>2, <3>8, FS_Subset
    <3>10. IsFiniteSet(new) BY <3>2, <3>8, FS_Subset
    <3>11. Cardinality(new) \in Nat /\ Cardinality(Remaining(b) \cup {r}) \in Nat
      BY <3>8, <3>10, FS_CardinalityType
    <3> QED BY <3>5, <3>6, <3>7, <3>8, <3>9, <3>11
  <2> QED BY <2>4, <2>5 DEF new
<1> QED BY <1>4, <1>5, <1>6, <1>7, <1>8

(* Every step of the operator, the server and the clients keeps RateInv. *)
LEMMA RateInvNext == RateInv /\ [Next]_vars => RateInv'
<1> SUFFICES ASSUME RateInv, [Next]_vars PROVE RateInv' OBVIOUS
<1>1. ASSUME NEW v \in Revisions, Provision(v) PROVE RateInv' BY <1>1, RateInvProvision
<1>2. ASSUME NEW v \in Revisions, ProvisionInterrupted(v) PROVE RateInv' BY <1>2, RateInvInterrupted
<1>3. ASSUME NEW k \in Keys, Evict(k) PROVE RateInv' BY <1>3, RateInvEvict
<1>4. ASSUME NEW t \in 0 .. MaxTime, SetClock(t) PROVE RateInv' BY <1>4, RateInvClock
<1>5. ASSUME NEW r \in Requests, Attempt(r) PROVE RateInv'
  <2>1. CASE Send(r) \/ EvalUnavailable(r) \/ Receive(r) \/ Timeout(r) BY <2>1, RateInvClient
  <2>2. CASE EvalLimited(r) BY <2>2, RateInvLimited
  <2>3. CASE EvalAdmitted(r) BY <2>3, RateInvAdmitted
  <2> QED BY <1>5, <2>1, <2>2, <2>3 DEF Attempt
<1>6. CASE UNCHANGED vars
  <2>1. UNCHANGED <<clock, alive, digest, last, history, score, wire, pc>> BY <1>6 DEF vars, redis
  <2>2. Counted' /\ WindowRespected' BY <2>1, ChargesUnchanged
  <2>3. Types' /\ Provisioned' /\ Answered' BY <2>1 DEF RateInv, Types, Provisioned, Answered
  <2> QED BY <2>2, <2>3 DEF RateInv
<1> QED BY <1>1, <1>2, <1>3, <1>4, <1>5, <1>6 DEF Next

(* RateInv holds in every state the scripts and their clients can reach. *)
LEMMA RateInvAlways == Spec => []RateInv
BY RateInvInit, RateInvNext, PTL DEF Spec

-----------------------------------------------------------------------------
(* For every set of requests, budgets, policies, window length and clock,   *)
(* the admission scripts never let a window hold more starts of a budget    *)
(* than the provisioned policy allows.                                      *)
THEOREM WindowsRespected == Spec => []WindowRespected
<1>1. RateInv => WindowRespected BY DEF RateInv
<1> QED BY <1>1, RateInvAlways, PTL

(* A request that its Runner starts was charged, whatever was lost, late or *)
(* not understood (RedisRateAdmission.admit).                               *)
THEOREM StartsWereCharged == Spec => []StartedWasCharged
<1>1. RateInv => StartedWasCharged BY DEF RateInv, Answered, StartedWasCharged
<1> QED BY <1>1, RateInvAlways, PTL

-----------------------------------------------------------------------------
(* A full budget has a start to wait for, and one that expires first. *)
Oldest(b) == Min({score[q] : q \in Remaining(b)})

LEMMA OldestStart ==
    ASSUME RateInv, NEW r \in Requests, digest \in Revisions, NEW b \in Full(r)
    PROVE  /\ Oldest(b) \in 0 .. MaxTime
           /\ \E q \in Remaining(b) : score[q] = Oldest(b)
           /\ \A q \in Remaining(b) : Oldest(b) <= score[q]
<1> USE RateAssumption DEF RateInv
<1>1. /\ MaxTime \in Nat /\ score \in [Requests -> -1 .. MaxTime] /\ history \in [Budgets -> SUBSET Requests]
  BY DEF Types
<1> DEFINE starts == {score[q] : q \in Remaining(b)}
<1>2. b \in Budgets BY DEF Full
<1>3. Remaining(b) \subseteq Requests BY <1>1, <1>2 DEF Remaining
<1>4. \A q \in Remaining(b) : score[q] \in 0 .. MaxTime BY <1>1, <1>2, <1>3 DEF Remaining, Counted
<1>5. Remaining(b) # {}
  <2>1. Limit[digest][b] \in Nat \ {0} BY <1>2
  <2>2. Cardinality(Remaining(b)) >= Limit[digest][b] BY DEF Full
  <2>3. ~(0 >= Limit[digest][b]) BY <2>1
  <2>4. Remaining(b) = {} => Cardinality(Remaining(b)) = 0 BY FS_EmptySet, Zenon
  <2> QED BY <2>2, <2>3, <2>4
<1>6. starts \subseteq 0 .. MaxTime BY <1>4
<1>7. starts # {}
  <2>1. PICK q \in Remaining(b) : TRUE BY <1>5
  <2>2. score[q] \in starts OBVIOUS
  <2> QED BY <2>2
<1>8. starts \subseteq Nat BY <1>6
<1>9. Min(starts) \in starts /\ \A x \in starts : Min(starts) <= x BY <1>7, <1>8, MinOfNaturals
<1>10. Oldest(b) = Min(starts) BY DEF Oldest
<1>11. (\A x \in starts : \E q \in Remaining(b) : x = score[q]) /\ \A q \in Remaining(b) : score[q] \in starts
  OBVIOUS
<1> HIDE DEF starts
<1> QED BY <1>6, <1>9, <1>10, <1>11

(* When the budgets of a refused request have room again. *)
Frees(r) == Max({Oldest(b) : b \in Full(r)}) + Window

(* It is when the oldest start of one full budget expires, and no full      *)
(* budget has to wait for longer.                                           *)
LEMMA RetryIsAnInstant ==
    ASSUME RateInv, NEW r \in Requests, EvalLimited(r)
    PROVE  /\ Frees(r) \in Nat /\ digest \in Revisions
           /\ \E b \in Full(r) : Frees(r) = Oldest(b) + Window
           /\ \A b \in Full(r) : Oldest(b) + Window <= Frees(r)
<1> USE RateAssumption
<1>1. MaxTime \in Nat /\ Window \in Nat /\ digest \in Revisions BY DEF EvalLimited, Usable
<1> DEFINE oldest == {Oldest(b) : b \in Full(r)}
<1>2. \A b \in Full(r) : Oldest(b) \in 0 .. MaxTime BY <1>1, OldestStart
<1>3. oldest \subseteq 0 .. MaxTime BY <1>2
<1>4. oldest # {}
  <2>1. PICK b \in Full(r) : TRUE BY DEF EvalLimited
  <2>2. Oldest(b) \in oldest BY <2>1
  <2> QED BY <2>2
<1>5. Frees(r) = Max(oldest) + Window BY DEF Frees
<1>6. \A b \in Full(r) : Oldest(b) \in oldest OBVIOUS
<1>7. \A x \in oldest : \E b \in Full(r) : x = Oldest(b) OBVIOUS
<1> HIDE DEF oldest
<1>8. Max(oldest) \in oldest /\ \A x \in oldest : Max(oldest) >= x BY <1>1, <1>3, <1>4, MaxOfNaturals
<1>9. PICK m \in 0 .. MaxTime : m = Max(oldest) BY <1>3, <1>8
<1>10. Frees(r) \in Nat /\ Frees(r) = m + Window BY <1>1, <1>5, <1>9
<1>11. \E b \in Full(r) : Frees(r) = Oldest(b) + Window BY <1>7, <1>8, <1>9, <1>10
<1>12. \A b \in Full(r) : Oldest(b) + Window <= Frees(r) BY <1>1, <1>2, <1>6, <1>8, <1>9, <1>10
<1> QED BY <1>1, <1>10, <1>11, <1>12

(* The script's delay is the time until then. *)
LEMMA DelayUntilFree ==
    ASSUME RateInv, NEW r \in Requests, EvalLimited(r)
    PROVE  Delay(r) \in Nat \ {0} /\ Delay(r) = Frees(r) - clock
<1> USE RateAssumption
<1>1. clock \in 0 .. MaxTime /\ MaxTime \in Nat /\ Window \in Nat /\ digest \in Revisions
  BY RetryIsAnInstant DEF RateInv, Types
<1>2. Delay(r) = Frees(r) - clock
  <2>1. {Min({score[q] : q \in Remaining(b)}) : b \in Full(r)} = {Oldest(b) : b \in Full(r)} BY DEF Oldest
  <2> QED BY <2>1, Zenon DEF Delay, Frees
<1>3. PICK c \in Full(r) : Frees(r) = Oldest(c) + Window BY RetryIsAnInstant
<1>4. PICK q \in Remaining(c) : score[q] = Oldest(c) BY <1>1, OldestStart
<1>5. PICK m \in 0 .. MaxTime : m = Oldest(c) BY <1>1, OldestStart
<1>6. m > clock - Window BY <1>4, <1>5 DEF Remaining
<1>7. Frees(r) = m + Window BY <1>3, <1>5
<1>8. (m + Window) - clock \in Nat \ {0} BY <1>1, <1>6
<1> QED BY <1>2, <1>7, <1>8, Zenon

(* The conversion to whole seconds loses nothing, and adds less than one    *)
(* second where more than one is told.                                      *)
LEMMA SecondsFit ==
    ASSUME NEW d \in Nat \ {0}
    PROVE  /\ Seconds(d) \in Nat \ {0}
           /\ Second * Seconds(d) >= d
           /\ Seconds(d) = 1 \/ Second * Seconds(d) - Second < d
<1>1. Second \in Nat \ {0} BY RateAssumption
<1>2. PICK n \in Int : n = (d + Second - 1) \div Second BY <1>1
<1>3. n \in Nat \ {0} BY <1>1, <1>2
<1>4. Second * n >= d BY <1>1, <1>2
<1>5. Second * n - Second < d BY <1>1, <1>2
<1>6. Seconds(d) = n
  <2>1. Max({1, n}) \in {1, n} /\ \A x \in {1, n} : Max({1, n}) >= x
    <3>1. {1, n} \subseteq 0 .. n /\ {1, n} # {} BY <1>3
    <3> QED BY <1>3, <3>1, MaxOfNaturals
  <2>2. Max({1, n}) = n BY <1>3, <2>1
  <2> QED BY <1>2, <2>2 DEF Seconds
<1> QED BY <1>3, <1>4, <1>5, <1>6

(* What RateTypeOK says beside Types and Counted. *)
RetryTypes == retryAfter \in [Requests -> Nat]

(* Only a refusal writes a Retry-After. *)
LEMMA RetryTypesNext == RateInv /\ RetryTypes /\ [Next]_vars => RetryTypes'
<1> SUFFICES ASSUME RateInv, RetryTypes, [Next]_vars PROVE RetryTypes' OBVIOUS
<1>1. ASSUME NEW r \in Requests, EvalLimited(r) PROVE RetryTypes'
  <2>1. Seconds(Delay(r)) \in Nat BY <1>1, DelayUntilFree, SecondsFit
  <2> QED BY <1>1, <2>1 DEF RetryTypes, EvalLimited
<1>2. CASE UNCHANGED retryAfter BY <1>2 DEF RetryTypes
<1> QED BY <1>1, <1>2 DEF Next, Attempt, vars, Provision, ProvisionInterrupted, Evict, SetClock,
                          Send, EvalUnavailable, EvalAdmitted, Receive, Timeout

(* The policy hash, the sorted sets and the clients' states keep their      *)
(* types: a sorted set holds only starts that were charged to it.           *)
THEOREM RateTypeCorrect == Spec => []RateTypeOK
<1>1. Init => RetryTypes BY DEF Init, RetryTypes
<1>2. RateInv /\ RetryTypes => RateTypeOK BY DEF RateInv, Types, Counted, RetryTypes, RateTypeOK
<1> QED BY <1>1, <1>2, RateInvAlways, RetryTypesNext, PTL DEF Spec

-----------------------------------------------------------------------------
(* What is left of a budget is never more than its limit: it was all        *)
(* charged in the window that ends now.                                     *)
LEMMA RemainingWithinLimit ==
    ASSUME RateInv, digest \in Revisions, clock >= last, NEW b \in Budgets
    PROVE  /\ IsFiniteSet(Remaining(b)) /\ Cardinality(Remaining(b)) \in Nat
           /\ Limit[digest][b] \in Nat /\ Cardinality(Remaining(b)) <= Limit[digest][b]
<1> USE RateAssumption
<1>1. /\ clock \in 0 .. MaxTime /\ last \in 0 .. MaxTime /\ MaxTime \in Nat /\ Window \in Nat
      /\ score \in [Requests -> -1 .. MaxTime] /\ history \in [Budgets -> SUBSET Requests]
  BY DEF RateInv, Types
<1>2. Remaining(b) \subseteq Charged(b, clock - Window, clock)
  <2> SUFFICES ASSUME NEW q \in Remaining(b) PROVE q \in Charged(b, clock - Window, clock) OBVIOUS
  <2>1. q \in history[b] /\ q \in Requests /\ score[q] > clock - Window BY <1>1 DEF Remaining
  <2>2. b \in Scope[q] /\ score[q] >= 0 /\ score[q] <= last BY <2>1 DEF RateInv, Counted
  <2>3. score[q] <= clock BY <1>1, <2>1, <2>2
  <2> QED BY <2>1, <2>2, <2>3 DEF Charged
<1>3. Charged(b, clock - Window, clock) \subseteq Requests BY DEF Charged
<1>4. IsFiniteSet(Charged(b, clock - Window, clock)) BY <1>3, FS_Subset
<1>5. /\ IsFiniteSet(Remaining(b))
      /\ Cardinality(Remaining(b)) <= Cardinality(Charged(b, clock - Window, clock))
  BY <1>2, <1>4, FS_Subset
<1>6. Cardinality(Charged(b, clock - Window, clock)) <= Limit[digest][b]
  BY <1>1 DEF RateInv, WindowRespected
<1>7. Cardinality(Remaining(b)) \in Nat /\ Cardinality(Charged(b, clock - Window, clock)) \in Nat
  BY <1>4, <1>5, FS_CardinalityType
<1>8. Limit[digest][b] \in Nat OBVIOUS
<1> QED BY <1>5, <1>6, <1>7, <1>8

(* From then on every budget of the request has room. *)
LEMMA RetryIsLateEnough ==
    ASSUME RateInv, NEW r \in Requests, EvalLimited(r), NEW b \in Scope[r], NEW R \in Nat, Frees(r) <= R
    PROVE  Cardinality(Starts(b, R)) < Limit[digest][b]
<1> USE RateAssumption
<1>1. /\ clock \in 0 .. MaxTime /\ MaxTime \in Nat /\ Window \in Nat /\ clock >= last
      /\ score \in [Requests -> -1 .. MaxTime] /\ history \in [Budgets -> SUBSET Requests] /\ b \in Budgets
  BY DEF RateInv, Types, EvalLimited, Usable
<1>2. digest \in Revisions BY RetryIsAnInstant
<1>3. PICK F \in Nat : F = Frees(r) /\ F <= R BY RetryIsAnInstant
<1>4. R - Window > clock - Window
  <2>1. PICK c \in Full(r) : F = Oldest(c) + Window BY <1>3, RetryIsAnInstant
  <2>2. PICK q \in Remaining(c) : score[q] = Oldest(c) BY <1>2, OldestStart
  <2>3. Oldest(c) \in 0 .. MaxTime /\ Oldest(c) > clock - Window BY <1>2, <2>2, OldestStart DEF Remaining
  <2>4. PICK m \in 0 .. MaxTime : m = Oldest(c) BY <2>3
  <2> QED BY <1>1, <1>3, <2>1, <2>3, <2>4
<1>5. Starts(b, R) \subseteq Remaining(b)
  <2> SUFFICES ASSUME NEW q \in Starts(b, R) PROVE q \in Remaining(b) OBVIOUS
  <2>1. q \in history[b] /\ score[q] > R - Window BY DEF Starts
  <2>2. score[q] \in -1 .. MaxTime BY <1>1, <2>1
  <2>3. score[q] > clock - Window BY <1>1, <1>4, <2>1, <2>2
  <2> QED BY <2>1, <2>3 DEF Remaining
<1>6. /\ IsFiniteSet(Remaining(b)) /\ Cardinality(Remaining(b)) \in Nat
      /\ Limit[digest][b] \in Nat /\ Cardinality(Remaining(b)) <= Limit[digest][b]
  BY <1>1, <1>2, RemainingWithinLimit
<1>7. CASE b \in Full(r)
  <2>1. PICK q \in Remaining(b) : score[q] = Oldest(b) BY <1>2, <1>7, OldestStart
  <2>0. Oldest(b) + Window <= F /\ Oldest(b) \in 0 .. MaxTime BY <1>2, <1>3, <1>7, OldestStart, RetryIsAnInstant
  <2>2. Oldest(b) + Window <= R /\ Oldest(b) \in 0 .. MaxTime BY <1>1, <1>3, <2>0
  <2>3. ~(score[q] > R - Window) BY <1>1, <2>1, <2>2
  <2>4. Starts(b, R) \subseteq Remaining(b) \ {q} BY <1>5, <2>3 DEF Starts
  <2>5. Cardinality(Remaining(b) \ {q}) = Cardinality(Remaining(b)) - 1 /\ Cardinality(Remaining(b)) >= 1
    BY <1>6, CardinalityRemove
  <2>6. IsFiniteSet(Remaining(b) \ {q}) BY <1>6, FS_Subset
  <2>7. IsFiniteSet(Starts(b, R)) /\ Cardinality(Starts(b, R)) <= Cardinality(Remaining(b) \ {q})
    BY <2>4, <2>6, FS_Subset
  <2>8. Cardinality(Starts(b, R)) \in Nat BY <2>7, FS_CardinalityType
  <2> QED BY <1>3, <1>6, <2>5, <2>7, <2>8
<1>8. CASE b \notin Full(r)
  <2>1. Cardinality(Remaining(b)) < Limit[digest][b] BY <1>6, <1>8 DEF Full
  <2>2. IsFiniteSet(Starts(b, R)) /\ Cardinality(Starts(b, R)) <= Cardinality(Remaining(b))
    BY <1>5, <1>6, FS_Subset
  <2>3. Cardinality(Starts(b, R)) \in Nat BY <2>2, FS_CardinalityType
  <2> QED BY <1>3, <1>6, <2>1, <2>2, <2>3
<1> QED BY <1>7, <1>8

(* At any time before some budget has not. *)
LEMMA RetryIsNotTooLate ==
    ASSUME RateInv, NEW r \in Requests, EvalLimited(r), NEW n \in Int, n < Frees(r)
    PROVE  \E b \in Scope[r] : Cardinality(Starts(b, n)) >= Limit[digest][b]
<1> USE RateAssumption
<1>1. /\ MaxTime \in Nat /\ Window \in Nat /\ clock >= last
      /\ score \in [Requests -> -1 .. MaxTime] /\ history \in [Budgets -> SUBSET Requests]
  BY DEF RateInv, Types, EvalLimited, Usable
<1>2. digest \in Revisions BY RetryIsAnInstant
<1>3. PICK b \in Full(r) : Frees(r) = Oldest(b) + Window BY RetryIsAnInstant
<1>4. b \in Scope[r] /\ b \in Budgets BY DEF Full
<1>5. PICK m \in 0 .. MaxTime : m = Oldest(b) BY <1>2, OldestStart
<1>6. n - Window < m BY <1>1, <1>3, <1>5
<1>7. Remaining(b) \subseteq Starts(b, n)
  <2> SUFFICES ASSUME NEW q \in Remaining(b) PROVE q \in Starts(b, n) OBVIOUS
  <2>1. q \in history[b] /\ score[q] \in -1 .. MaxTime BY <1>1, <1>4 DEF Remaining
  <2>2. m <= score[q] BY <1>2, <1>5, OldestStart
  <2>3. score[q] > n - Window BY <1>6, <2>1, <2>2
  <2> QED BY <2>1, <2>3 DEF Starts
<1>8. IsFiniteSet(Starts(b, n))
  <2>1. Starts(b, n) \subseteq Requests BY <1>1, <1>4 DEF Starts
  <2> QED BY <2>1, FS_Subset
<1>9. Cardinality(Remaining(b)) <= Cardinality(Starts(b, n)) BY <1>7, <1>8, FS_Subset
<1>10. Cardinality(Remaining(b)) \in Nat /\ Cardinality(Starts(b, n)) \in Nat /\ Limit[digest][b] \in Nat
  BY <1>1, <1>2, <1>4, <1>8, RemainingWithinLimit, FS_CardinalityType
<1>11. Cardinality(Remaining(b)) >= Limit[digest][b] BY DEF Full
<1>12. Cardinality(Starts(b, n)) >= Limit[digest][b] BY <1>9, <1>10, <1>11
<1> QED BY <1>4, <1>12

(* The Retry-After of a refusal, in the whole seconds the client is told,   *)
(* is long enough and not a second too long for every scope, policy, window *)
(* length and unit of time (_ADMIT, _ADMIT_GROUP and admit).                *)
THEOREM RetryAfterIsTight == Spec => RetryIsTight
<1> DEFINE At(r) == clock + Second * retryAfter'[r]
<1>1. ASSUME RateInv, [Next]_vars, NEW r \in Requests, wire[r] = "sent", wire'[r] = "limited", RetryTypes
      PROVE  /\ \A b \in Scope[r] : Cardinality(Starts(b, At(r))) < Limit[digest][b]
             /\ \/ retryAfter'[r] = 1
                \/ \E b \in Scope[r] : Cardinality(Starts(b, At(r) - Second)) >= Limit[digest][b]
  <2>1. EvalLimited(r)
    <3>1. wire \in [Requests -> {"none", "sent", "admitted", "limited", "unavailable"}] BY <1>1 DEF RateInv, Types
    <3>2. ~UNCHANGED wire BY <1>1
    <3>3. PICK q \in Requests : Attempt(q)
      BY <1>1, <3>2 DEF Next, vars, Provision, ProvisionInterrupted, Evict, SetClock
    <3>4. CASE EvalLimited(q) BY <1>1, <3>1, <3>4 DEF EvalLimited
    <3>5. CASE Send(q) \/ EvalUnavailable(q) \/ EvalAdmitted(q) BY <1>1, <3>1, <3>5 DEF Send, EvalUnavailable, EvalAdmitted
    <3>6. CASE Receive(q) \/ Timeout(q) BY <3>2, <3>6 DEF Receive, Timeout
    <3> QED BY <3>3, <3>4, <3>5, <3>6 DEF Attempt
  <2>2. PICK d \in Nat \ {0} : d = Delay(r) BY <1>1, <2>1, DelayUntilFree
  <2>3. PICK n \in Nat \ {0} : n = Seconds(d) BY SecondsFit
  <2>4. retryAfter'[r] = n BY <1>1, <2>1, <2>2, <2>3 DEF EvalLimited, RetryTypes
  <2>5. /\ clock \in Nat /\ Second \in Nat /\ Frees(r) \in Nat /\ d = Frees(r) - clock
    BY <1>1, <2>1, <2>2, RetryIsAnInstant, DelayUntilFree, RateAssumption DEF RateInv, Types
  <2>6. PICK k \in Nat : k = Second * n BY <2>5
  <2>7. k >= d /\ (n = 1 \/ k - Second < d) BY <2>3, <2>6, SecondsFit
  <2>8. At(r) = clock + k BY <2>4, <2>6
  <2>9. clock + k \in Nat /\ Frees(r) <= clock + k BY <2>5, <2>6, <2>7
  <2>10. \A b \in Scope[r] : Cardinality(Starts(b, clock + k)) < Limit[digest][b]
    BY <1>1, <2>1, <2>9, RetryIsLateEnough
  <2>11. n # 1 => (clock + k) - Second \in Int /\ (clock + k) - Second < Frees(r) BY <2>5, <2>6, <2>7
  <2>12. n # 1 => \E b \in Scope[r] : Cardinality(Starts(b, (clock + k) - Second)) >= Limit[digest][b]
    BY <1>1, <2>1, <2>11, RetryIsNotTooLate
  <2> HIDE DEF At
  <2>13. \A b \in Scope[r] : Cardinality(Starts(b, At(r))) < Limit[digest][b] BY <2>8, <2>10, Zenon
  <2>14. n # 1 => \E b \in Scope[r] : Cardinality(Starts(b, At(r) - Second)) >= Limit[digest][b] BY <2>8, <2>12, Zenon
  <2> QED BY <2>4, <2>13, <2>14, Zenon
<1>2. RateInv /\ RetryTypes /\ [Next]_vars =>
        [\A r \in Requests :
           wire[r] = "sent" /\ wire'[r] = "limited" =>
             /\ \A b \in Scope[r] : Cardinality(Starts(b, At(r))) < Limit[digest][b]
             /\ \/ retryAfter'[r] = 1
                \/ \E b \in Scope[r] : Cardinality(Starts(b, At(r) - Second)) >= Limit[digest][b]]_vars
  BY <1>1
<1>3. Init => RetryTypes BY DEF Init, RetryTypes
<1> QED BY <1>2, <1>3, RateInvAlways, RetryTypesNext, PTL DEF Spec, RetryIsTight
=============================================================================
