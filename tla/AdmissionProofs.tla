-------------------------- MODULE AdmissionProofs --------------------------
(***************************************************************************)
(* Theorems about project admission, and about the endpoint admission that *)
(* is built on it, for every set of projects and requests and all limits.  *)
(***************************************************************************)
EXTENDS EndpointAdmission, QueueLemmas

-----------------------------------------------------------------------------
(* The element at position k taken out and those before it moved behind    *)
(* those after it: what the rotations of _dispatch_locked leave.           *)
LEMMA RotateOutOfQueue ==
    ASSUME NEW S, NEW s \in Seq(S), NEW k \in DOMAIN s, IsInjective(s)
    PROVE  /\ RotateOut(s, k) \in Seq(S)
           /\ IsInjective(RotateOut(s, k))
           /\ Range(RotateOut(s, k)) = Range(s) \ {s[k]}
           /\ Len(RotateOut(s, k)) = Len(s) - 1
<1>1. PICK n \in Nat : n = Len(s) /\ DOMAIN s = 1..n OBVIOUS
<1>2. k \in 1..n /\ DOMAIN s = 1..n /\ k \in Int BY <1>1
<1>3. PICK u : u = SubSeq(s, k + 1, n) OBVIOUS
<1>4. PICK v : v = SubSeq(s, 1, k - 1) OBVIOUS
<1>5. /\ u \in Seq(S) /\ Len(u) = n - k
      /\ \A i \in 1..(n - k) : u[i] = s[i + k]
  <2>1. k \in Nat /\ k <= n /\ n <= Len(s) BY <1>1, <1>2
  <2> QED BY <1>3, <2>1, SliceAfter, Zenon
<1>6. /\ v \in Seq(S) /\ Len(v) = k - 1
      /\ \A i \in 1..(k - 1) : v[i] = s[i]
  <2>1. k - 1 \in Nat /\ k - 1 <= Len(s) BY <1>1, <1>2
  <2> QED BY <1>4, <2>1, SliceBefore, Zenon
<1>7. PICK t : t = u \o v OBVIOUS
<1>a. RotateOut(s, k) = t BY <1>1, <1>3, <1>4, <1>7 DEF RotateOut
<1>8. /\ t \in Seq(S) /\ Len(t) = n - 1 /\ DOMAIN t = 1..(n - 1)
      /\ \A i \in 1..(n - 1) : t[i] = IF i <= n - k THEN s[i + k] ELSE s[i - (n - k)]
  <2>1. /\ t \in Seq(S)
        /\ Len(t) = (n - k) + (k - 1)
        /\ \A i \in 1..((n - k) + (k - 1)) : t[i] = IF i <= n - k THEN u[i] ELSE v[i - (n - k)]
    <3>1. /\ t \in Seq(S)
          /\ Len(t) = Len(u) + Len(v)
          /\ \A i \in 1..(Len(u) + Len(v)) : t[i] = IF i <= Len(u) THEN u[i] ELSE v[i - Len(u)]
      BY <1>5, <1>6, <1>7, ConcatProperties, Zenon
    <3> QED BY <3>1, <1>5, <1>6
  <2>2. (n - k) + (k - 1) = n - 1 BY <1>2
  <2>4. DOMAIN t = 1..(n - 1) BY <2>1, <2>2
  <2>5. ASSUME NEW i \in 1..(n - 1)
        PROVE  t[i] = IF i <= n - k THEN s[i + k] ELSE s[i - (n - k)]
    <3>1. i \in 1..((n - k) + (k - 1)) BY <2>2
    <3>2. t[i] = IF i <= n - k THEN u[i] ELSE v[i - (n - k)] BY <2>1, <3>1
    <3>3. CASE i <= n - k
      <4>1. i \in 1..(n - k) BY <3>3, <1>2
      <4> QED BY <3>2, <3>3, <4>1, <1>5
    <3>4. CASE ~(i <= n - k)
      <4>1. i - (n - k) \in 1..(k - 1) BY <3>4, <1>2
      <4> QED BY <3>2, <3>4, <4>1, <1>6
    <3> QED BY <3>3, <3>4
  <2> QED BY <2>1, <2>2, <2>4, <2>5
<1>9. IsInjective(t)
  <2> SUFFICES ASSUME NEW i \in 1..(n - 1), NEW j \in 1..(n - 1), t[i] = t[j]
               PROVE  i = j
    BY <1>8 DEF IsInjective
  <2>1. PICK x \in 1..n : x = (IF i <= n - k THEN i + k ELSE i - (n - k)) BY <1>2
  <2>2. PICK y \in 1..n : y = (IF j <= n - k THEN j + k ELSE j - (n - k)) BY <1>2
  <2>3. s[x] = s[y] BY <2>1, <2>2, <1>8
  <2>4. x = y BY <2>3, <1>2 DEF IsInjective
  <2> QED BY <2>1, <2>2, <2>4, <1>2
<1>10. Range(t) \subseteq Range(s) \ {s[k]}
  <2> SUFFICES ASSUME NEW i \in 1..(n - 1) PROVE t[i] \in Range(s) \ {s[k]}
    BY <1>8 DEF Range
  <2>1. PICK x \in 1..n : x = (IF i <= n - k THEN i + k ELSE i - (n - k)) BY <1>2
  <2>2. x # k BY <2>1, <1>2
  <2>3. t[i] = s[x] BY <2>1, <1>8
  <2> QED BY <2>2, <2>3, <1>2 DEF Range, IsInjective
<1>11. ASSUME NEW x \in Range(s) \ {s[k]} PROVE x \in Range(t)
  <2>1. PICK i \in 1..n : s[i] = x /\ i # k BY <1>2, <1>11 DEF Range
  <2>2. PICK j \in 1..(n - 1) : j = (IF i > k THEN i - k ELSE i + (n - k)) BY <2>1, <1>2
  <2>3. (IF j <= n - k THEN j + k ELSE j - (n - k)) = i BY <2>1, <2>2, <1>2
  <2>4. t[j] = s[i] BY <2>3, <1>8
  <2> QED BY <2>1, <2>4, <1>8 DEF Range
<1> QED BY <1>a, <1>1, <1>8, <1>9, <1>10, <1>11

-----------------------------------------------------------------------------
(***************************************************************************)
(* The inductive invariant.  _dispatch_locked starts from bookkeeping that *)
(* is in the middle of an operation, so the invariant is a predicate on    *)
(* values: Books holds of the variables between operations and of the      *)
(* arguments of Dispatch inside them.                                      *)
(***************************************************************************)
HoldingIn(pcv, gr, r) ==
    pcv[r] = "holding" \/ (pcv[r] \in {"queued", "cancelling"} /\ gr[r])

LiningIn(pcv, gr, r) == pcv[r] \in {"queued", "cancelling"} /\ ~gr[r]

HoldersIn(pcv, gr) == {r \in Requests : HoldingIn(pcv, gr, r)}

HoldersOfIn(pcv, gr, prv, p) == {r \in Requests : HoldingIn(pcv, gr, r) /\ prv[r] = p}

LineIn(pcv, gr) == {r \in Requests : LiningIn(pcv, gr, r)}

LineOfIn(pcv, gr, prv, p) == {r \in Requests : LiningIn(pcv, gr, r) /\ prv[r] = p}

Typed(act, total, wait, rr, q, gr, pcv, prv) ==
    /\ act \in [Projects -> Nat]
    /\ total \in Nat
    /\ wait \in [Projects -> Seq(Requests)]
    /\ rr \in Seq(Projects)
    /\ q \in Nat
    /\ gr \in [Requests -> BOOLEAN]
    /\ pcv \in [Requests -> Location]
    /\ prv \in [Requests -> Projects]

Slots(act, total, gr, pcv, prv) ==
    /\ total = Cardinality(HoldersIn(pcv, gr))
    /\ \A p \in Projects : act[p] = Cardinality(HoldersOfIn(pcv, gr, prv, p))
    /\ total <= Capacity
    /\ \A p \in Projects : act[p] <= Limit[p]

Queues(wait, rr, q, gr, pcv, prv) ==
    /\ IsInjective(rr)
    /\ Range(rr) = {p \in Projects : wait[p] # <<>>}
    /\ \A p \in Projects : /\ IsInjective(wait[p])
                            /\ Range(wait[p]) = LineOfIn(pcv, gr, prv, p)
                            /\ Len(wait[p]) <= MaxQueuedPerProject
    /\ q = Cardinality(LineIn(pcv, gr))
    /\ q <= MaxQueued

Books(act, total, wait, rr, q, gr, pcv, prv) ==
    /\ Typed(act, total, wait, rr, q, gr, pcv, prv)
    /\ Slots(act, total, gr, pcv, prv)
    /\ Queues(wait, rr, q, gr, pcv, prv)
    /\ \A r \in Requests : gr[r] => pcv[r] \in {"queued", "cancelling"}

LEMMA FiniteRequests ==
    ASSUME NEW pcv, NEW gr, NEW prv
    PROVE  /\ IsFiniteSet(HoldersIn(pcv, gr))
           /\ IsFiniteSet(LineIn(pcv, gr))
           /\ \A p : IsFiniteSet(HoldersOfIn(pcv, gr, prv, p))
<1> QED BY FiniteAssumption, FS_Subset DEF HoldersIn, LineIn, HoldersOfIn

(* One slot given back by its holder: _release_locked before it dispatches. *)
LEMMA FreeSlot ==
    ASSUME NEW act, NEW total, NEW wait, NEW rr, NEW q, NEW gr, NEW pcv, NEW prv,
           Books(act, total, wait, rr, q, gr, pcv, prv),
           NEW r \in Requests, HoldingIn(pcv, gr, r),
           NEW to \in {"idle", "released"}
    PROVE  /\ Books([act EXCEPT ![prv[r]] = @ - 1], total - 1, wait, rr, q,
                    [gr EXCEPT ![r] = FALSE], [pcv EXCEPT ![r] = to], prv)
           /\ total >= 1 /\ act[prv[r]] >= 1
<1>1. PICK p \in Projects : p = prv[r] BY DEF Books, Typed
<1>2. PICK act2 : act2 = [act EXCEPT ![prv[r]] = @ - 1] OBVIOUS
<1>3. PICK gr2 : gr2 = [gr EXCEPT ![r] = FALSE] OBVIOUS
<1>4. PICK pcv2 : pcv2 = [pcv EXCEPT ![r] = to] OBVIOUS
<1>5. ASSUME NEW s \in Requests
      PROVE  /\ HoldingIn(pcv2, gr2, s) <=> (HoldingIn(pcv, gr, s) /\ s # r)
             /\ LiningIn(pcv2, gr2, s) <=> LiningIn(pcv, gr, s)
             /\ gr2[s] => gr[s] /\ s # r
             /\ s # r => pcv2[s] = pcv[s]
  BY <1>3, <1>4 DEF Books, Typed, HoldingIn, LiningIn
<1>6. /\ HoldersIn(pcv2, gr2) = HoldersIn(pcv, gr) \ {r}
      /\ r \in HoldersIn(pcv, gr)
      /\ HoldersOfIn(pcv2, gr2, prv, p) = HoldersOfIn(pcv, gr, prv, p) \ {r}
      /\ r \in HoldersOfIn(pcv, gr, prv, p)
      /\ LineIn(pcv2, gr2) = LineIn(pcv, gr)
  BY <1>1, <1>5 DEF HoldersIn, HoldersOfIn, LineIn
<1>7. \A z \in Projects : z # p => HoldersOfIn(pcv2, gr2, prv, z) = HoldersOfIn(pcv, gr, prv, z)
  BY <1>1, <1>5 DEF HoldersOfIn
<1>8. \A z \in Projects : LineOfIn(pcv2, gr2, prv, z) = LineOfIn(pcv, gr, prv, z)
  BY <1>5 DEF LineOfIn
<1>9. /\ total >= 1 /\ total - 1 = Cardinality(HoldersIn(pcv2, gr2))
      /\ act[p] >= 1 /\ act[p] - 1 = Cardinality(HoldersOfIn(pcv2, gr2, prv, p))
  BY <1>6, CardinalityRemove, FiniteRequests DEF Books, Slots
<1>10. Typed(act2, total - 1, wait, rr, q, gr2, pcv2, prv)
  BY <1>1, <1>2, <1>3, <1>4, <1>9 DEF Books, Typed, Location
<1>11. Slots(act2, total - 1, gr2, pcv2, prv)
  <2>1. /\ act2[p] = act[p] - 1 /\ \A z \in Projects : z # p => act2[z] = act[z]
        /\ \A z \in Projects : act[z] \in Nat /\ Limit[z] \in Nat
        /\ total \in Nat /\ Capacity \in Nat
    BY <1>1, <1>2, ConfigurationAssumption DEF Books, Typed
  <2>2. \A z \in Projects : act2[z] = Cardinality(HoldersOfIn(pcv2, gr2, prv, z))
    BY <2>1, <1>7, <1>9 DEF Books, Slots
  <2>3. total - 1 <= Capacity /\ \A z \in Projects : act2[z] <= Limit[z]
    BY <2>1, <1>9 DEF Books, Slots
  <2> QED BY <2>2, <2>3, <1>7, <1>9 DEF Slots
<1>12. Queues(wait, rr, q, gr2, pcv2, prv)
  BY <1>6, <1>8 DEF Books, Queues
<1>13. \A s \in Requests : gr2[s] => pcv2[s] \in {"queued", "cancelling"}
  BY <1>5 DEF Books
<1>14. Books(act2, total - 1, wait, rr, q, gr2, pcv2, prv)
  BY <1>10, <1>11, <1>12, <1>13 DEF Books
<1> QED BY <1>1, <1>2, <1>3, <1>4, <1>9, <1>14

(* A free slot taken: acquire() on its fast path. *)
LEMMA TakeSlot ==
    ASSUME NEW act, NEW total, NEW wait, NEW rr, NEW q, NEW gr, NEW pcv, NEW prv,
           Books(act, total, wait, rr, q, gr, pcv, prv),
           NEW r \in Requests, pcv[r] = "idle", NEW p \in Projects, CanGrant(act, total, p)
    PROVE  Books([act EXCEPT ![p] = @ + 1], total + 1, wait, rr, q, gr,
                 [pcv EXCEPT ![r] = "holding"], [prv EXCEPT ![r] = p])
<1>2. PICK act2 : act2 = [act EXCEPT ![p] = @ + 1] OBVIOUS
<1>3. PICK prv2 : prv2 = [prv EXCEPT ![r] = p] OBVIOUS
<1>4. PICK pcv2 : pcv2 = [pcv EXCEPT ![r] = "holding"] OBVIOUS
<1>5. ASSUME NEW s \in Requests
      PROVE  /\ HoldingIn(pcv2, gr, s) <=> (HoldingIn(pcv, gr, s) \/ s = r)
             /\ LiningIn(pcv2, gr, s) <=> LiningIn(pcv, gr, s)
             /\ gr[s] => s # r
             /\ s # r => pcv2[s] = pcv[s] /\ prv2[s] = prv[s]
             /\ ~HoldingIn(pcv, gr, r) /\ ~LiningIn(pcv, gr, r)
             /\ prv2[r] = p
  BY <1>3, <1>4 DEF Books, Typed, HoldingIn, LiningIn
<1>6. /\ HoldersIn(pcv2, gr) = HoldersIn(pcv, gr) \cup {r}
      /\ r \notin HoldersIn(pcv, gr)
      /\ HoldersOfIn(pcv2, gr, prv2, p) = HoldersOfIn(pcv, gr, prv, p) \cup {r}
      /\ r \notin HoldersOfIn(pcv, gr, prv, p)
      /\ LineIn(pcv2, gr) = LineIn(pcv, gr)
  BY <1>5 DEF HoldersIn, HoldersOfIn, LineIn
<1>7. \A z \in Projects : z # p => HoldersOfIn(pcv2, gr, prv2, z) = HoldersOfIn(pcv, gr, prv, z)
  BY <1>5 DEF HoldersOfIn
<1>8. \A z \in Projects : LineOfIn(pcv2, gr, prv2, z) = LineOfIn(pcv, gr, prv, z)
  BY <1>5 DEF LineOfIn
<1>9. /\ total + 1 = Cardinality(HoldersIn(pcv2, gr))
      /\ act[p] + 1 = Cardinality(HoldersOfIn(pcv2, gr, prv2, p))
  BY <1>6, CardinalityAdd, FiniteRequests DEF Books, Slots
<1>10. Typed(act2, total + 1, wait, rr, q, gr, pcv2, prv2)
  BY <1>2, <1>3, <1>4 DEF Books, Typed, Location
<1>11. Slots(act2, total + 1, gr, pcv2, prv2)
  <2>1. /\ act2[p] = act[p] + 1 /\ \A z \in Projects : z # p => act2[z] = act[z]
        /\ \A z \in Projects : act[z] \in Nat /\ Limit[z] \in Nat
        /\ total \in Nat /\ Capacity \in Nat
    BY <1>2, ConfigurationAssumption DEF Books, Typed
  <2>2. \A z \in Projects : act2[z] = Cardinality(HoldersOfIn(pcv2, gr, prv2, z))
    BY <2>1, <1>7, <1>9 DEF Books, Slots
  <2>3. total + 1 <= Capacity /\ \A z \in Projects : act2[z] <= Limit[z]
    BY <2>1, <1>9 DEF Books, Slots, CanGrant
  <2> QED BY <2>2, <2>3, <1>7, <1>9 DEF Slots
<1>12. Queues(wait, rr, q, gr, pcv2, prv2)
  BY <1>6, <1>8 DEF Books, Queues
<1>13. \A s \in Requests : gr[s] => pcv2[s] \in {"queued", "cancelling"}
  BY <1>5 DEF Books
<1>14. Books(act2, total + 1, wait, rr, q, gr, pcv2, prv2)
  BY <1>10, <1>11, <1>12, <1>13 DEF Books
<1> QED BY <1>2, <1>3, <1>4, <1>14

(* A grant to the head of the queue of the project at position k. *)
LEMMA GrantHead ==
    ASSUME NEW act, NEW total, NEW wait, NEW rr, NEW q, NEW gr, NEW pcv, NEW prv,
           Books(act, total, wait, rr, q, gr, pcv, prv),
           NEW k \in Eligible(act, total, rr)
    PROVE  Books([act EXCEPT ![rr[k]] = @ + 1], total + 1,
                 [wait EXCEPT ![rr[k]] = Tail(@)],
                 IF Len(wait[rr[k]]) = 1 THEN RotateOut(rr, k) ELSE Append(RotateOut(rr, k), rr[k]),
                 q - 1, [gr EXCEPT ![Head(wait[rr[k]])] = TRUE], pcv, prv)
<1>1. PICK p \in Projects : p = rr[k] /\ CanGrant(act, total, p) /\ wait[p] # <<>> /\ p \in Range(rr)
  <2>1. k \in DOMAIN rr /\ rr[k] \in Projects /\ CanGrant(act, total, rr[k])
    BY DEF Eligible, Books, Typed
  <2> QED BY <2>1 DEF Books, Queues, Range
<1>2. /\ wait[p] \in Seq(Requests) /\ IsInjective(wait[p])
      /\ Range(wait[p]) = LineOfIn(pcv, gr, prv, p)
  BY DEF Books, Typed, Queues
<1>3. PICK r : r = Head(wait[p]) OBVIOUS
<1>4. /\ Tail(wait[p]) \in Seq(Requests) /\ IsInjective(Tail(wait[p]))
      /\ Range(Tail(wait[p])) = LineOfIn(pcv, gr, prv, p) \ {r}
      /\ r \in LineOfIn(pcv, gr, prv, p)
      /\ Len(Tail(wait[p])) = Len(wait[p]) - 1
  BY <1>1, <1>2, <1>3, TailOfQueue
<1>5. r \in Requests /\ prv[r] = p /\ LiningIn(pcv, gr, r) BY <1>4 DEF LineOfIn
<1>6. PICK act2 : act2 = [act EXCEPT ![p] = @ + 1] OBVIOUS
<1>7. PICK wait2 : wait2 = [wait EXCEPT ![p] = Tail(@)] OBVIOUS
<1>8. PICK gr2 : gr2 = [gr EXCEPT ![r] = TRUE] OBVIOUS
<1>9. PICK rr2 : rr2 = IF Len(wait[p]) = 1 THEN RotateOut(rr, k) ELSE Append(RotateOut(rr, k), p) OBVIOUS
<1>10. ASSUME NEW s \in Requests
       PROVE  /\ HoldingIn(pcv, gr2, s) <=> (HoldingIn(pcv, gr, s) \/ s = r)
              /\ LiningIn(pcv, gr2, s) <=> (LiningIn(pcv, gr, s) /\ s # r)
              /\ ~HoldingIn(pcv, gr, r)
              /\ gr2[s] => pcv[s] \in {"queued", "cancelling"}
  BY <1>5, <1>8 DEF Books, Typed, HoldingIn, LiningIn
<1>11. /\ HoldersIn(pcv, gr2) = HoldersIn(pcv, gr) \cup {r}
       /\ r \notin HoldersIn(pcv, gr)
       /\ HoldersOfIn(pcv, gr2, prv, p) = HoldersOfIn(pcv, gr, prv, p) \cup {r}
       /\ r \notin HoldersOfIn(pcv, gr, prv, p)
       /\ LineIn(pcv, gr2) = LineIn(pcv, gr) \ {r}
       /\ r \in LineIn(pcv, gr)
       /\ LineOfIn(pcv, gr2, prv, p) = LineOfIn(pcv, gr, prv, p) \ {r}
  BY <1>5, <1>10 DEF HoldersIn, HoldersOfIn, LineIn, LineOfIn
<1>12. \A z \in Projects : z # p => /\ HoldersOfIn(pcv, gr2, prv, z) = HoldersOfIn(pcv, gr, prv, z)
                                    /\ LineOfIn(pcv, gr2, prv, z) = LineOfIn(pcv, gr, prv, z)
  BY <1>5, <1>10 DEF HoldersOfIn, LineOfIn
<1>13. /\ total + 1 = Cardinality(HoldersIn(pcv, gr2))
       /\ act[p] + 1 = Cardinality(HoldersOfIn(pcv, gr2, prv, p))
  BY <1>11, CardinalityAdd, FiniteRequests DEF Books, Slots
<1>14. q >= 1 /\ q - 1 = Cardinality(LineIn(pcv, gr2))
  BY <1>11, CardinalityRemove, FiniteRequests DEF Books, Queues
<1>15. /\ RotateOut(rr, k) \in Seq(Projects) /\ IsInjective(RotateOut(rr, k))
       /\ Range(RotateOut(rr, k)) = Range(rr) \ {p}
  <2>1. rr \in Seq(Projects) /\ IsInjective(rr) /\ k \in DOMAIN rr
    BY DEF Eligible, Books, Typed, Queues
  <2> QED BY <2>1, <1>1, RotateOutOfQueue
<1>16. /\ rr2 \in Seq(Projects) /\ IsInjective(rr2)
       /\ Range(rr2) = IF Len(wait[p]) = 1 THEN Range(rr) \ {p} ELSE Range(rr)
  <2>1. p \notin Range(RotateOut(rr, k)) BY <1>15
  <2>2. /\ Append(RotateOut(rr, k), p) \in Seq(Projects)
        /\ IsInjective(Append(RotateOut(rr, k), p))
        /\ Range(Append(RotateOut(rr, k), p)) = (Range(rr) \ {p}) \cup {p}
    BY <2>1, <1>15, AppendFresh
  <2> QED BY <1>1, <1>9, <1>15, <2>2
<1>17. wait2[p] = <<>> <=> Len(wait[p]) = 1
  <2>1. wait2[p] = Tail(wait[p]) BY <1>7 DEF Books, Typed
  <2>2. wait2[p] = <<>> <=> Len(wait2[p]) = 0 BY <2>1, <1>4, EmptySeq
  <2>3. Len(wait[p]) \in Nat BY <1>2
  <2> QED BY <2>1, <2>2, <2>3, <1>4
<1>18. Typed(act2, total + 1, wait2, rr2, q - 1, gr2, pcv, prv)
  <2>1. wait2 \in [Projects -> Seq(Requests)] BY <1>4, <1>7 DEF Books, Typed
  <2>2. q - 1 \in Nat /\ total + 1 \in Nat BY <1>14 DEF Books, Typed
  <2>3. act2 \in [Projects -> Nat] BY <1>6 DEF Books, Typed
  <2>4. gr2 \in [Requests -> BOOLEAN] BY <1>5, <1>8 DEF Books, Typed
  <2> QED BY <2>1, <2>2, <2>3, <2>4, <1>16 DEF Books, Typed
<1>19. Slots(act2, total + 1, gr2, pcv, prv)
  <2>1. /\ act2[p] = act[p] + 1 /\ \A z \in Projects : z # p => act2[z] = act[z]
        /\ \A z \in Projects : act[z] \in Nat /\ Limit[z] \in Nat
        /\ total \in Nat /\ Capacity \in Nat
    BY <1>6, ConfigurationAssumption DEF Books, Typed
  <2>2. \A z \in Projects : act2[z] = Cardinality(HoldersOfIn(pcv, gr2, prv, z))
    BY <2>1, <1>12, <1>13 DEF Books, Slots
  <2>3. total + 1 <= Capacity /\ \A z \in Projects : act2[z] <= Limit[z]
    BY <2>1, <1>1 DEF Books, Slots, CanGrant
  <2> QED BY <2>2, <2>3, <1>12, <1>13 DEF Slots
<1>20. Range(rr2) = {z \in Projects : wait2[z] # <<>>}
  BY <1>1, <1>7, <1>16, <1>17 DEF Books, Typed, Queues
<1>21. ASSUME NEW z \in Projects
       PROVE  /\ IsInjective(wait2[z]) /\ Range(wait2[z]) = LineOfIn(pcv, gr2, prv, z)
              /\ Len(wait2[z]) <= MaxQueuedPerProject
  <2>1. CASE z = p
    <3>1. wait2[z] = Tail(wait[p]) BY <2>1, <1>7 DEF Books, Typed
    <3>2. Len(wait[p]) - 1 <= MaxQueuedPerProject
      BY <1>2, ConfigurationAssumption DEF Books, Queues
    <3> QED BY <2>1, <3>1, <3>2, <1>4, <1>11
  <2>2. CASE z # p BY <2>2, <1>7, <1>12 DEF Books, Typed, Queues
  <2> QED BY <2>1, <2>2
<1>22. Queues(wait2, rr2, q - 1, gr2, pcv, prv)
  BY <1>14, <1>16, <1>20, <1>21, ConfigurationAssumption DEF Books, Typed, Queues
<1>23. Books(act2, total + 1, wait2, rr2, q - 1, gr2, pcv, prv)
  BY <1>10, <1>18, <1>19, <1>22 DEF Books
<1> QED BY <1>1, <1>3, <1>6, <1>7, <1>8, <1>9, <1>23

(* A new waiter at the end of its project's queue: acquire() before it     *)
(* dispatches.                                                             *)
LEMMA Enqueue ==
    ASSUME NEW act, NEW total, NEW wait, NEW rr, NEW q, NEW gr, NEW pcv, NEW prv,
           Books(act, total, wait, rr, q, gr, pcv, prv),
           NEW r \in Requests, pcv[r] = "idle", NEW p \in Projects,
           q < MaxQueued, Len(wait[p]) < MaxQueuedPerProject
    PROVE  Books(act, total, [wait EXCEPT ![p] = Append(@, r)],
                 IF wait[p] = <<>> THEN Append(rr, p) ELSE rr,
                 q + 1, gr, [pcv EXCEPT ![r] = "queued"], [prv EXCEPT ![r] = p])
<1>1. PICK wait2 : wait2 = [wait EXCEPT ![p] = Append(@, r)] OBVIOUS
<1>2. PICK rr2 : rr2 = IF wait[p] = <<>> THEN Append(rr, p) ELSE rr OBVIOUS
<1>3. PICK prv2 : prv2 = [prv EXCEPT ![r] = p] OBVIOUS
<1>4. PICK pcv2 : pcv2 = [pcv EXCEPT ![r] = "queued"] OBVIOUS
<1>5. ASSUME NEW s \in Requests
      PROVE  /\ HoldingIn(pcv2, gr, s) <=> HoldingIn(pcv, gr, s)
             /\ LiningIn(pcv2, gr, s) <=> (LiningIn(pcv, gr, s) \/ s = r)
             /\ gr[s] => s # r
             /\ s # r => pcv2[s] = pcv[s] /\ prv2[s] = prv[s]
             /\ ~HoldingIn(pcv, gr, r) /\ ~LiningIn(pcv, gr, r)
             /\ prv2[r] = p
  BY <1>3, <1>4 DEF Books, Typed, HoldingIn, LiningIn
<1>6. /\ HoldersIn(pcv2, gr) = HoldersIn(pcv, gr)
      /\ LineIn(pcv2, gr) = LineIn(pcv, gr) \cup {r}
      /\ r \notin LineIn(pcv, gr)
      /\ LineOfIn(pcv2, gr, prv2, p) = LineOfIn(pcv, gr, prv, p) \cup {r}
      /\ r \notin LineOfIn(pcv, gr, prv, p)
  BY <1>5 DEF HoldersIn, LineIn, LineOfIn
<1>7. \A z \in Projects : HoldersOfIn(pcv2, gr, prv2, z) = HoldersOfIn(pcv, gr, prv, z)
  BY <1>5 DEF HoldersOfIn
<1>8. \A z \in Projects : z # p => LineOfIn(pcv2, gr, prv2, z) = LineOfIn(pcv, gr, prv, z)
  BY <1>5 DEF LineOfIn
<1>9. q + 1 = Cardinality(LineIn(pcv2, gr))
  BY <1>6, CardinalityAdd, FiniteRequests DEF Books, Queues
<1>10. /\ wait[p] \in Seq(Requests) /\ IsInjective(wait[p])
       /\ Range(wait[p]) = LineOfIn(pcv, gr, prv, p)
  BY DEF Books, Typed, Queues
<1>11. /\ Append(wait[p], r) \in Seq(Requests) /\ IsInjective(Append(wait[p], r))
       /\ Range(Append(wait[p], r)) = LineOfIn(pcv2, gr, prv2, p)
       /\ Len(Append(wait[p], r)) = Len(wait[p]) + 1
  BY <1>6, <1>10, AppendFresh
<1>12. wait2[p] = Append(wait[p], r) /\ \A z \in Projects : z # p => wait2[z] = wait[z]
  BY <1>1 DEF Books, Typed
<1>13. wait2[p] # <<>>
  <2>1. Len(wait2[p]) # 0 BY <1>10, <1>11, <1>12
  <2> QED BY <2>1, EmptySeq
<1>14. /\ rr2 \in Seq(Projects) /\ IsInjective(rr2)
       /\ Range(rr2) = Range(rr) \cup {p}
  <2>1. rr \in Seq(Projects) /\ IsInjective(rr) /\ (p \in Range(rr) <=> wait[p] # <<>>)
    BY DEF Books, Typed, Queues
  <2>2. CASE wait[p] = <<>>
    <3>1. /\ Append(rr, p) \in Seq(Projects) /\ IsInjective(Append(rr, p))
          /\ Range(Append(rr, p)) = Range(rr) \cup {p}
      BY <2>1, <2>2, AppendFresh
    <3> QED BY <2>2, <3>1, <1>2
  <2>3. CASE wait[p] # <<>> BY <2>1, <2>3, <1>2
  <2> QED BY <2>2, <2>3
<1>15. Range(rr2) = {z \in Projects : wait2[z] # <<>>}
  BY <1>12, <1>13, <1>14 DEF Books, Queues
<1>16. ASSUME NEW z \in Projects
       PROVE  /\ IsInjective(wait2[z]) /\ Range(wait2[z]) = LineOfIn(pcv2, gr, prv2, z)
              /\ Len(wait2[z]) <= MaxQueuedPerProject
  <2>1. CASE z = p
    <3>1. Len(wait[p]) + 1 <= MaxQueuedPerProject
      BY <1>10, ConfigurationAssumption
    <3> QED BY <2>1, <3>1, <1>11, <1>12
  <2>2. CASE z # p BY <2>2, <1>8, <1>12 DEF Books, Queues
  <2> QED BY <2>1, <2>2
<1>17. Typed(act, total, wait2, rr2, q + 1, gr, pcv2, prv2)
  <2>1. wait2 \in [Projects -> Seq(Requests)] BY <1>1, <1>11 DEF Books, Typed
  <2>2. q + 1 \in Nat BY DEF Books, Typed
  <2>3. pcv2 \in [Requests -> Location] /\ prv2 \in [Requests -> Projects]
    BY <1>3, <1>4 DEF Books, Typed, Location
  <2> QED BY <2>1, <2>2, <2>3, <1>14 DEF Books, Typed
<1>18. Slots(act, total, gr, pcv2, prv2)
  BY <1>6, <1>7 DEF Books, Slots
<1>19. q + 1 <= MaxQueued
  BY ConfigurationAssumption DEF Books, Typed
<1>20. Queues(wait2, rr2, q + 1, gr, pcv2, prv2)
  BY <1>9, <1>14, <1>15, <1>16, <1>19 DEF Queues
<1>21. \A s \in Requests : gr[s] => pcv2[s] \in {"queued", "cancelling"}
  BY <1>5 DEF Books
<1>22. Books(act, total, wait2, rr2, q + 1, gr, pcv2, prv2)
  BY <1>17, <1>18, <1>20, <1>21 DEF Books
<1> QED BY <1>1, <1>2, <1>3, <1>4, <1>22

(* An ungranted waiter taken out of its queue: _remove_locked. *)
LEMMA Dequeue ==
    ASSUME NEW act, NEW total, NEW wait, NEW rr, NEW q, NEW gr, NEW pcv, NEW prv,
           Books(act, total, wait, rr, q, gr, pcv, prv),
           NEW r \in Requests, LiningIn(pcv, gr, r)
    PROVE  Books(act, total, [wait EXCEPT ![prv[r]] = RemoveFirst(@, r)],
                 IF Len(wait[prv[r]]) = 1 THEN RemoveFirst(rr, prv[r]) ELSE rr,
                 q - 1, gr, [pcv EXCEPT ![r] = "idle"], prv)
<1>1. PICK p \in Projects : p = prv[r] BY DEF Books, Typed
<1>2. PICK wait2 : wait2 = [wait EXCEPT ![p] = RemoveFirst(@, r)] OBVIOUS
<1>3. PICK rr2 : rr2 = IF Len(wait[p]) = 1 THEN RemoveFirst(rr, p) ELSE rr OBVIOUS
<1>4. PICK pcv2 : pcv2 = [pcv EXCEPT ![r] = "idle"] OBVIOUS
<1>5. ASSUME NEW s \in Requests
      PROVE  /\ HoldingIn(pcv2, gr, s) <=> HoldingIn(pcv, gr, s)
             /\ LiningIn(pcv2, gr, s) <=> (LiningIn(pcv, gr, s) /\ s # r)
             /\ gr[s] => s # r
             /\ s # r => pcv2[s] = pcv[s]
  BY <1>4 DEF Books, Typed, HoldingIn, LiningIn
<1>6. /\ HoldersIn(pcv2, gr) = HoldersIn(pcv, gr)
      /\ LineIn(pcv2, gr) = LineIn(pcv, gr) \ {r}
      /\ r \in LineIn(pcv, gr)
      /\ LineOfIn(pcv2, gr, prv, p) = LineOfIn(pcv, gr, prv, p) \ {r}
      /\ r \in LineOfIn(pcv, gr, prv, p)
  BY <1>1, <1>5 DEF HoldersIn, LineIn, LineOfIn
<1>7. \A z \in Projects : HoldersOfIn(pcv2, gr, prv, z) = HoldersOfIn(pcv, gr, prv, z)
  BY <1>5 DEF HoldersOfIn
<1>8. \A z \in Projects : z # p => LineOfIn(pcv2, gr, prv, z) = LineOfIn(pcv, gr, prv, z)
  BY <1>1, <1>5 DEF LineOfIn
<1>9. q >= 1 /\ q - 1 = Cardinality(LineIn(pcv2, gr))
  BY <1>6, CardinalityRemove, FiniteRequests DEF Books, Queues
<1>10. /\ wait[p] \in Seq(Requests) /\ IsInjective(wait[p])
       /\ Range(wait[p]) = LineOfIn(pcv, gr, prv, p)
  BY DEF Books, Typed, Queues
<1>11. /\ RemoveFirst(wait[p], r) \in Seq(Requests) /\ IsInjective(RemoveFirst(wait[p], r))
       /\ Range(RemoveFirst(wait[p], r)) = LineOfIn(pcv2, gr, prv, p)
       /\ Len(RemoveFirst(wait[p], r)) = Len(wait[p]) - 1
  BY <1>6, <1>10, RemoveFirstOfQueue
<1>12. wait2[p] = RemoveFirst(wait[p], r) /\ \A z \in Projects : z # p => wait2[z] = wait[z]
  BY <1>2 DEF Books, Typed
<1>13. /\ wait2[p] = <<>> <=> Len(wait[p]) = 1
       /\ wait[p] # <<>>
  <2>1. wait2[p] = <<>> <=> Len(wait2[p]) = 0 BY <1>11, <1>12, EmptySeq
  <2>2. Len(wait[p]) \in Nat BY <1>10
  <2>3. wait[p] # <<>>
    <3>1. PICK i \in DOMAIN wait[p] : wait[p][i] = r BY <1>6, <1>10 DEF Range
    <3>2. Len(wait[p]) # 0 BY <3>1, <1>10
    <3> QED BY <3>2, EmptySeq
  <2>4. Len(wait2[p]) = Len(wait[p]) - 1 BY <1>11, <1>12
  <2>5. Len(wait[p]) - 1 = 0 <=> Len(wait[p]) = 1 BY <2>2
  <2> QED BY <2>1, <2>3, <2>4, <2>5
<1>14. /\ rr2 \in Seq(Projects) /\ IsInjective(rr2)
       /\ Range(rr2) = IF Len(wait[p]) = 1 THEN Range(rr) \ {p} ELSE Range(rr)
  <2>1. rr \in Seq(Projects) /\ IsInjective(rr) /\ p \in Range(rr)
    BY <1>13 DEF Books, Typed, Queues
  <2>2. /\ RemoveFirst(rr, p) \in Seq(Projects) /\ IsInjective(RemoveFirst(rr, p))
        /\ Range(RemoveFirst(rr, p)) = Range(rr) \ {p}
    BY <2>1, RemoveFirstOfQueue
  <2> QED BY <2>1, <2>2, <1>3
<1>15. Range(rr2) = {z \in Projects : wait2[z] # <<>>}
  BY <1>12, <1>13, <1>14 DEF Books, Queues
<1>16. ASSUME NEW z \in Projects
       PROVE  /\ IsInjective(wait2[z]) /\ Range(wait2[z]) = LineOfIn(pcv2, gr, prv, z)
              /\ Len(wait2[z]) <= MaxQueuedPerProject
  <2>1. CASE z = p
    <3>1. Len(wait[p]) - 1 <= MaxQueuedPerProject
      BY <1>10, ConfigurationAssumption DEF Books, Queues
    <3> QED BY <2>1, <3>1, <1>11, <1>12
  <2>2. CASE z # p BY <2>2, <1>8, <1>12 DEF Books, Queues
  <2> QED BY <2>1, <2>2
<1>17. Typed(act, total, wait2, rr2, q - 1, gr, pcv2, prv)
  <2>1. wait2 \in [Projects -> Seq(Requests)] BY <1>2, <1>11 DEF Books, Typed
  <2>2. q - 1 \in Nat BY <1>9 DEF Books, Typed
  <2>3. pcv2 \in [Requests -> Location] BY <1>4 DEF Books, Typed, Location
  <2> QED BY <2>1, <2>2, <2>3, <1>14 DEF Books, Typed
<1>18. Slots(act, total, gr, pcv2, prv)
  BY <1>6, <1>7 DEF Books, Slots
<1>19. q - 1 <= MaxQueued
  BY ConfigurationAssumption DEF Books, Typed, Queues
<1>20. Queues(wait2, rr2, q - 1, gr, pcv2, prv)
  BY <1>9, <1>14, <1>15, <1>16, <1>19 DEF Queues
<1>21. \A s \in Requests : gr[s] => pcv2[s] \in {"queued", "cancelling"}
  BY <1>5 DEF Books
<1>22. Books(act, total, wait2, rr2, q - 1, gr, pcv2, prv)
  BY <1>17, <1>18, <1>20, <1>21 DEF Books
<1> QED BY <1>1, <1>2, <1>3, <1>4, <1>22

(* Requests that stay where they are for the bookkeeping: a granted waiter *)
(* resumes, a waiter is interrupted, a released permit is forgotten.       *)
LEMMA SameBooks ==
    ASSUME NEW act, NEW total, NEW wait, NEW rr, NEW q, NEW gr, NEW pcv, NEW prv,
           Books(act, total, wait, rr, q, gr, pcv, prv),
           NEW gr2 \in [Requests -> BOOLEAN], NEW pcv2 \in [Requests -> Location],
           \A s \in Requests :
               /\ HoldingIn(pcv2, gr2, s) <=> HoldingIn(pcv, gr, s)
               /\ LiningIn(pcv2, gr2, s) <=> LiningIn(pcv, gr, s)
               /\ gr2[s] => pcv2[s] \in {"queued", "cancelling"}
    PROVE  Books(act, total, wait, rr, q, gr2, pcv2, prv)
<1>1. /\ HoldersIn(pcv2, gr2) = HoldersIn(pcv, gr)
      /\ LineIn(pcv2, gr2) = LineIn(pcv, gr)
      /\ \A p \in Projects : /\ HoldersOfIn(pcv2, gr2, prv, p) = HoldersOfIn(pcv, gr, prv, p)
                              /\ LineOfIn(pcv2, gr2, prv, p) = LineOfIn(pcv, gr, prv, p)
  BY DEF HoldersIn, LineIn, HoldersOfIn, LineOfIn
<1>2. Typed(act, total, wait, rr, q, gr2, pcv2, prv) BY DEF Books, Typed
<1>3. Slots(act, total, gr2, pcv2, prv) BY <1>1 DEF Books, Slots
<1>4. Queues(wait, rr, q, gr2, pcv2, prv) BY <1>1 DEF Books, Queues
<1> QED BY <1>2, <1>3, <1>4 DEF Books

-----------------------------------------------------------------------------
(* _dispatch_locked keeps the books. *)
LEMMA DispatchBooks ==
    ASSUME NEW act, NEW total, NEW wait, NEW rr, NEW q, NEW gr, NEW pcv, NEW prv,
           Books(act, total, wait, rr, q, gr, pcv, prv),
           Dispatch(act, total, wait, rr, q, gr)
    PROVE  Books(active', activeTotal', waiting', roundRobin', queued', granted', pcv, prv)
<1>1. CASE DispatchNobody(act, total, wait, rr, q, gr)
  BY <1>1 DEF DispatchNobody
<1>2. CASE DispatchFirst(act, total, wait, rr, q, gr)
  <2>1. PICK k \in Eligible(act, total, rr) :
          /\ active' = [act EXCEPT ![rr[k]] = @ + 1]
          /\ activeTotal' = total + 1
          /\ waiting' = [wait EXCEPT ![rr[k]] = Tail(@)]
          /\ roundRobin' = IF Len(wait[rr[k]]) = 1 THEN RotateOut(rr, k)
                           ELSE Append(RotateOut(rr, k), rr[k])
          /\ queued' = q - 1
          /\ granted' = [gr EXCEPT ![Head(wait[rr[k]])] = TRUE]
    BY <1>2 DEF DispatchFirst
  <2> QED BY <2>1, GrantHead
<1> QED BY <1>1, <1>2 DEF Dispatch

BooksInv == Books(active, activeTotal, waiting, roundRobin, queued, granted, pc, project)

LEMMA BooksInit == Init => BooksInv
<1> SUFFICES ASSUME Init PROVE BooksInv OBVIOUS
<1>1. /\ HoldersIn(pc, granted) = {} /\ LineIn(pc, granted) = {}
      /\ \A p \in Projects : HoldersOfIn(pc, granted, project, p) = {} /\ LineOfIn(pc, granted, project, p) = {}
  BY DEF Init, HoldersIn, LineIn, HoldersOfIn, LineOfIn, HoldingIn, LiningIn
<1>2. Cardinality({}) = 0 BY FS_EmptySet
<1>3. Typed(active, activeTotal, waiting, roundRobin, queued, granted, pc, project)
  BY DEF Init, Typed, Location
<1>4. Slots(active, activeTotal, granted, pc, project)
  <2>1. activeTotal = 0 /\ \A p \in Projects : active[p] = 0 BY DEF Init
  <2>2. 0 <= Capacity /\ \A p \in Projects : 0 <= Limit[p] BY ConfigurationAssumption
  <2> QED BY <2>1, <2>2, <1>1, <1>2 DEF Slots
<1>5. IsInjective(<<>>) /\ Range(<<>>) = {} /\ Len(<<>>) = 0
  BY DEF IsInjective, Range
<1>6. Queues(waiting, roundRobin, queued, granted, pc, project)
  <2>1. \A p \in Projects : waiting[p] = <<>> BY DEF Init
  <2>2. roundRobin = <<>> /\ queued = 0 BY DEF Init
  <2>3. 0 <= MaxQueued /\ 0 <= MaxQueuedPerProject BY ConfigurationAssumption
  <2>4. Range(roundRobin) = {p \in Projects : waiting[p] # <<>>} BY <2>1, <2>2, <1>5
  <2> QED BY <2>1, <2>2, <2>3, <2>4, <1>1, <1>2, <1>5 DEF Queues
<1> QED BY <1>3, <1>4, <1>6 DEF BooksInv, Books, Init

LEMMA BooksStep == BooksInv /\ [Next]_admissionVars => BooksInv'
<1> SUFFICES ASSUME BooksInv, [Next]_admissionVars PROVE BooksInv' OBVIOUS
<1>0. /\ Typed(active, activeTotal, waiting, roundRobin, queued, granted, pc, project)
      /\ \A s \in Requests : granted[s] => pc[s] \in {"queued", "cancelling"}
  BY DEF BooksInv, Books
<1>1. ASSUME NEW r \in Requests, NEW p \in Projects, AcquireNow(r, p) PROVE BooksInv'
  BY <1>1, TakeSlot DEF AcquireNow, BooksInv
<1>2. ASSUME NEW r \in Requests, NEW p \in Projects, AcquireQueued(r, p) PROVE BooksInv'
  <2>1. queued < MaxQueued /\ Len(waiting[p]) < MaxQueuedPerProject
    <3>1. Len(waiting[p]) \in Nat /\ queued \in Nat BY <1>0 DEF Typed
    <3> QED BY <1>2, <3>1, ConfigurationAssumption DEF AcquireQueued, QueueFull
  <2>2. Books(active, activeTotal, [waiting EXCEPT ![p] = Append(@, r)],
              IF waiting[p] = <<>> THEN Append(roundRobin, p) ELSE roundRobin,
              queued + 1, granted, pc', project')
    BY <1>2, <2>1, Enqueue DEF AcquireQueued, BooksInv
  <2> QED BY <1>2, <2>2, DispatchBooks DEF AcquireQueued, BooksInv
<1>3. ASSUME NEW r \in Requests, Resume(r) PROVE BooksInv'
  <2>1. granted' \in [Requests -> BOOLEAN] /\ pc' \in [Requests -> Location]
    BY <1>0, <1>3 DEF Typed, Resume, Location
  <2>2. \A s \in Requests : /\ HoldingIn(pc', granted', s) <=> HoldingIn(pc, granted, s)
                            /\ LiningIn(pc', granted', s) <=> LiningIn(pc, granted, s)
                            /\ granted'[s] => pc'[s] \in {"queued", "cancelling"}
    BY <1>0, <1>3 DEF Typed, Resume, HoldingIn, LiningIn
  <2> QED BY <1>3, <2>1, <2>2, SameBooks DEF Resume, BooksInv
<1>4. ASSUME NEW r \in Requests, Interrupt(r) PROVE BooksInv'
  <2>1. granted' \in [Requests -> BOOLEAN] /\ pc' \in [Requests -> Location]
    BY <1>0, <1>4 DEF Typed, Interrupt, Location
  <2>2. \A s \in Requests : /\ HoldingIn(pc', granted', s) <=> HoldingIn(pc, granted, s)
                            /\ LiningIn(pc', granted', s) <=> LiningIn(pc, granted, s)
                            /\ granted'[s] => pc'[s] \in {"queued", "cancelling"}
    BY <1>0, <1>4 DEF Typed, Interrupt, HoldingIn, LiningIn
  <2> QED BY <1>4, <2>1, <2>2, SameBooks DEF Interrupt, BooksInv
<1>5. ASSUME NEW r \in Requests, CancelGranted(r) PROVE BooksInv'
  <2>1. HoldingIn(pc, granted, r) BY <1>5 DEF CancelGranted, HoldingIn
  <2>2. Books([active EXCEPT ![project[r]] = @ - 1], activeTotal - 1, waiting, roundRobin, queued,
              [granted EXCEPT ![r] = FALSE], pc', project')
    BY <1>5, <2>1, FreeSlot DEF CancelGranted, BooksInv
  <2> QED BY <1>5, <2>2, DispatchBooks DEF CancelGranted, ReleaseLocked, BooksInv
<1>6. ASSUME NEW r \in Requests, CancelWaiting(r) PROVE BooksInv'
  <2>1. LiningIn(pc, granted, r) BY <1>6 DEF CancelWaiting, LiningIn
  <2>2. Books(active, activeTotal, RemoveWaiter(project[r], r), RemoveProject(project[r]),
              queued - 1, granted, pc', project')
    <3>1. Books(active, activeTotal, [waiting EXCEPT ![project[r]] = RemoveFirst(@, r)],
                IF Len(waiting[project[r]]) = 1 THEN RemoveFirst(roundRobin, project[r]) ELSE roundRobin,
                queued - 1, granted, [pc EXCEPT ![r] = "idle"], project)
      BY <2>1, Dequeue DEF BooksInv
    <3>2. pc' = [pc EXCEPT ![r] = "idle"] /\ project' = project BY <1>6 DEF CancelWaiting
    <3> QED BY <3>1, <3>2 DEF RemoveWaiter, RemoveProject
  <2> QED BY <1>6, <2>2, DispatchBooks DEF CancelWaiting, BooksInv
<1>7. ASSUME NEW r \in Requests, Release(r) PROVE BooksInv'
  <2>1. HoldingIn(pc, granted, r) BY <1>7 DEF Release, HoldingIn
  <2>2. granted = [granted EXCEPT ![r] = FALSE]
    BY <1>0, <1>7 DEF Release, Typed
  <2>3. Books([active EXCEPT ![project[r]] = @ - 1], activeTotal - 1, waiting, roundRobin, queued,
              granted, pc', project')
    <3>1. Books([active EXCEPT ![project[r]] = @ - 1], activeTotal - 1, waiting, roundRobin, queued,
                [granted EXCEPT ![r] = FALSE], [pc EXCEPT ![r] = "released"], project)
      BY <2>1, FreeSlot DEF BooksInv
    <3>2. pc' = [pc EXCEPT ![r] = "released"] /\ project' = project BY <1>7 DEF Release
    <3> QED BY <3>1, <3>2, <2>2
  <2> QED BY <1>7, <2>3, DispatchBooks DEF Release, ReleaseLocked, BooksInv
<1>8. ASSUME NEW r \in Requests, Forget(r) PROVE BooksInv'
  <2>1. granted' \in [Requests -> BOOLEAN] /\ pc' \in [Requests -> Location]
    BY <1>0, <1>8 DEF Typed, Forget, Location
  <2>2. \A s \in Requests : /\ HoldingIn(pc', granted', s) <=> HoldingIn(pc, granted, s)
                            /\ LiningIn(pc', granted', s) <=> LiningIn(pc, granted, s)
                            /\ granted'[s] => pc'[s] \in {"queued", "cancelling"}
    BY <1>0, <1>8 DEF Typed, Forget, HoldingIn, LiningIn
  <2> QED BY <1>8, <2>1, <2>2, SameBooks DEF Forget, BooksInv
<1>9. CASE UNCHANGED admissionVars
  BY <1>9 DEF admissionVars, BooksInv
<1> QED BY <1>1, <1>2, <1>3, <1>4, <1>5, <1>6, <1>7, <1>8, <1>9
        DEF Next, Acquire, CancelWaiter, AcquireRejected, ReleaseAgain

(* The books are kept for ever. *)
LEMMA BooksKept == Spec => []BooksInv
<1> QED BY BooksInit, BooksStep, PTL DEF Spec

-----------------------------------------------------------------------------
(* The variables keep the types the code gives them. *)
THEOREM TypeCorrect == Spec => []TypeOK
<1>1. BooksInv => TypeOK BY DEF BooksInv, Books, Typed, TypeOK
<1> QED BY <1>1, BooksKept, PTL

(* _active and _active_total count exactly the permits that are out,       *)
(* whatever timeouts, cancellations and repeated releases interleave.      *)
THEOREM PermitsCounted == Spec => []PermitAccounting
<1>1. BooksInv => PermitAccounting
  <2>1. AllHolders = HoldersIn(pc, granted)
    BY DEF AllHolders, HasPermit, Waiting, HoldersIn, HoldingIn
  <2>2. \A p \in Projects : Holders(p) = HoldersOfIn(pc, granted, project, p)
    BY DEF Holders, HasPermit, Waiting, HoldersOfIn, HoldingIn
  <2> QED BY <2>1, <2>2 DEF BooksInv, Books, Slots, PermitAccounting
<1> QED BY <1>1, BooksKept, PTL

(* No more permits are out than the capacity and the caps of the projects. *)
THEOREM CapsHold == Spec => []CapacityRespected
<1>1. BooksInv => CapacityRespected
  <2>1. AllHolders = HoldersIn(pc, granted)
    BY DEF AllHolders, HasPermit, Waiting, HoldersIn, HoldingIn
  <2>2. \A p \in Projects : Holders(p) = HoldersOfIn(pc, granted, project, p)
    BY DEF Holders, HasPermit, Waiting, HoldersOfIn, HoldingIn
  <2> QED BY <2>1, <2>2 DEF BooksInv, Books, Slots, CapacityRespected
<1> QED BY <1>1, BooksKept, PTL

(* The round-robin deque and the queues describe exactly the waiters, and  *)
(* the queue limits bound them.                                            *)
THEOREM QueuesConsistent == Spec => []QueueBook
<1>1. BooksInv => QueueBook
  <2>1. {r \in Requests : InQueue(r)} = LineIn(pc, granted)
    BY DEF InQueue, Waiting, LineIn, LiningIn
  <2>2. \A p \in Projects :
          {r \in Requests : InQueue(r) /\ project[r] = p} = LineOfIn(pc, granted, project, p)
    BY DEF InQueue, Waiting, LineOfIn, LiningIn
  <2> QED BY <2>1, <2>2 DEF BooksInv, Books, Queues, QueueBook
<1> QED BY <1>1, BooksKept, PTL

-----------------------------------------------------------------------------
(***************************************************************************)
(* Work conservation.  A dispatch that grants somebody was preceded by the *)
(* release of one slot, from a state in which nobody could be granted.     *)
(* If the group was full then, it is full again after the grant; if it was *)
(* not, every waiting project was at its own cap, only the project that    *)
(* released can have become eligible, and the grant puts it back at its    *)
(* cap.                                                                    *)
(***************************************************************************)
NobodyEligible(act, total, wait) ==
    \A p \in Projects : wait[p] # <<>> => ~CanGrant(act, total, p)

LEMMA DispatchNoSlot ==
    ASSUME NEW act, NEW total, NEW wait, NEW rr, NEW q, NEW gr, NEW pcv, NEW prv,
           Books(act, total, wait, rr, q, gr, pcv, prv),
           NobodyEligible(act, total, wait),
           Dispatch(act, total, wait, rr, q, gr)
    PROVE  WorkConserving'
<1>1. Eligible(act, total, rr) = {}
  <2> SUFFICES ASSUME NEW k \in DOMAIN rr PROVE ~CanGrant(act, total, rr[k])
    BY DEF Eligible, Books, Typed
  <2>1. rr[k] \in Range(rr) BY DEF Range
  <2> QED BY <2>1 DEF Books, Queues, NobodyEligible
<1>2. DispatchNobody(act, total, wait, rr, q, gr) BY <1>1 DEF Dispatch, DispatchFirst
<1> QED BY <1>2 DEF DispatchNobody, WorkConserving, NobodyEligible

LEMMA DispatchFreedSlot ==
    ASSUME NEW act, NEW total, NEW wait, NEW rr, NEW q, NEW gr, NEW pcv, NEW prv,
           Books(act, total, wait, rr, q, gr, pcv, prv),
           NEW p0 \in Projects,
           NobodyEligible([act EXCEPT ![p0] = @ + 1], total + 1, wait),
           Dispatch(act, total, wait, rr, q, gr)
    PROVE  WorkConserving'
<1>1. CASE DispatchNobody(act, total, wait, rr, q, gr)
  <2> SUFFICES ASSUME NEW p \in Projects, wait[p] # <<>> PROVE ~CanGrant(act, total, p)
    BY <1>1 DEF DispatchNobody, WorkConserving
  <2>1. PICK k \in DOMAIN rr : rr[k] = p BY DEF Books, Queues, Range
  <2>2. k \in 1..Len(rr) BY <2>1 DEF Books, Typed
  <2> QED BY <1>1, <2>1, <2>2 DEF DispatchNobody, Eligible
<1>2. CASE DispatchFirst(act, total, wait, rr, q, gr)
  <2>1. PICK k \in Eligible(act, total, rr) :
          /\ active' = [act EXCEPT ![rr[k]] = @ + 1]
          /\ activeTotal' = total + 1
          /\ waiting' = [wait EXCEPT ![rr[k]] = Tail(@)]
    BY <1>2 DEF DispatchFirst
  <2>2. PICK p \in Projects : p = rr[k] /\ CanGrant(act, total, p) /\ wait[p] # <<>>
    <3>1. k \in DOMAIN rr /\ rr[k] \in Projects /\ CanGrant(act, total, rr[k])
      BY DEF Eligible, Books, Typed
    <3> QED BY <3>1 DEF Books, Queues, Range
  <2>3. /\ act \in [Projects -> Nat] /\ total \in Nat /\ Capacity \in Nat
        /\ wait \in [Projects -> Seq(Requests)]
        /\ \A z \in Projects : Limit[z] \in Nat
    BY ConfigurationAssumption DEF Books, Typed
  <2>4. CASE total + 1 >= Capacity
    BY <2>1, <2>3, <2>4 DEF WorkConserving, CanGrant
  <2>5. CASE total + 1 < Capacity
    <3>1. \A z \in Projects : wait[z] # <<>> => [act EXCEPT ![p0] = @ + 1][z] >= Limit[z]
      BY <2>3, <2>5 DEF NobodyEligible, CanGrant
    <3>2. p = p0
      BY <2>2, <2>3, <3>1 DEF CanGrant
    <3>3. ASSUME NEW z \in Projects, waiting'[z] # <<>> PROVE ~CanGrant(active', activeTotal', z)
      <4>1. wait[z] # <<>> BY <2>1, <2>2, <2>3, <3>3
      <4>2. active'[z] >= Limit[z] BY <4>1, <3>1, <3>2, <2>1, <2>2
      <4>3. active'[z] \in Nat BY <2>1, <2>2, <2>3
      <4> QED BY <4>2, <4>3, <2>3 DEF CanGrant
    <3> QED BY <3>3 DEF WorkConserving
  <2> QED BY <2>3, <2>4, <2>5
<1> QED BY <1>1, <1>2 DEF Dispatch

LEMMA WorkConservingStep ==
    BooksInv /\ WorkConserving /\ [Next]_admissionVars => WorkConserving'
<1> SUFFICES ASSUME BooksInv, WorkConserving, [Next]_admissionVars PROVE WorkConserving' OBVIOUS
<1>0. /\ Typed(active, activeTotal, waiting, roundRobin, queued, granted, pc, project)
      /\ \A s \in Requests : granted[s] => pc[s] \in {"queued", "cancelling"}
  BY DEF BooksInv, Books
<1>a. \A p \in Projects : active[p] \in Nat /\ Limit[p] \in Nat /\ Capacity \in Nat /\ activeTotal \in Nat
  BY <1>0, ConfigurationAssumption DEF Typed
<1>1. ASSUME NEW r \in Requests, NEW p \in Projects, AcquireNow(r, p) PROVE WorkConserving'
  <2> SUFFICES ASSUME NEW z \in Projects, waiting[z] # <<>> PROVE ~CanGrant(active', activeTotal', z)
    BY <1>1 DEF AcquireNow, WorkConserving
  <2>1. ~CanGrant(active, activeTotal, z) BY DEF WorkConserving
  <2>2. active'[z] >= active[z] /\ active'[z] \in Nat /\ activeTotal' = activeTotal + 1
    BY <1>0, <1>a, <1>1 DEF AcquireNow, Typed
  <2> QED BY <2>1, <2>2, <1>a DEF CanGrant
<1>2. ASSUME NEW r \in Requests, NEW p \in Projects, AcquireQueued(r, p) PROVE WorkConserving'
  <2>1. queued < MaxQueued /\ Len(waiting[p]) < MaxQueuedPerProject
    <3>1. Len(waiting[p]) \in Nat /\ queued \in Nat BY <1>0 DEF Typed
    <3> QED BY <1>2, <3>1, ConfigurationAssumption DEF AcquireQueued, QueueFull
  <2>2. Books(active, activeTotal, [waiting EXCEPT ![p] = Append(@, r)],
              IF waiting[p] = <<>> THEN Append(roundRobin, p) ELSE roundRobin,
              queued + 1, granted, pc', project')
    BY <1>2, <2>1, Enqueue DEF AcquireQueued, BooksInv
  <2>3. NobodyEligible(active, activeTotal, [waiting EXCEPT ![p] = Append(@, r)])
    <3>1. ~CanGrant(active, activeTotal, p) BY <1>2 DEF AcquireQueued
    <3>2. \A z \in Projects : z # p => [waiting EXCEPT ![p] = Append(@, r)][z] = waiting[z]
      BY <1>0 DEF Typed
    <3> QED BY <3>1, <3>2 DEF NobodyEligible, WorkConserving
  <2> QED BY <1>2, <2>2, <2>3, DispatchNoSlot DEF AcquireQueued
<1>3. ASSUME NEW r \in Requests, HoldingIn(pc, granted, r), NEW to \in {"idle", "released"},
             Dispatch([active EXCEPT ![project[r]] = @ - 1], activeTotal - 1, waiting,
                      roundRobin, queued, [granted EXCEPT ![r] = FALSE])
      PROVE  WorkConserving'
  <2>1. /\ Books([active EXCEPT ![project[r]] = @ - 1], activeTotal - 1, waiting, roundRobin, queued,
                 [granted EXCEPT ![r] = FALSE], [pc EXCEPT ![r] = to], project)
        /\ activeTotal >= 1 /\ active[project[r]] >= 1
    BY <1>3, FreeSlot DEF BooksInv
  <2>2. project[r] \in Projects BY <1>0 DEF Typed
  <2>3. /\ [[active EXCEPT ![project[r]] = @ - 1] EXCEPT ![project[r]] = @ + 1] = active
        /\ (activeTotal - 1) + 1 = activeTotal
    <3>1. active \in [Projects -> Nat] /\ activeTotal \in Nat BY <1>0 DEF Typed
    <3>2. PICK p \in Projects : p = project[r] BY <2>2
    <3>3. PICK low : low = [active EXCEPT ![p] = @ - 1] OBVIOUS
    <3>4. PICK back : back = [low EXCEPT ![p] = @ + 1] OBVIOUS
    <3>5. /\ DOMAIN back = Projects /\ back[p] = active[p]
          /\ \A z \in Projects : z # p => back[z] = active[z]
      BY <3>1, <3>2, <3>3, <3>4
    <3>6. back = active BY <3>1, <3>3, <3>4, <3>5
    <3> QED BY <3>1, <3>2, <3>3, <3>4, <3>6
  <2>4. NobodyEligible([[active EXCEPT ![project[r]] = @ - 1] EXCEPT ![project[r]] = @ + 1],
                       (activeTotal - 1) + 1, waiting)
    BY <2>3 DEF NobodyEligible, WorkConserving
  <2> QED BY <1>3, <2>1, <2>2, <2>4, DispatchFreedSlot
<1>4. ASSUME NEW r \in Requests, CancelGranted(r) PROVE WorkConserving'
  <2>1. HoldingIn(pc, granted, r) BY <1>4 DEF CancelGranted, HoldingIn
  <2> QED BY <1>3, <1>4, <2>1 DEF CancelGranted, ReleaseLocked
<1>5. ASSUME NEW r \in Requests, Release(r) PROVE WorkConserving'
  <2>1. HoldingIn(pc, granted, r) BY <1>5 DEF Release, HoldingIn
  <2>2. granted = [granted EXCEPT ![r] = FALSE]
    BY <1>0, <1>5 DEF Release, Typed
  <2> QED BY <1>3, <1>5, <2>1, <2>2 DEF Release, ReleaseLocked
<1>6. ASSUME NEW r \in Requests, CancelWaiting(r) PROVE WorkConserving'
  <2>1. LiningIn(pc, granted, r) BY <1>6 DEF CancelWaiting, LiningIn
  <2>2. Books(active, activeTotal, RemoveWaiter(project[r], r), RemoveProject(project[r]),
              queued - 1, granted, [pc EXCEPT ![r] = "idle"], project)
    <3>1. Books(active, activeTotal, [waiting EXCEPT ![project[r]] = RemoveFirst(@, r)],
                IF Len(waiting[project[r]]) = 1 THEN RemoveFirst(roundRobin, project[r]) ELSE roundRobin,
                queued - 1, granted, [pc EXCEPT ![r] = "idle"], project)
      BY <2>1, Dequeue DEF BooksInv
    <3> QED BY <3>1 DEF RemoveWaiter, RemoveProject
  <2>3. \A p \in Projects : RemoveWaiter(project[r], r)[p] # <<>> => waiting[p] # <<>>
    <3>1. project[r] \in Projects /\ waiting \in [Projects -> Seq(Requests)] BY <1>0 DEF Typed
    <3>2. waiting[project[r]] # <<>>
      <4>1. r \in LineOfIn(pc, granted, project, project[r]) BY <2>1 DEF LineOfIn
      <4>2. r \in Range(waiting[project[r]]) BY <4>1, <3>1 DEF BooksInv, Books, Queues
      <4>3. PICK i \in DOMAIN waiting[project[r]] : TRUE BY <4>2 DEF Range
      <4>4. Len(waiting[project[r]]) # 0 BY <4>3, <3>1
      <4> QED BY <4>4, EmptySeq
    <3> QED BY <3>1, <3>2 DEF RemoveWaiter
  <2>4. NobodyEligible(active, activeTotal, RemoveWaiter(project[r], r))
    BY <2>3 DEF NobodyEligible, WorkConserving
  <2> QED BY <1>6, <2>2, <2>4, DispatchNoSlot DEF CancelWaiting
<1>7. CASE UNCHANGED <<active, activeTotal, waiting>>
  BY <1>7 DEF WorkConserving
<1> QED BY <1>1, <1>2, <1>4, <1>5, <1>6, <1>7
        DEF Next, Acquire, CancelWaiter, AcquireRejected, ReleaseAgain, Resume, Interrupt, Forget, admissionVars

(* Whenever the lock is free, no project with waiters could be granted: the *)
(* comment that justifies the fast path of acquire().                       *)
THEOREM WorkConserved == Spec => []WorkConserving
<1>1. Init => WorkConserving
  BY DEF Init, WorkConserving
<1> QED BY <1>1, WorkConservingStep, BooksKept, PTL DEF Spec

-----------------------------------------------------------------------------
(***************************************************************************)
(* Round robin.  A project that waits below its own cap waits for the      *)
(* group, which is full; so a slot changes hands only when one is given    *)
(* back, and the dispatch that follows takes the first eligible position   *)
(* of the deque.  That position is before the one of the waiting project,  *)
(* which moves up by as many places as are rotated behind it.              *)
(***************************************************************************)
LEMMA RotateOutMovesUp ==
    ASSUME NEW S, NEW s \in Seq(S), NEW k \in DOMAIN s, NEW j \in DOMAIN s, k < j
    PROVE  /\ RotateOut(s, k) \in Seq(S)
           /\ j - k \in DOMAIN RotateOut(s, k) /\ RotateOut(s, k)[j - k] = s[j]
<1>1. PICK n \in Nat : n = Len(s) /\ DOMAIN s = 1..n OBVIOUS
<1>2. k \in 1..n /\ j \in 1..n /\ k \in Int /\ j \in Int BY <1>1
<1>3. PICK u, v : u = SubSeq(s, k + 1, n) /\ v = SubSeq(s, 1, k - 1) OBVIOUS
<1>4. u \in Seq(S) /\ Len(u) = n - k /\ \A i \in 1..(n - k) : u[i] = s[i + k]
  <2>1. k \in Nat /\ k <= n /\ n <= Len(s) BY <1>1, <1>2
  <2> QED BY <1>3, <2>1, SliceAfter, Zenon
<1>5. v \in Seq(S)
  <2>1. k - 1 \in Nat /\ k - 1 <= Len(s) BY <1>1, <1>2
  <2> QED BY <1>3, <2>1, SliceBefore, Zenon
<1>6. PICK t : t = u \o v OBVIOUS
<1>7. /\ t \in Seq(S) /\ Len(t) = Len(u) + Len(v) /\ Len(v) \in Nat
      /\ \A i \in 1..(Len(u) + Len(v)) : t[i] = IF i <= Len(u) THEN u[i] ELSE v[i - Len(u)]
  <2>1. /\ t \in Seq(S) /\ Len(t) = Len(u) + Len(v)
        /\ \A i \in 1..(Len(u) + Len(v)) : t[i] = IF i <= Len(u) THEN u[i] ELSE v[i - Len(u)]
    BY <1>4, <1>5, <1>6, ConcatProperties, Zenon
  <2>. QED BY <1>5, <2>1
<1>8. PICK i \in Nat : i = j - k /\ i \in 1..(n - k) /\ i + k = j BY <1>2
<1>9. i \in 1..(Len(u) + Len(v)) /\ i <= Len(u) BY <1>2, <1>4, <1>7, <1>8
<1>10. t[i] = s[j] BY <1>4, <1>7, <1>8, <1>9
<1>11. RotateOut(s, k) = t BY <1>1, <1>3, <1>6 DEF RotateOut
<1>. QED BY <1>7, <1>8, <1>9, <1>10, <1>11

\* When the group is full a slot changes hands only through the dispatch after a release.
LEMMA FullGroupGrants ==
    ASSUME BooksInv, [Next]_admissionVars, activeTotal >= Capacity, NEW h \in Requests, NewHolder(h)
    PROVE  \E r \in Requests : \E gr :
             DispatchFirst([active EXCEPT ![project[r]] = @ - 1], activeTotal - 1, waiting, roundRobin, queued, gr)
<1>0. /\ active \in [Projects -> Nat] /\ activeTotal \in Nat /\ pc \in [Requests -> Location]
      /\ granted \in [Requests -> BOOLEAN] /\ roundRobin \in Seq(Projects)
      /\ \A s \in Requests : granted[s] => pc[s] \in {"queued", "cancelling"}
      /\ Capacity \in Nat
  BY ConfigurationAssumption DEF BooksInv, Books, Typed
<1>1. \A p : ~CanGrant(active, activeTotal, p) BY <1>0 DEF CanGrant
<1>2. ~(pc[h] = "holding" \/ (pc[h] \in {"queued", "cancelling"} /\ granted[h]))
      /\ (pc'[h] = "holding" \/ (pc'[h] \in {"queued", "cancelling"} /\ granted'[h]))
  BY DEF NewHolder, HasPermit, Waiting
<1>3. ASSUME NEW wait, NEW rr, NEW q, Dispatch(active, activeTotal, wait, rr, q, granted) PROVE granted' = granted
  BY <1>1, <1>3 DEF Dispatch, DispatchFirst, DispatchNobody, Eligible
<1>4. ASSUME NEW r \in Requests, NEW p \in Projects, Acquire(r, p) PROVE FALSE
  <2>1. CASE AcquireNow(r, p) BY <1>1, <2>1 DEF AcquireNow
  <2>2. CASE AcquireRejected(r, p) BY <1>2, <2>2 DEF AcquireRejected, admissionVars
  <2>3. CASE AcquireQueued(r, p)
    <3>1. pc[r] = "idle" /\ pc' = [pc EXCEPT ![r] = "queued"] /\ granted' = granted BY <1>3, <2>3 DEF AcquireQueued
    <3>2. h # r => pc'[h] = pc[h] BY <1>0, <3>1
    <3>3. ~granted[r] BY <1>0, <3>1
    <3>4. pc'[r] = "queued" BY <1>0, <3>1
    <3>. QED BY <1>2, <3>1, <3>2, <3>3, <3>4
  <2>. QED BY <1>4, <2>1, <2>2, <2>3 DEF Acquire
<1>5. ASSUME NEW r \in Requests, Resume(r) \/ Interrupt(r) \/ Forget(r) PROVE FALSE
  <2>1. /\ \A x \in Requests : x # r => pc'[x] = pc[x] /\ granted'[x] = granted[x]
    BY <1>0, <1>5 DEF Resume, Interrupt, Forget
  <2>2. CASE Resume(r) BY <1>0, <1>2, <2>1, <2>2 DEF Resume
  <2>3. CASE Interrupt(r) BY <1>0, <1>2, <2>1, <2>3 DEF Interrupt
  <2>4. CASE Forget(r) BY <1>0, <1>2, <2>1, <2>4 DEF Forget
  <2>. QED BY <1>5, <2>2, <2>3, <2>4
<1>6. ASSUME NEW r \in Requests, ReleaseAgain(r) PROVE FALSE BY <1>2, <1>6 DEF ReleaseAgain, admissionVars
<1>7. ASSUME NEW r \in Requests, CancelWaiting(r) PROVE FALSE
  <2>1. granted' = granted /\ pc' = [pc EXCEPT ![r] = "idle"] BY <1>3, <1>7 DEF CancelWaiting
  <2>2. h # r => pc'[h] = pc[h] BY <1>0, <2>1
  <2>3. pc'[r] = "idle" BY <1>0, <2>1
  <2>. QED BY <1>2, <2>1, <2>2, <2>3
<1>8. ASSUME NEW r \in Requests, CancelGranted(r) \/ Release(r)
      PROVE  \E gr : DispatchFirst([active EXCEPT ![project[r]] = @ - 1], activeTotal - 1, waiting, roundRobin, queued, gr)
  <2>1. PICK gr : /\ Dispatch([active EXCEPT ![project[r]] = @ - 1], activeTotal - 1, waiting, roundRobin, queued, gr)
                  /\ gr \in [Requests -> BOOLEAN] /\ \A x \in Requests : gr[x] => granted[x]
    <3>1. CASE Release(r) BY <1>0, <3>1 DEF Release, ReleaseLocked
    <3>2. CASE CancelGranted(r)
      <4>1. PICK gr : gr = [granted EXCEPT ![r] = FALSE] OBVIOUS
      <4>2. Dispatch([active EXCEPT ![project[r]] = @ - 1], activeTotal - 1, waiting, roundRobin, queued, gr)
        BY <3>2, <4>1 DEF CancelGranted, ReleaseLocked
      <4>3. gr \in [Requests -> BOOLEAN] /\ \A x \in Requests : gr[x] => granted[x] BY <1>0, <4>1
      <4>. QED BY <4>2, <4>3
    <3>. QED BY <1>8, <3>1, <3>2
  <2>2. granted' # gr
    <3>1. PICK l \in {"idle", "released"} : pc' = [pc EXCEPT ![r] = l] BY <1>8 DEF Release, CancelGranted
    <3>2. pc'[r] = l /\ (h # r => pc'[h] = pc[h]) BY <1>0, <3>1
    <3>. QED BY <1>2, <2>1, <3>1, <3>2
  <2>. QED BY <2>1, <2>2 DEF Dispatch, DispatchNobody
<1>9. CASE UNCHANGED admissionVars BY <1>2, <1>9 DEF admissionVars
<1>. QED BY <1>4, <1>5, <1>6, <1>7, <1>8, <1>9 DEF Next, CancelWaiter

LEMMA MovesUp ==
    ASSUME BooksInv, WorkConserving, [Next]_admissionVars, NEW p \in Projects,
           waiting[p] # <<>>, active[p] < Limit[p], waiting'[p] = waiting[p],
           NEW h \in Requests, NewHolder(h)
    PROVE  Position(p)' < Position(p)
<1>0. /\ active \in [Projects -> Nat] /\ activeTotal \in Nat /\ waiting \in [Projects -> Seq(Requests)]
      /\ roundRobin \in Seq(Projects) /\ IsInjective(roundRobin) /\ project \in [Requests -> Projects]
      /\ Range(roundRobin) = {z \in Projects : waiting[z] # <<>>} /\ activeTotal <= Capacity
      /\ Capacity \in Nat /\ Limit[p] \in Nat
  BY ConfigurationAssumption DEF BooksInv, Books, Typed, Queues, Slots
<1>1. activeTotal >= Capacity BY <1>0 DEF WorkConserving, CanGrant
<1>2. PICK r \in Requests : \E gr :
        DispatchFirst([active EXCEPT ![project[r]] = @ - 1], activeTotal - 1, waiting, roundRobin, queued, gr)
  BY <1>1, FullGroupGrants
<1>3. PICK act : act = [active EXCEPT ![project[r]] = @ - 1] OBVIOUS
<1>4. PICK k \in Eligible(act, activeTotal - 1, roundRobin) :
        /\ \A i \in Eligible(act, activeTotal - 1, roundRobin) : k <= i
        /\ waiting' = [waiting EXCEPT ![roundRobin[k]] = Tail(@)]
        /\ roundRobin' = IF Len(waiting[roundRobin[k]]) = 1 THEN RotateOut(roundRobin, k)
                         ELSE Append(RotateOut(roundRobin, k), roundRobin[k])
  BY <1>2, <1>3 DEF DispatchFirst
<1>5. k \in DOMAIN roundRobin /\ DOMAIN roundRobin = 1 .. Len(roundRobin) /\ Len(roundRobin) \in Nat
  <2>1. k \in 1 .. Len(roundRobin) BY DEF Eligible
  <2>2. roundRobin \in Seq(Projects) BY <1>0
  <2>3. DOMAIN roundRobin = 1 .. Len(roundRobin) /\ Len(roundRobin) \in Nat BY <2>2
  <2>. QED BY <2>1, <2>3
<1>6. PICK j \in DOMAIN roundRobin : roundRobin[j] = p BY <1>0 DEF Range
<1>7. j \in Eligible(act, activeTotal - 1, roundRobin)
  <2>3. PICK a \in Nat, l \in Nat, c \in Nat, t \in Nat :
          a = active[p] /\ l = Limit[p] /\ c = Capacity /\ t = activeTotal /\ a < l /\ t <= c
    BY <1>0
  <2>4. act[p] = a \/ act[p] = a - 1 BY <1>0, <1>3, <2>3
  <2>2. activeTotal - 1 < Capacity /\ act[p] < Limit[p] BY <2>3, <2>4
  <2>. QED BY <1>5, <1>6, <2>2 DEF Eligible, CanGrant
<1>8. roundRobin[k] # p
  <2>1. PICK w \in Seq(Requests) : w = waiting[p] /\ w # <<>> BY <1>0
  <2>2. Tail(w) # w
    <3>1. PICK n \in Nat : n = Len(w) /\ Len(Tail(w)) = n - 1 BY <2>1
    <3>2. n - 1 # n OBVIOUS
    <3>. QED BY <3>1, <3>2, Zenon
  <2>. QED BY <1>0, <1>4, <2>1, <2>2
<1>9. k < j /\ j \in Nat /\ k \in Nat /\ 1 <= k
  <2>1. k <= j /\ k # j BY <1>4, <1>6, <1>7, <1>8
  <2>. QED BY <1>5, <2>1
<1>10. PICK i \in Nat : i = j - k /\ i < j BY <1>9
<1>11. /\ RotateOut(roundRobin, k) \in Seq(Projects)
       /\ i \in DOMAIN RotateOut(roundRobin, k) /\ RotateOut(roundRobin, k)[i] = p
  BY <1>0, <1>5, <1>6, <1>9, <1>10, RotateOutMovesUp
<1>12. i \in DOMAIN roundRobin' /\ roundRobin'[i] = p
  <2>1. CASE roundRobin' = RotateOut(roundRobin, k) BY <1>11, <2>1
  <2>2. CASE roundRobin' = Append(RotateOut(roundRobin, k), roundRobin[k])
    <3>1. roundRobin[k] \in Projects BY <1>0, <1>5
    <3>2. PICK t \in Seq(Projects) : t = RotateOut(roundRobin, k) BY <1>11
    <3>3. i \in 1 .. Len(t) /\ Len(t) \in Nat BY <1>11, <3>2
    <3>. QED BY <1>11, <2>2, <3>1, <3>2, <3>3
  <2>. QED BY <1>4, <2>1, <2>2
<1>13. IsInjective(roundRobin')
  <2>1. BooksInv' BY BooksStep
  <2>. QED BY <2>1 DEF BooksInv, Books, Queues
<1>14. Position(p) = j BY <1>0, <1>6 DEF Position, IsInjective
<1>15. Position(p)' = i BY <1>12, <1>13 DEF Position, IsInjective
<1>. QED BY <1>10, <1>14, <1>15

\* Round robin across the projects that may run: every slot that goes to another project
\* moves a waiting project below its cap closer to the head of _round_robin.
THEOREM WaitersMoveUp == Spec => RoundRobinFair
<1> DEFINE Overtaken(p) == waiting[p] # <<>> /\ active[p] < Limit[p] /\ waiting'[p] = waiting[p]
                             /\ \E r \in Requests : NewHolder(r)
<1>1. BooksInv /\ WorkConserving /\ [Next]_admissionVars =>
        [\A p \in Projects : Overtaken(p) => Position(p)' < Position(p)]_admissionVars
  BY MovesUp
<1>. QED BY <1>1, BooksKept, WorkConserved, PTL DEF Spec, RoundRobinFair

-----------------------------------------------------------------------------
(***************************************************************************)
(* Endpoint admission.  Its inductive invariant, besides the types:        *)
(*   AllFit       where the worker is says what it has of ProjectAdmission; *)
(*   Entries      no request was let in by a period that is still to come; *)
(*   Validated    while its period lasts, a request that goes on has       *)
(*                authenticated with the snapshot that is published.       *)
(***************************************************************************)
Stage ==
    {"none", "started", "authenticated", "rechecking", "admission", "charging", "executing",
     "releasing", "responding", "fenced", "closed"}

Owners == Projects \cup {NoProject}

EndpointTypes ==
    /\ serving \in BOOLEAN /\ period \in Nat /\ generation \in Nat
    /\ owner \in [Endpoints -> Owners] /\ endpoint \in [Requests -> Endpoints]
    /\ stage \in [Requests -> Stage] /\ entered \in [Requests -> Nat]
    /\ pinned \in [Requests -> Owners \X Nat]
    /\ call \in [Requests -> {"none", "sent", "charged", "refused"}]
    /\ cancelled \in [Requests -> BOOLEAN]
    /\ response \in [Requests -> {"none", "headers", "complete", "refused", "aborted"}]
    /\ pc \in [Requests -> Location] /\ project \in [Requests -> Projects]

Fits(s, l) ==
    \/ s \in {"none", "started", "authenticated"} /\ l = "idle"
    \/ s = "admission" /\ l \in {"queued", "cancelling"}
    \/ s \in {"rechecking", "charging", "executing", "releasing"} /\ l = "holding"
    \/ s \in {"responding", "fenced", "closed"} /\ l \in {"idle", "released"}

AllFit == \A r \in Requests : Fits(stage[r], pc[r])

Entries == \A r \in Requests : entered[r] <= period

Validated ==
    \A r \in Requests :
        /\ stage[r] \in {"authenticated", "rechecking", "admission", "charging", "executing"}
        /\ ~Revoked(r) /\ (LeaseEnforced \/ RateMode = "group")
        => pinned[r] = <<owner[endpoint[r]], generation>>

EndpointInv == EndpointTypes /\ AllFit /\ Entries /\ Validated

RequestStep(r) ==
    \/ \E e \in Endpoints : Arrive(r, e)
    \/ RedisAnswers(r) \/ Acquires(r) \/ WorkerStep(r)
    \/ QueueTimeout(r) \/ ChargeFails(r) \/ Finish(r) \/ CancelWorker(r)

\* The steps of the control client.
ControlStep == Publish \/ Revoke \/ (~Busy /\ Allow)

\* What a request's step does to the other requests and to the control client.
Alone(r) ==
    /\ UNCHANGED controlVars
    /\ \A x \in Requests : x # r =>
         /\ stage'[x] = stage[x] /\ pc'[x] = pc[x] /\ project'[x] = project[x]
         /\ endpoint'[x] = endpoint[x] /\ entered'[x] = entered[x] /\ pinned'[x] = pinned[x]
         /\ response'[x] = response[x]

LEMMA Locations ==
    ASSUME EndpointTypes, AllFit, NEW r \in Requests, RequestStep(r)
    PROVE  EndpointTypes' /\ Alone(r) /\ Fits(stage'[r], pc'[r])
<1>0. /\ owner \in [Endpoints -> Owners] /\ endpoint \in [Requests -> Endpoints]
      /\ stage \in [Requests -> Stage] /\ entered \in [Requests -> Nat]
      /\ pinned \in [Requests -> Owners \X Nat]
      /\ call \in [Requests -> {"none", "sent", "charged", "refused"}]
      /\ cancelled \in [Requests -> BOOLEAN]
      /\ response \in [Requests -> {"none", "headers", "complete", "refused", "aborted"}]
      /\ pc \in [Requests -> Location] /\ project \in [Requests -> Projects]
      /\ period \in Nat /\ generation \in Nat
  BY DEF EndpointTypes
<1>1. UNCHANGED controlVars
  BY DEF RequestStep, Arrive, RedisAnswers, Acquires, WorkerStep, QueueTimeout, ChargeFails, Finish, CancelWorker,
         Refuse, BeginAdmitted, BeginQueued, BeginRejected, Authenticate, Admitted, Recheck, CheckAndGoOn, LeaveQueue, Charged,
         ReleasePermit, Send, SendRefused, Complete, Answer, Depart
<1>2. Fits(stage[r], pc[r]) BY DEF AllFit
<1>3. ASSUME stage' \in [Requests -> Stage], endpoint' \in [Requests -> Endpoints], entered' \in [Requests -> Nat],
             pinned' \in [Requests -> Owners \X Nat], call' \in [Requests -> {"none", "sent", "charged", "refused"}],
             cancelled' \in [Requests -> BOOLEAN],
             response' \in [Requests -> {"none", "headers", "complete", "refused", "aborted"}],
             pc' \in [Requests -> Location], project' \in [Requests -> Projects]
      PROVE  EndpointTypes'
  BY <1>1, <1>3 DEF EndpointTypes, controlVars
<1>4. ASSUME NEW s \in Stage, Fits(s, pc[r]), Go(r, s), UNCHANGED <<pc, project>>,
             \A x \in Requests : x # r =>
               /\ endpoint'[x] = endpoint[x] /\ entered'[x] = entered[x] /\ pinned'[x] = pinned[x]
               /\ response'[x] = response[x]
      PROVE  Alone(r) /\ Fits(stage'[r], pc'[r]) /\ stage' \in [Requests -> Stage]
  BY <1>0, <1>1, <1>4 DEF Go, Alone
<1>5. ASSUME NEW e \in Endpoints, Arrive(r, e) PROVE EndpointTypes' /\ Alone(r) /\ Fits(stage'[r], pc'[r])
  BY <1>0, <1>1, <1>2, <1>3, <1>4, <1>5 DEF Arrive, Fits, Stage, admissionVars
<1>6. CASE Authenticate(r)
  <2>1. Owner(r) \in Owners BY <1>0 DEF Owner
  <2>2. PICK s \in {"responding", "authenticated"} : Go(r, s) BY <1>6 DEF Authenticate
  <2>3. s \in Stage /\ Fits(s, pc[r]) BY <1>2, <1>6, <2>2 DEF Authenticate, Fits, Stage
  <2>4. /\ pinned' \in [Requests -> Owners \X Nat] /\ \A x \in Requests : x # r => pinned'[x] = pinned[x]
        /\ UNCHANGED <<endpoint, entered, call, cancelled, response, pc, project>>
    BY <1>0, <1>6, <2>1 DEF Authenticate, admissionVars
  <2>. QED BY <1>0, <1>3, <1>4, <2>2, <2>3, <2>4
<1>7. CASE Refuse(r) \/ BeginRejected(r)
  BY <1>0, <1>1, <1>2, <1>3, <1>4, <1>7 DEF Refuse, BeginRejected, AcquireRejected, Fits, Stage, admissionVars
<1>8. CASE BeginAdmitted(r)
  <2>1. Owner(r) \in Projects BY <1>0, <1>8 DEF Owner, BeginAdmitted, Owners
  <2>2. pc' = [pc EXCEPT ![r] = "holding"] /\ project' = [project EXCEPT ![r] = Owner(r)]
    BY <1>8 DEF BeginAdmitted, AcquireNow
  <2>3. Go(r, "rechecking") BY <1>8 DEF BeginAdmitted
  <2>5. stage' \in [Requests -> Stage] /\ stage'[r] = "rechecking" /\ \A x \in Requests : x # r => stage'[x] = stage[x]
    BY <1>0, <2>3 DEF Go, Stage
  <2>6. pc'[r] = "holding" /\ pc' \in [Requests -> Location] /\ project' \in [Requests -> Projects]
    BY <1>0, <2>1, <2>2 DEF Location
  <2>7. UNCHANGED <<endpoint, entered, pinned, call, cancelled, response>> BY <1>8 DEF BeginAdmitted
  <2>8. Fits(stage'[r], pc'[r]) BY <2>5, <2>6 DEF Fits
  <2>. QED BY <1>0, <1>1, <1>3, <2>2, <2>5, <2>6, <2>7, <2>8 DEF Alone
<1>9. CASE BeginQueued(r)
  <2>1. Owner(r) \in Projects BY <1>0, <1>9 DEF Owner, BeginQueued, Owners
  <2>2. pc' = [pc EXCEPT ![r] = "queued"] /\ project' = [project EXCEPT ![r] = Owner(r)]
    BY <1>9 DEF BeginQueued, AcquireQueued
  <2>3. Go(r, "admission") /\ UNCHANGED <<endpoint, entered, pinned, call, cancelled, response>>
    BY <1>9 DEF BeginQueued
  <2>. QED BY <1>0, <1>1, <1>3, <2>1, <2>2, <2>3 DEF Go, Stage, Location, Alone, Fits
<1>10. CASE Admitted(r) \/ Recheck(r)
  <2>0. CheckAndGoOn(r) BY <1>10 DEF Admitted, Recheck
  <2>1. pc' = [pc EXCEPT ![r] = "holding"] /\ project' = project
    BY <1>0, <1>2, <1>10 DEF Admitted, Resume, Recheck, Fits, admissionVars
  <2>2. PICK s \in {"charging", "executing", "releasing"} : Go(r, s) BY <2>0 DEF CheckAndGoOn, GoOn
  <2>3. /\ call' \in [Requests -> {"none", "sent", "charged", "refused"}]
        /\ UNCHANGED <<endpoint, entered, pinned, cancelled, response>>
    BY <1>0, <2>0 DEF CheckAndGoOn, GoOn
  <2>. QED BY <1>0, <1>1, <1>3, <2>1, <2>2, <2>3 DEF Go, Stage, Location, Alone, Fits
<1>11. CASE QueueTimeout(r)
  <2>1. /\ stage[r] = "admission" /\ pc' = [pc EXCEPT ![r] = "cancelling"] /\ project' = project
        /\ UNCHANGED requestVars
    BY <1>11 DEF QueueTimeout, Interrupt
  <2>. QED BY <1>0, <1>1, <1>3, <2>1 DEF Location, Alone, Fits, requestVars
<1>12. CASE LeaveQueue(r)
  <2>1. /\ pc' = [pc EXCEPT ![r] = "idle"] /\ project' = project
        /\ UNCHANGED <<endpoint, entered, pinned, call, cancelled, response>>
    BY <1>12 DEF LeaveQueue, CancelWaiter, CancelGranted, CancelWaiting
  <2>2. PICK s \in {"fenced", "responding"} : Go(r, s) BY <1>12 DEF LeaveQueue, AfterCleanUp
  <2>. QED BY <1>0, <1>1, <1>3, <2>1, <2>2 DEF Go, Stage, Location, Alone, Fits
<1>13. CASE ReleasePermit(r)
  <2>1. /\ pc' = [pc EXCEPT ![r] = "released"] /\ project' = project
        /\ UNCHANGED <<endpoint, entered, pinned, call, cancelled, response>>
    BY <1>13 DEF ReleasePermit, Release
  <2>2. PICK s \in {"fenced", "responding"} : Go(r, s) BY <1>13 DEF ReleasePermit, AfterCleanUp
  <2>. QED BY <1>0, <1>1, <1>3, <2>1, <2>2 DEF Go, Stage, Location, Alone, Fits
<1>14. CASE RedisAnswers(r) \/ Send(r)
  <2>1. UNCHANGED <<stage, endpoint, entered, pinned, cancelled, pc, project>>
    BY <1>14 DEF RedisAnswers, Send, admissionVars
  <2>2. /\ call' \in [Requests -> {"none", "sent", "charged", "refused"}]
        /\ response' \in [Requests -> {"none", "headers", "complete", "refused", "aborted"}]
        /\ \A x \in Requests : x # r => response'[x] = response[x]
    BY <1>0, <1>14 DEF RedisAnswers, Send
  <2>. QED BY <1>0, <1>1, <1>2, <1>3, <2>1, <2>2 DEF Alone
<1>15. CASE Charged(r) \/ ChargeFails(r) \/ Finish(r) \/ Complete(r)
  <2>1. UNCHANGED <<endpoint, entered, pinned, call, cancelled, response, pc, project>>
    BY <1>15 DEF Charged, ChargeFails, Finish, Complete, admissionVars
  <2>2. PICK s \in Stage : Go(r, s) /\ Fits(s, pc[r])
    BY <1>2, <1>15 DEF Charged, ChargeFails, Finish, Complete, Fits, Stage
  <2>. QED BY <1>0, <1>1, <1>3, <1>4, <2>1, <2>2
<1>16. CASE SendRefused(r)
  <2>1. UNCHANGED <<endpoint, entered, pinned, call, response, pc, project>>
    BY <1>16 DEF SendRefused, admissionVars
  <2>2. PICK s \in Stage : Go(r, s) /\ Fits(s, pc[r]) BY <1>2, <1>16 DEF SendRefused, Fits, Stage
  <2>3. cancelled' \in [Requests -> BOOLEAN] BY <1>0, <1>16 DEF SendRefused
  <2>. QED BY <1>0, <1>1, <1>3, <1>4, <2>1, <2>2, <2>3
<1>17. CASE CancelWorker(r)
  <2>1. /\ UNCHANGED <<endpoint, entered, pinned, call, response, project>>
        /\ cancelled' = [cancelled EXCEPT ![r] = TRUE] /\ Go(r, Unwind(r))
        /\ stage[r] \in {"started", "admission", "charging", "executing", "releasing", "responding"}
    BY <1>17 DEF CancelWorker, Interrupt, admissionVars
  <2>2. pc' = [pc EXCEPT ![r] = IF pc[r] = "queued" THEN "cancelling" ELSE pc[r]]
    BY <1>0, <1>17 DEF CancelWorker, Interrupt, admissionVars
  <2>3. PICK s \in Stage : s = Unwind(r) /\ (pc[r] # "queued" => Fits(s, pc[r])) /\ (pc[r] = "queued" => s = "admission")
    <3>1. CASE stage[r] \in {"started", "responding"}
      <4>1. Unwind(r) = "fenced" BY <3>1 DEF Unwind
      <4>. QED BY <1>2, <3>1, <4>1 DEF Fits, Stage
    <3>2. CASE stage[r] \in {"charging", "executing"}
      <4>1. Unwind(r) = "releasing" BY <3>2 DEF Unwind
      <4>. QED BY <1>2, <3>2, <4>1 DEF Fits, Stage
    <3>3. CASE stage[r] \in {"admission", "releasing"}
      <4>1. Unwind(r) = stage[r] BY <3>3 DEF Unwind
      <4>. QED BY <1>2, <3>3, <4>1 DEF Fits, Stage
    <3>. QED BY <2>1, <3>1, <3>2, <3>3
  <2>4. pc' \in [Requests -> Location] /\ cancelled' \in [Requests -> BOOLEAN]
        /\ (\A x \in Requests : x # r => pc'[x] = pc[x])
        /\ pc'[r] = IF pc[r] = "queued" THEN "cancelling" ELSE pc[r]
    BY <1>0, <2>1, <2>2 DEF Location
  <2>5. stage' \in [Requests -> Stage] /\ stage'[r] = s /\ \A x \in Requests : x # r => stage'[x] = stage[x]
    BY <1>0, <2>1, <2>3 DEF Go
  <2>6. Fits(stage'[r], pc'[r]) BY <2>3, <2>4, <2>5 DEF Fits
  <2>. QED BY <1>0, <1>1, <1>3, <2>1, <2>4, <2>5, <2>6 DEF Alone
<1>18. CASE Answer(r)
  <2>1. UNCHANGED <<endpoint, entered, pinned, call, cancelled, pc, project>> /\ Go(r, "closed")
    BY <1>18 DEF Answer, admissionVars
  <2>2. PICK a : /\ response' = [response EXCEPT ![r] = a]
                 /\ a = CASE response[r] = "none" -> "refused" [] response[r] = "headers" -> "aborted" [] OTHER -> response[r]
    BY <1>18 DEF Answer
  <2>3. a \in {"complete", "refused", "aborted"} BY <1>0, <2>2
  <2>4. response' \in [Requests -> {"none", "headers", "complete", "refused", "aborted"}]
        /\ \A x \in Requests : x # r => response'[x] = response[x]
    BY <1>0, <2>2, <2>3
  <2>5. Fits("closed", pc[r]) /\ "closed" \in Stage BY <1>2, <1>18 DEF Answer, Fits, Stage
  <2>. QED BY <1>0, <1>1, <1>3, <1>4, <2>1, <2>4, <2>5
<1>19. CASE Depart(r)
  <2>1. /\ Go(r, "none") /\ entered' = [entered EXCEPT ![r] = 0] /\ pinned' = [pinned EXCEPT ![r] = <<NoProject, 0>>]
        /\ cancelled' = [cancelled EXCEPT ![r] = FALSE] /\ response' = [response EXCEPT ![r] = "none"]
        /\ UNCHANGED <<endpoint, call, project>> /\ stage[r] = "closed"
    BY <1>19 DEF Depart, Forget, admissionVars
  <2>2. pc' \in [Requests -> Location] /\ pc'[r] = "idle" /\ \A x \in Requests : x # r => pc'[x] = pc[x]
    BY <1>0, <1>2, <1>19 DEF Depart, Forget, admissionVars, Fits, Location
  <2>3. stage' \in [Requests -> Stage] /\ stage'[r] = "none" /\ \A x \in Requests : x # r => stage'[x] = stage[x]
    BY <1>0, <2>1 DEF Go, Stage
  <2>4. <<NoProject, 0>> \in Owners \X Nat BY DEF Owners
  <2>5. Fits(stage'[r], pc'[r]) BY <2>2, <2>3 DEF Fits
  <2>6. Alone(r) BY <1>0, <1>1, <2>1, <2>2, <2>3 DEF Alone
  <2>. QED BY <1>0, <1>3, <2>1, <2>2, <2>3, <2>4, <2>5, <2>6
<1>. QED BY <1>5, <1>6, <1>7, <1>8, <1>9, <1>10, <1>11, <1>12, <1>13, <1>14, <1>15, <1>16, <1>17, <1>18, <1>19
         DEF RequestStep, Acquires, WorkerStep

GoingOn == {"authenticated", "rechecking", "admission", "charging", "executing"}

\* A request that goes on has just authenticated, or is what it was.
LEMMA GoesOn ==
    ASSUME EndpointTypes, NEW r \in Requests, RequestStep(r), stage'[r] \in GoingOn
    PROVE  \/ Authenticate(r) /\ pinned'[r] = <<Owner(r), generation>> /\ endpoint' = endpoint
           \/ stage[r] \in GoingOn /\ UNCHANGED <<endpoint, entered, pinned>>
<1>0. stage \in [Requests -> Stage] /\ pinned \in [Requests -> Owners \X Nat] BY DEF EndpointTypes
<1>1. ASSUME NEW e \in Endpoints, Arrive(r, e) PROVE FALSE BY <1>0, <1>1 DEF Arrive, Go, GoingOn
<1>2. CASE Authenticate(r) BY <1>0, <1>2 DEF Authenticate, Go, GoingOn
<1>3. CASE Depart(r) \/ Answer(r) \/ Complete(r) \/ ReleasePermit(r) \/ LeaveQueue(r) \/ Refuse(r) \/ BeginRejected(r)
           \/ SendRefused(r) \/ Finish(r) \/ ChargeFails(r)
  BY <1>0, <1>3 DEF Depart, Answer, Complete, ReleasePermit, LeaveQueue, Refuse, BeginRejected, SendRefused,
                    Finish, ChargeFails, AfterCleanUp, Go, GoingOn
<1>4. CASE RedisAnswers(r) \/ Send(r) \/ QueueTimeout(r)
  BY <1>4 DEF RedisAnswers, Send, QueueTimeout, requestVars
<1>5. CASE BeginAdmitted(r) \/ BeginQueued(r) \/ Recheck(r) \/ Admitted(r) \/ Charged(r)
  BY <1>5 DEF BeginAdmitted, BeginQueued, Recheck, Admitted, CheckAndGoOn, Charged, GoingOn
<1>6. CASE CancelWorker(r)
  <2>1. stage'[r] = Unwind(r) /\ UNCHANGED <<endpoint, entered, pinned>> BY <1>0, <1>6 DEF CancelWorker, Go
  <2>2. stage[r] \in {"started", "responding"} => Unwind(r) = "fenced" BY DEF Unwind
  <2>3. stage[r] \in {"charging", "executing"} => Unwind(r) = "releasing" BY DEF Unwind
  <2>4. stage[r] \in {"admission", "releasing"} => Unwind(r) = stage[r] BY DEF Unwind
  <2>. QED BY <1>6, <2>1, <2>2, <2>3, <2>4 DEF CancelWorker, GoingOn
<1>. QED BY <1>1, <1>2, <1>3, <1>4, <1>5, <1>6 DEF RequestStep, Acquires, WorkerStep

LEMMA RequestKeeps ==
    ASSUME EndpointInv, NEW r \in Requests, RequestStep(r)
    PROVE  EndpointInv'
<1>0. EndpointTypes /\ AllFit /\ Entries /\ Validated BY DEF EndpointInv
<1>1. EndpointTypes' /\ Alone(r) /\ Fits(stage'[r], pc'[r]) BY <1>0, Locations
<1>2. AllFit' BY <1>0, <1>1 DEF AllFit, Alone
<1>3. /\ UNCHANGED <<serving, period, generation, owner>>
      /\ \A x \in Requests : x # r => /\ stage'[x] = stage[x] /\ endpoint'[x] = endpoint[x]
                                      /\ entered'[x] = entered[x] /\ pinned'[x] = pinned[x]
  BY <1>1 DEF Alone, controlVars
<1>4. Entries'
  <2>1. entered'[r] \in {entered[r], period, 0}
    BY <1>0 DEF EndpointTypes, RequestStep, Arrive, RedisAnswers, Acquires, WorkerStep, QueueTimeout, ChargeFails, Finish,
                CancelWorker, Refuse, BeginAdmitted, BeginQueued, BeginRejected, Authenticate, Admitted, Recheck, CheckAndGoOn, LeaveQueue,
                Charged, ReleasePermit, Send, SendRefused, Complete, Answer, Depart, requestVars
  <2>2. entered'[r] <= period BY <1>0, <2>1 DEF EndpointTypes, Entries
  <2>. QED BY <1>0, <1>3, <2>2 DEF Entries
<1>5. Validated'
  <2>1. SUFFICES ASSUME NEW x \in Requests, stage'[x] \in GoingOn, serving, entered'[x] = period,
                        LeaseEnforced \/ RateMode = "group"
                 PROVE  pinned'[x] = <<owner[endpoint'[x]], generation>>
    BY <1>3 DEF Validated, Revoked, GoingOn
  <2>2. stage[x] \in GoingOn /\ entered[x] = period => pinned[x] = <<owner[endpoint[x]], generation>>
    BY <1>0, <2>1 DEF Validated, Revoked, GoingOn
  <2>3. CASE x # r BY <1>3, <2>1, <2>2, <2>3
  <2>4. CASE x = r
    <3>1. CASE pinned'[r] = <<Owner(r), generation>> /\ endpoint' = endpoint BY <2>4, <3>1 DEF Owner
    <3>2. CASE stage[r] \in GoingOn /\ UNCHANGED <<endpoint, entered, pinned>> BY <2>1, <2>2, <2>4, <3>2
    <3>. QED BY <1>0, <2>1, <2>4, <3>1, <3>2, GoesOn
  <2>. QED BY <2>3, <2>4
<1>. QED BY <1>1, <1>2, <1>4, <1>5 DEF EndpointInv

LEMMA ControlKeeps ==
    ASSUME EndpointInv, ControlStep \/ UNCHANGED endpointVars
    PROVE  EndpointInv'
<1>0. EndpointTypes /\ AllFit /\ Entries /\ Validated BY DEF EndpointInv
<1>1. UNCHANGED <<stage, endpoint, entered, pinned, call, cancelled, response, pc, project>>
  BY DEF ControlStep, Publish, Revoke, Allow, endpointVars, requestVars, admissionVars
<1>2. AllFit' BY <1>0, <1>1 DEF AllFit
<1>3. CASE Publish
  <2>1. UNCHANGED <<serving, period>> BY <1>3 DEF Publish
  <2>2. generation' \in Nat /\ owner' \in [Endpoints -> Owners] BY <1>0, <1>3 DEF Publish, EndpointTypes, Owners
  <2>3. EndpointTypes' BY <1>0, <1>1, <2>1, <2>2 DEF EndpointTypes
  <2>4. Entries' BY <1>0, <1>1, <2>1 DEF Entries
  <2>5. LeaseEnforced \/ RateMode = "group" => ~serving BY <1>3 DEF Publish, MayPublish
  <2>6. Validated' BY <2>1, <2>5 DEF Validated, Revoked
  <2>. QED BY <1>2, <2>3, <2>4, <2>6 DEF EndpointInv
<1>4. CASE Revoke
  <2>1. ~serving' /\ serving' \in BOOLEAN /\ UNCHANGED <<period, generation, owner>> BY <1>4 DEF Revoke
  <2>2. EndpointTypes' /\ Entries' BY <1>0, <1>1, <2>1 DEF EndpointTypes, Entries
  <2>3. Validated' BY <2>1 DEF Validated, Revoked
  <2>. QED BY <1>2, <2>2, <2>3 DEF EndpointInv
<1>5. CASE ~Busy /\ Allow
  <2>1. serving' \in BOOLEAN /\ period' = period + 1 /\ UNCHANGED <<generation, owner>> BY <1>5 DEF Allow
  <2>2. \A r \in Requests : entered'[r] <= period' /\ entered'[r] # period'
    BY <1>0, <1>1, <2>1 DEF EndpointTypes, Entries
  <2>3. EndpointTypes' BY <1>0, <1>1, <2>1 DEF EndpointTypes
  <2>4. Entries' BY <2>2 DEF Entries
  <2>5. Validated' BY <2>2 DEF Validated, Revoked
  <2>. QED BY <1>2, <2>3, <2>4, <2>5 DEF EndpointInv
<1>6. CASE UNCHANGED endpointVars
  <2>1. UNCHANGED <<serving, period, generation, owner>> BY <1>6 DEF endpointVars, controlVars
  <2>2. EndpointTypes' /\ Entries' BY <1>0, <1>1, <2>1 DEF EndpointTypes, Entries
  <2>3. Validated' BY <1>0, <1>1, <2>1 DEF Validated, Revoked
  <2>. QED BY <1>2, <2>2, <2>3 DEF EndpointInv
<1>. QED BY <1>3, <1>4, <1>5, <1>6 DEF ControlStep

LEMMA EndpointSteps ==
    ASSUME EndpointNext
    PROVE  ControlStep \/ \E r \in Requests : RequestStep(r)
BY DEF EndpointNext, EventLoop, ControlStep, RequestStep

\* A worker has exactly what its place in the handler says, requests are never ahead of
\* the serving period, and a request whose period lasts was validated against the
\* published snapshot.
THEOREM EndpointInvariant == EndpointSpec => []EndpointInv
<1>1. EndpointInit => EndpointInv
  <2>1. SUFFICES ASSUME EndpointInit PROVE EndpointInv OBVIOUS
  <2>4. /\ serving = FALSE /\ period = 0 /\ generation = 0 /\ owner = [e \in Endpoints |-> NoProject]
        /\ stage = [r \in Requests |-> "none"] /\ endpoint \in [Requests -> Endpoints]
        /\ entered = [r \in Requests |-> 0] /\ pinned = [r \in Requests |-> <<NoProject, 0>>]
        /\ call = [r \in Requests |-> "none"] /\ cancelled = [r \in Requests |-> FALSE]
        /\ response = [r \in Requests |-> "none"]
        /\ pc = [r \in Requests |-> "idle"] /\ project \in [Requests -> Projects]
    BY <2>1 DEF EndpointInit, Init
  <2>2. EndpointTypes
    <3>1. <<NoProject, 0>> \in Owners \X Nat /\ NoProject \in Owners BY DEF Owners
    <3>2. stage \in [Requests -> Stage] /\ pc \in [Requests -> Location] BY <2>4 DEF Stage, Location
    <3>3. pinned \in [Requests -> Owners \X Nat] /\ owner \in [Endpoints -> Owners] BY <2>4, <3>1
    <3>. QED BY <2>4, <3>2, <3>3 DEF EndpointTypes
  <2>3. AllFit /\ Entries /\ Validated BY <2>4 DEF AllFit, Fits, Entries, Validated
  <2>. QED BY <2>2, <2>3 DEF EndpointInv
<1>2. EndpointInv /\ [EndpointNext]_endpointVars => EndpointInv' BY EndpointSteps, RequestKeeps, ControlKeeps
<1>. QED BY <1>1, <1>2, PTL DEF EndpointSpec

-----------------------------------------------------------------------------
\* A request owns a slot exactly while its worker charges, executes or has still to
\* clean up, whatever fences, cancels or refuses it on the way (api.py, project_admission.py).
THEOREM SlotsFollowWork == EndpointSpec => []PermitFollowsWork
<1>1. ASSUME EndpointInv PROVE PermitFollowsWork
  <2>1. \A r \in Requests : Fits(stage[r], pc[r]) BY <1>1 DEF EndpointInv, AllFit
  <2>. QED BY <2>1 DEF PermitFollowsWork, Fits, HasPermit, Waiting
<1>. QED BY <1>1, EndpointInvariant, PTL

\* With a lease or a group rate a request whose period is still current runs on the
\* allocation that is published.
THEOREM RunsOnThePublished == EndpointSpec => []CurrentWhileServing
<1>1. EndpointInv => CurrentWhileServing BY DEF EndpointInv, Validated, CurrentWhileServing
<1>. QED BY <1>1, EndpointInvariant, PTL

\* Who charges or executes, and for which project.
AtWork == {"rechecking", "admission", "charging", "executing"}

LEMMA WorkIsCharged ==
    ASSUME EndpointTypes, NEW r \in Requests, RequestStep(r), stage'[r] \in AtWork
    PROVE  /\ UNCHANGED <<pinned, endpoint>>
           /\ \/ stage[r] = "authenticated" /\ serving /\ project'[r] = Owner(r)
              \/ stage[r] \in AtWork /\ project'[r] = project[r]
<1>0. stage \in [Requests -> Stage] /\ project \in [Requests -> Projects] BY DEF EndpointTypes
<1>1. ASSUME NEW e \in Endpoints, Arrive(r, e) PROVE FALSE BY <1>0, <1>1 DEF Arrive, Go, AtWork
<1>2. CASE Depart(r) \/ Answer(r) \/ Complete(r) \/ ReleasePermit(r) \/ LeaveQueue(r) \/ Refuse(r) \/ BeginRejected(r)
           \/ SendRefused(r) \/ Finish(r) \/ ChargeFails(r) \/ Authenticate(r)
  BY <1>0, <1>2 DEF Depart, Answer, Complete, ReleasePermit, LeaveQueue, Refuse, BeginRejected, SendRefused,
                    Finish, ChargeFails, Authenticate, AfterCleanUp, Go, AtWork
<1>3. CASE RedisAnswers(r) \/ Send(r) \/ QueueTimeout(r)
  BY <1>3 DEF RedisAnswers, Send, QueueTimeout, Interrupt, requestVars, admissionVars
<1>4. CASE BeginAdmitted(r) \/ BeginQueued(r)
  BY <1>0, <1>4 DEF BeginAdmitted, AcquireNow, BeginQueued, AcquireQueued
<1>5. CASE Recheck(r) \/ Admitted(r) \/ Charged(r)
  BY <1>5 DEF Recheck, Admitted, Resume, CheckAndGoOn, Charged, AtWork, admissionVars
<1>6. CASE CancelWorker(r)
  <2>1. stage'[r] = Unwind(r) /\ UNCHANGED <<endpoint, pinned, project>>
    BY <1>0, <1>6 DEF CancelWorker, Go, Interrupt, admissionVars
  <2>2. stage[r] \in {"started", "responding"} => Unwind(r) = "fenced" BY DEF Unwind
  <2>3. stage[r] \in {"charging", "executing"} => Unwind(r) = "releasing" BY DEF Unwind
  <2>4. stage[r] \in {"admission", "releasing"} => Unwind(r) = stage[r] BY DEF Unwind
  <2>. QED BY <1>6, <2>1, <2>2, <2>3, <2>4 DEF CancelWorker, AtWork
<1>. QED BY <1>1, <1>2, <1>3, <1>4, <1>5, <1>6 DEF RequestStep, Acquires, WorkerStep

\* FencedChargesMatch, with what makes it inductive: while the event loop is inside the
\* handler of an authenticated request with authority, nothing is published.
Matched ==
    (LeaseEnforced \/ RateMode = "group") =>
        \A r \in Requests :
            /\ (stage[r] = "authenticated" /\ serving) => pinned[r][1] = owner[endpoint[r]]
            /\ stage[r] \in AtWork => pinned[r][1] = project[r]

LEMMA AuthenticatesNow ==
    ASSUME EndpointTypes, NEW r \in Requests, RequestStep(r), stage'[r] = "authenticated"
    PROVE  \/ pinned'[r] = <<Owner(r), generation>> /\ endpoint' = endpoint
           \/ stage[r] = "authenticated" /\ UNCHANGED <<endpoint, pinned>>
<1>0. stage \in [Requests -> Stage] BY DEF EndpointTypes
<1>1. stage'[r] \in GoingOn BY DEF GoingOn
<1>2. \/ Authenticate(r) /\ pinned'[r] = <<Owner(r), generation>> /\ endpoint' = endpoint
      \/ stage[r] \in GoingOn /\ UNCHANGED <<endpoint, entered, pinned>>
  BY <1>1, GoesOn
<1>3. CASE ~Authenticate(r) /\ stage[r] \in GoingOn \ {"authenticated"}
  <2>1. CASE CancelWorker(r)
    <3>1. stage'[r] = Unwind(r) BY <1>0, <2>1 DEF CancelWorker, Go
    <3>2. stage[r] \in {"charging", "executing"} => Unwind(r) = "releasing" BY DEF Unwind
    <3>3. stage[r] = "admission" => Unwind(r) = "admission" BY DEF Unwind
    <3>. QED BY <1>3, <2>1, <3>1, <3>2, <3>3 DEF CancelWorker, GoingOn
  <2>2. ASSUME NEW e \in Endpoints, Arrive(r, e) PROVE FALSE BY <1>0, <2>2 DEF Arrive, Go
  <2>3. CASE stage' = stage BY <1>3, <2>3
  <2>. QED BY <1>0, <1>3, <2>1, <2>2, <2>3
       DEF RequestStep, Acquires, WorkerStep, Depart, Answer, Complete, ReleasePermit, LeaveQueue, Refuse, BeginRejected,
           SendRefused, Finish, ChargeFails, AfterCleanUp, RedisAnswers, Send, QueueTimeout, requestVars, BeginAdmitted,
           BeginQueued, Recheck, Admitted, CheckAndGoOn, GoOn, Charged, Go
<1>4. Authenticate(r) => stage[r] = "started" BY DEF Authenticate
<1>. QED BY <1>2, <1>3, <1>4 DEF GoingOn

\* With a lease or a group rate whoever charges or executes does it for the project its
\* snapshot was authenticated for (EndpointAdmission.acquire, _apply_desired_state).
THEOREM FencedChargesAreRight == EndpointSpec => []FencedChargesMatch
<1>1. EndpointInit => Matched BY DEF EndpointInit, Matched, AtWork
<1>2. ASSUME EndpointInv, Matched, [EndpointNext]_endpointVars PROVE Matched'
  <2>0. EndpointTypes /\ AllFit BY <1>2 DEF EndpointInv
  <2>1. SUFFICES ASSUME LeaseEnforced \/ RateMode = "group", NEW x \in Requests
                 PROVE  /\ (stage'[x] = "authenticated" /\ serving') => pinned'[x][1] = owner'[endpoint'[x]]
                        /\ stage'[x] \in AtWork => pinned'[x][1] = project'[x]
    BY DEF Matched
  <2>2. /\ (stage[x] = "authenticated" /\ serving) => pinned[x][1] = owner[endpoint[x]]
        /\ stage[x] \in AtWork => pinned[x][1] = project[x]
    BY <1>2, <2>1 DEF Matched
  <2>3. CASE ControlStep \/ UNCHANGED endpointVars
    <3>1. UNCHANGED <<stage, pinned, endpoint, project>>
      BY <2>3 DEF ControlStep, Publish, Revoke, Allow, endpointVars, requestVars, admissionVars
    <3>2. CASE Publish BY <2>1, <2>2, <3>1, <3>2 DEF Publish, MayPublish
    <3>3. CASE Revoke BY <2>2, <3>1, <3>3 DEF Revoke
    <3>4. CASE ~Busy /\ Allow BY <2>1, <2>2, <3>1, <3>4 DEF Busy, AtWork
    <3>5. CASE UNCHANGED endpointVars BY <2>2, <3>1, <3>5 DEF endpointVars, controlVars
    <3>. QED BY <2>3, <3>2, <3>3, <3>4, <3>5 DEF ControlStep
  <2>4. ASSUME NEW r \in Requests, RequestStep(r)
        PROVE  /\ (stage'[x] = "authenticated" /\ serving') => pinned'[x][1] = owner'[endpoint'[x]]
               /\ stage'[x] \in AtWork => pinned'[x][1] = project'[x]
    <3>1. Alone(r) BY <2>0, <2>4, Locations
    <3>2. UNCHANGED <<serving, owner>> BY <3>1 DEF Alone, controlVars
    <3>3. CASE x # r BY <2>2, <3>1, <3>2, <3>3 DEF Alone
    <3>4. CASE x = r
      <4>1. stage'[r] = "authenticated" /\ serving => pinned'[r][1] = owner[endpoint'[r]]
        BY <2>0, <2>2, <2>4, <3>4, AuthenticatesNow DEF Owner
      <4>2. stage'[r] \in AtWork => pinned'[r][1] = project'[r]
        BY <2>0, <2>2, <2>4, <3>4, WorkIsCharged DEF Owner
      <4>. QED BY <3>2, <3>4, <4>1, <4>2
    <3>. QED BY <3>3, <3>4
  <2>. QED BY <1>2, <2>3, <2>4, EndpointSteps
<1>3. Matched => FencedChargesMatch BY DEF Matched, FencedChargesMatch, AtWork
<1>. QED BY <1>1, <1>2, <1>3, EndpointInvariant, PTL DEF EndpointSpec

-----------------------------------------------------------------------------
LEMMA CancelledStays ==
    ASSUME EndpointTypes, AllFit, CancelledWorkStops, NEW r \in Requests, RequestStep(r), cancelled'[r]
    PROVE  stage'[r] \in {"admission", "releasing", "fenced", "closed"} /\ pc'[r] # "queued"
<1>0. stage \in [Requests -> Stage] /\ pc \in [Requests -> Location] /\ cancelled \in [Requests -> BOOLEAN]
  BY DEF EndpointTypes
<1>1. Fits(stage[r], pc[r]) BY DEF AllFit
<1>2. cancelled[r] => stage[r] \in {"admission", "releasing", "fenced", "closed"} /\ pc[r] # "queued"
  BY DEF CancelledWorkStops
<1>3. CASE CancelWorker(r)
  <2>1. stage'[r] = Unwind(r) BY <1>0, <1>3 DEF CancelWorker, Go
  <2>2. stage[r] \in {"started", "responding"} => Unwind(r) = "fenced" BY DEF Unwind
  <2>3. stage[r] \in {"charging", "executing"} => Unwind(r) = "releasing" BY DEF Unwind
  <2>4. stage[r] \in {"admission", "releasing"} => Unwind(r) = stage[r] BY DEF Unwind
  <2>5. stage'[r] \in {"admission", "releasing", "fenced", "closed"} BY <1>3, <2>1, <2>2, <2>3, <2>4 DEF CancelWorker
  <2>6. pc'[r] # "queued" BY <1>0, <1>3 DEF CancelWorker, Interrupt, admissionVars
  <2>. QED BY <2>5, <2>6
<1>4. CASE SendRefused(r)
  <2>1. pc' = pc /\ stage[r] \in {"executing", "responding"} BY <1>4 DEF SendRefused, admissionVars
  <2>2. stage'[r] \in {"releasing", "fenced"} BY <1>0, <1>4 DEF SendRefused, Go
  <2>. QED BY <1>1, <2>1, <2>2 DEF Fits
<1>5. CASE Depart(r) BY <1>0, <1>5 DEF Depart
<1>6. CASE cancelled' = cancelled
  <2>1. cancelled[r] /\ stage[r] \in {"admission", "releasing", "fenced", "closed"} /\ pc[r] # "queued" BY <1>2, <1>6
  <2>2. CASE LeaveQueue(r)
    BY <1>0, <2>1, <2>2 DEF LeaveQueue, AfterCleanUp, Go, CancelWaiter, CancelGranted, CancelWaiting
  <2>3. CASE ReleasePermit(r) BY <1>0, <2>1, <2>3 DEF ReleasePermit, Release, AfterCleanUp, Go
  <2>4. CASE Answer(r) BY <1>0, <2>1, <2>4 DEF Answer, Go, admissionVars
  <2>5. CASE RedisAnswers(r) BY <2>1, <2>5 DEF RedisAnswers, admissionVars
  <2>6. ASSUME NEW e \in Endpoints, Arrive(r, e) PROVE FALSE BY <2>1, <2>6 DEF Arrive
  <2>. QED BY <1>3, <1>4, <1>5, <2>1, <2>2, <2>3, <2>4, <2>5, <2>6
       DEF RequestStep, Acquires, WorkerStep, QueueTimeout, Interrupt, Admitted, Resume, ChargeFails, Finish, Refuse,
           BeginAdmitted, BeginQueued, BeginRejected, Recheck, Authenticate, Charged, Send, Complete
<1>. QED BY <1>3, <1>4, <1>5, <1>6
     DEF RequestStep, Arrive, RedisAnswers, Acquires, WorkerStep, QueueTimeout, ChargeFails, Finish, Refuse,
         BeginAdmitted, BeginQueued, BeginRejected, Recheck, Authenticate, Admitted, CheckAndGoOn, LeaveQueue, Charged,
         ReleasePermit, Send, Complete, Answer, requestVars

LEMMA OthersNotCancelled ==
    ASSUME EndpointTypes, NEW r \in Requests, RequestStep(r), NEW x \in Requests, x # r
    PROVE  cancelled'[x] = cancelled[x]
BY DEF EndpointTypes, RequestStep, Arrive, RedisAnswers, Acquires, WorkerStep, QueueTimeout, ChargeFails, Finish, Refuse,
       BeginAdmitted, BeginQueued, BeginRejected, Recheck, Authenticate, Admitted, CheckAndGoOn, LeaveQueue, Charged,
       ReleasePermit, Send, SendRefused, Complete, Answer, Depart, CancelWorker, requestVars

\* A worker that the middleware has cancelled neither charges nor executes nor responds,
\* and gives back a grant that raced the cancellation (synchronization.py, acquire()).
THEOREM CancelledWorkIsOver == EndpointSpec => []CancelledWorkStops
<1>1. EndpointInit => CancelledWorkStops BY DEF EndpointInit, CancelledWorkStops
<1>2. ASSUME EndpointInv, CancelledWorkStops, [EndpointNext]_endpointVars PROVE CancelledWorkStops'
  <2>0. EndpointTypes /\ AllFit BY <1>2 DEF EndpointInv
  <2>1. CASE ControlStep \/ UNCHANGED endpointVars
    <3>1. UNCHANGED <<stage, cancelled, pc>>
      BY <2>1 DEF ControlStep, Publish, Revoke, Allow, endpointVars, requestVars, admissionVars
    <3>. QED BY <1>2, <3>1 DEF CancelledWorkStops
  <2>2. ASSUME NEW r \in Requests, RequestStep(r) PROVE CancelledWorkStops'
    <3>1. Alone(r) BY <2>0, <2>2, Locations
    <3>2. \A x \in Requests : x # r => cancelled'[x] = cancelled[x] BY <2>0, <2>2, OthersNotCancelled
    <3>3. cancelled'[r] => stage'[r] \in {"admission", "releasing", "fenced", "closed"} /\ pc'[r] # "queued"
      BY <1>2, <2>0, <2>2, CancelledStays
    <3>. QED BY <1>2, <3>1, <3>2, <3>3 DEF CancelledWorkStops, Alone
  <2>. QED BY <1>2, <2>1, <2>2, EndpointSteps
<1>. QED BY <1>1, <1>2, EndpointInvariant, PTL DEF EndpointSpec

-----------------------------------------------------------------------------
\* Endpoint admission uses ProjectAdmission as it is meant to be used: every behaviour
\* of the requests, fences and cancellations is one of ProjectAdmission's, so all that
\* is proved of that module holds on a Runner.
THEOREM EndpointUsesAdmission == EndpointSpec => Spec
<1>1. EndpointInit => Init BY DEF EndpointInit
<1>2. ASSUME EndpointInv, [EndpointNext]_endpointVars PROVE [Next]_admissionVars
  <2>1. ControlStep \/ UNCHANGED endpointVars => UNCHANGED admissionVars
    BY DEF ControlStep, Publish, Revoke, Allow, endpointVars
  <2>2. ASSUME NEW r \in Requests, RequestStep(r) PROVE [Next]_admissionVars
    <3>1. CASE UNCHANGED admissionVars BY <3>1
    <3>2. Owner(r) # NoProject => Owner(r) \in Projects BY <1>2 DEF EndpointInv, EndpointTypes, Owner, Owners
    <3>3. CASE BeginAdmitted(r) \/ BeginQueued(r) \/ BeginRejected(r)
      BY <3>2, <3>3 DEF BeginAdmitted, BeginQueued, BeginRejected, Next, Acquire
    <3>4. CASE Resume(r) \/ Interrupt(r) \/ CancelWaiter(r) \/ Release(r) \/ Forget(r) BY <3>4 DEF Next
    <3>. QED BY <2>2, <3>1, <3>3, <3>4
         DEF RequestStep, Arrive, RedisAnswers, Acquires, WorkerStep, QueueTimeout, ChargeFails, Finish, CancelWorker,
             Refuse, Authenticate, Admitted, Recheck, LeaveQueue, Charged, ReleasePermit, Send, SendRefused, Complete, Answer, Depart
  <2>. QED BY <1>2, <2>1, <2>2, EndpointSteps
<1>. QED BY <1>1, <1>2, EndpointInvariant, PTL DEF EndpointSpec, Spec
=============================================================================
