---------------------------- MODULE GatesProofs ----------------------------
(***************************************************************************)
(* Theorems about the three in-process gates: the keyed work queue, the    *)
(* report budget and the model gate.                                       *)
(***************************************************************************)
EXTENDS ModelGate, WorkQueue, ReportBudget, QueueLemmas

-----------------------------------------------------------------------------
(***************************************************************************)
(* The keyed work queue.  pump starts from a queue that run or finish just *)
(* changed, so the inductive invariant is a predicate on values: QueueBooks*)
(* holds of the variables and of the arguments of Pump.                    *)
(***************************************************************************)
Busy(ent) == {k \in Keys : ent[k] = "running"}

QueueBooks(q, n, ent, ag, wait, fr) ==
    /\ q \in Seq(Keys) /\ IsInjective(q)
    /\ n \in Nat /\ n = Cardinality(Busy(ent)) /\ n <= Concurrency
    /\ ent \in [Keys -> {"none", "queued", "running"}]
    /\ \A k \in Keys : ent[k] = "queued" <=> k \in Range(q)
    /\ ag \subseteq Keys
    /\ wait \subseteq Triggers /\ fr \subseteq wait
    /\ \A c \in wait : ent[KeyOf[c]] # "none"
    /\ \A c \in wait \ fr : ent[KeyOf[c]] = "queued" \/ KeyOf[c] \in ag

WQInv ==
    /\ QueueBooks(queue, passes, entry, again, waiting, fresh)
    /\ queue # <<>> => passes = Concurrency

(* How many pump takes: what is queued or what is free, whichever is less. *)
LEMMA TakenIsLess ==
    ASSUME NEW q \in Seq(Keys), NEW n \in Nat, n <= Concurrency
    PROVE  /\ Taken(q, n) \in 0 .. Len(q)
           /\ n + Taken(q, n) <= Concurrency
           /\ Taken(q, n) = Len(q) \/ n + Taken(q, n) = Concurrency
<1>1. PICK f \in Nat : f = (IF n < Concurrency THEN Concurrency - n ELSE 0) /\ n + f = Concurrency
  BY QueueAssumption
<1>2. Len(q) \in Nat OBVIOUS
<1>3. Taken(q, n) = Min({Len(q), f}) BY <1>1 DEF Taken
<1>4. Min({Len(q), f}) \in {Len(q), f} /\ \A y \in {Len(q), f} : Min({Len(q), f}) <= y
  <2>1. PICK x \in {Len(q), f} : \A y \in {Len(q), f} : x <= y BY <1>1, <1>2
  <2> QED BY <2>1 DEF Min
<1> QED BY <1>1, <1>2, <1>3, <1>4, QueueAssumption

(* pump keeps the books, and stops only when nothing is queued or the      *)
(* ceiling is reached.  What begins was queued.                            *)
LEMMA PumpKeepsBooks ==
    ASSUME NEW q, NEW n, NEW ent, NEW ag, NEW wait, NEW fr,
           QueueBooks(q, n, ent, ag, wait, fr), Pump(q, n, ent, ag, wait, fr)
    PROVE  WQInv'
<1>1. PICK t : t = Taken(q, n) OBVIOUS
<1>2. PICK begins : begins = {q[i] : i \in 1 .. t} OBVIOUS
<1>3. /\ queue' = SubSeq(q, t + 1, Len(q))
      /\ passes' = n + t
      /\ entry' = [k \in Keys |-> IF k \in begins THEN "running" ELSE ent[k]]
      /\ again' = ag \ begins
      /\ waiting' = wait
      /\ fresh' = fr \cup {c \in wait : KeyOf[c] \in begins}
  BY <1>1, <1>2 DEF Pump
<1>4. /\ t \in 0 .. Len(q) /\ n + t <= Concurrency
      /\ t = Len(q) \/ n + t = Concurrency
  BY <1>1, TakenIsLess DEF QueueBooks
<1>5. /\ queue' \in Seq(Keys) /\ IsInjective(queue') /\ Len(queue') = Len(q) - t
      /\ Range(queue') = Range(q) \ begins
  BY <1>2, <1>3, <1>4, DropFront DEF QueueBooks
<1>6. IsFiniteSet(begins) /\ Cardinality(begins) = t
  BY <1>2, <1>4, FrontCardinality DEF QueueBooks
<1>7. begins \subseteq Range(q) /\ begins \subseteq Keys
  <2>1. \A i \in 1 .. t : i \in DOMAIN q /\ q[i] \in Keys BY <1>4 DEF QueueBooks
  <2> QED BY <2>1, <1>2 DEF Range
<1>8. passes' \in Nat /\ passes' = Cardinality(Busy(entry')) /\ passes' <= Concurrency
  <2>1. Busy(entry') = Busy(ent) \cup begins BY <1>3, <1>7 DEF Busy
  <2>2. Busy(ent) \cap begins = {} BY <1>7 DEF Busy, QueueBooks
  <2>3. IsFiniteSet(Busy(ent)) BY QueueAssumption, FS_Subset DEF Busy
  <2>4. Cardinality(Busy(ent) \cup begins) = Cardinality(Busy(ent)) + Cardinality(begins)
    BY <2>2, <2>3, <1>6, CardinalityDisjoint
  <2> QED BY <2>1, <2>4, <1>3, <1>4, <1>6 DEF QueueBooks
<1>9. entry' \in [Keys -> {"none", "queued", "running"}] BY <1>3 DEF QueueBooks
<1>10. \A k \in Keys : entry'[k] = "queued" <=> k \in Range(queue')
  BY <1>3, <1>5, <1>7 DEF QueueBooks
<1>11. again' \subseteq Keys /\ waiting' \subseteq Triggers /\ fresh' \subseteq waiting'
  BY <1>3 DEF QueueBooks
<1>12. ASSUME NEW c \in waiting'
       PROVE  /\ entry'[KeyOf[c]] # "none"
              /\ c \notin fresh' => entry'[KeyOf[c]] = "queued" \/ KeyOf[c] \in again'
  <2>1. c \in wait /\ KeyOf[c] \in Keys BY <1>3, QueueAssumption DEF QueueBooks
  <2> QED BY <2>1, <1>3 DEF QueueBooks
<1>13. queue' # <<>> => passes' = Concurrency
  BY <1>3, <1>4, <1>5 DEF QueueBooks
<1> QED BY <1>5, <1>8, <1>9, <1>10, <1>11, <1>12, <1>13 DEF WQInv, QueueBooks

(* A key that enters the queue was not in it. *)
LEMMA EnqueueKey ==
    ASSUME WQInv, NEW k \in Keys, entry[k] # "queued"
    PROVE  /\ Append(queue, k) \in Seq(Keys) /\ IsInjective(Append(queue, k))
           /\ Range(Append(queue, k)) = Range(queue) \cup {k}
           /\ [entry EXCEPT ![k] = "queued"] \in [Keys -> {"none", "queued", "running"}]
           /\ \A x \in Keys : [entry EXCEPT ![k] = "queued"][x] = "queued" <=> x \in Range(Append(queue, k))
<1>1. queue \in Seq(Keys) /\ IsInjective(queue) /\ k \notin Range(queue)
  BY DEF WQInv, QueueBooks
<1>2. /\ Append(queue, k) \in Seq(Keys) /\ IsInjective(Append(queue, k))
      /\ Range(Append(queue, k)) = Range(queue) \cup {k}
  BY <1>1, AppendFresh
<1> QED BY <1>2 DEF WQInv, QueueBooks

(* The books when pump starts, in run and in both ends of finish. *)
LEMMA CallNewBooks ==
    ASSUME WQInv, NEW c \in Triggers, CallNew(c)
    PROVE  QueueBooks(Append(queue, KeyOf[c]), passes, [entry EXCEPT ![KeyOf[c]] = "queued"],
                      again, waiting \cup {c}, fresh)
<1>1. PICK k \in Keys : k = KeyOf[c] BY QueueAssumption
<1>2. entry[k] = "none" /\ c \notin waiting BY <1>1 DEF CallNew
<1>3. PICK ent : ent = [entry EXCEPT ![k] = "queued"] OBVIOUS
<1>4. Busy(ent) = Busy(entry) BY <1>2, <1>3 DEF Busy, WQInv, QueueBooks
<1>5. /\ Append(queue, k) \in Seq(Keys) /\ IsInjective(Append(queue, k))
      /\ ent \in [Keys -> {"none", "queued", "running"}]
      /\ \A x \in Keys : ent[x] = "queued" <=> x \in Range(Append(queue, k))
  BY <1>2, <1>3, EnqueueKey
<1>6. ASSUME NEW d \in waiting \cup {c}
      PROVE  /\ ent[KeyOf[d]] # "none"
             /\ d \notin fresh => ent[KeyOf[d]] = "queued" \/ KeyOf[d] \in again
  <2>1. d \in Triggers /\ KeyOf[d] \in Keys BY QueueAssumption DEF WQInv, QueueBooks
  <2> QED BY <2>1, <1>1, <1>2, <1>3 DEF WQInv, QueueBooks
<1>7. QueueBooks(Append(queue, k), passes, ent, again, waiting \cup {c}, fresh)
  BY <1>4, <1>5, <1>6 DEF WQInv, QueueBooks
<1> QED BY <1>1, <1>3, <1>7

LEMMA FinishAgainBooks ==
    ASSUME WQInv, NEW k \in Keys, FinishAgain(k)
    PROVE  QueueBooks(Append(queue, k), passes - 1, [entry EXCEPT ![k] = "queued"], again, waiting, fresh)
<1>2. entry[k] = "running" /\ k \in again BY DEF FinishAgain
<1>3. PICK ent : ent = [entry EXCEPT ![k] = "queued"] OBVIOUS
<1>4. Busy(ent) = Busy(entry) \ {k} /\ k \in Busy(entry)
  BY <1>2, <1>3 DEF Busy, WQInv, QueueBooks
<1>5. /\ Append(queue, k) \in Seq(Keys) /\ IsInjective(Append(queue, k))
      /\ ent \in [Keys -> {"none", "queued", "running"}]
      /\ \A x \in Keys : ent[x] = "queued" <=> x \in Range(Append(queue, k))
  BY <1>2, <1>3, EnqueueKey
<1>6. passes - 1 \in Nat /\ passes - 1 = Cardinality(Busy(ent)) /\ passes - 1 <= Concurrency
  <2>1. IsFiniteSet(Busy(entry)) BY QueueAssumption, FS_Subset DEF Busy
  <2> QED BY <2>1, <1>4, CardinalityRemove, QueueAssumption DEF WQInv, QueueBooks
<1>7. ASSUME NEW d \in waiting
      PROVE  /\ ent[KeyOf[d]] # "none"
             /\ d \notin fresh => ent[KeyOf[d]] = "queued" \/ KeyOf[d] \in again
  <2>1. d \in Triggers /\ KeyOf[d] \in Keys BY QueueAssumption DEF WQInv, QueueBooks
  <2> QED BY <2>1, <1>2, <1>3 DEF WQInv, QueueBooks
<1>8. QueueBooks(Append(queue, k), passes - 1, ent, again, waiting, fresh)
  BY <1>5, <1>6, <1>7 DEF WQInv, QueueBooks
<1> QED BY <1>3, <1>8

LEMMA FinishLastBooks ==
    ASSUME WQInv, NEW k \in Keys, FinishLast(k)
    PROVE  QueueBooks(queue, passes - 1, [entry EXCEPT ![k] = "none"], again,
                      waiting \ TriggersOf(k), fresh \ TriggersOf(k))
<1>2. entry[k] = "running" /\ k \notin again BY DEF FinishLast
<1>3. PICK ent : ent = [entry EXCEPT ![k] = "none"] OBVIOUS
<1>4. Busy(ent) = Busy(entry) \ {k} /\ k \in Busy(entry)
  BY <1>2, <1>3 DEF Busy, WQInv, QueueBooks
<1>6. passes - 1 \in Nat /\ passes - 1 = Cardinality(Busy(ent)) /\ passes - 1 <= Concurrency
  <2>1. IsFiniteSet(Busy(entry)) BY QueueAssumption, FS_Subset DEF Busy
  <2> QED BY <2>1, <1>4, CardinalityRemove, QueueAssumption DEF WQInv, QueueBooks
<1>7. ASSUME NEW d \in waiting \ TriggersOf(k)
      PROVE  /\ ent[KeyOf[d]] # "none"
             /\ d \notin fresh => ent[KeyOf[d]] = "queued" \/ KeyOf[d] \in again
  <2>1. d \in Triggers /\ KeyOf[d] \in Keys BY QueueAssumption DEF WQInv, QueueBooks
  <2>2. KeyOf[d] # k BY <2>1 DEF TriggersOf
  <2> QED BY <2>1, <2>2, <1>2, <1>3 DEF WQInv, QueueBooks
<1>8. \A x \in Keys : ent[x] = "queued" <=> x \in Range(queue)
  BY <1>2, <1>3 DEF WQInv, QueueBooks
<1>9. QueueBooks(queue, passes - 1, ent, again, waiting \ TriggersOf(k), fresh \ TriggersOf(k))
  BY <1>3, <1>6, <1>7, <1>8 DEF WQInv, QueueBooks
<1> QED BY <1>3, <1>9

(* The start: nothing queued, nothing running. *)
LEMMA WQInvInit == WQInit => WQInv
<1> SUFFICES ASSUME WQInit PROVE WQInv OBVIOUS
<1>1. Busy(entry) = {} BY DEF WQInit, Busy
<1>2. Cardinality(Busy(entry)) = 0 BY <1>1, FS_EmptySet
<1>3. queue \in Seq(Keys) /\ IsInjective(queue) /\ Range(queue) = {}
  BY DEF WQInit, IsInjective, Range
<1> QED BY <1>2, <1>3, QueueAssumption DEF WQInit, WQInv, QueueBooks

(* Every call and every end of a pass keeps the books. *)
LEMMA WQInvNext == WQInv /\ [WQNext]_wqVars => WQInv'
<1> SUFFICES ASSUME WQInv, [WQNext]_wqVars PROVE WQInv' OBVIOUS
<1>1. ASSUME NEW c \in Triggers, CallFound(c) PROVE WQInv'
  <2>1. KeyOf[c] \in Keys BY QueueAssumption
  <2>2. \A d \in waiting : KeyOf[d] \in Keys BY QueueAssumption DEF WQInv, QueueBooks
  <2> QED BY <1>1, <2>1, <2>2 DEF CallFound, WQInv, QueueBooks, Busy
<1>2. ASSUME NEW c \in Triggers, CallNew(c) PROVE WQInv'
  <2>1. Pump(Append(queue, KeyOf[c]), passes, [entry EXCEPT ![KeyOf[c]] = "queued"],
             again, waiting \cup {c}, fresh)
    BY <1>2 DEF CallNew
  <2> QED BY <1>2, <2>1, CallNewBooks, PumpKeepsBooks
<1>3. ASSUME NEW k \in Keys, FinishAgain(k) PROVE WQInv'
  <2>1. Pump(Append(queue, k), passes - 1, [entry EXCEPT ![k] = "queued"], again, waiting, fresh)
    BY <1>3 DEF FinishAgain
  <2> QED BY <1>3, <2>1, FinishAgainBooks, PumpKeepsBooks
<1>4. ASSUME NEW k \in Keys, FinishLast(k) PROVE WQInv'
  <2>1. Pump(queue, passes - 1, [entry EXCEPT ![k] = "none"], again,
             waiting \ TriggersOf(k), fresh \ TriggersOf(k))
    BY <1>4 DEF FinishLast
  <2> QED BY <1>4, <2>1, FinishLastBooks, PumpKeepsBooks
<1>5. CASE UNCHANGED wqVars BY <1>5 DEF wqVars, WQInv, QueueBooks, Busy
<1> QED BY <1>1, <1>2, <1>3, <1>4, <1>5 DEF WQNext

LEMMA WQInvAlways == WQSpec => []WQInv
BY WQInvInit, WQInvNext, PTL DEF WQSpec

(* For every number of keys and every ceiling: active is the number of     *)
(* running entries, and a key waits in the queue only when the ceiling is  *)
(* reached (KeyedWorkQueue.run, pump and finish).                          *)
THEOREM CeilingIsUsed == WQSpec => []QueueBusy
<1>1. WQInv => QueueBusy
  <2> SUFFICES ASSUME WQInv PROVE QueueBusy OBVIOUS
  <2>1. Busy(entry) = {k \in Keys : entry[k] = "running"} BY DEF Busy
  <2>2. \A k \in Keys : k \in Range(queue) <=> \E i \in DOMAIN queue : queue[i] = k BY DEF Range
  <2> QED BY <2>1, <2>2 DEF WQInv, QueueBooks, QueueBusy
<1> QED BY <1>1, WQInvAlways, PTL

(***************************************************************************)
(* The queue keeps the safety part of its promise: every call and every    *)
(* end of a pass is one turn of CoalescedWork, or changes nothing there.   *)
(***************************************************************************)

(* What begins in a pump was queued, and covers every call of its key. *)
LEMMA PumpBegins ==
    ASSUME NEW q, NEW n, NEW ent, NEW ag, NEW wait, NEW fr,
           QueueBooks(q, n, ent, ag, wait, fr), Pump(q, n, ent, ag, wait, fr)
    PROVE  \E begins \in SUBSET Keys :
              /\ \A k \in begins : ent[k] = "queued"
              /\ entry' = [k \in Keys |-> IF k \in begins THEN "running" ELSE ent[k]]
              /\ waiting' = wait
              /\ fresh' = fr \cup {c \in wait : KeyOf[c] \in begins}
<1>1. PICK t : t = Taken(q, n) OBVIOUS
<1>2. PICK begins : begins = {q[i] : i \in 1 .. t} OBVIOUS
<1>3. t \in 0 .. Len(q) BY <1>1, TakenIsLess DEF QueueBooks
<1>4. \A i \in 1 .. t : i \in DOMAIN q /\ q[i] \in Keys BY <1>3 DEF QueueBooks
<1>5. begins \subseteq Keys /\ \A k \in begins : ent[k] = "queued"
  BY <1>2, <1>4 DEF QueueBooks, Range
<1> QED BY <1>1, <1>2, <1>5 DEF Pump

(* The promise counts as the queue does. *)
LEMMA PromiseCardinality == \A S : Promise!Cardinality(S) = Cardinality(S)
BY Zenon DEF Promise!Cardinality, Cardinality

(* A call that finds an entry is owed a pass. *)
LEMMA CallFoundTurn ==
    ASSUME WQInv, WQInv', NEW c \in Triggers, CallFound(c)
    PROVE  Promise!CWNext
<1>1. Promise!Turn({c}, {}, {}, {})
  <2>1. Promise!Cardinality({k \in Keys : entry'[k] = "running"}) <= Concurrency
    BY PromiseCardinality DEF WQInv, QueueBooks, Busy
  <2>2. c \notin fresh BY DEF CallFound, WQInv, QueueBooks
  <2> QED BY <2>1, <2>2 DEF CallFound, Promise!Turn
<1> QED BY <1>1 DEF Promise!CWNext

(* A call that opens an entry may begin passes at once, its own included. *)
LEMMA CallNewTurn ==
    ASSUME WQInv, WQInv', NEW c \in Triggers, CallNew(c)
    PROVE  Promise!CWNext
<1>1. Pump(Append(queue, KeyOf[c]), passes, [entry EXCEPT ![KeyOf[c]] = "queued"],
           again, waiting \cup {c}, fresh)
  BY DEF CallNew
<1>2. PICK k \in Keys : k = KeyOf[c] BY QueueAssumption
<1>3. c \notin waiting /\ c \notin fresh /\ entry[k] = "none" /\ entry \in [Keys -> {"none", "queued", "running"}]
  BY <1>2 DEF CallNew, WQInv, QueueBooks
<1>4. PICK ent : ent = [entry EXCEPT ![k] = "queued"] OBVIOUS
<1>a. /\ QueueBooks(Append(queue, k), passes, ent, again, waiting \cup {c}, fresh)
      /\ Pump(Append(queue, k), passes, ent, again, waiting \cup {c}, fresh)
  BY <1>1, <1>2, <1>4, CallNewBooks
<1>5. PICK begins \in SUBSET Keys :
              /\ \A x \in begins : ent[x] = "queued"
              /\ entry' = [x \in Keys |-> IF x \in begins THEN "running" ELSE ent[x]]
              /\ waiting' = waiting \cup {c}
              /\ fresh' = fresh \cup {d \in waiting \cup {c} : KeyOf[d] \in begins}
  BY <1>a, PumpBegins
<1>6. Promise!Cardinality({x \in Keys : entry'[x] = "running"}) <= Concurrency
  BY PromiseCardinality DEF WQInv, QueueBooks, Busy
<1>7. \A x \in Keys : entry'[x] = "running" <=> entry[x] = "running" \/ x \in begins
  BY <1>3, <1>4, <1>5
<1>8. \A x \in begins : entry[x] # "running" BY <1>3, <1>4, <1>5
<1>9. {x \in Keys : entry'[x] = "running"} = ({x \in Keys : entry[x] = "running"} \ {}) \cup begins
  BY <1>7
<1>10. Promise!Turn({c}, {}, {}, begins)
  BY <1>3, <1>5, <1>6, <1>8, <1>9 DEF Promise!Turn
<1> QED BY <1>10 DEF Promise!CWNext

(* A pass that is asked for again ends without an answer, and its key may  *)
(* begin again in the same turn.                                           *)
LEMMA FinishAgainTurn ==
    ASSUME WQInv, WQInv', NEW k \in Keys, FinishAgain(k)
    PROVE  Promise!CWNext
<1>1. Pump(Append(queue, k), passes - 1, [entry EXCEPT ![k] = "queued"], again, waiting, fresh)
  BY DEF FinishAgain
<1>3. entry[k] = "running" /\ entry \in [Keys -> {"none", "queued", "running"}] /\ fresh \subseteq waiting
  BY DEF FinishAgain, WQInv, QueueBooks
<1>4. PICK ent : ent = [entry EXCEPT ![k] = "queued"] OBVIOUS
<1>a. /\ QueueBooks(Append(queue, k), passes - 1, ent, again, waiting, fresh)
      /\ Pump(Append(queue, k), passes - 1, ent, again, waiting, fresh)
  BY <1>1, <1>4, FinishAgainBooks
<1>5. PICK begins \in SUBSET Keys :
              /\ \A x \in begins : ent[x] = "queued"
              /\ entry' = [x \in Keys |-> IF x \in begins THEN "running" ELSE ent[x]]
              /\ waiting' = waiting
              /\ fresh' = fresh \cup {d \in waiting : KeyOf[d] \in begins}
  BY <1>a, PumpBegins
<1>6. Promise!Cardinality({x \in Keys : entry'[x] = "running"}) <= Concurrency
  BY PromiseCardinality DEF WQInv, QueueBooks, Busy
<1>7. \A x \in begins : entry[x] # "running" \/ x = k BY <1>3, <1>4, <1>5
<1>8. {x \in Keys : entry'[x] = "running"} = ({x \in Keys : entry[x] = "running"} \ {k}) \cup begins
  BY <1>3, <1>4, <1>5
<1>9. Promise!Turn({}, {k}, {}, begins)
  BY <1>3, <1>5, <1>6, <1>7, <1>8 DEF Promise!Turn
<1> QED BY <1>3, <1>9 DEF Promise!CWNext

(* The last pass of an entry answers all its calls, and began after each. *)
LEMMA FinishLastTurn ==
    ASSUME WQInv, WQInv', NEW k \in Keys, FinishLast(k)
    PROVE  Promise!CWNext
<1>1. Pump(queue, passes - 1, [entry EXCEPT ![k] = "none"], again,
           waiting \ TriggersOf(k), fresh \ TriggersOf(k))
  BY DEF FinishLast
<1>3. /\ entry[k] = "running" /\ k \notin again
      /\ entry \in [Keys -> {"none", "queued", "running"}] /\ fresh \subseteq waiting
  BY DEF FinishLast, WQInv, QueueBooks
<1>4. PICK ent : ent = [entry EXCEPT ![k] = "none"] OBVIOUS
<1>a. /\ QueueBooks(queue, passes - 1, ent, again, waiting \ TriggersOf(k), fresh \ TriggersOf(k))
      /\ Pump(queue, passes - 1, ent, again, waiting \ TriggersOf(k), fresh \ TriggersOf(k))
  BY <1>1, <1>4, FinishLastBooks
<1>5. PICK begins \in SUBSET Keys :
              /\ \A x \in begins : ent[x] = "queued"
              /\ entry' = [x \in Keys |-> IF x \in begins THEN "running" ELSE ent[x]]
              /\ waiting' = waiting \ TriggersOf(k)
              /\ fresh' = (fresh \ TriggersOf(k)) \cup {d \in waiting \ TriggersOf(k) : KeyOf[d] \in begins}
  BY <1>a, PumpBegins
<1>6. Promise!Cardinality({x \in Keys : entry'[x] = "running"}) <= Concurrency
  BY PromiseCardinality DEF WQInv, QueueBooks, Busy
<1>7. \A x \in begins : entry[x] # "running" /\ x # k BY <1>3, <1>4, <1>5
<1>8. {x \in Keys : entry'[x] = "running"} = ({x \in Keys : entry[x] = "running"} \ {k}) \cup begins
  BY <1>3, <1>4, <1>5
<1> DEFINE answered == waiting \cap TriggersOf(k)
<1>9. answered \subseteq Triggers /\ \A c \in answered : KeyOf[c] = k BY DEF TriggersOf
<1>10. \A c \in answered : c \in fresh
  BY <1>3, <1>9 DEF WQInv, QueueBooks
<1>11. Promise!Turn({}, {k}, answered, begins)
  <2>1. \A c \in Triggers : c \in TriggersOf(k) <=> KeyOf[c] = k BY DEF TriggersOf
  <2> QED BY <1>3, <1>5, <1>6, <1>7, <1>8, <1>9, <1>10, <2>1 DEF Promise!Turn
<1> QED BY <1>3, <1>9, <1>11 DEF Promise!CWNext

(* For every set of keys and calls, what the queue does is what the        *)
(* promise allows: never more passes than the ceiling, never two for a     *)
(* key, a call answered only by a pass that began after it.  (That an owed *)
(* pass begins is the fairness part of QueueKeepsItsPromise.)              *)
THEOREM QueuePromiseSafety ==
    WQSpec => Promise!CWInit /\ [][Promise!CWNext]_(Promise!cwVars)
<1>1. WQInit => Promise!CWInit
  BY DEF WQInit, Promise!CWInit
<1>2. WQInv /\ WQInv' /\ [WQNext]_wqVars => [Promise!CWNext]_(Promise!cwVars)
  <2> SUFFICES ASSUME WQInv, WQInv', [WQNext]_wqVars PROVE [Promise!CWNext]_(Promise!cwVars)
    OBVIOUS
  <2>1. CASE UNCHANGED wqVars BY <2>1 DEF wqVars, Promise!cwVars
  <2>2. ASSUME NEW c \in Triggers, CallFound(c) \/ CallNew(c) PROVE Promise!CWNext
    BY <2>2, CallFoundTurn, CallNewTurn
  <2>3. ASSUME NEW k \in Keys, FinishAgain(k) \/ FinishLast(k) PROVE Promise!CWNext
    BY <2>3, FinishAgainTurn, FinishLastTurn
  <2> QED BY <2>1, <2>2, <2>3 DEF WQNext
<1> QED BY <1>1, <1>2, WQInvAlways, PTL DEF WQSpec

-----------------------------------------------------------------------------
(***************************************************************************)
(* The report budget.  bytes is a sum over the jobs at work; counted byte  *)
(* by byte it is a cardinality, which disjoint sets of jobs add up to.     *)
(***************************************************************************)

(* A set of jobs keeps finitely many bytes. *)
LEMMA BytesFinite ==
    ASSUME NEW S, S \subseteq Jobs
    PROVE  IsFiniteSet(BytesOf(S)) /\ Cardinality(BytesOf(S)) \in Nat
<1> DEFINE F == {{j} \X (1 .. Bytes[j]) : j \in S}
           f == [j \in S |-> {j} \X (1 .. Bytes[j])]
<1>1. IsFiniteSet(S) BY BudgetAssumption, FS_Subset
<1>2. f \in Surjection(S, F) BY DEF Surjection
<1>3. IsFiniteSet(F) BY <1>1, <1>2, FS_Surjection
<1>4. ASSUME NEW T \in F PROVE IsFiniteSet(T)
  <2>1. PICK j \in S : T = {j} \X (1 .. Bytes[j]) OBVIOUS
  <2>2. IsFiniteSet({j}) /\ IsFiniteSet(1 .. Bytes[j]) 
    <3>1. Bytes[j] \in Int BY BudgetAssumption
    <3>2. IsFiniteSet(1 .. Bytes[j]) BY <3>1, FS_Interval
    <3> QED BY <3>2, FS_Singleton, Zenon
  <2> QED BY <2>1, <2>2, FS_Product
<1>5. BytesOf(S) = UNION F BY DEF BytesOf
<1> HIDE DEF F
<1>6. IsFiniteSet(UNION F) BY <1>3, <1>4, FS_UNION
<1> QED BY <1>5, <1>6, FS_CardinalityType

(* One job keeps the bytes it declared. *)
LEMMA BytesOfOne ==
    ASSUME NEW j \in Jobs
    PROVE  Cardinality(BytesOf({j})) = Bytes[j]
<1>1. BytesOf({j}) = {j} \X (1 .. Bytes[j]) BY DEF BytesOf
<1>2. Bytes[j] \in Nat BY BudgetAssumption
<1>3. IsFiniteSet({j}) /\ Cardinality({j}) = 1 BY FS_Singleton
<1>4. PICK w \in Nat : w = Bytes[j] BY <1>2
<1>5. IsFiniteSet(1 .. w) /\ Cardinality(1 .. w) = w BY FS_Interval
<1>6. Cardinality({j} \X (1 .. w)) = Cardinality({j}) * Cardinality(1 .. w)
  BY <1>3, <1>5, FS_Product, Zenon
<1>7. 1 * w = w OBVIOUS
<1> QED BY <1>1, <1>3, <1>4, <1>5, <1>6, <1>7

(* Jobs that are not the same keep different bytes. *)
LEMMA BytesAdd ==
    ASSUME NEW S, S \subseteq Jobs, NEW T, T \subseteq Jobs, S \cap T = {}
    PROVE  Cardinality(BytesOf(S \cup T)) = Cardinality(BytesOf(S)) + Cardinality(BytesOf(T))
<1>1. BytesOf(S \cup T) = BytesOf(S) \cup BytesOf(T) BY DEF BytesOf
<1>2. BytesOf(S) \cap BytesOf(T) = {}
  <2> SUFFICES ASSUME NEW x \in BytesOf(S), x \in BytesOf(T) PROVE FALSE OBVIOUS
  <2>1. PICK i \in S : x \in {i} \X (1 .. Bytes[i]) BY DEF BytesOf
  <2>2. PICK j \in T : x \in {j} \X (1 .. Bytes[j]) BY DEF BytesOf
  <2>3. x[1] = i /\ x[1] = j BY <2>1, <2>2
  <2> QED BY <2>3
<1> QED BY <1>1, <1>2, BytesFinite, CardinalityDisjoint

Working(st) == {j \in Jobs : st[j] = "working"}

BudgetBooks(q, n, b, st) ==
    /\ q \in Seq(Jobs) /\ IsInjective(q)
    /\ st \in [Jobs -> {"idle", "queued", "working"}]
    /\ \A j \in Jobs : st[j] = "queued" <=> j \in Range(q)
    /\ n \in Nat /\ n = Cardinality(Working(st)) /\ n <= MaxJobs
    /\ b \in Nat /\ b = Cardinality(BytesOf(Working(st))) /\ b <= ByteLimit

RBInv == BudgetBooks(line, jobs, bytes, job) /\ HeadDoesNotFit

(* What the first jobs of the line need. *)
LEMMA LoadOfFront ==
    ASSUME NEW q \in Seq(Jobs), NEW t \in 0 .. Len(q)
    PROVE  /\ {q[i] : i \in 1 .. t} \subseteq Jobs
           /\ Load(SubSeq(q, 1, t)) = Cardinality(BytesOf({q[i] : i \in 1 .. t}))
           /\ Load(SubSeq(q, 1, t)) \in Nat
<1>1. {q[i] : i \in 1 .. t} \subseteq Jobs OBVIOUS
<1>2. Range(SubSeq(q, 1, t)) = {q[i] : i \in 1 .. t} BY FrontRange
<1> QED BY <1>1, <1>2, BytesFinite DEF Load

(* The jobs that pump starts fit, and the one behind them does not. *)
LEMMA StartsFit ==
    ASSUME NEW q \in Seq(Jobs), NEW n \in Nat, NEW b \in Nat, n <= MaxJobs, b <= ByteLimit
    PROVE  LET t == Starts(q, n, b)
           IN  /\ t \in 0 .. Len(q) /\ n + t <= MaxJobs
               /\ b + Load(SubSeq(q, 1, t)) <= ByteLimit
               /\ t < Len(q) => n + t + 1 > MaxJobs \/ b + Load(SubSeq(q, 1, t + 1)) > ByteLimit
<1> DEFINE A == {x \in 0 .. Len(q) : n + x <= MaxJobs /\ b + Load(SubSeq(q, 1, x)) <= ByteLimit} \cup {0}
<1>1. Len(q) \in Nat /\ A \subseteq 0 .. Len(q) /\ A # {} OBVIOUS
<1>2. Starts(q, n, b) = Max(A) BY DEF Starts
<1>3. SubSeq(q, 1, 0) = <<>> BY SubSeqEmpty
<1>4. Load(<<>>) = 0
  <2>1. Range(<<>>) = {} BY DEF Range
  <2>2. BytesOf({}) = {} BY DEF BytesOf
  <2> QED BY <2>1, <2>2, FS_EmptySet DEF Load
<1>5. \A x \in 0 .. Len(q) : x \in A <=> n + x <= MaxJobs /\ b + Load(SubSeq(q, 1, x)) <= ByteLimit
  <2>1. n + 0 <= MaxJobs /\ b + Load(SubSeq(q, 1, 0)) <= ByteLimit
    <3>1. b + 0 <= ByteLimit /\ n + 0 <= MaxJobs OBVIOUS
    <3> QED BY <3>1, <1>3, <1>4, Zenon
  <2> QED BY <2>1
<1> HIDE DEF A
<1>6. PICK t : t = Starts(q, n, b) OBVIOUS
<1>7. t \in A /\ \A x \in A : t >= x BY <1>1, <1>2, <1>6, MaxOfNaturals
<1>8. t \in 0 .. Len(q) /\ n + t <= MaxJobs /\ b + Load(SubSeq(q, 1, t)) <= ByteLimit
  BY <1>1, <1>5, <1>7
<1>9. ASSUME t < Len(q)
      PROVE  n + t + 1 > MaxJobs \/ b + Load(SubSeq(q, 1, t + 1)) > ByteLimit
  <2>1. PICK x \in 0 .. Len(q) : x = t + 1 BY <1>1, <1>8, <1>9
  <2>2. x \notin A BY <2>1, <1>7, <1>8
  <2>3. ~(n + x <= MaxJobs /\ b + Load(SubSeq(q, 1, x)) <= ByteLimit) BY <2>2, <1>5
  <2>4. Load(SubSeq(q, 1, x)) \in Nat BY LoadOfFront
  <2>5. x \in Int /\ n + x = n + t + 1 BY <2>1, <1>8
  <2> QED BY <2>1, <2>3, <2>4, <2>5, BudgetAssumption
<1> QED BY <1>6, <1>8, <1>9

(* pump keeps the books, and leaves at the head what does not fit. *)
LEMMA PumpLineKeepsBooks ==
    ASSUME NEW q, NEW n, NEW b, NEW st, BudgetBooks(q, n, b, st), PumpLine(q, n, b, st)
    PROVE  RBInv'
<1>1. PICK t : t = Starts(q, n, b) OBVIOUS
<1>2. PICK begins : begins = {q[i] : i \in 1 .. t} OBVIOUS
<1>3. /\ q \in Seq(Jobs) /\ IsInjective(q) /\ n \in Nat /\ b \in Nat
      /\ n <= MaxJobs /\ b <= ByteLimit /\ Len(q) \in Nat
  BY DEF BudgetBooks
<1>a. n = Cardinality(Working(st)) /\ b = Cardinality(BytesOf(Working(st)))
  BY DEF BudgetBooks
<1>4. /\ t \in 0 .. Len(q) /\ n + t <= MaxJobs
      /\ b + Load(SubSeq(q, 1, t)) <= ByteLimit
      /\ t < Len(q) => n + t + 1 > MaxJobs \/ b + Load(SubSeq(q, 1, t + 1)) > ByteLimit
  BY <1>1, <1>3, StartsFit
<1>5. /\ line' = SubSeq(q, t + 1, Len(q))
      /\ jobs' = n + t /\ bytes' = b + Load(SubSeq(q, 1, t))
      /\ job' = [j \in Jobs |-> IF j \in begins THEN "working" ELSE st[j]]
  BY <1>1, <1>2 DEF PumpLine
<1>6. /\ begins \subseteq Jobs
      /\ Load(SubSeq(q, 1, t)) = Cardinality(BytesOf(begins)) /\ Load(SubSeq(q, 1, t)) \in Nat
  BY <1>2, <1>3, <1>4, LoadOfFront
<1>7. /\ line' \in Seq(Jobs) /\ IsInjective(line') /\ Len(line') = Len(q) - t
      /\ Range(line') = Range(q) \ begins
      /\ \A i \in 1 .. Len(q) - t : line'[i] = q[i + t]
  BY <1>2, <1>3, <1>4, <1>5, DropFront
<1>8. IsFiniteSet(begins) /\ Cardinality(begins) = t BY <1>2, <1>3, <1>4, FrontCardinality
<1>9. begins \subseteq Range(q)
  <2>1. \A i \in 1 .. t : i \in DOMAIN q BY <1>3, <1>4
  <2> QED BY <2>1, <1>2 DEF Range
<1>10. /\ Working(job') = Working(st) \cup begins /\ Working(st) \cap begins = {}
       /\ Working(st) \subseteq Jobs
  BY <1>5, <1>6, <1>9 DEF Working, BudgetBooks
<1>11. jobs' \in Nat /\ jobs' = Cardinality(Working(job')) /\ jobs' <= MaxJobs
  <2>1. IsFiniteSet(Working(st)) BY <1>10, BudgetAssumption, FS_Subset
  <2>2. Cardinality(Working(st) \cup begins) = Cardinality(Working(st)) + Cardinality(begins)
    BY <2>1, <1>8, <1>10, CardinalityDisjoint
  <2>3. jobs' = Cardinality(Working(job')) BY <2>2, <1>a, <1>5, <1>8, <1>10
  <2> QED BY <2>3, <1>3, <1>4, <1>5
<1>12. bytes' \in Nat /\ bytes' = Cardinality(BytesOf(Working(job'))) /\ bytes' <= ByteLimit
  <2>1. Cardinality(BytesOf(Working(st) \cup begins))
          = Cardinality(BytesOf(Working(st))) + Cardinality(BytesOf(begins))
    BY <1>6, <1>10, BytesAdd
  <2>2. bytes' = Cardinality(BytesOf(Working(job'))) BY <2>1, <1>a, <1>5, <1>6, <1>10
  <2> QED BY <2>2, <1>3, <1>4, <1>5, <1>6
<1>13. job' \in [Jobs -> {"idle", "queued", "working"}] BY <1>5 DEF BudgetBooks
<1>14. \A j \in Jobs : job'[j] = "queued" <=> j \in Range(line')
  BY <1>5, <1>6, <1>7, <1>9 DEF BudgetBooks
<1>15. BudgetBooks(line', jobs', bytes', job')
  BY <1>7, <1>11, <1>12, <1>13, <1>14 DEF BudgetBooks
<1>16. ASSUME line' # <<>>
       PROVE  jobs' = MaxJobs \/ bytes' + Bytes[Head(line')] > ByteLimit
  <2>1. t < Len(q) /\ 1 \in 1 .. Len(q) - t BY <1>3, <1>4, <1>7, <1>16
  <2>2. PICK next \in Jobs : next = q[t + 1]
    BY <2>1, <1>3, <1>4
  <2>3. Head(line') = next
    <3>1. Head(line') = line'[1] BY <1>7, <1>16
    <3>2. line'[1] = q[1 + t] BY <2>1, <1>7
    <3> QED BY <3>1, <3>2, <2>2, <1>4
  <2>4. {q[i] : i \in 1 .. t + 1} = begins \cup {next}
    <3>1. 1 .. t + 1 = (1 .. t) \cup {t + 1} BY <1>4
    <3> QED BY <3>1, <1>2, <2>2
  <2>5. next \notin begins
    <3>1. ASSUME NEW i \in 1 .. t PROVE q[i] # next
      <4>1. i \in DOMAIN q /\ t + 1 \in DOMAIN q /\ i # t + 1 BY <2>1, <1>3, <1>4
      <4> QED BY <4>1, <2>2, <1>3 DEF IsInjective
    <3> QED BY <3>1, <1>2
  <2>6. Load(SubSeq(q, 1, t + 1)) = Load(SubSeq(q, 1, t)) + Bytes[next]
    <3>1. t + 1 \in 0 .. Len(q) BY <2>1, <1>3, <1>4
    <3>2. Load(SubSeq(q, 1, t + 1)) = Cardinality(BytesOf(begins \cup {next}))
      BY <3>1, <2>4, <1>3, LoadOfFront
    <3>3. begins \cap {next} = {} /\ {next} \subseteq Jobs BY <2>5
    <3>4. Cardinality(BytesOf(begins \cup {next}))
            = Cardinality(BytesOf(begins)) + Cardinality(BytesOf({next}))
      BY <3>3, <1>6, BytesAdd
    <3> QED BY <3>2, <3>4, <1>6, BytesOfOne
  <2>7. Bytes[next] \in Nat /\ MaxJobs \in Nat /\ ByteLimit \in Nat /\ t \in Nat
    BY <1>4, BudgetAssumption
  <2>8. n + t + 1 > MaxJobs \/ b + (Load(SubSeq(q, 1, t)) + Bytes[next]) > ByteLimit
    BY <2>1, <2>6, <1>4
  <2>9. n + t = MaxJobs \/ (b + Load(SubSeq(q, 1, t))) + Bytes[next] > ByteLimit
    <3>1. PICK ld \in Nat : ld = Load(SubSeq(q, 1, t)) BY <1>6
    <3>2. PICK w \in Nat : w = Bytes[next] BY <2>7
    <3>3. n + t + 1 > MaxJobs \/ b + (ld + w) > ByteLimit BY <2>8, <3>1, <3>2
    <3>4. n + t = MaxJobs \/ (b + ld) + w > ByteLimit BY <3>3, <2>7, <1>3, <1>4
    <3> QED BY <3>1, <3>2, <3>4
  <2> QED BY <2>3, <2>9, <1>5
<1> QED BY <1>15, <1>16 DEF RBInv, HeadDoesNotFit

(* A job that starts or ends: the counters move by what it declared. *)
LEMMA OneMoreWorking ==
    ASSUME NEW S, S \subseteq Jobs, NEW j \in Jobs, j \notin S
    PROVE  /\ Cardinality(S \cup {j}) = Cardinality(S) + 1
           /\ Cardinality(BytesOf(S \cup {j})) = Cardinality(BytesOf(S)) + Bytes[j]
           /\ Cardinality(S) \in Nat /\ Cardinality(BytesOf(S)) \in Nat /\ Bytes[j] \in Nat
<1>1. IsFiniteSet(S) BY BudgetAssumption, FS_Subset
<1>2. Cardinality(S \cup {j}) = Cardinality(S) + 1 /\ Cardinality(S) \in Nat
  BY <1>1, CardinalityAdd
<1>3. Cardinality(BytesOf(S \cup {j})) = Cardinality(BytesOf(S)) + Cardinality(BytesOf({j}))
  BY BytesAdd
<1>4. Cardinality(BytesOf({j})) = Bytes[j] BY BytesOfOne
<1>5. Cardinality(BytesOf(S)) \in Nat BY BytesFinite
<1>6. Bytes[j] \in Nat BY BudgetAssumption
<1> QED BY <1>2, <1>3, <1>4, <1>5, <1>6

LEMMA RBInvInit == RBInit => RBInv
<1> SUFFICES ASSUME RBInit PROVE RBInv OBVIOUS
<1>1. Working(job) = {} BY DEF RBInit, Working
<1>2. BytesOf({}) = {} BY DEF BytesOf
<1>3. Cardinality(Working(job)) = 0 /\ Cardinality(BytesOf(Working(job))) = 0
  BY <1>1, <1>2, FS_EmptySet
<1>4. line = <<>> /\ line \in Seq(Jobs) /\ IsInjective(line) /\ Range(line) = {}
  BY DEF RBInit, IsInjective, Range
<1> QED BY <1>3, <1>4, BudgetAssumption DEF RBInit, RBInv, BudgetBooks, HeadDoesNotFit

(* acquire of a job that fits. *)
LEMMA BeginKeeps ==
    ASSUME RBInv, NEW j \in Jobs, Begin(j)
    PROVE  RBInv'
<1>1. /\ job[j] = "idle" /\ line = <<>> /\ jobs < MaxJobs /\ bytes + Bytes[j] <= ByteLimit
      /\ job' = [job EXCEPT ![j] = "working"] /\ line' = line
      /\ jobs' = jobs + 1 /\ bytes' = bytes + Bytes[j]
  BY DEF Begin, Fits
<1>2. /\ Working(job') = Working(job) \cup {j} /\ j \notin Working(job)
      /\ Working(job) \subseteq Jobs
  BY <1>1 DEF Working, RBInv, BudgetBooks
<1>3. /\ Cardinality(Working(job')) = Cardinality(Working(job)) + 1
      /\ Cardinality(BytesOf(Working(job'))) = Cardinality(BytesOf(Working(job))) + Bytes[j]
      /\ Bytes[j] \in Nat
  BY <1>2, OneMoreWorking
<1>4. /\ jobs \in Nat /\ jobs = Cardinality(Working(job))
      /\ bytes \in Nat /\ bytes = Cardinality(BytesOf(Working(job)))
  BY DEF RBInv, BudgetBooks
<1>5. /\ jobs' \in Nat /\ jobs' = Cardinality(Working(job')) /\ jobs' <= MaxJobs
      /\ bytes' \in Nat /\ bytes' = Cardinality(BytesOf(Working(job'))) /\ bytes' <= ByteLimit
  BY <1>1, <1>3, <1>4, BudgetAssumption
<1>6. /\ job' \in [Jobs -> {"idle", "queued", "working"}]
      /\ \A x \in Jobs : job'[x] = "queued" <=> x \in Range(line')
  BY <1>1 DEF RBInv, BudgetBooks
<1> QED BY <1>1, <1>5, <1>6 DEF RBInv, BudgetBooks, HeadDoesNotFit

(* acquire of a job that has to wait: the first that waits does not fit. *)
LEMMA WaitKeeps ==
    ASSUME RBInv, NEW j \in Jobs, Wait(j)
    PROVE  RBInv'
<1>1. /\ job[j] = "idle" /\ ~Fits(j) /\ job' = [job EXCEPT ![j] = "queued"]
      /\ line' = Append(line, j) /\ jobs' = jobs /\ bytes' = bytes
  BY DEF Wait
<1>2. Working(job') = Working(job) BY <1>1 DEF Working, RBInv, BudgetBooks
<1>3. /\ line \in Seq(Jobs) /\ IsInjective(line) /\ j \notin Range(line) /\ jobs \in Nat /\ bytes \in Nat
      /\ jobs <= MaxJobs
  BY <1>1 DEF RBInv, BudgetBooks
<1>4. /\ line' \in Seq(Jobs) /\ IsInjective(line') /\ Range(line') = Range(line) \cup {j}
  BY <1>1, <1>3, AppendFresh
<1>5. /\ job' \in [Jobs -> {"idle", "queued", "working"}]
      /\ \A x \in Jobs : job'[x] = "queued" <=> x \in Range(line')
  BY <1>1, <1>4 DEF RBInv, BudgetBooks
<1>6. BudgetBooks(line', jobs', bytes', job') BY <1>1, <1>2, <1>4, <1>5 DEF RBInv, BudgetBooks
<1>7. HeadDoesNotFit'
  <2>1. CASE line = <<>>
    <3>1. Head(line') = j BY <2>1, <1>1
    <3>2. ~(jobs < MaxJobs /\ bytes + Bytes[j] <= ByteLimit) BY <2>1, <1>1 DEF Fits
    <3>3. Bytes[j] \in Nat BY BudgetAssumption
    <3> QED BY <3>1, <3>2, <3>3, <1>1, <1>3, BudgetAssumption DEF HeadDoesNotFit
  <2>2. CASE line # <<>>
    <3>1. Head(line') = Head(line) BY <2>2, <1>1, <1>3
    <3> QED BY <2>2, <3>1, <1>1 DEF RBInv, HeadDoesNotFit
  <2> QED BY <2>1, <2>2
<1> QED BY <1>6, <1>7 DEF RBInv

(* The timer of a job that waits: the books before it pumps. *)
LEMMA GiveUpKeeps ==
    ASSUME RBInv, NEW j \in Jobs, GiveUp(j)
    PROVE  RBInv'
<1>1. job[j] = "queued" /\ PumpLine(RemoveFirst(line, j), jobs, bytes, [job EXCEPT ![j] = "idle"])
  BY DEF GiveUp
<1>2. PICK st : st = [job EXCEPT ![j] = "idle"] OBVIOUS
<1>3. PICK q : q = RemoveFirst(line, j) OBVIOUS
<1>4. Working(st) = Working(job) BY <1>1, <1>2 DEF Working, RBInv, BudgetBooks
<1>5. line \in Seq(Jobs) /\ IsInjective(line) /\ j \in Range(line)
  BY <1>1 DEF RBInv, BudgetBooks
<1>6. q \in Seq(Jobs) /\ IsInjective(q) /\ Range(q) = Range(line) \ {j}
  BY <1>3, <1>5, RemoveFirstOfQueue
<1>7. /\ st \in [Jobs -> {"idle", "queued", "working"}]
      /\ \A x \in Jobs : st[x] = "queued" <=> x \in Range(q)
  BY <1>1, <1>2, <1>6 DEF RBInv, BudgetBooks
<1>8. BudgetBooks(q, jobs, bytes, st) BY <1>4, <1>6, <1>7 DEF RBInv, BudgetBooks
<1>9. PumpLine(q, jobs, bytes, st) BY <1>1, <1>2, <1>3
<1> QED BY <1>8, <1>9, PumpLineKeepsBooks

(* release: the books before it pumps. *)
LEMMA DoneKeeps ==
    ASSUME RBInv, NEW j \in Jobs, Done(j)
    PROVE  RBInv'
<1>1. job[j] = "working" /\ PumpLine(line, jobs - 1, bytes - Bytes[j], [job EXCEPT ![j] = "idle"])
  BY DEF Done
<1>2. PICK st : st = [job EXCEPT ![j] = "idle"] OBVIOUS
<1>3. /\ Working(job) = Working(st) \cup {j} /\ j \notin Working(st)
      /\ Working(st) \subseteq Jobs
  BY <1>1, <1>2 DEF Working, RBInv, BudgetBooks
<1>4. /\ Cardinality(Working(job)) = Cardinality(Working(st)) + 1
      /\ Cardinality(BytesOf(Working(job))) = Cardinality(BytesOf(Working(st))) + Bytes[j]
      /\ Cardinality(Working(st)) \in Nat /\ Cardinality(BytesOf(Working(st))) \in Nat /\ Bytes[j] \in Nat
  BY <1>3, OneMoreWorking
<1>5. /\ jobs \in Nat /\ jobs = Cardinality(Working(job)) /\ jobs <= MaxJobs
      /\ bytes \in Nat /\ bytes = Cardinality(BytesOf(Working(job))) /\ bytes <= ByteLimit
  BY DEF RBInv, BudgetBooks
<1>6. /\ jobs - 1 \in Nat /\ jobs - 1 = Cardinality(Working(st)) /\ jobs - 1 <= MaxJobs
      /\ bytes - Bytes[j] \in Nat /\ bytes - Bytes[j] = Cardinality(BytesOf(Working(st)))
      /\ bytes - Bytes[j] <= ByteLimit
  BY <1>4, <1>5, BudgetAssumption
<1>7. /\ st \in [Jobs -> {"idle", "queued", "working"}]
      /\ \A x \in Jobs : st[x] = "queued" <=> x \in Range(line)
  BY <1>1, <1>2 DEF RBInv, BudgetBooks
<1>8. BudgetBooks(line, jobs - 1, bytes - Bytes[j], st) BY <1>6, <1>7 DEF RBInv, BudgetBooks
<1>9. PumpLine(line, jobs - 1, bytes - Bytes[j], st) BY <1>1, <1>2
<1> QED BY <1>8, <1>9, PumpLineKeepsBooks

LEMMA RBInvAlways == RBSpec => []RBInv
<1>1. RBInv /\ [RBNext]_rbVars => RBInv'
  <2> SUFFICES ASSUME RBInv, [RBNext]_rbVars PROVE RBInv' OBVIOUS
  <2>1. ASSUME NEW j \in Jobs, Begin(j) \/ Wait(j) \/ GiveUp(j) \/ Done(j) PROVE RBInv'
    BY <2>1, BeginKeeps, WaitKeeps, GiveUpKeeps, DoneKeeps
  <2>2. CASE UNCHANGED rbVars
    BY <2>2 DEF rbVars, RBInv, BudgetBooks, HeadDoesNotFit, Working
  <2> QED BY <2>1, <2>2 DEF RBNext
<1> QED BY <1>1, RBInvInit, PTL DEF RBSpec

(* For all jobs, sizes and limits: the jobs at work and the bytes they     *)
(* keep are what the counters say, and within the budget                   *)
(* (ReportBudget.acquire, release, timer and pump).                        *)
THEOREM ReportMemoryBounded == RBSpec => []MemoryBounded
<1>1. RBInv => MemoryBounded BY DEF RBInv, BudgetBooks, MemoryBounded, Working
<1> QED BY <1>1, RBInvAlways, PTL

(* For all jobs, sizes and limits: whoever heads the line does not fit, so *)
(* that no release and no timeout leaves room unused.                      *)
THEOREM NobodyWaitsForRoom == RBSpec => []HeadDoesNotFit
<1>1. RBInv => HeadDoesNotFit BY DEF RBInv
<1> QED BY <1>1, RBInvAlways, PTL

-----------------------------------------------------------------------------
(***************************************************************************)
(* The model gate.  Every operation ends in _wake, which starts from a     *)
(* deque and a counter that the operation just changed: GateBooks holds of *)
(* the variables and of the arguments of Wake.                             *)
(***************************************************************************)
PermitsIn(st) == {c \in Calls : st[c] \in {"granted", "doomed", "holding"}}

GateBooks(q, st, n) ==
    /\ q \in Seq(Calls) /\ IsInjective(q)
    /\ st \in [Calls -> {"idle", "waiting", "dropped", "granted", "doomed", "holding"}]
    /\ \A i \in DOMAIN q : st[q[i]] \in {"waiting", "dropped"}
    /\ n \in Nat /\ n = Cardinality(PermitsIn(st))

GateInv ==
    /\ GateBooks(waiters, pc, active)
    /\ configured \in Nat /\ limit \in Nat
    /\ NoLostWakeup

(* One more position adds at most one pending future. *)
LEMMA PendingGrows ==
    ASSUME NEW q, NEW st, NEW k \in Nat \ {0}
    PROVE  /\ Cardinality(Pending(q, st, k)) \in Nat /\ Cardinality(Pending(q, st, k - 1)) \in Nat
           /\ Cardinality(Pending(q, st, k)) <= Cardinality(Pending(q, st, k - 1)) + 1
<1>1. IsFiniteSet(1 .. k) BY FS_Interval
<1>2. Pending(q, st, k - 1) \subseteq 1 .. k /\ Pending(q, st, k) \subseteq 1 .. k
  BY DEF Pending
<1>3. IsFiniteSet(Pending(q, st, k - 1)) /\ IsFiniteSet(Pending(q, st, k))
  BY <1>1, <1>2, FS_Subset
<1>4. Pending(q, st, k) \subseteq Pending(q, st, k - 1) \cup {k}
  BY DEF Pending
<1>5. /\ IsFiniteSet(Pending(q, st, k - 1) \cup {k})
      /\ Cardinality(Pending(q, st, k - 1) \cup {k}) = Cardinality(Pending(q, st, k - 1)) + 1
  <2>1. k \notin Pending(q, st, k - 1) BY DEF Pending
  <2> QED BY <2>1, <1>3, FS_AddElement
<1>6. Cardinality(Pending(q, st, k)) <= Cardinality(Pending(q, st, k - 1) \cup {k})
  BY <1>4, <1>5, FS_Subset
<1>7. /\ Cardinality(Pending(q, st, k)) \in Nat /\ Cardinality(Pending(q, st, k - 1)) \in Nat
      /\ Cardinality(Pending(q, st, k - 1) \cup {k}) \in Nat
  BY <1>3, <1>5, FS_CardinalityType
<1> QED BY <1>5, <1>6, <1>7

(* Where the loop of _wake stops: the deque is empty or the gate is full,  *)
(* and it was not full one future before.                                  *)
LEMMA WhereItStops ==
    ASSUME NEW q \in Seq(Calls), NEW st, NEW held \in Nat, NEW cap \in Nat
    PROVE  LET k == Popped(q, st, held, cap)
           IN  /\ k \in 0 .. Len(q)
               /\ k = Len(q) \/ held + Cardinality(Pending(q, st, k)) >= cap
               /\ k # 0 => held + Cardinality(Pending(q, st, k)) <= cap
<1> DEFINE A == {k \in 0 .. Len(q) : k = Len(q) \/ held + Cardinality(Pending(q, st, k)) >= cap}
<1>1. Len(q) \in Nat OBVIOUS
<1>2. A \subseteq Nat /\ A # {} BY <1>1
<1>3. PICK k : k = Popped(q, st, held, cap) OBVIOUS
<1>4. k = Min(A) BY <1>3 DEF Popped
<1>5. k \in A /\ \A x \in A : k <= x BY <1>2, <1>4, MinOfNaturals
<1>6. k \in 0 .. Len(q) /\ (k = Len(q) \/ held + Cardinality(Pending(q, st, k)) >= cap)
  BY <1>5
<1>7. ASSUME k # 0 PROVE held + Cardinality(Pending(q, st, k)) <= cap
  <2>1. k \in Nat \ {0} BY <1>6, <1>7
  <2>2. k - 1 \in 0 .. Len(q) /\ k - 1 # Len(q) /\ ~(k <= k - 1) BY <1>1, <1>6, <2>1
  <2>3. k - 1 \notin A BY <1>5, <2>2
  <2>4. ~(held + Cardinality(Pending(q, st, k - 1)) >= cap) BY <2>2, <2>3
  <2>5. PICK m \in Nat, n \in Nat : /\ m = Cardinality(Pending(q, st, k))
                                    /\ n = Cardinality(Pending(q, st, k - 1)) /\ m <= n + 1
    BY <2>1, PendingGrows
  <2>6. ~(held + n >= cap) BY <2>4, <2>5
  <2>7. held + m <= cap BY <2>5, <2>6
  <2> QED BY <2>5, <2>7
<1> QED BY <1>3, <1>6, <1>7

(* _wake: the books hold after it if they held before, no wakeup is lost,  *)
(* and what it grants is within the cap.                                   *)
LEMMA WakeKeepsBooks ==
    ASSUME NEW q, NEW st, NEW held, NEW cap \in Nat,
           GateBooks(q, st, held), Wake(q, st, held, cap)
    PROVE  /\ GateBooks(waiters', pc', active')
           /\ active' < cap => waiters' = <<>>
           /\ active' # held => active' <= cap
           /\ \A c \in Calls : pc'[c] # st[c] => st[c] = "waiting" /\ active' <= cap
           /\ \A c \in Calls, i \in DOMAIN q :
                st[c] # "granted" /\ pc'[c] = "granted" /\ st[q[i]] = "waiting" /\ pc'[q[i]] = "waiting"
                => \E m \in 1 .. i - 1 : q[m] = c
<1>1. PICK k : k = Popped(q, st, held, cap) OBVIOUS
<1>2. PICK P : P = Pending(q, st, k) OBVIOUS
<1>3. PICK resolved : resolved = {q[i] : i \in P} OBVIOUS
<1>4. /\ q \in Seq(Calls) /\ IsInjective(q) /\ held \in Nat /\ Len(q) \in Nat
      /\ DOMAIN q = 1 .. Len(q)
      /\ st \in [Calls -> {"idle", "waiting", "dropped", "granted", "doomed", "holding"}]
  BY DEF GateBooks
<1>a. PICK n \in Nat : n = Len(q) /\ DOMAIN q = 1 .. n BY <1>4
<1>5. /\ k \in 0 .. Len(q)
      /\ k = Len(q) \/ held + Cardinality(P) >= cap
      /\ k # 0 => held + Cardinality(P) <= cap
  BY <1>1, <1>2, <1>4, WhereItStops
<1>6. /\ waiters' = SubSeq(q, k + 1, Len(q))
      /\ active' = held + Cardinality(resolved)
      /\ pc' = [c \in Calls |-> IF c \in resolved THEN "granted" ELSE st[c]]
  BY <1>1, <1>2, <1>3 DEF Wake
<1>7. /\ P \subseteq DOMAIN q /\ P \subseteq 1 .. k
      /\ \A i \in 1 .. k : i \in P <=> st[q[i]] = "waiting"
  <2>1. k \in 0 .. n BY <1>a, <1>5
  <2>2. \A i \in 1 .. k : i \in DOMAIN q BY <2>1, <1>a
  <2> QED BY <2>2, <1>2 DEF Pending
<1>8. IsFiniteSet(P) /\ IsFiniteSet(resolved) /\ Cardinality(resolved) = Cardinality(P)
  <2>1. q \in Seq(Calls) /\ IsInjective(q) /\ P \subseteq DOMAIN q BY <1>4, <1>7
  <2>2. /\ IsFiniteSet(P) /\ IsFiniteSet({q[i] : i \in P})
        /\ Cardinality({q[i] : i \in P}) = Cardinality(P)
    BY <2>1, ElementsAt, Zenon
  <2> QED BY <1>3, <2>2, Zenon
<1>9. Cardinality(P) \in Nat BY <1>8, FS_CardinalityType
<1>10. active' \in Nat /\ active' = held + Cardinality(P) BY <1>4, <1>6, <1>8, <1>9
<1>11. \A c \in resolved : c \in Calls /\ st[c] = "waiting" BY <1>3, <1>4, <1>7
<1>12. active' = Cardinality(PermitsIn(pc'))
  <2>1. PermitsIn(pc') = PermitsIn(st) \cup resolved BY <1>4, <1>6, <1>11 DEF PermitsIn
  <2>2. PermitsIn(st) \cap resolved = {} BY <1>11 DEF PermitsIn
  <2>3. IsFiniteSet(PermitsIn(st)) BY GateAssumption, FS_Subset DEF PermitsIn
  <2>4. Cardinality(PermitsIn(st) \cup resolved) = Cardinality(PermitsIn(st)) + Cardinality(resolved)
    BY <2>2, <2>3, <1>8, CardinalityDisjoint
  <2>5. held = Cardinality(PermitsIn(st)) BY DEF GateBooks
  <2> QED BY <2>1, <2>4, <2>5, <1>6
<1>13. /\ waiters' \in Seq(Calls) /\ IsInjective(waiters') /\ Len(waiters') = Len(q) - k
       /\ \A i \in 1 .. Len(q) - k : waiters'[i] = q[i + k]
  BY <1>4, <1>5, <1>6, DropFront
<1>14. pc' \in [Calls -> {"idle", "waiting", "dropped", "granted", "doomed", "holding"}]
  BY <1>4, <1>6
<1>15. ASSUME NEW i \in DOMAIN q, i > k PROVE q[i] \in Calls /\ pc'[q[i]] = st[q[i]]
  <2>1. q[i] \in Calls BY <1>4
  <2>2. ASSUME NEW m \in P PROVE q[m] # q[i]
    <3>1. m \in DOMAIN q /\ m \in 1 .. k BY <1>7
    <3>2. m # i BY <3>1, <1>5, <1>15
    <3> QED BY <3>1, <3>2, <1>4 DEF IsInjective
  <2>3. q[i] \notin resolved BY <2>2, <1>3
  <2> QED BY <2>1, <2>3, <1>6
<1>16. ASSUME NEW i \in DOMAIN waiters' PROVE pc'[waiters'[i]] \in {"waiting", "dropped"}
  <2>1. i \in 1 .. Len(q) - k BY <1>13
  <2>2. i + k \in DOMAIN q /\ i + k > k
    <3>1. i \in 1 .. n - k /\ k \in 0 .. n BY <2>1, <1>a, <1>5
    <3> QED BY <3>1, <1>a
  <2>3. pc'[q[i + k]] = st[q[i + k]] BY <2>2, <1>15
  <2>4. waiters'[i] = q[i + k] BY <2>1, <1>13
  <2> QED BY <2>2, <2>3, <2>4 DEF GateBooks
<1>17. GateBooks(waiters', pc', active')
  BY <1>10, <1>12, <1>13, <1>14, <1>16 DEF GateBooks
<1>18. active' < cap => waiters' = <<>>
  <2>1. k = n => waiters' = <<>> BY <1>a, <1>13
  <2>2. k = n \/ ~(active' < cap) BY <1>a, <1>5, <1>10
  <2> QED BY <2>1, <2>2
<1>19. k = 0 => P = {} BY <1>7
<1>20. k = 0 => Cardinality(P) = 0 BY <1>19, FS_EmptySet
<1>21. active' # held => active' <= cap
  <2>1. held \in Nat BY <1>4
  <2>2. k = 0 => active' = held BY <2>1, <1>10, <1>20
  <2> QED BY <2>2, <1>5, <1>10
<1>22. ASSUME NEW c \in Calls, pc'[c] # st[c] PROVE st[c] = "waiting" /\ active' <= cap
  <2>1. c \in resolved BY <1>6, <1>22
  <2>2. k # 0 BY <2>1, <1>3, <1>19
  <2> QED BY <2>1, <2>2, <1>5, <1>10, <1>11
<1>23. ASSUME NEW c \in Calls, NEW i \in DOMAIN q,
              st[c] # "granted", pc'[c] = "granted", st[q[i]] = "waiting", pc'[q[i]] = "waiting"
       PROVE  \E m \in 1 .. i - 1 : q[m] = c
  <2>1. c \in resolved BY <1>6, <1>23
  <2>2. PICK m \in P : q[m] = c BY <2>1, <1>3
  <2>3. q[i] \notin resolved BY <1>4, <1>6, <1>23
  <2>4. i \notin 1 .. k BY <2>3, <1>3, <1>7, <1>23
  <2>5. m \in 1 .. i - 1
    <3>1. m \in 1 .. k BY <2>2, <1>7
    <3>2. i \in 1 .. n /\ k \in 0 .. n BY <1>a, <1>5
    <3> QED BY <3>1, <3>2, <2>4
  <2> QED BY <2>2, <2>5
<1> QED BY <1>17, <1>18, <1>21, <1>22, <1>23

(* What one step may not do, as GrantsWithinCap and FirstComeFirstServed   *)
(* say it.                                                                 *)
WithinCap ==
    /\ active' > active => active' <= limit'
    /\ \A c \in Calls : pc[c] = "idle" /\ pc'[c] = "granted" => active' <= configured'

InOrder ==
    \A i \in DOMAIN waiters : \A c \in Calls :
         /\ pc[c] \in {"idle", "waiting"} /\ pc'[c] = "granted"
         /\ pc[waiters[i]] = "waiting" /\ pc'[waiters[i]] = "waiting"
         => \E j \in 1 .. i - 1 : waiters[j] = c

(* An operation that ends in _wake: its deque keeps those who wait in      *)
(* their order, and only a call that arrives is held to the configured cap.*)
LEMMA WakeIsGood ==
    ASSUME GateInv, NEW q, NEW st, NEW held, NEW cap \in Nat,
           GateBooks(q, st, held), held <= active, Wake(q, st, held, cap),
           limit' = cap, configured' = configured,
           cap = configured \/ \A c \in Calls : pc[c] = "idle" => st[c] = "idle",
           \A c \in Calls : pc[c] \in {"idle", "waiting"} => st[c] # "granted",
           \A i \in DOMAIN waiters : pc[waiters[i]] = "waiting" =>
              \E x \in DOMAIN q : /\ q[x] = waiters[i] /\ st[q[x]] = "waiting"
                                  /\ \A m \in 1 .. x - 1 : \E j \in 1 .. i - 1 : waiters[j] = q[m]
    PROVE  GateInv' /\ WithinCap /\ InOrder
<1>1. /\ GateBooks(waiters', pc', active')
      /\ active' < cap => waiters' = <<>>
      /\ active' # held => active' <= cap
      /\ \A c \in Calls : pc'[c] # st[c] => st[c] = "waiting" /\ active' <= cap
      /\ \A c \in Calls, i \in DOMAIN q :
           st[c] # "granted" /\ pc'[c] = "granted" /\ st[q[i]] = "waiting" /\ pc'[q[i]] = "waiting"
           => \E m \in 1 .. i - 1 : q[m] = c
  BY WakeKeepsBooks
<1>2. GateInv' BY <1>1 DEF GateInv, NoLostWakeup
<1>3. WithinCap
  <2>1. active' > active => active' <= limit'
    <3>1. active \in Nat /\ active' \in Nat /\ held \in Nat BY <1>1 DEF GateInv, GateBooks
    <3> QED BY <1>1, <3>1
  <2>2. ASSUME NEW c \in Calls, pc[c] = "idle", pc'[c] = "granted" PROVE active' <= configured'
    <3>1. pc'[c] # st[c] BY <2>2
    <3>2. st[c] = "waiting" /\ active' <= cap BY <1>1, <3>1
    <3>3. cap = configured BY <2>2, <3>2
    <3> QED BY <3>2, <3>3
  <2> QED BY <2>1, <2>2 DEF WithinCap
<1>4. InOrder
  <2> SUFFICES ASSUME NEW i \in DOMAIN waiters, NEW c \in Calls,
                      pc[c] \in {"idle", "waiting"}, pc'[c] = "granted",
                      pc[waiters[i]] = "waiting", pc'[waiters[i]] = "waiting"
               PROVE  \E j \in 1 .. i - 1 : waiters[j] = c
    BY DEF InOrder
  <2>1. PICK x \in DOMAIN q : /\ q[x] = waiters[i] /\ st[q[x]] = "waiting"
                              /\ \A m \in 1 .. x - 1 : \E j \in 1 .. i - 1 : waiters[j] = q[m]
    OBVIOUS
  <2>2. PICK m \in 1 .. x - 1 : q[m] = c BY <1>1, <2>1
  <2> QED BY <2>1, <2>2
<1> QED BY <1>2, <1>3, <1>4

(* The callback of a changed limit. *)
LEMMA UpdateIsGood == ASSUME GateInv, Update PROVE GateInv' /\ WithinCap /\ InOrder
<1>1. Wake(waiters, pc, active, configured) /\ limit' = configured /\ configured' = configured
  BY DEF Update
<1>2. GateBooks(waiters, pc, active) /\ configured \in Nat /\ active \in Nat
  BY DEF GateInv, GateBooks
<1>3. active <= active BY <1>2
<1>4. \A i \in DOMAIN waiters : pc[waiters[i]] = "waiting" =>
         \E x \in DOMAIN waiters : /\ waiters[x] = waiters[i] /\ pc[waiters[x]] = "waiting"
                                   /\ \A m \in 1 .. x - 1 : \E j \in 1 .. i - 1 : waiters[j] = waiters[m]
  OBVIOUS
<1>5. \A c \in Calls : pc[c] \in {"idle", "waiting"} => pc[c] # "granted" OBVIOUS
<1> QED BY <1>1, <1>2, <1>3, <1>4, <1>5, WakeIsGood

(* A call arrives: it is the last of the deque. *)
LEMMA AcquireIsGood ==
    ASSUME GateInv, NEW d \in Calls, Acquire(d) PROVE GateInv' /\ WithinCap /\ InOrder
<1>1. PICK q : q = Append(waiters, d) OBVIOUS
<1>2. PICK st : st = [pc EXCEPT ![d] = "waiting"] OBVIOUS
<1>3. /\ pc[d] = "idle" /\ Wake(q, st, active, configured)
      /\ limit' = configured /\ configured' = configured
  BY <1>1, <1>2 DEF Acquire
<1>4. /\ waiters \in Seq(Calls) /\ IsInjective(waiters) /\ configured \in Nat /\ active \in Nat
      /\ pc \in [Calls -> {"idle", "waiting", "dropped", "granted", "doomed", "holding"}]
      /\ \A i \in DOMAIN waiters : pc[waiters[i]] \in {"waiting", "dropped"}
      /\ active = Cardinality(PermitsIn(pc))
  BY DEF GateInv, GateBooks
<1>5. PICK n \in Nat : n = Len(waiters) /\ DOMAIN waiters = 1 .. n BY <1>4
<1>6. d \notin Range(waiters) BY <1>3, <1>4 DEF Range
<1>7. /\ q \in Seq(Calls) /\ IsInjective(q) BY <1>1, <1>4, <1>6, AppendFresh
<1>8. /\ DOMAIN q = 1 .. n + 1 /\ q[n + 1] = d /\ \A i \in 1 .. n : q[i] = waiters[i]
  BY <1>1, <1>4, <1>5
<1>9. \A i \in 1 .. n : waiters[i] \in Calls /\ waiters[i] # d BY <1>4, <1>5, <1>6 DEF Range
<1>10. \A i \in DOMAIN q : st[q[i]] \in {"waiting", "dropped"}
  <2> TAKE i \in DOMAIN q
  <2>1. i \in 1 .. n \/ i = n + 1 BY <1>8
  <2> QED BY <2>1, <1>2, <1>4, <1>5, <1>8, <1>9
<1>11. PermitsIn(st) = PermitsIn(pc) BY <1>2, <1>3, <1>4 DEF PermitsIn
<1>12. GateBooks(q, st, active)
  <2>1. st \in [Calls -> {"idle", "waiting", "dropped", "granted", "doomed", "holding"}]
    BY <1>2, <1>4
  <2> QED BY <2>1, <1>4, <1>7, <1>10, <1>11 DEF GateBooks
<1>13. \A c \in Calls : pc[c] \in {"idle", "waiting"} => st[c] # "granted" BY <1>2, <1>4
<1>14. ASSUME NEW i \in DOMAIN waiters, pc[waiters[i]] = "waiting"
       PROVE  \E x \in DOMAIN q : /\ q[x] = waiters[i] /\ st[q[x]] = "waiting"
                                  /\ \A m \in 1 .. x - 1 : \E j \in 1 .. i - 1 : waiters[j] = q[m]
  <2>1. i \in 1 .. n /\ i \in DOMAIN q BY <1>5, <1>8
  <2>2. q[i] = waiters[i] /\ st[q[i]] = "waiting" BY <2>1, <1>2, <1>4, <1>8, <1>9, <1>14
  <2>3. ASSUME NEW m \in 1 .. i - 1 PROVE waiters[m] = q[m]
    <3>1. m \in 1 .. n BY <2>1
    <3> QED BY <3>1, <1>8
  <2> QED BY <2>1, <2>2, <2>3
<1>15. active <= active BY <1>4
<1> QED BY <1>3, <1>4, <1>12, <1>13, <1>14, <1>15, WakeIsGood

(* A permit comes back: from a call that ends, or from one that was        *)
(* cancelled after its grant.                                              *)
LEMMA PermitBackIsGood ==
    ASSUME GateInv, NEW d \in Calls, GiveBack(d) \/ Release(d) PROVE GateInv' /\ WithinCap /\ InOrder
<1>1. PICK st : st = [pc EXCEPT ![d] = "idle"] OBVIOUS
<1>2. PICK held : held = active - 1 OBVIOUS
<1>3. /\ pc[d] \in {"doomed", "holding"} /\ Wake(waiters, st, held, limit)
      /\ limit' = limit /\ configured' = configured
  BY <1>1, <1>2 DEF GiveBack, Release
<1>4. /\ waiters \in Seq(Calls) /\ IsInjective(waiters) /\ limit \in Nat /\ active \in Nat
      /\ pc \in [Calls -> {"idle", "waiting", "dropped", "granted", "doomed", "holding"}]
      /\ \A i \in DOMAIN waiters : pc[waiters[i]] \in {"waiting", "dropped"}
  BY DEF GateInv, GateBooks
<1>5. active = Cardinality(PermitsIn(pc)) BY DEF GateInv, GateBooks
<1>6. \A i \in DOMAIN waiters : waiters[i] \in Calls /\ waiters[i] # d BY <1>3, <1>4
<1>7. \A i \in DOMAIN waiters : st[waiters[i]] = pc[waiters[i]] BY <1>1, <1>4, <1>6
<1>8. PermitsIn(st) = PermitsIn(pc) \ {d} /\ d \in PermitsIn(pc) BY <1>1, <1>3, <1>4 DEF PermitsIn
<1>9. IsFiniteSet(PermitsIn(pc)) BY GateAssumption, FS_Subset DEF PermitsIn
<1>10. held \in Nat /\ held = Cardinality(PermitsIn(st)) /\ held <= active
  <2>1. /\ Cardinality(PermitsIn(pc)) \in Nat /\ Cardinality(PermitsIn(pc)) >= 1
        /\ Cardinality(PermitsIn(st)) = Cardinality(PermitsIn(pc)) - 1
    BY <1>8, <1>9, CardinalityRemove
  <2> QED BY <2>1, <1>2, <1>5
<1>11. GateBooks(waiters, st, held)
  <2>1. st \in [Calls -> {"idle", "waiting", "dropped", "granted", "doomed", "holding"}]
    BY <1>1, <1>4
  <2> QED BY <2>1, <1>4, <1>7, <1>10 DEF GateBooks
<1>12. /\ \A c \in Calls : pc[c] = "idle" => st[c] = "idle"
       /\ \A c \in Calls : pc[c] \in {"idle", "waiting"} => st[c] # "granted"
  BY <1>1, <1>4
<1>13. \A i \in DOMAIN waiters : pc[waiters[i]] = "waiting" =>
         \E x \in DOMAIN waiters : /\ waiters[x] = waiters[i] /\ st[waiters[x]] = "waiting"
                                   /\ \A m \in 1 .. x - 1 : \E j \in 1 .. i - 1 : waiters[j] = waiters[m]
  BY <1>7
<1> QED BY <1>3, <1>4, <1>10, <1>11, <1>12, <1>13, WakeIsGood

(* A cancelled call leaves the deque, if _wake has not dropped it yet. *)
LEMMA CleanUpIsGood ==
    ASSUME GateInv, NEW d \in Calls, CleanUp(d) PROVE GateInv' /\ WithinCap /\ InOrder
<1>1. PICK q : q = RemoveFirst(waiters, d) OBVIOUS
<1>2. PICK st : st = [pc EXCEPT ![d] = "idle"] OBVIOUS
<1>3. /\ pc[d] = "dropped" /\ Wake(q, st, active, limit)
      /\ limit' = limit /\ configured' = configured
  BY <1>1, <1>2 DEF CleanUp
<1>4. /\ waiters \in Seq(Calls) /\ IsInjective(waiters) /\ limit \in Nat /\ active \in Nat
      /\ pc \in [Calls -> {"idle", "waiting", "dropped", "granted", "doomed", "holding"}]
      /\ \A i \in DOMAIN waiters : pc[waiters[i]] \in {"waiting", "dropped"}
  BY DEF GateInv, GateBooks
<1>5. active = Cardinality(PermitsIn(pc)) BY DEF GateInv, GateBooks
<1>6. PICK n \in Nat : n = Len(waiters) /\ DOMAIN waiters = 1 .. n BY <1>4
<1>7. PermitsIn(st) = PermitsIn(pc) BY <1>2, <1>3, <1>4 DEF PermitsIn
<1>8. /\ q \in Seq(Calls) /\ IsInjective(q) /\ Range(q) = Range(waiters) \ {d}
  BY <1>1, <1>4, RemoveFirstOfQueue, RemoveFirstAbsent
<1>9. \A x \in Range(q) : x \in Calls /\ x # d /\ pc[x] \in {"waiting", "dropped"}
  <2> TAKE x \in Range(q)
  <2>1. x \in Range(waiters) /\ x # d BY <1>8
  <2>2. PICK i \in DOMAIN waiters : waiters[i] = x BY <2>1 DEF Range
  <2>3. waiters[i] \in Calls BY <1>4
  <2> QED BY <2>1, <2>2, <2>3, <1>4
<1>10. \A i \in DOMAIN q : st[q[i]] \in {"waiting", "dropped"}
  <2> TAKE i \in DOMAIN q
  <2>1. q[i] \in Range(q) BY DEF Range
  <2> QED BY <2>1, <1>2, <1>4, <1>9
<1>11. GateBooks(q, st, active)
  <2>1. st \in [Calls -> {"idle", "waiting", "dropped", "granted", "doomed", "holding"}]
    BY <1>2, <1>4
  <2> QED BY <2>1, <1>4, <1>5, <1>7, <1>8, <1>10 DEF GateBooks
<1>12. /\ \A c \in Calls : pc[c] = "idle" => st[c] = "idle"
       /\ \A c \in Calls : pc[c] \in {"idle", "waiting"} => st[c] # "granted"
  BY <1>2, <1>4
<1>13. ASSUME NEW i \in DOMAIN waiters, pc[waiters[i]] = "waiting"
       PROVE  \E x \in DOMAIN q : /\ q[x] = waiters[i] /\ st[q[x]] = "waiting"
                                  /\ \A m \in 1 .. x - 1 : \E j \in 1 .. i - 1 : waiters[j] = q[m]
  <2>1. waiters[i] \in Calls /\ waiters[i] # d BY <1>3, <1>4, <1>13
  <2>2. st[waiters[i]] = "waiting" BY <2>1, <1>2, <1>4, <1>13
  <2>3. CASE d \notin Range(waiters)
    <3>1. q = waiters BY <2>3, <1>1, <1>4, RemoveFirstAbsent
    <3> QED BY <3>1, <2>2
  <2>4. CASE d \in Range(waiters)
    <3>1. PICK k \in 1 .. n :
            /\ waiters[k] = d
            /\ \A x \in 1 .. n - 1 : q[x] = IF x < k THEN waiters[x] ELSE waiters[x + 1]
      BY <2>4, <1>1, <1>4, <1>6, RemoveFirstOfQueue
    <3>2. Len(q) = n - 1 BY <2>4, <1>1, <1>4, <1>6, RemoveFirstOfQueue
    <3>3. DOMAIN q = 1 .. n - 1 BY <3>2, <1>8
    <3>4. i \in 1 .. n /\ i # k BY <1>6, <2>1, <3>1
    <3>5. PICK x \in 1 .. n - 1 : (x = i /\ i < k) \/ (x = i - 1 /\ i > k) BY <3>4
    <3>6. q[x] = waiters[i]
      <4>1. (x < k /\ x = i) \/ (~(x < k) /\ x + 1 = i) BY <3>4, <3>5
      <4> QED BY <4>1, <3>1
    <3>7. ASSUME NEW m \in 1 .. x - 1 PROVE \E j \in 1 .. i - 1 : waiters[j] = q[m]
      <4>1. m \in 1 .. n - 1 BY <3>5
      <4>2. CASE m < k
        <5>1. m \in 1 .. i - 1 /\ q[m] = waiters[m] BY <4>1, <4>2, <3>1, <3>4, <3>5
        <5> QED BY <5>1
      <4>3. CASE ~(m < k)
        <5>1. m + 1 \in 1 .. i - 1 BY <4>1, <4>3, <3>4, <3>5
        <5>2. q[m] = waiters[m + 1] BY <4>1, <4>3, <3>1
        <5> QED BY <5>1, <5>2
      <4> QED BY <4>2, <4>3
    <3> QED BY <2>2, <3>3, <3>6, <3>7
  <2> QED BY <2>3, <2>4
<1>14. active <= active BY <1>4
<1> QED BY <1>3, <1>4, <1>11, <1>12, <1>13, <1>14, WakeIsGood

(* The steps that wake nobody. *)
LEMMA QuietStepsAreGood ==
    ASSUME GateInv,
           \/ \E n \in 1 .. MaxLimit : Configure(n)
           \/ \E c \in Calls : Resume(c) \/ Cancel(c)
           \/ UNCHANGED gateVars
    PROVE  GateInv' /\ WithinCap /\ InOrder
<1>1. /\ waiters' = waiters /\ active' = active /\ limit' = limit
  BY DEF Configure, Resume, Cancel, gateVars
<1>2. /\ waiters \in Seq(Calls) /\ IsInjective(waiters) /\ limit \in Nat /\ active \in Nat
      /\ pc \in [Calls -> {"idle", "waiting", "dropped", "granted", "doomed", "holding"}]
      /\ \A i \in DOMAIN waiters : pc[waiters[i]] \in {"waiting", "dropped"}
  BY DEF GateInv, GateBooks
<1>3. configured' \in Nat
  BY GateAssumption DEF GateInv, Configure, Resume, Cancel, gateVars
<1>4. /\ pc' \in [Calls -> {"idle", "waiting", "dropped", "granted", "doomed", "holding"}]
      /\ \A c \in Calls : pc'[c] = "granted" => pc[c] = "granted"
      /\ \A c \in Calls : pc[c] \in {"waiting", "dropped"} => pc'[c] \in {"waiting", "dropped"}
      /\ \A c \in Calls : pc[c] \in {"granted", "doomed", "holding"}
                            <=> pc'[c] \in {"granted", "doomed", "holding"}
  <2>1. CASE pc' = pc BY <2>1, <1>2
  <2>2. CASE \E c \in Calls : Resume(c) \/ Cancel(c)
    <3>1. PICK c \in Calls : \/ pc[c] = "granted" /\ pc' = [pc EXCEPT ![c] = "holding"]
                             \/ pc[c] = "waiting" /\ pc' = [pc EXCEPT ![c] = "dropped"]
                             \/ pc[c] = "granted" /\ pc' = [pc EXCEPT ![c] = "doomed"]
      BY <2>2 DEF Resume, Cancel
    <3> QED BY <3>1, <1>2
  <2> QED BY <2>1, <2>2 DEF Configure, gateVars
<1>5. PermitsIn(pc') = PermitsIn(pc) BY <1>4 DEF PermitsIn
<1>6. \A i \in DOMAIN waiters : waiters[i] \in Calls BY <1>2
<1>7. GateInv'
  <2>1. active = Cardinality(PermitsIn(pc)) BY DEF GateInv, GateBooks
  <2>2. GateBooks(waiters', pc', active') BY <2>1, <1>1, <1>2, <1>4, <1>5, <1>6 DEF GateBooks
  <2> QED BY <2>2, <1>1, <1>2, <1>3 DEF GateInv, NoLostWakeup
<1>8. WithinCap BY <1>1, <1>2, <1>4 DEF WithinCap
<1>9. InOrder BY <1>4 DEF InOrder
<1> QED BY <1>7, <1>8, <1>9

LEMMA GateStep == ASSUME GateInv, [GateNext]_gateVars PROVE GateInv' /\ WithinCap /\ InOrder
<1>1. CASE Update BY <1>1, UpdateIsGood
<1>2. ASSUME NEW c \in Calls, Acquire(c) PROVE GateInv' /\ WithinCap /\ InOrder
  BY <1>2, AcquireIsGood
<1>3. ASSUME NEW c \in Calls, GiveBack(c) \/ Release(c) PROVE GateInv' /\ WithinCap /\ InOrder
  BY <1>3, PermitBackIsGood
<1>4. ASSUME NEW c \in Calls, CleanUp(c) PROVE GateInv' /\ WithinCap /\ InOrder
  BY <1>4, CleanUpIsGood
<1>5. CASE \/ \E n \in 1 .. MaxLimit : Configure(n)
           \/ \E c \in Calls : Resume(c) \/ Cancel(c)
           \/ UNCHANGED gateVars
  BY <1>5, QuietStepsAreGood
<1> QED BY <1>1, <1>2, <1>3, <1>4, <1>5 DEF GateNext, Step

LEMMA GateInvAlways == GateSpec => []GateInv
<1>1. GateInit => GateInv
  <2> SUFFICES ASSUME GateInit PROVE GateInv OBVIOUS
  <2>1. PermitsIn(pc) = {} BY DEF GateInit, PermitsIn
  <2>2. Cardinality(PermitsIn(pc)) = 0 BY <2>1, FS_EmptySet
  <2>3. waiters \in Seq(Calls) /\ IsInjective(waiters) BY DEF GateInit, IsInjective
  <2>4. configured \in Nat /\ limit \in Nat BY GateAssumption DEF GateInit
  <2> QED BY <2>2, <2>3, <2>4 DEF GateInit, GateInv, GateBooks, NoLostWakeup
<1>2. GateInv /\ [GateNext]_gateVars => GateInv' BY GateStep
<1> QED BY <1>1, <1>2, PTL DEF GateSpec

(* For all calls and caps: active is the number of permits out, whatever   *)
(* order grants, cancellations and releases take (_ModelGate).             *)
THEOREM PermitsAreCounted == GateSpec => []ActiveIsPermits
<1>1. GateInv => ActiveIsPermits BY DEF GateInv, GateBooks, ActiveIsPermits, PermitsIn, Permits
<1> QED BY <1>1, GateInvAlways, PTL

(* For all calls and caps: no call is left waiting beside a free permit,   *)
(* after a release, a cancellation or a raised cap alike.                  *)
THEOREM WakeupsAreNotLost == GateSpec => []NoLostWakeup
<1>1. GateInv => NoLostWakeup BY DEF GateInv
<1> QED BY <1>1, GateInvAlways, PTL

(* For all calls and caps: a step that grants ends within the gate's cap,  *)
(* and a call that arrives is held to the cap configured by then.          *)
THEOREM GrantsStayWithinCap == GateSpec => GrantsWithinCap
<1>1. GateInv /\ [GateNext]_gateVars =>
        [/\ active' > active => active' <= limit'
         /\ \A c \in Calls : pc[c] = "idle" /\ pc'[c] = "granted" => active' <= configured']_gateVars
  BY GateStep DEF WithinCap
<1> QED BY <1>1, GateInvAlways, PTL DEF GateSpec, GrantsWithinCap

(* For all calls and caps: permits are granted in the order of the deque. *)
THEOREM PermitsGoInOrder == GateSpec => FirstComeFirstServed
<1>1. GateInv /\ [GateNext]_gateVars =>
        [\A i \in DOMAIN waiters : \A c \in Calls :
           /\ pc[c] \in {"idle", "waiting"} /\ pc'[c] = "granted"
           /\ pc[waiters[i]] = "waiting" /\ pc'[waiters[i]] = "waiting"
           => \E j \in 1 .. i - 1 : waiters[j] = c]_gateVars
  BY GateStep DEF InOrder
<1> QED BY <1>1, GateInvAlways, PTL DEF GateSpec, FirstComeFirstServed

=============================================================================
