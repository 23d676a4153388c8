---------------------------- MODULE QueueLemmas ----------------------------
(***************************************************************************)
(* Facts about queues without duplicates, least and greatest naturals and  *)
(* cardinalities, which the proofs of several components rest on.          *)
(***************************************************************************)
EXTENDS Integers, Sequences, SequencesExt, FiniteSets, SequenceTheorems, FiniteSetTheorems,
        WellFoundedInduction, TLAPS

-----------------------------------------------------------------------------
(* What the operations on deques do to a queue without duplicates. *)

(* Where the elements are after something was put at the end ... *)
LEMMA AppendAt ==
    ASSUME NEW S, NEW s \in Seq(S), NEW e \in S
    PROVE  /\ Append(s, e) \in Seq(S)
           /\ \A i \in DOMAIN s : i \in Nat /\ i < Len(s) + 1
           /\ \A i \in DOMAIN Append(s, e) :
                 \/ i \in DOMAIN s /\ Append(s, e)[i] = s[i]
                 \/ i = Len(s) + 1 /\ i \in Nat /\ Append(s, e)[i] = e
OBVIOUS

(* ... and after the first one was taken. *)
LEMMA TailAt ==
    ASSUME NEW S, NEW s \in Seq(S), s # <<>>
    PROVE  /\ Tail(s) \in Seq(S)
           /\ 1 \in DOMAIN s /\ Head(s) = s[1] /\ Head(s) \in S
           /\ \A i \in DOMAIN Tail(s) : i \in Nat /\ 1 < i + 1 /\ i + 1 \in DOMAIN s /\ Tail(s)[i] = s[i + 1]
OBVIOUS

(* What a queue holds before and after. *)
LEMMA RangeOfQueue ==
    ASSUME NEW S, NEW s \in Seq(S)
    PROVE  /\ Range(s) \subseteq S /\ Range(<<>>) = {}
           /\ \A e \in S : Range(Append(s, e)) = Range(s) \cup {e}
           /\ s # <<>> => Head(s) \in Range(s) /\ Range(Tail(s)) \subseteq Range(s)
<1>1. Range(s) \subseteq S /\ Range(<<>>) = {} BY DEF Range
<1>2. ASSUME NEW e \in S PROVE Range(Append(s, e)) = Range(s) \cup {e}
  <2>1. /\ DOMAIN Append(s, e) = 1 .. Len(s) + 1 /\ DOMAIN s = 1 .. Len(s) /\ Len(s) \in Nat
        /\ \A i \in 1 .. Len(s) : Append(s, e)[i] = s[i]
        /\ Append(s, e)[Len(s) + 1] = e
    OBVIOUS
  <2> QED BY <2>1 DEF Range
<1>3. ASSUME s # <<>> PROVE Head(s) \in Range(s) /\ Range(Tail(s)) \subseteq Range(s)
  BY <1>3, TailAt DEF Range
<1> QED BY <1>1, <1>2, <1>3

(* deque.append of an element the deque does not hold. *)
LEMMA AppendFresh ==
    ASSUME NEW S, NEW s \in Seq(S), NEW e \in S, e \notin Range(s), IsInjective(s)
    PROVE  /\ Append(s, e) \in Seq(S)
           /\ IsInjective(Append(s, e))
           /\ Range(Append(s, e)) = Range(s) \cup {e}
           /\ Len(Append(s, e)) = Len(s) + 1
<1> DEFINE t == Append(s, e)
<1>1. /\ t \in Seq(S) /\ Len(t) = Len(s) + 1 /\ DOMAIN t = 1..(Len(s) + 1)
      /\ \A i \in 1..Len(s) : t[i] = s[i]
      /\ t[Len(s) + 1] = e
      /\ Len(s) \in Nat /\ DOMAIN s = 1..Len(s)
  OBVIOUS
<1>2. IsInjective(t)
  BY <1>1 DEF IsInjective, Range
<1>3. Range(t) = Range(s) \cup {e}
  BY <1>1 DEF Range
<1> QED BY <1>1, <1>2, <1>3

(* deque.popleft. *)
LEMMA TailOfQueue ==
    ASSUME NEW S, NEW s \in Seq(S), s # <<>>, IsInjective(s)
    PROVE  /\ Tail(s) \in Seq(S)
           /\ IsInjective(Tail(s))
           /\ Head(s) \in Range(s)
           /\ Range(Tail(s)) = Range(s) \ {Head(s)}
           /\ Len(Tail(s)) = Len(s) - 1
<1> DEFINE t == Tail(s)
<1>1. /\ t \in Seq(S) /\ Len(t) = Len(s) - 1 /\ DOMAIN t = 1..(Len(s) - 1)
      /\ \A i \in 1..(Len(s) - 1) : t[i] = s[i + 1]
      /\ Len(s) \in Nat /\ Len(s) >= 1 /\ DOMAIN s = 1..Len(s)
      /\ Head(s) = s[1]
  OBVIOUS
<1>2. IsInjective(t)
  BY <1>1 DEF IsInjective
<1>3. Range(t) \subseteq Range(s) \ {Head(s)}
  BY <1>1 DEF IsInjective, Range
<1>4. ASSUME NEW x \in Range(s) \ {Head(s)} PROVE x \in Range(t)
  <2>1. PICK i \in 1..Len(s) : s[i] = x BY <1>1, <1>4 DEF Range
  <2>2. i # 1 BY <2>1, <1>1, <1>4
  <2>3. i - 1 \in 1..(Len(s) - 1) /\ t[i - 1] = x BY <2>1, <2>2, <1>1
  <2> QED BY <2>3, <1>1 DEF Range
<1> QED BY <1>1, <1>2, <1>3, <1>4 DEF Range

(* A slice of a deque, position by position. *)
LEMMA Slice ==
    ASSUME NEW S, NEW s \in Seq(S), NEW m \in Nat, NEW n \in Nat,
           1 <= m, m <= n + 1, n <= Len(s)
    PROVE  /\ SubSeq(s, m, n) \in Seq(S)
           /\ Len(SubSeq(s, m, n)) = n - m + 1
           /\ \A i \in 1..(n - m + 1) : SubSeq(s, m, n)[i] = s[i + m - 1]
<1>1. \A i \in m..n : s[i] \in S
  <2>1. \A i \in m..n : i \in 1..Len(s) OBVIOUS
  <2> QED BY <2>1, ElementOfSeq
<1>2. /\ SubSeq(s, m, n) \in Seq(S)
      /\ Len(SubSeq(s, m, n)) = IF m <= n THEN n - m + 1 ELSE 0
      /\ \A i \in 1..(n - m + 1) : SubSeq(s, m, n)[i] = s[m + i - 1]
  BY <1>1, m \in Int, n \in Int, SubSeqProperties
<1>3. \A i \in 1..(n - m + 1) : m + i - 1 = i + m - 1
  OBVIOUS
<1> QED BY <1>2, <1>3

(* What is behind position k of a deque, and what is before it. *)
LEMMA SliceAfter ==
    ASSUME NEW S, NEW s \in Seq(S), NEW n \in Nat, n <= Len(s), NEW k \in Nat, k <= n
    PROVE  /\ SubSeq(s, k + 1, n) \in Seq(S) /\ Len(SubSeq(s, k + 1, n)) = n - k
           /\ \A i \in 1..(n - k) : SubSeq(s, k + 1, n)[i] = s[i + k]
<1>1. PICK m \in Nat : m = k + 1 OBVIOUS
<1>2. 1 <= m /\ m <= n + 1 /\ n <= Len(s) BY <1>1
<1>3. /\ SubSeq(s, m, n) \in Seq(S) /\ Len(SubSeq(s, m, n)) = n - m + 1
      /\ \A i \in 1..(n - m + 1) : SubSeq(s, m, n)[i] = s[i + m - 1]
  BY <1>2, Slice, Zenon
<1>4. n - m + 1 = n - k /\ \A i \in 1..(n - k) : i + m - 1 = i + k BY <1>1
<1>5. \A i \in 1..(n - k) : SubSeq(s, m, n)[i] = s[i + k] BY <1>3, <1>4, Zenon
<1> QED BY <1>1, <1>3, <1>4, <1>5, Zenon

LEMMA SliceBefore ==
    ASSUME NEW S, NEW s \in Seq(S), NEW n \in Nat, n <= Len(s)
    PROVE  /\ SubSeq(s, 1, n) \in Seq(S) /\ Len(SubSeq(s, 1, n)) = n
           /\ \A i \in 1..n : SubSeq(s, 1, n)[i] = s[i]
<1>1. PICK m \in Nat : m = 1 OBVIOUS
<1>2. 1 <= m /\ m <= n + 1 /\ n <= Len(s) BY <1>1
<1>3. /\ SubSeq(s, m, n) \in Seq(S) /\ Len(SubSeq(s, m, n)) = n - m + 1
      /\ \A i \in 1..(n - m + 1) : SubSeq(s, m, n)[i] = s[i + m - 1]
  BY <1>2, Slice, Zenon
<1>4. n - m + 1 = n /\ \A i \in 1..n : i + m - 1 = i BY <1>1
<1>5. \A i \in 1..n : SubSeq(s, m, n)[i] = s[i] BY <1>3, <1>4, Zenon
<1> QED BY <1>1, <1>3, <1>4, <1>5, Zenon

(* deque.remove, splice at indexOf: the others keep their order. *)
LEMMA RemoveFirstOfQueue ==
    ASSUME NEW S, NEW s \in Seq(S), NEW e \in Range(s), IsInjective(s)
    PROVE  /\ RemoveFirst(s, e) \in Seq(S)
           /\ IsInjective(RemoveFirst(s, e))
           /\ Range(RemoveFirst(s, e)) = Range(s) \ {e}
           /\ Len(RemoveFirst(s, e)) = Len(s) - 1
           /\ \E k \in 1 .. Len(s) :
                /\ s[k] = e
                /\ \A i \in 1 .. Len(s) - 1 : RemoveFirst(s, e)[i] = IF i < k THEN s[i] ELSE s[i + 1]
<1>1. PICK n \in Nat : n = Len(s) /\ DOMAIN s = 1..n OBVIOUS
<1>2. PICK k \in 1..n : s[k] = e BY <1>1 DEF Range
<1>3. SelectInSeq(s, LAMBDA v : v = e) = k
  <2>1. {i \in 1..Len(s) : s[i] = e} = {k} BY <1>1, <1>2 DEF IsInjective
  <2>2. Min({k}) = k BY <1>2 DEF Min
  <2> QED BY <2>1, <2>2 DEF SelectInSeq
<1>4. PICK u : u = SubSeq(s, 1, k - 1) OBVIOUS
<1>5. PICK v : v = SubSeq(s, k + 1, n) OBVIOUS
<1>6. PICK t : t = u \o v OBVIOUS
<1>7. RemoveFirst(s, e) = t BY <1>1, <1>2, <1>3, <1>4, <1>5, <1>6 DEF RemoveFirst, RemoveAt
<1>8. /\ u \in Seq(S) /\ Len(u) = k - 1
      /\ \A i \in 1..(k - 1) : u[i] = s[i]
  <2>1. k - 1 \in Nat /\ k - 1 <= Len(s) BY <1>1, <1>2
  <2> QED BY <1>4, <2>1, SliceBefore, Zenon
<1>9. /\ v \in Seq(S) /\ Len(v) = n - k
      /\ \A i \in 1..(n - k) : v[i] = s[i + k]
  <2>1. k \in Nat /\ k <= n /\ n <= Len(s) BY <1>1, <1>2
  <2> QED BY <1>5, <2>1, SliceAfter, Zenon
<1>10. /\ t \in Seq(S) /\ Len(t) = n - 1 /\ DOMAIN t = 1..(n - 1)
       /\ \A i \in 1..(n - 1) : t[i] = IF i < k THEN s[i] ELSE s[i + 1]
  <2>1. /\ t \in Seq(S)
        /\ Len(t) = (k - 1) + (n - k)
        /\ \A i \in 1..((k - 1) + (n - k)) : t[i] = IF i <= k - 1 THEN u[i] ELSE v[i - (k - 1)]
    <3>1. /\ t \in Seq(S)
          /\ Len(t) = Len(u) + Len(v)
          /\ \A i \in 1..(Len(u) + Len(v)) : t[i] = IF i <= Len(u) THEN u[i] ELSE v[i - Len(u)]
      BY <1>6, <1>8, <1>9, ConcatProperties, Zenon
    <3> QED BY <3>1, <1>8, <1>9
  <2>2. (k - 1) + (n - k) = n - 1 BY <1>2
  <2>3. ASSUME NEW i \in 1..(n - 1)
        PROVE  \/ i < k /\ i <= k - 1 /\ i \in 1..(k - 1)
               \/ /\ ~(i < k) /\ ~(i <= k - 1)
                  /\ i - (k - 1) \in 1..(n - k) /\ (i - (k - 1)) + k = i + 1
    BY <1>2
  <2>4. DOMAIN t = 1..(n - 1) BY <2>1, <2>2
  <2>5. ASSUME NEW i \in 1..(n - 1)
        PROVE  t[i] = IF i < k THEN s[i] ELSE s[i + 1]
    <3>1. i \in 1..((k - 1) + (n - k)) BY <2>2
    <3>2. t[i] = IF i <= k - 1 THEN u[i] ELSE v[i - (k - 1)] BY <2>1, <3>1
    <3> QED BY <3>2, <2>3, <1>8, <1>9
  <2> QED BY <2>1, <2>2, <2>4, <2>5
<1>11. IsInjective(t)
  <2> SUFFICES ASSUME NEW i \in 1..(n - 1), NEW j \in 1..(n - 1), t[i] = t[j]
               PROVE  i = j
    BY <1>10 DEF IsInjective
  <2>1. PICK x \in 1..n : x = (IF i < k THEN i ELSE i + 1) BY <1>2
  <2>2. PICK y \in 1..n : y = (IF j < k THEN j ELSE j + 1) BY <1>2
  <2>3. s[x] = s[y] BY <2>1, <2>2, <1>10
  <2>4. x = y BY <2>3, <1>1 DEF IsInjective
  <2> QED BY <2>1, <2>2, <2>4, <1>2
<1>12. Range(t) \subseteq Range(s) \ {e}
  <2> SUFFICES ASSUME NEW i \in 1..(n - 1) PROVE t[i] \in Range(s) \ {e}
    BY <1>10 DEF Range
  <2>1. PICK x \in 1..n : x = (IF i < k THEN i ELSE i + 1) BY <1>2
  <2>2. t[i] = s[x] /\ x # k BY <2>1, <1>2, <1>10
  <2> QED BY <2>2, <1>1, <1>2 DEF Range, IsInjective
<1>13. ASSUME NEW x \in Range(s) \ {e} PROVE x \in Range(t)
  <2>1. PICK i \in 1..n : s[i] = x /\ i # k BY <1>1, <1>2, <1>13 DEF Range
  <2>2. PICK j \in 1..(n - 1) : j = (IF i < k THEN i ELSE i - 1) BY <2>1, <1>2
  <2>3. (IF j < k THEN j ELSE j + 1) = i BY <2>1, <2>2, <1>2
  <2>4. t[j] = s[i] BY <2>3, <1>10
  <2> QED BY <2>1, <2>4, <1>10 DEF Range
<1>14. Range(t) = Range(s) \ {e} BY <1>12, <1>13
<1> QED BY <1>1, <1>2, <1>7, <1>10, <1>11, <1>14

(* An element that is not there is not removed. *)
LEMMA RemoveFirstAbsent ==
    ASSUME NEW S, NEW s \in Seq(S), NEW e, e \notin Range(s)
    PROVE  RemoveFirst(s, e) = s
BY DEF RemoveFirst, Range

(* The first k elements taken from a queue: those before position k leave, *)
(* the others keep their order.                                            *)
LEMMA DropFront ==
    ASSUME NEW S, NEW s \in Seq(S), NEW k \in 0 .. Len(s), IsInjective(s)
    PROVE  /\ SubSeq(s, k + 1, Len(s)) \in Seq(S)
           /\ IsInjective(SubSeq(s, k + 1, Len(s)))
           /\ Len(SubSeq(s, k + 1, Len(s))) = Len(s) - k
           /\ \A i \in 1 .. Len(s) - k : SubSeq(s, k + 1, Len(s))[i] = s[i + k]
           /\ Range(SubSeq(s, k + 1, Len(s))) = Range(s) \ {s[i] : i \in 1 .. k}
<1>1. PICK n \in Nat : n = Len(s) /\ DOMAIN s = 1..n OBVIOUS
<1>2. PICK u : u = SubSeq(s, k + 1, n) OBVIOUS
<1>3. k \in Int /\ 0 <= k /\ k <= n BY <1>1
<1>4. /\ u \in Seq(S) /\ Len(u) = n - k
      /\ \A i \in 1..(n - k) : u[i] = s[i + k]
  <2>1. k \in Nat /\ k <= n /\ n <= Len(s) BY <1>1, <1>3
  <2> QED BY <1>2, <2>1, SliceAfter, Zenon
<1>5. DOMAIN u = 1..(n - k) BY <1>4
<1>6. IsInjective(u)
  <2> SUFFICES ASSUME NEW i \in 1..(n - k), NEW j \in 1..(n - k), u[i] = u[j]
               PROVE  i = j
    BY <1>5 DEF IsInjective
  <2>1. i + k \in 1..n /\ j + k \in 1..n BY <1>3
  <2>2. i + k = j + k BY <2>1, <1>1, <1>4 DEF IsInjective
  <2> QED BY <2>2, <1>3
<1>7. ASSUME NEW x \in Range(u) PROVE x \in Range(s) /\ x \notin {s[i] : i \in 1 .. k}
  <2>1. PICK i \in 1..(n - k) : u[i] = x BY <1>5 DEF Range
  <2>2. i + k \in 1..n /\ s[i + k] = x BY <2>1, <1>3, <1>4
  <2>3. ASSUME NEW j \in 1 .. k PROVE s[j] # x
    <3>1. j \in 1..n /\ j # i + k BY <1>3
    <3> QED BY <3>1, <2>2, <1>1 DEF IsInjective
  <2> QED BY <2>2, <2>3, <1>1 DEF Range
<1>8. ASSUME NEW x \in Range(s), x \notin {s[i] : i \in 1 .. k} PROVE x \in Range(u)
  <2>1. PICK i \in 1..n : s[i] = x BY <1>1 DEF Range
  <2>2. ~(i \in 1 .. k) BY <2>1, <1>8
  <2>3. PICK j \in 1..(n - k) : j + k = i
    <3>1. i - k \in 1..(n - k) /\ (i - k) + k = i BY <2>2, <1>3
    <3> QED BY <3>1
  <2>4. u[j] = x BY <2>1, <2>3, <1>4
  <2> QED BY <2>4, <1>5 DEF Range
<1>9. Range(u) = Range(s) \ {s[i] : i \in 1 .. k} BY <1>7, <1>8
<1> QED BY <1>1, <1>2, <1>4, <1>6, <1>9

(* What the first k positions hold. *)
LEMMA FrontRange ==
    ASSUME NEW S, NEW s \in Seq(S), NEW k \in 0 .. Len(s)
    PROVE  Range(SubSeq(s, 1, k)) = {s[i] : i \in 1 .. k}
<1>1. PICK u : u = SubSeq(s, 1, k) OBVIOUS
<1>2. /\ u \in Seq(S) /\ Len(u) = k - 1 + 1
      /\ \A i \in 1..(k - 1 + 1) : u[i] = s[i + 1 - 1]
  BY <1>1, Slice, k \in Nat, 1 \in Nat, 1 <= k + 1, k <= Len(s)
<1>3. k - 1 + 1 = k /\ \A i \in Int : i + 1 - 1 = i OBVIOUS
<1>4. DOMAIN u = 1..k /\ \A i \in 1..k : u[i] = s[i] BY <1>2, <1>3
<1> QED BY <1>1, <1>4 DEF Range

(* As many elements as positions. *)
LEMMA ElementsAt ==
    ASSUME NEW S, NEW s \in Seq(S), IsInjective(s), NEW T, T \subseteq DOMAIN s
    PROVE  /\ IsFiniteSet(T) /\ IsFiniteSet({s[i] : i \in T})
           /\ Cardinality({s[i] : i \in T}) = Cardinality(T)
<1>1. PICK n \in Nat : n = Len(s) /\ DOMAIN s = 1..n OBVIOUS
<1>2. IsFiniteSet(T)
  <2>1. IsFiniteSet(1..n) BY FS_Interval
  <2> QED BY <2>1, <1>1, FS_Subset
<1> DEFINE E == {s[i] : i \in T}
           f == [i \in T |-> s[i]]
<1>3. f \in Bijection(T, E)
  <2>1. f \in [T -> E] OBVIOUS
  <2>2. \A x \in E : \E i \in T : f[i] = x OBVIOUS
  <2>3. \A i, j \in T : f[i] = f[j] => i = j BY DEF IsInjective
  <2> QED BY <2>1, <2>2, <2>3 DEF Bijection, Injection, Surjection, IsInjective
<1>4. ExistsBijection(T, E) BY <1>3 DEF ExistsBijection
<1> QED BY <1>2, <1>4, FS_Bijection

(* The first k elements are k. *)
LEMMA FrontCardinality ==
    ASSUME NEW S, NEW s \in Seq(S), IsInjective(s), NEW k \in 0 .. Len(s)
    PROVE  /\ IsFiniteSet({s[i] : i \in 1 .. k})
           /\ Cardinality({s[i] : i \in 1 .. k}) = k
<1>1. 1 .. k \subseteq DOMAIN s OBVIOUS
<1>2. Cardinality(1 .. k) = k BY FS_Interval
<1> QED BY <1>1, <1>2, ElementsAt

-----------------------------------------------------------------------------
(* The least and the greatest of a set of naturals. *)

(* A set of naturals that is not empty has a first one. *)
LEMMA LeastOfNaturals ==
    ASSUME NEW S, S \subseteq Nat, S # {}
    PROVE  \E x \in S : \A y \in S : x <= y
<1> DEFINE Before == OpToRel(<, Nat)
<1>1. IsWellFoundedOn(Before, Nat) BY NatLessThanWellFounded
<1>2. Before = {ss \in Nat \X Nat : ss[1] < ss[2]} BY Zenon DEF OpToRel
<1> HIDE DEF Before
<1>3. PICK x \in S : \A y \in S : ~(<<y, x>> \in Before)
  BY <1>1, WFMin
<1>4. \A y \in S : x <= y
  <2> TAKE y \in S
  <2>1. ~(<<y, x>> \in Before) BY <1>3
  <2>2. x \in Nat /\ y \in Nat OBVIOUS
  <2> QED BY <2>1, <2>2, <1>2
<1> QED BY <1>4

(* Min is that one. *)
LEMMA MinOfNaturals ==
    ASSUME NEW S, S \subseteq Nat, S # {}
    PROVE  Min(S) \in S /\ \A x \in S : Min(S) <= x
BY LeastOfNaturals DEF Min

(* A set of naturals up to n has a last one: the first when counted back. *)
LEMMA MaxOfNaturals ==
    ASSUME NEW n \in Nat, NEW S, S \subseteq 0 .. n, S # {}
    PROVE  Max(S) \in S /\ \A x \in S : Max(S) >= x
<1> DEFINE T == {n - s : s \in S}
<1>1. T \subseteq Nat /\ T # {}
  <2>1. \A s \in S : s \in 0 .. n /\ n - s \in Nat OBVIOUS
  <2>2. T \subseteq Nat BY <2>1
  <2>3. PICK s \in S : TRUE OBVIOUS
  <2>4. n - s \in T OBVIOUS
  <2> QED BY <2>2, <2>4
<1> HIDE DEF T
<1>2. PICK x \in T : \A y \in T : x <= y BY <1>1, LeastOfNaturals
<1>3. PICK m \in S : x = n - m BY <1>2 DEF T
<1>4. \A s \in S : m >= s
  <2> TAKE s \in S
  <2>1. n - s \in T BY DEF T
  <2>2. n - m <= n - s BY <2>1, <1>2, <1>3
  <2> QED BY <2>2
<1> QED BY <1>4 DEF Max

-----------------------------------------------------------------------------
(* Cardinalities when one element joins or leaves. *)

(* A fresh element counts for one. *)
LEMMA CardinalityAdd ==
    ASSUME NEW S, NEW T, IsFiniteSet(S), NEW x, x \notin S, T = S \cup {x}
    PROVE  /\ Cardinality(S) \in Nat
           /\ Cardinality(T) = Cardinality(S) + 1
<1> QED BY FS_AddElement, FS_CardinalityType

(* So does one that leaves. *)
LEMMA CardinalityRemove ==
    ASSUME NEW S, NEW T, IsFiniteSet(S), NEW x \in S, T = S \ {x}
    PROVE  /\ Cardinality(S) \in Nat
           /\ Cardinality(S) >= 1
           /\ Cardinality(T) = Cardinality(S) - 1
<1>1. /\ Cardinality(S) \in Nat /\ Cardinality(T) \in Nat
      /\ Cardinality(T) = Cardinality(S) - 1
  BY FS_RemoveElement, FS_CardinalityType
<1> QED BY <1>1

(* Two sets with nothing in common. *)
LEMMA CardinalityDisjoint ==
    ASSUME NEW S, IsFiniteSet(S), NEW T, IsFiniteSet(T), S \cap T = {}
    PROVE  /\ IsFiniteSet(S \cup T)
           /\ Cardinality(S) \in Nat /\ Cardinality(T) \in Nat
           /\ Cardinality(S \cup T) = Cardinality(S) + Cardinality(T)
<1>1. /\ IsFiniteSet(S \cup T)
      /\ Cardinality(S \cup T) = Cardinality(S) + Cardinality(T) - Cardinality(S \cap T)
  BY FS_Union, Zenon
<1>2. Cardinality(S) \in Nat /\ Cardinality(T) \in Nat BY FS_CardinalityType
<1>3. Cardinality(S \cap T) = 0 BY FS_EmptySet
<1> QED BY <1>1, <1>2, <1>3

=============================================================================
