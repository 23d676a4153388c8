------------------------- MODULE TelemetryWalProofs -------------------------
(***************************************************************************)
(* Theorems about the telemetry WAL, for any number of handlers, events,   *)
(* parts, crashes and failures and for every budget.                       *)
(***************************************************************************)
EXTENDS TelemetryWal, QueueLemmas

-----------------------------------------------------------------------------
(***************************************************************************)
(* The inductive invariant, besides the types:                             *)
(*   Exclusion    a handler that appends has the lock;                     *)
(*   Writers      a part is handed to one worker thread once, so it is not *)
(*                in the WAL before its first write, and at one place      *)
(*                between its two writes;                                  *)
(*   Unique       the part of a line that parses is in no other line, of   *)
(*                the WAL and of what the delivery task read of it;        *)
(*   Safe         a part whose write the handler has seen is kept;         *)
(*   Upload       the lines of an upload still lead, but for a last one    *)
(*                that had no newline and was appended to, and were stored *)
(*                once the receipt has been seen;                          *)
(*   Reading      what the delivery task read under the lock lacks nothing *)
(*                that a handler has seen written.                         *)
(***************************************************************************)
Line == [bytes : (SUBSET Evidence) \ {{}}, valid : BOOLEAN, ended : BOOLEAN]

Uploading == {"posting", "accepted", "removing"}
Holding == {"removing", "setting_aside", "set_aside"}

WalTypes ==
    /\ file \in Seq(Line) /\ rejected \in Seq(Line) /\ batch \in Seq(Line) /\ latest \in Seq(Line)
    /\ emit \in [Emitters -> {"new", "appending", "returned", "abandoned"}]
    /\ next \in [Emitters -> Nat] /\ \A e \in Emitters : next[e] \in 1 .. Parts[e]
    /\ thread \in [Evidence -> {"none", "started", "opened", "half", "text"}]
    /\ flusher \in {"idle", "accepted", "posting", "removing", "unsendable", "setting_aside", "set_aside"}

In(p, lines, i) == i \in DOMAIN lines /\ p \in lines[i].bytes

\* The handler of p has seen its write end.
Seen(p) ==
    \/ emit[p[1]] = "returned"
    \/ emit[p[1]] = "appending" /\ p[2] < next[p[1]]

\* No thread has been given p.
Ahead(p) == emit[p[1]] = "new" \/ next[p[1]] < p[2]

Exclusion ==
    /\ \A e \in Emitters : emit[e] = "appending" => lock = e
    /\ \A e \in Emitters : emit[e] = "new" => next[e] = 1
    /\ flusher \in Holding => lock = "flusher"

Writers ==
    \A p \in Evidence :
        /\ Seen(p) => thread[p] = "none"
        /\ Ahead(p) => thread[p] = "none"
        /\ Ahead(p) \/ thread[p] \in {"started", "opened"} => p \notin Bytes(file)
        /\ thread[p] \in {"half", "text"} => \A i, j \in DOMAIN file : In(p, file, i) /\ In(p, file, j) => i = j
        /\ thread[p] = "half" => \A i \in DOMAIN file : In(p, file, i) => ~file[i].valid
        /\ thread[p] = "text" => p \in Bytes(file)

UniqueIn(lines) ==
    \A p \in Evidence : \A i, j \in DOMAIN lines :
        In(p, lines, i) /\ In(p, lines, j) /\ lines[i].valid => i = j

Unique == UniqueIn(file) /\ UniqueIn(latest)

Safe == \A p \in Evidence : Seen(p) => p \in Bytes(file) \cup Bytes(rejected) \cup stored

\* Two lines with the same text; a newline is no part of it.
Same(l, m) == l.bytes = m.bytes /\ l.valid = m.valid

\* A line that parsed was appended to.
Swallowed(l, m) == l.bytes \subseteq m.bytes /\ l.bytes # m.bytes /\ ~m.valid

Upload ==
    /\ flusher \in Uploading =>
         /\ Len(batch) <= Len(file)
         /\ \A i \in 1 .. Len(batch) :
              /\ batch[i].valid /\ batch[i].ended
              /\ Same(batch[i], file[i]) \/ (i = Len(batch) /\ Swallowed(batch[i], file[i]))
    /\ flusher \in {"accepted", "removing"} => Bytes(batch) \subseteq stored

Reading ==
    /\ flusher \in Holding =>
         /\ Len(latest) <= Len(file)
         /\ \A i \in DOMAIN latest : latest[i].bytes \subseteq file[i].bytes
         /\ \A p \in Evidence : Seen(p) => \A i \in DOMAIN file : In(p, file, i) => In(p, latest, i)
    /\ flusher = "removing" =>
         Len(batch) <= Len(latest) /\ \A i \in 1 .. Len(batch) : batch[i] = latest[i] /\ batch[i].valid
    /\ flusher \in {"setting_aside", "set_aside"} => latest # <<>>
    /\ flusher = "set_aside" => latest[1].bytes \subseteq Bytes(rejected)

WalInv == WalTypes /\ Exclusion /\ Writers /\ Unique /\ Safe /\ Upload /\ Reading

-----------------------------------------------------------------------------
(* The bytes of a file. *)

LEMMA PartOf ==
    ASSUME NEW p \in Evidence
    PROVE  p[1] \in Emitters /\ p[2] \in Nat /\ 1 <= p[2] /\ p[2] <= Parts[p[1]] /\ p = <<p[1], p[2]>>
<1>1. PICK e \in Emitters : p \in {e} \X (1 .. Parts[e]) BY DEF Evidence
<1>2. Parts[e] \in Nat BY BudgetAssumption
<1>. QED BY <1>1, <1>2

LEMMA BytesAt ==
    ASSUME NEW lines, NEW p
    PROVE  p \in Bytes(lines) <=> \E i \in DOMAIN lines : p \in lines[i].bytes
BY DEF Bytes

LEMMA LineFields ==
    ASSUME NEW lines \in Seq(Line), NEW i \in DOMAIN lines
    PROVE  /\ lines[i] \in Line /\ lines[i].bytes \in SUBSET Evidence /\ lines[i].bytes # {}
           /\ lines[i].valid \in BOOLEAN /\ lines[i].ended \in BOOLEAN
<1>1. lines[i] \in Line BY ElementOfSeq
<1>. QED BY <1>1 DEF Line

LEMMA NewLine ==
    ASSUME NEW b \in SUBSET Evidence, b # {}, NEW valid \in BOOLEAN, NEW ended \in BOOLEAN
    PROVE  [bytes |-> b, valid |-> valid, ended |-> ended] \in Line
BY DEF Line

\* A write touches the last line only: a new one, or the one without its newline.
Touched(f, g, p) ==
    /\ g \in Seq(Line) /\ Len(g) >= 1
    /\ \A i \in 1 .. Len(g) : i < Len(g) => i \in 1 .. Len(f) /\ g[i] = f[i]
    /\ \/ Len(g) = Len(f) + 1 /\ g[Len(g)].bytes = {p}
       \/ Len(f) >= 1 /\ Len(g) = Len(f) /\ ~f[Len(f)].ended /\ g[Len(g)].bytes = f[Len(f)].bytes \cup {p}

LEMMA ReplacedLast ==
    ASSUME NEW f \in Seq(Line), f # <<>>, NEW l \in Line
    PROVE  /\ Append(Front(f), l) \in Seq(Line) /\ Len(Append(Front(f), l)) = Len(f) /\ Len(f) \in Nat /\ Len(f) >= 1
           /\ Append(Front(f), l)[Len(f)] = l
           /\ \A i \in 1 .. Len(f) : i < Len(f) => Append(Front(f), l)[i] = f[i]
<1>1. Len(f) \in Nat /\ Len(f) >= 1 /\ Len(f) - 1 \in Nat OBVIOUS
<1>2. /\ Front(f) \in Seq(Line) /\ Len(Front(f)) = Len(f) - 1
      /\ \A i \in 1 .. Len(f) - 1 : Front(f)[i] = f[i]
  <2>0. PICK l0 \in Nat : l0 = Len(f) /\ l0 >= 1 BY <1>1
  <2>1. PICK n \in Nat : n = l0 - 1 /\ n = Len(f) - 1 /\ n <= Len(f) BY <2>0
  <2>2. /\ SubSeq(f, 1, n) \in Seq(Line) /\ Len(SubSeq(f, 1, n)) = n - 1 + 1
        /\ \A i \in 1 .. (n - 1 + 1) : SubSeq(f, 1, n)[i] = f[i + 1 - 1]
    BY <2>1, Slice
  <2>3. n - 1 + 1 = n /\ \A i \in 1 .. n : i + 1 - 1 = i BY <2>1
  <2>. QED BY <2>1, <2>2, <2>3 DEF Front
<1>. QED BY <1>1, <1>2

LEMMA AppendedTouches ==
    ASSUME NEW f \in Seq(Line), NEW p \in Evidence, NEW valid \in BOOLEAN, NEW ended \in BOOLEAN
    PROVE  LET g == Appended(f, p, valid, ended)
           IN  Touched(f, g, p) /\ (g[Len(g)].valid => valid /\ Len(g) = Len(f) + 1)
<1> DEFINE g == Appended(f, p, valid, ended)
<1>1. CASE f /= <<>> /\ ~Last(f).ended
  <2>1. Len(f) \in DOMAIN f BY <1>1
  <2>2. f[Len(f)].bytes \in SUBSET Evidence BY <2>1, LineFields
  <2>3. PICK l \in Line : l = [bytes |-> f[Len(f)].bytes \cup {p}, valid |-> FALSE, ended |-> ended]
    BY <2>2, NewLine
  <2>4. g = Append(Front(f), l) BY <1>1, <2>3 DEF Appended, Last
  <2>5. /\ g \in Seq(Line) /\ Len(g) = Len(f) /\ Len(f) \in Nat /\ Len(f) >= 1 /\ g[Len(f)] = l
        /\ \A i \in 1 .. Len(f) : i < Len(f) => g[i] = f[i]
    BY <1>1, <2>4, ReplacedLast
  <2>6. ~f[Len(f)].ended BY <1>1 DEF Last
  <2> HIDE DEF g
  <2>7. g[Len(g)].bytes = f[Len(f)].bytes \cup {p} /\ ~g[Len(g)].valid BY <2>3, <2>5
  <2>8. Touched(f, g, p) BY <2>5, <2>6, <2>7 DEF Touched
  <2>. QED BY <2>7, <2>8 DEF g
<1>2. CASE ~(f /= <<>> /\ ~Last(f).ended)
  <2>3. PICK l \in Line : l = [bytes |-> {p}, valid |-> valid, ended |-> ended] BY NewLine
  <2>4. g = Append(f, l) BY <1>2, <2>3 DEF Appended
  <2>5. /\ g \in Seq(Line) /\ Len(g) = Len(f) + 1 /\ Len(f) \in Nat /\ g[Len(f) + 1] = l
        /\ \A i \in 1 .. Len(f) : g[i] = f[i]
    BY <2>4
  <2> HIDE DEF g
  <2>6. g[Len(g)].bytes = {p} /\ (g[Len(g)].valid => valid) BY <2>3, <2>5
  <2>7. Touched(f, g, p) BY <2>5, <2>6 DEF Touched
  <2>. QED BY <2>5, <2>6, <2>7 DEF g
<1>. QED BY <1>1, <1>2

LEMMA CompletedTouches ==
    ASSUME NEW f \in Seq(Line), NEW p \in Evidence
    PROVE  LET g == Completed(f, p)
           IN  /\ Touched(f, g, p)
               /\ g[Len(g)].valid => Len(g) = Len(f) /\ f[Len(f)].bytes = {p}
<1> DEFINE g == Completed(f, p)
<1>1. CASE f /= <<>> /\ ~Last(f).ended /\ Last(f).bytes = {p}
  <2>1. PICK l \in Line : l = [bytes |-> {p}, valid |-> TRUE, ended |-> TRUE] BY NewLine
  <2>2. g = Append(Front(f), l) BY <1>1, <2>1 DEF Completed
  <2>3. /\ g \in Seq(Line) /\ Len(g) = Len(f) /\ Len(f) \in Nat /\ Len(f) >= 1 /\ g[Len(f)] = l
        /\ \A i \in 1 .. Len(f) : i < Len(f) => g[i] = f[i]
    BY <1>1, <2>2, ReplacedLast
  <2>4. ~f[Len(f)].ended /\ f[Len(f)].bytes = {p} BY <1>1 DEF Last
  <2> HIDE DEF g
  <2>5. g[Len(g)].bytes = f[Len(f)].bytes \cup {p} BY <2>1, <2>3, <2>4
  <2>6. Touched(f, g, p) BY <2>3, <2>4, <2>5 DEF Touched
  <2>. QED BY <2>3, <2>4, <2>6 DEF g
<1>2. CASE ~(f /= <<>> /\ ~Last(f).ended /\ Last(f).bytes = {p})
  <2>1. g = Appended(f, p, FALSE, TRUE) BY <1>2 DEF Completed
  <2>2. Touched(f, Appended(f, p, FALSE, TRUE), p) /\ ~Appended(f, p, FALSE, TRUE)[Len(Appended(f, p, FALSE, TRUE))].valid
    BY AppendedTouches
  <2>. QED BY <2>1, <2>2
<1>. QED BY <1>1, <1>2

SameText(f, g) == Len(g) = Len(f) /\ \A i \in DOMAIN f : Same(f[i], g[i])

\* A newline changes no text.
LEMMA TerminatedText ==
    ASSUME NEW f \in Seq(Line)
    PROVE  Terminated(f) \in Seq(Line) /\ SameText(f, Terminated(f))
<1>1. CASE f /= <<>> /\ ~Last(f).ended
  <2>1. Len(f) \in DOMAIN f /\ Len(f) \in Nat /\ DOMAIN f = 1 .. Len(f) BY <1>1
  <2>2. f[Len(f)] \in Line BY <2>1, LineFields
  <2>0. /\ [f[Len(f)] EXCEPT !.ended = TRUE] \in Line
        /\ Same(f[Len(f)], [f[Len(f)] EXCEPT !.ended = TRUE])
    BY <2>2 DEF Line, Same
  <2>3. PICK l \in Line : l = [f[Len(f)] EXCEPT !.ended = TRUE] /\ Same(f[Len(f)], l) BY <2>0
  <2>4. PICK g : g = Append(Front(f), l) /\ g = Terminated(f) BY <1>1, <2>3 DEF Terminated, Last
  <2>5. /\ g \in Seq(Line) /\ Len(g) = Len(f) /\ g[Len(f)] = l
        /\ \A i \in 1 .. Len(f) : i < Len(f) => g[i] = f[i]
    <3>1. /\ Append(Front(f), l) \in Seq(Line) /\ Len(Append(Front(f), l)) = Len(f) /\ Append(Front(f), l)[Len(f)] = l
          /\ \A i \in 1 .. Len(f) : i < Len(f) => Append(Front(f), l)[i] = f[i]
      BY <1>1, ReplacedLast
    <3>. QED BY <2>4, <3>1
  <2>6. ASSUME NEW i \in DOMAIN f PROVE Same(f[i], g[i])
    <3>1. CASE i < Len(f) BY <2>1, <2>5, <3>1 DEF Same
    <3>2. CASE i = Len(f) BY <2>3, <2>5, <3>2
    <3>. QED BY <2>1, <3>1, <3>2
  <2>. QED BY <2>4, <2>5, <2>6 DEF SameText
<1>2. CASE ~(f /= <<>> /\ ~Last(f).ended)
  <2>1. Terminated(f) = f BY <1>2 DEF Terminated
  <2>. QED BY <2>1 DEF SameText, Same
<1>. QED BY <1>1, <1>2

LEMMA SameBytes ==
    ASSUME NEW f \in Seq(Line), NEW g \in Seq(Line), SameText(f, g)
    PROVE  DOMAIN g = DOMAIN f /\ Bytes(g) = Bytes(f) /\ \A p, i : In(p, g, i) <=> In(p, f, i)
<1>1. DOMAIN g = DOMAIN f BY DEF SameText
<1>2. \A i \in DOMAIN f : g[i].bytes = f[i].bytes BY DEF SameText, Same
<1>3. \A p : p \in Bytes(g) <=> p \in Bytes(f) BY <1>1, <1>2, BytesAt
<1>. QED BY <1>1, <1>2, <1>3 DEF In

\* What a write adds, and what it leaves as it was.
LEMMA TouchedLines ==
    ASSUME NEW f \in Seq(Line), NEW g, NEW p \in Evidence, Touched(f, g, p)
    PROVE  /\ g \in Seq(Line) /\ Len(f) <= Len(g) /\ Len(g) \in DOMAIN g /\ DOMAIN f \subseteq DOMAIN g
           /\ \A i \in DOMAIN f : f[i].bytes \subseteq g[i].bytes
           /\ \A q, i : q # p /\ In(q, g, i) => In(q, f, i)
           /\ \A i : In(p, g, i) => In(p, f, i) \/ i = Len(g)
           /\ In(p, g, Len(g))
           /\ \A i \in DOMAIN g : i # Len(g) => i \in DOMAIN f /\ g[i] = f[i]
<1>1. /\ g \in Seq(Line) /\ Len(f) \in Nat /\ Len(g) \in Nat /\ Len(g) >= 1
      /\ DOMAIN f = 1 .. Len(f) /\ DOMAIN g = 1 .. Len(g)
  BY DEF Touched
<1>8. PICK m \in Nat, k \in Nat : m = Len(f) /\ k = Len(g) BY <1>1
<1>9. /\ \A i \in 1 .. k : i < k => i \in 1 .. m /\ g[i] = f[i]
      /\ k >= 1
      /\ \/ k = m + 1
         \/ k = m /\ ~f[m].ended /\ g[k].bytes = f[m].bytes \cup {p}
      /\ DOMAIN f = 1 .. m /\ DOMAIN g = 1 .. k
  BY <1>1, <1>8, Zenon DEF Touched
<1>2. \A i \in DOMAIN g : i # Len(g) => i \in DOMAIN f /\ g[i] = f[i]
  <2>1. \A i \in 1 .. k : i # k => i < k OBVIOUS
  <2>. QED BY <1>8, <1>9, <2>1
<1>3. Len(f) <= Len(g) /\ Len(g) \in DOMAIN g /\ DOMAIN f \subseteq DOMAIN g
  <2>1. m <= k /\ k \in 1 .. k /\ 1 .. m \subseteq 1 .. k BY <1>9
  <2>. QED BY <1>8, <1>9, <2>1
<1>4. In(p, g, Len(g)) BY <1>3 DEF In, Touched
<1>5. \A i \in DOMAIN f : f[i].bytes \subseteq g[i].bytes
  <2>1. SUFFICES ASSUME NEW i \in DOMAIN f PROVE f[i].bytes \subseteq g[i].bytes
    OBVIOUS
  <2>2. CASE i # Len(g) BY <1>2, <1>3, <2>2
  <2>3. CASE i = Len(g)
    <3>1. Len(g) = Len(f) /\ ~f[Len(f)].ended /\ g[Len(g)].bytes = f[Len(f)].bytes \cup {p}
      <4>1. k \in 1 .. m BY <1>8, <1>9, <2>3
      <4>2. k # m + 1 BY <4>1
      <4>. QED BY <1>8, <1>9, <4>2
    <3>. QED BY <2>3, <3>1
  <2>. QED BY <2>2, <2>3
<1>6. ASSUME NEW q, NEW i, q # p, In(q, g, i) PROVE In(q, f, i)
  <2>1. CASE i # Len(g) BY <1>2, <1>6, <2>1 DEF In
  <2>2. CASE i = Len(g)
    <3>1. Len(g) = Len(f) /\ Len(f) >= 1 /\ g[Len(g)].bytes = f[Len(f)].bytes \cup {p}
      BY <1>6, <2>2 DEF Touched, In
    <3>. QED BY <1>1, <1>6, <2>2, <3>1 DEF In
  <2>. QED BY <2>1, <2>2
<1>7. ASSUME NEW i, In(p, g, i) PROVE In(p, f, i) \/ i = Len(g) BY <1>2, <1>7 DEF In
<1>. QED BY <1>1, <1>2, <1>3, <1>4, <1>5, <1>6, <1>7

LEMMA ReadText ==
    ASSUME NEW f \in Seq(Line)
    PROVE  /\ ReadLines(f) \in Seq(Line) /\ SameText(f, ReadLines(f))
           /\ \A i \in DOMAIN f : ReadLines(f)[i].ended /\ ReadLines(f)[i] = [f[i] EXCEPT !.ended = TRUE]
<1>1. DOMAIN f = 1 .. Len(f) /\ Len(f) \in Nat OBVIOUS
<1>2. ASSUME NEW i \in DOMAIN f
      PROVE  /\ [f[i] EXCEPT !.ended = TRUE] \in Line
             /\ [f[i] EXCEPT !.ended = TRUE].ended
             /\ Same(f[i], [f[i] EXCEPT !.ended = TRUE])
  <2>1. f[i] \in Line BY LineFields
  <2>. QED BY <2>1 DEF Line, Same
<1>3. /\ DOMAIN ReadLines(f) = 1 .. Len(f)
      /\ \A i \in 1 .. Len(f) : ReadLines(f)[i] = [f[i] EXCEPT !.ended = TRUE]
      /\ ReadLines(f) = [i \in 1 .. Len(f) |-> ReadLines(f)[i]]
  BY <1>1 DEF ReadLines
<1>4. ReadLines(f) \in [1 .. Len(f) -> Line]
  <2>1. PICK g : g = ReadLines(f) OBVIOUS
  <2>2. ASSUME NEW i \in 1 .. Len(f) PROVE g[i] \in Line
    <3>1. i \in DOMAIN f BY <1>1
    <3>2. [f[i] EXCEPT !.ended = TRUE] \in Line BY <1>2, <3>1
    <3>3. g[i] = [f[i] EXCEPT !.ended = TRUE] BY <1>3, <2>1, Zenon
    <3>. QED BY <3>2, <3>3, Zenon
  <2>3. g = [i \in 1 .. Len(f) |-> g[i]] BY <1>3, <2>1, Zenon
  <2>. QED BY <2>1, <2>2, <2>3, Zenon
<1>5. ReadLines(f) \in Seq(Line) /\ Len(ReadLines(f)) = Len(f) BY <1>1, <1>3, <1>4
<1>. QED BY <1>1, <1>2, <1>3, <1>5 DEF SameText

\* A line as it is read is determined by its text.
LEMMA ReadAs ==
    ASSUME NEW f \in Seq(Line), NEW i \in DOMAIN f, NEW l \in Line, l.ended, Same(l, f[i])
    PROVE  l = ReadLines(f)[i]
<1>1. f[i] \in Line BY LineFields
<1>2. ReadLines(f)[i] = [f[i] EXCEPT !.ended = TRUE] BY ReadText
<1>. QED BY <1>1, <1>2 DEF Line, Same

\* The lines after the first k.
LEMMA CutLines ==
    ASSUME NEW lines \in Seq(Line), NEW k \in 0 .. Len(lines), NEW g, g = SubSeq(lines, k + 1, Len(lines))
    PROVE  /\ g \in Seq(Line)
           /\ \A i \in DOMAIN g : i \in Nat /\ i >= 1 /\ i + k \in DOMAIN lines /\ g[i] = lines[i + k]
           /\ \A j \in DOMAIN lines : k < j => j - k \in DOMAIN g
<1>1. PICK n \in Nat : n = Len(lines) /\ DOMAIN lines = 1 .. n OBVIOUS
<1>3. k \in Nat /\ k + 1 \in Nat /\ 1 <= k + 1 /\ k + 1 <= n + 1 BY <1>1
<1>4. /\ g \in Seq(Line) /\ Len(g) = n - (k + 1) + 1
      /\ \A i \in 1 .. (n - (k + 1) + 1) : g[i] = lines[i + (k + 1) - 1]
  BY <1>1, <1>3, Slice
<1>5. n - (k + 1) + 1 = n - k /\ n - k \in Nat /\ \A i \in 1 .. n - k : i + (k + 1) - 1 = i + k /\ i + k \in 1 .. n
  BY <1>1, <1>3
<1>6. DOMAIN g = 1 .. n - k /\ \A i \in 1 .. n - k : g[i] = lines[i + k] BY <1>4, <1>5
<1>8. \A j \in 1 .. n : k < j => j - k \in 1 .. n - k BY <1>3
<1>. QED BY <1>1, <1>4, <1>5, <1>6, <1>8

-----------------------------------------------------------------------------
(* What a step does to the handlers, their threads and the file. *)

HandlerChange(p) ==
    /\ Ahead(p)' => Ahead(p)
    /\ Seen(p)' => \/ Seen(p)
                   \/ emit[p[1]] = "appending" /\ thread[p] \in {"opened", "half", "text"} /\ p \in Bytes(file')
    /\ thread'[p] # "none" => ~Seen(p)' /\ ~Ahead(p)'
    /\ thread'[p] \in {"started", "opened"} => thread[p] \in {"started", "opened"} \/ Ahead(p)

Halves(p) == thread'[p] \in {"half", "text"} => thread[p] = thread'[p]

\* A worker thread wrote some of the text of q.
Wrote(q) ==
    /\ thread[q] \in {"opened", "half"} /\ Touched(file, file', q)
    /\ thread'[q] \in {"half", "text", "none"}
    /\ thread'[q] \in {"half", "text"} => thread[q] = "opened"
    /\ thread'[q] = "half" => ~file'[Len(file')].valid
    /\ file'[Len(file')].valid =>
         \/ thread[q] = "opened" /\ Len(file') = Len(file) + 1
         \/ thread[q] = "half" /\ Len(file') = Len(file) /\ file[Len(file)].bytes = {q}
    /\ \A p \in Evidence \ {q} : Halves(p)

\* Nothing but perhaps a newline was written.
WroteNoText ==
    /\ file' \in Seq(Line) /\ SameText(file, file')
    /\ \A p \in Evidence : Halves(p)

AppendStep ==
    /\ \A p \in Evidence : HandlerChange(p)
    /\ WroteNoText \/ \E q \in Evidence : Wrote(q)

LEMMA SameFile ==
    ASSUME WalTypes, file' = file, \A p \in Evidence : Halves(p)
    PROVE  WroteNoText
BY DEF WalTypes, WroteNoText, SameText, Same

Handlers ==
    \/ \E e \in Emitters : Emit(e) \/ CancelEmit(e)
    \/ \E p \in Evidence : Write(p) \/ AppendFails(p)

\* Threads are exclusive to what their handler waits for.
LEMMA ThreadBusy ==
    ASSUME WalTypes, Writers, NEW p \in Evidence, NEW x \in Evidence,
           emit[p[1]] = "appending", next[p[1]] = p[2], thread[x] # "none", x[1] = p[1]
    PROVE  x = p
<1>1. ~Seen(x) /\ ~Ahead(x) BY DEF Writers
<1>2. x[2] \in Nat /\ p[2] \in Nat /\ x = <<x[1], x[2]>> /\ p = <<p[1], p[2]>> BY PartOf
<1>3. ~(x[2] < p[2]) /\ ~(p[2] < x[2]) BY <1>1 DEF Seen, Ahead
<1>4. x[2] = p[2] BY <1>2, <1>3
<1>. QED BY <1>2, <1>4

LEMMA EmitStep ==
    ASSUME WalTypes, Exclusion, Writers, NEW e \in Emitters, Emit(e)
    PROVE  WalTypes' /\ AppendStep /\ Exclusion'
<1>0. /\ emit \in [Emitters -> {"new", "appending", "returned", "abandoned"}] /\ next \in [Emitters -> Nat]
      /\ thread \in [Evidence -> {"none", "started", "opened", "half", "text"}]
  BY DEF WalTypes
<1>1. /\ emit[e] = "new" /\ lock = "free" /\ lock' = e
      /\ emit' = [emit EXCEPT ![e] = "appending"] /\ thread' = [thread EXCEPT ![<<e, 1>>] = "started"]
      /\ UNCHANGED <<file, rejected, next, flusher, batch, latest>>
  BY DEF Emit, delivering
<1>2. next[e] = 1 BY <1>1 DEF Exclusion
<1>3. WalTypes' BY <1>0, <1>1 DEF WalTypes
<1>4. Exclusion'
  <2>1. \A x \in Emitters : x # "free" BY BudgetAssumption
  <2>2. \A x \in Emitters : emit'[x] = "appending" => x = e BY <1>0, <1>1, <2>1 DEF Exclusion
  <2>3. \A x \in Emitters : emit'[x] = "new" => emit[x] = "new" BY <1>0, <1>1
  <2>4. flusher \notin Holding BY <1>1 DEF Exclusion
  <2>. QED BY <1>1, <2>2, <2>3, <2>4 DEF Exclusion
<1>5. ASSUME NEW x \in Evidence PROVE HandlerChange(x) /\ Halves(x)
  <2>1. x[1] \in Emitters /\ x[2] \in Nat /\ 1 <= x[2] /\ x = <<x[1], x[2]>> BY PartOf
  <2>2. CASE x[1] # e
    <3>1. emit'[x[1]] = emit[x[1]] /\ next'[x[1]] = next[x[1]] /\ thread'[x] = thread[x]
      BY <1>0, <1>1, <2>1, <2>2
    <3>. QED BY <3>1 DEF HandlerChange, Halves, Seen, Ahead, Writers
  <2>3. CASE x[1] = e
    <3>1. emit'[e] = "appending" /\ next'[e] = 1 BY <1>0, <1>1, <1>2
    <3>2. Ahead(x) /\ thread[x] = "none" BY <1>1, <2>3 DEF Ahead, Writers
    <3>3. ~Seen(x)' BY <2>1, <2>3, <3>1 DEF Seen
    <3>4. CASE x = <<e, 1>>
      <4>1. ~Ahead(x)' BY <2>1, <2>3, <3>1, <3>4 DEF Ahead
      <4>2. thread'[x] = "started" BY <1>0, <1>1, <3>4
      <4>. QED BY <3>2, <3>3, <4>1, <4>2 DEF HandlerChange, Halves
    <3>5. CASE x # <<e, 1>>
      <4>1. thread'[x] = "none" BY <1>0, <1>1, <3>2, <3>5
      <4>. QED BY <3>2, <3>3, <4>1 DEF HandlerChange, Halves
    <3>. QED BY <3>4, <3>5
  <2>. QED BY <2>2, <2>3
<1>. QED BY <1>1, <1>3, <1>4, <1>5, SameFile DEF AppendStep

\* A handler that gives up: cancelled, refused by the disk, or killed.
LEMMA GiveUpStep ==
    ASSUME WalTypes, Exclusion, Writers,
           NEW E \in SUBSET Emitters, NEW P \in SUBSET Evidence,
           emit' = [e \in Emitters |-> IF e \in E THEN "abandoned" ELSE emit[e]],
           \A e \in E : emit[e] = "appending",
           thread' = [p \in Evidence |-> IF p \in P THEN "none" ELSE thread[p]],
           file' = file, next' = next
    PROVE  AppendStep
<1>0. emit \in [Emitters -> {"new", "appending", "returned", "abandoned"}] BY DEF WalTypes
<1>1. ASSUME NEW x \in Evidence PROVE HandlerChange(x) /\ Halves(x)
  <2>1. x[1] \in Emitters BY PartOf
  <2>2. emit'[x[1]] \in {emit[x[1]], "abandoned"} /\ thread'[x] \in {thread[x], "none"} BY <2>1
  <2>3. (Seen(x)' => Seen(x)) /\ (Ahead(x)' => Ahead(x)) BY <1>0, <2>1, <2>2 DEF Seen, Ahead
  <2>4. thread[x] # "none" => ~Seen(x) /\ ~Ahead(x) BY DEF Writers
  <2>. QED BY <2>2, <2>3, <2>4 DEF HandlerChange, Halves
<1>. QED BY <1>1, SameFile DEF AppendStep

LEMMA LockFreed ==
    ASSUME Exclusion, NEW e \in Emitters, emit[e] = "appending"
    PROVE  flusher \notin Holding /\ \A x \in Emitters : emit[x] = "appending" => x = e
BY BudgetAssumption DEF Exclusion

LEMMA CancelStep ==
    ASSUME WalTypes, Exclusion, Writers, NEW e \in Emitters, CancelEmit(e)
    PROVE  WalTypes' /\ AppendStep /\ Exclusion'
<1>0. /\ emit \in [Emitters -> {"new", "appending", "returned", "abandoned"}]
      /\ thread \in [Evidence -> {"none", "started", "opened", "half", "text"}]
  BY DEF WalTypes
<1>1. /\ emit[e] = "appending" /\ emit' = [emit EXCEPT ![e] = "abandoned"] /\ lock' = "free"
      /\ UNCHANGED <<file, rejected, next, thread, flusher, batch, latest>>
  BY DEF CancelEmit, delivering
<1>2. WalTypes' BY <1>0, <1>1 DEF WalTypes
<1>3. PICK E \in SUBSET Emitters :
        /\ emit' = [x \in Emitters |-> IF x \in E THEN "abandoned" ELSE emit[x]] /\ \A x \in E : emit[x] = "appending"
  <2>1. emit' = [x \in Emitters |-> IF x \in {e} THEN "abandoned" ELSE emit[x]] BY <1>0, <1>1
  <2>. QED BY <1>1, <2>1
<1>4. PICK P \in SUBSET Evidence : thread' = [p \in Evidence |-> IF p \in P THEN "none" ELSE thread[p]]
  <2>1. thread' = [p \in Evidence |-> IF p \in {} THEN "none" ELSE thread[p]] BY <1>0, <1>1
  <2>2. {} \in SUBSET Evidence OBVIOUS
  <2>. QED BY <2>1, <2>2, Zenon
<1>7. file' = file /\ next' = next BY <1>1
<1>5. AppendStep BY <1>3, <1>4, <1>7, GiveUpStep
<1>6. Exclusion'
  <2>1. flusher' \notin Holding BY <1>1, LockFreed
  <2>2. \A x \in Emitters : emit'[x] # "appending" BY <1>0, <1>1, LockFreed
  <2>3. \A x \in Emitters : emit'[x] = "new" => next'[x] = 1 BY <1>0, <1>1 DEF Exclusion
  <2>. QED BY <2>1, <2>2, <2>3 DEF Exclusion
<1>. QED BY <1>2, <1>5, <1>6

LEMMA AppendFailsStep ==
    ASSUME WalTypes, Exclusion, Writers, NEW p \in Evidence, AppendFails(p)
    PROVE  WalTypes' /\ AppendStep /\ Exclusion'
<1>0. /\ emit \in [Emitters -> {"new", "appending", "returned", "abandoned"}] /\ p[1] \in Emitters
      /\ thread \in [Evidence -> {"none", "started", "opened", "half", "text"}]
  BY PartOf DEF WalTypes
<1>1. /\ thread' = [thread EXCEPT ![p] = "none"]
      /\ UNCHANGED <<file, rejected, next, flusher, batch, latest>>
      /\ \/ /\ emit[p[1]] = "appending" /\ emit' = [emit EXCEPT ![p[1]] = "abandoned"] /\ lock' = "free"
         \/ UNCHANGED <<emit, lock>>
  BY DEF AppendFails, delivering
<1>2. WalTypes' BY <1>0, <1>1 DEF WalTypes
<1>4. PICK P \in SUBSET Evidence : thread' = [x \in Evidence |-> IF x \in P THEN "none" ELSE thread[x]]
  <2>1. thread' = [x \in Evidence |-> IF x \in {p} THEN "none" ELSE thread[x]] BY <1>0, <1>1
  <2>. QED BY <2>1
<1>7. file' = file /\ next' = next BY <1>1
<1>5. CASE emit[p[1]] = "appending" /\ emit' = [emit EXCEPT ![p[1]] = "abandoned"] /\ lock' = "free"
  <2>1. PICK E \in SUBSET Emitters :
          /\ emit' = [x \in Emitters |-> IF x \in E THEN "abandoned" ELSE emit[x]] /\ \A x \in E : emit[x] = "appending"
    <3>1. emit' = [x \in Emitters |-> IF x \in {p[1]} THEN "abandoned" ELSE emit[x]] BY <1>0, <1>5
    <3>. QED BY <1>0, <1>5, <3>1
  <2>2. AppendStep BY <1>4, <1>7, <2>1, GiveUpStep
  <2>3. flusher' \notin Holding BY <1>0, <1>1, <1>5, LockFreed
  <2>4. \A x \in Emitters : emit'[x] # "appending" BY <1>0, <1>5, LockFreed
  <2>5. \A x \in Emitters : emit'[x] = "new" => next'[x] = 1 BY <1>0, <1>1, <1>5 DEF Exclusion
  <2>6. Exclusion' BY <2>3, <2>4, <2>5 DEF Exclusion
  <2>. QED BY <1>2, <2>2, <2>6
<1>6. CASE UNCHANGED <<emit, lock>>
  <2>1. PICK E \in SUBSET Emitters :
          /\ emit' = [x \in Emitters |-> IF x \in E THEN "abandoned" ELSE emit[x]] /\ \A x \in E : emit[x] = "appending"
    <3>1. emit' = [x \in Emitters |-> IF x \in {} THEN "abandoned" ELSE emit[x]] BY <1>0, <1>6
    <3>2. {} \in SUBSET Emitters /\ \A x \in {} : emit[x] = "appending" OBVIOUS
    <3>. QED BY <3>1, <3>2, Zenon
  <2>2. AppendStep BY <1>4, <1>7, <2>1, GiveUpStep
  <2>3. Exclusion' BY <1>1, <1>6 DEF Exclusion
  <2>. QED BY <1>2, <2>2, <2>3
<1>. QED BY <1>1, <1>5, <1>6

LEMMA OpenStep ==
    ASSUME WalTypes, Exclusion, Writers, NEW p \in Evidence, Open(p)
    PROVE  WalTypes' /\ AppendStep /\ Exclusion'
<1>0. thread \in [Evidence -> {"none", "started", "opened", "half", "text"}] BY DEF WalTypes
<1>1. /\ thread[p] = "started" /\ thread' = [thread EXCEPT ![p] = "opened"]
      /\ UNCHANGED <<file, rejected, lock, emit, next, flusher, batch, latest>>
  BY DEF Open, delivering
<1>2. WalTypes' BY <1>0, <1>1 DEF WalTypes
<1>3. Exclusion' BY <1>1 DEF Exclusion
<1>4. ASSUME NEW x \in Evidence PROVE HandlerChange(x) /\ Halves(x)
  <2>1. (Seen(x)' <=> Seen(x)) /\ (Ahead(x)' <=> Ahead(x)) BY <1>1 DEF Seen, Ahead
  <2>2. thread'[x] = thread[x] \/ (thread[x] = "started" /\ thread'[x] = "opened") BY <1>0, <1>1
  <2>3. thread[x] # "none" => ~Seen(x) /\ ~Ahead(x) BY DEF Writers
  <2>. QED BY <2>1, <2>2, <2>3 DEF HandlerChange, Halves
<1>. QED BY <1>1, <1>2, <1>3, <1>4, SameFile DEF AppendStep

LEMMA WriteHalfStep ==
    ASSUME WalTypes, Exclusion, Writers, NEW p \in Evidence, WriteHalf(p)
    PROVE  WalTypes' /\ AppendStep /\ Exclusion'
<1>0. thread \in [Evidence -> {"none", "started", "opened", "half", "text"}] /\ file \in Seq(Line) BY DEF WalTypes
<1>1. PICK whole \in BOOLEAN :
        /\ thread[p] = "opened" /\ thread' = [thread EXCEPT ![p] = IF whole THEN "text" ELSE "half"]
        /\ file' = Appended(file, p, whole, FALSE)
        /\ UNCHANGED <<rejected, lock, emit, next, flusher, batch, latest>>
  BY DEF WriteHalf, delivering
<1>2. Touched(file, file', p) /\ (file'[Len(file')].valid => whole /\ Len(file') = Len(file) + 1)
  BY <1>0, <1>1, AppendedTouches
<1>3. WalTypes'
  <2>1. file' \in Seq(Line) BY <1>2 DEF Touched
  <2>2. thread' \in [Evidence -> {"none", "started", "opened", "half", "text"}] BY <1>0, <1>1
  <2>. QED BY <1>0, <1>1, <2>1, <2>2 DEF WalTypes
<1>4. Exclusion' BY <1>1 DEF Exclusion
<1>5. ASSUME NEW x \in Evidence PROVE HandlerChange(x) /\ (x # p => Halves(x))
  <2>1. (Seen(x)' <=> Seen(x)) /\ (Ahead(x)' <=> Ahead(x)) BY <1>1 DEF Seen, Ahead
  <2>2. thread'[x] = thread[x] \/ (x = p /\ thread'[x] \in {"half", "text"}) BY <1>0, <1>1
  <2>3. thread[x] # "none" => ~Seen(x) /\ ~Ahead(x) BY DEF Writers
  <2>. QED BY <1>1, <2>1, <2>2, <2>3 DEF HandlerChange, Halves
<1>6. thread'[p] = IF whole THEN "text" ELSE "half" BY <1>0, <1>1
<1>7. Wrote(p)
  <2>1. CASE whole
    <3>1. thread'[p] = "text" BY <1>6, <2>1
    <3>. QED BY <1>1, <1>2, <1>5, <3>1 DEF Wrote
  <2>2. CASE ~whole
    <3>1. thread'[p] = "half" /\ ~file'[Len(file')].valid BY <1>2, <1>6, <2>2
    <3>. QED BY <1>1, <1>2, <1>5, <3>1 DEF Wrote
  <2>. QED BY <2>1, <2>2
<1>. QED BY <1>3, <1>4, <1>5, <1>7 DEF AppendStep

LEMMA WriteRestStep ==
    ASSUME WalTypes, Exclusion, Writers, NEW p \in Evidence, WriteRest(p)
    PROVE  WalTypes' /\ AppendStep /\ Exclusion'
<1>0. /\ emit \in [Emitters -> {"new", "appending", "returned", "abandoned"}] /\ next \in [Emitters -> Nat]
      /\ thread \in [Evidence -> {"none", "started", "opened", "half", "text"}] /\ file \in Seq(Line)
      /\ \A x \in Emitters : next[x] \in 1 .. Parts[x] /\ Parts[x] \in Nat
  BY BudgetAssumption DEF WalTypes
<1>1. PICK e \in Emitters, n \in Nat : e = p[1] /\ n = p[2] /\ p = <<e, n>> /\ n <= Parts[e] BY PartOf
<1>2. /\ \/ thread[p] = "opened" /\ file' = Appended(file, p, TRUE, TRUE)
         \/ thread[p] = "half" /\ file' = Completed(file, p)
         \/ thread[p] = "text" /\ file' = Terminated(file)
      /\ UNCHANGED <<rejected, flusher, batch, latest>>
  BY DEF WriteRest, delivering
<1>3. \/ /\ ~(emit[e] = "appending" /\ next[e] = n)
         /\ thread' = [thread EXCEPT ![p] = "none"] /\ UNCHANGED <<emit, next, lock>>
      \/ /\ emit[e] = "appending" /\ next[e] = n /\ next[e] < Parts[e]
         /\ next' = [next EXCEPT ![e] = next[e] + 1]
         /\ thread' = [thread EXCEPT ![p] = "none", ![<<e, next[e] + 1>>] = "started"]
         /\ UNCHANGED <<emit, lock>>
      \/ /\ emit[e] = "appending" /\ next[e] = n /\ ~(next[e] < Parts[e])
         /\ emit' = [emit EXCEPT ![e] = "returned"] /\ lock' = "free"
         /\ thread' = [thread EXCEPT ![p] = "none"] /\ UNCHANGED next
  BY <1>1 DEF WriteRest
<1>4. \/ /\ thread[p] \in {"opened", "half"} /\ Touched(file, file', p)
         /\ file'[Len(file')].valid =>
              \/ thread[p] = "opened" /\ Len(file') = Len(file) + 1
              \/ thread[p] = "half" /\ Len(file') = Len(file) /\ file[Len(file)].bytes = {p}
      \/ thread[p] = "text" /\ file' \in Seq(Line) /\ SameText(file, file')
  <2>1. CASE thread[p] = "opened" /\ file' = Appended(file, p, TRUE, TRUE)
    <3>1. /\ Touched(file, Appended(file, p, TRUE, TRUE), p)
          /\ Appended(file, p, TRUE, TRUE)[Len(Appended(file, p, TRUE, TRUE))].valid =>
               Len(Appended(file, p, TRUE, TRUE)) = Len(file) + 1
      BY <1>0, AppendedTouches
    <3>. QED BY <2>1, <3>1
  <2>2. CASE thread[p] = "half" /\ file' = Completed(file, p)
    <3>1. /\ Touched(file, Completed(file, p), p)
          /\ Completed(file, p)[Len(Completed(file, p))].valid => Len(Completed(file, p)) = Len(file) /\ file[Len(file)].bytes = {p}
      BY <1>0, CompletedTouches
    <3>. QED BY <2>2, <3>1
  <2>3. CASE thread[p] = "text" /\ file' = Terminated(file) BY <1>0, <2>3, TerminatedText
  <2>. QED BY <1>2, <2>1, <2>2, <2>3
<1>5. file' \in Seq(Line) /\ p \in Bytes(file') /\ thread[p] \in {"opened", "half", "text"}
  <2>1. CASE Touched(file, file', p)
    <3>1. file' \in Seq(Line) /\ In(p, file', Len(file')) BY <1>0, <2>1, TouchedLines
    <3>. QED BY <1>2, <3>1, BytesAt DEF In
  <2>2. CASE thread[p] = "text" /\ file' \in Seq(Line) /\ SameText(file, file')
    BY <1>0, <2>2, SameBytes DEF Writers
  <2>. QED BY <1>4, <2>1, <2>2
<1>10. ASSUME thread'[p] = "none", \A x \in Evidence : Halves(x) PROVE WroteNoText \/ Wrote(p)
  BY <1>4, <1>10 DEF Wrote, WroteNoText
<1>6. ASSUME NEW x \in Evidence, thread[x] # "none" PROVE ~Seen(x) /\ ~Ahead(x) BY <1>6 DEF Writers
<1>7. CASE ~(emit[e] = "appending" /\ next[e] = n) /\ thread' = [thread EXCEPT ![p] = "none"] /\ UNCHANGED <<emit, next, lock>>
  <2>1. WalTypes' BY <1>0, <1>2, <1>5, <1>7 DEF WalTypes
  <2>2. Exclusion' BY <1>2, <1>7 DEF Exclusion
  <2>3. ASSUME NEW x \in Evidence PROVE HandlerChange(x) /\ Halves(x)
    <3>1. (Seen(x)' <=> Seen(x)) /\ (Ahead(x)' <=> Ahead(x)) BY <1>7 DEF Seen, Ahead
    <3>2. thread'[x] = thread[x] \/ thread'[x] = "none" BY <1>0, <1>7
    <3>. QED BY <1>6, <3>1, <3>2 DEF HandlerChange, Halves
  <2>4. WroteNoText \/ Wrote(p)
    <3>1. thread'[p] = "none" BY <1>0, <1>7
    <3>. QED BY <1>10, <2>3, <3>1
  <2>. QED BY <2>1, <2>2, <2>3, <2>4 DEF AppendStep
<1>8. CASE /\ emit[e] = "appending" /\ next[e] = n /\ next[e] < Parts[e]
           /\ next' = [next EXCEPT ![e] = next[e] + 1]
           /\ thread' = [thread EXCEPT ![p] = "none", ![<<e, next[e] + 1>>] = "started"]
           /\ UNCHANGED <<emit, lock>>
  <2>0. PICK m \in Nat : m = next[e] + 1 /\ m = n + 1 /\ m \in 1 .. Parts[e] BY <1>0, <1>8
  <2>1. WalTypes' BY <1>0, <1>2, <1>5, <1>8, <2>0 DEF WalTypes
  <2>2. Exclusion' BY <1>0, <1>2, <1>8 DEF Exclusion
  <2>3. thread'[p] = "none"
    <3>1. p # <<e, m>> BY <1>1, <2>0
    <3>. QED BY <1>0, <1>8, <2>0, <3>1
  <2>4. ASSUME NEW x \in Evidence PROVE HandlerChange(x) /\ Halves(x)
    <3>1. x[1] \in Emitters /\ x[2] \in Nat /\ x = <<x[1], x[2]>> BY PartOf
    <3>2. CASE x[1] # e
      <4>1. thread'[x] = thread[x] BY <1>0, <1>1, <1>8, <3>1, <3>2
      <4>2. (Seen(x)' <=> Seen(x)) /\ (Ahead(x)' <=> Ahead(x)) BY <1>0, <1>8, <3>1, <3>2 DEF Seen, Ahead
      <4>. QED BY <1>6, <4>1, <4>2 DEF HandlerChange, Halves
    <3>3. CASE x = p
      <4>1. Seen(x)' /\ ~Ahead(x)' BY <1>0, <1>1, <1>8, <2>0, <3>3 DEF Seen, Ahead
      <4>. QED BY <1>1, <1>2, <1>5, <1>8, <2>3, <3>3, <4>1 DEF HandlerChange, Halves
    <3>4. CASE x[1] = e /\ x # p /\ x[2] = m
      <4>1. thread'[x] = "started" BY <1>0, <1>8, <2>0, <3>1, <3>4
      <4>2. Ahead(x) /\ ~Ahead(x)' /\ ~Seen(x)' BY <1>0, <1>8, <2>0, <3>4 DEF Seen, Ahead
      <4>. QED BY <4>1, <4>2 DEF HandlerChange, Halves
    <3>5. CASE x[1] = e /\ x # p /\ x[2] # m
      <4>1. thread[x] = "none" BY <1>1, <1>8, <3>5, ThreadBusy
      <4>2. thread'[x] = thread[x] BY <1>0, <1>8, <2>0, <3>1, <3>5
      <4>3. x[2] # n BY <1>1, <3>1, <3>5
      <4>4. (Seen(x)' => Seen(x)) /\ (Ahead(x)' => Ahead(x)) BY <1>0, <1>8, <2>0, <3>1, <3>5, <4>3 DEF Seen, Ahead
      <4>. QED BY <4>1, <4>2, <4>4 DEF HandlerChange, Halves
    <3>. QED BY <3>2, <3>3, <3>4, <3>5
  <2>5. WroteNoText \/ Wrote(p) BY <1>10, <2>3, <2>4
  <2>. QED BY <2>1, <2>2, <2>4, <2>5 DEF AppendStep
<1>9. CASE /\ emit[e] = "appending" /\ next[e] = n /\ ~(next[e] < Parts[e])
           /\ emit' = [emit EXCEPT ![e] = "returned"] /\ lock' = "free"
           /\ thread' = [thread EXCEPT ![p] = "none"] /\ UNCHANGED next
  <2>0. n = Parts[e] BY <1>0, <1>1, <1>9
  <2>1. WalTypes' BY <1>0, <1>2, <1>5, <1>9 DEF WalTypes
  <2>2. Exclusion'
    <3>1. flusher' \notin Holding BY <1>2, <1>9, LockFreed
    <3>2. \A x \in Emitters : emit'[x] # "appending" BY <1>0, <1>9, LockFreed
    <3>3. \A x \in Emitters : emit'[x] = "new" => next'[x] = 1 BY <1>0, <1>9 DEF Exclusion
    <3>. QED BY <3>1, <3>2, <3>3 DEF Exclusion
  <2>3. ASSUME NEW x \in Evidence PROVE HandlerChange(x) /\ Halves(x)
    <3>1. x[1] \in Emitters /\ x[2] \in Nat /\ x = <<x[1], x[2]>> /\ x[2] <= Parts[x[1]] BY PartOf
    <3>2. CASE x[1] # e
      <4>1. thread'[x] = thread[x] BY <1>0, <1>1, <1>9, <3>1, <3>2
      <4>2. (Seen(x)' <=> Seen(x)) /\ (Ahead(x)' <=> Ahead(x)) BY <1>0, <1>9, <3>1, <3>2 DEF Seen, Ahead
      <4>. QED BY <1>6, <4>1, <4>2 DEF HandlerChange, Halves
    <3>3. CASE x = p
      <4>1. thread'[x] = "none" /\ ~Ahead(x)' BY <1>0, <1>1, <1>9, <2>0, <3>3 DEF Ahead
      <4>. QED BY <1>1, <1>2, <1>5, <1>9, <3>3, <4>1 DEF HandlerChange, Halves
    <3>4. CASE x[1] = e /\ x # p
      <4>1. thread[x] = "none" BY <1>1, <1>9, <3>4, ThreadBusy
      <4>2. thread'[x] = thread[x] BY <1>0, <1>9, <3>4
      <4>3. x[2] # n BY <1>1, <3>1, <3>4
      <4>4. x[2] < n BY <2>0, <3>1, <3>4, <4>3
      <4>5. Seen(x) /\ ~Ahead(x)' BY <1>0, <1>9, <3>1, <3>4, <4>4 DEF Seen, Ahead
      <4>. QED BY <4>1, <4>2, <4>5 DEF HandlerChange, Halves
    <3>. QED BY <3>2, <3>3, <3>4
  <2>4. thread'[p] = "none" BY <1>0, <1>9
  <2>5. WroteNoText \/ Wrote(p) BY <1>10, <2>3, <2>4
  <2>. QED BY <2>1, <2>2, <2>3, <2>5 DEF AppendStep
<1>. QED BY <1>3, <1>7, <1>8, <1>9

LEMMA HandlerSteps ==
    ASSUME WalTypes, Exclusion, Writers, Handlers
    PROVE  WalTypes' /\ AppendStep /\ Exclusion' /\ UNCHANGED <<rejected, stored, flusher, batch, latest>>
<1>1. UNCHANGED <<rejected, stored, flusher, batch, latest>>
  BY DEF Handlers, Emit, CancelEmit, Write, Open, WriteHalf, WriteRest, AppendFails, delivering
<1>. QED BY <1>1, EmitStep, CancelStep, AppendFailsStep, OpenStep, WriteHalfStep, WriteRestStep DEF Handlers, Write

-----------------------------------------------------------------------------
(* What a write keeps of the invariant. *)

\* The lines that parse before and after a write.
LEMMA WroteValid ==
    ASSUME WalTypes, NEW q \in Evidence, Wrote(q),
           NEW i \in DOMAIN file', file'[i].valid
    PROVE  \/ i \in DOMAIN file /\ file'[i] = file[i]
           \/ i = Len(file') /\ thread[q] = "opened" /\ i \notin DOMAIN file
           \/ i = Len(file') /\ thread[q] = "half" /\ i \in DOMAIN file /\ file[i].bytes = {q}
<1>0. file \in Seq(Line) BY DEF WalTypes
<1>1. /\ file' \in Seq(Line) /\ Len(file') \in DOMAIN file'
      /\ \A j \in DOMAIN file' : j # Len(file') => j \in DOMAIN file /\ file'[j] = file[j]
  <2>1. Touched(file, file', q) BY DEF Wrote
  <2>. QED BY <1>0, <2>1, TouchedLines
<1>2. CASE i # Len(file') BY <1>1, <1>2
<1>3. CASE i = Len(file')
  <2>1. \/ thread[q] = "opened" /\ i = Len(file) + 1
        \/ thread[q] = "half" /\ i = Len(file) /\ file[i].bytes = {q}
    BY <1>3 DEF Wrote
  <2>2. Len(file) \in Nat /\ DOMAIN file = 1 .. Len(file) BY <1>0
  <2>3. i \in Nat /\ i >= 1 BY <1>1, <1>3
  <2>4. CASE thread[q] = "opened" /\ i = Len(file) + 1
    <3>1. i \notin DOMAIN file BY <2>2, <2>4
    <3>. QED BY <1>3, <2>4, <3>1
  <2>5. CASE thread[q] = "half" /\ i = Len(file) /\ file[i].bytes = {q}
    <3>1. i \in DOMAIN file BY <2>2, <2>3, <2>5
    <3>. QED BY <1>3, <2>5, <3>1
  <2>. QED BY <2>1, <2>4, <2>5
<1>. QED BY <1>2, <1>3

LEMMA AppendKeepsWriters ==
    ASSUME WalTypes, Writers, AppendStep
    PROVE  Writers'
<1>0. file \in Seq(Line) BY DEF WalTypes
<1> DEFINE Once(p) == \A i, j \in DOMAIN file : In(p, file, i) /\ In(p, file, j) => i = j
           Torn(p) == \A i \in DOMAIN file : In(p, file, i) => ~file[i].valid
<1>1. SUFFICES ASSUME NEW p \in Evidence
               PROVE  /\ Seen(p)' => thread'[p] = "none"
                      /\ Ahead(p)' => thread'[p] = "none"
                      /\ Ahead(p)' \/ thread'[p] \in {"started", "opened"} => p \notin Bytes(file')
                      /\ thread'[p] \in {"half", "text"} => Once(p)'
                      /\ thread'[p] = "half" => Torn(p)'
                      /\ thread'[p] = "text" => p \in Bytes(file')
  BY DEF Writers
<1>2. HandlerChange(p) BY DEF AppendStep
<1>3. (Seen(p)' => thread'[p] = "none") /\ (Ahead(p)' => thread'[p] = "none") BY <1>2 DEF HandlerChange
<1>4. Ahead(p)' \/ thread'[p] \in {"started", "opened"} => Ahead(p) \/ thread[p] \in {"started", "opened"}
  BY <1>2 DEF HandlerChange
<1>5. Ahead(p) \/ thread[p] \in {"started", "opened"} => p \notin Bytes(file) BY DEF Writers
<1>6. /\ thread[p] \in {"half", "text"} => Once(p)
      /\ thread[p] = "half" => Torn(p)
      /\ thread[p] = "text" => p \in Bytes(file)
  BY DEF Writers
<1>7. CASE WroteNoText
  <2>1. thread'[p] \in {"half", "text"} => thread[p] = thread'[p] BY <1>7 DEF Halves, WroteNoText
  <2>2. DOMAIN file' = DOMAIN file /\ Bytes(file') = Bytes(file) /\ \A i : In(p, file', i) <=> In(p, file, i)
    BY <1>0, <1>7, SameBytes DEF WroteNoText
  <2>3. \A i \in DOMAIN file : file'[i].valid = file[i].valid BY <1>7 DEF WroteNoText, SameText, Same
  <2>4. Once(p) => Once(p)' BY <2>2
  <2>5. Torn(p) => Torn(p)' BY <2>2, <2>3
  <2>6. thread'[p] = "half" => thread[p] = "half" BY <2>1
  <2>7. thread'[p] = "text" => thread[p] = "text" BY <2>1
  <2> HIDE DEF Once, Torn
  <2>. QED BY <1>3, <1>4, <1>5, <1>6, <2>2, <2>4, <2>5, <2>6, <2>7
<1>8. ASSUME NEW q \in Evidence, Wrote(q), p # q
      PROVE  /\ Ahead(p)' \/ thread'[p] \in {"started", "opened"} => p \notin Bytes(file')
             /\ thread'[p] \in {"half", "text"} => Once(p)'
             /\ thread'[p] = "half" => Torn(p)'
             /\ thread'[p] = "text" => p \in Bytes(file')
  <2>1. /\ \A i : In(p, file', i) => In(p, file, i)
        /\ DOMAIN file \subseteq DOMAIN file' /\ \A i \in DOMAIN file : file[i].bytes \subseteq file'[i].bytes
    <3>1. Touched(file, file', q) BY <1>8 DEF Wrote
    <3>. QED BY <1>0, <1>8, <3>1, TouchedLines
  <2>2. p \in Bytes(file') <=> p \in Bytes(file) BY <2>1, BytesAt DEF In
  <2>3. thread'[p] \in {"half", "text"} => thread[p] = thread'[p] BY <1>8 DEF Wrote, Halves
  <2>4. ASSUME thread'[p] = "half", NEW i \in DOMAIN file', In(p, file', i) PROVE ~file'[i].valid
    <3>1. In(p, file, i) /\ ~file[i].valid BY <1>6, <2>1, <2>3, <2>4 DEF In
    <3>. QED BY <1>8, <3>1, WroteValid DEF In
  <2>5. Once(p) => Once(p)' BY <2>1 DEF In
  <2>6. thread'[p] = "half" => Torn(p)' BY <2>4
  <2>7. thread'[p] \in {"half", "text"} => thread[p] \in {"half", "text"} BY <2>3
  <2>8. thread'[p] = "text" => thread[p] = "text" BY <2>3
  <2> HIDE DEF Once, Torn
  <2>. QED BY <1>4, <1>5, <1>6, <2>2, <2>5, <2>6, <2>7, <2>8
<1>9. ASSUME Wrote(p)
      PROVE  /\ Ahead(p)' \/ thread'[p] \in {"started", "opened"} => p \notin Bytes(file')
             /\ thread'[p] \in {"half", "text"} => Once(p)'
             /\ thread'[p] = "half" => Torn(p)'
             /\ thread'[p] = "text" => p \in Bytes(file')
  <2>1. thread[p] \in {"opened", "half"} /\ thread'[p] \in {"half", "text", "none"} BY <1>9 DEF Wrote
  <2>2. ~Ahead(p)' BY <1>2, <2>1 DEF HandlerChange, Writers
  <2>3. Touched(file, file', p) BY <1>9 DEF Wrote
  <2>4. ASSUME thread'[p] \in {"half", "text"}, NEW i, In(p, file', i) PROVE i = Len(file')
    <3>1. thread[p] = "opened" BY <1>9, <2>4 DEF Wrote
    <3>2. ~In(p, file, i) BY <1>5, <3>1, BytesAt DEF In
    <3>4. In(p, file, i) \/ i = Len(file') BY <1>0, <2>3, <2>4, TouchedLines
    <3>. QED BY <3>2, <3>4
  <2>5. thread'[p] = "half" => ~file'[Len(file')].valid BY <1>9 DEF Wrote
  <2>6. p \in Bytes(file')
    <3>1. In(p, file', Len(file')) BY <1>0, <2>3, TouchedLines
    <3>. QED BY <3>1, BytesAt DEF In
  <2>. QED BY <2>1, <2>2, <2>4, <2>5, <2>6
<1> HIDE DEF Once, Torn
<1>. QED BY <1>3, <1>7, <1>8, <1>9 DEF AppendStep

LEMMA AppendKeepsUnique ==
    ASSUME WalTypes, Writers, Unique, AppendStep, latest' \in {latest, <<>>}
    PROVE  Unique'
<1>0. file \in Seq(Line) BY DEF WalTypes
<1>3. UniqueIn(latest') BY DEF Unique, UniqueIn
<1>1. CASE WroteNoText
  <2>1. DOMAIN file' = DOMAIN file /\ \A p, i : In(p, file', i) <=> In(p, file, i)
    BY <1>0, <1>1, SameBytes DEF WroteNoText
  <2>2. \A i \in DOMAIN file : file'[i].valid = file[i].valid BY <1>1 DEF WroteNoText, SameText, Same
  <2>. QED BY <1>3, <2>1, <2>2 DEF Unique, UniqueIn
<1>2. ASSUME NEW q \in Evidence, Wrote(q) PROVE Unique'
  <2>1. SUFFICES ASSUME NEW p \in Evidence, NEW i \in DOMAIN file', NEW j \in DOMAIN file',
                        In(p, file', i), In(p, file', j), file'[i].valid
                 PROVE  i = j
    BY <1>3 DEF Unique, UniqueIn
  <2>2. /\ \A x, l : x # q /\ In(x, file', l) => In(x, file, l)
        /\ \A l : In(q, file', l) => In(q, file, l) \/ l = Len(file')
    <3>1. Touched(file, file', q) BY <1>2 DEF Wrote
    <3>. QED BY <1>0, <3>1, TouchedLines
  <2>3. \/ i \in DOMAIN file /\ file'[i] = file[i]
        \/ i = Len(file') /\ thread[q] = "opened" /\ i \notin DOMAIN file
        \/ i = Len(file') /\ thread[q] = "half" /\ i \in DOMAIN file /\ file[i].bytes = {q}
    BY <1>2, <2>1, WroteValid
  <2>4. CASE p # q
    <3>1. In(p, file, i) /\ In(p, file, j) BY <2>1, <2>2, <2>4
    <3>2. file[i].valid BY <2>1, <2>3, <2>4, <3>1 DEF In
    <3>. QED BY <3>1, <3>2 DEF Unique, UniqueIn, In
  <2>5. CASE p = q
    <3>1. CASE thread[q] = "opened"
      <4>1. \A l : ~In(q, file, l)
        <5>1. q \notin Bytes(file) BY <3>1 DEF Writers
        <5>. QED BY <5>1, BytesAt DEF In
      <4>. QED BY <2>1, <2>2, <2>5, <4>1
    <3>2. CASE thread[q] = "half"
      <4>1. /\ \A l, m \in DOMAIN file : In(q, file, l) /\ In(q, file, m) => l = m
            /\ \A l \in DOMAIN file : In(q, file, l) => ~file[l].valid
        BY <3>2 DEF Writers
      <4>2. i = Len(file') /\ i \in DOMAIN file /\ file[i].bytes = {q}
        BY <2>1, <2>3, <2>5, <3>2, <4>1 DEF In
      <4>. QED BY <2>1, <2>2, <2>5, <4>1, <4>2 DEF In
    <3>. QED BY <1>2, <3>1, <3>2 DEF Wrote
  <2>. QED BY <2>4, <2>5
<1>. QED BY <1>1, <1>2 DEF AppendStep

\* The file only grows.  A line that parses keeps its text, unless it was the last
\* one and was appended to; then it never parses again.
Grown(i) ==
    /\ file[i].bytes \subseteq file'[i].bytes
    /\ file[i].valid => Same(file[i], file'[i]) \/ (i = Len(file) /\ Swallowed(file[i], file'[i]))
    /\ \A b : b # {} /\ b \subseteq file[i].bytes /\ b # file[i].bytes /\ ~file[i].valid => ~file'[i].valid

LEMMA WroteGrows ==
    ASSUME WalTypes, Writers, NEW q \in Evidence, Wrote(q), NEW i \in DOMAIN file
    PROVE  Grown(i)
<1>0. file \in Seq(Line) /\ Len(file) \in Nat /\ DOMAIN file = 1 .. Len(file) BY DEF WalTypes
<1>1. /\ Touched(file, file', q)
      /\ file' \in Seq(Line) /\ i \in DOMAIN file' /\ Len(file) <= Len(file')
      /\ file[i].bytes \subseteq file'[i].bytes
      /\ i # Len(file') => file'[i] = file[i]
  <2>1. Touched(file, file', q) BY DEF Wrote
  <2>. QED BY <1>0, <2>1, TouchedLines
<1>2. CASE i # Len(file') BY <1>1, <1>2 DEF Grown, Same
<1>3. CASE i = Len(file')
  <2>1. i = Len(file) BY <1>0, <1>1, <1>3
  <2>2. file'[i].bytes = file[i].bytes \cup {q}
    <3>0. PICK n \in Nat : n = Len(file) /\ n = Len(file') BY <1>0, <1>3, <2>1
    <3>1. Len(file') # Len(file) + 1 BY <3>0
    <3>. QED BY <1>1, <1>3, <2>1, <3>1 DEF Touched
  <2>3. ASSUME file[i].valid PROVE q \notin file[i].bytes
    <3>1. CASE thread[q] = "opened"
      <4>1. q \notin Bytes(file) BY <3>1 DEF Writers
      <4>. QED BY <4>1, BytesAt
    <3>2. CASE thread[q] = "half" BY <2>3, <3>2 DEF Writers, In
    <3>. QED BY <3>1, <3>2 DEF Wrote
  <2>4. ASSUME file'[i].valid PROVE (file[i].bytes = {q} /\ ~file[i].valid) \/ file'[i] = file[i]
    <3>1. \/ file'[i] = file[i]
          \/ thread[q] = "half" /\ file[i].bytes = {q}
      BY <1>1, <2>4, WroteValid
    <3>2. CASE thread[q] = "half" /\ file[i].bytes = {q} BY <3>2 DEF Writers, In
    <3>. QED BY <3>1, <3>2
  <2>5. ASSUME file[i].valid PROVE Swallowed(file[i], file'[i])
    <3>1. file[i].bytes # file'[i].bytes BY <2>2, <2>3, <2>5
    <3>. QED BY <1>1, <2>4, <2>5, <3>1 DEF Swallowed
  <2>6. ASSUME NEW b, b # {}, b \subseteq file[i].bytes, b # file[i].bytes, ~file[i].valid PROVE ~file'[i].valid
    BY <2>4, <2>6
  <2>. QED BY <1>1, <2>1, <2>5, <2>6 DEF Grown
<1>. QED BY <1>2, <1>3

LEMMA AppendGrows ==
    ASSUME WalTypes, Writers, AppendStep
    PROVE  /\ Len(file) \in Nat /\ Len(file') \in Nat /\ Len(file) <= Len(file') /\ DOMAIN file \subseteq DOMAIN file'
           /\ \A i \in DOMAIN file : Grown(i)
           /\ Bytes(file) \subseteq Bytes(file')
<1>0. file \in Seq(Line) BY DEF WalTypes
<1>1. CASE WroteNoText
  <2>1. file' \in Seq(Line) /\ Len(file') = Len(file) /\ DOMAIN file' = DOMAIN file /\ Bytes(file') = Bytes(file)
    BY <1>0, <1>1, SameBytes DEF WroteNoText, SameText
  <2>2. \A i \in DOMAIN file : Same(file[i], file'[i]) BY <1>1 DEF WroteNoText, SameText
  <2>3. \A i \in DOMAIN file : Grown(i) BY <2>2 DEF Grown, Same
  <2>. QED BY <1>0, <2>1, <2>3
<1>2. ASSUME NEW q \in Evidence, Wrote(q)
      PROVE  /\ Len(file) \in Nat /\ Len(file') \in Nat /\ Len(file) <= Len(file') /\ DOMAIN file \subseteq DOMAIN file'
             /\ \A i \in DOMAIN file : Grown(i)
             /\ Bytes(file) \subseteq Bytes(file')
  <2>1. Touched(file, file', q) BY <1>2 DEF Wrote
  <2>2. /\ file' \in Seq(Line) /\ Len(file) <= Len(file') /\ DOMAIN file \subseteq DOMAIN file'
        /\ \A i \in DOMAIN file : file[i].bytes \subseteq file'[i].bytes
    BY <1>0, <2>1, TouchedLines
  <2>3. \A i \in DOMAIN file : Grown(i) BY <1>2, WroteGrows
  <2>4. Bytes(file) \subseteq Bytes(file') BY <2>2, BytesAt
  <2>. QED BY <1>0, <2>2, <2>3, <2>4
<1>. QED BY <1>1, <1>2 DEF AppendStep

LEMMA AppendKeepsSafe ==
    ASSUME WalTypes, Writers, Safe, AppendStep, UNCHANGED <<rejected, stored>>
    PROVE  Safe'
<1>1. SUFFICES ASSUME NEW p \in Evidence, Seen(p)'
               PROVE  p \in Bytes(file') \cup Bytes(rejected) \cup stored
  BY DEF Safe
<1>2. HandlerChange(p) BY DEF AppendStep
<1>3. Seen(p) \/ p \in Bytes(file') BY <1>1, <1>2 DEF HandlerChange
<1>4. Bytes(file) \subseteq Bytes(file') BY AppendGrows
<1>. QED BY <1>3, <1>4 DEF Safe

LEMMA AppendKeepsUpload ==
    ASSUME WalTypes, Writers, Upload, AppendStep, UNCHANGED <<stored, flusher, batch>>
    PROVE  Upload'
<1>1. Len(file) \in Nat /\ Len(file') \in Nat /\ Len(file) <= Len(file') /\ \A i \in DOMAIN file : Grown(i)
  BY AppendGrows
<1>2. DOMAIN file = 1 .. Len(file) /\ Len(batch) \in Nat /\ DOMAIN batch = 1 .. Len(batch) /\ batch \in Seq(Line)
  BY DEF WalTypes
<1>3. CASE flusher \in Uploading
  <2>1. /\ Len(batch) <= Len(file)
        /\ \A i \in 1 .. Len(batch) :
             /\ batch[i].valid /\ batch[i].ended
             /\ Same(batch[i], file[i]) \/ (i = Len(batch) /\ Swallowed(batch[i], file[i]))
    BY <1>3 DEF Upload
  <2>0. PICK n \in Nat, m \in Nat, l \in Nat : n = Len(batch) /\ m = Len(file) /\ l = Len(file') /\ n <= m /\ m <= l
    BY <1>1, <1>2, <2>1
  <2>2. Len(batch) <= Len(file') BY <2>0
  <2>3. ASSUME NEW i \in 1 .. Len(batch)
        PROVE  Same(batch[i], file'[i]) \/ (i = Len(batch) /\ Swallowed(batch[i], file'[i]))
    <3>1. i \in DOMAIN file /\ (i = Len(file) => i = Len(batch))
      <4>1. i \in 1 .. n /\ DOMAIN file = 1 .. m BY <1>2, <2>0
      <4>2. i \in 1 .. m /\ (i = m => i = n) BY <2>0, <4>1
      <4>. QED BY <2>0, <4>1, <4>2
    <3>2. Grown(i) /\ batch[i].valid BY <1>1, <2>1, <3>1
    <3>3. CASE Same(batch[i], file[i])
      <4>1. Same(file[i], file'[i]) \/ (i = Len(file) /\ Swallowed(file[i], file'[i])) BY <3>2, <3>3 DEF Grown, Same
      <4>. QED BY <3>1, <3>3, <4>1 DEF Same, Swallowed
    <3>4. CASE i = Len(batch) /\ Swallowed(batch[i], file[i])
      <4>1. batch[i].bytes # {} BY <1>2, LineFields
      <4>2. ~file'[i].valid /\ file[i].bytes \subseteq file'[i].bytes BY <3>2, <3>4, <4>1 DEF Grown, Swallowed
      <4>3. Swallowed(batch[i], file'[i]) BY <3>4, <4>2 DEF Swallowed
      <4>. QED BY <3>4, <4>3
    <3>. QED BY <2>1, <3>3, <3>4
  <2>. QED BY <2>1, <2>2, <2>3 DEF Upload
<1>. QED BY <1>3 DEF Upload, Uploading

LEMMA AppendKeepsReading ==
    ASSUME WalTypes, Exclusion, Writers, Reading, AppendStep, UNCHANGED <<rejected, flusher, batch, latest>>
    PROVE  Reading'
<1>0. file \in Seq(Line) BY DEF WalTypes
<1>1. /\ Len(file) \in Nat /\ Len(file') \in Nat /\ Len(file) <= Len(file') /\ DOMAIN file \subseteq DOMAIN file'
      /\ \A i \in DOMAIN file : file[i].bytes \subseteq file'[i].bytes
  BY AppendGrows DEF Grown
<1>3. ASSUME flusher \in Holding
      PROVE  /\ Len(latest) <= Len(file')
             /\ \A i \in DOMAIN latest : latest[i].bytes \subseteq file'[i].bytes
             /\ \A p \in Evidence : Seen(p)' => \A i \in DOMAIN file' : In(p, file', i) => In(p, latest, i)
  <2>1. /\ Len(latest) <= Len(file)
        /\ \A i \in DOMAIN latest : latest[i].bytes \subseteq file[i].bytes
        /\ \A p \in Evidence : Seen(p) => \A i \in DOMAIN file : In(p, file, i) => In(p, latest, i)
    BY <1>3 DEF Reading
  <2>2. Len(latest) \in Nat /\ DOMAIN latest = 1 .. Len(latest) /\ DOMAIN file = 1 .. Len(file) BY <1>0 DEF WalTypes
  <2>3. Len(latest) <= Len(file') BY <1>1, <2>1, <2>2
  <2>4. DOMAIN latest \subseteq DOMAIN file BY <1>1, <2>1, <2>2
  <2>5. \A i \in DOMAIN latest : latest[i].bytes \subseteq file'[i].bytes
    BY <1>1, <2>1, <2>4
  <2>6. ASSUME NEW p \in Evidence, Seen(p)', NEW i \in DOMAIN file', In(p, file', i) PROVE In(p, latest, i)
    <3>1. HandlerChange(p) /\ p[1] \in Emitters BY PartOf DEF AppendStep
    <3>2. Seen(p) BY <1>3, <2>6, <3>1, LockFreed DEF HandlerChange
    <3>3. thread[p] = "none" BY <3>2 DEF Writers
    <3>4. In(p, file, i)
      <4>1. CASE WroteNoText BY <1>0, <2>6, <4>1, SameBytes DEF WroteNoText
      <4>2. ASSUME NEW q \in Evidence, Wrote(q) PROVE In(p, file, i)
        <5>1. p # q /\ Touched(file, file', q) BY <3>3, <4>2 DEF Wrote
        <5>. QED BY <1>0, <2>6, <5>1, TouchedLines
      <4>. QED BY <4>1, <4>2 DEF AppendStep
    <3>. QED BY <2>1, <3>2, <3>4 DEF In
  <2>. QED BY <2>3, <2>5, <2>6
<1>4. /\ flusher = "removing" =>
           Len(batch) <= Len(latest) /\ \A i \in 1 .. Len(batch) : batch[i] = latest[i] /\ batch[i].valid
      /\ flusher \in {"setting_aside", "set_aside"} => latest # <<>>
      /\ flusher = "set_aside" => latest[1].bytes \subseteq Bytes(rejected)
  BY DEF Reading
<1>. QED BY <1>3, <1>4 DEF Reading

LEMMA HandlersKeep ==
    ASSUME WalInv, Handlers
    PROVE  WalInv'
<1>1. WalTypes /\ Exclusion /\ Writers /\ Unique /\ Safe /\ Upload /\ Reading BY DEF WalInv
<1>2. WalTypes' /\ AppendStep /\ Exclusion' /\ UNCHANGED <<rejected, stored, flusher, batch, latest>>
  BY <1>1, HandlerSteps
<1>3. Writers' /\ Unique' BY <1>1, <1>2, AppendKeepsWriters, AppendKeepsUnique
<1>4. Safe' /\ Upload' /\ Reading' BY <1>1, <1>2, AppendKeepsSafe, AppendKeepsUpload, AppendKeepsReading
<1>. QED BY <1>2, <1>3, <1>4 DEF WalInv

-----------------------------------------------------------------------------
(* The delivery task. *)

\* A step that leaves the handlers and the WAL alone and loses nothing.
Kept ==
    /\ UNCHANGED <<file, emit, next, thread>>
    /\ latest' \in {latest, <<>>, ReadLines(file)}
    /\ stored \subseteq stored' /\ Bytes(rejected) \subseteq Bytes(rejected')

LEMMA KeptParts ==
    ASSUME WalTypes, Writers, Unique, Safe, Kept
    PROVE  Writers' /\ Unique' /\ Safe'
<1>1. UNCHANGED <<file, emit, next, thread>> /\ stored \subseteq stored' /\ Bytes(rejected) \subseteq Bytes(rejected')
  BY DEF Kept
<1>2. ASSUME NEW p PROVE (Seen(p)' <=> Seen(p)) /\ (Ahead(p)' <=> Ahead(p)) BY <1>1 DEF Seen, Ahead
<1>3. Writers' BY <1>1, <1>2 DEF Writers
<1>4. Unique'
  <2>1. UniqueIn(<<>>) BY DEF UniqueIn
  <2>2. UniqueIn(ReadLines(file))
    <3>1. file \in Seq(Line) BY DEF WalTypes
    <3>2. PICK g : g = ReadLines(file) /\ g \in Seq(Line) /\ SameText(file, g) BY <3>1, ReadText
    <3>3. DOMAIN g = DOMAIN file /\ \A p, i : In(p, g, i) <=> In(p, file, i) BY <3>1, <3>2, SameBytes
    <3>4. \A i \in DOMAIN file : g[i].valid = file[i].valid BY <3>2 DEF SameText, Same
    <3>5. UniqueIn(g) BY <3>3, <3>4 DEF Unique, UniqueIn
    <3>. QED BY <3>2, <3>5
  <2>. QED BY <1>1, <2>1, <2>2 DEF Unique, Kept
<1>5. Safe' BY <1>1, <1>2 DEF Safe
<1>. QED BY <1>3, <1>4, <1>5

\* The delivery task starts anew.
LEMMA IdleParts ==
    ASSUME flusher' = "idle"
    PROVE  Upload' /\ Reading'
BY DEF Upload, Reading, Uploading, Holding

\* The lines that can be sent were all parsed.
LEMMA FittingLines ==
    ASSUME NEW lines \in Seq(Line), lines # <<>>, Readable(lines), FittingPrefixes(lines) # {},
           NEW t, t = SubSeq(ReadLines(lines), 1, Max(FittingPrefixes(lines)))
    PROVE  /\ t \in Seq(Line) /\ Len(t) <= Len(lines)
           /\ \A i \in 1 .. Len(t) : t[i].valid /\ t[i].ended /\ Same(t[i], lines[i])
<1>1. Len(lines) \in Nat /\ Len(lines) >= 1 /\ DOMAIN lines = 1 .. Len(lines) /\ BatchSize \in Nat /\ BatchSize >= 1
  BY BudgetAssumption
<1>2. PICK b \in Nat : b = Min({Len(lines), BatchSize}) /\ b <= Len(lines) /\ b >= 1
  <2>1. {Len(lines), BatchSize} \subseteq Nat BY <1>1
  <2>2. /\ Min({Len(lines), BatchSize}) \in {Len(lines), BatchSize}
        /\ \A x \in {Len(lines), BatchSize} : Min({Len(lines), BatchSize}) <= x
    BY <2>1, MinOfNaturals
  <2>. QED BY <1>1, <2>2
<1>3. \A i \in 1 .. b : lines[i].valid BY <1>2 DEF Readable
<1>4. PICK g : /\ g = ReadLines(lines) /\ g \in Seq(Line) /\ Len(g) = Len(lines)
               /\ \A i \in DOMAIN lines : g[i].ended /\ Same(lines[i], g[i])
  BY ReadText DEF SameText
<1>5. FittingPrefixes(lines) \subseteq 1 .. b /\ 1 .. b \subseteq 0 .. b BY <1>2 DEF FittingPrefixes
<1>6. Max(FittingPrefixes(lines)) \in FittingPrefixes(lines) BY <1>5, MaxOfNaturals
<1>7. PICK n \in Nat : n = Max(FittingPrefixes(lines)) /\ n \in 1 .. b BY <1>5, <1>6
<1>8. 1 <= n + 1 /\ n <= Len(g) BY <1>1, <1>2, <1>4, <1>7
<1>9. t = SubSeq(g, 1, n) BY <1>4, <1>7
<1>10. /\ t \in Seq(Line) /\ Len(t) = n - 1 + 1
       /\ \A i \in 1 .. (n - 1 + 1) : t[i] = g[i + 1 - 1]
  <2>1. g \in Seq(Line) /\ n \in Nat /\ 1 \in Nat /\ 1 <= 1 /\ 1 <= n + 1 /\ n <= Len(g) BY <1>4, <1>8
  <2>2. /\ SubSeq(g, 1, n) \in Seq(Line) /\ Len(SubSeq(g, 1, n)) = n - 1 + 1
        /\ \A i \in 1 .. (n - 1 + 1) : SubSeq(g, 1, n)[i] = g[i + 1 - 1]
    BY <2>1, Slice
  <2>. QED BY <1>9, <2>2
<1>11. n - 1 + 1 = n /\ \A i \in 1 .. n : i + 1 - 1 = i /\ i \in 1 .. b /\ i \in 1 .. Len(lines)
  BY <1>1, <1>2, <1>7
<1>12. t \in Seq(Line) /\ Len(t) = n /\ \A i \in 1 .. n : t[i] = g[i] /\ i \in DOMAIN lines /\ lines[i].valid
  BY <1>1, <1>3, <1>10, <1>11
<1>. QED BY <1>4, <1>8, <1>12 DEF Same

LEMMA SelectKeeps ==
    ASSUME WalInv, Select
    PROVE  WalInv'
<1>1. WalTypes /\ Exclusion /\ Writers /\ Unique /\ Safe BY DEF WalInv
<1>2. /\ flusher = "idle" /\ file # <<>> /\ Readable(file) /\ file \in Seq(Line)
      /\ UNCHANGED <<file, rejected, lock, emit, next, thread, latest, stored>>
  BY <1>1 DEF Select, emitting, WalTypes
<1>3. Kept BY <1>2 DEF Kept
<1>4. Writers' /\ Unique' /\ Safe' BY <1>1, <1>3, KeptParts
<1>6. CASE FittingPrefixes(file) = {} /\ flusher' = "unsendable" /\ batch' = batch
  <2>1. WalTypes' BY <1>1, <1>2, <1>6 DEF WalTypes
  <2>2. Exclusion' BY <1>1, <1>2, <1>6 DEF Exclusion, Holding
  <2>3. Upload' /\ Reading' BY <1>6 DEF Upload, Reading, Uploading, Holding
  <2>. QED BY <1>4, <2>1, <2>2, <2>3 DEF WalInv
<1>7. CASE FittingPrefixes(file) # {} /\ flusher' = "posting" /\ batch' = SubSeq(ReadLines(file), 1, Max(FittingPrefixes(file)))
  <2>1. /\ batch' \in Seq(Line) /\ Len(batch') <= Len(file)
        /\ \A i \in 1 .. Len(batch') : batch'[i].valid /\ batch'[i].ended /\ Same(batch'[i], file[i])
    BY <1>2, <1>7, FittingLines
  <2>2. WalTypes' BY <1>1, <1>2, <1>7, <2>1 DEF WalTypes
  <2>3. Exclusion' BY <1>1, <1>2, <1>7 DEF Exclusion, Holding
  <2>4. Upload' BY <1>2, <1>7, <2>1 DEF Upload
  <2>5. Reading' BY <1>7 DEF Reading, Holding
  <2>. QED BY <1>4, <2>2, <2>3, <2>4, <2>5 DEF WalInv
<1>. QED BY <1>6, <1>7 DEF Select

LEMMA CommitKeeps ==
    ASSUME WalInv, NEW p \in Evidence, Commit(p)
    PROVE  WalInv'
<1>1. /\ UNCHANGED <<file, rejected, lock, emit, next, thread, flusher, batch, latest>>
      /\ stored \subseteq stored'
  BY DEF Commit, emitting, delivering
<1>2. Writers' /\ Unique' /\ Safe' BY <1>1, KeptParts DEF Kept, WalInv
<1>3. WalTypes' /\ Exclusion' BY <1>1 DEF WalTypes, Exclusion, WalInv
<1>4. Upload' BY <1>1 DEF Upload, WalInv
<1>5. Reading'
  <2>1. Reading BY DEF WalInv
  <2>2. ASSUME NEW x PROVE Seen(x)' <=> Seen(x) BY <1>1 DEF Seen
  <2>. QED BY <1>1, <2>1, <2>2 DEF Reading
<1>. QED BY <1>2, <1>3, <1>4, <1>5 DEF WalInv

\* The answer to an upload.
LEMMA AnswerKeeps ==
    ASSUME WalInv, Accepted \/ PostFails \/ TooLarge \/ ChangedUnexpectedly
    PROVE  WalInv'
<1>1. /\ WalTypes /\ Exclusion /\ Writers /\ Unique /\ Safe /\ Upload BY DEF WalInv
<1>2. /\ flusher \in Uploading
      /\ UNCHANGED <<file, rejected, lock, emit, next, thread, latest, stored>>
      /\ \/ flusher' = "accepted" /\ batch' = batch /\ Bytes(batch) \subseteq stored
         \/ flusher' \in {"idle", "unsendable"} /\ batch' = <<>>
  BY DEF Accepted, PostFails, TooLarge, ChangedUnexpectedly, Attempt, Uploading, ReceiptMatches, emitting
<1>3. Writers' /\ Unique' /\ Safe' BY <1>1, <1>2, KeptParts DEF Kept
<1>4. WalTypes'
  <2>2. batch \in Seq(Line) /\ <<>> \in Seq(Line) BY <1>1 DEF WalTypes
  <2>3. batch' = batch \/ batch' = <<>> BY <1>2
  <2>1. batch' \in Seq(Line) BY <2>2, <2>3
  <2>. QED BY <1>1, <1>2, <2>1 DEF WalTypes
<1>5. Exclusion' BY <1>1, <1>2 DEF Exclusion, Holding
<1>6. Upload' /\ Reading'
  <2>1. CASE flusher' = "accepted" /\ batch' = batch /\ Bytes(batch) \subseteq stored
    <3>1. Reading' BY <2>1 DEF Reading, Holding
    <3>2. UNCHANGED <<file, batch, stored>> /\ flusher \in Uploading /\ flusher' \in Uploading
      BY <1>2, <2>1 DEF Uploading
    <3>3. Upload' BY <1>1, <2>1, <3>2 DEF Upload
    <3>. QED BY <3>1, <3>3
  <2>2. CASE flusher' \in {"idle", "unsendable"} BY <2>2 DEF Upload, Reading, Uploading, Holding
  <2>. QED BY <1>2, <2>1, <2>2
<1>. QED BY <1>3, <1>4, <1>5, <1>6 DEF WalInv

LEMMA PrefixElements ==
    ASSUME NEW a \in Seq(Line), NEW b \in Seq(Line)
    PROVE  IsPrefix(a, b) <=> Len(a) <= Len(b) /\ \A i \in 1 .. Len(a) : a[i] = b[i]
<1>1. PICK n \in Nat, m \in Nat : n = Len(a) /\ m = Len(b) OBVIOUS
<1>2. PICK t, u : t = SubSeq(a, 1, n) /\ u = SubSeq(b, 1, n) OBVIOUS
<1>3. IsPrefix(a, b) <=> n <= m /\ t = u BY <1>1, <1>2 DEF IsPrefix
<1>4. ASSUME n <= m PROVE t = u <=> \A i \in 1 .. n : a[i] = b[i]
  <2>1. 1 <= n + 1 /\ n <= Len(a) /\ n <= Len(b) BY <1>1, <1>4
  <2>2. /\ t \in Seq(Line) /\ Len(t) = n - 1 + 1 /\ \A i \in 1 .. (n - 1 + 1) : t[i] = a[i + 1 - 1]
    BY <1>2, <2>1, Slice, 1 \in Nat
  <2>3. /\ u \in Seq(Line) /\ Len(u) = n - 1 + 1 /\ \A i \in 1 .. (n - 1 + 1) : u[i] = b[i + 1 - 1]
    BY <1>2, <2>1, Slice, 1 \in Nat
  <2>4. n - 1 + 1 = n /\ \A i \in 1 .. n : i + 1 - 1 = i OBVIOUS
  <2>5. Len(t) = n /\ Len(u) = n /\ \A i \in 1 .. n : t[i] = a[i] /\ u[i] = b[i] BY <2>2, <2>3, <2>4
  <2>6. ASSUME \A i \in 1 .. n : a[i] = b[i] PROVE t = u
    <3>1. Len(t) = Len(u) /\ \A i \in 1 .. Len(t) : t[i] = u[i] BY <2>5, <2>6
    <3>. QED BY <2>2, <2>3, <3>1, SeqEqual
  <2>7. ASSUME t = u PROVE \A i \in 1 .. n : a[i] = b[i] BY <2>5, <2>7
  <2>. QED BY <2>6, <2>7
<1>. QED BY <1>1, <1>3, <1>4

\* The WAL is read under the lock, for the removal of a batch or of the head.
LEMMA ReadKeeps ==
    ASSUME WalInv, ReadAgain \/ ReadHead
    PROVE  WalInv'
<1>1. /\ WalTypes /\ Exclusion /\ Writers /\ Unique /\ Safe /\ Upload /\ Reading BY DEF WalInv
<1>2. /\ lock = "free" /\ lock' = "flusher" /\ latest' = ReadLines(file)
      /\ UNCHANGED <<file, rejected, emit, next, thread, batch, stored>>
      /\ \/ flusher = "accepted" /\ flusher' = "removing" /\ IsPrefix(batch, ReadLines(file))
         \/ flusher = "unsendable" /\ flusher' = "setting_aside" /\ file # <<>>
  BY DEF ReadAgain, ReadHead, emitting
<1>3. Writers' /\ Unique' /\ Safe' BY <1>1, <1>2, KeptParts DEF Kept
<1>0. /\ file \in Seq(Line) /\ batch \in Seq(Line) /\ Len(file) \in Nat /\ latest' \in Seq(Line)
      /\ SameText(file, latest')
  BY <1>1, <1>2, ReadText DEF WalTypes
<1>4. WalTypes' BY <1>0, <1>1, <1>2 DEF WalTypes
<1>5. Exclusion'
  <2>1. \A e \in Emitters : emit[e] # "appending" BY <1>1, <1>2, BudgetAssumption DEF Exclusion
  <2>. QED BY <1>1, <1>2, <2>1 DEF Exclusion
<1>6. /\ Len(latest') = Len(file') /\ Len(latest') <= Len(file')
      /\ \A i \in DOMAIN latest' : latest'[i].bytes \subseteq file'[i].bytes
      /\ \A p \in Evidence : Seen(p)' => \A i \in DOMAIN file' : In(p, file', i) => In(p, latest', i)
  <2>1. DOMAIN latest' = DOMAIN file /\ \A p, i : In(p, latest', i) <=> In(p, file, i) BY <1>0, SameBytes
  <2>. QED BY <1>0, <1>2, <2>1 DEF SameText, Same
<1>7. CASE flusher = "accepted" /\ flusher' = "removing" /\ IsPrefix(batch, ReadLines(file))
  <2>1. Upload' BY <1>1, <1>2, <1>7 DEF Upload, Uploading
  <2>2. Len(batch') <= Len(latest') /\ \A i \in 1 .. Len(batch') : batch'[i] = latest'[i] /\ batch'[i].valid
    <3>1. \A i \in 1 .. Len(batch) : batch[i].valid BY <1>1, <1>7 DEF Upload, Uploading
    <3>2. Len(batch) <= Len(latest') /\ \A i \in 1 .. Len(batch) : batch[i] = latest'[i]
      BY <1>0, <1>2, <1>7, PrefixElements
    <3>. QED BY <1>2, <3>1, <3>2
  <2>3. Reading' BY <1>6, <1>7, <2>2 DEF Reading
  <2>. QED BY <1>3, <1>4, <1>5, <2>1, <2>3 DEF WalInv
<1>8. CASE flusher = "unsendable" /\ flusher' = "setting_aside" /\ file # <<>>
  <2>2. Upload' BY <1>8 DEF Upload, Uploading
  <2>1. latest' # <<>> BY <1>0, <1>2, <1>6, <1>8
  <2>3. Reading' BY <1>6, <1>8, <2>1 DEF Reading
  <2>. QED BY <1>3, <1>4, <1>5, <2>2, <2>3 DEF WalInv
<1>. QED BY <1>2, <1>7, <1>8

LEMMA SetAsideKeeps ==
    ASSUME WalInv, SetAside
    PROVE  WalInv'
<1>1. /\ WalTypes /\ Exclusion /\ Writers /\ Unique /\ Safe /\ Upload /\ Reading BY DEF WalInv
<1>2. flusher = "setting_aside" /\ UNCHANGED <<file, emit, next, thread, batch, stored>>
  BY DEF SetAside, emitting
<1>3. latest \in Seq(Line) /\ latest # <<>> /\ rejected \in Seq(Line) BY <1>1, <1>2 DEF WalTypes, Reading
<1>4. CASE rejected' = Append(rejected, Head(latest)) /\ flusher' = "set_aside" /\ UNCHANGED <<lock, latest>>
  <2>1. 1 \in DOMAIN latest /\ Head(latest) = latest[1] BY <1>3
  <2>2. latest[1] \in Line BY <1>3, <2>1, LineFields
  <2>3. PICK l \in Line : l = latest[1] BY <2>2
  <2>4. rejected' = Append(rejected, l) BY <1>4, <2>1, <2>3
  <2>5. /\ rejected' \in Seq(Line) /\ Len(rejected) \in Nat /\ rejected'[Len(rejected) + 1] = l
        /\ DOMAIN rejected = 1 .. Len(rejected) /\ DOMAIN rejected' = 1 .. Len(rejected) + 1
        /\ \A i \in DOMAIN rejected : rejected'[i] = rejected[i]
    BY <1>3, <2>4
  <2>6. Len(rejected) + 1 \in DOMAIN rejected' /\ \A i \in DOMAIN rejected : i \in DOMAIN rejected' BY <2>5
  <2>7. Bytes(rejected) \subseteq Bytes(rejected') BY <2>5, <2>6, BytesAt
  <2>8. latest[1].bytes \subseteq Bytes(rejected') BY <2>3, <2>5, <2>6, BytesAt
  <2>9. Writers' /\ Unique' /\ Safe' BY <1>1, <1>2, <1>4, <2>7, KeptParts DEF Kept
  <2>10. WalTypes' BY <1>1, <1>2, <1>4, <2>5 DEF WalTypes
  <2>11. Exclusion' BY <1>1, <1>2, <1>4 DEF Exclusion, Holding
  <2>12. Upload' BY <1>4 DEF Upload, Uploading
  <2>13. Reading'
    <3>1. ASSUME NEW x PROVE Seen(x)' <=> Seen(x) BY <1>2 DEF Seen
    <3>2. /\ Len(latest) <= Len(file)
          /\ \A i \in DOMAIN latest : latest[i].bytes \subseteq file[i].bytes
          /\ \A p \in Evidence : Seen(p) => \A i \in DOMAIN file : In(p, file, i) => In(p, latest, i)
      BY <1>1, <1>2 DEF Reading, Holding
    <3>. QED BY <1>2, <1>3, <1>4, <2>8, <3>1, <3>2 DEF Reading
  <2>. QED BY <2>9, <2>10, <2>11, <2>12, <2>13 DEF WalInv
<1>5. CASE flusher' = "idle" /\ lock' = "free" /\ latest' = <<>> /\ rejected' = rejected
  <2>1. Writers' /\ Unique' /\ Safe' BY <1>1, <1>2, <1>5, KeptParts DEF Kept
  <2>2. WalTypes'
    <3>1. latest' \in Seq(Line) BY <1>5
    <3>. QED BY <1>1, <1>2, <1>5, <3>1 DEF WalTypes
  <2>3. Exclusion'
    <3>1. \A e \in Emitters : emit[e] # "appending" BY <1>1, <1>2, LockFreed DEF Holding
    <3>. QED BY <1>1, <1>2, <1>5, <3>1 DEF Exclusion, Holding
  <2>4. Upload' /\ Reading' BY <1>5, IdleParts
  <2>. QED BY <2>1, <2>2, <2>3, <2>4 DEF WalInv
<1>. QED BY <1>4, <1>5 DEF SetAside

LEMMA ReplaceFailsKeeps ==
    ASSUME WalInv, ReplaceFails
    PROVE  WalInv'
<1>1. /\ WalTypes /\ Exclusion /\ Writers /\ Unique /\ Safe BY DEF WalInv
<1>2. /\ flusher \in Holding /\ flusher' = "idle" /\ batch' = <<>> /\ latest' = <<>>
      /\ UNCHANGED <<file, rejected, emit, next, thread, stored>>
  BY DEF ReplaceFails, emitting, Holding
<1>3. Writers' /\ Unique' /\ Safe' BY <1>1, <1>2, KeptParts DEF Kept
<1>4. WalTypes'
  <2>1. batch' \in Seq(Line) /\ latest' \in Seq(Line) BY <1>2
  <2>. QED BY <1>1, <1>2, <2>1 DEF WalTypes
<1>5. Exclusion'
  <2>1. \A e \in Emitters : emit[e] # "appending" BY <1>1, <1>2, LockFreed
  <2>. QED BY <1>1, <1>2, <2>1 DEF Exclusion, Holding
<1>6. Upload' /\ Reading' BY <1>2, IdleParts
<1>. QED BY <1>3, <1>4, <1>5, <1>6 DEF WalInv

-----------------------------------------------------------------------------
(* The first k lines that were read leave the WAL. *)

CutStep(k) ==
    /\ flusher \in Holding /\ k \in 0 .. Len(latest)
    /\ \A i \in 1 .. k : latest[i].bytes \subseteq Bytes(rejected) \cup stored
    /\ k = 1 \/ \A i \in 1 .. k : latest[i].valid
    /\ Replaced(SubSeq(latest, k + 1, Len(latest)))
    /\ UNCHANGED <<rejected, emit, next, stored>>

LEMMA RemoveBatchCuts ==
    ASSUME WalInv, RemoveBatch
    PROVE  CutStep(Len(batch))
<1>1. /\ WalTypes /\ Upload /\ Reading BY DEF WalInv
<1>2. flusher = "removing" /\ UNCHANGED <<rejected, emit, next, stored>> BY DEF RemoveBatch
<1>3. /\ Len(batch) \in Nat /\ Len(latest) \in Nat /\ Len(batch) <= Len(latest)
      /\ DOMAIN batch = 1 .. Len(batch)
      /\ \A i \in 1 .. Len(batch) : batch[i] = latest[i] /\ batch[i].valid
      /\ Bytes(batch) \subseteq stored
  BY <1>1, <1>2 DEF WalTypes, Upload, Reading, Uploading
<1>4. \A i \in 1 .. Len(batch) : latest[i].bytes \subseteq stored /\ latest[i].valid BY <1>3, BytesAt
<1>5. Len(batch) \in 0 .. Len(latest) BY <1>3
<1>6. Replaced(SubSeq(latest, Len(batch) + 1, Len(latest))) BY DEF RemoveBatch
<1>. QED BY <1>2, <1>4, <1>5, <1>6 DEF CutStep, Holding

LEMMA TailIsSlice ==
    ASSUME NEW S, NEW s \in Seq(S), s # <<>>
    PROVE  Tail(s) = SubSeq(s, 1 + 1, Len(s))
<1>1. PICK n \in Nat : n = Len(s) /\ n >= 1 OBVIOUS
<1>2. PICK t : t = Tail(s) OBVIOUS
<1>3. t \in Seq(S) /\ Len(t) = n - 1 /\ \A i \in 1 .. n - 1 : t[i] = s[i + 1] BY <1>1, <1>2
<1>4. PICK u : u = SubSeq(s, 2, n) OBVIOUS
<1>5. u \in Seq(S) /\ Len(u) = n - 2 + 1 /\ \A i \in 1 .. (n - 2 + 1) : u[i] = s[i + 2 - 1]
  BY <1>1, <1>4, Slice, 2 \in Nat, 1 <= 2, 2 <= n + 1
<1>6. n - 2 + 1 = n - 1 /\ \A i \in 1 .. n - 1 : i + 2 - 1 = i + 1 BY <1>1
<1>7. Len(t) = Len(u) /\ \A i \in 1 .. Len(t) : t[i] = u[i] BY <1>3, <1>5, <1>6
<1>8. t = u BY <1>3, <1>5, <1>7, SeqEqual
<1>. QED BY <1>1, <1>2, <1>4, <1>8, 1 + 1 = 2

LEMMA DropHeadCuts ==
    ASSUME WalInv, DropHead
    PROVE  CutStep(1)
<1>1. /\ WalTypes /\ Reading BY DEF WalInv
<1>2. flusher = "set_aside" /\ UNCHANGED <<rejected, emit, next, stored>> BY DEF DropHead
<1>3. /\ latest \in Seq(Line) /\ latest # <<>> /\ latest[1].bytes \subseteq Bytes(rejected)
  BY <1>1, <1>2 DEF WalTypes, Reading
<1>4. Replaced(SubSeq(latest, 1 + 1, Len(latest))) BY <1>3, TailIsSlice DEF DropHead
<1>5. 1 \in 0 .. Len(latest) /\ \A i \in 1 .. 1 : i = 1 BY <1>3
<1>. QED BY <1>2, <1>3, <1>4, <1>5 DEF CutStep, Holding

\* What is left of the WAL, and where it was.
LEMMA CutFile ==
    ASSUME WalTypes, Reading, NEW k, CutStep(k)
    PROVE  /\ file' \in Seq(Line) /\ k \in Nat
           /\ \A i \in DOMAIN file' : /\ i \in Nat /\ i >= 1 /\ i + k \in DOMAIN latest /\ i + k \in DOMAIN file
                                      /\ file'[i] = latest[i + k] /\ file'[i].bytes \subseteq file[i + k].bytes
           /\ \A p \in Evidence : Seen(p) => \A j \in DOMAIN file : In(p, file, j) => j <= k \/ p \in Bytes(file')
           /\ \A p \in Evidence : Seen(p) => \A j \in DOMAIN file :
                In(p, file, j) /\ j <= k => p \in Bytes(rejected) \cup stored
<1>0. latest \in Seq(Line) /\ file \in Seq(Line) BY DEF WalTypes
<1>1. /\ k \in 0 .. Len(latest) /\ flusher \in Holding
      /\ \A i \in 1 .. k : latest[i].bytes \subseteq Bytes(rejected) \cup stored
      /\ file' = SubSeq(latest, k + 1, Len(latest))
  BY DEF CutStep, Replaced
<1>2. /\ file' \in Seq(Line)
      /\ \A i \in DOMAIN file' : i \in Nat /\ i >= 1 /\ i + k \in DOMAIN latest /\ file'[i] = latest[i + k]
      /\ \A j \in DOMAIN latest : k < j => j - k \in DOMAIN file'
  BY <1>0, <1>1, CutLines
<1>3. /\ Len(latest) <= Len(file)
      /\ \A i \in DOMAIN latest : latest[i].bytes \subseteq file[i].bytes
      /\ \A p \in Evidence : Seen(p) => \A i \in DOMAIN file : In(p, file, i) => In(p, latest, i)
  BY <1>1 DEF Reading
<1>4. PICK m \in Nat, n \in Nat : m = Len(latest) /\ n = Len(file) /\ DOMAIN latest = 1 .. m /\ DOMAIN file = 1 .. n /\ m <= n
  BY <1>0, <1>3
<1>5. DOMAIN latest \subseteq DOMAIN file /\ k \in Nat BY <1>1, <1>4
<1>6. \A i \in DOMAIN file' : i >= 1 BY <1>2
<1>7. ASSUME NEW p \in Evidence, Seen(p), NEW j \in DOMAIN file, In(p, file, j)
      PROVE  /\ j <= k \/ p \in Bytes(file')
             /\ j <= k => p \in Bytes(rejected) \cup stored
  <2>1. In(p, latest, j) BY <1>3, <1>7
  <2>2. j \in Nat /\ j >= 1 BY <1>4
  <2>3. CASE j <= k
    <3>1. j \in 1 .. k BY <1>5, <2>2, <2>3
    <3>. QED BY <1>1, <2>1, <2>3, <3>1 DEF In
  <2>4. CASE ~(j <= k)
    <3>1. k < j BY <1>5, <2>2, <2>4
    <3>2. PICK i \in DOMAIN file' : i = j - k BY <1>2, <2>1, <3>1 DEF In
    <3>3. i + k = j BY <1>5, <2>2, <3>2
    <3>4. p \in file'[i].bytes BY <1>2, <2>1, <3>2, <3>3 DEF In
    <3>. QED BY <2>4, <3>4, BytesAt
  <2>. QED BY <2>3, <2>4
<1>. QED BY <1>2, <1>3, <1>5, <1>6, <1>7

LEMMA CutKeeps ==
    ASSUME WalInv, NEW k, CutStep(k)
    PROVE  WalInv'
<1>1. /\ WalTypes /\ Exclusion /\ Writers /\ Unique /\ Safe /\ Reading BY DEF WalInv
<1>2. /\ flusher \in Holding /\ flusher' = "idle" /\ batch' = <<>> /\ latest' = <<>>
      /\ thread' = [p \in Evidence |-> IF thread[p] \in {"opened", "half", "text"} THEN "none" ELSE thread[p]]
      /\ UNCHANGED <<rejected, emit, next, stored>>
  BY DEF CutStep, Replaced
<1>3. /\ file' \in Seq(Line) /\ k \in Nat
      /\ \A i \in DOMAIN file' : /\ i \in Nat /\ i >= 1 /\ i + k \in DOMAIN latest /\ i + k \in DOMAIN file
                                 /\ file'[i] = latest[i + k] /\ file'[i].bytes \subseteq file[i + k].bytes
      /\ \A p \in Evidence : Seen(p) => \A j \in DOMAIN file : In(p, file, j) => j <= k \/ p \in Bytes(file')
      /\ \A p \in Evidence : Seen(p) => \A j \in DOMAIN file :
           In(p, file, j) /\ j <= k => p \in Bytes(rejected) \cup stored
  BY <1>1, CutFile
<1>4. WalTypes'
  <2>1. batch' \in Seq(Line) /\ latest' \in Seq(Line) BY <1>2
  <2>2. thread' \in [Evidence -> {"none", "started", "opened", "half", "text"}] BY <1>1, <1>2 DEF WalTypes
  <2>. QED BY <1>1, <1>2, <1>3, <2>1, <2>2 DEF WalTypes
<1>5. Exclusion'
  <2>1. \A e \in Emitters : emit[e] # "appending" BY <1>1, <1>2, LockFreed
  <2>. QED BY <1>1, <1>2, <2>1 DEF Exclusion, Holding
<1>6. \A p \in Evidence : (Seen(p)' <=> Seen(p)) /\ (Ahead(p)' <=> Ahead(p)) BY <1>2 DEF Seen, Ahead
<1>7. \A p, i : In(p, file', i) => In(p, file, i + k) BY <1>3 DEF In
<1>8. Bytes(file') \subseteq Bytes(file) BY <1>7, BytesAt DEF In
<1>9. Writers'
  <2>1. SUFFICES ASSUME NEW p \in Evidence
                 PROVE  /\ Seen(p)' => thread'[p] = "none"
                        /\ Ahead(p)' => thread'[p] = "none"
                        /\ Ahead(p)' \/ thread'[p] \in {"started", "opened"} => p \notin Bytes(file')
                        /\ thread'[p] \notin {"half", "text"}
    BY DEF Writers
  <2>2. thread'[p] \in {"none", "started"} /\ (thread[p] = "none" => thread'[p] = "none")
    BY <1>1, <1>2 DEF WalTypes
  <2>3. thread'[p] = "started" => thread[p] = "started" BY <1>1, <1>2 DEF WalTypes
  <2>. QED BY <1>1, <1>6, <1>8, <2>2, <2>3 DEF Writers
<1>10. Unique'
  <2>1. UniqueIn(<<>>) BY DEF UniqueIn
  <2>2. UniqueIn(file')
    <3>1. SUFFICES ASSUME NEW p \in Evidence, NEW i \in DOMAIN file', NEW j \in DOMAIN file',
                          In(p, file', i), In(p, file', j), file'[i].valid
                   PROVE  i = j
      BY DEF UniqueIn
    <3>2. In(p, latest, i + k) /\ In(p, latest, j + k) /\ latest[i + k].valid BY <1>3, <3>1 DEF In
    <3>3. i + k = j + k BY <1>1, <3>2 DEF Unique, UniqueIn, In
    <3>4. i \in Nat /\ j \in Nat /\ k \in Nat BY <1>3
    <3>. QED BY <3>3, <3>4
  <2>. QED BY <1>2, <2>1, <2>2 DEF Unique
<1>11. Safe'
  <2>1. SUFFICES ASSUME NEW p \in Evidence, Seen(p) PROVE p \in Bytes(file') \cup Bytes(rejected) \cup stored
    BY <1>2, <1>6 DEF Safe
  <2>2. CASE p \in Bytes(file)
    <3>1. PICK j \in DOMAIN file : In(p, file, j) BY <2>2, BytesAt DEF In
    <3>. QED BY <1>3, <2>1, <3>1
  <2>3. CASE p \notin Bytes(file) BY <1>1, <2>1, <2>3 DEF Safe
  <2>. QED BY <2>2, <2>3
<1>12. Upload' /\ Reading' BY <1>2, IdleParts
<1>. QED BY <1>4, <1>5, <1>9, <1>10, <1>11, <1>12 DEF WalInv

-----------------------------------------------------------------------------
LEMMA CrashKeeps ==
    ASSUME WalInv, Crash
    PROVE  WalInv'
<1>0. /\ WalTypes /\ Exclusion /\ Writers /\ Unique /\ Safe BY DEF WalInv
<1>1. /\ emit' = [e \in Emitters |-> IF emit[e] = "appending" THEN "abandoned" ELSE emit[e]]
      /\ thread' = [p \in Evidence |-> "none"]
      /\ flusher' = "idle" /\ batch' = <<>> /\ latest' = <<>>
      /\ file' = file /\ rejected' = rejected /\ next' = next /\ stored' = stored
  BY DEF Crash
<1>2. emit \in [Emitters -> {"new", "appending", "returned", "abandoned"}] BY <1>0 DEF WalTypes
<1>3. PICK E \in SUBSET Emitters : E = {e \in Emitters : emit[e] = "appending"} OBVIOUS
<1>4. /\ emit' = [e \in Emitters |-> IF e \in E THEN "abandoned" ELSE emit[e]]
      /\ \A e \in E : emit[e] = "appending"
      /\ thread' = [p \in Evidence |-> IF p \in Evidence THEN "none" ELSE thread[p]]
  BY <1>1, <1>3
<1>5. Evidence \in SUBSET Evidence OBVIOUS
<1>6. AppendStep BY <1>0, <1>1, <1>4, <1>5, GiveUpStep
<1>7. Writers' /\ Unique' /\ Safe' BY <1>0, <1>1, <1>6, AppendKeepsWriters, AppendKeepsUnique, AppendKeepsSafe
<1>8. WalTypes'
  <2>1. batch' \in Seq(Line) /\ latest' \in Seq(Line) BY <1>1
  <2>2. emit' \in [Emitters -> {"new", "appending", "returned", "abandoned"}] BY <1>1, <1>2
  <2>. QED BY <1>0, <1>1, <2>1, <2>2 DEF WalTypes
<1>9. Exclusion'
  <2>1. \A e \in Emitters : emit'[e] # "appending" /\ (emit'[e] = "new" => emit[e] = "new") BY <1>1, <1>2
  <2>. QED BY <1>0, <1>1, <2>1 DEF Exclusion, Holding
<1>10. Upload' /\ Reading' BY <1>1, IdleParts
<1>. QED BY <1>7, <1>8, <1>9, <1>10 DEF WalInv

LEMMA WalInit ==
    ASSUME Init
    PROVE  WalInv
<1>1. /\ file = <<>> /\ rejected = <<>> /\ batch = <<>> /\ latest = <<>> /\ flusher = "idle"
      /\ emit = [e \in Emitters |-> "new"] /\ next = [e \in Emitters |-> 1]
      /\ thread = [p \in Evidence |-> "none"]
  BY DEF Init
<1>2. <<>> \in Seq(Line) /\ DOMAIN <<>> = {} OBVIOUS
<1>3. WalTypes BY <1>1, <1>2, BudgetAssumption DEF WalTypes
<1>4. Exclusion BY <1>1 DEF Exclusion, Holding
<1>5. \A p \in Evidence : ~Seen(p) /\ thread[p] = "none" BY <1>1, PartOf DEF Seen
<1>6. \A p : p \notin Bytes(file) BY <1>1, <1>2, BytesAt
<1>7. Writers BY <1>5, <1>6 DEF Writers
<1>8. Unique BY <1>1, <1>2 DEF Unique, UniqueIn
<1>9. Safe BY <1>5 DEF Safe
<1>10. Upload /\ Reading BY <1>1 DEF Upload, Reading, Uploading, Holding
<1>. QED BY <1>3, <1>4, <1>7, <1>8, <1>9, <1>10 DEF WalInv

LEMMA WalStutter ==
    ASSUME WalInv, UNCHANGED vars
    PROVE  WalInv'
<1>1. UNCHANGED <<file, rejected, lock, emit, next, thread, flusher, batch, latest, stored>>
  BY DEF vars, emitting, delivering
<1>2. Writers' /\ Unique' /\ Safe' BY <1>1, KeptParts DEF Kept, WalInv
<1>3. WalTypes' /\ Exclusion' BY <1>1 DEF WalTypes, Exclusion, WalInv
<1>4. Upload' BY <1>1 DEF Upload, WalInv
<1>5. Reading'
  <2>1. Reading BY DEF WalInv
  <2>2. ASSUME NEW x PROVE Seen(x)' <=> Seen(x) BY <1>1 DEF Seen
  <2>. QED BY <1>1, <2>1, <2>2 DEF Reading
<1>. QED BY <1>2, <1>3, <1>4, <1>5 DEF WalInv

\* The steps, by what they do to the WAL.
LEMMA WalSteps ==
    ASSUME WalInv, Next
    PROVE  \/ Handlers
           \/ file' = file
           \/ \E k : CutStep(k)
<1>1. CASE RemoveBatch BY <1>1, RemoveBatchCuts
<1>2. CASE DropHead BY <1>2, DropHeadCuts
<1>3. CASE Select \/ PostFails \/ ReplaceFails \/ Crash \/ Accepted \/ TooLarge \/ ReadAgain
           \/ ChangedUnexpectedly \/ ReadHead \/ SetAside
  BY <1>3 DEF Select, PostFails, ReplaceFails, Crash, Accepted, TooLarge, ReadAgain, ChangedUnexpectedly, ReadHead, SetAside, Attempt
<1>4. ASSUME NEW p \in Evidence, Commit(p) PROVE file' = file BY <1>4 DEF Commit
<1>. QED BY <1>1, <1>2, <1>3, <1>4 DEF Next, Deliver, Handlers

LEMMA WalNext ==
    ASSUME WalInv, Next
    PROVE  WalInv'
<1>1. CASE Handlers BY <1>1, HandlersKeep
<1>2. CASE Select BY <1>2, SelectKeeps
<1>3. CASE Accepted \/ PostFails \/ TooLarge \/ ChangedUnexpectedly BY <1>3, AnswerKeeps
<1>4. CASE ReadAgain \/ ReadHead BY <1>4, ReadKeeps
<1>5. CASE SetAside BY <1>5, SetAsideKeeps
<1>6. CASE ReplaceFails BY <1>6, ReplaceFailsKeeps
<1>7. CASE RemoveBatch BY <1>7, RemoveBatchCuts, CutKeeps
<1>8. CASE DropHead BY <1>8, DropHeadCuts, CutKeeps
<1>9. CASE Crash BY <1>9, CrashKeeps
<1>10. ASSUME NEW p \in Evidence, Commit(p) PROVE WalInv' BY <1>10, CommitKeeps
<1>. QED BY <1>1, <1>2, <1>3, <1>4, <1>5, <1>6, <1>7, <1>8, <1>9, <1>10 DEF Next, Deliver, Handlers

\* The exporter keeps its invariant: through every interleaving of handlers, stray
\* worker threads, the delivery task and kills of the process, each part of an
\* event is written by one thread at one place, and what the delivery task removes
\* is what it sent or set aside.
THEOREM WalInvariant == Spec => []WalInv
<1>1. Init => WalInv BY WalInit
<1>2. WalInv /\ [Next]_vars => WalInv' BY WalNext, WalStutter
<1>. QED BY <1>1, <1>2, PTL DEF Spec

-----------------------------------------------------------------------------
\* What emit returned for (runner telemetry) is in the WAL, in the rejected WAL or
\* committed by the Controller, for any number of handlers, parts, failed writes,
\* cancelled handlers and kills.
THEOREM ReturnedIsKept == Spec => []NothingLost
<1>1. ASSUME WalInv PROVE NothingLost
  <2>1. SUFFICES ASSUME NEW p \in Promised PROVE p \in Bytes(file) \cup Bytes(rejected) \cup stored
    BY DEF NothingLost
  <2>2. p \in Evidence /\ Seen(p) BY DEF Promised, Seen
  <2>. QED BY <1>1, <2>2 DEF WalInv, Safe
<1>. QED BY <1>1, WalInvariant, PTL

\* The lines of an upload still lead the WAL whenever its answer arrives, but for a
\* last line read without its newline that a later append went on in: _flush_once
\* raises "changed unexpectedly during delivery" for this reason only.
THEOREM UploadStillLeads == Spec => []BatchStillLeads
<1>1. ASSUME WalInv, flusher \in {"posting", "accepted", "removing"}
      PROVE  IsPrefix(batch, ReadLines(file)) \/ LastSwallowed
  <2>1. /\ batch \in Seq(Line) /\ file \in Seq(Line) /\ Len(batch) <= Len(file)
        /\ \A i \in 1 .. Len(batch) :
             /\ batch[i].valid /\ batch[i].ended
             /\ Same(batch[i], file[i]) \/ (i = Len(batch) /\ Swallowed(batch[i], file[i]))
    BY <1>1 DEF WalInv, WalTypes, Upload, Uploading
  <2>2. PICK n \in Nat : n = Len(batch) /\ DOMAIN batch = 1 .. n /\ n <= Len(file) BY <2>1
  <2>3. PICK g : g = ReadLines(file) /\ g \in Seq(Line) /\ Len(g) = Len(file) BY <2>1, ReadText DEF SameText
  <2>4. ASSUME NEW i \in 1 .. n, Same(batch[i], file[i]) PROVE batch[i] = g[i]
    <3>1. i \in DOMAIN file /\ i \in DOMAIN batch BY <2>1, <2>2
    <3>2. batch[i] \in Line BY <2>1, <3>1, LineFields
    <3>. QED BY <2>1, <2>2, <2>3, <2>4, <3>1, <3>2, ReadAs
  <2>5. CASE \A i \in 1 .. n : Same(batch[i], file[i])
    <3>1. Len(batch) <= Len(g) /\ \A i \in 1 .. Len(batch) : batch[i] = g[i] BY <2>1, <2>2, <2>3, <2>4, <2>5
    <3>. QED BY <2>1, <2>3, <3>1, PrefixElements
  <2>6. CASE ~\A i \in 1 .. n : Same(batch[i], file[i])
    <3>1. n \in 1 .. n /\ Swallowed(batch[n], file[n]) /\ batch[n].valid BY <2>1, <2>2, <2>6
    <3>2. \A i \in 1 .. n : i # n => Same(batch[i], file[i]) BY <2>1, <2>2
    <3>3. PICK k \in Nat : k = n - 1 /\ k <= n BY <3>1
    <3>4. PICK f : f = Front(batch) /\ f = SubSeq(batch, 1, k) BY <2>2, <3>3 DEF Front
    <3>5. /\ f \in Seq(Line) /\ Len(f) = k - 1 + 1 /\ \A i \in 1 .. (k - 1 + 1) : f[i] = batch[i + 1 - 1]
      BY <2>1, <2>2, <3>3, <3>4, Slice, 1 \in Nat, 1 <= k + 1
    <3>6. k - 1 + 1 = k /\ \A i \in 1 .. k : i + 1 - 1 = i /\ i \in 1 .. n /\ i # n BY <3>3
    <3>7. Len(f) = k /\ \A i \in 1 .. k : f[i] = batch[i] BY <3>5, <3>6
    <3>8. \A i \in 1 .. k : f[i] = g[i] BY <2>4, <3>2, <3>6, <3>7
    <3>9. Len(f) <= Len(g) BY <2>1, <2>2, <2>3, <3>3, <3>7
    <3>10. IsPrefix(f, g) BY <2>3, <3>5, <3>7, <3>8, <3>9, PrefixElements
    <3>. QED BY <2>2, <2>3, <3>1, <3>4, <3>10 DEF LastSwallowed, Swallowed
  <2>. QED BY <2>5, <2>6
<1>2. WalInv => BatchStillLeads BY <1>1 DEF BatchStillLeads
<1>. QED BY <1>2, WalInvariant, PTL

\* Evidence leaves the WAL oldest first: only lines the delivery task cuts off the
\* front leave, and a line that parses holds the only copy of its part.
THEOREM EvidenceLeavesInOrder == Spec => OldestFirst
<1> DEFINE Older(p, q) == LineOf(p) < LineOf(q) /\ q \notin Bytes(file') => p \notin Bytes(file')
<1>1. ASSUME WalInv, [Next]_vars, NEW p \in Promised \cap Bytes(file), NEW q \in Promised \cap Bytes(file)
      PROVE  Older(p, q)
  <2>1. SUFFICES ASSUME LineOf(p) < LineOf(q), q \notin Bytes(file'), p \in Bytes(file') PROVE FALSE OBVIOUS
  <2>2. /\ WalTypes /\ Exclusion /\ Writers /\ Unique /\ Reading /\ file \in Seq(Line) BY <1>1 DEF WalInv, WalTypes
  <2>3. PICK k : CutStep(k)
    <3>1. file' # file BY <1>1, <2>1
    <3>2. ~Handlers
      <4>1. Handlers => AppendStep BY <2>2, HandlerSteps
      <4>2. AppendStep => Bytes(file) \subseteq Bytes(file') BY <2>2, AppendGrows
      <4>. QED BY <1>1, <2>1, <4>1, <4>2
    <3>. QED BY <1>1, <3>1, <3>2, WalSteps DEF vars
  <2>4. /\ k \in Nat
        /\ \A i \in DOMAIN file' : /\ i \in Nat /\ i >= 1 /\ i + k \in DOMAIN latest /\ file'[i] = latest[i + k]
        /\ \A x \in Evidence : Seen(x) => \A j \in DOMAIN file : In(x, file, j) => j <= k \/ x \in Bytes(file')
    BY <2>2, <2>3, CutFile
  <2>5. p \in Evidence /\ q \in Evidence /\ Seen(p) /\ Seen(q) BY DEF Promised, Seen
  <2>6. PICK i \in DOMAIN file : i = LineOf(p) /\ In(p, file, i)
    <3>1. \E i \in DOMAIN file : p \in file[i].bytes BY <1>1, BytesAt
    <3>. QED BY <3>1 DEF LineOf, In
  <2>7. PICK j \in DOMAIN file : j = LineOf(q) /\ In(q, file, j)
    <3>1. \E x \in DOMAIN file : q \in file[x].bytes BY <1>1, BytesAt
    <3>. QED BY <3>1 DEF LineOf, In
  <2>8. j <= k BY <2>1, <2>4, <2>5, <2>7
  <2>9. i \in Nat /\ j \in Nat /\ 1 <= i /\ i < j BY <2>1, <2>2, <2>6, <2>7
  <2>10. i \in 1 .. k /\ i <= k BY <2>4, <2>8, <2>9
  <2>11. In(p, latest, i) /\ latest[i].valid
    <3>1. flusher \in Holding /\ (k = 1 \/ \A x \in 1 .. k : latest[x].valid) BY <2>3 DEF CutStep
    <3>2. k # 1 BY <2>4, <2>8, <2>9
    <3>3. In(p, latest, i) BY <2>2, <2>5, <2>6, <3>1 DEF Reading
    <3>. QED BY <2>10, <3>1, <3>2, <3>3
  <2>12. PICK m \in DOMAIN file' : p \in file'[m].bytes BY <2>1, BytesAt
  <2>13. In(p, latest, m + k) /\ m \in Nat /\ m >= 1 BY <2>4, <2>12 DEF In
  <2>14. i = m + k BY <2>2, <2>5, <2>11, <2>13 DEF Unique, UniqueIn, In
  <2>. QED BY <2>4, <2>9, <2>10, <2>13, <2>14
<1>2. WalInv /\ [Next]_vars => [\A p, q \in Promised \cap Bytes(file) : Older(p, q)]_vars BY <1>1
<1>. QED BY <1>2, WalInvariant, PTL DEF Spec, OldestFirst
=============================================================================
