------------------------ MODULE ProtectionSyncProofs ------------------------
(***************************************************************************)
(* Theorems about the protection modes on their way to the Runners, for    *)
(* any number of Runners, streams, modes, generations and disturbances.    *)
(***************************************************************************)
EXTENDS ProtectionSync, QueueLemmas

-----------------------------------------------------------------------------
(***************************************************************************)
(* The inductive invariant, besides the types:                             *)
(*   Linked     what a pass has read is for the stream its Runner has, and *)
(*              only a Runner with a stream serves;                        *)
(*   Fresh      what was read is not older than the stream, and is newer   *)
(*              than what the Runner has, or no longer due;                *)
(*   Named      a generation names one mode;                               *)
(*   Reported   what is on record of a Runner is in effect where it serves *)
(*              and will not be taken back by what is on its way;          *)
(*   Decided    what a transaction has found applied, it may declare.      *)
(***************************************************************************)
Row == [stream : Streams, boot : Nat, gen : Nat, rejected : Nat, online : BOOLEAN]
Connection == [boot : Nat, state : {"none", "live", "gone"}, last : Int, ready : BOOLEAN, since : Nat]
Pass == [at : {"idle", "read"}, gen : Nat, mode : Modes]
Work == [at : {"idle", "checked", "decided"}, gen : Nat, accepted : BOOLEAN, mode : Modes, found : Nat]

PSTypes ==
    /\ generation \in Nat /\ mode \in Modes /\ modeGeneration \in Nat /\ modeGeneration <= generation
    /\ row \in [Runners -> Row] /\ conns \in [Streams -> Connection]
    /\ passes \in [Streams -> [Keys -> Pass]] /\ chain \in [Streams -> Work]
    /\ refusals \in [Streams -> Seq(Nat)] /\ boot \in [Runners -> Nat]
    /\ stream \in [Runners -> Streams \cup {0}] /\ store \in [Runners -> [gen : Nat, mode : Modes]]
    /\ serving \in [Runners -> BOOLEAN] /\ refused \in [Runners -> {"none", "file", "order"}]

Linked ==
    /\ \A s \in Streams, k \in Keys : passes[s][k].at = "read" => stream[Runner(s)] = s
    /\ \A r \in Runners : stream[r] = 0 => ~serving[r]
    /\ \A r \in Runners : stream[r] # 0 => Runner(stream[r]) = r

Fresh ==
    /\ \A s \in Streams, k \in Keys : passes[s][k].at = "read" =>
         /\ passes[s][k].gen <= generation /\ conns[s].since <= passes[s][k].gen
         /\ store[Runner(s)].gen <= passes[s][k].gen \/ passes[s][k].gen <= conns[s].last
    /\ \A r \in Runners : store[r].gen <= generation
    /\ \A s \in Streams : conns[s].since <= generation
    /\ \A r \in Runners : stream[r] # 0 => refused[r] = "file" \/ conns[stream[r]].last <= store[r].gen
    /\ \A r \in Runners : refused[r] # "order"

\* The modes by their generations.
History(h) ==
    /\ h[0] = Enforce /\ h[generation] = mode
    /\ \A r \in Runners : store[r].mode = h[store[r].gen]
    /\ \A s \in Streams, k \in Keys : passes[s][k].at = "read" => passes[s][k].mode = h[passes[s][k].gen]

Named == \E h \in [0 .. generation -> Modes] : History(h)

\* Somebody has it on record that r has applied g.
Told(r, g) ==
    \/ g = row[r].gen
    \/ \E s \in Streams : Runner(s) = r /\ chain[s].accepted /\ g = chain[s].gen
    \/ \E s \in Streams : g = chain[s].found

\* Generation g is in effect where r serves, and stays so.
Held(r, g) ==
    /\ g <= generation
    /\ serving[r] => refused[r] = "file" \/ g <= store[r].gen
    /\ \A s \in Streams, k \in Keys : passes[s][k].at = "read" /\ Runner(s) = r =>
         g <= passes[s][k].gen \/ g <= store[r].gen

Reported == \A r \in Runners, g \in Nat : Told(r, g) => Held(r, g)

Decided ==
    \A s \in Streams :
        /\ chain[s].at = "decided" => chain[s].accepted
        /\ chain[s].found > 0 => /\ chain[s].found <= modeGeneration
                                 /\ chain[s].found = modeGeneration => chain[s].mode = mode

PSInv == PSTypes /\ Linked /\ Fresh /\ Named /\ Reported /\ Decided

-----------------------------------------------------------------------------
(* Types. *)

(* The streams are numbers, each of one Runner, and every Runner has a first one. *)
LEMMA StreamFacts ==
    /\ \A s \in Streams : s \in Nat /\ s # 0 /\ Runner(s) \in Runners
    /\ \A r \in Runners : First(r) \in Streams /\ Runner(First(r)) = r
<1>1. \A s \in Streams : s \in Nat /\ s # 0 /\ Runner(s) \in Runners
  BY ProtectionAssumption DEF Streams, Runner
<1>2. ASSUME NEW r \in Runners PROVE First(r) \in Streams /\ Runner(First(r)) = r
  <2> DEFINE S == {s \in Streams : Runner(s) = r}
  <2>1. S \subseteq Nat BY <1>1
  <2>2. S # {} BY ProtectionAssumption DEF Streams, Runner
  <2> HIDE DEF S
  <2>3. PICK x \in S : \A y \in S : x <= y BY <2>1, <2>2, LeastOfNaturals
  <2>4. x \in Streams /\ Runner(x) = r /\ \A t \in Streams : Runner(t) = r => x <= t
    BY <2>3 DEF S
  <2> QED BY <2>4, Zenon DEF First
<1> QED BY <1>1, <1>2

(* The values that stand for nothing have their types. *)
LEMMA NothingTypes == NoPass \in Pass /\ NoWork \in Work /\ NoConn \in Connection /\ Enforce \in Modes
BY ProtectionAssumption DEF NoPass, NoWork, NoConn, Pass, Work, Connection

LEMMA InitTypes ==
    ASSUME PSInit
    PROVE  PSTypes
<1>1. generation \in Nat /\ mode \in Modes /\ modeGeneration \in Nat /\ modeGeneration <= generation
  BY NothingTypes DEF PSInit
<1>2. row \in [Runners -> Row]
  BY StreamFacts DEF PSInit, Row
<1>3. conns \in [Streams -> Connection]
  <2>1. [boot |-> 1, state |-> "live", last |-> 1, ready |-> TRUE, since |-> 0] \in Connection
    BY DEF Connection
  <2> QED BY <2>1, NothingTypes DEF PSInit
<1>4. passes \in [Streams -> [Keys -> Pass]] BY NothingTypes DEF PSInit
<1>5. chain \in [Streams -> Work] /\ refusals \in [Streams -> Seq(Nat)] BY NothingTypes DEF PSInit
<1>6. boot \in [Runners -> Nat] /\ stream \in [Runners -> Streams \cup {0}]
  BY StreamFacts DEF PSInit
<1>7. store \in [Runners -> [gen : Nat, mode : Modes]] BY NothingTypes DEF PSInit
<1>8. serving \in [Runners -> BOOLEAN] BY Zenon DEF PSInit
<1>9. refused \in [Runners -> {"none", "file", "order"}] BY DEF PSInit
<1> QED BY <1>1, <1>2, <1>3, <1>4, <1>5, <1>6, <1>7, <1>8, <1>9 DEF PSTypes

(* A connection stays a connection when its pass ends, and when it is gone. *)
LEMMA ConnectionTypes ==
    ASSUME PSTypes, NEW s \in Streams
    PROVE  /\ conns[s] \in Connection /\ Gone(s) \in Connection /\ Opened(s) \in Connection
           /\ \A k \in Keys : PassEnd(s, k) =>
                 conns' \in [Streams -> Connection] /\ passes' \in [Streams -> [Keys -> Pass]]
<1>1. conns[s] \in Connection /\ DOMAIN conns = Streams /\ boot[Runner(s)] \in Nat
  BY StreamFacts DEF PSTypes
<1>2. Gone(s) \in Connection
  <2>1. PICK c \in Connection : c = conns[s] BY <1>1
  <2>2. PICK c1 \in Connection : c1 = [c EXCEPT !.state = "gone"] BY DEF Connection
  <2>0. PICK l \in Int : l = -1 OBVIOUS
  <2>3. PICK c2 \in Connection : c2 = [c1 EXCEPT !.last = l] BY DEF Connection
  <2>4. PICK c3 \in Connection : c3 = [c2 EXCEPT !.ready = FALSE] BY DEF Connection
  <2>5. PICK c4 \in Connection : c4 = [c3 EXCEPT !.since = 0] BY DEF Connection
  <2> QED BY <2>0, <2>1, <2>2, <2>3, <2>4, <2>5, Zenon DEF Gone
<1>3. Opened(s) \in Connection
  BY <1>1, NothingTypes, generation \in Nat DEF Opened, Connection, PSTypes
<1>4. ASSUME NEW k \in Keys, PassEnd(s, k)
      PROVE  conns' \in [Streams -> Connection] /\ passes' \in [Streams -> [Keys -> Pass]]
  <2>1. passes[s][k] \in Pass /\ passes[s][k].gen \in Nat BY DEF PSTypes, Pass
  <2>2. PICK c : c = conns[s] OBVIOUS
  <2>3. PICK g \in Nat : g = passes[s][k].gen BY <2>1
  <2>4. conns' = [conns EXCEPT ![s] = [c EXCEPT !.last = IF Due(s, g) THEN g ELSE @,
                                         !.ready = @ \/ k = "full", !.since = IF k = "full" THEN 0 ELSE @]]
    BY <1>4, <1>1, <2>2, <2>3 DEF PassEnd, Connection, PSTypes
  <2>5. (c.ready \/ k = "full") \in BOOLEAN BY <2>2, <1>1 DEF Connection
  <2>6. [c EXCEPT !.last = IF Due(s, g) THEN g ELSE @,
                  !.ready = @ \/ k = "full", !.since = IF k = "full" THEN 0 ELSE @] \in Connection
    <3>1. PICK c0 \in Connection : c0 = c BY <2>2, <1>1
    <3>2. PICK l \in Int : l = IF Due(s, g) THEN g ELSE c.last BY <3>1 DEF Connection
    <3>3. PICK n \in Nat : n = IF k = "full" THEN 0 ELSE c.since BY <3>1 DEF Connection
    <3>4. PICK b \in BOOLEAN : b = (c.ready \/ k = "full") BY <2>5
    <3>5. PICK c1 \in Connection : c1 = [c0 EXCEPT !.last = l] BY DEF Connection
    <3>6. PICK c2 \in Connection : c2 = [c1 EXCEPT !.ready = b] BY DEF Connection
    <3>7. PICK c3 \in Connection : c3 = [c2 EXCEPT !.since = n] BY DEF Connection
    <3> QED BY <3>1, <3>2, <3>3, <3>4, <3>5, <3>6, <3>7, Zenon
  <2>7. conns' \in [Streams -> Connection] BY <2>4, <2>6 DEF PSTypes
  <2>8. passes' \in [Streams -> [Keys -> Pass]] BY <1>4, NothingTypes DEF PassEnd, PSTypes
  <2> QED BY <2>7, <2>8
<1> QED BY <1>1, <1>2, <1>3, <1>4

(* A change of the generation, and steps of the operator and of other changes. *)
LEMMA ChangeTypes ==
    ASSUME PSTypes, (\E m \in Modes : Update(m)) \/ OtherChange
    PROVE  PSTypes'
<1>1. PICK g \in Nat : g = generation + 1 /\ generation' = g BY DEF PSTypes, Update, OtherChange
<1>2. \/ mode' = mode /\ modeGeneration' = modeGeneration
      \/ mode' \in Modes /\ modeGeneration' = g
  BY <1>1 DEF Update, OtherChange
<1>3. UNCHANGED <<row, controlVars, runnerVars>> BY DEF Update, OtherChange
<1>4. mode' \in Modes /\ modeGeneration' \in Nat /\ modeGeneration' <= generation'
  BY <1>1, <1>2 DEF PSTypes
<1> QED BY <1>1, <1>3, <1>4 DEF PSTypes, controlVars, runnerVars

(* Streams come and go. *)
LEMMA StreamTypes ==
    ASSUME PSTypes,
           \/ \E r \in Runners : Drop(r) \/ Sweep(r) \/ \E kept \in BOOLEAN : Restart(r, kept)
           \/ \E s \in Streams : Register(s) \/ Disconnect(s)
    PROVE  PSTypes'
<1>1. ASSUME NEW r \in Runners, Drop(r) PROVE PSTypes'
  <2>1. /\ stream' \in [Runners -> Streams \cup {0}] /\ passes' \in [Streams -> [Keys -> Pass]]
    BY <1>1, NothingTypes DEF PSTypes, Drop, StreamEnds
  <2>2. serving' \in [Runners -> BOOLEAN] BY <1>1 DEF PSTypes, Drop, StreamEnds
  <2> QED BY <1>1, <2>1, <2>2 DEF PSTypes, Drop, dbVars
<1>2. ASSUME NEW r \in Runners, Sweep(r) PROVE PSTypes'
  <2>1. row' \in [Runners -> Row] BY <1>2 DEF PSTypes, Sweep, Row
  <2> QED BY <1>2, <2>1 DEF PSTypes, Sweep, dbVars, controlVars, runnerVars
<1>3. ASSUME NEW r \in Runners, NEW kept \in BOOLEAN, Restart(r, kept) PROVE PSTypes'
  <2>1. /\ stream' \in [Runners -> Streams \cup {0}] /\ passes' \in [Streams -> [Keys -> Pass]]
    BY <1>3, NothingTypes DEF PSTypes, Restart, StreamEnds
  <2>2. serving' \in [Runners -> BOOLEAN] BY <1>3 DEF PSTypes, Restart, StreamEnds
  <2>3. boot' \in [Runners -> Nat] BY <1>3 DEF PSTypes, Restart
  <2>4. NoOverlay \in [gen : Nat, mode : Modes] BY NothingTypes DEF NoOverlay
  <2>5. store' \in [Runners -> [gen : Nat, mode : Modes]] BY <1>3, <2>4 DEF PSTypes, Restart
  <2> QED BY <1>3, <2>1, <2>2, <2>3, <2>5 DEF PSTypes, Restart, dbVars
<1>4. ASSUME NEW s \in Streams, Register(s) PROVE PSTypes'
  <2>1. Runner(s) \in Runners /\ boot[Runner(s)] \in Nat BY StreamFacts DEF PSTypes
  <2>2. row' \in [Runners -> Row] BY <1>4, <2>1 DEF PSTypes, Register, Row
  <2>3. conns' \in [Streams -> Connection]
    <3>1. \A t \in Streams : conns[t] \in Connection /\ Gone(t) \in Connection /\ Opened(t) \in Connection
      BY ConnectionTypes
    <3> QED BY <1>4, <3>1 DEF Register
  <2>4. refusals' \in [Streams -> Seq(Nat)] BY <1>4 DEF PSTypes, Register
  <2>5. stream' \in [Runners -> Streams \cup {0}] /\ refused' \in [Runners -> {"none", "file", "order"}]
    BY <1>4 DEF PSTypes, Register
  <2> QED BY <1>4, <2>2, <2>3, <2>4, <2>5 DEF PSTypes, Register, dbVars
<1>5. ASSUME NEW s \in Streams, Disconnect(s) PROVE PSTypes'
  <2>1. Runner(s) \in Runners BY StreamFacts
  <2>2. row' \in [Runners -> Row]
    <3>1. [row EXCEPT ![Runner(s)].online = FALSE] \in [Runners -> Row] BY <2>1 DEF PSTypes, Row
    <3>2. row' = row \/ row' = [row EXCEPT ![Runner(s)].online = FALSE] BY <1>5 DEF Disconnect
    <3> QED BY <3>1, <3>2 DEF PSTypes
  <2>3. conns' \in [Streams -> Connection] BY <1>5, ConnectionTypes DEF PSTypes, Disconnect
  <2>4. refusals' \in [Streams -> Seq(Nat)] BY <1>5 DEF PSTypes, Disconnect
  <2> QED BY <1>5, <2>2, <2>3, <2>4 DEF PSTypes, Disconnect, dbVars, runnerVars
<1> QED BY <1>1, <1>2, <1>3, <1>4, <1>5

(* Passes begin and end. *)
LEMMA PassTypes ==
    ASSUME PSTypes, NEW s \in Streams, NEW k \in Keys, PassRead(s, k) \/ PassStep(s, k)
    PROVE  PSTypes'
<1>0. passes[s][k] \in Pass /\ passes[s][k].gen \in Nat /\ passes[s][k].mode \in Modes /\ Runner(s) \in Runners
  BY StreamFacts DEF PSTypes, Pass
<1>1. ASSUME PassRead(s, k) PROVE PSTypes'
  <2>1. [at |-> "read", gen |-> generation, mode |-> mode] \in Pass BY DEF PSTypes, Pass
  <2>2. passes' \in [Streams -> [Keys -> Pass]] BY <1>1, <2>1 DEF PSTypes, PassRead
  <2> QED BY <1>1, <2>2 DEF PSTypes, PassRead, dbVars, runnerVars
<1>2. ASSUME Serves(Runner(s), k) PROVE serving' \in [Runners -> BOOLEAN]
  <2>1. PICK b : b = (serving[Runner(s)] \/ k = "full") OBVIOUS
  <2>2. b \in BOOLEAN BY <2>1, Zenon
  <2>3. serving' = [serving EXCEPT ![Runner(s)] = b] BY <1>2, <2>1 DEF Serves, PSTypes
  <2> QED BY <2>2, <2>3 DEF PSTypes
<1>3. ASSUME Overlay(s, k) PROVE PSTypes'
  <2>1. conns' \in [Streams -> Connection] /\ passes' \in [Streams -> [Keys -> Pass]]
    BY <1>3, ConnectionTypes DEF Overlay
  <2>2. serving' \in [Runners -> BOOLEAN] BY <1>2, <1>3 DEF Overlay
  <2>3. store' \in [Runners -> [gen : Nat, mode : Modes]] BY <1>3, <1>0 DEF Overlay, PSTypes
  <2>4. refused' \in [Runners -> {"none", "file", "order"}] BY <1>3 DEF Overlay, PSTypes
  <2> QED BY <1>3, <2>1, <2>2, <2>3, <2>4 DEF PSTypes, Overlay, dbVars
<1>4. ASSUME OverlayRefused(s, k) PROVE PSTypes'
  <2>1. conns' \in [Streams -> Connection] /\ passes' \in [Streams -> [Keys -> Pass]]
    BY <1>4, ConnectionTypes DEF OverlayRefused
  <2>2. serving' \in [Runners -> BOOLEAN] BY <1>2, <1>4 DEF OverlayRefused
  <2>3. refusals' \in [Streams -> Seq(Nat)]
    <3>1. refusals[s] \in Seq(Nat) BY DEF PSTypes
    <3>2. Append(refusals[s], passes[s][k].gen) \in Seq(Nat) BY <3>1, <1>0
    <3> QED BY <1>4, <3>2 DEF OverlayRefused, PSTypes
  <2>4. refused' \in [Runners -> {"none", "file", "order"}] BY <1>4 DEF OverlayRefused, PSTypes
  <2> QED BY <1>4, <2>1, <2>2, <2>3, <2>4 DEF PSTypes, OverlayRefused, dbVars
<1>5. ASSUME OverlaySuperseded(s, k) PROVE PSTypes'
  <2>1. conns' \in [Streams -> Connection] /\ passes' \in [Streams -> [Keys -> Pass]]
    BY <1>5, ConnectionTypes DEF OverlaySuperseded
  <2>2. serving' \in [Runners -> BOOLEAN] BY <1>2, <1>5 DEF OverlaySuperseded
  <2> QED BY <1>5, <2>1, <2>2 DEF PSTypes, OverlaySuperseded, dbVars
<1>6. ASSUME PassInVain(s, k) PROVE PSTypes'
  <2>1. passes' \in [Streams -> [Keys -> Pass]] BY <1>6, NothingTypes DEF PSTypes, PassInVain
  <2>2. PICK c \in Connection : c = conns[s] BY DEF PSTypes
  <2>3. PICK b : b = (c.ready \/ k = "full") OBVIOUS
  <2>4. b \in BOOLEAN BY <2>3, Zenon
  <2>5. PICK c1 \in Connection : c1 = [c EXCEPT !.ready = b] BY <2>4 DEF Connection
  <2>6. PICK c2 \in Connection : c2 = [c1 EXCEPT !.since = 0] BY DEF Connection
  <2>7. conns' = [conns EXCEPT ![s] = [c EXCEPT !.ready = @ \/ k = "full", !.since = 0]]
    BY <1>6, <2>2 DEF PassInVain, PSTypes, Connection
  <2>8. [c EXCEPT !.ready = @ \/ k = "full", !.since = 0] = c2 BY <2>3, <2>5, <2>6, Zenon
  <2>9. conns' \in [Streams -> Connection] BY <2>7, <2>8 DEF PSTypes
  <2> QED BY <1>6, <2>1, <2>9 DEF PSTypes, PassInVain, dbVars, runnerVars
<1> QED BY <1>1, <1>3, <1>4, <1>5, <1>6 DEF PassStep

(* Results and heartbeats. *)
LEMMA HandleTypes ==
    ASSUME PSTypes, NEW s \in Streams, HandleStep(s)
    PROVE  PSTypes'
<1>0. chain[s] \in Work /\ chain[s].gen \in Nat /\ Runner(s) \in Runners
  BY StreamFacts DEF PSTypes, Work
<1>1. ASSUME NEW g \in Nat, NEW a \in BOOLEAN, Handle(s, g, a) PROVE chain' \in [Streams -> Work]
  <2>1. PICK w1 \in Work : w1 = [NoWork EXCEPT !.at = "checked"] BY NothingTypes DEF Work
  <2>2. PICK w2 \in Work : w2 = [w1 EXCEPT !.gen = g] BY DEF Work
  <2>3. PICK w3 \in Work : w3 = [w2 EXCEPT !.accepted = a] BY DEF Work
  <2>4. w3 = [NoWork EXCEPT !.at = "checked", !.gen = g, !.accepted = a] BY <2>1, <2>2, <2>3, Zenon
  <2>5. chain' = [chain EXCEPT ![s] = w3] BY <1>1, <2>4 DEF Handle
  <2> QED BY <2>5 DEF PSTypes
<1>2. CASE TakeRefusal(s)
  <2>1. refusals[s] \in Seq(Nat) /\ refusals[s] # <<>> BY <1>2 DEF PSTypes, TakeRefusal
  <2>2. Tail(refusals[s]) \in Seq(Nat) /\ Head(refusals[s]) \in Nat BY <2>1
  <2>3. refusals' \in [Streams -> Seq(Nat)] BY <1>2, <2>2 DEF PSTypes, TakeRefusal
  <2>4. chain' \in [Streams -> Work] BY <1>1, <1>2, <2>2 DEF PSTypes, TakeRefusal
  <2> QED BY <1>2, <2>3, <2>4 DEF PSTypes, TakeRefusal, dbVars, runnerVars
<1>3. CASE TakeHeartbeat(s)
  <2>1. store[Runner(s)].gen \in Nat BY <1>0 DEF PSTypes
  <2>2. chain' \in [Streams -> Work] BY <1>1, <1>3, <2>1 DEF TakeHeartbeat
  <2> QED BY <1>3, <2>2 DEF PSTypes, TakeHeartbeat, dbVars, runnerVars
<1>4. CASE RecordNothing(s)
  <2>1. chain' \in [Streams -> Work] BY <1>4, NothingTypes DEF PSTypes, RecordNothing
  <2> QED BY <1>4, <2>1 DEF PSTypes, RecordNothing, dbVars, runnerVars
<1>5. CASE RecordRejected(s)
  <2>1. chain' \in [Streams -> Work] BY <1>5, NothingTypes DEF PSTypes, RecordRejected
  <2>2. PICK r \in Runners, g \in Nat, w \in Row : r = Runner(s) /\ g = chain[s].gen /\ w = row[r]
    BY <1>0 DEF PSTypes, Work
  <2>3. [w EXCEPT !.rejected = g] \in Row BY DEF Row
  <2>4. row' = [row EXCEPT ![r] = [w EXCEPT !.rejected = g]] BY <1>5, <2>2 DEF RecordRejected
  <2>5. row' \in [Runners -> Row] BY <2>3, <2>4 DEF PSTypes
  <2> QED BY <1>5, <2>1, <2>5 DEF PSTypes, RecordRejected, dbVars, runnerVars
<1>6. CASE RecordAccepted(s)
  <2>1. PICK m \in Modes : m = IF ToDeclare(s) THEN mode ELSE chain[s].mode BY <1>0 DEF PSTypes, Work
  <2>2. PICK f \in Nat : f = IF ToDeclare(s) THEN modeGeneration ELSE chain[s].found
    BY <1>0 DEF PSTypes, Work
  <2>3. PICK c \in Work : c = chain[s] BY <1>0
  <2>4. chain' = [chain EXCEPT ![s] = [c EXCEPT !.at = "decided", !.mode = m, !.found = f]]
    BY <1>6, <2>1, <2>2, <2>3 DEF RecordAccepted, PSTypes, Work
  <2>5. PICK w1 \in Work : w1 = [c EXCEPT !.at = "decided"] BY DEF Work
  <2>6. PICK w2 \in Work : w2 = [w1 EXCEPT !.mode = m] BY DEF Work
  <2>7. PICK w3 \in Work : w3 = [w2 EXCEPT !.found = f] BY DEF Work
  <2>8. w3 = [c EXCEPT !.at = "decided", !.mode = m, !.found = f] BY <2>5, <2>6, <2>7, Zenon
  <2>9. chain' \in [Streams -> Work] BY <2>4, <2>8 DEF PSTypes
  <2> QED BY <1>6, <2>9 DEF PSTypes, RecordAccepted, dbVars, runnerVars
<1>7. CASE Declare(s)
  <2>1. chain' \in [Streams -> Work] BY <1>7, NothingTypes DEF PSTypes, Declare
  <2>2. PICK w \in Row : w = row[Runner(s)] BY <1>0 DEF PSTypes
  <2>3. row' = [row EXCEPT ![Runner(s)] = [w EXCEPT !.gen = chain[s].gen, !.rejected = 0]]
    BY <1>0, <1>7, <2>2 DEF Declare, PSTypes, Row
  <2>4. PICK w1 \in Row : w1 = [w EXCEPT !.gen = chain[s].gen] BY <1>0 DEF Row
  <2>5. PICK w2 \in Row : w2 = [w1 EXCEPT !.rejected = 0] BY DEF Row
  <2>6. w2 = [w EXCEPT !.gen = chain[s].gen, !.rejected = 0] BY <2>4, <2>5, Zenon
  <2>7. row' \in [Runners -> Row] BY <1>0, <2>3, <2>6 DEF PSTypes
  <2> QED BY <1>7, <2>1, <2>7 DEF PSTypes, Declare, runnerVars
<1> QED BY <1>2, <1>3, <1>4, <1>5, <1>6, <1>7 DEF HandleStep

-----------------------------------------------------------------------------
(* The values that the invariant compares are numbers. *)
LEMMA Numbers ==
    ASSUME PSTypes
    PROVE  /\ generation \in Nat /\ modeGeneration \in Nat
           /\ \A r \in Runners : store[r].gen \in Nat /\ row[r].gen \in Nat /\ stream[r] \in Streams \cup {0}
           /\ \A s \in Streams : /\ conns[s].last \in Int /\ conns[s].since \in Nat
                                 /\ chain[s].gen \in Nat /\ chain[s].found \in Nat
                                 /\ Runner(s) \in Runners /\ s # 0
           /\ \A s \in Streams, k \in Keys : passes[s][k].gen \in Nat
<1>1. \A r \in Runners : store[r].gen \in Nat /\ row[r].gen \in Nat /\ stream[r] \in Streams \cup {0}
  BY DEF PSTypes, Row
<1>2. \A s \in Streams : conns[s].last \in Int /\ conns[s].since \in Nat BY DEF PSTypes, Connection
<1>3. \A s \in Streams : chain[s].gen \in Nat /\ chain[s].found \in Nat BY DEF PSTypes, Work
<1>4. \A s \in Streams, k \in Keys : passes[s][k].gen \in Nat BY DEF PSTypes, Pass
<1> QED BY <1>1, <1>2, <1>3, <1>4, StreamFacts DEF PSTypes

(* Initially every Runner serves with the first generation. *)
LEMMA InitInvariant ==
    ASSUME PSInit
    PROVE  PSInv
<1>1. PSTypes BY InitTypes
<1>2. \A s \in Streams, k \in Keys : passes[s][k].at # "read" BY DEF PSInit, NoPass
<1>3. \A r \in Runners : /\ stream[r] = First(r) /\ store[r].gen = 1 /\ store[r].mode = Enforce
                         /\ serving[r] /\ refused[r] = "none" /\ row[r].gen = 1
  BY DEF PSInit
<1>4. generation = 1 /\ mode = Enforce /\ modeGeneration = 0 BY DEF PSInit
<1>5. \A s \in Streams : chain[s].at = "idle" /\ ~chain[s].accepted /\ chain[s].found = 0
  BY DEF PSInit, NoWork
<1>6. \A r \in Runners : conns[First(r)].last = 1
  <2>1. ASSUME NEW r \in Runners PROVE conns[First(r)].last = 1
    <3>1. First(r) \in Streams /\ First(Runner(First(r))) = First(r) BY StreamFacts
    <3>2. conns[First(r)] = [boot |-> 1, state |-> "live", last |-> 1, ready |-> TRUE, since |-> 0]
      BY <3>1, Zenon DEF PSInit
    <3> QED BY <3>2
  <2> QED BY <2>1
<1>7. Linked
  <2>1. \A r \in Runners : First(r) # 0 /\ Runner(First(r)) = r BY StreamFacts
  <2> QED BY <1>2, <1>3, <2>1 DEF Linked
<1>8. Fresh
  <2>1. \A s \in Streams : conns[s].since = 0 BY DEF PSInit, NoConn
  <2> QED BY <1>2, <1>3, <1>4, <1>6, <2>1 DEF Fresh
<1>9. Named
  <2> DEFINE h == [n \in 0 .. generation |-> Enforce]
  <2>1. h \in [0 .. generation -> Modes] BY NothingTypes
  <2>2. h[0] = Enforce /\ h[generation] = mode /\ h[1] = Enforce BY <1>4
  <2> HIDE DEF h
  <2>3. History(h) BY <1>2, <1>3, <2>2 DEF History
  <2> QED BY <2>1, <2>3 DEF Named
<1>10. Reported
  <2>1. ASSUME NEW r \in Runners, NEW g \in Nat, Told(r, g) PROVE Held(r, g)
    <3>1. g <= 1 BY <1>3, <1>5, <2>1 DEF Told
    <3> QED BY <1>2, <1>3, <1>4, <3>1 DEF Held
  <2> QED BY <2>1 DEF Reported
<1>11. Decided BY <1>5 DEF Decided
<1> QED BY <1>1, <1>7, <1>8, <1>9, <1>10, <1>11 DEF PSInv

(* What is older than what is held is held, and so is what the Runner has. *)
LEMMA HeldBelow ==
    ASSUME PSInv, NEW r \in Runners, NEW b \in Nat, b = store[r].gen \/ Told(r, b),
           NEW g \in Nat, g <= b
    PROVE  Held(r, g)
<1>1. store[r].gen <= generation /\ store[r].gen \in Nat BY Numbers DEF PSInv, Fresh
<1>2. CASE b = store[r].gen BY <1>1, <1>2, Numbers DEF Held, PSInv
<1>3. CASE Told(r, b)
  <2>1. Held(r, b) BY <1>3 DEF PSInv, Reported
  <2>2. g <= generation BY <2>1, Numbers DEF Held, PSInv
  <2>3. serving[r] => refused[r] = "file" \/ g <= store[r].gen BY <1>1, <2>1 DEF Held
  <2>4. ASSUME NEW s \in Streams, NEW k \in Keys, passes[s][k].at = "read" /\ Runner(s) = r
        PROVE  g <= passes[s][k].gen \/ g <= store[r].gen
    <3>1. passes[s][k].gen \in Nat BY Numbers DEF PSInv
    <3>2. b <= passes[s][k].gen \/ b <= store[r].gen BY <2>1, <2>4 DEF Held
    <3> QED BY <1>1, <3>1, <3>2
  <2> QED BY <2>2, <2>3, <2>4 DEF Held
<1> QED BY <1>2, <1>3

(* A step that only writes down what was told. *)
Still == UNCHANGED <<generation, mode, modeGeneration, conns, passes, stream, store, serving, refused>>

Supported == \A r \in Runners, g \in Nat : Told(r, g)' => \E b \in Nat : g <= b /\ (b = store[r].gen \/ Told(r, b))

LEMMA StillKeeps ==
    ASSUME PSInv, PSTypes', Still, Supported, Decided'
    PROVE  PSInv'
<1>1. Linked' BY DEF PSInv, Linked, Still
<1>2. Fresh' BY DEF PSInv, Fresh, Still
<1>3. Named'
  <2>1. PICK h \in [0 .. generation -> Modes] : History(h) BY DEF PSInv, Named
  <2>2. History(h)' BY <2>1 DEF History, Still
  <2> QED BY <2>2 DEF Named, Still
<1>4. Reported'
  <2>1. ASSUME NEW r \in Runners, NEW g \in Nat, Told(r, g)' PROVE Held(r, g)'
    <3>1. Held(r, g) BY <2>1, HeldBelow DEF Supported
    <3> QED BY <3>1 DEF Held, Still
  <2> QED BY <2>1 DEF Reported
<1> QED BY <1>1, <1>2, <1>3, <1>4 DEF PSInv

(* What the work on one stream may write down. *)
Writes(s) ==
    /\ \A t \in Streams \ {s} : chain'[t] = chain[t]
    /\ \A r \in Runners : \/ row'[r].gen = row[r].gen
                          \/ r = Runner(s) /\ chain[s].accepted /\ row'[r].gen = chain[s].gen
    /\ chain'[s].accepted => \/ chain'[s].gen = store[Runner(s)].gen
                             \/ chain[s].accepted /\ chain'[s].gen = chain[s].gen
    /\ \/ chain'[s].found = 0 \/ chain'[s].found = chain[s].found
       \/ \A r \in Runners : \E b \in Nat : chain'[s].found <= b /\ Told(r, b)

LEMMA WritesAreSupported ==
    ASSUME PSInv, PSTypes', NEW s \in Streams, Writes(s)
    PROVE  Supported
<1>1. SUFFICES ASSUME NEW r \in Runners, NEW g \in Nat, Told(r, g)'
               PROVE  \E b \in Nat : g <= b /\ (b = store[r].gen \/ Told(r, b))
  BY DEF Supported
<1>2. store[r].gen \in Nat BY Numbers DEF PSInv
<1>3. CASE g = row'[r].gen BY <1>3 DEF Writes, Told
<1>4. CASE \E t \in Streams : Runner(t) = r /\ chain'[t].accepted /\ g = chain'[t].gen
  <2>1. PICK t \in Streams : Runner(t) = r /\ chain'[t].accepted /\ g = chain'[t].gen BY <1>4
  <2>2. CASE t # s BY <2>1, <2>2 DEF Writes, Told
  <2>3. CASE t = s BY <1>2, <2>1, <2>3 DEF Writes, Told
  <2> QED BY <2>2, <2>3
<1>5. CASE \E t \in Streams : g = chain'[t].found
  <2>1. PICK t \in Streams : g = chain'[t].found BY <1>5
  <2>2. CASE t # s BY <2>1, <2>2 DEF Writes, Told
  <2>3. CASE t = s
    <3>1. CASE g = 0 BY <1>2, <3>1
    <3>2. CASE g = chain[s].found BY <3>2 DEF Told
    <3>3. CASE \A q \in Runners : \E b \in Nat : g <= b /\ Told(q, b) BY <3>3
    <3> QED BY <2>1, <2>3, <3>1, <3>2, <3>3 DEF Writes
  <2> QED BY <2>2, <2>3
<1> QED BY <1>1, <1>3, <1>4, <1>5 DEF Told

(* Decided survives when the other streams keep their work. *)
LEMMA DecidedKept ==
    ASSUME PSInv, Still, NEW s \in Streams, \A t \in Streams \ {s} : chain'[t] = chain[t],
           chain'[s].at = "decided" => chain'[s].accepted,
           chain'[s].found > 0 =>
               \/ chain'[s].found = chain[s].found /\ chain'[s].mode = chain[s].mode
               \/ chain'[s].found = modeGeneration /\ chain'[s].mode = mode
    PROVE  Decided'
<1>1. modeGeneration' = modeGeneration /\ mode' = mode /\ modeGeneration \in Nat
  BY Numbers DEF Still, PSInv
<1>2. ASSUME NEW t \in Streams
      PROVE  /\ chain'[t].at = "decided" => chain'[t].accepted
             /\ chain'[t].found > 0 => /\ chain'[t].found <= modeGeneration
                                       /\ chain'[t].found = modeGeneration => chain'[t].mode = mode
  <2>1. CASE t # s BY <2>1 DEF PSInv, Decided
  <2>2. CASE t = s BY <1>1, <2>2 DEF PSInv, Decided
  <2> QED BY <2>1, <2>2
<1> QED BY <1>1, <1>2 DEF Decided

(* An open transaction that finds every Runner at the generation was told so. *)
LEMMA FoundIsTold ==
    ASSUME PSInv, NEW s \in Streams, chain[s].accepted, AllApplied(s), NEW r \in Runners
    PROVE  \E b \in Nat : modeGeneration <= b /\ Told(r, b)
<1>1. row[r].stream \in Streams BY DEF PSInv, PSTypes, Row
<1>2. row[r].stream # 0 BY <1>1, StreamFacts
<1>3. (IF r = Runner(s) THEN chain[s].gen ELSE row[r].gen) >= modeGeneration BY <1>2 DEF AllApplied
<1>4. chain[s].gen \in Nat /\ row[r].gen \in Nat /\ modeGeneration \in Nat BY Numbers DEF PSInv
<1>5. CASE r = Runner(s)
  <2>1. Told(r, chain[s].gen) BY <1>5 DEF Told
  <2> QED BY <1>3, <1>4, <1>5, <2>1
<1>6. CASE r # Runner(s)
  <2>1. Told(r, row[r].gen) BY DEF Told
  <2> QED BY <1>3, <1>4, <1>6, <2>1
<1> QED BY <1>5, <1>6

(* Handling a result or a heartbeat keeps the invariant. *)
LEMMA HandleKeeps ==
    ASSUME PSInv, NEW s \in Streams, HandleStep(s)
    PROVE  PSInv'
<1>0. PSTypes' /\ Runner(s) \in Runners BY HandleTypes, StreamFacts DEF PSInv
<1>1. Still
  BY DEF HandleStep, TakeRefusal, TakeHeartbeat, RecordNothing, RecordRejected, RecordAccepted, Declare,
         Still, dbVars, runnerVars
<1>2. \A t \in Streams \ {s} : chain'[t] = chain[t]
  BY DEF HandleStep, TakeRefusal, TakeHeartbeat, RecordNothing, RecordRejected, RecordAccepted, Declare,
         Handle, PSInv, PSTypes
<1>3. SUFFICES /\ Writes(s)
               /\ chain'[s].at = "decided" => chain'[s].accepted
               /\ chain'[s].found > 0 =>
                    \/ chain'[s].found = chain[s].found /\ chain'[s].mode = chain[s].mode
                    \/ chain'[s].found = modeGeneration /\ chain'[s].mode = mode
  BY <1>0, <1>1, <1>2, StillKeeps, WritesAreSupported, DecidedKept
<1>4. chain[s] \in Work /\ DOMAIN chain = Streams /\ DOMAIN row = Runners /\ (\A r \in Runners : row[r] \in Row)
  BY DEF PSInv, PSTypes
<1>5. chain[s].at = "decided" => chain[s].accepted BY DEF PSInv, Decided
<1>6. NoWork.found = 0 /\ ~NoWork.accepted /\ NoWork.at = "idle" BY DEF NoWork
<1>7. ASSUME NEW g, NEW a, Handle(s, g, a)
      PROVE  chain'[s].found = 0 /\ chain'[s].at = "checked" /\ chain'[s].accepted = a /\ chain'[s].gen = g
  <2>1. chain'[s] = [NoWork EXCEPT !.at = "checked", !.gen = g, !.accepted = a] BY <1>4, <1>7 DEF Handle
  <2> QED BY <2>1 DEF NoWork
<1>8. CASE TakeRefusal(s)
  <2>1. UNCHANGED row /\ (UNCHANGED chain \/ Handle(s, Head(refusals[s]), FALSE)) BY <1>8 DEF TakeRefusal
  <2>2. ASSUME Handle(s, Head(refusals[s]), FALSE)
        PROVE  chain'[s].found = 0 /\ chain'[s].at = "checked" /\ chain'[s].accepted = FALSE
    BY <1>7, <2>2
  <2>3. CASE UNCHANGED chain BY <1>5, <2>1, <2>3 DEF Writes
  <2>4. CASE Handle(s, Head(refusals[s]), FALSE)
    <3>1. chain'[s].found = 0 /\ chain'[s].at = "checked" /\ ~chain'[s].accepted BY <2>2, <2>4
    <3>2. UNCHANGED row BY <2>1
    <3> QED BY <1>2, <3>1, <3>2 DEF Writes
  <2> QED BY <2>1, <2>3, <2>4
<1>9. CASE TakeHeartbeat(s)
  <2>1. UNCHANGED row /\ Handle(s, store[Runner(s)].gen, TRUE) BY <1>9 DEF TakeHeartbeat
  <2>2. chain'[s].found = 0 /\ chain'[s].at = "checked" /\ chain'[s].gen = store[Runner(s)].gen /\ chain'[s].accepted = TRUE
    BY <1>7, <2>1
  <2> QED BY <1>2, <2>1, <2>2 DEF Writes
<1>10. CASE RecordNothing(s)
  <2>1. UNCHANGED row /\ chain'[s] = NoWork BY <1>4, <1>10 DEF RecordNothing
  <2> QED BY <1>2, <1>6, <2>1 DEF Writes
<1>11. CASE RecordRejected(s)
  <2>1. chain'[s] = NoWork BY <1>4, <1>11 DEF RecordRejected
  <2>2. \A r \in Runners : row'[r].gen = row[r].gen BY <1>4, <1>11 DEF RecordRejected, Row
  <2> QED BY <1>2, <1>6, <2>1, <2>2 DEF Writes
<1>12. CASE RecordAccepted(s)
  <2>1. UNCHANGED row /\ chain[s].accepted BY <1>12 DEF RecordAccepted
  <2>2. /\ chain'[s].accepted = chain[s].accepted /\ chain'[s].gen = chain[s].gen
        /\ chain'[s].mode = IF ToDeclare(s) THEN mode ELSE chain[s].mode
        /\ chain'[s].found = IF ToDeclare(s) THEN modeGeneration ELSE chain[s].found
    BY <1>4, <1>12 DEF RecordAccepted, Work
  <2>3. CASE ToDeclare(s)
    <3>1. \A r \in Runners : \E b \in Nat : modeGeneration <= b /\ Told(r, b)
      BY <2>1, <2>3, FoundIsTold DEF ToDeclare
    <3> QED BY <1>2, <2>1, <2>2, <2>3, <3>1 DEF Writes
  <2>4. CASE ~ToDeclare(s) BY <1>2, <2>1, <2>2, <2>4 DEF Writes
  <2> QED BY <2>3, <2>4
<1>13. CASE Declare(s)
  <2>1. chain'[s] = NoWork /\ chain[s].accepted BY <1>4, <1>5, <1>13 DEF Declare
  <2>2. \A r \in Runners : row'[r].gen = IF r = Runner(s) THEN chain[s].gen ELSE row[r].gen
    BY <1>0, <1>4, <1>13 DEF Declare, Row
  <2> QED BY <1>2, <1>6, <2>1, <2>2 DEF Writes
<1> QED BY <1>8, <1>9, <1>10, <1>11, <1>12, <1>13 DEF HandleStep

(* A new generation keeps the invariant: it names a mode that nothing has yet. *)
LEMMA ChangeKeeps ==
    ASSUME PSInv, (\E m \in Modes : Update(m)) \/ OtherChange
    PROVE  PSInv'
<1>0. PSTypes' BY ChangeTypes DEF PSInv
<1>1. PICK n \in Nat : n = generation /\ n + 1 \in Nat BY Numbers DEF PSInv
<1>2. generation' = n + 1 BY <1>1 DEF Update, OtherChange
<1>3. \/ mode' = mode /\ modeGeneration' = modeGeneration
      \/ modeGeneration' = n + 1
  BY <1>1 DEF Update, OtherChange
<1>4. UNCHANGED <<row, conns, passes, chain, stream, store, serving, refused>>
  BY DEF Update, OtherChange, controlVars, runnerVars
<1>5. Linked' BY <1>4 DEF PSInv, Linked
<1>6. Fresh'
  <2>1. \A s \in Streams, k \in Keys : passes[s][k].at = "read" => passes[s][k].gen <= n + 1
    BY <1>1, Numbers DEF PSInv, Fresh
  <2>2. \A r \in Runners : store[r].gen <= n + 1 BY <1>1, Numbers DEF PSInv, Fresh
  <2>3. \A s \in Streams : conns[s].since <= n + 1 BY <1>1, Numbers DEF PSInv, Fresh
  <2> QED BY <1>2, <1>4, <2>1, <2>2, <2>3 DEF PSInv, Fresh
<1>7. Named'
  <2>1. PICK h \in [0 .. n -> Modes] : History(h) BY <1>1 DEF PSInv, Named
  <2>2. PICK j : j = [i \in 0 .. n + 1 |-> IF i = n + 1 THEN mode' ELSE h[i]] OBVIOUS
  <2>3. mode' \in Modes BY <1>0 DEF PSTypes
  <2>4. j \in [0 .. n + 1 -> Modes]
    <3>1. ASSUME NEW i \in 0 .. n + 1, i # n + 1 PROVE h[i] \in Modes
      <4>1. i \in 0 .. n BY <3>1
      <4> QED BY <4>1
    <3> QED BY <2>2, <2>3, <3>1
  <2>5. j[n + 1] = mode' BY <2>2
  <2>6. \A i \in Nat : i <= n => j[i] = h[i] BY <2>2
  <2>7. \A r \in Runners : store[r].mode = j[store[r].gen]
    <3>1. \A r \in Runners : store[r].gen \in Nat /\ store[r].gen <= n /\ store[r].mode = h[store[r].gen]
      BY <1>1, <2>1, Numbers DEF PSInv, Fresh, History
    <3> QED BY <2>6, <3>1
  <2>8. \A s \in Streams, k \in Keys : passes[s][k].at = "read" => passes[s][k].mode = j[passes[s][k].gen]
    <3>1. \A s \in Streams, k \in Keys : passes[s][k].at = "read" =>
             passes[s][k].gen \in Nat /\ passes[s][k].gen <= n /\ passes[s][k].mode = h[passes[s][k].gen]
      BY <1>1, <2>1, Numbers DEF PSInv, Fresh, History
    <3> QED BY <2>6, <3>1
  <2>9. h[0] = Enforce /\ j[0] = h[0] BY <2>1, <2>6 DEF History
  <2>10. History(j)' BY <1>2, <1>4, <2>5, <2>7, <2>8, <2>9 DEF History
  <2> QED BY <1>2, <2>4, <2>10 DEF Named
<1>8. Reported'
  <2>1. ASSUME NEW r \in Runners, NEW g \in Nat, Told(r, g)' PROVE Held(r, g)'
    <3>1. Told(r, g) BY <1>4, <2>1 DEF Told
    <3>2. Held(r, g) BY <3>1 DEF PSInv, Reported
    <3>3. g <= n + 1 BY <1>1, <3>2 DEF Held
    <3> QED BY <1>2, <1>4, <3>2, <3>3 DEF Held
  <2> QED BY <2>1 DEF Reported
<1>9. Decided'
  <2>1. modeGeneration <= n /\ modeGeneration \in Nat BY <1>1 DEF PSInv, PSTypes
  <2>2. ASSUME NEW s \in Streams
        PROVE  /\ chain'[s].at = "decided" => chain'[s].accepted
               /\ chain'[s].found > 0 => /\ chain'[s].found <= modeGeneration'
                                         /\ chain'[s].found = modeGeneration' => chain'[s].mode = mode'
    <3>1. chain[s].found \in Nat BY Numbers DEF PSInv
    <3> QED BY <1>3, <1>4, <2>1, <3>1 DEF PSInv, Decided
  <2> QED BY <2>2 DEF Decided
<1> QED BY <1>0, <1>5, <1>6, <1>7, <1>8, <1>9 DEF PSInv

(* A Runner that is swept offline, and a stream that the Controller sees end. *)
LEMMA SweepKeeps ==
    ASSUME PSInv, NEW r \in Runners, Sweep(r)
    PROVE  PSInv'
<1>1. PSTypes' BY StreamTypes DEF PSInv
<1>2. Still /\ UNCHANGED chain BY DEF Sweep, Still, dbVars, controlVars, runnerVars
<1>3. \A q \in Runners : row'[q].gen = row[q].gen BY DEF Sweep, PSInv, PSTypes, Row
<1>4. Supported
  <2>1. ASSUME NEW q \in Runners, NEW g \in Nat, Told(q, g)' PROVE Told(q, g) BY <1>2, <1>3, <2>1 DEF Told
  <2> QED BY <2>1 DEF Supported
<1>5. Decided' BY <1>2 DEF PSInv, Decided, Still
<1> QED BY <1>1, <1>2, <1>4, <1>5, StillKeeps

LEMMA GoneFields ==
    ASSUME PSTypes, NEW s \in Streams
    PROVE  Gone(s).since = 0
<1>1. PICK c \in Connection : c = conns[s] BY DEF PSTypes
<1>2. Gone(s) = [c EXCEPT !.state = "gone", !.last = -1, !.ready = FALSE, !.since = 0] BY <1>1 DEF Gone
<1> QED BY <1>2 DEF Connection

LEMMA DisconnectKeeps ==
    ASSUME PSInv, NEW s \in Streams, Disconnect(s)
    PROVE  PSInv'
<1>1. PSTypes' BY StreamTypes DEF PSInv
<1>2. UNCHANGED <<generation, mode, modeGeneration, passes, chain, stream, store, serving, refused>>
  BY DEF Disconnect, dbVars, runnerVars
<1>3. \A t \in Streams \ {s} : conns'[t] = conns[t] BY DEF Disconnect, PSInv, PSTypes
<1>4. stream[Runner(s)] # s /\ \A k \in Keys : passes[s][k].at # "read"
  BY DEF Disconnect, PSInv, Linked
<1>5. \A r \in Runners : stream[r] # s BY <1>4, StreamFacts DEF PSInv, Linked
<1>6. \A r \in Runners : row'[r].gen = row[r].gen
  <2>1. row' = row \/ row' = [row EXCEPT ![Runner(s)].online = FALSE] BY DEF Disconnect
  <2>2. Runner(s) \in Runners /\ row \in [Runners -> Row] BY StreamFacts DEF PSInv, PSTypes
  <2>3. \A r \in Runners : [row EXCEPT ![Runner(s)].online = FALSE][r].gen = row[r].gen BY <2>2 DEF Row
  <2> QED BY <2>1, <2>3
<1>7. Linked' BY <1>2 DEF PSInv, Linked
<1>8. Fresh'
  <2>1. \A t \in Streams, k \in Keys : passes[t][k].at = "read" => conns'[t] = conns[t] BY <1>3, <1>4
  <2>2. \A r \in Runners : stream[r] # 0 => conns'[stream[r]] = conns[stream[r]]
    BY <1>3, <1>5, Numbers DEF PSInv
  <2>3. conns'[s].since = 0 BY GoneFields DEF Disconnect, PSInv, PSTypes
  <2>4. \A t \in Streams : conns'[t].since <= generation BY <1>3, <2>3, Numbers DEF PSInv, Fresh
  <2> QED BY <1>2, <2>1, <2>2, <2>4 DEF PSInv, Fresh
<1>9. Named'
  <2>1. PICK h \in [0 .. generation -> Modes] : History(h) BY DEF PSInv, Named
  <2>2. History(h)' BY <1>2, <2>1 DEF History
  <2> QED BY <1>2, <2>2 DEF Named
<1>10. Reported'
  <2>1. ASSUME NEW r \in Runners, NEW g \in Nat, Told(r, g)' PROVE Held(r, g)'
    <3>1. Told(r, g) BY <1>2, <1>6, <2>1 DEF Told
    <3> QED BY <1>2, <3>1 DEF PSInv, Reported, Held
  <2> QED BY <2>1 DEF Reported
<1>11. Decided' BY <1>2 DEF PSInv, Decided
<1> QED BY <1>1, <1>7, <1>8, <1>9, <1>10, <1>11 DEF PSInv

(* A Runner without a stream registers: nothing is on its way to it. *)
LEMMA RegisterKeeps ==
    ASSUME PSInv, NEW s \in Streams, Register(s)
    PROVE  PSInv'
<1>0. PSTypes' BY StreamTypes DEF PSInv
<1>1. PICK r \in Runners : r = Runner(s) BY StreamFacts
<1>2. stream[r] = 0 /\ ~serving[r] BY <1>1 DEF Register, PSInv, Linked
<1>3. \A t \in Streams, k \in Keys : passes[t][k].at = "read" => Runner(t) # r
  BY <1>2, StreamFacts DEF PSInv, Linked
<1>4. UNCHANGED <<generation, mode, modeGeneration, passes, chain, store, serving>>
  BY DEF Register, dbVars
<1>5. /\ stream'[r] = s /\ refused'[r] = "none"
      /\ \A q \in Runners \ {r} : stream'[q] = stream[q] /\ refused'[q] = refused[q] /\ row'[q] = row[q]
  BY <1>1 DEF Register, PSInv, PSTypes
<1>6. row'[r].gen = 0
  <2>1. row'[r] = [stream |-> s, boot |-> boot[r], gen |-> 0, rejected |-> 0, online |-> TRUE]
    BY <1>1 DEF Register, PSInv, PSTypes
  <2> QED BY <2>1
<1>7. \A t \in Streams : Runner(t) # r => conns'[t] = conns[t] BY <1>1 DEF Register
<1>8. conns'[s].last = -1 /\ conns'[s].since = generation
  <2>1. conns'[s] = Opened(s) BY DEF Register
  <2> QED BY <2>1 DEF Opened, NoConn
<1>9. Linked'
  <2>1. ASSUME NEW t \in Streams, NEW k \in Keys, passes'[t][k].at = "read" PROVE stream'[Runner(t)] = t
    <3>1. passes[t][k].at = "read" /\ Runner(t) \in Runners \ {r} BY <1>3, <1>4, <2>1, StreamFacts
    <3> QED BY <1>5, <3>1 DEF PSInv, Linked
  <2>2. \A q \in Runners : stream'[q] = 0 => ~serving'[q] BY <1>2, <1>4, <1>5, StreamFacts DEF PSInv, Linked
  <2>3. \A q \in Runners : stream'[q] # 0 => Runner(stream'[q]) = q BY <1>1, <1>5 DEF PSInv, Linked
  <2> QED BY <2>1, <2>2, <2>3 DEF Linked
<1>10. Fresh'
  <2>1. \A t \in Streams, k \in Keys : passes[t][k].at = "read" => conns'[t] = conns[t] BY <1>3, <1>7
  <2>2. ASSUME NEW q \in Runners, stream'[q] # 0 PROVE refused'[q] = "file" \/ conns'[stream'[q]].last <= store[q].gen
    <3>1. store[q].gen \in Nat BY Numbers DEF PSInv
    <3>2. CASE q = r BY <1>5, <1>8, <3>1, <3>2
    <3>3. CASE q # r
      <4>1. stream'[q] = stream[q] /\ stream[q] # 0 /\ refused'[q] = refused[q] BY <1>5, <2>2, <3>3
      <4>2. Runner(stream[q]) = q /\ stream[q] \in Streams BY <4>1, Numbers DEF PSInv, Linked
      <4>3. conns'[stream[q]] = conns[stream[q]] BY <1>7, <3>3, <4>2
      <4> QED BY <4>1, <4>3 DEF PSInv, Fresh
    <3> QED BY <3>2, <3>3
  <2>3. \A q \in Runners : refused'[q] # "order" BY <1>5 DEF PSInv, Fresh
  <2>4. ASSUME NEW t \in Streams PROVE conns'[t].since <= generation
    <3>1. conns'[t] = conns[t] \/ conns'[t] = Gone(t) \/ t = s BY DEF Register
    <3>2. Gone(t).since = 0 BY GoneFields DEF PSInv
    <3> QED BY <1>8, <3>1, <3>2, Numbers DEF PSInv, Fresh
  <2> QED BY <1>4, <2>1, <2>2, <2>3, <2>4 DEF PSInv, Fresh
<1>11. Named'
  <2>1. PICK h \in [0 .. generation -> Modes] : History(h) BY DEF PSInv, Named
  <2>2. History(h)' BY <1>4, <2>1 DEF History
  <2> QED BY <1>4, <2>2 DEF Named
<1>12. Reported'
  <2>1. ASSUME NEW q \in Runners, NEW g \in Nat, Told(q, g)' PROVE Held(q, g)'
    <3>1. store[q].gen \in Nat BY Numbers DEF PSInv
    <3>2. Held(q, g)
      <4>1. CASE q = r /\ g = 0 BY <3>1, <4>1, HeldBelow
      <4>2. CASE ~(q = r /\ g = 0)
        <5>1. Told(q, g) BY <1>4, <1>5, <1>6, <2>1, <4>2 DEF Told
        <5> QED BY <5>1 DEF PSInv, Reported
      <4> QED BY <4>1, <4>2
    <3>3. serving[q] => refused'[q] = refused[q] BY <1>2, <1>5
    <3> QED BY <1>4, <3>2, <3>3 DEF Held
  <2> QED BY <2>1 DEF Reported
<1>13. Decided' BY <1>4 DEF PSInv, Decided
<1> QED BY <1>0, <1>9, <1>10, <1>11, <1>12, <1>13 DEF PSInv

(* A Runner that loses its stream stops serving, and what it keeps is of its past. *)
LEMMA StreamEndKeeps ==
    ASSUME PSInv, NEW r \in Runners, Drop(r) \/ \E kept \in BOOLEAN : Restart(r, kept)
    PROVE  PSInv'
<1>0. PSTypes' BY StreamTypes DEF PSInv
<1>1. UNCHANGED <<generation, mode, modeGeneration, row, conns, chain, refused>> /\ StreamEnds(r)
  BY DEF Drop, Restart, dbVars
<1>2. /\ stream'[r] = 0 /\ ~serving'[r]
      /\ \A q \in Runners \ {r} : stream'[q] = stream[q] /\ serving'[q] = serving[q]
  BY <1>1 DEF StreamEnds, PSInv, PSTypes
<1>3. \A t \in Streams, k \in Keys : passes'[t][k].at = "read" =>
         passes'[t] = passes[t] /\ passes[t][k].at = "read" /\ Runner(t) # r
  <2>1. SUFFICES ASSUME NEW t \in Streams, NEW k \in Keys, passes'[t][k].at = "read"
                 PROVE  passes'[t] = passes[t] /\ passes[t][k].at = "read" /\ Runner(t) # r
    OBVIOUS
  <2>2. passes'[t] = IF t = stream[r] THEN [i \in Keys |-> NoPass] ELSE passes[t] BY <1>1 DEF StreamEnds
  <2>3. t # stream[r] BY <2>1, <2>2 DEF NoPass
  <2>4. passes'[t] = passes[t] /\ passes[t][k].at = "read" BY <2>1, <2>2, <2>3
  <2> QED BY <2>3, <2>4 DEF PSInv, Linked
<1>4. /\ \A q \in Runners \ {r} : store'[q] = store[q]
      /\ store'[r] = store[r] \/ store'[r] = NoOverlay
  BY DEF Drop, Restart, PSInv, PSTypes
<1>5. NoOverlay.gen = 0 /\ NoOverlay.mode = Enforce BY DEF NoOverlay
<1>6. Linked'
  <2>1. ASSUME NEW t \in Streams, NEW k \in Keys, passes'[t][k].at = "read" PROVE stream'[Runner(t)] = t
    <3>1. passes[t][k].at = "read" /\ Runner(t) \in Runners \ {r} BY <1>3, <2>1, StreamFacts
    <3> QED BY <1>2, <3>1 DEF PSInv, Linked
  <2>2. \A q \in Runners : stream'[q] = 0 => ~serving'[q] BY <1>2 DEF PSInv, Linked
  <2>3. \A q \in Runners : stream'[q] # 0 => Runner(stream'[q]) = q BY <1>2 DEF PSInv, Linked
  <2> QED BY <2>1, <2>2, <2>3 DEF Linked
<1>7. Fresh'
  <2>1. \A q \in Runners : store'[q].gen <= generation BY <1>4, <1>5, Numbers DEF PSInv, Fresh
  <2>2. \A q \in Runners : stream'[q] # 0 => refused[q] = "file" \/ conns[stream'[q]].last <= store'[q].gen
    BY <1>2, <1>4 DEF PSInv, Fresh
  <2>3. ASSUME NEW t \in Streams, NEW k \in Keys, passes'[t][k].at = "read"
        PROVE  /\ passes'[t][k].gen <= generation /\ conns[t].since <= passes'[t][k].gen
               /\ store'[Runner(t)].gen <= passes'[t][k].gen \/ passes'[t][k].gen <= conns[t].last
    <3>1. passes'[t] = passes[t] /\ passes[t][k].at = "read" /\ Runner(t) \in Runners \ {r}
      BY <1>3, <2>3, StreamFacts
    <3> QED BY <1>4, <3>1 DEF PSInv, Fresh
  <2> QED BY <1>1, <2>1, <2>2, <2>3 DEF PSInv, Fresh
<1>8. Named'
  <2>1. PICK h \in [0 .. generation -> Modes] : History(h) BY DEF PSInv, Named
  <2>2. \A q \in Runners : store'[q].mode = h[store'[q].gen] BY <1>4, <1>5, <2>1 DEF History
  <2>3. \A t \in Streams, k \in Keys : passes'[t][k].at = "read" => passes'[t][k].mode = h[passes'[t][k].gen]
    BY <1>3, <2>1 DEF History
  <2>4. History(h)' BY <1>1, <2>1, <2>2, <2>3 DEF History
  <2> QED BY <1>1, <2>4 DEF Named
<1>9. Reported'
  <2>1. ASSUME NEW q \in Runners, NEW g \in Nat, Told(q, g)' PROVE Held(q, g)'
    <3>1. Told(q, g) BY <1>1, <2>1 DEF Told
    <3>2. Held(q, g) BY <3>1 DEF PSInv, Reported
    <3>3. CASE q = r BY <1>1, <1>2, <1>3, <3>2, <3>3 DEF Held
    <3>4. CASE q # r
      <4>1. store'[q] = store[q] /\ serving'[q] = serving[q] BY <1>2, <1>4, <3>4
      <4> QED BY <1>1, <1>3, <3>2, <4>1 DEF Held
    <3> QED BY <3>3, <3>4
  <2> QED BY <2>1 DEF Reported
<1>10. Decided' BY <1>1 DEF PSInv, Decided
<1> QED BY <1>0, <1>6, <1>7, <1>8, <1>9, <1>10 DEF PSInv

(* A pass reads the generation and its mode together. *)
LEMMA ReadKeeps ==
    ASSUME PSInv, NEW s \in Streams, NEW k \in Keys, PassRead(s, k)
    PROVE  PSInv'
<1>0. PSTypes' BY PassTypes DEF PSInv
<1>1. UNCHANGED <<generation, mode, modeGeneration, row, conns, chain, stream, store, serving, refused>>
  BY DEF PassRead, dbVars, runnerVars
<1>2. /\ passes'[s][k] = [at |-> "read", gen |-> generation, mode |-> mode]
      /\ \A t \in Streams, i \in Keys : ~(t = s /\ i = k) => passes'[t][i] = passes[t][i]
  BY DEF PassRead, PSInv, PSTypes
<1>3. passes'[s][k].gen = generation /\ passes'[s][k].mode = mode BY <1>2
<1>4. stream[Runner(s)] = s /\ Runner(s) \in Runners BY StreamFacts DEF PassRead
<1>5. generation \in Nat BY Numbers DEF PSInv
<1>6. Linked'
  <2>1. ASSUME NEW t \in Streams, NEW i \in Keys, passes'[t][i].at = "read" PROVE stream[Runner(t)] = t
    BY <1>2, <1>4, <2>1 DEF PSInv, Linked
  <2> QED BY <1>1, <2>1 DEF PSInv, Linked
<1>7. Fresh'
  <2>1. ASSUME NEW t \in Streams, NEW i \in Keys, passes'[t][i].at = "read"
        PROVE  /\ passes'[t][i].gen <= generation /\ conns[t].since <= passes'[t][i].gen
               /\ store[Runner(t)].gen <= passes'[t][i].gen \/ passes'[t][i].gen <= conns[t].last
    <3>1. CASE t = s /\ i = k BY <1>3, <1>4, <1>5, <3>1 DEF PSInv, Fresh
    <3>2. CASE ~(t = s /\ i = k) BY <1>2, <2>1, <3>2 DEF PSInv, Fresh
    <3> QED BY <3>1, <3>2
  <2> QED BY <1>1, <2>1 DEF PSInv, Fresh
<1>8. Named'
  <2>1. PICK h \in [0 .. generation -> Modes] : History(h) BY DEF PSInv, Named
  <2>2. ASSUME NEW t \in Streams, NEW i \in Keys, passes'[t][i].at = "read"
        PROVE  passes'[t][i].mode = h[passes'[t][i].gen]
    BY <1>2, <1>3, <2>1, <2>2 DEF History
  <2>3. History(h)' BY <1>1, <2>1, <2>2 DEF History
  <2> QED BY <1>1, <2>3 DEF Named
<1>9. Reported'
  <2>1. ASSUME NEW q \in Runners, NEW g \in Nat, Told(q, g)' PROVE Held(q, g)'
    <3>1. Told(q, g) BY <1>1, <2>1 DEF Told
    <3>2. Held(q, g) BY <3>1 DEF PSInv, Reported
    <3>3. ASSUME NEW t \in Streams, NEW i \in Keys, passes'[t][i].at = "read" /\ Runner(t) = q
          PROVE  g <= passes'[t][i].gen \/ g <= store[q].gen
      BY <1>2, <1>3, <3>2, <3>3 DEF Held
    <3> QED BY <1>1, <3>2, <3>3 DEF Held
  <2> QED BY <2>1 DEF Reported
<1>10. Decided' BY <1>1 DEF PSInv, Decided
<1> QED BY <1>0, <1>6, <1>7, <1>8, <1>9, <1>10 DEF PSInv

(* How a pass that has read m ends for its Runner r. *)
PassOver(s, k) ==
    LET r == Runner(s)
        m == passes[s][k]
    IN  /\ m.at = "read" /\ passes'[s][k].at = "idle"
        /\ \A t \in Streams, i \in Keys : ~(t = s /\ i = k) => passes'[t][i] = passes[t][i]
        /\ \A t \in Streams \ {s} : conns'[t] = conns[t]
        /\ conns'[s].since \in {0, conns[s].since} /\ conns[s].last <= conns'[s].last
        /\ \A q \in Runners \ {r} : store'[q] = store[q] /\ refused'[q] = refused[q] /\ serving'[q] = serving[q]
        /\ store[r].gen <= store'[r].gen
        /\ \/ store'[r] = store[r]
           \/ store'[r].gen = m.gen /\ store'[r].mode = m.mode /\ conns'[s].last = m.gen
        /\ refused'[r] = "file" \/ (conns'[s].last <= store'[r].gen /\ refused'[r] # "order")
        /\ \/ serving'[r] = serving[r] /\ refused'[r] = refused[r] /\ store'[r] = store[r]
           \/ refused'[r] = "file" \/ m.gen <= store'[r].gen
        /\ UNCHANGED <<generation, mode, modeGeneration, row, chain, stream>>

(* The bookkeeping of a pass that was sent. *)
LEMMA EndFields ==
    ASSUME PSTypes, NEW s \in Streams, NEW k \in Keys, PassEnd(s, k)
    PROVE  /\ passes'[s][k].at = "idle"
           /\ \A t \in Streams, i \in Keys : ~(t = s /\ i = k) => passes'[t][i] = passes[t][i]
           /\ \A t \in Streams \ {s} : conns'[t] = conns[t]
           /\ conns'[s].since \in {0, conns[s].since}
           /\ conns'[s].last = IF Due(s, passes[s][k].gen) THEN passes[s][k].gen ELSE conns[s].last
<1>1. passes' = [passes EXCEPT ![s][k] = NoPass] BY DEF PassEnd
<1>2. passes'[s][k] = NoPass /\ \A t \in Streams, i \in Keys : ~(t = s /\ i = k) => passes'[t][i] = passes[t][i]
  BY <1>1 DEF PSTypes
<1>3. \A t \in Streams \ {s} : conns'[t] = conns[t] BY DEF PassEnd, PSTypes
<1>4. /\ conns'[s].since \in {0, conns[s].since}
      /\ conns'[s].last = IF Due(s, passes[s][k].gen) THEN passes[s][k].gen ELSE conns[s].last
  BY DEF PassEnd, PSTypes, Connection
<1> QED BY <1>2, <1>3, <1>4 DEF NoPass

(* An overlay that is due is one that the Runner takes over: it is not older than what *)
(* the Runner has, and one of the same generation has the same mode.                   *)
LEMMA DueIsInOrder ==
    ASSUME PSInv, NEW s \in Streams, NEW k \in Keys, passes[s][k].at = "read", Due(s, passes[s][k].gen)
    PROVE  InOrder(Runner(s), passes[s][k]) /\ store[Runner(s)].gen <= passes[s][k].gen
<1>1. PICK r \in Runners : r = Runner(s) BY StreamFacts
<1>2. PICK g \in Nat : g = passes[s][k].gen BY Numbers DEF PSInv
<1>3. PICK n \in Nat : n = store[r].gen BY Numbers DEF PSInv
<1>4. conns[s].last \in Int /\ conns[s].last < g BY <1>2, Numbers DEF PSInv, Due
<1>5. n <= g \/ g <= conns[s].last BY <1>1, <1>2, <1>3 DEF PSInv, Fresh
<1>6. n <= g BY <1>4, <1>5
<1>7. n = g => passes[s][k].mode = store[r].mode
  <2>1. PICK h \in [0 .. generation -> Modes] : History(h) BY DEF PSInv, Named
  <2> QED BY <1>2, <1>3, <2>1 DEF History
<1> QED BY <1>1, <1>2, <1>3, <1>6, <1>7 DEF InOrder

LEMMA PassSteps ==
    ASSUME PSInv, NEW s \in Streams, NEW k \in Keys, PassStep(s, k)
    PROVE  PassOver(s, k)
<1>1. PICK r \in Runners : r = Runner(s) BY StreamFacts
<1>2. PICK m \in Pass : m = passes[s][k] BY DEF PSInv, PSTypes
<1>3. m.at = "read" /\ stream[r] = s /\ s # 0
  BY <1>1, <1>2, StreamFacts DEF PassStep, Overlay, OverlayRefused, OverlaySuperseded, PassInVain, Sent, PSInv, Linked
<1>4. m.gen \in Nat /\ store[r].gen \in Nat /\ conns[s].last \in Int BY <1>2, Numbers DEF Pass, PSInv
<1>5. PSTypes /\ store \in [Runners -> [gen : Nat, mode : Modes]] /\ DOMAIN refused = Runners /\ DOMAIN serving = Runners
  BY DEF PSInv, PSTypes
<1>6. refused[r] = "file" \/ (conns[s].last <= store[r].gen /\ refused[r] # "order")
  BY <1>3 DEF PSInv, Fresh
<1>7. CASE Overlay(s, k)
  <2>1. /\ store' = [store EXCEPT ![r] = [gen |-> m.gen, mode |-> m.mode]]
        /\ refused' = [refused EXCEPT ![r] = "none"] /\ PassEnd(s, k) /\ Serves(r, k) /\ Due(s, m.gen)
        /\ UNCHANGED <<generation, mode, modeGeneration, row, chain, stream>>
    BY <1>1, <1>2, <1>7 DEF Overlay, dbVars
  <2>2. store[r].gen <= m.gen BY <1>1, <1>2, <1>3, <2>1, DueIsInOrder
  <2>3. conns'[s].last = m.gen BY <1>2, <1>5, <2>1, EndFields
  <2>4. conns[s].last <= m.gen BY <1>4, <2>1 DEF Due
  <2>5. store'[r].gen = m.gen /\ store'[r].mode = m.mode /\ refused'[r] = "none" BY <1>5, <2>1
  <2>6. \A q \in Runners \ {r} : store'[q] = store[q] /\ refused'[q] = refused[q] /\ serving'[q] = serving[q]
    BY <1>5, <2>1 DEF Serves
  <2>7. m.gen <= m.gen BY <1>4
  <2> QED BY <1>1, <1>2, <1>3, <1>5, <2>1, <2>2, <2>3, <2>4, <2>5, <2>6, <2>7, EndFields DEF PassOver
<1>8. CASE OverlayRefused(s, k)
  <2>1. /\ refused' = [refused EXCEPT ![r] = IF InOrder(r, m) THEN "file" ELSE "order"]
        /\ PassEnd(s, k) /\ Serves(r, k) /\ Due(s, m.gen)
        /\ UNCHANGED <<generation, mode, modeGeneration, row, chain, stream, store>>
    BY <1>1, <1>2, <1>8 DEF OverlayRefused, dbVars
  <2>2. InOrder(r, m) BY <1>1, <1>2, <1>3, <2>1, DueIsInOrder
  <2>3. refused'[r] = "file" BY <1>5, <2>1, <2>2
  <2>4. conns'[s].last = m.gen /\ conns[s].last <= m.gen BY <1>2, <1>4, <1>5, <2>1, EndFields DEF Due
  <2>5. \A q \in Runners \ {r} : store'[q] = store[q] /\ refused'[q] = refused[q] /\ serving'[q] = serving[q]
    BY <1>5, <2>1 DEF Serves
  <2>6. store[r].gen <= store'[r].gen /\ store'[r] = store[r] BY <1>4, <2>1
  <2> QED BY <1>1, <1>2, <1>3, <1>5, <2>1, <2>3, <2>4, <2>5, <2>6, EndFields DEF PassOver
<1>9. CASE OverlaySuperseded(s, k)
  <2>1. /\ PassEnd(s, k) /\ Serves(r, k) /\ ~Due(s, m.gen)
        /\ UNCHANGED <<generation, mode, modeGeneration, row, chain, stream, store, refused>>
    BY <1>1, <1>2, <1>9 DEF OverlaySuperseded, dbVars
  <2>2. conns'[s].last = conns[s].last /\ m.gen <= conns[s].last BY <1>2, <1>4, <1>5, <2>1, EndFields DEF Due
  <2>3. \A q \in Runners \ {r} : store'[q] = store[q] /\ refused'[q] = refused[q] /\ serving'[q] = serving[q]
    BY <1>5, <2>1 DEF Serves
  <2>4. store[r].gen <= store'[r].gen /\ store'[r] = store[r] /\ conns[s].last <= conns'[s].last BY <1>4, <2>1, <2>2
  <2>5. refused'[r] = "file" \/ (conns'[s].last <= store'[r].gen /\ refused'[r] # "order" /\ m.gen <= store'[r].gen)
    BY <1>4, <1>6, <2>1, <2>2
  <2> QED BY <1>1, <1>2, <1>3, <1>5, <2>1, <2>3, <2>4, <2>5, EndFields DEF PassOver
<1>10. CASE PassInVain(s, k)
  <2>1. /\ passes' = [passes EXCEPT ![s][k] = NoPass]
        /\ UNCHANGED <<generation, mode, modeGeneration, row, chain, stream, store, refused, serving>>
    BY <1>10 DEF PassInVain, dbVars, runnerVars
  <2>2. passes'[s][k] = NoPass /\ \A t \in Streams, i \in Keys : ~(t = s /\ i = k) => passes'[t][i] = passes[t][i]
    BY <1>5, <2>1 DEF PSTypes
  <2>3. /\ conns'[s].last = conns[s].last /\ conns'[s].since = 0
        /\ \A t \in Streams \ {s} : conns'[t] = conns[t]
    BY <1>5, <1>10 DEF PassInVain, PSTypes, Connection
  <2>4. passes'[s][k].at = "idle" BY <2>2 DEF NoPass
  <2>5. store[r].gen <= store'[r].gen /\ conns[s].last <= conns'[s].last BY <1>4, <2>1, <2>3
  <2>6. refused'[r] = "file" \/ (conns'[s].last <= store'[r].gen /\ refused'[r] # "order") BY <1>6, <2>1, <2>3
  <2> QED BY <1>1, <1>2, <1>3, <2>1, <2>2, <2>3, <2>4, <2>5, <2>6 DEF PassOver
<1> QED BY <1>7, <1>8, <1>9, <1>10 DEF PassStep

(* The end of a pass keeps the invariant. *)
LEMMA PassOverKeeps ==
    ASSUME PSInv, NEW s \in Streams, NEW k \in Keys, PassStep(s, k)
    PROVE  PSInv'
<1>0. PSTypes' /\ PassOver(s, k) BY PassTypes, PassSteps DEF PSInv
<1>1. PICK r \in Runners : r = Runner(s) BY StreamFacts
<1>2. PICK g0 \in Nat : g0 = passes[s][k].gen BY Numbers DEF PSInv
<1>3. UNCHANGED <<generation, mode, modeGeneration, row, chain, stream>> BY <1>0 DEF PassOver
<1>4. passes[s][k].at = "read" /\ stream[r] = s /\ s # 0
  BY <1>0, <1>1, StreamFacts DEF PassOver, PSInv, Linked
<1>5. \A t \in Streams, i \in Keys : passes'[t][i].at = "read" =>
         passes'[t][i] = passes[t][i] /\ passes[t][i].at = "read" /\ ~(t = s /\ i = k)
  BY <1>0 DEF PassOver
<1>6. /\ store[r].gen <= store'[r].gen /\ conns[s].last <= conns'[s].last
      /\ store'[r] = store[r] \/ (store'[r].gen = g0 /\ conns'[s].last = g0)
      /\ refused'[r] = "file" \/ (conns'[s].last <= store'[r].gen /\ refused'[r] # "order")
      /\ \/ serving'[r] = serving[r] /\ refused'[r] = refused[r] /\ store'[r] = store[r]
         \/ refused'[r] = "file" \/ g0 <= store'[r].gen
  BY <1>0, <1>1, <1>2 DEF PassOver
<1>7. \A q \in Runners \ {r} : store'[q] = store[q] /\ refused'[q] = refused[q] /\ serving'[q] = serving[q]
  BY <1>0, <1>1 DEF PassOver
<1>8. (\A t \in Streams \ {s} : conns'[t] = conns[t]) /\ conns'[s].since \in {0, conns[s].since}
  BY <1>0 DEF PassOver
<1>9. /\ store[r].gen \in Nat /\ store'[r].gen \in Nat /\ conns[s].last \in Int /\ conns'[s].last \in Int
      /\ conns[s].since \in Nat /\ generation \in Nat
  <2>1. store'[r].gen \in Nat BY <1>0 DEF PSTypes
  <2>2. conns'[s].last \in Int BY <1>0 DEF PSTypes, Connection
  <2> QED BY <2>1, <2>2, Numbers DEF PSInv
<1>10. Linked'
  <2>1. \A q \in Runners : stream[q] = 0 => ~serving'[q]
    <3>1. ASSUME NEW q \in Runners, stream[q] = 0 PROVE ~serving'[q]
      <4>1. q # r BY <1>4, <3>1
      <4> QED BY <1>7, <3>1, <4>1 DEF PSInv, Linked
    <3> QED BY <3>1
  <2> QED BY <1>3, <1>5, <2>1 DEF PSInv, Linked
<1>11. Fresh'
  <2>1. ASSUME NEW t \in Streams, NEW i \in Keys, passes'[t][i].at = "read"
        PROVE  /\ passes'[t][i].gen <= generation /\ conns'[t].since <= passes'[t][i].gen
               /\ store'[Runner(t)].gen <= passes'[t][i].gen \/ passes'[t][i].gen <= conns'[t].last
    <3>1. PICK p \in Nat : p = passes[t][i].gen BY Numbers DEF PSInv
    <3>2. passes'[t][i].gen = p /\ passes[t][i].at = "read" BY <1>5, <2>1, <3>1
    <3>3. /\ p <= generation /\ conns[t].since <= p
          /\ store[Runner(t)].gen <= p \/ p <= conns[t].last
      BY <3>1, <3>2 DEF PSInv, Fresh
    <3>4. CASE t = s
      <4>1. conns'[s].since <= p BY <1>8, <3>3, <3>4
      <4>2. store'[r].gen <= p \/ p <= conns'[s].last BY <1>1, <1>2, <1>6, <1>9, <3>3, <3>4
      <4> QED BY <1>1, <3>2, <3>3, <3>4, <4>1, <4>2
    <3>5. CASE t # s
      <4>1. Runner(t) \in Runners \ {r}
        <5>1. stream[Runner(t)] = t /\ Runner(t) \in Runners BY <3>2, StreamFacts DEF PSInv, Linked
        <5> QED BY <1>4, <3>5, <5>1
      <4> QED BY <1>7, <1>8, <3>2, <3>3, <3>5, <4>1
    <3> QED BY <3>4, <3>5
  <2>2. ASSUME NEW q \in Runners PROVE store'[q].gen <= generation
    <3>1. g0 <= generation BY <1>2, <1>4 DEF PSInv, Fresh
    <3>2. store[q].gen <= generation BY DEF PSInv, Fresh
    <3>3. CASE q = r BY <1>6, <3>1, <3>2, <3>3
    <3>4. CASE q # r BY <1>7, <3>2, <3>4
    <3> QED BY <3>3, <3>4
  <2>3. ASSUME NEW t \in Streams PROVE conns'[t].since <= generation
    <3>1. conns[t].since <= generation BY DEF PSInv, Fresh
    <3> QED BY <1>8, <1>9, <3>1
  <2>4. ASSUME NEW q \in Runners, stream[q] # 0
        PROVE  refused'[q] = "file" \/ conns'[stream[q]].last <= store'[q].gen
    <3>1. CASE q = r BY <1>4, <1>6, <3>1
    <3>2. CASE q # r
      <4>1. stream[q] \in Streams /\ Runner(stream[q]) = q BY <2>4, Numbers DEF PSInv, Linked
      <4>2. stream[q] # s BY <1>1, <3>2, <4>1
      <4> QED BY <1>7, <1>8, <2>4, <3>2, <4>1, <4>2 DEF PSInv, Fresh
    <3> QED BY <3>1, <3>2
  <2>5. \A q \in Runners : refused'[q] # "order" BY <1>6, <1>7 DEF PSInv, Fresh
  <2> QED BY <1>3, <2>1, <2>2, <2>3, <2>4, <2>5 DEF Fresh
<1>12. Named'
  <2>1. PICK h \in [0 .. generation -> Modes] : History(h) BY DEF PSInv, Named
  <2>2. store'[r] = store[r] \/ (store'[r].gen = passes[s][k].gen /\ store'[r].mode = passes[s][k].mode)
    BY <1>0, <1>1 DEF PassOver
  <2>3. \A q \in Runners : store'[q].mode = h[store'[q].gen] BY <1>4, <1>7, <2>1, <2>2 DEF History
  <2>4. \A t \in Streams, i \in Keys : passes'[t][i].at = "read" => passes'[t][i].mode = h[passes'[t][i].gen]
    BY <1>5, <2>1 DEF History
  <2>5. History(h)' BY <1>3, <2>1, <2>3, <2>4 DEF History
  <2> QED BY <1>3, <2>5 DEF Named
<1>13. Reported'
  <2>1. ASSUME NEW q \in Runners, NEW g \in Nat, Told(q, g)' PROVE Held(q, g)'
    <3>1. Told(q, g) BY <1>3, <2>1 DEF Told
    <3>2. Held(q, g) BY <3>1 DEF PSInv, Reported
    <3>3. CASE q # r
      <4>1. store'[q] = store[q] /\ refused'[q] = refused[q] /\ serving'[q] = serving[q] BY <1>7, <3>3
      <4> QED BY <1>3, <1>5, <3>2, <4>1 DEF Held
    <3>4. CASE q = r
      <4>1. g <= g0 \/ g <= store[r].gen BY <1>1, <1>2, <1>4, <3>2, <3>4 DEF Held
      <4>2. serving[r] => refused[r] = "file" \/ g <= store[r].gen BY <3>2, <3>4 DEF Held
      <4>3. g0 <= store'[r].gen => g <= store'[r].gen BY <1>6, <1>9, <4>1
      <4>4. serving'[r] => refused'[r] = "file" \/ g <= store'[r].gen BY <1>6, <4>2, <4>3
      <4>5. ASSUME NEW t \in Streams, NEW i \in Keys, passes'[t][i].at = "read" /\ Runner(t) = r
            PROVE  g <= passes'[t][i].gen \/ g <= store'[r].gen
        <5>1. passes'[t][i] = passes[t][i] /\ passes[t][i].at = "read" BY <1>5, <4>5
        <5>2. g <= passes[t][i].gen \/ g <= store[r].gen BY <3>2, <3>4, <4>5, <5>1 DEF Held
        <5> QED BY <1>6, <1>9, <5>1, <5>2
      <4>6. g <= generation' BY <1>3, <3>2 DEF Held
      <4> QED BY <3>4, <4>4, <4>5, <4>6 DEF Held
    <3> QED BY <3>3, <3>4
  <2> QED BY <2>1 DEF Reported
<1>14. Decided' BY <1>3 DEF PSInv, Decided
<1> QED BY <1>0, <1>10, <1>11, <1>12, <1>13, <1>14 DEF PSInv

-----------------------------------------------------------------------------
LEMMA StepInvariant ==
    ASSUME PSInv, [PSNext]_psVars
    PROVE  PSInv'
<1>1. CASE UNCHANGED psVars
  <2>1. PSTypes' BY <1>1 DEF PSInv, PSTypes, psVars, dbVars, controlVars, runnerVars
  <2>2. Still /\ UNCHANGED <<row, chain>> BY <1>1 DEF Still, psVars, dbVars, controlVars, runnerVars
  <2>3. Supported
    <3>1. ASSUME NEW q \in Runners, NEW g \in Nat, Told(q, g)' PROVE Told(q, g) BY <2>2, <3>1 DEF Told
    <3> QED BY <3>1 DEF Supported
  <2>4. Decided' BY <2>2 DEF PSInv, Decided, Still
  <2> QED BY <2>1, <2>2, <2>3, <2>4, StillKeeps
<1>2. CASE PSNext
  BY <1>2, ChangeKeeps, StreamEndKeeps, SweepKeeps, RegisterKeeps, DisconnectKeeps, HandleKeeps, ReadKeeps,
     PassOverKeeps, Zenon DEF PSNext
<1> QED BY <1>1, <1>2

(* The inductive invariant of the protection modes on their way to the Runners and back *)
(* (updateProtectionMode, reconcileProtectionModes, reconcileOnce, recordResult,        *)
(* apply_protection_modes) holds in every state.                                        *)
THEOREM SyncInvariant == PSSpec => []PSInv
<1>1. PSInit => PSInv BY InitInvariant
<1>2. PSInv /\ [PSNext]_psVars => PSInv' BY StepInvariant
<1> QED BY <1>1, <1>2, PTL DEF PSSpec

(* No Runner is ever sent an overlay that it must refuse for its generation or for its  *)
(* modes, however the two passes of a stream, new streams and restarts interleave       *)
(* (reconcileProtectionModes, desiredState, apply_protection_modes).                    *)
THEOREM OverlaysAreInOrder == PSSpec => []OverlaysInOrder
<1>1. PSInv => OverlaysInOrder BY DEF PSInv, Fresh, OverlaysInOrder
<1> QED BY <1>1, SyncInvariant, PTL

(* A Runner begins to serve a stream only with the modes that were asked for when it    *)
(* registered, or with a refusal that it has reported (reconcileOnce sends the overlay  *)
(* before the desired state).                                                           *)
THEOREM ServingStartsWithOverlay == PSSpec => ServesWithOverlay
<1> DEFINE Started(r) == ~ serving[r] /\ serving'[r] =>
             refused'[r] = "file" \/ store'[r].gen >= conns[stream[r]].since
<1>1. ASSUME PSInv, [PSNext]_psVars, NEW r \in Runners, ~serving[r], serving'[r]
      PROVE  refused'[r] = "file" \/ store'[r].gen >= conns[stream[r]].since
  <2>1. PICK s \in Streams, k \in Keys : PassStep(s, k)
    <3>1. CASE UNCHANGED psVars BY <1>1, <3>1 DEF psVars, runnerVars
    <3>2. CASE (\E m \in Modes : Update(m)) \/ OtherChange BY <1>1, <3>2 DEF Update, OtherChange, runnerVars
    <3>3. CASE \E q \in Runners : Drop(q) \/ \E kept \in BOOLEAN : Restart(q, kept)
      <4>1. PICK q \in Runners : serving' = [serving EXCEPT ![q] = FALSE]
        BY <3>3 DEF Drop, Restart, StreamEnds
      <4> QED BY <1>1, <4>1 DEF PSInv, PSTypes
    <3>4. CASE \E q \in Runners : Sweep(q) BY <1>1, <3>4 DEF Sweep, runnerVars
    <3>5. CASE \E s \in Streams : Register(s) \/ Disconnect(s) BY <1>1, <3>5 DEF Register, Disconnect, runnerVars
    <3>6. CASE \E s \in Streams : HandleStep(s)
      BY <1>1, <3>6 DEF HandleStep, TakeRefusal, TakeHeartbeat, RecordNothing, RecordRejected, RecordAccepted,
                        Declare, runnerVars
    <3>7. CASE \E s \in Streams, k \in Keys : PassRead(s, k) BY <1>1, <3>7 DEF PassRead, runnerVars
    <3> QED BY <1>1, <3>1, <3>2, <3>3, <3>4, <3>5, <3>6, <3>7, Zenon DEF PSNext
  <2>2. PassOver(s, k) BY <1>1, <2>1, PassSteps
  <2>3. r = Runner(s) BY <1>1, <2>2, StreamFacts DEF PassOver
  <2>4. passes[s][k].at = "read" /\ stream[r] = s BY <1>1, <2>2, <2>3 DEF PassOver, PSInv, Linked
  <2>5. conns[s].since <= passes[s][k].gen BY <1>1, <2>4 DEF PSInv, Fresh
  <2>6. refused'[r] = "file" \/ passes[s][k].gen <= store'[r].gen BY <1>1, <2>2, <2>3 DEF PassOver
  <2>7. store'[r].gen \in Nat
    <3>1. PSTypes' BY <1>1, <2>1, PassTypes DEF PSInv
    <3> QED BY <3>1 DEF PSTypes
  <2>8. conns[s].since \in Nat /\ passes[s][k].gen \in Nat BY <1>1, Numbers DEF PSInv
  <2> QED BY <2>4, <2>5, <2>6, <2>7, <2>8
<1>2. PSInv /\ [PSNext]_psVars => [\A r \in Runners : Started(r)]_psVars BY <1>1
<1> QED BY <1>2, SyncInvariant, PTL DEF PSSpec, ServesWithOverlay

(* A mode that is declared applied is the one asked for, and every Runner that serves   *)
(* has it in effect or has failed to write it, whatever happened since the transaction  *)
(* has read the Runners (recordResult, protectionModeSnapshot).                         *)
THEOREM DeclarationsAreTrue == PSSpec => DeclaredIsInEffect
<1>1. ASSUME PSInv, [PSNext]_psVars, applied' # applied
      PROVE  /\ applied' = mode
             /\ \A r \in Runners : serving[r] => refused[r] = "file" \/ store[r].gen >= modeGeneration
  <2>1. PICK s \in Streams : Declare(s)
    <3>1. CASE UNCHANGED psVars BY <1>1, <3>1 DEF psVars, dbVars
    <3>2. CASE (\E m \in Modes : Update(m)) \/ OtherChange BY <1>1, <3>2 DEF Update, OtherChange
    <3>3. CASE \E q \in Runners : Drop(q) \/ Sweep(q) \/ \E kept \in BOOLEAN : Restart(q, kept)
      BY <1>1, <3>3 DEF Drop, Sweep, Restart, dbVars
    <3>4. CASE \E s \in Streams : Register(s) \/ Disconnect(s) BY <1>1, <3>4 DEF Register, Disconnect, dbVars
    <3>5. CASE \E s \in Streams, k \in Keys : PassRead(s, k) \/ PassStep(s, k)
      BY <1>1, <3>5 DEF PassRead, PassStep, Overlay, OverlayRefused, OverlaySuperseded, PassInVain, dbVars
    <3>6. CASE \E s \in Streams : HandleStep(s)
      BY <1>1, <3>6 DEF HandleStep, TakeRefusal, TakeHeartbeat, RecordNothing, RecordRejected, RecordAccepted, dbVars
    <3> QED BY <1>1, <3>1, <3>2, <3>3, <3>4, <3>5, <3>6, Zenon DEF PSNext
  <2>2. chain[s].found > 0 /\ chain[s].found = modeGeneration /\ applied' = chain[s].mode
    BY <1>1, <2>1 DEF Declare, StillAskedFor
  <2>3. applied' = mode BY <1>1, <2>2 DEF PSInv, Decided
  <2>4. ASSUME NEW r \in Runners, serving[r] PROVE refused[r] = "file" \/ store[r].gen >= modeGeneration
    <3>1. store[r].gen \in Nat /\ chain[s].found \in Nat BY <1>1, Numbers DEF PSInv
    <3>2. Told(r, chain[s].found) BY DEF Told
    <3>3. Held(r, chain[s].found) BY <1>1, <3>1, <3>2 DEF PSInv, Reported
    <3> QED BY <2>2, <2>4, <3>1, <3>3 DEF Held
  <2> QED BY <2>3, <2>4
<1>2. PSInv /\ [PSNext]_psVars =>
        [applied' # applied =>
           /\ applied' = mode
           /\ \A r \in Runners : serving[r] => refused[r] = "file" \/ store[r].gen >= modeGeneration]_psVars
  BY <1>1
<1> QED BY <1>2, SyncInvariant, PTL DEF PSSpec, DeclaredIsInEffect
=============================================================================
