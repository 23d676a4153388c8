--------------------------- MODULE ProtectionSync ---------------------------
(***************************************************************************)
(* The protection mode of a Guardrail, from the operator's change to the   *)
(* Runners and back: the overlay that a Controller reads and sends over    *)
(* each Runner's stream, the results and heartbeats that report it, and    *)
(* the moment the Controller declares the mode applied.                    *)
(*                                                                         *)
(* One published Guardrail of one pool.  Streams are numbered in the order *)
(* of their registration.  A Controller handles the messages of a stream   *)
(* one after the other, and runs at most one full pass and one overlay     *)
(* pass at a time for it (WorkQueue).  The first desired state of a stream *)
(* is what lets the Runner serve; ServingLease has the later ones.  What a *)
(* pass has read is on its way until the Runner takes it; what the stream  *)
(* loses before that is lost.  The result of an overlay that is taken over *)
(* says what the next heartbeat says, and is one with it.                  *)
(***************************************************************************)
EXTENDS Integers, Sequences, FiniteSets

CONSTANTS
    Runners, Modes, Enforce,
    MaxGeneration,
    Opener,         \* the streams that are ever registered, by the Runner that opens each
    Local,          \* the streams of the Controller that serves the operator
    MaxDisturbances \* lost streams, process restarts, late heartbeats, failed writes, other changes

ASSUME ProtectionAssumption ==
    /\ IsFiniteSet(Runners) /\ Enforce \in Modes
    /\ Opener \in Seq(Runners) /\ (\A r \in Runners : \E s \in DOMAIN Opener : Opener[s] = r)
    /\ Local \subseteq DOMAIN Opener /\ {MaxGeneration, MaxDisturbances} \subseteq Nat

VARIABLES
    generation, mode, modeGeneration, applied,  \* controllerState and the guardrail row
    row,        \* runner_instances
    conns,      \* the connections of the streams registered so far
    passes,     \* what the synchronization passes of a stream have read
    refusals,   \* generations whose refusal is on its way to the Controller
    chain,      \* the result or heartbeat that is being handled on a stream
    boot, stream, store, serving,               \* the Runner processes
    refused,    \* history: why a Runner refused the last overlay of its stream
    disturbances

dbVars == <<generation, mode, modeGeneration, applied>>
controlVars == <<conns, passes, refusals, chain>>
runnerVars == <<boot, stream, store, serving, refused>>
psVars == <<dbVars, row, controlVars, runnerVars, disturbances>>

Streams == DOMAIN Opener
Keys == {"full", "modes"}
NoPass == [at |-> "idle", gen |-> 0, mode |-> Enforce]
NoWork == [at |-> "idle", gen |-> 0, accepted |-> FALSE, mode |-> Enforce, found |-> 0]
NoConn == [boot |-> 0, state |-> "none", last |-> -1, ready |-> FALSE, since |-> 0]
NoOverlay == [gen |-> 0, mode |-> Enforce]

Runner(s) == Opener[s]

\* A Runner's next stream, while it has one.
Unopened(r) == {s \in Streams : Runner(s) = r /\ conns[s].state = "none"}

First(r) == CHOOSE s \in Streams : Runner(s) = r /\ \A t \in Streams : Runner(t) = r => s <= t

\* A pool in service: every Runner has registered and taken over the first overlay.
PSInit ==
    /\ generation = 1 /\ mode = Enforce /\ modeGeneration = 0 /\ applied = Enforce
    /\ row = [r \in Runners |-> [stream |-> First(r), boot |-> 1, gen |-> 1, rejected |-> 0, online |-> TRUE]]
    /\ conns = [s \in Streams |-> IF s # First(Runner(s)) THEN NoConn
                                  ELSE [boot |-> 1, state |-> "live", last |-> 1, ready |-> TRUE, since |-> 0]]
    /\ passes = [s \in Streams |-> [k \in Keys |-> NoPass]]
    /\ refusals = [s \in Streams |-> <<>>] /\ chain = [s \in Streams |-> NoWork]
    /\ boot = [r \in Runners |-> 1] /\ stream = [r \in Runners |-> First(r)]
    /\ store = [r \in Runners |-> [gen |-> 1, mode |-> Enforce]]
    /\ serving = [r \in Runners |-> TRUE] /\ refused = [r \in Runners |-> "none"]
    /\ disturbances = 0

Disturbance == disturbances < MaxDisturbances /\ disturbances' = disturbances + 1

\* isCurrent: the stream is the one that the database has for its Runner.
Current(s) ==
    LET w == row[Runner(s)]
    IN  w.stream = s /\ w.boot = conns[s].boot /\ w.online

\* The transaction of a result keeps its Runner's row locked.
RowLocked(r) == \E s \in Streams : chain[s].at = "decided" /\ Runner(s) = r

-----------------------------------------------------------------------------
(* The operator, and whatever else moves the generation. *)

\* Asking for the mode that is in force opens a new generation too.
Update(m) ==
    /\ generation < MaxGeneration
    /\ generation' = generation + 1 /\ mode' = m /\ modeGeneration' = generation'
    /\ UNCHANGED <<applied, row, controlVars, runnerVars, disturbances>>

OtherChange ==
    /\ generation < MaxGeneration /\ Disturbance
    /\ generation' = generation + 1
    /\ UNCHANGED <<mode, modeGeneration, applied, row, controlVars, runnerVars>>

-----------------------------------------------------------------------------
(* Streams.  A connection that is replaced or gone sends nothing any more   *)
(* and takes no message, here or on another Controller, where it is not the *)
(* current one; a message that is being handled is finished.                *)

Gone(s) == [conns[s] EXCEPT !.state = "gone", !.last = -1, !.ready = FALSE, !.since = 0]

\* Mutant: what the Runner was last sent is remembered across its streams.
OpenedLikeLast(s) ==
    [NoConn EXCEPT !.boot = boot[Runner(s)], !.state = "live", !.since = generation, !.last = row[Runner(s)].gen]

\* Nothing has been sent over a new connection.
Opened(s) == [NoConn EXCEPT !.boot = boot[Runner(s)], !.state = "live", !.since = generation]

Register(s) ==
    LET r == Runner(s)
        replaced == {t \in Streams : Runner(t) = r /\ conns[t].state = "live"}
    IN  /\ stream[r] = 0 /\ s \in Unopened(r) /\ \A t \in Unopened(r) : s <= t
        /\ ~ RowLocked(r)
        /\ stream' = [stream EXCEPT ![r] = s] /\ refused' = [refused EXCEPT ![r] = "none"]
        /\ row' = [row EXCEPT ![r] = [stream |-> s, boot |-> boot[r], gen |-> 0, rejected |-> 0, online |-> TRUE]]
        /\ conns' = [t \in Streams |->
                        IF t = s THEN Opened(s)
                        ELSE IF t \in replaced THEN Gone(t) ELSE conns[t]]
        /\ refusals' = [t \in Streams |-> IF t \in replaced THEN <<>> ELSE refusals[t]]
        /\ UNCHANGED <<dbVars, passes, chain, boot, store, serving, disturbances>>

\* The Runner loses its stream, with what was on the way to it: a pass over a dead
\* stream changes nothing, and is left out.
StreamEnds(r) ==
    /\ stream' = [stream EXCEPT ![r] = 0] /\ serving' = [serving EXCEPT ![r] = FALSE]
    /\ passes' = [s \in Streams |-> IF s = stream[r] THEN [k \in Keys |-> NoPass] ELSE passes[s]]

Drop(r) ==
    /\ stream[r] # 0 /\ Unopened(r) # {} /\ Disturbance
    /\ StreamEnds(r)
    /\ UNCHANGED <<dbVars, row, conns, refusals, chain, boot, store, refused>>

\* The process ends; the next one starts on the file that was kept, or on none.
Restart(r, kept) ==
    /\ Unopened(r) # {} /\ Disturbance
    /\ boot' = [boot EXCEPT ![r] = @ + 1]
    /\ StreamEnds(r)
    /\ store' = IF kept THEN store ELSE [store EXCEPT ![r] = NoOverlay]
    /\ UNCHANGED <<dbVars, row, conns, refusals, chain, refused>>

\* The Controller sees the stream end; disconnectRunner follows the message that was
\* being handled.
Disconnect(s) ==
    /\ conns[s].state = "live" /\ stream[Runner(s)] # s
    /\ chain[s].at = "idle" /\ ~ RowLocked(Runner(s))
    /\ conns' = [conns EXCEPT ![s] = Gone(s)] /\ refusals' = [refusals EXCEPT ![s] = <<>>]
    /\ row' = IF row[Runner(s)].stream = s /\ row[Runner(s)].boot = conns[s].boot
              THEN [row EXCEPT ![Runner(s)].online = FALSE] ELSE row
    /\ UNCHANGED <<dbVars, passes, chain, runnerVars, disturbances>>

\* markStaleRunnersOffline meets a Runner whose heartbeats are late.
Sweep(r) ==
    /\ row[r].online /\ ~ RowLocked(r) /\ Disturbance
    /\ row' = [row EXCEPT ![r].online = FALSE]
    /\ UNCHANGED <<dbVars, controlVars, runnerVars>>

-----------------------------------------------------------------------------
(* A pass reads the overlay: desiredState locks the generation before it    *)
(* reads the modes, so the two belong together.  What is newer than the     *)
(* last one goes on the stream, and a full pass then sends the desired      *)
(* state.                                                                   *)

\* Mutant: whatever was read is sent.
DueAlways(s, gen) == TRUE

Due(s, gen) == conns[s].last < gen

\* A pass that has nothing to send changes nothing, and is left out.  The overlay pass
\* is begun by the request that changed the mode, for the streams of its Controller.
PassRead(s, k) ==
    /\ k = "full" \/ s \in Local
    /\ stream[Runner(s)] = s /\ passes[s][k].at = "idle" /\ Current(s)
    /\ Due(s, generation) \/ (k = "full" /\ ~ conns[s].ready)
    /\ passes' = [passes EXCEPT ![s][k] = [at |-> "read", gen |-> generation, mode |-> mode]]
    /\ UNCHANGED <<dbVars, row, conns, refusals, chain, runnerVars, disturbances>>

\* apply_protection_modes refuses what is older, and other modes of the same generation.
InOrder(r, m) ==
    \/ m.gen > store[r].gen
    \/ m.gen = store[r].gen /\ (m.gen = 0 \/ m.mode = store[r].mode)

PassEnd(s, k) ==
    /\ conns' = [conns EXCEPT ![s].last = IF Due(s, passes[s][k].gen) THEN passes[s][k].gen ELSE @,
                              ![s].ready = @ \/ k = "full", ![s].since = IF k = "full" THEN 0 ELSE @]
    /\ passes' = [passes EXCEPT ![s][k] = NoPass]

Sent(s, k) == passes[s][k].at = "read" /\ Current(s)

\* The desired state of a full pass follows its overlay on the stream.
Serves(r, k) == serving' = [serving EXCEPT ![r] = @ \/ k = "full"]

\* The overlay is written to the file, then in effect, then reported.
Overlay(s, k) ==
    LET r == Runner(s)
        m == passes[s][k]
    IN  /\ Sent(s, k) /\ Due(s, m.gen) /\ InOrder(r, m)
        /\ store' = [store EXCEPT ![r] = [gen |-> m.gen, mode |-> m.mode]]
        /\ refused' = [refused EXCEPT ![r] = "none"]
        /\ PassEnd(s, k) /\ Serves(r, k)
        /\ UNCHANGED <<dbVars, row, refusals, chain, boot, stream, disturbances>>

\* The Runner refuses it for its generation, or because the file cannot be written.
OverlayRefused(s, k) ==
    LET r == Runner(s)
        m == passes[s][k]
    IN  /\ Sent(s, k) /\ Due(s, m.gen)
        /\ refused' = [refused EXCEPT ![r] = IF InOrder(r, m) THEN "file" ELSE "order"]
        /\ IF InOrder(r, m) THEN Disturbance ELSE UNCHANGED disturbances
        /\ refusals' = [refusals EXCEPT ![s] = Append(@, m.gen)] /\ PassEnd(s, k) /\ Serves(r, k)
        /\ UNCHANGED <<dbVars, row, chain, boot, stream, store>>

\* The other pass was faster, and this one sends no overlay.
OverlaySuperseded(s, k) ==
    /\ Sent(s, k) /\ ~ Due(s, passes[s][k].gen)
    /\ PassEnd(s, k) /\ Serves(Runner(s), k)
    /\ UNCHANGED <<dbVars, row, refusals, chain, boot, stream, store, refused, disturbances>>

\* The session is not the current one any more: no overlay is sent, and the full pass
\* ends where dispatchedAllocation finds the session closed, as it does for every Runner
\* that acknowledges snapshots.
PassInVain(s, k) ==
    /\ passes[s][k].at = "read" /\ ~ Current(s)
    /\ passes' = [passes EXCEPT ![s][k] = NoPass]
    /\ conns' = [conns EXCEPT ![s].ready = @ \/ k = "full", ![s].since = 0]
    /\ UNCHANGED <<dbVars, row, refusals, chain, runnerVars, disturbances>>

-----------------------------------------------------------------------------
(* handleMessage and recordResult.  Its transaction writes the Runner's row,*)
(* which others see when it ends, then reads the Guardrail and all Runners. *)

Handle(s, gen, accepted) ==
    chain' = [chain EXCEPT ![s] = [NoWork EXCEPT !.at = "checked", !.gen = gen, !.accepted = accepted]]

Takes(s) == conns[s].state = "live" /\ conns[s].ready /\ chain[s].at = "idle"

TakeRefusal(s) ==
    /\ Takes(s) /\ refusals[s] # <<>>
    /\ refusals' = [refusals EXCEPT ![s] = Tail(@)]
    /\ IF Current(s) THEN Handle(s, Head(refusals[s]), FALSE) ELSE UNCHANGED chain
    /\ UNCHANGED <<dbVars, row, conns, passes, runnerVars, disturbances>>

Converged == \A r \in Runners : row[r].stream # 0 => row[r].online /\ row[r].gen >= modeGeneration

\* A heartbeat that could change nothing is left out.
TakeHeartbeat(s) ==
    LET r == Runner(s)
    IN  /\ Takes(s) /\ refusals[s] = <<>> /\ stream[r] = s /\ Current(s)
        /\ row[r].gen # store[r].gen \/ row[r].rejected > 0 \/ (applied # mode /\ Converged)
        /\ Handle(s, store[r].gen, TRUE)
        /\ UNCHANGED <<dbVars, row, conns, passes, refusals, runnerVars, disturbances>>

\* Mutant: a generation that was recorded is not looked at again.
NotOlderStrict(s) == row[Runner(s)].gen < chain[s].gen /\ row[Runner(s)].rejected <= chain[s].gen

NotOlder(s) == row[Runner(s)].gen <= chain[s].gen /\ row[Runner(s)].rejected <= chain[s].gen

Recordable(s) == chain[s].gen <= generation /\ row[Runner(s)].boot = conns[s].boot /\ NotOlder(s)

RecordNothing(s) ==
    /\ chain[s].at = "checked" /\ ~ RowLocked(Runner(s)) /\ ~ Recordable(s)
    /\ chain' = [chain EXCEPT ![s] = NoWork]
    /\ UNCHANGED <<dbVars, row, conns, passes, refusals, runnerVars, disturbances>>

RecordRejected(s) ==
    /\ chain[s].at = "checked" /\ ~ RowLocked(Runner(s)) /\ Recordable(s) /\ ~ chain[s].accepted
    /\ row' = [row EXCEPT ![Runner(s)].rejected = chain[s].gen]
    /\ chain' = [chain EXCEPT ![s] = NoWork]
    /\ UNCHANGED <<dbVars, conns, passes, refusals, runnerVars, disturbances>>

\* protectionModeSnapshot over the rows that the transaction sees.
AllApplied(s) ==
    \A r \in Runners : row[r].stream # 0 =>
        row[r].online /\ (IF r = Runner(s) THEN chain[s].gen ELSE row[r].gen) >= modeGeneration

ToDeclare(s) == modeGeneration > 0 /\ applied # mode /\ AllApplied(s)

\* The row is written, and the Guardrail and the Runners are read, before anything is
\* committed: transactions that are open at once do not see each other's row.
RecordAccepted(s) ==
    /\ chain[s].at = "checked" /\ ~ RowLocked(Runner(s)) /\ Recordable(s) /\ chain[s].accepted
    /\ chain' = [chain EXCEPT ![s].at = "decided", ![s].mode = IF ToDeclare(s) THEN mode ELSE @,
                             ![s].found = IF ToDeclare(s) THEN modeGeneration ELSE @]
    /\ UNCHANGED <<dbVars, row, conns, passes, refusals, runnerVars, disturbances>>

\* Mutant: the mode that was found applied is stored, whatever is asked for by now.
StillAskedForAlways(s) == TRUE

StillAskedFor(s) == chain[s].found = modeGeneration

Declare(s) ==
    /\ chain[s].at = "decided"
    /\ applied' = IF chain[s].found > 0 /\ StillAskedFor(s) THEN chain[s].mode ELSE applied
    /\ row' = [row EXCEPT ![Runner(s)].gen = chain[s].gen, ![Runner(s)].rejected = 0]
    /\ chain' = [chain EXCEPT ![s] = NoWork]
    /\ UNCHANGED <<generation, mode, modeGeneration, conns, passes, refusals, runnerVars, disturbances>>

-----------------------------------------------------------------------------
PassStep(s, k) == Overlay(s, k) \/ OverlayRefused(s, k) \/ OverlaySuperseded(s, k) \/ PassInVain(s, k)

HandleStep(s) ==
    \/ TakeRefusal(s) \/ TakeHeartbeat(s)
    \/ RecordNothing(s) \/ RecordRejected(s) \/ RecordAccepted(s)
    \/ Declare(s)

PSNext ==
    \/ (\E m \in Modes : Update(m)) \/ OtherChange
    \/ \E r \in Runners :
         \/ Drop(r) \/ Sweep(r) \/ (\E kept \in BOOLEAN : Restart(r, kept))
    \/ \E s \in Streams :
         \/ Register(s) \/ Disconnect(s) \/ HandleStep(s)
         \/ \E k \in Keys : PassRead(s, k) \/ PassStep(s, k)

\* Timers send heartbeats and begin full passes, and the event loops run what is ready:
\* something of this goes on while there is any of it.
Progress == \E s \in Streams : HandleStep(s) \/ PassRead(s, "full") \/ PassStep(s, "full")

PSFairness == WF_psVars(Progress)

PSSpec == PSInit /\ [][PSNext]_psVars /\ PSFairness

-----------------------------------------------------------------------------
(* Properties *)

\* A mode that is declared applied is the one the operator asked for last, and every
\* Runner that serves has it in effect, unless its file failed on it: results,
\* heartbeats, newer modes, restarts and Runners that come and go interleave with the
\* transaction that decides it (recordResult, protectionModeSnapshot).
DeclaredIsInEffect ==
    [][applied' # applied =>
         /\ applied' = mode
         /\ \A r \in Runners : serving[r] => refused[r] = "file" \/ store[r].gen >= modeGeneration]_psVars

\* No Runner is sent an overlay that it must refuse: two passes of one stream, earlier
\* streams and restarts never make a generation go back, and a generation never names
\* two sets of modes (desiredState, reconcileProtectionModes, apply_protection_modes).
OverlaysInOrder == \A r \in Runners : refused[r] # "order"

\* A Runner that comes back serves only under the modes that were asked for when it
\* came, or it has reported that it could not take them over (reconcileOnce sends the
\* overlay before any desired state).
ServesWithOverlay ==
    [][\A r \in Runners : ~ serving[r] /\ serving'[r] =>
         refused'[r] = "file" \/ store'[r].gen >= conns[stream[r]].since]_psVars

Settled == \A r \in Runners : stream[r] # 0 /\ Current(stream[r])

\* With every Runner connected and no file that fails, the mode is declared applied in
\* the end, although two transactions that record the last results do not see each
\* other's and neither declares it.
AppliedAtLast == []<>(applied = mode \/ ~ Settled \/ \E r \in Runners : refused[r] = "file")

\* What the state axis of a Runner is said to be: offline reflects connectivity.  A
\* Runner that is connected and sends its heartbeats does not stay offline.
OfflineReflectsConnectivity == \A r \in Runners : []<>(stream[r] = 0 \/ row[r].online)

=============================================================================
