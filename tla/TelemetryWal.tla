---------------------------- MODULE TelemetryWal ----------------------------
(***************************************************************************)
(* The Runner's disk-backed telemetry exporter: request handlers append    *)
(* the parts of an event to runtime-events.wal under an asyncio lock, one  *)
(* worker thread per part; a single delivery task posts the largest prefix *)
(* that fits an upload, and removes it once the Controller's receipt       *)
(* matches.  An event that cannot be sent moves to a bounded rejected WAL. *)
(*                                                                         *)
(* Two things the lock does not cover are kept.  A handler cancelled while *)
(* it awaits asyncio.to_thread lets go of the lock while its worker thread *)
(* still writes; and the process can be killed between any two steps and   *)
(* restarted on the same directory, with a line cut anywhere, also just    *)
(* before its newline.                                                     *)
(***************************************************************************)
EXTENDS Integers, SequencesExt, FiniteSetsExt

CONSTANTS
    Emitters,       \* the handlers, each with one event to emit
    Parts,          \* Parts[e]: lines split_metered_event makes of e's event
    Weight,         \* Weight[e]: what each line of e adds to an upload body
    MaxBody,        \* MAX_BODY_BYTES, the Runner's own upload budget
    GatewayLimit,   \* the body budget of whatever answers 413
    BatchSize,      \* lines read for one upload
    RejectedRoom,   \* lines the rejected WAL accepts
    MaxCrashes,     \* bound: kills of the process
    MaxFailures     \* bound: cancelled handlers and failed disk writes

ASSUME BudgetAssumption ==
    /\ Emitters \cap {"free", "flusher"} = {}
    /\ Parts \in [Emitters -> Nat \ {0}] /\ Weight \in [Emitters -> Nat \ {0}]
    /\ MaxBody \in Nat \ {0} /\ GatewayLimit \in 1 .. MaxBody
    /\ BatchSize \in Nat \ {0} /\ RejectedRoom \in Nat
    /\ MaxCrashes \in Nat /\ MaxFailures \in Nat

Evidence == UNION {{e} \X (1 .. Parts[e]) : e \in Emitters}

\* A line of the WAL says whose bytes it holds, whether json.loads accepts it (valid),
\* and whether its newline has been written (ended).
VARIABLES
    file,       \* runtime-events.wal
    rejected,   \* runtime-events.rejected.wal
    lock,       \* holder of the exporter's asyncio.Lock
    emit,       \* each handler: new, appending, returned or abandoned
    next,       \* the part a handler appends next
    thread,     \* worker threads still inside _append, by the part they write
    flusher,    \* where the delivery task is
    batch,      \* the lines of the upload under way
    latest,     \* what the delivery task read under the lock
    bodyLimit,  \* _body_limit
    uploads,    \* parts of uploads the Controller may still commit
    stored,     \* parts the Controller committed
    crashes, failures

emitting == <<emit, next, thread>>
delivering == <<flusher, batch, latest>>
budgets == <<crashes, failures>>
vars == <<file, rejected, lock, emitting, delivering, bodyLimit, uploads, stored, budgets>>

Init ==
    /\ file = <<>> /\ rejected = <<>> /\ lock = "free"
    /\ emit = [e \in Emitters |-> "new"] /\ next = [e \in Emitters |-> 1]
    /\ thread = [p \in Evidence |-> "none"]
    /\ flusher = "idle" /\ batch = <<>> /\ latest = <<>>
    /\ bodyLimit = MaxBody /\ uploads = {} /\ stored = {}
    /\ crashes = 0 /\ failures = 0

-----------------------------------------------------------------------------
(* The bytes of a file *)

\* O_APPEND: the bytes go after the last byte, so a line without its newline
\* swallows whatever is written next.
Appended(f, p, valid, ended) ==
    IF f /= <<>> /\ ~Last(f).ended
      THEN Append(Front(f), [bytes |-> Last(f).bytes \cup {p}, valid |-> FALSE, ended |-> ended])
      ELSE Append(f, [bytes |-> {p}, valid |-> valid, ended |-> ended])

\* The second half of p's line completes it only when nothing came between.
Completed(f, p) ==
    IF f /= <<>> /\ ~Last(f).ended /\ Last(f).bytes = {p}
      THEN Append(Front(f), [bytes |-> {p}, valid |-> TRUE, ended |-> TRUE])
      ELSE Appended(f, p, FALSE, TRUE)

\* A newline of its own ends the last line; after a line that has one, it makes
\* an empty line, which _read_lines drops.
Terminated(f) ==
    IF f /= <<>> /\ ~Last(f).ended THEN Append(Front(f), [Last(f) EXCEPT !.ended = TRUE]) ELSE f

\* _read_lines returns the text of the lines, with or without a last newline;
\* _replace_lines writes every line back with one.
ReadLines(f) == [i \in DOMAIN f |-> [f[i] EXCEPT !.ended = TRUE]]

Bytes(lines) == UNION {lines[i].bytes : i \in DOMAIN lines}

-----------------------------------------------------------------------------
(* emit *)

\* The handler takes the lock and hands its first part to a worker thread.
Emit(e) ==
    /\ emit[e] = "new" /\ lock = "free"
    /\ lock' = e
    /\ emit' = [emit EXCEPT ![e] = "appending"]
    /\ thread' = [thread EXCEPT ![<<e, 1>>] = "started"]
    /\ UNCHANGED <<file, rejected, next, delivering, bodyLimit, uploads, stored, budgets>>

\* The worker opens the file in append mode.
Open(p) ==
    /\ thread[p] = "started"
    /\ thread' = [thread EXCEPT ![p] = "opened"]
    /\ UNCHANGED <<file, rejected, lock, emit, next, delivering, bodyLimit, uploads, stored, budgets>>

\* A line longer than the stream's buffer reaches the file in two writes.  The
\* first may hold all of the line but its newline (whole): json.loads accepts it.
WriteHalf(p) ==
    /\ thread[p] = "opened"
    /\ \E whole \in BOOLEAN :
         /\ file' = Appended(file, p, whole, FALSE)
         /\ thread' = [thread EXCEPT ![p] = IF whole THEN "text" ELSE "half"]
    /\ UNCHANGED <<rejected, lock, emit, next, delivering, bodyLimit, uploads, stored, budgets>>

\* The worker is done.  Its handler, if it still waits, starts the next part or
\* leaves the lock and returns; a cancelled handler has gone already.
WriteRest(p) ==
    LET e == p[1]
        mine == emit[e] = "appending" /\ next[e] = p[2]
        more == next[e] < Parts[e]
    IN  /\ \/ thread[p] = "opened" /\ file' = Appended(file, p, TRUE, TRUE)
           \/ thread[p] = "half" /\ file' = Completed(file, p)
           \/ thread[p] = "text" /\ file' = Terminated(file)
        /\ \/ /\ ~mine
              /\ thread' = [thread EXCEPT ![p] = "none"]
              /\ UNCHANGED <<emit, next, lock>>
           \/ /\ mine /\ more
              /\ next' = [next EXCEPT ![e] = @ + 1]
              /\ thread' = [thread EXCEPT ![p] = "none", ![<<e, next[e] + 1>>] = "started"]
              /\ UNCHANGED <<emit, lock>>
           \/ /\ mine /\ ~more
              /\ emit' = [emit EXCEPT ![e] = "returned"]
              /\ lock' = "free"
              /\ thread' = [thread EXCEPT ![p] = "none"]
              /\ UNCHANGED next
        /\ UNCHANGED <<rejected, delivering, bodyLimit, uploads, stored, budgets>>

\* The handler is cancelled in the await: the lock is released, the thread is not
\* stopped.
CancelEmit(e) ==
    /\ emit[e] = "appending" /\ failures < MaxFailures
    /\ emit' = [emit EXCEPT ![e] = "abandoned"]
    /\ lock' = "free"
    /\ failures' = failures + 1
    /\ UNCHANGED <<file, rejected, next, thread, delivering, bodyLimit, uploads, stored, crashes>>

\* The disk refuses the write, perhaps after the first of two: emit raises.
AppendFails(p) ==
    /\ thread[p] /= "none" /\ failures < MaxFailures
    /\ thread' = [thread EXCEPT ![p] = "none"]
    /\ IF emit[p[1]] = "appending" /\ next[p[1]] = p[2]
         THEN emit' = [emit EXCEPT ![p[1]] = "abandoned"] /\ lock' = "free"
         ELSE UNCHANGED <<emit, lock>>
    /\ failures' = failures + 1
    /\ UNCHANGED <<file, rejected, next, delivering, bodyLimit, uploads, stored, crashes>>

-----------------------------------------------------------------------------
(* _flush_once *)

LineWeight(line) == FoldSet(LAMBDA p, total : total + Weight[p[1]], 0, line.bytes)

BodyOf(lines) == FoldLeft(LAMBDA total, line : total + LineWeight(line), 0, lines)

FittingPrefixes(lines) == {n \in 1 .. Min({Len(lines), BatchSize}) : BodyOf(SubSeq(lines, 1, n)) <= bodyLimit}

\* Mutant: a line is sent as it was read, parsed or not.
ReadableAlways(lines) == TRUE

Readable(lines) == \A i \in 1 .. Min({Len(lines), BatchSize}) : lines[i].valid

\* The delivery task reads a batch under the lock, parses it and picks the largest
\* prefix that fits; a line that does not parse ends the attempt.
Select ==
    /\ flusher = "idle" /\ lock = "free"
    /\ file /= <<>> /\ Readable(file)
    /\ LET fitting == FittingPrefixes(file) IN
         \/ /\ fitting = {}
            /\ flusher' = "unsendable"
            /\ UNCHANGED <<batch, uploads>>
         \/ /\ fitting /= {}
            /\ flusher' = "posting"
            /\ batch' = SubSeq(ReadLines(file), 1, Max(fitting))
            /\ uploads' = uploads \cup IF BodyOf(batch') <= GatewayLimit THEN Bytes(batch') ELSE {}
    /\ UNCHANGED <<file, rejected, lock, emitting, latest, bodyLimit, stored, budgets>>

\* telemetryBatches commits an upload chunk by chunk, also after the Runner has
\* given up on the answer; unique identities absorb a replay.
Commit(p) ==
    /\ p \in uploads
    /\ stored' = stored \cup {p} /\ uploads' = uploads \ {p}
    /\ UNCHANGED <<file, rejected, lock, emitting, delivering, bodyLimit, budgets>>

Attempt(outcome, cleared) ==
    /\ flusher' = outcome
    /\ batch' = IF cleared THEN <<>> ELSE batch
    /\ UNCHANGED <<file, rejected, lock, emitting, latest, uploads, stored, budgets>>

\* 202 with accepted equal to the number of events sent: all of them are stored.
ReceiptMatches == Bytes(batch) \subseteq stored /\ BodyOf(batch) <= GatewayLimit

Accepted ==
    /\ flusher = "posting" /\ ReceiptMatches
    /\ Attempt("accepted", FALSE) /\ UNCHANGED bodyLimit

\* An error status, a timeout or a receipt that does not match: the batch stays.
PostFails ==
    /\ flusher = "posting" /\ BodyOf(batch) <= GatewayLimit
    /\ Attempt("idle", TRUE) /\ UNCHANGED bodyLimit

\* Mutant: several events that were too large are replayed as they are.
TooLargeRetries ==
    /\ flusher = "posting" /\ BodyOf(batch) > GatewayLimit
    /\ Attempt(IF Len(batch) = 1 THEN "unsendable" ELSE "idle", TRUE)
    /\ UNCHANGED bodyLimit

\* 413: one event is set aside, several are retried under half the budget.
TooLarge ==
    /\ flusher = "posting" /\ BodyOf(batch) > GatewayLimit
    /\ \/ Len(batch) = 1 /\ Attempt("unsendable", TRUE) /\ UNCHANGED bodyLimit
       \/ /\ Len(batch) > 1 /\ Attempt("idle", TRUE)
          /\ bodyLimit' = Max({1, bodyLimit \div 2})

\* Mutant: the lines read before the upload stand for the WAL after it.
ReadAgainTrustsBatch ==
    /\ flusher = "accepted" /\ lock = "free"
    /\ flusher' = "removing" /\ lock' = "flusher" /\ latest' = batch
    /\ UNCHANGED <<file, rejected, emitting, batch, bodyLimit, uploads, stored, budgets>>

\* Under the lock again: the WAL is read once more and must still start with the
\* batch.
ReadAgain ==
    /\ flusher = "accepted" /\ lock = "free"
    /\ IsPrefix(batch, ReadLines(file))
    /\ flusher' = "removing" /\ lock' = "flusher" /\ latest' = ReadLines(file)
    /\ UNCHANGED <<file, rejected, emitting, batch, bodyLimit, uploads, stored, budgets>>

\* "Runtime telemetry WAL changed unexpectedly during delivery": the attempt ends.
ChangedUnexpectedly ==
    /\ flusher = "accepted" /\ lock = "free"
    /\ ~IsPrefix(batch, ReadLines(file))
    /\ Attempt("idle", TRUE) /\ UNCHANGED bodyLimit

\* The temporary file is renamed over the WAL: a worker thread that holds the old
\* file open writes to a file nobody reads.
Replaced(lines) ==
    /\ file' = lines
    /\ thread' = [p \in Evidence |-> IF thread[p] \in {"opened", "half", "text"} THEN "none" ELSE thread[p]]
    /\ flusher' = "idle" /\ lock' = "free" /\ batch' = <<>> /\ latest' = <<>>

\* Mutant: as many lines as were sent are cut off the wrong end.
RemoveNewest ==
    /\ flusher = "removing"
    /\ Replaced(SubSeq(latest, 1, Len(latest) - Len(batch)))
    /\ UNCHANGED <<rejected, emit, next, bodyLimit, uploads, stored, budgets>>

RemoveBatch ==
    /\ flusher = "removing"
    /\ Replaced(SubSeq(latest, Len(batch) + 1, Len(latest)))
    /\ UNCHANGED <<rejected, emit, next, bodyLimit, uploads, stored, budgets>>

-----------------------------------------------------------------------------
(* _quarantine_head *)

ReadHead ==
    /\ flusher = "unsendable" /\ lock = "free" /\ file /= <<>>
    /\ flusher' = "setting_aside" /\ lock' = "flusher" /\ latest' = ReadLines(file)
    /\ UNCHANGED <<file, rejected, emitting, batch, bodyLimit, uploads, stored, budgets>>

\* The head is appended and synced to the rejected WAL, which refuses when full.
SetAside ==
    /\ flusher = "setting_aside"
    /\ \/ /\ Len(rejected) < RejectedRoom
          /\ rejected' = Append(rejected, Head(latest))
          /\ flusher' = "set_aside"
          /\ UNCHANGED <<lock, latest>>
       \/ /\ Len(rejected) >= RejectedRoom
          /\ flusher' = "idle" /\ lock' = "free" /\ latest' = <<>>
          /\ UNCHANGED rejected
    /\ UNCHANGED <<file, emitting, batch, bodyLimit, uploads, stored, budgets>>

DropHead ==
    /\ flusher = "set_aside"
    /\ Replaced(Tail(latest))
    /\ UNCHANGED <<rejected, emit, next, bodyLimit, uploads, stored, budgets>>

\* _replace_lines raises: the WAL is as it was.  After SetAside the head is now in
\* both files.
ReplaceFails ==
    /\ flusher \in {"removing", "set_aside"} /\ failures < MaxFailures
    /\ failures' = failures + 1
    /\ flusher' = "idle" /\ lock' = "free" /\ batch' = <<>> /\ latest' = <<>>
    /\ UNCHANGED <<file, rejected, emitting, bodyLimit, uploads, stored, crashes>>

-----------------------------------------------------------------------------
\* The process is killed and restarted on the same state directory: the files
\* remain, everything in memory starts anew.
Crash ==
    /\ crashes < MaxCrashes
    /\ crashes' = crashes + 1
    /\ emit' = [e \in Emitters |-> IF emit[e] = "appending" THEN "abandoned" ELSE emit[e]]
    /\ thread' = [p \in Evidence |-> "none"]
    /\ lock' = "free" /\ flusher' = "idle" /\ batch' = <<>> /\ latest' = <<>>
    /\ bodyLimit' = MaxBody
    /\ UNCHANGED <<file, rejected, next, uploads, stored, failures>>

Write(p) == Open(p) \/ WriteHalf(p) \/ WriteRest(p)

Deliver ==
    \/ Accepted \/ TooLarge \/ ReadAgain \/ ChangedUnexpectedly \/ RemoveBatch
    \/ ReadHead \/ SetAside \/ DropHead

Next ==
    \/ \E e \in Emitters : Emit(e) \/ CancelEmit(e)
    \/ \E p \in Evidence : Write(p) \/ AppendFails(p) \/ Commit(p)
    \/ Select \/ Deliver \/ PostFails \/ ReplaceFails \/ Crash

Spec == Init /\ [][Next]_vars

\* The event loop and the worker pool run what is ready; the Controller commits
\* what it received and, asked again and again, answers in time once.
FairSpec ==
    /\ Spec
    /\ WF_vars(Select) /\ WF_vars(Deliver) /\ SF_vars(Accepted)
    /\ \A e \in Emitters : WF_vars(Emit(e))
    /\ \A p \in Evidence : WF_vars(Write(p)) /\ WF_vars(Commit(p))

-----------------------------------------------------------------------------
(* Properties *)

Promised == {p \in Evidence : emit[p[1]] = "returned"}

\* What emit returned for is never lost: through concurrent appends, stray worker
\* threads, failed writes, ambiguous answers and restarts, its bytes are in the
\* WAL, in the rejected WAL, or committed by the Controller.
NothingLost == Promised \subseteq Bytes(file) \cup Bytes(rejected) \cup stored

\* The last line of the batch has no newline (an append was cut just before it),
\* and a later append went on in it.
LastSwallowed ==
    LET n == Len(batch) IN
    /\ n <= Len(file) /\ IsPrefix(Front(batch), ReadLines(file))
    /\ batch[n].valid /\ ~file[n].valid
    /\ batch[n].bytes \subseteq file[n].bytes /\ batch[n].bytes /= file[n].bytes

\* The lines an upload was made of are still the first lines of the WAL when its
\* receipt arrives, whatever was appended meanwhile.  Only the last of them may
\* have grown, read when it had no newline yet: this alone makes the delivery task
\* find that the WAL "changed unexpectedly during delivery", and the line it keeps
\* then still holds what was sent.
BatchStillLeads ==
    flusher \in {"posting", "accepted", "removing"} =>
        IsPrefix(batch, ReadLines(file)) \/ LastSwallowed

LineOf(p) == CHOOSE i \in DOMAIN file : p \in file[i].bytes

\* Evidence leaves the WAL oldest first: no line that emit returned for goes
\* while an older one stays.
OldestFirst ==
    [][\A p, q \in Promised \cap Bytes(file) :
         LineOf(p) < LineOf(q) /\ q \notin Bytes(file') => p \notin Bytes(file')]_vars

\* What can stop the delivery for good: a line at the head that json.loads refuses,
\* or an unsendable head when the rejected WAL is full.
Blocked ==
    \/ ~Readable(file)
    \/ /\ file /= <<>> /\ Len(rejected) >= RejectedRoom
       /\ LineWeight(Head(file)) > Min({bodyLimit, GatewayLimit})

\* Nothing else holds evidence back: whatever upload is refused, cut short or
\* interrupted by a restart, a line leaves the WAL unless the head is blocked for
\* ever.
OnlyBlockedEvidenceStays ==
    \A p \in Evidence : []<>(p \notin Bytes(file)) \/ <>[]Blocked
=============================================================================
