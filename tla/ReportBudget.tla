---------------------------- MODULE ReportBudget ----------------------------
(***************************************************************************)
(* Admission of report work on one Controller: a number of jobs, and the   *)
(* bytes they keep in memory, are bounded before anything is decoded.  A   *)
(* job that does not fit waits in a bounded queue, in order, for 5 s.      *)
(*                                                                         *)
(* The budget runs on one thread: each action is what happens between two  *)
(* awaits.                                                                 *)
(***************************************************************************)
EXTENDS Integers, Sequences, SequencesExt, FiniteSets, FiniteSetsExt

CONSTANTS
    Jobs,
    Bytes,          \* what each job declares
    ByteLimit, MaxJobs, MaxQueue

ASSUME BudgetAssumption ==
    /\ IsFiniteSet(Jobs) /\ Bytes \in [Jobs -> Nat]
    /\ ByteLimit \in Nat /\ MaxJobs \in Nat \ {0} /\ MaxQueue \in Nat

VARIABLES
    job,        \* idle, queued, or working
    line,       \* the queue
    jobs,       \* active
    bytes       \* bytes in flight

rbVars == <<job, line, jobs, bytes>>

RBInit ==
    /\ job = [j \in Jobs |-> "idle"] /\ line = <<>>
    /\ jobs = 0 /\ bytes = 0

\* The bytes that a set of jobs keeps, one by one.
BytesOf(S) == UNION {{j} \X (1 .. Bytes[j]) : j \in S}

\* pump: the longest prefix of the line whose members fit one after the other.
Load(q) == Cardinality(BytesOf(Range(q)))

\* Mutant: only the number of jobs is looked at.
StartsRegardless(q, n, b) == IF n < MaxJobs THEN Min({Len(q), MaxJobs - n}) ELSE 0

Starts(q, n, b) == Max({t \in 0 .. Len(q) : n + t <= MaxJobs /\ b + Load(SubSeq(q, 1, t)) <= ByteLimit} \cup {0})

PumpLine(q, n, b, state) ==
    LET t == Starts(q, n, b)
    IN  /\ line' = SubSeq(q, t + 1, Len(q))
        /\ jobs' = n + t /\ bytes' = b + Load(SubSeq(q, 1, t))
        /\ job' = [j \in Jobs |-> IF \E i \in 1 .. t : q[i] = j THEN "working" ELSE state[j]]

\* acquire: too large or too many are refused and change nothing; a job that fits
\* starts only when nobody waits.
Fits(j) == line = <<>> /\ jobs < MaxJobs /\ bytes + Bytes[j] <= ByteLimit

Begin(j) ==
    /\ job[j] = "idle" /\ Bytes[j] <= ByteLimit /\ Fits(j)
    /\ job' = [job EXCEPT ![j] = "working"]
    /\ jobs' = jobs + 1 /\ bytes' = bytes + Bytes[j]
    /\ UNCHANGED line

Wait(j) ==
    /\ job[j] = "idle" /\ Bytes[j] <= ByteLimit /\ ~ Fits(j) /\ Len(line) < MaxQueue
    /\ job' = [job EXCEPT ![j] = "queued"] /\ line' = Append(line, j)
    /\ UNCHANGED <<jobs, bytes>>

\* Mutant: the job that gives up was the one that did not fit, and nobody looks again.
GiveUpSilently(j) ==
    /\ job[j] = "queued"
    /\ job' = [job EXCEPT ![j] = "idle"] /\ line' = RemoveFirst(line, j)
    /\ UNCHANGED <<jobs, bytes>>

\* The timer of a queued job.
GiveUp(j) ==
    /\ job[j] = "queued"
    /\ PumpLine(RemoveFirst(line, j), jobs, bytes, [job EXCEPT ![j] = "idle"])

\* release, in run's finally: the task ended, or failed.
Done(j) ==
    /\ job[j] = "working"
    /\ PumpLine(line, jobs - 1, bytes - Bytes[j], [job EXCEPT ![j] = "idle"])

RBNext == \E j \in Jobs : Begin(j) \/ Wait(j) \/ GiveUp(j) \/ Done(j)

RBSpec == RBInit /\ [][RBNext]_rbVars

-----------------------------------------------------------------------------
(* Properties *)

\* The memory that admitted reports take stays within the budget, and is what the
\* counters say, through every order of timeouts and releases (acquire, pump).
MemoryBounded ==
    LET working == {j \in Jobs : job[j] = "working"}
    IN  /\ jobs = Cardinality(working) /\ jobs <= MaxJobs
        /\ bytes = Cardinality(BytesOf(working)) /\ bytes <= ByteLimit

\* Nobody waits for what is free: the head of the line does not fit.  A large job at
\* the head that gives up lets those behind it in at once (pump in the timer).
HeadDoesNotFit == line # <<>> => jobs = MaxJobs \/ bytes + Bytes[Head(line)] > ByteLimit

=============================================================================
