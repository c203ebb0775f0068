---------------------------- MODULE ActivityLogger ----------------------------
(***************************************************************************)
(* services/activity_logger.py: entries are queued in memory and written   *)
(* to the database in batches by a flush task that logging starts.         *)
(*                                                                         *)
(* Nothing is awaited under _batch_lock, so a critical section is one step *)
(* and so is the requeue with the finally block that follows it.  The task *)
(* is suspended while it sleeps, while the batch is written, and while the *)
(* database session is rolled back or closed; entries are logged meanwhile.*)
(* Entry n is the nth that was logged.                                     *)
(***************************************************************************)
EXTENDS Naturals, Sequences, SequencesExt

CONSTANTS
    Tasks,          \* asyncio tasks running _flush_batch_safe
    MaxPending,     \* BATCH_SIZE * 10, the limit on what a failed flush requeues
    Refused,        \* entries the database does not accept
    MaxLogs         \* bound: how many entries are logged

ASSUME LoggerConstantsOK ==
    /\ Tasks # {}
    /\ MaxPending \in Nat \ {0}
    /\ MaxLogs \in Nat
    /\ Refused \subseteq 1 .. MaxLogs

VARIABLES
    pending,        \* _pending_logs
    scheduled,      \* _batch_task_scheduled
    task,           \* task[t]: where flush task t is, and its logs_to_write
    written,        \* the activity_logs table, in the order of the inserts
    logged,         \* how many entries were logged
    dropped,        \* history: entries a failed flush gave up
    lost            \* history: entries in memory when the process stopped

loggerVars == <<pending, scheduled, task, written, logged, dropped, lost>>
-----------------------------------------------------------------------------
NoTask == [pc |-> "none", batch |-> <<>>]
Sleeping == [pc |-> "sleep", batch |-> <<>>]

Running == {t \in Tasks : task[t] # NoTask}
InBatch == UNION {ToSet(task[t].batch) : t \in Tasks}

LoggerInit ==
    /\ pending = <<>> /\ scheduled = FALSE
    /\ task = [t \in Tasks |-> NoTask]
    /\ written = <<>> /\ logged = 0
    /\ dropped = {} /\ lost = {}

\* log: queue the entry; the first one schedules a flush.
Log ==
    /\ logged < MaxLogs
    /\ logged' = logged + 1
    /\ pending' = Append(pending, logged + 1)
    /\ \/ scheduled /\ UNCHANGED <<scheduled, task>>
       \/ /\ ~scheduled /\ scheduled' = TRUE
          /\ \E t \in Tasks : task[t] = NoTask /\ task' = [task EXCEPT ![t] = Sleeping]
    /\ UNCHANGED <<written, dropped, lost>>

\* Mutant of Finally: the flag is reset and nobody looks at what is left.
FinallyWithoutRetry(t, left) ==
    /\ pending' = left
    /\ scheduled' = FALSE
    /\ task' = [task EXCEPT ![t] = NoTask]

\* The finally block of task t, with `left` in the queue: another task follows
\* when there is something to flush.
Finally(t, left) ==
    /\ pending' = left
    /\ scheduled' = (left # <<>>)
    /\ task' = [task EXCEPT ![t] = IF left # <<>> THEN Sleeping ELSE NoTask]

\* Mutant of Take: the flag is reset when the batch is taken.
TakeUnscheduled(t) ==
    /\ task[t].pc = "sleep"
    /\ task' = [task EXCEPT ![t] = [pc |-> "write", batch |-> pending]]
    /\ pending' = <<>>
    /\ scheduled' = FALSE
    /\ UNCHANGED <<written, logged, dropped, lost>>

\* Mutant of Take: the queue is copied and not cleared.
TakeCopy(t) ==
    /\ task[t].pc = "sleep"
    /\ task' = [task EXCEPT ![t] = [pc |-> "write", batch |-> pending]]
    /\ UNCHANGED <<pending, scheduled, written, logged, dropped, lost>>

\* The task wakes and takes the whole queue.
Take(t) ==
    /\ task[t].pc = "sleep"
    /\ IF pending = <<>>
       THEN Finally(t, <<>>)
       ELSE /\ task' = [task EXCEPT ![t] = [pc |-> "write", batch |-> pending]]
            /\ pending' = <<>>
            /\ UNCHANGED scheduled
    /\ UNCHANGED <<written, logged, dropped, lost>>

\* One transaction: an entry that is refused, or whose id is in the table, fails
\* the batch.
CanLand(batch) == ToSet(batch) \cap (Refused \cup ToSet(written)) = {}

WriteLands(t) ==
    /\ task[t].pc = "write"
    /\ CanLand(task[t].batch)
    /\ written' = written \o task[t].batch
    /\ task' = [task EXCEPT ![t].pc = "landed"]
    /\ UNCHANGED <<pending, scheduled, logged, dropped, lost>>

WriteFails(t) ==
    /\ task[t].pc = "write"
    /\ task' = [task EXCEPT ![t].pc = "failed"]
    /\ UNCHANGED <<pending, scheduled, written, logged, dropped, lost>>

Finish(t) ==
    /\ task[t].pc = "landed"
    /\ Finally(t, pending)
    /\ UNCHANGED <<written, logged, dropped, lost>>

\* Mutant of Readded: no limit.
ReaddedAll(batch) == batch

\* logs_to_readd: the oldest of the failed entries, as many as the limit allows.
Readded(batch) ==
    IF Len(pending) >= MaxPending THEN <<>>
    ELSE SubSeq(batch, 1, IF Len(batch) <= MaxPending - Len(pending)
                          THEN Len(batch) ELSE MaxPending - Len(pending))

\* Mutants of Requeue: what was logged meanwhile is overwritten; the failed
\* entries go behind it.
RequeueOverwriting(t) ==
    /\ task[t].pc \in {"landed", "failed"}
    /\ LET batch == task[t].batch
       IN  /\ dropped' = dropped \cup (ToSet(batch) \ ToSet(Readded(batch)))
           /\ Finally(t, Readded(batch))
    /\ UNCHANGED <<written, logged, lost>>
RequeueBehind(t) ==
    /\ task[t].pc \in {"landed", "failed"}
    /\ LET batch == task[t].batch
       IN  /\ dropped' = dropped \cup (ToSet(batch) \ ToSet(Readded(batch)))
           /\ Finally(t, pending \o Readded(batch))
    /\ UNCHANGED <<written, logged, lost>>

\* The exception handler and the finally block.  The write failed - or it landed
\* and its acknowledgement, or the closing of the session, raised.
Requeue(t) ==
    /\ task[t].pc \in {"landed", "failed"}
    /\ LET batch == task[t].batch
       IN  /\ dropped' = dropped \cup (ToSet(batch) \ ToSet(Readded(batch)))
           /\ Finally(t, Readded(batch) \o pending)
    /\ UNCHANGED <<written, logged, lost>>

\* The process stops and starts again: common_shutdown flushes nothing.
Stop ==
    /\ lost' = lost \cup ((ToSet(pending) \cup InBatch) \ ToSet(written))
    /\ pending' = <<>> /\ scheduled' = FALSE
    /\ task' = [t \in Tasks |-> NoTask]
    /\ UNCHANGED <<written, logged, dropped>>

FlushStep(t) == Take(t) \/ WriteLands(t) \/ WriteFails(t) \/ Finish(t) \/ Requeue(t)

LoggerNext == Log \/ Stop \/ \E t \in Tasks : FlushStep(t)

LoggerSpec == LoggerInit /\ [][LoggerNext]_loggerVars

\* Tasks are scheduled and transactions end; a database that accepts a batch
\* does not fail every write for ever.
LoggerFairness ==
    /\ \A t \in Tasks : WF_loggerVars(FlushStep(t))
    /\ SF_loggerVars(\E t \in Tasks : WriteLands(t))

FairLoggerSpec == LoggerSpec /\ LoggerFairness
-----------------------------------------------------------------------------
(* Properties.                                                              *)

TaskPcs == {"none", "sleep", "write", "landed", "failed"}

LoggerTypeOK ==
    /\ pending \in Seq(Nat) /\ Len(pending) <= MaxLogs
    /\ scheduled \in BOOLEAN
    /\ task \in [Tasks -> [pc : TaskPcs, batch : Seq(Nat)]]
    /\ written \in Seq(Nat)
    /\ logged \in 0 .. MaxLogs
    /\ dropped \subseteq 1 .. MaxLogs /\ lost \subseteq 1 .. MaxLogs

\* No wake-up is lost and no two tasks flush at once, whenever entries are logged
\* during a flush: entries in the queue have a task to flush them, the flag says
\* whether there is a task, and there is at most one ("race-safe via flag").
OneFlusher ==
    /\ \A t, u \in Running : t = u
    /\ scheduled <=> Running # {}
    /\ pending # <<>> => scheduled

Increasing(s) == \A i, j \in DOMAIN s : i < j => s[i] < s[j]

\* Retries keep the chronological order ("older logs first"): what is in the
\* table, in the batch and in the queue was logged in this order, and nothing is
\* written twice or after something newer.
InOrder ==
    /\ Increasing(written)
    /\ \A t \in Running : Increasing(task[t].batch \o pending)
    /\ Increasing(pending)
    /\ \A n \in (ToSet(pending) \cup InBatch) \ ToSet(written) :
          \A m \in ToSet(written) : m < n

\* An entry is in the table, on its way there, or was given up: what is logged
\* while a flush fails is not lost with it.
Accounted ==
    \A n \in 1 .. logged :
        n \in ToSet(written) \cup ToSet(pending) \cup InBatch \cup dropped \cup lost

\* A failed flush gives up only what would exceed the limit, and never makes the
\* queue exceed it.
LimitedRequeue ==
    [][/\ dropped' # dropped => \E t \in Tasks :
              Len(pending) + Len(task[t].batch) > MaxPending
       /\ logged' = logged /\ Len(pending') > MaxPending => pending' = pending]_loggerVars

Settled(n) == n \in ToSet(written) \cup dropped \cup lost

Poisoned == \E t \in Tasks : task[t].pc = "write" /\ ~CanLand(task[t].batch)

\* Whatever fails meanwhile, every entry is written, given up or lost in a stop
\* in the end - provided no batch ever holds an entry the database refuses, or
\* one whose earlier write landed without saying so.
Settles ==
    []~Poisoned => \A n \in 1 .. MaxLogs : (logged >= n) ~> Settled(n)
=============================================================================
