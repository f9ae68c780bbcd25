------------------------------ MODULE JobStore ------------------------------
(***************************************************************************)
(* The asynchronous SQLite writer of a worker (SQLiteJobStore).            *)
(*                                                                         *)
(* record_job puts job events on an unbounded in-memory queue; one daemon  *)
(* thread takes them off in batches and writes every batch in one SQLite   *)
(* transaction, which either commits or is rolled back and forgotten.      *)
(* stop() sends a marker down the same queue, waits a few seconds for the  *)
(* writer and then lets the process exit.                                  *)
(*                                                                         *)
(* An event is named by its position in the history `events`, so the queue *)
(* and the batch are sequences of numbers.  The aggregate row worker_stats *)
(* is kept per job: its columns are the sums over Jobs of `processed` and  *)
(* `failed`.  Columns that no property reads (paths, sizes, timestamps,    *)
(* durations) are left out.                                                *)
(***************************************************************************)
EXTENDS ReplayStats, Sequences, FiniteSets, FiniteSetsExt

CONSTANTS
    Jobs,              \* the job ids events are recorded for
    BatchSize,         \* batch_size of the store
    MaxEvents,         \* bound on the recorded events
    MaxFlushFailures,  \* bound on the transactions that fail
    MaxCrashes         \* bound on the process crashes

ASSUME JobStoreAssumption ==
    /\ BatchSize \in Nat \ {0}
    /\ MaxEvents \in Nat
    /\ MaxFlushFailures \in Nat
    /\ MaxCrashes \in Nat

VARIABLES
    events,     \* history of record_job: every event ever handed to the store
    queue,      \* SimpleQueue: event numbers and the stop marker
    batch,      \* the writer's current batch (or tail)
    applied,    \* how many events of the batch the open transaction has applied
    pc,         \* where the writer thread is
    after,      \* where the writer goes when the flush ends
    shouldStop, \* should_stop of the writer loop
    db,         \* committed contents of the database
    txn,        \* contents seen by the open transaction
    attempts,   \* processing events of this process without their terminal event
    caller,     \* the thread that owns the store: running, stopping, exited
    stopMark,   \* how many events had been recorded when stop() was called
    committed,  \* events whose transaction committed
    dropped,    \* events whose transaction was rolled back
    lost,       \* events that were still in memory when the process died
    crashes,
    flushFailures

vars == <<events, queue, batch, applied, pc, after, shouldStop, db, txn, attempts,
          caller, stopMark, committed, dropped, lost, crashes, flushFailures>>

Stop      == 0          \* _STOP_SIGNAL; events are numbered from 1
Database  == [status    : [Jobs -> RowStatus],
              suppress  : [Jobs -> 0 .. 1],
              processed : [Jobs -> Nat],
              failed    : [Jobs -> Nat]]

\* The events that are still in memory.
NumbersIn(s) == {s[i] : i \in DOMAIN s}
Unresolved   == NumbersIn(batch) \cup (NumbersIn(queue) \ {Stop})

EmptyDb == [status    |-> [j \in Jobs |-> NoRow],
            suppress  |-> [j \in Jobs |-> 0],
            processed |-> [j \in Jobs |-> 0],
            failed    |-> [j \in Jobs |-> 0]]

Init ==
    /\ events = <<>> /\ queue = <<>> /\ batch = <<>> /\ applied = 0
    /\ pc = "poll" /\ after = "poll" /\ shouldStop = FALSE
    /\ db = EmptyDb /\ txn = EmptyDb
    /\ attempts = [j \in Jobs |-> 0]
    /\ caller = "running" /\ stopMark = 0
    /\ committed = {} /\ dropped = {} /\ lost = {}
    /\ crashes = 0 /\ flushFailures = 0
-----------------------------------------------------------------------------
(* The threads that record and that stop.                                   *)

\* A job can only be recorded `ok` after this process recorded it `processing`;
\* `error` can also come first, when publishing the lifecycle message failed.
MayRecord(j, s) == s = Ok => attempts[j] > 0

\* A second signal can run the consumer's drain while stop() is joining, so
\* events may still arrive behind the stop marker.
EnqueueJob(j, s) ==
    /\ caller \in {"running", "stopping"}
    /\ Len(events) < MaxEvents
    /\ MayRecord(j, s)
    /\ events' = Append(events, [job |-> j, status |-> s])
    /\ queue' = Append(queue, Len(events) + 1)
    /\ attempts' = [attempts EXCEPT ![j] =
                        IF s = Processing THEN @ + 1 ELSE IF @ > 0 THEN @ - 1 ELSE 0]
    /\ UNCHANGED <<batch, applied, pc, after, shouldStop, db, txn, caller, stopMark,
                   committed, dropped, lost, crashes, flushFailures>>

RequestStop ==
    /\ caller = "running"
    /\ caller' = "stopping"
    /\ stopMark' = Len(events)
    /\ queue' = Append(queue, Stop)
    /\ UNCHANGED <<events, batch, applied, pc, after, shouldStop, db, txn, attempts,
                   committed, dropped, lost, crashes, flushFailures>>

\* thread.join returns, because the writer ended or because the timeout ran out;
\* the process then exits and the daemon thread dies with it.
JoinReturns ==
    /\ caller = "stopping"
    /\ caller' = "exited"
    /\ lost' = lost \cup Unresolved
    /\ queue' = <<>> /\ batch' = <<>> /\ applied' = 0
    /\ txn' = db
    /\ UNCHANGED <<events, pc, after, shouldStop, db, attempts, stopMark,
                   committed, dropped, crashes, flushFailures>>

\* The process dies and is restarted on the same database file.
Crash ==
    /\ caller # "exited"
    /\ crashes < MaxCrashes
    /\ crashes' = crashes + 1
    /\ lost' = lost \cup Unresolved
    /\ queue' = <<>> /\ batch' = <<>> /\ applied' = 0
    /\ pc' = "poll" /\ after' = "poll" /\ shouldStop' = FALSE
    /\ txn' = db
    /\ attempts' = [j \in Jobs |-> 0]
    /\ caller' = "running" /\ stopMark' = 0
    /\ UNCHANGED <<events, db, committed, dropped, flushFailures>>
-----------------------------------------------------------------------------
(* The writer thread.                                                       *)

WriterAlive == caller # "exited"

UnchangedByWriter == UNCHANGED <<events, attempts, caller, stopMark, lost, crashes>>

\* self._queue.get(timeout=0.5): an empty queue is polled again.
TakeFirst ==
    /\ WriterAlive
    /\ pc = "poll"
    /\ queue # <<>>
    /\ queue' = Tail(queue)
    /\ IF Head(queue) = Stop
       THEN /\ shouldStop' = TRUE
            /\ pc' = "drain"
            /\ UNCHANGED batch
       ELSE /\ batch' = <<Head(queue)>>
            /\ pc' = "collect"
            /\ UNCHANGED shouldStop
    /\ UNCHANGED <<applied, after, db, txn, committed, dropped, flushFailures>>
    /\ UnchangedByWriter

\* Mutation: the marker ends the loop without flushing the batch before it.
TakeNextSkipsFlush ==
    /\ WriterAlive
    /\ pc = "collect"
    /\ Len(batch) < BatchSize
    /\ queue # <<>>
    /\ queue' = Tail(queue)
    /\ IF Head(queue) = Stop
       THEN pc' = "stopped" /\ shouldStop' = TRUE /\ UNCHANGED batch
       ELSE batch' = Append(batch, Head(queue)) /\ UNCHANGED <<shouldStop, pc>>
    /\ UNCHANGED <<applied, after, db, txn, committed, dropped, flushFailures>>
    /\ UnchangedByWriter

TakeNext ==
    /\ WriterAlive
    /\ pc = "collect"
    /\ Len(batch) < BatchSize
    /\ queue # <<>>
    /\ queue' = Tail(queue)
    /\ IF Head(queue) = Stop
       THEN /\ shouldStop' = TRUE
            /\ pc' = "flush" /\ after' = "poll" /\ txn' = db
            /\ UNCHANGED batch
       ELSE /\ batch' = Append(batch, Head(queue))
            /\ UNCHANGED <<shouldStop, pc, after, txn>>
    /\ UNCHANGED <<applied, db, committed, dropped, flushFailures>>
    /\ UnchangedByWriter

\* Mutation: the writer waits until the batch is full.
BatchReadyWhenFull ==
    /\ WriterAlive
    /\ pc = "collect"
    /\ Len(batch) >= BatchSize
    /\ pc' = "flush" /\ after' = "poll" /\ txn' = db
    /\ UNCHANGED <<queue, batch, applied, shouldStop, db, committed, dropped, flushFailures>>
    /\ UnchangedByWriter

BatchReady ==
    /\ WriterAlive
    /\ pc = "collect"
    /\ Len(batch) >= BatchSize \/ queue = <<>>
    /\ pc' = "flush" /\ after' = "poll" /\ txn' = db
    /\ UNCHANGED <<queue, batch, applied, shouldStop, db, committed, dropped, flushFailures>>
    /\ UnchangedByWriter

\* What one event does to the contents: replay_stats_transition on the row as the
\* transaction sees it, then the upsert of the row and the totals.
Applied(d, e) ==
    LET s == d.status[e.job]
        r == d.suppress[e.job]
    IN  [status    |-> [d.status EXCEPT ![e.job] = e.status],
         suppress  |-> [d.suppress EXCEPT ![e.job] = NextSuppress(s, r, e.status)],
         processed |-> [d.processed EXCEPT ![e.job] = @ + OkDelta(s, r, e.status)],
         failed    |-> [d.failed EXCEPT ![e.job] = @ + ErrorDelta(s, r, e.status)]]

ApplyEvent ==
    /\ WriterAlive
    /\ pc = "flush"
    /\ applied < Len(batch)
    /\ applied' = applied + 1
    /\ txn' = Applied(txn, events[batch[applied + 1]])
    /\ UNCHANGED <<queue, batch, pc, after, shouldStop, db, committed, dropped, flushFailures>>
    /\ UnchangedByWriter

\* Mutation: the tail is not emptied when it was flushed.
FlushKeepsBatch ==
    /\ batch' = batch /\ applied' = 0
    /\ pc' = IF after = "poll" /\ shouldStop THEN "drain" ELSE after

\* Both ends of _flush_batch return to the loop that called it.
FlushReturns ==
    /\ batch' = <<>> /\ applied' = 0
    /\ pc' = IF after = "poll" /\ shouldStop THEN "drain" ELSE after

Commit ==
    /\ WriterAlive
    /\ pc = "flush"
    /\ applied = Len(batch)
    /\ db' = txn
    /\ committed' = committed \cup NumbersIn(batch)
    /\ FlushReturns
    /\ UNCHANGED <<queue, after, shouldStop, txn, dropped, flushFailures>>
    /\ UnchangedByWriter

\* Mutation: autocommit, so the events before the failing one stay applied.
FlushFailsHalfWay ==
    /\ WriterAlive
    /\ pc = "flush"
    /\ flushFailures < MaxFlushFailures
    /\ flushFailures' = flushFailures + 1
    /\ db' = txn
    /\ dropped' = dropped \cup NumbersIn(batch)
    /\ FlushReturns
    /\ UNCHANGED <<queue, after, shouldStop, txn, committed>>
    /\ UnchangedByWriter

\* Any exception rolls the transaction back; it is logged and the batch is gone.
FlushFails ==
    /\ WriterAlive
    /\ pc = "flush"
    /\ flushFailures < MaxFlushFailures
    /\ flushFailures' = flushFailures + 1
    /\ txn' = db
    /\ dropped' = dropped \cup NumbersIn(batch)
    /\ FlushReturns
    /\ UNCHANGED <<queue, after, shouldStop, db, committed>>
    /\ UnchangedByWriter

\* The loop has ended: what is left in the queue is the tail.
DrainTail ==
    /\ WriterAlive
    /\ pc = "drain"
    /\ queue # <<>>
    /\ queue' = Tail(queue)
    /\ batch' = IF Head(queue) = Stop THEN batch ELSE Append(batch, Head(queue))
    /\ IF Len(batch') >= BatchSize
       THEN pc' = "flush" /\ after' = "drain" /\ txn' = db
       ELSE UNCHANGED <<pc, after, txn>>
    /\ UNCHANGED <<applied, shouldStop, db, committed, dropped, flushFailures>>
    /\ UnchangedByWriter

TailEmpty ==
    /\ WriterAlive
    /\ pc = "drain"
    /\ queue = <<>>
    /\ IF batch # <<>>
       THEN pc' = "flush" /\ after' = "stopped" /\ txn' = db
       ELSE pc' = "stopped" /\ UNCHANGED <<after, txn>>
    /\ UNCHANGED <<queue, batch, applied, shouldStop, db, committed, dropped, flushFailures>>
    /\ UnchangedByWriter

Writer == \/ TakeFirst \/ TakeNext \/ BatchReady \/ ApplyEvent
          \/ Commit \/ FlushFails \/ DrainTail \/ TailEmpty

Next ==
    \/ \E j \in Jobs, s \in Status : EnqueueJob(j, s)
    \/ RequestStop \/ JoinReturns \/ Crash
    \/ Writer

Spec == Init /\ [][Next]_vars

\* The writer thread keeps running while the process lives, and stop() bounds
\* its wait for it.
FairSpec == Spec /\ WF_vars(Writer) /\ WF_vars(JoinReturns)
-----------------------------------------------------------------------------
(* Properties.                                                              *)

\* Every variable has its type.
TypeOK ==
    /\ events \in Seq([job : Jobs, status : Status])
    /\ queue \in Seq(Nat)
    /\ batch \in Seq(Nat)
    /\ applied \in Nat
    /\ pc \in {"poll", "collect", "flush", "drain", "stopped"}
    /\ after \in {"poll", "drain", "stopped"}
    /\ shouldStop \in BOOLEAN
    /\ db \in Database
    /\ txn \in Database
    /\ attempts \in [Jobs -> Nat]
    /\ caller \in {"running", "stopping", "exited"}
    /\ stopMark \in Nat
    /\ committed \subseteq Nat /\ dropped \subseteq Nat /\ lost \subseteq Nat
    /\ crashes \in Nat /\ flushFailures \in Nat

\* The same in the order the writer will reach them, the marker among them.
InMemory == batch \o queue

Resolved == committed \cup dropped \cup lost

\* No event is duplicated, forgotten or written twice on its way through the
\* queue, the batch and the tail: what is in memory is, each event once and in
\* order, exactly the newest part of the history, and every older event has one
\* fate (committed, dropped with its batch, or lost with the process).
EveryEventHasOneFate ==
    /\ \A i, k \in DOMAIN InMemory :
           i < k /\ InMemory[i] # Stop /\ InMemory[k] # Stop => InMemory[i] < InMemory[k]
    /\ \A n \in Resolved, m \in Unresolved : n < m
    /\ Resolved \cup Unresolved = 1 .. Len(events)
    /\ committed \cap dropped = {}
    /\ committed \cap lost = {}
    /\ dropped \cap lost = {}

CommittedOf(j) == {n \in committed : events[n].job = j}

\* A committed row shows the newest committed event of its job: batching, the
\* roll back of a failed batch and the tail drain never let an older event
\* overwrite a newer one or leave half a batch behind (upsert in _flush_batch).
RowIsNewestCommitted ==
    \A j \in Jobs :
        db.status[j] = IF CommittedOf(j) = {} THEN NoRow ELSE events[Max(CommittedOf(j))].status

CountedOutcomes(d, j) == d.processed[j] + d.failed[j]

\* A job whose row is terminal has been counted, even when the batch that held
\* its `processing` event was rolled back: the suppress latch only ever swallows
\* the outcome of a job whose earlier success is already in the totals.
FinishedJobIsCounted ==
    \A j \in Jobs : db.status[j] \in Terminal => CountedOutcomes(db, j) >= 1

\* A second `processing` event was committed for the job after its success with
\* no terminal event in between: a replay that was itself interrupted.
ReplayInterrupted(j) ==
    \E a, b, c \in CommittedOf(j) :
        /\ a < b /\ b < c
        /\ events[a].status = Ok
        /\ events[b].status = Processing /\ events[c].status = Processing
        /\ \A n \in CommittedOf(j) : ~(b < n /\ n < c)

EverFailed(j) == \E n \in CommittedOf(j) : events[n].status = Error

\* The part of the documented promise about replays that the rule keeps: a job
\* that never failed and whose replays all ran to their end is counted once,
\* however often it is redelivered.
ReplayCountedOnce ==
    \A j \in Jobs : ~EverFailed(j) /\ ~ReplayInterrupted(j) => CountedOutcomes(db, j) <= 1

\* The promise as SPEC.md states it: a replay after an earlier successful
\* completion of the job does not increment the totals again (attempts after an
\* error may).
ReplayAfterSuccessNotRecounted ==
    \A j \in Jobs : ~EverFailed(j) => CountedOutcomes(db, j) <= 1

\* stop() keeps what was recorded before it: once the writer has ended, no event
\* older than the call is still in memory.  Events that a second signal records
\* behind the marker may be left in the queue.
StopKeepsEarlierEvents ==
    caller = "stopping" /\ pc = "stopped" =>
        \A n \in Unresolved : n > stopMark

\* Every recorded event reaches its fate: the writer does not get stuck between
\* polling, collecting, flushing and draining, and an event left behind the
\* marker goes when the process exits.
EveryEventIsResolved == []<>(1 .. Len(events) \subseteq Resolved)
=============================================================================
