--------------------------- MODULE WorkerConsumer ---------------------------
(***************************************************************************)
(* The extraction workers (Consumer) between RabbitMQ and their process    *)
(* pools.  Each replica has one main thread that runs the pika event loop, *)
(* its callbacks and the signal handler, and, with WORKER_CONCURRENCY > 1, *)
(* a process pool whose management thread calls _on_future_done.           *)
(*                                                                         *)
(* The broker and pika are external.  A channel is a FIFO of frames that   *)
(* basic_publish, basic_ack and basic_nack have written and the broker has *)
(* not yet read (`wire`); there are no publisher confirms, so what a lost  *)
(* connection takes with it is always a suffix of that FIFO.  A link is    *)
(* "half" when the broker has given the connection up and requeued its     *)
(* deliveries while the worker has not noticed.                            *)
(*                                                                         *)
(* A callback is one action: nothing else runs on the main thread between  *)
(* its writes, and a crash between two of them shows as the loss of the    *)
(* later frames.  Extraction is abstract: handle_extract_job never raises  *)
(* and yields "ok" or "error" (a timeout is an "error").                   *)
(***************************************************************************)
EXTENDS Naturals, Sequences, FiniteSets

CONSTANTS
    Jobs,         \* the extraction jobs, one message each
    Workers,      \* the worker replicas
    Concurrency,  \* WORKER_CONCURRENCY: 1 runs jobs inline, more uses the pool
    LlmJobs,      \* the jobs that carry an llm_profile
    Lifecycle,    \* RABBITMQ_LIFECYCLE_QUEUE is configured
    Stoppable,    \* the replicas that may receive SIGTERM
    MaxFaults,    \* bound on channel calls that raise and on pool breakages
    MaxDrops,     \* bound on the lost connections
    MaxCrashes    \* bound on the process crashes

ASSUME ConsumerAssumption ==
    /\ Concurrency \in Nat \ {0}
    /\ LlmJobs \subseteq Jobs
    /\ Lifecycle \in BOOLEAN
    /\ Stoppable \subseteq Workers
    /\ Workers \cap {"ready", "settled"} = {}
    /\ MaxFaults \in Nat /\ MaxDrops \in Nat /\ MaxCrashes \in Nat

VARIABLES
    (* the broker *)
    at,          \* where a job message is: ready, unacked at a worker, settled
    deliveries,  \* how often it has been delivered; it is `redelivered` from the second on
    results,     \* verdicts published to docrunr.results
    followups,   \* jobs with a message in docrunr.llm.jobs
    deadLetters, \* jobs with a copy in docrunr.dlq
    started,     \* jobs announced on docrunr.lifecycle
    (* the connections *)
    link,        \* up, half or down
    wire,        \* frames written by the worker and not yet read by the broker
    inbox,       \* deliveries whose callback has not run
    (* the workers *)
    current,     \* the delivery the main thread is extracting inline
    pending,     \* _pending_deliveries
    pool,        \* the ProcessPoolExecutor: none, ready or broken
    stop,        \* consumer.stop(): none, draining, closing, stopped, aborted
    row,         \* the status last recorded for a job in the worker's history
    (* the environment *)
    faults, drops, crashes

brokerVars == <<at, deliveries, results, followups, deadLetters, started>>
linkVars   == <<link, wire, inbox>>
workerVars == <<current, pending, pool, stop, row>>
bounds     == <<faults, drops, crashes>>
vars       == <<brokerVars, linkVars, workerVars, bounds>>

Verdicts   == {"ok", "error"}
Deliveries == [job : Jobs, tag : Nat]
Idle       == [job |-> "none", tag |-> 0]
Frames     == [op : {"lifecycle", "result", "llm", "dlq", "ack", "nack"},
               job : Jobs, tag : Nat, verdict : Verdicts]
Entries    == [delivery : Deliveries, open : BOOLEAN,
               future : {"running", "broken"} \cup Verdicts, scheduled : BOOLEAN]

Inline == Concurrency = 1

\* Mutation: a first delivery counts as redelivered.
RedeliveredAtOnce(d) == d.tag > 0

Redelivered(d) == d.tag > 1
Unacked(w)     == {j \in Jobs : at[j] = w}

\* The frames of the delivery d; only result frames use their verdict.
Frame(op, d, v) == [op |-> op, job |-> d.job, tag |-> d.tag, verdict |-> v]
Send(op, d)     == Frame(op, d, "ok")

\* RabbitMQ takes back every delivery of a closed channel.
Requeued(w, kept) == [j \in Jobs |-> IF at[j] = w /\ j \notin kept THEN "ready" ELSE at[j]]

\* Mutation: an entry is finished on whatever channel is current then.
StillOpen(entries) == entries

Closed(entries) == {[e EXCEPT !.open = FALSE] : e \in entries}

Init ==
    /\ at = [j \in Jobs |-> "ready"]
    /\ deliveries = [j \in Jobs |-> 0]
    /\ results = [j \in Jobs |-> {}]
    /\ followups = {} /\ deadLetters = {} /\ started = {}
    /\ link = [w \in Workers |-> "down"]
    /\ wire = [w \in Workers |-> <<>>]
    /\ inbox = [w \in Workers |-> {}]
    /\ current = [w \in Workers |-> Idle]
    /\ pending = [w \in Workers |-> {}]
    /\ pool = [w \in Workers |-> "none"]
    /\ stop = [w \in Workers |-> "none"]
    /\ row = [w \in Workers |-> [j \in Jobs |-> "none"]]
    /\ faults = 0 /\ drops = 0 /\ crashes = 0
-----------------------------------------------------------------------------
(* The broker.                                                              *)

\* basic_qos(prefetch_count = worker_concurrency) bounds what is outstanding.
Deliver(w, j) ==
    /\ link[w] = "up"
    /\ stop[w] = "none"
    /\ at[j] = "ready"
    /\ Cardinality(Unacked(w)) < Concurrency
    /\ at' = [at EXCEPT ![j] = w]
    /\ deliveries' = [deliveries EXCEPT ![j] = @ + 1]
    /\ inbox' = [inbox EXCEPT ![w] = @ \cup {[job |-> j, tag |-> deliveries[j] + 1]}]
    /\ UNCHANGED <<results, followups, deadLetters, started, link, wire, workerVars, bounds>>

\* What the broker does with one frame.
Routed(f) ==
    /\ results' = IF f.op = "result"
                  THEN [results EXCEPT ![f.job] = @ \cup {f.verdict}] ELSE results
    /\ followups' = IF f.op = "llm" THEN followups \cup {f.job} ELSE followups
    /\ deadLetters' = IF f.op = "dlq" THEN deadLetters \cup {f.job} ELSE deadLetters
    /\ started' = IF f.op = "lifecycle" THEN started \cup {f.job} ELSE started
    /\ at' = CASE f.op = "ack"  -> [at EXCEPT ![f.job] = "settled"]
               [] f.op = "nack" -> [at EXCEPT ![f.job] = "ready"]
               [] OTHER         -> at

Receive(w) ==
    /\ link[w] = "up"
    /\ wire[w] # <<>>
    /\ wire' = [wire EXCEPT ![w] = Tail(@)]
    /\ Routed(Head(wire[w]))
    /\ UNCHANGED <<deliveries, link, inbox, workerVars, bounds>>

\* The connection is lost on the broker's side; unread frames are lost with it.
Drop(w) ==
    /\ link[w] = "up"
    /\ drops < MaxDrops
    /\ drops' = drops + 1
    /\ link' = [link EXCEPT ![w] = "half"]
    /\ at' = Requeued(w, {})
    /\ UNCHANGED <<deliveries, results, followups, deadLetters, started, wire, inbox,
                   workerVars, faults, crashes>>
-----------------------------------------------------------------------------
(* The connection, as the worker sees it.                                   *)

Connected(w) == link[w] \in {"up", "half"}

\* connect() after the start of the process or after main() waited 5 seconds.
Connect(w) ==
    /\ link[w] = "down"
    /\ stop[w] = "none"
    /\ current[w] = Idle
    /\ link' = [link EXCEPT ![w] = "up"]
    /\ UNCHANGED <<brokerVars, wire, inbox, workerVars, bounds>>

LinkLost(w) ==
    /\ link' = [link EXCEPT ![w] = "down"]
    /\ wire' = [wire EXCEPT ![w] = <<>>]
    /\ inbox' = [inbox EXCEPT ![w] = {}]

\* start_consuming raises, by itself or out of a _finish_future whose channel
\* call failed (its entry is popped by then); main() will reconnect.  Callbacks
\* scheduled on the old connection never run, their entries stay.
LoopRaises(w) ==
    /\ link[w] = "half"
    /\ stop[w] = "none"
    /\ current[w] = Idle
    /\ LinkLost(w)
    /\ \E popped \in {{}} \cup {{e} : e \in {f \in pending[w] : f.scheduled /\ f.open}} :
           pending' = [pending EXCEPT ![w] = Closed(@ \ popped)]
    /\ UNCHANGED <<brokerVars, current, pool, stop, row, bounds>>
-----------------------------------------------------------------------------
(* _complete_delivery and _handle_processing_exception.                      *)

Write(w, frames) == wire' = [wire EXCEPT ![w] = @ \o frames]
Record(w, d, s)  == row' = [row EXCEPT ![w][d.job] = s]

\* n channel calls raised although the channel is still open.
Fault(n) == faults + n <= MaxFaults /\ faults' = faults + n

\* Mutation: a redelivered message is discarded without a copy.
GiveUpDiscards(w, d, sent, s) ==
    \/ ~Redelivered(d) /\ Write(w, sent \o <<Send("nack", d)>>) /\ Record(w, d, s)
    \/ Redelivered(d) /\ Write(w, sent \o <<Send("ack", d)>>) /\ Record(w, d, "error")

\* Mutation: a dead-lettered job is not recorded as an error.
GiveUpUnrecorded(w, d, sent, s) ==
    /\ Record(w, d, s)
    /\ \/ ~Redelivered(d) /\ Write(w, sent \o <<Send("nack", d)>>)
       \/ Redelivered(d) /\ Write(w, sent \o <<Send("dlq", d), Send("ack", d)>>)

\* _handle_processing_exception on an open channel, `sent` being the frames the
\* delivery had written by then and `s` the status its job has in the history.
\* The first delivery is given back; a redelivered message is dead-lettered,
\* and given back if that fails in turn.
GiveUp(w, d, sent, s) ==
    \/ /\ ~Redelivered(d)
       /\ Write(w, sent \o <<Send("nack", d)>>)
       /\ Record(w, d, s)
    \/ /\ Redelivered(d)
       /\ Write(w, sent \o <<Send("dlq", d), Send("ack", d)>>)
       /\ Record(w, d, "error")

\* The dead-letter publish, or the ack after it, raises as well.
GiveUpFails(w, d, sent, s) ==
    /\ Redelivered(d)
    /\ \/ Write(w, sent \o <<Send("nack", d)>>) /\ Record(w, d, s)
       \/ Write(w, sent \o <<Send("dlq", d), Send("nack", d)>>) /\ Record(w, d, "error")

\* The whole of _handle_processing_exception after n raising calls.
HandleException(w, d, sent, s, n) ==
    \/ Fault(n) /\ GiveUp(w, d, sent, s)
    \/ Fault(n + 1) /\ GiveUpFails(w, d, sent, s)

Answer(d, v)   == <<Frame("result", d, v)>>
FollowUp(d, v) == IF v = "ok" /\ d.job \in LlmJobs THEN <<Send("llm", d)>> ELSE <<>>

\* Mutation: the delivery is acknowledged before its result is published.
CompleteAcksFirst(w, d, v) ==
    /\ Fault(0)
    /\ Write(w, <<Send("ack", d)>> \o Answer(d, v) \o FollowUp(d, v))
    /\ Record(w, d, v)

\* _complete_delivery on an open channel: result, follow-up, history, ack.  A
\* follow-up that cannot be published is swallowed; a result or an ack that
\* cannot is handled as an exception.
Complete(w, d, v) ==
    \/ /\ Fault(0)
       /\ Write(w, Answer(d, v) \o FollowUp(d, v) \o <<Send("ack", d)>>)
       /\ Record(w, d, v)
    \/ /\ Fault(1)
       /\ Write(w, Answer(d, v) \o <<Send("ack", d)>>)
       /\ Record(w, d, v)
       /\ FollowUp(d, v) # <<>>
    \/ HandleException(w, d, <<>>, row[w][d.job], 1)
    \/ HandleException(w, d, Answer(d, v) \o FollowUp(d, v), v, 1)
    \/ HandleException(w, d, Answer(d, v), v, 2) /\ FollowUp(d, v) # <<>>
-----------------------------------------------------------------------------
(* The callbacks of the event loop.                                         *)

LoopRuns(w) == Connected(w) /\ stop[w] = "none" /\ current[w] = Idle

Announce(d) == IF Lifecycle THEN <<Send("lifecycle", d)>> ELSE <<>>

Take(w, d) ==
    /\ LoopRuns(w)
    /\ d \in inbox[w]
    /\ inbox' = [inbox EXCEPT ![w] = @ \ {d}]

\* _on_extraction_message: announce the job, record it, start its extraction.
OnExtractionMessage(w, d) ==
    /\ Take(w, d)
    /\ pool[w] # "broken"
    /\ Write(w, Announce(d))
    /\ Record(w, d, "processing")
    /\ IF Inline
       THEN current' = [current EXCEPT ![w] = d] /\ UNCHANGED <<pending, pool>>
       ELSE /\ pending' = [pending EXCEPT ![w] = @ \cup
                              {[delivery |-> d, open |-> TRUE,
                                future |-> "running", scheduled |-> FALSE]}]
            /\ pool' = [pool EXCEPT ![w] = "ready"]
            /\ UNCHANGED current
    /\ UNCHANGED <<brokerVars, link, stop, bounds>>

\* Publishing the lifecycle message raises.
AnnounceFails(w, d) ==
    /\ Take(w, d)
    /\ Lifecycle
    /\ HandleException(w, d, <<>>, row[w][d.job], 1)
    /\ UNCHANGED <<brokerVars, link, current, pending, pool, stop, drops, crashes>>

\* submit raises on a broken pool, which is never replaced.
SubmitFails(w, d) ==
    /\ Take(w, d)
    /\ pool[w] = "broken"
    /\ HandleException(w, d, Announce(d), "processing", 0)
    /\ UNCHANGED <<brokerVars, link, current, pending, pool, stop, drops, crashes>>

\* Mutation: a failed extraction is logged and its delivery left as it is.
InlineFinishesSilently(w, v) ==
    /\ current[w] # Idle
    /\ Connected(w)
    /\ stop[w] = "none"
    /\ IF v = "error" THEN UNCHANGED <<wire, row, faults>> ELSE Complete(w, current[w], v)
    /\ current' = [current EXCEPT ![w] = Idle]
    /\ UNCHANGED <<brokerVars, link, inbox, pending, pool, stop, drops, crashes>>

\* The inline extraction returns and its delivery is completed.
InlineFinishes(w, v) ==
    /\ current[w] # Idle
    /\ Connected(w)
    /\ stop[w] = "none"
    /\ Complete(w, current[w], v)
    /\ current' = [current EXCEPT ![w] = Idle]
    /\ UNCHANGED <<brokerVars, link, inbox, pending, pool, stop, drops, crashes>>

\* The inline extraction returns to a lost or closed channel: the exception goes
\* through _handle_processing_exception up to main().
InlineRaises(w) ==
    /\ current[w] # Idle
    /\ link[w] \in {"half", "down"}
    /\ stop[w] \in {"none", "stopped"}
    /\ LinkLost(w)
    /\ current' = [current EXCEPT ![w] = Idle]
    /\ UNCHANGED <<brokerVars, pending, pool, stop, row, bounds>>

\* Mutation: the result is taken without asking for the exception first.
FinishUnchecked(w, e) ==
    /\ pending' = [pending EXCEPT ![w] = @ \ {e}]
    /\ Complete(w, e.delivery, e.future)

\* _finish_future for the entry e: its result is answered, or its exception handled.
Finish(w, e) ==
    /\ pending' = [pending EXCEPT ![w] = @ \ {e}]
    /\ IF e.future = "broken"
       THEN HandleException(w, e.delivery, <<>>, row[w][e.delivery.job], 0)
       ELSE Complete(w, e.delivery, e.future)

\* A callback scheduled with add_callback_threadsafe runs on the event loop.
FinishFuture(w, e) ==
    /\ LoopRuns(w)
    /\ e \in pending[w]
    /\ e.scheduled /\ e.open
    /\ Finish(w, e)
    /\ UNCHANGED <<brokerVars, link, inbox, current, pool, stop, drops, crashes>>
-----------------------------------------------------------------------------
(* The process pool and its management thread.                              *)

Replace(w, e, new) == pending' = [pending EXCEPT ![w] = (@ \ {e}) \cup {new}]

UnchangedByPool == UNCHANGED <<brokerVars, linkVars, current, stop, row, drops, crashes>>

ChildFinishes(w, e, v) ==
    /\ e \in pending[w]
    /\ e.future = "running"
    /\ Replace(w, e, [e EXCEPT !.future = v])
    /\ UNCHANGED <<pool, faults>>
    /\ UnchangedByPool

\* A child dies: BrokenProcessPool for every future that is not done.
PoolBreaks(w) ==
    /\ pool[w] = "ready"
    /\ stop[w] \in {"none", "draining"}
    /\ Fault(1)
    /\ pool' = [pool EXCEPT ![w] = "broken"]
    /\ pending' = [pending EXCEPT ![w] =
                       {IF e.future = "running" THEN [e EXCEPT !.future = "broken"] ELSE e : e \in @}]
    /\ UnchangedByPool

\* _on_future_done: schedule the completion, or drop it when the delivery's
\* channel is closed.  It leaves the entry to the drain when stop() has begun.
OnFutureDone(w, e) ==
    /\ e \in pending[w]
    /\ e.future # "running" /\ ~e.scheduled
    /\ stop[w] = "none"
    /\ IF e.open
       THEN Replace(w, e, [e EXCEPT !.scheduled = TRUE])
       ELSE pending' = [pending EXCEPT ![w] = @ \ {e}]
    /\ UNCHANGED <<pool, faults>>
    /\ UnchangedByPool
-----------------------------------------------------------------------------
(* Graceful stop and crash.                                                 *)

\* The signal handler calls stop(): consuming is cancelled, which gives the
\* deliveries whose callback has not run back to the broker.
Signal(w) ==
    /\ w \in Stoppable
    /\ stop[w] = "none"
    /\ stop' = [stop EXCEPT ![w] = "draining"]
    /\ inbox' = [inbox EXCEPT ![w] = {}]
    /\ at' = [j \in Jobs |-> IF j \in {d.job : d \in inbox[w]} /\ link[w] = "up"
                             THEN "ready" ELSE at[j]]
    /\ UNCHANGED <<deliveries, results, followups, deadLetters, started, link, wire,
                   current, pending, pool, row, bounds>>

\* Mutation: the drain waits for the callback of each future, which only the event
\* loop could run.
DrainAwaitsCallback(w, e) ==
    /\ stop[w] = "draining"
    /\ Connected(w)
    /\ e \in pending[w]
    /\ e.scheduled /\ e.open
    /\ Finish(w, e)
    /\ UNCHANGED <<brokerVars, link, inbox, current, pool, stop, drops, crashes>>

\* _drain_pending_futures waits for a future and finishes it in place.
DrainFinishes(w, e) ==
    /\ stop[w] = "draining"
    /\ Connected(w)
    /\ e \in pending[w]
    /\ e.future # "running" /\ e.open
    /\ Finish(w, e)
    /\ UNCHANGED <<brokerVars, link, inbox, current, pool, stop, drops, crashes>>

\* The process is gone; its connection closes and the broker requeues the rest.
ProcessGone(w) ==
    /\ LinkLost(w)
    /\ at' = IF link[w] = "up" THEN Requeued(w, {}) ELSE at
    /\ current' = [current EXCEPT ![w] = Idle]
    /\ pending' = [pending EXCEPT ![w] = {}]
    /\ pool' = [pool EXCEPT ![w] = "none"]
    /\ UNCHANGED <<deliveries, results, followups, deadLetters, started, row, faults, drops>>

\* Finishing an entry whose channel is closed raises out of the signal handler,
\* and the process exits without draining the other entries.
DrainAborts(w, e) ==
    /\ stop[w] = "draining"
    /\ e \in pending[w]
    /\ e.future # "running"
    /\ ~e.open \/ link[w] = "half"
    /\ stop' = [stop EXCEPT ![w] = "aborted"]
    /\ ProcessGone(w)
    /\ UNCHANGED crashes

\* Mutation: the pool is shut down without waiting for its futures.
DrainSkipped(w) ==
    /\ stop[w] = "draining"
    /\ stop' = [stop EXCEPT ![w] = "closing"]
    /\ pool' = [pool EXCEPT ![w] = "none"]
    /\ UNCHANGED <<brokerVars, linkVars, current, pending, row, bounds>>

DrainEnds(w) ==
    /\ stop[w] = "draining"
    /\ pending[w] = {}
    /\ stop' = [stop EXCEPT ![w] = "closing"]
    /\ pool' = [pool EXCEPT ![w] = "none"]
    /\ UNCHANGED <<brokerVars, linkVars, current, pending, row, bounds>>

\* connection.close() is an orderly close: the broker has read every frame.
CloseConnection(w) ==
    /\ stop[w] = "closing"
    /\ link[w] = "up" => wire[w] = <<>>
    /\ stop' = [stop EXCEPT ![w] = "stopped"]
    /\ LinkLost(w)
    /\ at' = IF link[w] = "up" THEN Requeued(w, {}) ELSE at
    /\ UNCHANGED <<deliveries, results, followups, deadLetters, started,
                   current, pending, pool, row, bounds>>

\* The process dies at any moment; the container restarts it.
Crash(w) ==
    /\ stop[w] \in {"none", "draining", "closing"}
    /\ crashes < MaxCrashes
    /\ crashes' = crashes + 1
    /\ stop' = [stop EXCEPT ![w] = "none"]
    /\ ProcessGone(w)
-----------------------------------------------------------------------------
EventLoop(w) ==
    \/ Connect(w)
    \/ LoopRaises(w)
    \/ \E d \in inbox[w] : OnExtractionMessage(w, d) \/ AnnounceFails(w, d) \/ SubmitFails(w, d)
    \/ \E v \in Verdicts : InlineFinishes(w, v)
    \/ InlineRaises(w)
    \/ \E e \in pending[w] : FinishFuture(w, e) \/ DrainFinishes(w, e) \/ DrainAborts(w, e)
    \/ DrainEnds(w)
    \/ CloseConnection(w)

Pool(w) ==
    \E e \in pending[w] : OnFutureDone(w, e) \/ \E v \in Verdicts : ChildFinishes(w, e, v)

Next ==
    \/ \E w \in Workers, j \in Jobs : Deliver(w, j)
    \/ \E w \in Workers :
           \/ Receive(w) \/ EventLoop(w) \/ Pool(w)
           \/ Drop(w) \/ PoolBreaks(w) \/ Signal(w) \/ Crash(w)

Spec == Init /\ [][Next]_vars

\* The broker keeps delivering and reading, every process runs its event loop and
\* every extraction ends (handle_extract_job has a timeout).  Nothing is assumed
\* of drops, breakages, signals and crashes.
Fairness ==
    /\ \A j \in Jobs : WF_vars(\E w \in Workers : Deliver(w, j))
    /\ \A w \in Workers : WF_vars(Receive(w)) /\ WF_vars(EventLoop(w)) /\ WF_vars(Pool(w))

FairSpec == Spec /\ Fairness
-----------------------------------------------------------------------------
(* Properties.                                                              *)

\* Every variable has its type.
TypeOK ==
    /\ at \in [Jobs -> Workers \cup {"ready", "settled"}]
    /\ deliveries \in [Jobs -> Nat]
    /\ results \in [Jobs -> SUBSET Verdicts]
    /\ followups \subseteq Jobs /\ deadLetters \subseteq Jobs /\ started \subseteq Jobs
    /\ link \in [Workers -> {"up", "half", "down"}]
    /\ wire \in [Workers -> Seq(Frames)]
    /\ inbox \in [Workers -> SUBSET Deliveries]
    /\ current \in [Workers -> Deliveries \cup {Idle}]
    /\ pending \in [Workers -> SUBSET Entries]
    /\ pool \in [Workers -> {"none", "ready", "broken"}]
    /\ stop \in [Workers -> {"none", "draining", "closing", "stopped", "aborted"}]
    /\ row \in [Workers -> [Jobs -> {"none", "processing"} \cup Verdicts]]
    /\ faults \in Nat /\ drops \in Nat /\ crashes \in Nat

\* A job message leaves the queue for good only with a result or a copy in the
\* dead-letter queue, although nothing confirms a publish: the acknowledgement
\* that settles it is written behind the answer on the same channel
\* (_complete_delivery and _handle_processing_exception).
SettledIsAnswered ==
    \A j \in Jobs : at[j] = "settled" => results[j] # {} \/ j \in deadLetters

\* The deliveries that something in the worker will still answer or give back,
\* and those whose ack or nack is on its way.
Held(w) == inbox[w] \cup ({current[w]} \ {Idle})
                    \cup {e.delivery : e \in {f \in pending[w] : f.open}}
SettleFrames(w) == {i \in DOMAIN wire[w] : wire[w][i].op \in {"ack", "nack"}}
Settling(w)     == {[job |-> wire[w][i].job, tag |-> wire[w][i].tag] : i \in SettleFrames(w)}
Outstanding(w)  == {[job |-> j, tag |-> deliveries[j]] : j \in Unacked(w)}

\* On a working connection the worker and the broker agree on what is
\* outstanding: no delivery is forgotten (it would be stuck until the connection
\* ends), none is acknowledged twice, and no acknowledgement is for a delivery of
\* an earlier connection or one that was given to somebody else.
EveryDeliveryHasOneOwner ==
    \A w \in Workers : link[w] = "up" =>
        /\ Held(w) \cup Settling(w) = Outstanding(w)
        /\ Held(w) \cap Settling(w) = {}
        /\ Cardinality(SettleFrames(w)) = Cardinality(Settling(w))

\* Crashes, lost connections and signals alone never dead-letter a job: it takes
\* an exception on an open channel, and a message that had been delivered before.
DeadLetterIsLastResort ==
    /\ faults = 0 => deadLetters = {}
    /\ \A j \in deadLetters : deliveries[j] > 1

\* Once a job is settled, the history of some replica shows it as finished: a
\* stale execution on another connection never hides that.
SettledJobHasTerminalRow ==
    \A j \in Jobs : at[j] = "settled" => \E w \in Workers : row[w][j] \in Verdicts

\* A stop that drained its futures gives no extracted job back to the queue: only
\* the delivery that the signal interrupted inline is redelivered.
DrainedStopHoldsNothing ==
    \A w \in Workers :
        stop[w] = "closing" /\ link[w] = "up" /\ wire[w] = <<>> =>
            Unacked(w) \subseteq {current[w].job}

\* The consumers implement at-least-once delivery of every job, safety and, while
\* some replica is not stopped, liveness.
Delivery == INSTANCE JobDelivery WITH
    answers <- [j \in Jobs |-> results[j] \cup (IF j \in deadLetters THEN {"dead_letter"} ELSE {})],
    settled <- {j \in Jobs : at[j] = "settled"}

ImplementsDelivery == Delivery!Spec
EveryJobIsDelivered == Delivery!FairSpec

\* stop() ends, one way or the other: the drain waits only for futures that will
\* be done.
StopTerminates ==
    \A w \in Workers : stop[w] = "draining" ~> stop[w] \in {"stopped", "aborted", "none"}
=============================================================================
