---------------------------- MODULE WorkerShutdown ----------------------------
(***************************************************************************)
(* How a worker process ends.  main() connects, runs the event loop and    *)
(* reconnects; SIGTERM runs a handler on the main thread, between any two  *)
(* bytecodes of whatever is there, and another SIGTERM interrupts the      *)
(* handler.  Module WorkerConsumer takes a callback for one step; here the *)
(* main thread is a stack of frames, main() below and a handler for every  *)
(* signal on top, and one frame takes one statement at a time.             *)
(*                                                                         *)
(* The threads share locks that are not reentrant.  Other threads hold     *)
(* them for a moment and are left out, but a frame that holds one cannot   *)
(* let go of it while a handler runs on top.                               *)
(*                                                                         *)
(* A delivery and its future have one name; the pool is used (concurrency  *)
(* above 1).  RabbitMQ and pika are external.                              *)
(***************************************************************************)
EXTENDS Naturals, Sequences, FiniteSets

CONSTANTS
    Deliveries,   \* the messages that the worker may be given
    Concurrency,  \* WORKER_CONCURRENCY
    None,         \* no delivery
    MaxSignals,   \* bound on the signals
    MaxLosses     \* bound on lost connections and failing connects

ASSUME ShutdownAssumption ==
    /\ Concurrency \in Nat \ {0}
    /\ None \notin Deliveries
    /\ MaxSignals \in Nat /\ MaxLosses \in Nat

VARIABLES
    stack,       \* the main thread: the innermost frame is the one that runs
    lock,        \* the depth of the frame that holds each lock, or 0
    shutdown,    \* shutdown_event
    stopping,    \* _stopping
    connection,  \* _connection: none, open or closed
    channel,     \* _channel, likewise
    consuming,   \* the channel has consumers
    future,      \* new, taken (no future yet), running or done
    live,        \* deliveries whose channel is open
    pending,     \* _pending_deliveries
    hooked,      \* futures whose _on_future_done is still to run
    asked,       \* futures for which it has read _stopping, which was false
    executor,    \* _executor: none, up, or down (shut down)
    scheduled,   \* futures whose _finish_future the event loop will run
    answers,     \* how often a result was published for each delivery
    settled,     \* the deliveries that were acknowledged or given back by a nack
    signals, losses,
    caught       \* history: what signals found that keeps them from ending the process

brokerVars == <<connection, channel, consuming, live, scheduled, losses>>
futureVars == <<future, pending, hooked, asked>>
answerVars == <<answers, settled>>
flagVars   == <<shutdown, stopping, executor, signals, caught>>
vars       == <<stack, lock, brokerVars, futureVars, answerVars, flagVars>>

Locks    == {"event", "health", "pending", "pool"}
Frame(s) == [at |-> s, inside |-> FALSE, job |-> None, left |-> {}]

Init ==
    /\ stack = <<Frame("check")>>
    /\ lock = [l \in Locks |-> 0]
    /\ shutdown = FALSE /\ stopping = FALSE /\ executor = "none"
    /\ connection = "none" /\ channel = "none" /\ consuming = FALSE
    /\ future = [d \in Deliveries |-> "new"]
    /\ live = {} /\ pending = {} /\ hooked = {} /\ asked = {} /\ scheduled = {}
    /\ answers = [d \in Deliveries |-> 0]
    /\ settled = {}
    /\ signals = 0 /\ losses = 0 /\ caught = {}

Depth  == Len(stack)
Top    == stack[Depth]
IsMain == Depth = 1
Exited == stack[1].at = "exited"

At(s)   == Top.at = s /\ ~Top.inside
Goto(s) == stack' = [stack EXCEPT ![Depth].at = s]
-----------------------------------------------------------------------------
(* Critical sections: `with' and what the library locks inside of a call.   *)

\* The statements that take a lock, and which.
Section ==
    [latch |-> "health",  relatch  |-> "health",  unlatch |-> "health",
     add   |-> "pending", schedule |-> "pending", pop     |-> "pending", drain |-> "pending",
     set   |-> "event",   wait     |-> "event",   waiting |-> "event",
     submit |-> "pool",   shut_pool |-> "pool"]

\* What follows those, and other statements, that change nothing else here.
After ==
    [latch |-> "start", relatch |-> "wait", unlatch |-> "cancel", wait |-> "waiting",
     waiting |-> "check", record |-> "ensure", put |-> "ack", close_store |-> "exited"]

\* An executor that takes no work, or is gone, is not locked.
Enter ==
    /\ Top.at \in DOMAIN Section /\ ~Top.inside
    /\ lock[Section[Top.at]] = 0
    /\ Top.at = "submit" => executor = "up"
    /\ Top.at = "shut_pool" => executor # "none"
    /\ lock' = [lock EXCEPT ![Section[Top.at]] = Depth]
    /\ stack' = [stack EXCEPT ![Depth].inside = TRUE]
    /\ UNCHANGED <<brokerVars, futureVars, answerVars, flagVars>>

\* The frame that runs leaves its section and becomes `frame'.
LeaveAs(frame) ==
    /\ lock' = [lock EXCEPT ![Section[Top.at]] = 0]
    /\ stack' = [stack EXCEPT ![Depth] = [frame EXCEPT !.inside = FALSE]]

LeaveTo(s) == LeaveAs([Top EXCEPT !.at = s])

Inside(s) == Top.at = s /\ Top.inside

Leave ==
    /\ Top.inside
    /\ Top.at \in DOMAIN After
    /\ LeaveTo(After[Top.at])
    /\ UNCHANGED <<brokerVars, futureVars, answerVars, flagVars>>

\* stats.record_job, whose SimpleQueue is reentrant, and job_store.stop().
Work ==
    /\ Top.at \in DOMAIN After \ DOMAIN Section
    /\ Goto(After[Top.at])
    /\ UNCHANGED <<lock, brokerVars, futureVars, answerVars, flagVars>>
-----------------------------------------------------------------------------
(* main(), connect() and start().                                           *)

\* Mutation: the loop of main() does not look at the event.
CheckForever ==
    /\ At("check")
    /\ Goto("connect")
    /\ UNCHANGED <<lock, brokerVars, futureVars, answerVars, flagVars>>

\* while not shutdown_event.is_set()
Check ==
    /\ At("check")
    /\ Goto(IF shutdown THEN "close_store" ELSE "connect")
    /\ UNCHANGED <<lock, brokerVars, futureVars, answerVars, flagVars>>

\* connect() begins.
Connect ==
    /\ At("connect")
    /\ stopping' = FALSE
    /\ Goto("dial")
    /\ UNCHANGED <<lock, brokerVars, futureVars, answerVars, shutdown, executor, signals, caught>>

Lose == losses < MaxLosses /\ losses' = losses + 1

\* pika.BlockingConnection(params)
Dial ==
    /\ At("dial")
    /\ \/ connection' = "open" /\ Goto("declare") /\ UNCHANGED losses
       \/ Lose /\ Goto("except") /\ UNCHANGED connection
    /\ UNCHANGED <<lock, channel, consuming, live, scheduled, futureVars, answerVars, flagVars>>

\* connection.channel() and the rest of connect(), which raise on a closed connection.
Declare ==
    /\ At("declare")
    /\ channel' = connection
    /\ consuming' = FALSE
    /\ Goto(IF connection = "open" THEN "latch" ELSE "except")
    /\ UNCHANGED <<lock, connection, live, scheduled, losses, futureVars, answerVars, flagVars>>

\* _ensure_executor leaves an executor alone that was shut down.
EnsureExecutor == executor' = IF executor = "none" THEN "up" ELSE executor

\* start()
Start ==
    /\ At("start")
    /\ EnsureExecutor
    /\ consuming' = (channel = "open")
    /\ Goto(IF channel = "open" THEN "loop" ELSE "except")
    /\ UNCHANGED <<lock, connection, channel, live, scheduled, losses, futureVars, answerVars,
                   shutdown, stopping, signals, caught>>

\* start_consuming returns without consumers, or raises on a closed connection.
LoopEnds ==
    /\ At("loop")
    /\ \/ ~consuming /\ Goto("check")
       \/ connection = "closed" /\ Goto("except")
    /\ UNCHANGED <<lock, brokerVars, futureVars, answerVars, flagVars>>

\* except Exception; the wait for 5 seconds is relatch, wait, waiting.
Except ==
    /\ At("except")
    /\ Goto(IF shutdown THEN "close_store" ELSE "relatch")
    /\ UNCHANGED <<lock, brokerVars, futureVars, answerVars, flagVars>>

Gone == connection' = "closed" /\ channel' = "closed" /\ live' = {} /\ scheduled' = {}

ConnectionLost ==
    /\ connection = "open" /\ ~Exited
    /\ Lose
    /\ Gone
    /\ UNCHANGED <<stack, lock, consuming, futureVars, answerVars, flagVars>>
-----------------------------------------------------------------------------
(* The callbacks of the event loop.                                         *)

\* _on_extraction_message begins: the processing event is recorded first.
OnExtractionMessage(d) ==
    /\ At("loop")
    /\ channel = "open" /\ consuming
    /\ future[d] = "new"
    /\ Cardinality(live \ settled) < Concurrency
    /\ future' = [future EXCEPT ![d] = "taken"]
    /\ live' = live \cup {d}
    /\ stack' = [stack EXCEPT ![Depth].at = "record", ![Depth].job = d]
    /\ UNCHANGED <<lock, connection, channel, consuming, scheduled, losses, pending, hooked, asked,
                   answerVars, flagVars>>

Ensure ==
    /\ At("ensure")
    /\ EnsureExecutor
    /\ Goto("submit")
    /\ UNCHANGED <<lock, brokerVars, futureVars, answerVars, shutdown, stopping, signals, caught>>

Submit ==
    /\ Inside("submit")
    /\ future' = [future EXCEPT ![Top.job] = "running"]
    /\ LeaveTo("add")
    /\ UNCHANGED <<brokerVars, pending, hooked, asked, answerVars, flagVars>>

\* self._pending_deliveries[future] = ...
Add ==
    /\ Inside("add")
    /\ pending' = pending \cup {Top.job}
    /\ LeaveTo("hook")
    /\ UNCHANGED <<brokerVars, future, hooked, asked, answerVars, flagVars>>

\* The callback ends.
EndCallback == stack' = [stack EXCEPT ![Depth].at = "loop", ![Depth].job = None]

\* Mutation: a future that is already done is not looked at.
HookIfRunning ==
    /\ At("hook")
    /\ hooked' = IF future[Top.job] = "running" THEN hooked \cup {Top.job} ELSE hooked
    /\ EndCallback
    /\ UNCHANGED <<lock, brokerVars, future, pending, asked, answerVars, flagVars>>

\* add_done_callback, which runs _on_future_done at once for a future that is done.
Hook ==
    /\ At("hook")
    /\ IF future[Top.job] = "running"
       THEN hooked' = hooked \cup {Top.job} /\ EndCallback
       ELSE hooked' = hooked /\ IF stopping THEN EndCallback ELSE Goto("schedule")
    /\ UNCHANGED <<lock, brokerVars, future, pending, asked, answerVars, flagVars>>

\* The completion of an entry is scheduled, or the entry is dropped.
ScheduleOrDrop(d) ==
    /\ scheduled' = IF d \in pending \cap live THEN scheduled \cup {d} ELSE scheduled
    /\ pending' = IF d \in live THEN pending ELSE pending \ {d}
    /\ UNCHANGED <<connection, channel, consuming, live, losses, future, answerVars, flagVars>>

ScheduleAtOnce ==
    /\ Inside("schedule")
    /\ ScheduleOrDrop(Top.job)
    /\ LeaveAs([Top EXCEPT !.at = "loop", !.job = None])
    /\ UNCHANGED <<hooked, asked>>

\* The event loop runs a _finish_future that was scheduled.
RunScheduled(d) ==
    /\ At("loop")
    /\ d \in scheduled
    /\ scheduled' = scheduled \ {d}
    /\ stack' = [stack EXCEPT ![Depth].at = "pop", ![Depth].job = d]
    /\ UNCHANGED <<lock, connection, channel, consuming, live, losses, futureVars, answerVars,
                   flagVars>>
-----------------------------------------------------------------------------
(* _finish_future, in a callback of the event loop or in the drain.         *)

\* Where a frame goes on behind _finish_future.
Return(frame, depth) ==
    [frame EXCEPT !.at = IF depth = 1 THEN "loop" ELSE "next", !.inside = FALSE, !.job = None]

\* Mutation: the delivery is looked up and stays.
PopKeeps ==
    /\ Inside("pop")
    /\ IF Top.job \in pending THEN LeaveTo("complete") ELSE LeaveAs(Return(Top, Depth))
    /\ UNCHANGED <<brokerVars, futureVars, answerVars, flagVars>>

\* _pop_pending_delivery; somebody else may have it by now.
Pop ==
    /\ Inside("pop")
    /\ IF Top.job \in pending THEN LeaveTo("complete") ELSE LeaveAs(Return(Top, Depth))
    /\ pending' = pending \ {Top.job}
    /\ UNCHANGED <<brokerVars, future, hooked, asked, answerVars, flagVars>>

\* future.result() and the publishes of _complete_delivery.  On a closed channel they
\* raise, and so does _handle_processing_exception.
Complete ==
    /\ At("complete")
    /\ future[Top.job] = "done"
    /\ IF Top.job \in live
       THEN answers' = [answers EXCEPT ![Top.job] = @ + 1] /\ Goto("put")
       ELSE UNCHANGED answers /\ Goto("raising")
    /\ UNCHANGED <<lock, brokerVars, futureVars, settled, flagVars>>

\* The frame settles its delivery and goes on; on a closed channel that raises.
Settle ==
    IF Top.job \in live
    THEN /\ settled' = settled \cup {Top.job}
         /\ stack' = [stack EXCEPT ![Depth] = Return(Top, Depth)]
    ELSE UNCHANGED settled /\ Goto("raising")

\* submit raises behind a handler that has shut the executor down, and
\* _handle_processing_exception settles the delivery.
SubmitFails ==
    /\ At("submit")
    /\ executor # "up"
    /\ Settle
    /\ UNCHANGED <<lock, brokerVars, futureVars, answers, flagVars>>

\* RabbitMQ closes a channel on which a delivery is settled twice.  That needs an exception
\* out of a handler, and the worker is stopping then: the closing is left out.
Ack ==
    /\ At("ack")
    /\ Settle
    /\ UNCHANGED <<lock, brokerVars, futureVars, answers, flagVars>>
-----------------------------------------------------------------------------
(* The signal handler: shutdown_event.set() and stop().                     *)

\* Nothing of main() sees a signal between its check of the event and the connection
\* that it then opens; a handler that wants a lock of a frame below it waits for ever.
Caught ==
    {"unseen" : s \in {stack[1].at} \cap {"connect", "dial"}}
        \cup {"locked" : l \in {k \in Locks : lock[k] # 0}}

Signal ==
    /\ ~Exited
    /\ signals < MaxSignals
    /\ signals' = signals + 1
    /\ caught' = caught \cup Caught
    /\ stack' = Append(stack, Frame("set"))
    /\ UNCHANGED <<lock, brokerVars, futureVars, answerVars, shutdown, stopping, executor>>

Set ==
    /\ Inside("set")
    /\ shutdown' = TRUE
    /\ LeaveTo("unlatch")
    /\ UNCHANGED <<brokerVars, futureVars, answerVars, stopping, executor, signals, caught>>

\* Mutation: the pool is shut down without a drain.
CancelOnly ==
    /\ At("cancel")
    /\ stopping' = TRUE
    /\ consuming' = (consuming /\ channel # "open")
    /\ Goto("shut_pool")
    /\ UNCHANGED <<lock, connection, channel, live, scheduled, losses, futureVars, answerVars,
                   shutdown, executor, signals, caught>>

\* _stopping = True and stop_consuming().
Cancel ==
    /\ At("cancel")
    /\ stopping' = TRUE
    /\ consuming' = (consuming /\ channel # "open")
    /\ Goto("drain")
    /\ UNCHANGED <<lock, connection, channel, live, scheduled, losses, futureVars, answerVars,
                   shutdown, executor, signals, caught>>

\* _drain_pending_futures copies the futures there are ...
Drain ==
    /\ Inside("drain")
    /\ LeaveAs([Top EXCEPT !.at = IF pending = {} THEN "shut_pool" ELSE "next", !.left = pending])
    /\ UNCHANGED <<brokerVars, futureVars, answerVars, flagVars>>

\* ... finishes each of them, and looks again.
DrainNext ==
    /\ At("next")
    /\ \/ Top.left = {} /\ Goto("drain")
       \/ \E d \in Top.left :
              stack' = [stack EXCEPT ![Depth] = [Top EXCEPT !.at = "pop", !.job = d,
                                                            !.left = Top.left \ {d}]]
    /\ UNCHANGED <<lock, brokerVars, futureVars, answerVars, flagVars>>

\* executor.shutdown(wait=True) refuses further work ...
ShutPool ==
    /\ Inside("shut_pool")
    /\ executor' = "down"
    /\ LeaveTo("join")
    /\ UNCHANGED <<brokerVars, futureVars, answerVars, shutdown, stopping, signals, caught>>

NoPool ==
    /\ At("shut_pool")
    /\ executor = "none"
    /\ Goto("close")
    /\ UNCHANGED <<lock, brokerVars, futureVars, answerVars, flagVars>>

\* ... and joins the pool's thread.
Join ==
    /\ At("join")
    /\ \A d \in Deliveries : future[d] # "running"
    /\ asked = {}
    /\ executor' = "none"
    /\ Goto("close")
    /\ UNCHANGED <<lock, brokerVars, futureVars, answerVars, shutdown, stopping, signals, caught>>

\* connection.close(); the interrupted frame goes on.
Close ==
    /\ At("close")
    /\ IF connection = "open" THEN Gone ELSE UNCHANGED <<connection, channel, live, scheduled>>
    /\ stack' = SubSeq(stack, 1, Depth - 1)
    /\ UNCHANGED <<lock, consuming, losses, futureVars, answerVars, flagVars>>
-----------------------------------------------------------------------------
(* An exception.                                                            *)

\* _handle_processing_exception settles the delivery of a callback, if its channel is open.
GivenBack(frame) ==
    {d \in {frame.job} \cap live : frame.at \in {"submit", "add", "hook", "complete", "ack"}}

\* What the frame at a depth makes of an exception out of the handler that had
\* interrupted it: record_job and add_done_callback only log what comes out of them; a
\* callback hands the exception to _handle_processing_exception, except between two of
\* its try blocks; what is behind the try of main() ends the process.
Handled(frame, depth) ==
    CASE frame.at \in {"record", "put"} ->
             [frame EXCEPT !.at = After[frame.at], !.inside = FALSE]
      [] frame.at = "schedule" \/ GivenBack(frame) # {} ->
             Return(frame, depth)
      [] frame.at \in {"check", "except", "relatch", "wait", "waiting", "close_store"} ->
             [frame EXCEPT !.at = "exited", !.inside = FALSE]
      [] OTHER ->
             [frame EXCEPT !.at = "raising", !.inside = FALSE]

\* Mutation: the lock of an interrupted section is never released.
RaiseLocked ==
    /\ At("raising")
    /\ ~IsMain
    /\ LET below == stack[Depth - 1]
       IN  /\ stack' = Append(SubSeq(stack, 1, Depth - 2), Handled(below, Depth - 1))
           /\ settled' = settled \cup GivenBack(below)
    /\ UNCHANGED <<lock, brokerVars, futureVars, answers, flagVars>>

\* An exception leaves a handler and `with' releases the lock it interrupted.
Raise ==
    /\ At("raising")
    /\ ~IsMain
    /\ LET below == stack[Depth - 1]
       IN  /\ stack' = Append(SubSeq(stack, 1, Depth - 2), Handled(below, Depth - 1))
           /\ lock' = [l \in Locks |-> IF lock[l] = Depth - 1 THEN 0 ELSE lock[l]]
           /\ settled' = settled \cup GivenBack(below)
    /\ UNCHANGED <<brokerVars, futureVars, answers, flagVars>>

\* It arrives in main(), and the callback that it ended is done with its delivery.
RaiseInMain ==
    /\ At("raising")
    /\ IsMain
    /\ Goto("except")
    /\ UNCHANGED <<lock, brokerVars, futureVars, answerVars, flagVars>>
-----------------------------------------------------------------------------
(* The process pool and its thread.                                         *)

ChildEnds(d) ==
    /\ future[d] = "running"
    /\ future' = [future EXCEPT ![d] = "done"]
    /\ UNCHANGED <<stack, lock, brokerVars, pending, hooked, asked, answerVars, flagVars>>

\* _on_future_done reads _stopping ...
OnFutureDone(d) ==
    /\ d \in hooked
    /\ future[d] = "done"
    /\ hooked' = hooked \ {d}
    /\ asked' = IF stopping THEN asked ELSE asked \cup {d}
    /\ UNCHANGED <<stack, lock, brokerVars, future, pending, answerVars, flagVars>>

\* ... and goes on.
Schedule(d) ==
    /\ d \in asked
    /\ lock["pending"] = 0
    /\ asked' = asked \ {d}
    /\ ScheduleOrDrop(d)
    /\ UNCHANGED <<stack, lock, hooked>>
-----------------------------------------------------------------------------
Main ==
    \/ Enter \/ Leave \/ Work
    \/ Check \/ Connect \/ Dial \/ Declare \/ Start \/ LoopEnds \/ Except
    \/ Ensure \/ Submit \/ SubmitFails \/ Add \/ Hook \/ ScheduleAtOnce
    \/ \E d \in Deliveries : RunScheduled(d)
    \/ Pop \/ Complete \/ Ack
    \/ Set \/ Cancel \/ Drain \/ DrainNext \/ ShutPool \/ NoPool \/ Join \/ Close
    \/ Raise \/ RaiseInMain

Pool == \E d \in Deliveries : ChildEnds(d) \/ OnFutureDone(d) \/ Schedule(d)

Next ==
    \/ Main \/ Pool \/ Signal \/ ConnectionLost
    \/ \E d \in Deliveries : OnExtractionMessage(d)

Spec == Init /\ [][Next]_vars

\* Threads run, and an extraction ends by its timeout.  Nobody has to send messages or
\* signals.
FairSpec == Spec /\ WF_vars(Main) /\ WF_vars(Pool)
-----------------------------------------------------------------------------
(* Properties.                                                              *)

Places == DOMAIN Section \cup DOMAIN After
    \cup {"connect", "dial", "declare", "start", "loop", "except", "check", "cancel", "exited",
          "ensure", "hook", "complete", "ack", "next", "join", "close", "raising"}
Frames == [at : Places, inside : BOOLEAN, job : Deliveries \cup {None}, left : SUBSET Deliveries]

\* Every variable has its type, and a lock is held by the frame that is inside of a
\* section of it.
TypeOK ==
    /\ stack \in Seq(Frames) /\ Depth \in 1 .. MaxSignals + 1
    /\ \A l \in Locks : \A n \in 1 .. Depth :
           lock[l] = n <=> stack[n].inside /\ Section[stack[n].at] = l
    /\ lock \in [Locks -> 0 .. Depth]
    /\ shutdown \in BOOLEAN /\ stopping \in BOOLEAN /\ consuming \in BOOLEAN
    /\ executor \in {"none", "up", "down"}
    /\ connection \in {"none", "open", "closed"} /\ channel \in {"none", "open", "closed"}
    /\ future \in [Deliveries -> {"new", "taken", "running", "done"}]
    /\ UNION {live, pending, hooked, asked, scheduled, settled} \subseteq Deliveries
    /\ answers \in [Deliveries -> Nat]
    /\ signals \in 0 .. MaxSignals /\ losses \in 0 .. MaxLosses
    /\ caught \subseteq {"unseen", "locked"}

\* A result is published once for a delivery, whichever of the event loop and the
\* drains of interrupted handlers come to finish its future.
AnsweredOnce == \A d \in Deliveries : answers[d] <= 1

\* A handler that closes the connection gives no delivery back but those that the
\* frames it interrupted are at work on, or were until an exception ended the callback.
OnlyInterruptedIsGivenBack ==
    \A n \in 2 .. Depth :
        stack[n].at = "close" => live \ settled \subseteq {stack[k].job : k \in 1 .. n - 1}

\* tests/worker/test_main.py: main exits its loop after a signal.
SignalEndsWorker == signals > 0 ~> Exited

\* It does, unless the signal came while connect() opened the connection, or while the
\* main thread held one of the locks that the handler needs.
SignalEndsUnlessCaught == signals > 0 ~> Exited \/ caught # {}

\* An extraction that is done is answered, or its delivery goes back to the broker: its
\* completion is not lost between the pool's thread, the event loop and stop(),
\* again unless a signal is caught.
DoneIsAnswered ==
    \A d \in Deliveries :
        future[d] = "done" /\ d \in live ~> d \in settled \/ d \notin live \/ Exited \/ caught # {}
=============================================================================
