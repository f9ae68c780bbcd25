------------------------ MODULE WorkerShutdownProofs ------------------------
(***************************************************************************)
(* Proofs about WorkerShutdown for every set of deliveries and any number  *)
(* of signals, that is, of handlers that interrupt each other.             *)
(*                                                                         *)
(* AnsweredOnce is not inductive: what keeps a handler's drain and the     *)
(* callback it interrupted from publishing twice is that only one of them  *)
(* holds the delivery, in _pending_deliveries or in a frame that has taken *)
(* it from there.  OnceInv states that there is one holder at most, and    *)
(* that nothing is answered while there is one.                            *)
(*                                                                         *)
(* Proofs about what a stopping worker gives back, for every set of        *)
(* deliveries, any number of signals and of lost connections.              *)
(*                                                                         *)
(* OnlyInterruptedIsGivenBack looks at a handler that is about to close    *)
(* the connection.  Its drain found _pending_deliveries empty some steps   *)
(* before, and other handlers may have run on top of it since.  The        *)
(* invariant says who has a delivery that is not settled (HeldInv), and    *)
(* that nobody above a drained handler can get one (DrainedInv), because   *)
(* only the event loop, at the bottom, takes messages (HandlerInv).  An    *)
(* exception out of a handler may end a callback and leave its delivery to *)
(* nobody; main() then ends, and does not connect again (EndedInv), since  *)
(* the handler has set the event first (SetInv).                           *)
(***************************************************************************)
EXTENDS WorkerShutdown, SequenceTheorems, TLAPS

\* Frames that are at work on a delivery know it.
Busy       == {"record", "ensure", "submit", "add", "hook", "schedule", "pop", "complete", "put",
               "ack"}
WorkFrames == {f \in Frames : f.at \in Busy => f.job \in Deliveries}

\* Places of a handler only.
Handling == {"set", "unlatch", "cancel", "drain", "next", "shut_pool", "join", "close"}

StackInv ==
    /\ stack \in Seq(WorkFrames)
    /\ stack[1].at \notin Handling
    /\ signals \in 0 .. MaxSignals
    /\ Depth \in 1 .. signals + 1

LockInv ==
    /\ lock \in [Locks -> 0 .. Depth]
    /\ \A n \in 1 .. Depth : stack[n].inside => stack[n].at \in DOMAIN Section
    /\ \A l \in Locks : \A n \in 1 .. Depth :
           lock[l] = n <=> stack[n].inside /\ Section[stack[n].at] = l

RestInv ==
    /\ shutdown \in BOOLEAN /\ stopping \in BOOLEAN /\ consuming \in BOOLEAN
    /\ executor \in {"none", "up", "down"}
    /\ connection \in {"none", "open", "closed"} /\ channel \in {"none", "open", "closed"}
    /\ future \in [Deliveries -> {"new", "taken", "running", "done"}]
    /\ live \subseteq Deliveries /\ pending \subseteq Deliveries /\ hooked \subseteq Deliveries
    /\ asked \subseteq Deliveries /\ scheduled \subseteq Deliveries /\ settled \subseteq Deliveries
    /\ answers \in [Deliveries -> Nat]
    /\ losses \in 0 .. MaxLosses
    /\ caught \subseteq {"unseen", "locked"}

\* A frame that will put its delivery into _pending_deliveries, or has taken it out.
Claiming == {"record", "ensure", "submit", "add", "complete"}
Claims(frame, d) == frame.job = d /\ frame.at \in Claiming

Unclaimed(d) == \A n \in 1 .. Depth : ~Claims(stack[n], d)

OnceInv ==
    \A d \in Deliveries :
        /\ future[d] = "new" => d \notin pending /\ answers[d] = 0 /\ Unclaimed(d)
        /\ d \in pending => answers[d] = 0 /\ Unclaimed(d)
        /\ ~Unclaimed(d) => answers[d] = 0
        /\ \A m, n \in 1 .. Depth : Claims(stack[m], d) /\ Claims(stack[n], d) => m = n
        /\ answers[d] <= 1

Shape == StackInv /\ LockInv /\ RestInv
IInv  == Shape /\ OnceInv

-----------------------------------------------------------------------------
(* What the actions do to the stack.                                        *)

Quiet ==
    \A n \in 1 .. Depth' : \A d \in Deliveries :
        Claims(stack'[n], d) => n \in 1 .. Depth /\ Claims(stack[n], d)

\* The frame that runs becomes f.
Becomes(f) == stack' = [stack EXCEPT ![Depth] = f]

\* The places, and the sections of those that have one.
LEMMA PlaceFacts ==
    /\ DOMAIN Section = {"latch", "relatch", "unlatch", "add", "schedule", "pop", "drain", "set", "wait",
                         "waiting", "submit", "shut_pool"}
    /\ \A p \in DOMAIN Section : Section[p] \in Locks
    /\ DOMAIN After = {"latch", "relatch", "unlatch", "wait", "waiting", "record", "put", "close_store"}
    /\ \A p \in DOMAIN After :
           /\ After[p] \in Places
           /\ After[p] \in Busy => p \in Busy
           /\ After[p] \in Handling => p \in Handling
           /\ After[p] \in Claiming => p \in Claiming
BY DEF Section, After, Places, Locks, Busy, Claiming, Handling

\* A frame that goes on is a frame, with the same delivery.
LEMMA AtAnother ==
    ASSUME NEW f \in WorkFrames, NEW s \in Places, s \in Busy => f.job \in Deliveries
    PROVE  /\ [f EXCEPT !.at = s] \in WorkFrames
           /\ [f EXCEPT !.at = s].at = s
           /\ [f EXCEPT !.at = s].job = f.job
           /\ [f EXCEPT !.at = s].inside = f.inside
BY DEF WorkFrames, Frames

\* A frame in place of the one that runs.
LEMMA Replaced ==
    ASSUME StackInv, NEW f \in WorkFrames, Becomes(f)
    PROVE  /\ stack' \in Seq(WorkFrames) /\ Depth' = Depth /\ stack'[Depth] = f
           /\ \A n \in 1 .. Depth : n # Depth => stack'[n] = stack[n]
BY DEF StackInv, Depth, Becomes

\* The running frame, and where a handler cannot be.
LEMMA TopType ==
    ASSUME StackInv
    PROVE  /\ Depth \in Nat /\ Depth \in 1 .. Depth /\ Top \in WorkFrames /\ Top \in Frames
           /\ \A n \in 1 .. Depth : stack[n] \in WorkFrames
           /\ Top.at \in Handling => Depth # 1
BY DEF StackInv, Depth, Top, WorkFrames

\* A step of the running frame outside of every section, as which it remains.
LEMMA Moves ==
    ASSUME StackInv, LockInv, NEW f \in WorkFrames, Becomes(f), ~Top.inside, ~f.inside,
           f.at \in Handling => Depth # 1, lock' = lock, signals' = signals
    PROVE  StackInv' /\ LockInv'
<1>1. /\ stack' \in Seq(WorkFrames) /\ Depth' = Depth /\ stack'[Depth] = f
      /\ \A n \in 1 .. Depth : n # Depth => stack'[n] = stack[n]
  BY Replaced
<1>2. StackInv'
  BY <1>1, TopType DEF StackInv
<1>3. LockInv'
  BY <1>1, TopType DEF LockInv, Top
<1> QED
  BY <1>2, <1>3

\* A step of the running frame out of its section.
LEMMA Leaves ==
    ASSUME StackInv, LockInv, NEW f \in WorkFrames, Becomes(f), Top.inside, ~f.inside,
           f.at \in Handling => Depth # 1,
           lock' = [lock EXCEPT ![Section[Top.at]] = 0], signals' = signals
    PROVE  StackInv' /\ LockInv'
<1>1. /\ stack' \in Seq(WorkFrames) /\ Depth' = Depth /\ stack'[Depth] = f
      /\ \A n \in 1 .. Depth : n # Depth => stack'[n] = stack[n]
  BY Replaced
<1>2. StackInv'
  BY <1>1, TopType DEF StackInv
<1>3. Section[Top.at] \in Locks /\ lock[Section[Top.at]] = Depth
  BY TopType, PlaceFacts DEF LockInv, Top
<1>4. LockInv'
  <2>1. lock' \in [Locks -> 0 .. Depth']
    BY <1>1, <1>3, TopType DEF LockInv
  <2>2. \A n \in 1 .. Depth' : stack'[n].inside => stack'[n].at \in DOMAIN Section
    BY <1>1, TopType DEF LockInv
  <2>3. \A l \in Locks : \A n \in 1 .. Depth' :
            lock'[l] = n <=> stack'[n].inside /\ Section[stack'[n].at] = l
    <3> SUFFICES ASSUME NEW l \in Locks, NEW n \in 1 .. Depth
                 PROVE  lock'[l] = n <=> stack'[n].inside /\ Section[stack'[n].at] = l
      BY <1>1
    <3>1. lock'[l] = IF l = Section[Top.at] THEN 0 ELSE lock[l]
      BY <1>3 DEF LockInv
    <3>2. CASE n = Depth
      BY <1>1, <1>3, <3>1, <3>2, TopType DEF LockInv, Top
    <3>3. CASE n # Depth
      BY <1>1, <1>3, <3>1, <3>3, TopType DEF LockInv, Top
    <3> QED
      BY <3>2, <3>3
  <2> QED
    BY <2>1, <2>2, <2>3 DEF LockInv
<1> QED
  BY <1>2, <1>4

\* A frame that claims nothing new leaves the claims as they are.
LEMMA Calm ==
    ASSUME StackInv, NEW f \in WorkFrames, Becomes(f), f.job = Top.job,
           f.at \in Claiming => Top.at \in Claiming
    PROVE  Quiet
BY Replaced, TopType DEF Quiet, Claims, Top

\* Neither does one that claims nothing.
LEMMA Idle ==
    ASSUME StackInv, NEW f \in WorkFrames, Becomes(f), f.at \notin Claiming
    PROVE  Quiet
BY Replaced, TopType DEF Quiet, Claims

\* Goto, seen as such a step.
LEMMA Goes ==
    ASSUME StackInv, LockInv, NEW s \in Places, Goto(s), ~Top.inside,
           s \in Busy => Top.at \in Busy, s \in Handling => Top.at \in Handling,
           lock' = lock, signals' = signals
    PROVE  /\ StackInv' /\ LockInv'
           /\ (s \in Claiming => Top.at \in Claiming) => Quiet
<1> DEFINE f == [Top EXCEPT !.at = s]
<1>1. Top \in WorkFrames
  BY TopType
<1>2. s \in Busy => Top.job \in Deliveries
  BY <1>1 DEF WorkFrames
<1>3. f \in WorkFrames /\ f.at = s /\ f.job = Top.job /\ f.inside = Top.inside
  BY <1>1, <1>2, AtAnother, Zenon
<1>4. Becomes(f)
  BY DEF Goto, Becomes, Top
<1> HIDE DEF f
<1>a. f.at \in Handling => Depth # 1
  BY <1>3, TopType
<1>5. StackInv' /\ LockInv'
  BY <1>3, <1>4, <1>a, Moves
<1>6. ASSUME s \in Claiming => Top.at \in Claiming
      PROVE  Quiet
  BY <1>3, <1>4, <1>6, Calm
<1> QED
  BY <1>5, <1>6

\* LeaveAs with a frame that is at work on the same delivery, or on none.
LEMMA LeavesAs ==
    ASSUME StackInv, LockInv, NEW g \in WorkFrames, LeaveAs(g), Top.inside, g.at \in Handling => Depth # 1,
           signals' = signals
    PROVE  /\ StackInv' /\ LockInv'
           /\ g.job = Top.job /\ (g.at \in Claiming => Top.at \in Claiming) => Quiet
           /\ g.at \notin Claiming => Quiet
<1> DEFINE f == [g EXCEPT !.inside = FALSE]
<1>1. f \in WorkFrames /\ f.at = g.at /\ f.job = g.job /\ ~f.inside
  BY DEF WorkFrames, Frames
<1>2. Becomes(f) /\ lock' = [lock EXCEPT ![Section[Top.at]] = 0]
  BY DEF LeaveAs, Becomes
<1> HIDE DEF f
<1>3. StackInv' /\ LockInv'
  BY <1>1, <1>2, Leaves
<1>4. ASSUME g.job = Top.job, g.at \in Claiming => Top.at \in Claiming
      PROVE  Quiet
  BY <1>1, <1>2, <1>4, Calm
<1>5. ASSUME g.at \notin Claiming
      PROVE  Quiet
  BY <1>1, <1>2, <1>5, Idle
<1> QED
  BY <1>3, <1>4, <1>5

\* LeaveTo, seen as such a step.
LEMMA LeavesTo ==
    ASSUME StackInv, LockInv, NEW s \in Places, LeaveTo(s), Top.inside,
           s \in Busy => Top.at \in Busy, s \in Handling => Top.at \in Handling, signals' = signals
    PROVE  /\ StackInv' /\ LockInv'
           /\ (s \in Claiming => Top.at \in Claiming) => Quiet
<1> DEFINE g == [Top EXCEPT !.at = s]
<1>1. Top \in WorkFrames
  BY TopType
<1>2. s \in Busy => Top.job \in Deliveries
  BY <1>1 DEF WorkFrames
<1>3. g \in WorkFrames /\ g.at = s /\ g.job = Top.job
  BY <1>1, <1>2, AtAnother, Zenon
<1>4. LeaveAs(g)
  BY DEF LeaveTo
<1> HIDE DEF g
<1>5. g.at \in Handling => Depth # 1
  BY <1>3, TopType
<1> QED
  BY <1>3, <1>4, <1>5, LeavesAs

\* The end of _finish_future.
LEMMA Returns ==
    ASSUME NEW f \in WorkFrames, NEW n \in Nat
    PROVE  /\ Return(f, n) \in WorkFrames
           /\ Return(f, n).at \in {"loop", "next"}
           /\ Return(f, n).at = "next" => n # 1
           /\ Return(f, n).job = None
           /\ ~Return(f, n).inside
<1> DEFINE p == IF n = 1 THEN "loop" ELSE "next"
<1>1. p \in {"loop", "next"} /\ (p = "next" => n # 1)
  OBVIOUS
<1>2. p \in Places /\ p \notin Busy
  BY <1>1 DEF Places, Busy
<1>3. Return(f, n) = [f EXCEPT !.at = p, !.inside = FALSE, !.job = None]
  BY DEF Return
<1> HIDE DEF p
<1> QED
  BY <1>1, <1>2, <1>3 DEF WorkFrames, Frames

\* What claims nothing new, and publishes nothing, keeps a single holder.
LEMMA QuietKeeps ==
    ASSUME Shape, OnceInv, Quiet, pending' \subseteq pending, answers' = answers,
           \A d \in Deliveries : future'[d] = "new" => future[d] = "new"
    PROVE  OnceInv'
<1> SUFFICES ASSUME NEW d \in Deliveries
             PROVE  /\ future'[d] = "new" => d \notin pending' /\ answers'[d] = 0 /\ Unclaimed(d)'
                    /\ d \in pending' => answers'[d] = 0 /\ Unclaimed(d)'
                    /\ ~Unclaimed(d)' => answers'[d] = 0
                    /\ \A m, n \in 1 .. Depth' : Claims(stack'[m], d) /\ Claims(stack'[n], d) => m = n
                    /\ answers'[d] <= 1
  BY DEF OnceInv, Claims
<1>1. Unclaimed(d) => Unclaimed(d)'
  BY DEF Quiet, Unclaimed, Claims
<1>2. \A m, n \in 1 .. Depth' : Claims(stack'[m], d) /\ Claims(stack'[n], d) => m = n
  BY DEF Quiet, OnceInv
<1> QED
  BY <1>1, <1>2 DEF OnceInv
-----------------------------------------------------------------------------
(* The actions of the main thread.                                          *)

\* A step that leaves the variables of OnceInv alone, or nearly so.
Still ==
    /\ Quiet
    /\ pending' \subseteq pending
    /\ answers' = answers
    /\ \A d \in Deliveries : future'[d] = "new" => future[d] = "new"

\* The statements that only go on, seen from the stack.
LEMMA GotoSteps ==
    ASSUME IInv, \/ Check \/ Connect \/ Dial \/ Declare \/ Start \/ LoopEnds \/ Except
                 \/ Ensure \/ Work \/ RaiseInMain \/ Cancel \/ NoPool \/ Join
    PROVE  Shape' /\ Still
<1> USE DEF IInv, Shape
<1>1. ~Top.inside
  <2>1. CASE Work
    BY <2>1, TopType, PlaceFacts DEF Work, LockInv, Top
  <2>2. CASE ~Work
    BY <2>2 DEF At, Check, Connect, Dial, Declare, Start, LoopEnds, Except, Ensure, RaiseInMain,
                Cancel, NoPool, Join
  <2> QED
    BY <2>1, <2>2
<1>2. PICK s \in Places : /\ Goto(s)
                          /\ s \in Busy => Top.at \in Busy
                          /\ s \in Handling => Top.at \in Handling
                          /\ s \in Claiming => Top.at \in Claiming
  <2>1. CASE Work
    BY <2>1, PlaceFacts DEF Work
  <2>2. CASE ~Work
    BY <2>2, PlaceFacts
       DEF At, Check, Connect, Dial, Declare, Start, LoopEnds, Except, Ensure, RaiseInMain, Cancel,
           NoPool, Join, Places, Busy, Handling, Claiming
  <2> QED
    BY <2>1, <2>2
<1>3. lock' = lock /\ signals' = signals /\ pending' = pending /\ answers' = answers /\ future' = future
  BY DEF Check, Connect, Dial, Declare, Start, LoopEnds, Except, Ensure, Work, RaiseInMain, Cancel,
         NoPool, Join, futureVars, answerVars, flagVars
<1>4. StackInv' /\ LockInv' /\ Quiet
  BY <1>1, <1>2, <1>3, Goes
<1>5. RestInv'
  <2>1. CASE Dial
    BY <2>1, ShutdownAssumption DEF RestInv, Dial, Lose, futureVars, answerVars, flagVars
  <2>2. CASE Declare
    BY <2>2 DEF RestInv, Declare, futureVars, answerVars, flagVars
  <2>3. CASE Start \/ Ensure
    BY <2>3 DEF RestInv, Start, Ensure, EnsureExecutor, brokerVars, futureVars, answerVars
  <2>4. CASE Connect \/ Cancel \/ Join
    BY <2>4 DEF RestInv, Connect, Cancel, Join, brokerVars, futureVars, answerVars
  <2>5. CASE Check \/ LoopEnds \/ Except \/ Work \/ RaiseInMain \/ NoPool
    BY <2>5 DEF RestInv, Check, LoopEnds, Except, Work, RaiseInMain, NoPool, brokerVars, futureVars,
                answerVars, flagVars
  <2> QED
    BY <2>1, <2>2, <2>3, <2>4, <2>5
<1> QED
  BY <1>3, <1>4, <1>5 DEF Still

\* Taking a lock.
LEMMA EnterStep ==
    ASSUME IInv, Enter
    PROVE  Shape' /\ Still
<1> USE DEF IInv, Shape
<1> DEFINE f == [Top EXCEPT !.inside = TRUE]
<1>1. f \in WorkFrames /\ f.at = Top.at /\ f.job = Top.job /\ f.inside
  BY TopType DEF WorkFrames, Frames
<1>2. Becomes(f)
  BY DEF Enter, Becomes, Top
<1> HIDE DEF f
<1>3. /\ stack' \in Seq(WorkFrames) /\ Depth' = Depth /\ stack'[Depth] = f
      /\ \A n \in 1 .. Depth : n # Depth => stack'[n] = stack[n]
  BY <1>1, <1>2, Replaced
<1>4. StackInv' /\ Quiet
  BY <1>1, <1>2, <1>3, Calm DEF StackInv, Enter, flagVars
<1>5. /\ Top.at \in DOMAIN Section /\ ~Top.inside
      /\ Section[Top.at] \in Locks /\ lock[Section[Top.at]] = 0
      /\ lock' = [lock EXCEPT ![Section[Top.at]] = Depth]
  BY PlaceFacts DEF Enter
<1>6. LockInv'
  <2>1. lock' \in [Locks -> 0 .. Depth']
    BY <1>3, <1>5, TopType DEF LockInv
  <2>2. \A n \in 1 .. Depth' : stack'[n].inside => stack'[n].at \in DOMAIN Section
    BY <1>1, <1>3, <1>5, TopType DEF LockInv
  <2>3. \A l \in Locks : \A n \in 1 .. Depth' :
            lock'[l] = n <=> stack'[n].inside /\ Section[stack'[n].at] = l
    <3> SUFFICES ASSUME NEW l \in Locks, NEW n \in 1 .. Depth
                 PROVE  lock'[l] = n <=> stack'[n].inside /\ Section[stack'[n].at] = l
      BY <1>3
    <3>1. lock'[l] = IF l = Section[Top.at] THEN Depth ELSE lock[l]
      BY <1>5 DEF LockInv
    <3>2. CASE n = Depth
      BY <1>1, <1>3, <1>5, <3>1, <3>2, TopType DEF LockInv, Top
    <3>3. CASE n # Depth
      BY <1>1, <1>3, <1>5, <3>1, <3>3, TopType DEF LockInv, Top
    <3> QED
      BY <3>2, <3>3
  <2> QED
    BY <2>1, <2>2, <2>3 DEF LockInv
<1>7. RestInv' /\ pending' = pending /\ answers' = answers /\ future' = future
  BY DEF RestInv, Enter, brokerVars, futureVars, answerVars, flagVars
<1> QED
  BY <1>4, <1>6, <1>7 DEF Still

\* Sections that change neither claims nor the table of pending deliveries.
LEMMA LeaveSteps ==
    ASSUME IInv, Leave \/ Set \/ Drain \/ Submit \/ ShutPool
    PROVE  Shape' /\ Still
<1> USE DEF IInv, Shape
<1>1. CASE Submit
  <2>1. Inside("submit") /\ LeaveTo("add") /\ signals' = signals
    BY <1>1 DEF Submit, flagVars
  <2>2. StackInv' /\ LockInv' /\ Quiet
    BY <2>1, LeavesTo, PlaceFacts DEF Inside, Places, Busy, Claiming, Handling
  <2>3. RestInv' /\ pending' = pending /\ answers' = answers
        /\ \A d \in Deliveries : future'[d] = "new" => future[d] = "new"
    BY <1>1 DEF RestInv, Submit, brokerVars, answerVars, flagVars
  <2> QED
    BY <2>2, <2>3 DEF Still
<1>2. CASE ShutPool
  <2>1. Inside("shut_pool") /\ LeaveTo("join") /\ signals' = signals
    BY <1>2 DEF ShutPool
  <2>2. StackInv' /\ LockInv' /\ Quiet
    BY <2>1, LeavesTo, PlaceFacts DEF Inside, Places, Busy, Claiming, Handling
  <2>3. RestInv' /\ pending' = pending /\ answers' = answers /\ future' = future
    BY <1>2 DEF RestInv, ShutPool, brokerVars, futureVars, answerVars
  <2> QED
    BY <2>2, <2>3 DEF Still
<1>3. CASE Leave \/ Set \/ Drain
  <2>1. RestInv' /\ pending' = pending /\ answers' = answers /\ future' = future /\ signals' = signals
    BY <1>3 DEF RestInv, Leave, Set, Drain, brokerVars, futureVars, answerVars, flagVars
  <2>2. CASE Leave
    BY <2>1, <2>2, LeavesTo, PlaceFacts DEF Leave, Still
  <2>3. CASE Set
    BY <2>1, <2>3, LeavesTo, PlaceFacts DEF Set, Inside, Still, Places, Busy, Claiming, Handling
  <2>4. CASE Drain
    <3> DEFINE s == IF pending = {} THEN "shut_pool" ELSE "next"
               g == [Top EXCEPT !.at = s, !.left = pending]
    <3>1. s \in Places /\ s \notin Busy /\ s \notin Claiming
      BY PlaceFacts DEF Places, Busy, Claiming
    <3>2. LeaveAs(g) /\ Top.inside /\ Top.at \in Handling
      BY <2>4 DEF Drain, Inside, Handling
    <3> HIDE DEF s
    <3>3. g \in WorkFrames /\ g.at = s
      BY <3>1, TopType DEF WorkFrames, Frames, RestInv
    <3> HIDE DEF g
    <3>4. Depth # 1
      BY <3>2, TopType
    <3> QED
      BY <2>1, <3>1, <3>2, <3>3, <3>4, LeavesAs DEF Still
  <2> QED
    BY <1>3, <2>1, <2>2, <2>3, <2>4
<1> QED
  BY <1>1, <1>2, <1>3

\* Frames that end a callback, begin _finish_future, or settle a delivery.
LEMMA HookStep ==
    ASSUME IInv, Hook
    PROVE  Shape' /\ Still
<1> USE DEF IInv, Shape
<1>1. Top.at = "hook" /\ ~Top.inside /\ lock' = lock /\ signals' = signals /\ Top.job \in Deliveries
  BY TopType DEF Hook, At, flagVars, WorkFrames, Busy
<1>2. StackInv' /\ LockInv' /\ Quiet
  <2>1. CASE EndCallback
    <3> DEFINE f == [Top EXCEPT !.at = "loop", !.job = None]
    <3>1. f \in WorkFrames /\ f.at = "loop" /\ f.inside = Top.inside
      BY TopType DEF WorkFrames, Frames, Places, Busy
    <3>2. Becomes(f)
      BY <2>1 DEF EndCallback, Becomes, Top
    <3> HIDE DEF f
    <3> QED
      BY <1>1, <3>1, <3>2, Moves, Idle DEF Claiming, Handling
  <2>2. CASE Goto("schedule")
    BY <1>1, <2>2, Goes, PlaceFacts DEF Places, Busy, Claiming, Handling
  <2> QED
    BY <2>1, <2>2 DEF Hook
<1>3. RestInv' /\ pending' = pending /\ answers' = answers /\ future' = future
  BY <1>1 DEF RestInv, Hook, brokerVars, answerVars, flagVars
<1> QED
  BY <1>2, <1>3 DEF Still

\* The completion is scheduled by the callback itself.
LEMMA ScheduleAtOnceStep ==
    ASSUME IInv, ScheduleAtOnce
    PROVE  Shape' /\ Still
<1> USE DEF IInv, Shape
<1> DEFINE g == [Top EXCEPT !.at = "loop", !.job = None]
<1>1. g \in WorkFrames /\ g.at = "loop"
  BY TopType DEF WorkFrames, Frames, Places, Busy
<1>2. Top.inside /\ Top.at = "schedule" /\ LeaveAs(g) /\ signals' = signals
  BY DEF ScheduleAtOnce, ScheduleOrDrop, Inside, flagVars
<1>3. Top.job \in Deliveries
  BY <1>2, TopType DEF WorkFrames, Busy
<1> HIDE DEF g
<1>4. StackInv' /\ LockInv' /\ Quiet
  BY <1>1, <1>2, LeavesAs DEF Claiming, Handling
<1>5. RestInv' /\ pending' \subseteq pending /\ answers' = answers /\ future' = future
  BY <1>3 DEF RestInv, ScheduleAtOnce, ScheduleOrDrop, answerVars, flagVars
<1> QED
  BY <1>4, <1>5 DEF Still

\* The event loop begins _finish_future.
LEMMA RunScheduledStep ==
    ASSUME IInv, NEW d \in Deliveries, RunScheduled(d)
    PROVE  Shape' /\ Still
<1> USE DEF IInv, Shape
<1> DEFINE f == [Top EXCEPT !.at = "pop", !.job = d]
<1>1. f \in WorkFrames /\ f.at = "pop" /\ f.inside = Top.inside
  BY TopType, PlaceFacts DEF WorkFrames, Frames, Places, Busy
<1>2. Becomes(f) /\ ~Top.inside /\ lock' = lock /\ signals' = signals
  BY DEF RunScheduled, At, Becomes, Top, flagVars
<1> HIDE DEF f
<1>3. StackInv' /\ LockInv' /\ Quiet
  BY <1>1, <1>2, Moves, Idle DEF Claiming, Handling
<1>4. RestInv' /\ pending' = pending /\ answers' = answers /\ future' = future
  BY DEF RestInv, RunScheduled, futureVars, answerVars, flagVars
<1> QED
  BY <1>3, <1>4 DEF Still

\* A drain begins it, or looks again.
LEMMA DrainNextStep ==
    ASSUME IInv, DrainNext
    PROVE  Shape' /\ Still
<1> USE DEF IInv, Shape
<1>0. ~Top.inside /\ Top.at = "next" /\ Top.at \in Handling /\ lock' = lock /\ signals' = signals
  BY DEF DrainNext, At, flagVars, Handling
<1>1. RestInv' /\ pending' = pending /\ answers' = answers /\ future' = future
  BY DEF RestInv, DrainNext, brokerVars, futureVars, answerVars, flagVars
<1>2. CASE Goto("drain")
  <2>1. "drain" \in Places /\ "drain" \notin Busy /\ "drain" \notin Claiming
    BY PlaceFacts DEF Places, Busy, Claiming
  <2> QED
    BY <1>0, <1>1, <1>2, <2>1, Goes DEF Still
<1>3. ASSUME NEW d \in Top.left,
             stack' = [stack EXCEPT ![Depth] = [Top EXCEPT !.at = "pop", !.job = d,
                                                           !.left = Top.left \ {d}]]
      PROVE  Shape' /\ Still
  <2> DEFINE f == [Top EXCEPT !.at = "pop", !.job = d, !.left = Top.left \ {d}]
  <2>1. d \in Deliveries
    BY TopType DEF Frames
  <2>2. f \in WorkFrames /\ f.at = "pop" /\ f.inside = Top.inside
    BY <2>1, TopType, PlaceFacts DEF WorkFrames, Frames, Places, Busy
  <2>3. Becomes(f)
    BY <1>3 DEF Becomes
  <2> HIDE DEF f
  <2> QED
    BY <1>0, <1>1, <2>2, <2>3, Moves, Idle DEF Claiming, Handling, Still
<1> QED
  BY <1>2, <1>3 DEF DrainNext

\* A delivery is settled.
LEMMA SettleSteps ==
    ASSUME IInv, Ack \/ SubmitFails
    PROVE  Shape' /\ Still
<1> USE DEF IInv, Shape
<1>0. ~Top.inside /\ Top.at \in Busy /\ lock' = lock /\ signals' = signals /\ Top.job \in Deliveries
  BY TopType DEF Ack, SubmitFails, At, flagVars, WorkFrames, Busy
<1>1. RestInv' /\ pending' = pending /\ answers' = answers /\ future' = future
  BY <1>0 DEF RestInv, Ack, SubmitFails, Settle, brokerVars, futureVars, flagVars
<1>2. CASE stack' = [stack EXCEPT ![Depth] = Return(Top, Depth)]
  <2>1. /\ Return(Top, Depth) \in WorkFrames
        /\ Return(Top, Depth).at \notin Claiming /\ ~Return(Top, Depth).inside
        /\ Return(Top, Depth).at \in Handling => Depth # 1
    BY TopType, Returns DEF Claiming, Handling
  <2> QED
    BY <1>0, <1>1, <1>2, <2>1, Moves, Idle DEF Becomes, Still
<1>3. CASE Goto("raising")
  BY <1>0, <1>1, <1>3, Goes DEF Still, Places, Busy, Claiming, Handling
<1> QED
  BY <1>2, <1>3 DEF Ack, SubmitFails, Settle

\* A handler begins on top of what runs.
LEMMA SignalStep ==
    ASSUME IInv, Signal
    PROVE  Shape' /\ Still
<1> USE DEF IInv, Shape
<1>1. Frame("set") \in WorkFrames /\ ~Frame("set").inside /\ Frame("set").at \notin Claiming
  BY PlaceFacts DEF Frame, WorkFrames, Frames, Places, Busy, Claiming
<1>2. lock' = lock /\ signals < MaxSignals /\ signals' = signals + 1
  BY DEF Signal
<1> HIDE DEF Frame
<1>3. /\ stack' \in Seq(WorkFrames) /\ Depth' = Depth + 1 /\ stack'[Depth + 1] = Frame("set")
      /\ \A n \in 1 .. Depth : stack'[n] = stack[n]
  <2>1. stack' = Append(stack, Frame("set"))
    BY DEF Signal
  <2> QED
    BY <1>1, <2>1 DEF StackInv, Depth
<1>4. StackInv'
  BY <1>2, <1>3, ShutdownAssumption DEF StackInv
<1>5. LockInv'
  <2>1. lock' \in [Locks -> 0 .. Depth']
    BY <1>2, <1>3, TopType DEF LockInv
  <2>2. \A n \in 1 .. Depth' : stack'[n].inside => stack'[n].at \in DOMAIN Section
    BY <1>1, <1>3, TopType DEF LockInv
  <2>3. \A l \in Locks : \A n \in 1 .. Depth' :
            lock'[l] = n <=> stack'[n].inside /\ Section[stack'[n].at] = l
    <3> SUFFICES ASSUME NEW l \in Locks, NEW n \in 1 .. Depth + 1
                 PROVE  lock'[l] = n <=> stack'[n].inside /\ Section[stack'[n].at] = l
      BY <1>3
    <3>1. CASE n = Depth + 1
      <4>1. lock'[l] \in 0 .. Depth /\ Depth \in Nat
        BY <1>2, TopType DEF LockInv
      <4>2. ~stack'[n].inside
        BY <1>1, <1>3, <3>1
      <4> QED
        BY <3>1, <4>1, <4>2
    <3>2. CASE n # Depth + 1
      <4>1. n \in 1 .. Depth /\ stack'[n] = stack[n]
        BY <1>3, <3>2, TopType
      <4> QED
        BY <1>2, <4>1 DEF LockInv
    <3> QED
      BY <3>1, <3>2
  <2> QED
    BY <2>1, <2>2, <2>3 DEF LockInv
<1>6. Quiet
  BY <1>1, <1>3, TopType DEF Quiet, Claims
<1>7. caught' \subseteq {"unseen", "locked"}
  BY DEF Signal, Caught, RestInv
<1>8. RestInv' /\ pending' = pending /\ answers' = answers /\ future' = future
  BY <1>7 DEF RestInv, Signal, brokerVars, futureVars, answerVars
<1> QED
  BY <1>4, <1>5, <1>6, <1>8 DEF Still

\* The handler ends.
LEMMA CloseStep ==
    ASSUME IInv, Close
    PROVE  Shape' /\ Still
<1> USE DEF IInv, Shape
<1>1. ~Top.inside /\ lock' = lock /\ signals' = signals /\ Depth > 1
  <2>1. Top.at \in Handling
    BY DEF Close, At, Handling
  <2> QED
    BY <2>1, TopType DEF Close, At, flagVars
<1>2. /\ stack' \in Seq(WorkFrames) /\ Depth' = Depth - 1
      /\ \A n \in 1 .. Depth - 1 : stack'[n] = stack[n]
  <2>1. stack' = SubSeq(stack, 1, Depth - 1)
    BY DEF Close
  <2> QED
    BY <1>1, <2>1 DEF StackInv, Depth
<1>3. StackInv'
  BY <1>1, <1>2, TopType DEF StackInv
<1>4. LockInv'
  <2>1. \A l \in Locks : lock[l] # Depth
    BY <1>1, TopType DEF LockInv, Top
  <2> QED
    BY <1>1, <1>2, <2>1, TopType DEF LockInv
<1>5. Quiet
  BY <1>1, <1>2, TopType DEF Quiet
<1>6. RestInv' /\ pending' = pending /\ answers' = answers /\ future' = future
  BY DEF RestInv, Close, Gone, futureVars, answerVars, flagVars
<1> QED
  BY <1>3, <1>4, <1>5, <1>6 DEF Still

\* What an exception makes of an interrupted frame.
LEMMA HandledType ==
    ASSUME NEW f \in WorkFrames, NEW n \in Nat
    PROVE  /\ Handled(f, n) \in WorkFrames
           /\ ~Handled(f, n).inside
           /\ Handled(f, n).at \in Handling => n # 1
           /\ \A d \in Deliveries : Claims(Handled(f, n), d) => Claims(f, d)
<1>1. CASE f.at \in {"record", "put"}
  <2> DEFINE s == After[f.at]
  <2>1. s \in Places /\ (s \in Busy => f.job \in Deliveries) /\ (s \in Claiming => f.at \in Claiming)
        /\ s \notin Handling
    BY <1>1, PlaceFacts DEF WorkFrames, Busy, Handling
  <2>2. Handled(f, n) = [f EXCEPT !.at = s, !.inside = FALSE]
    BY <1>1 DEF Handled, GivenBack
  <2> HIDE DEF s
  <2> QED
    BY <2>1, <2>2 DEF WorkFrames, Frames, Claims
<1>2. CASE f.at \notin {"record", "put"} /\ (f.at = "schedule" \/ GivenBack(f) # {})
  <2>1. Handled(f, n) = Return(f, n)
    BY <1>2 DEF Handled, GivenBack
  <2> QED
    BY <2>1, Returns DEF Claims, Claiming, Handling
<1>3. CASE f.at \notin {"record", "put", "schedule"} /\ GivenBack(f) = {}
  <2>1. PICK s \in {"exited", "raising"} : Handled(f, n) = [f EXCEPT !.at = s, !.inside = FALSE]
    BY <1>3 DEF Handled
  <2>2. s \in Places /\ s \notin Busy /\ s \notin Claiming /\ s \notin Handling
    BY <2>1 DEF Places, Busy, Claiming, Handling
  <2> QED
    BY <2>1, <2>2 DEF WorkFrames, Frames, Claims
<1> QED
  BY <1>1, <1>2, <1>3

\* The stack without its top, and with another frame in the place below.
LEMMA Unwound ==
    ASSUME StackInv, Depth > 1, NEW f \in WorkFrames, stack' = Append(SubSeq(stack, 1, Depth - 2), f)
    PROVE  /\ stack' \in Seq(WorkFrames) /\ Depth' = Depth - 1 /\ stack'[Depth - 1] = f
           /\ \A n \in 1 .. Depth - 1 : n # Depth - 1 => stack'[n] = stack[n]
<1> DEFINE rest == SubSeq(stack, 1, Depth - 2)
<1>1. /\ rest \in Seq(WorkFrames) /\ Len(rest) = Depth - 2
      /\ \A n \in 1 .. Depth - 2 : rest[n] = stack[n]
  <2>1. Depth - 2 \in Int /\ 1 \in Int /\ \A n \in 1 .. Depth - 2 : stack[n] \in WorkFrames
    BY TopType
  <2> QED
    BY <2>1, TopType, SubSeqProperties
<1>2. stack' = Append(rest, f) /\ Depth \in Nat
  BY TopType
<1> HIDE DEF rest
<1>3. /\ Append(rest, f) \in Seq(WorkFrames) /\ Len(Append(rest, f)) = Depth - 1
      /\ Append(rest, f)[Depth - 1] = f
      /\ \A n \in 1 .. Depth - 2 : Append(rest, f)[n] = rest[n]
  BY <1>1, <1>2, AppendProperties
<1>4. Depth' = Len(stack')
  BY DEF Depth
<1> QED
  BY <1>1, <1>2, <1>3, <1>4

\* An exception leaves a handler: its frame goes, and the frame below lets go of its lock.
LEMMA RaiseStep ==
    ASSUME IInv, Raise
    PROVE  Shape' /\ Still
<1> USE DEF IInv, Shape
<1> DEFINE below == stack[Depth - 1]
           f == Handled(below, Depth - 1)
<1>1. Depth > 1 /\ ~Top.inside /\ signals' = signals
  BY TopType DEF Raise, At, IsMain, flagVars
<1>2. below \in WorkFrames /\ Depth - 1 \in Nat
  BY <1>1, TopType
<1>3. f \in WorkFrames /\ ~f.inside /\ (f.at \in Handling => Depth - 1 # 1)
      /\ \A d \in Deliveries : Claims(f, d) => Claims(below, d)
  BY <1>2, HandledType
<1>4. stack' = Append(SubSeq(stack, 1, Depth - 2), f)
      /\ lock' = [l \in Locks |-> IF lock[l] = Depth - 1 THEN 0 ELSE lock[l]]
  BY DEF Raise
<1>5. GivenBack(below) \subseteq Deliveries
  BY DEF GivenBack, RestInv
<1>6. RestInv' /\ pending' = pending /\ answers' = answers /\ future' = future
  BY <1>5 DEF RestInv, Raise, brokerVars, futureVars, flagVars
<1> HIDE DEF f
<1>7. /\ stack' \in Seq(WorkFrames) /\ Depth' = Depth - 1 /\ stack'[Depth - 1] = f
      /\ \A n \in 1 .. Depth - 1 : n # Depth - 1 => stack'[n] = stack[n]
  BY <1>1, <1>3, <1>4, Unwound
<1>8. StackInv'
  BY <1>1, <1>3, <1>7, TopType DEF StackInv
<1>9. LockInv'
  <2>1. \A l \in Locks : lock[l] \in 0 .. Depth /\ lock[l] # Depth
    BY <1>1, TopType DEF LockInv, Top
  <2>2. \A l \in Locks : lock'[l] = IF lock[l] = Depth - 1 THEN 0 ELSE lock[l]
    BY <1>4
  <2>3. lock' \in [Locks -> 0 .. Depth']
    <3>1. \A l \in Locks : (IF lock[l] = Depth - 1 THEN 0 ELSE lock[l]) \in 0 .. Depth - 1
      BY <1>1, <2>1, TopType
    <3> QED
      BY <1>4, <1>7, <3>1
  <2>4. \A n \in 1 .. Depth' : stack'[n].inside => stack'[n].at \in DOMAIN Section
    BY <1>3, <1>7, TopType DEF LockInv
  <2>5. \A l \in Locks : \A n \in 1 .. Depth' :
            lock'[l] = n <=> stack'[n].inside /\ Section[stack'[n].at] = l
    <3> SUFFICES ASSUME NEW l \in Locks, NEW n \in 1 .. Depth - 1
                 PROVE  lock'[l] = n <=> stack'[n].inside /\ Section[stack'[n].at] = l
      BY <1>7
    <3>1. CASE n = Depth - 1
      <4>1. ~stack'[n].inside /\ lock'[l] # n
        BY <1>1, <1>3, <1>7, <2>1, <2>2, <3>1, TopType
      <4> QED
        BY <4>1
    <3>2. CASE n # Depth - 1
      <4>1. n \in 1 .. Depth /\ stack'[n] = stack[n] /\ (lock'[l] = n <=> lock[l] = n)
        BY <1>1, <1>7, <2>1, <2>2, <3>2, TopType
      <4> QED
        BY <4>1 DEF LockInv
    <3> QED
      BY <3>1, <3>2
  <2> QED
    BY <2>3, <2>4, <2>5 DEF LockInv
<1>10. Quiet
  <2> SUFFICES ASSUME NEW n \in 1 .. Depth - 1, NEW d \in Deliveries, Claims(stack'[n], d)
               PROVE  n \in 1 .. Depth /\ Claims(stack[n], d)
    BY <1>7 DEF Quiet
  <2>1. CASE n = Depth - 1
    BY <1>1, <1>3, <1>7, <2>1, TopType
  <2>2. CASE n # Depth - 1
    BY <1>1, <1>7, <2>2, TopType
  <2> QED
    BY <2>1, <2>2
<1> QED
  BY <1>6, <1>8, <1>9, <1>10 DEF Still

\* The pool's thread, and a connection that is lost.
LEMMA OtherSteps ==
    ASSUME IInv, Pool \/ ConnectionLost
    PROVE  Shape' /\ Still
<1> USE DEF IInv, Shape
<1>1. stack' = stack /\ lock' = lock /\ signals' = signals
  BY DEF Pool, ConnectionLost, ChildEnds, OnFutureDone, Schedule, ScheduleOrDrop, flagVars
<1>2. StackInv' /\ LockInv' /\ Quiet
  BY <1>1 DEF StackInv, LockInv, Quiet, Depth
<1>3. CASE ConnectionLost
  <2>1. RestInv' /\ pending' = pending /\ answers' = answers /\ future' = future
    BY <1>3, ShutdownAssumption
       DEF RestInv, ConnectionLost, Lose, Gone, futureVars, answerVars, flagVars
  <2> QED
    BY <1>2, <2>1 DEF Still
<1>4. ASSUME NEW d \in Deliveries, ChildEnds(d)
      PROVE  Shape' /\ Still
  <2>1. RestInv' /\ pending' = pending /\ answers' = answers
        /\ \A e \in Deliveries : future'[e] = "new" => future[e] = "new"
    BY <1>4 DEF RestInv, ChildEnds, brokerVars, answerVars, flagVars
  <2> QED
    BY <1>2, <2>1 DEF Still
<1>5. ASSUME NEW d \in Deliveries, OnFutureDone(d)
      PROVE  Shape' /\ Still
  <2>1. RestInv' /\ pending' = pending /\ answers' = answers /\ future' = future
    BY <1>5 DEF RestInv, OnFutureDone, brokerVars, answerVars, flagVars
  <2> QED
    BY <1>2, <2>1 DEF Still
<1>6. ASSUME NEW d \in Deliveries, Schedule(d)
      PROVE  Shape' /\ Still
  <2>1. RestInv' /\ pending' \subseteq pending /\ answers' = answers /\ future' = future
    BY <1>6 DEF RestInv, Schedule, ScheduleOrDrop, answerVars, flagVars
  <2> QED
    BY <1>2, <2>1 DEF Still
<1> QED
  BY <1>3, <1>4, <1>5, <1>6 DEF Pool
-----------------------------------------------------------------------------
(* The steps on which a delivery changes hands.                             *)

\* What every step that replaces the running frame means for a claim.
LEMMA ClaimsAfter ==
    ASSUME StackInv, NEW f \in WorkFrames, Becomes(f)
    PROVE  /\ Depth' = Depth
           /\ \A n \in 1 .. Depth : \A d \in Deliveries :
                  Claims(stack'[n], d) <=> IF n = Depth THEN Claims(f, d) ELSE Claims(stack[n], d)
BY Replaced, TopType

\* Somebody new takes a message: nobody has had it.
LEMMA OnExtractionMessageStep ==
    ASSUME IInv, NEW d \in Deliveries, OnExtractionMessage(d)
    PROVE  Shape' /\ OnceInv'
<1> USE DEF IInv, Shape
<1> DEFINE f == [Top EXCEPT !.at = "record", !.job = d]
<1>1. f \in WorkFrames /\ f.at = "record" /\ f.inside = Top.inside /\ f.job = d
  BY TopType, PlaceFacts DEF WorkFrames, Frames, Places, Busy
<1>2. Becomes(f) /\ ~Top.inside /\ lock' = lock /\ signals' = signals
  BY DEF OnExtractionMessage, At, Becomes, Top, flagVars
<1> HIDE DEF f
<1>3. StackInv' /\ LockInv'
  BY <1>1, <1>2, Moves DEF Handling
<1>4. RestInv' /\ pending' = pending /\ answers' = answers
      /\ future[d] = "new" /\ future' = [future EXCEPT ![d] = "taken"]
  BY DEF RestInv, OnExtractionMessage, answerVars, flagVars
<1>5. /\ Depth' = Depth
      /\ \A n \in 1 .. Depth : \A e \in Deliveries :
             Claims(stack'[n], e) => IF n = Depth THEN e = d ELSE Claims(stack[n], e)
  BY <1>1, <1>2, ClaimsAfter DEF Claims
<1>6. OnceInv'
  <2> SUFFICES ASSUME NEW e \in Deliveries
               PROVE  /\ future'[e] = "new" => e \notin pending' /\ answers'[e] = 0 /\ Unclaimed(e)'
                      /\ e \in pending' => answers'[e] = 0 /\ Unclaimed(e)'
                      /\ ~Unclaimed(e)' => answers'[e] = 0
                      /\ \A m, n \in 1 .. Depth' : Claims(stack'[m], e) /\ Claims(stack'[n], e) => m = n
                      /\ answers'[e] <= 1
    BY DEF OnceInv, Claims
  <2>1. CASE e = d
    <3>1. answers'[e] = 0 /\ e \notin pending' /\ future'[e] # "new"
      BY <1>4, <2>1 DEF OnceInv, RestInv
    <3>2. \A n \in 1 .. Depth : n # Depth => ~Claims(stack'[n], e)
      BY <1>4, <1>5, <2>1 DEF OnceInv, Unclaimed
    <3> QED
      BY <1>5, <3>1, <3>2
  <2>2. CASE e # d
    <3>1. answers'[e] = answers[e] /\ pending' = pending /\ future'[e] = future[e]
      BY <1>4, <2>2 DEF RestInv
    <3>2. \A n \in 1 .. Depth : Claims(stack'[n], e) => Claims(stack[n], e)
      BY <1>5, <2>2
    <3> QED
      BY <1>5, <3>1, <3>2 DEF OnceInv, Unclaimed, Claims
  <2> QED
    BY <2>1, <2>2
<1> QED
  BY <1>3, <1>4, <1>6

\* The frame that has a claim gives it up, for an entry in the table or a result.
LEMMA ClaimEnds ==
    ASSUME Shape, OnceInv, NEW f \in WorkFrames, Becomes(f), f.at \notin Claiming,
           Top.at \in Claiming, future' = future,
           \/ pending' = pending \cup {Top.job} /\ answers' = answers
           \/ pending' = pending /\ answers' = [answers EXCEPT ![Top.job] = @ + 1]
    PROVE  OnceInv'
<1> USE DEF Shape
<1>1. /\ Depth' = Depth
      /\ \A n \in 1 .. Depth : \A e \in Deliveries :
             Claims(stack'[n], e) => n # Depth /\ Claims(stack[n], e)
  BY ClaimsAfter DEF Claims
<1>2. Top.job \in Deliveries /\ Claims(stack[Depth], Top.job) /\ Depth \in 1 .. Depth
  BY TopType DEF Claims, Top, WorkFrames, Claiming, Busy
<1> SUFFICES ASSUME NEW e \in Deliveries
             PROVE  /\ future'[e] = "new" => e \notin pending' /\ answers'[e] = 0 /\ Unclaimed(e)'
                    /\ e \in pending' => answers'[e] = 0 /\ Unclaimed(e)'
                    /\ ~Unclaimed(e)' => answers'[e] = 0
                    /\ \A m, n \in 1 .. Depth' : Claims(stack'[m], e) /\ Claims(stack'[n], e) => m = n
                    /\ answers'[e] <= 1
  BY DEF OnceInv, Claims
<1>3. CASE e = Top.job
  <2>1. ~Unclaimed(e)
    BY <1>2, <1>3 DEF Unclaimed
  <2>2. future[e] # "new" /\ e \notin pending /\ answers[e] = 0
    BY <2>1 DEF OnceInv
  <2>3. \A n \in 1 .. Depth' : ~Claims(stack'[n], e)
    BY <1>1, <1>2, <1>3 DEF OnceInv
  <2>4. pending' = pending => answers'[e] = 1
    BY <1>3, <2>2 DEF RestInv
  <2>5. Unclaimed(e)'
    BY <2>3 DEF Unclaimed
  <2>6. CASE pending' = pending \cup {Top.job} /\ answers' = answers
    BY <2>2, <2>3, <2>5, <2>6
  <2>7. CASE pending' = pending /\ answers' = [answers EXCEPT ![Top.job] = @ + 1]
    BY <2>2, <2>3, <2>4, <2>5, <2>7
  <2> QED
    BY <2>6, <2>7
<1>4. CASE e # Top.job
  <2>1. answers'[e] = answers[e] /\ (e \in pending' <=> e \in pending)
    BY <1>4 DEF RestInv
  <2>2. \A n \in 1 .. Depth' : Claims(stack'[n], e) => n \in 1 .. Depth /\ Claims(stack[n], e)
    BY <1>1
  <2>3. Unclaimed(e) => Unclaimed(e)'
    BY <2>2 DEF Unclaimed, Claims
  <2>4. \A m, n \in 1 .. Depth' : Claims(stack'[m], e) /\ Claims(stack'[n], e) => m = n
    BY <2>2 DEF OnceInv
  <2> QED
    BY <2>1, <2>3, <2>4 DEF OnceInv
<1> QED
  BY <1>3, <1>4

\* The entry is made.
LEMMA AddStep ==
    ASSUME IInv, Add
    PROVE  Shape' /\ OnceInv'
<1> USE DEF IInv, Shape
<1> DEFINE g == [Top EXCEPT !.at = "hook"]
           f == [g EXCEPT !.inside = FALSE]
<1>0. /\ Top.inside /\ Top.at = "add" /\ LeaveTo("hook") /\ signals' = signals
      /\ pending' = pending \cup {Top.job} /\ answers' = answers /\ future' = future
  BY DEF Add, Inside, answerVars, flagVars
<1>1. StackInv' /\ LockInv'
  BY <1>0, LeavesTo DEF Places, Busy, Handling
<1>2. Top.job \in Deliveries
  BY <1>0, TopType DEF WorkFrames, Busy
<1>3. g \in WorkFrames /\ g.at = "hook"
  BY <1>2, TopType DEF WorkFrames, Frames, Places
<1>4. LeaveAs(g)
  BY <1>0 DEF LeaveTo
<1> HIDE DEF g
<1>5. f \in WorkFrames /\ f.at = "hook"
  BY <1>3 DEF WorkFrames, Frames
<1>6. Becomes(f)
  BY <1>4 DEF LeaveAs, Becomes
<1> HIDE DEF f
<1>7. OnceInv'
  BY <1>0, <1>5, <1>6, ClaimEnds DEF Claiming
<1>8. RestInv'
  BY <1>2 DEF RestInv, Add, brokerVars, answerVars, flagVars
<1> QED
  BY <1>1, <1>7, <1>8

\* The result is published.
LEMMA CompleteStep ==
    ASSUME IInv, Complete
    PROVE  Shape' /\ OnceInv'
<1> USE DEF IInv, Shape
<1>0. ~Top.inside /\ Top.at = "complete" /\ lock' = lock /\ signals' = signals
      /\ pending' = pending /\ future' = future
  BY DEF Complete, At, flagVars, futureVars
<1>1. Top \in WorkFrames /\ Top.job \in Deliveries
  BY <1>0, TopType DEF WorkFrames, Busy
<1>2. RestInv'
  BY <1>1 DEF RestInv, Complete, brokerVars, futureVars, flagVars
<1>3. CASE Goto("put") /\ answers' = [answers EXCEPT ![Top.job] = @ + 1]
  <2> DEFINE f == [Top EXCEPT !.at = "put"]
  <2>1. StackInv' /\ LockInv'
    BY <1>0, <1>3, Goes, PlaceFacts DEF Places, Busy, Handling
  <2>2. f \in WorkFrames /\ f.at = "put"
    BY <1>1, PlaceFacts DEF WorkFrames, Frames, Places
  <2>3. Becomes(f)
    BY <1>3 DEF Goto, Becomes, Top
  <2> HIDE DEF f
  <2>4. OnceInv'
    BY <1>0, <1>3, <2>2, <2>3, ClaimEnds DEF Claiming
  <2> QED
    BY <1>2, <2>1, <2>4
<1>4. CASE Goto("raising") /\ answers' = answers
  <2>1. StackInv' /\ LockInv' /\ Quiet
    BY <1>0, <1>4, Goes DEF Places, Busy, Claiming, Handling
  <2>2. OnceInv'
    BY <1>0, <1>4, <2>1, QuietKeeps
  <2> QED
    BY <1>2, <2>1, <2>2
<1> QED
  BY <1>3, <1>4 DEF Complete

\* A frame takes an entry out of the table: nobody else has the delivery.
LEMMA PopStep ==
    ASSUME IInv, Pop
    PROVE  Shape' /\ OnceInv'
<1> USE DEF IInv, Shape
<1>0. /\ Top.inside /\ Top.at = "pop" /\ signals' = signals
      /\ pending' = pending \ {Top.job} /\ answers' = answers /\ future' = future
  BY DEF Pop, Inside, answerVars, flagVars
<1>1. Top \in WorkFrames /\ Top.job \in Deliveries
  BY <1>0, TopType DEF WorkFrames, Busy
<1>2. RestInv'
  BY DEF RestInv, Pop, brokerVars, answerVars, flagVars
<1>3. CASE Top.job \notin pending
  <2> DEFINE g == Return(Top, Depth)
  <2>1. g \in WorkFrames /\ g.at \notin Claiming /\ (g.at \in Handling => Depth # 1)
    BY <1>1, TopType, Returns DEF Claiming, Handling
  <2>2. LeaveAs(g)
    BY <1>3 DEF Pop
  <2> HIDE DEF g
  <2>3. StackInv' /\ LockInv' /\ Quiet
    BY <1>0, <2>1, <2>2, LeavesAs
  <2>4. OnceInv'
    BY <1>0, <2>3, QuietKeeps
  <2> QED
    BY <1>2, <2>3, <2>4
<1>4. CASE Top.job \in pending
  <2> DEFINE g == [Top EXCEPT !.at = "complete"]
             f == [g EXCEPT !.inside = FALSE]
  <2>0. LeaveTo("complete")
    BY <1>4 DEF Pop
  <2>1. StackInv' /\ LockInv'
    BY <1>0, <2>0, LeavesTo DEF Places, Busy, Handling
  <2>2. g \in WorkFrames /\ g.job = Top.job
    BY <1>1 DEF WorkFrames, Frames, Places
  <2>3. LeaveAs(g)
    BY <2>0 DEF LeaveTo
  <2> HIDE DEF g
  <2>4. f \in WorkFrames /\ f.job = Top.job
    BY <2>2 DEF WorkFrames, Frames
  <2>5. Becomes(f)
    BY <2>3 DEF LeaveAs, Becomes
  <2> HIDE DEF f
  <2>6. /\ Depth' = Depth
        /\ \A n \in 1 .. Depth : \A e \in Deliveries :
               Claims(stack'[n], e) => IF n = Depth THEN e = Top.job ELSE Claims(stack[n], e)
    BY <2>4, <2>5, ClaimsAfter DEF Claims
  <2>7. OnceInv'
    <3> SUFFICES ASSUME NEW e \in Deliveries
                 PROVE  /\ future'[e] = "new" => e \notin pending' /\ answers'[e] = 0 /\ Unclaimed(e)'
                        /\ e \in pending' => answers'[e] = 0 /\ Unclaimed(e)'
                        /\ ~Unclaimed(e)' => answers'[e] = 0
                        /\ \A m, n \in 1 .. Depth' : Claims(stack'[m], e) /\ Claims(stack'[n], e) => m = n
                        /\ answers'[e] <= 1
      BY DEF OnceInv, Claims
    <3>1. CASE e = Top.job
      <4>1. answers'[e] = 0 /\ e \notin pending' /\ future'[e] # "new"
        BY <1>0, <1>4, <3>1 DEF OnceInv
      <4>2. \A n \in 1 .. Depth : n # Depth => ~Claims(stack'[n], e)
        BY <1>4, <2>6, <3>1 DEF OnceInv, Unclaimed
      <4> QED
        BY <2>6, <4>1, <4>2
    <3>2. CASE e # Top.job
      <4>1. answers'[e] = answers[e] /\ future'[e] = future[e] /\ (e \in pending' <=> e \in pending)
        BY <1>0, <3>2
      <4>2. \A n \in 1 .. Depth : Claims(stack'[n], e) => Claims(stack[n], e)
        BY <2>6, <3>2
      <4> QED
        BY <2>6, <4>1, <4>2 DEF OnceInv, Unclaimed, Claims
    <3> QED
      BY <3>1, <3>2
  <2> QED
    BY <1>2, <2>1, <2>7
<1> QED
  BY <1>3, <1>4
-----------------------------------------------------------------------------
(* The invariant.                                                           *)

\* The invariant holds at first ...
LEMMA InitInv == Init => IInv
<1> SUFFICES ASSUME Init
             PROVE  IInv
  OBVIOUS
<1>1. Frame("check") \in WorkFrames /\ ~Frame("check").inside
      /\ Frame("check").at \notin Claiming /\ Frame("check").at \notin Handling
  BY DEF Frame, WorkFrames, Frames, Places, Busy, Claiming, Handling
<1>2. stack = <<Frame("check")>> /\ signals = 0 /\ lock = [l \in Locks |-> 0]
  BY DEF Init
<1> HIDE DEF Frame
<1>3. StackInv /\ Depth = 1 /\ stack[1] = Frame("check")
  BY <1>1, <1>2, ShutdownAssumption DEF StackInv, Depth
<1>4. LockInv
  BY <1>1, <1>2, <1>3 DEF LockInv
<1>5. RestInv
  <2>1. losses \in 0 .. MaxLosses
    BY ShutdownAssumption DEF Init
  <2>2. answers \in [Deliveries -> Nat] /\ future \in [Deliveries -> {"new", "taken", "running", "done"}]
    BY DEF Init
  <2> QED
    BY <2>1, <2>2 DEF Init, RestInv
<1>6. OnceInv
  BY <1>1, <1>3 DEF Init, OnceInv, Unclaimed, Claims
<1> QED
  BY <1>3, <1>4, <1>5, <1>6 DEF IInv, Shape

\* ... and every step keeps it.
LEMMA NextInv == IInv /\ [Next]_vars => IInv'
<1> SUFFICES ASSUME IInv, [Next]_vars
             PROVE  Shape' /\ OnceInv'
  BY DEF IInv
<1>1. ASSUME Shape' /\ Still
      PROVE  Shape' /\ OnceInv'
  BY <1>1, QuietKeeps DEF IInv, Still
<1>2. CASE Main
  <2>1. CASE Enter
    BY <1>1, <2>1, EnterStep
  <2>2. CASE Leave \/ Set \/ Drain \/ Submit \/ ShutPool
    BY <1>1, <2>2, LeaveSteps
  <2>3. CASE \/ Check \/ Connect \/ Dial \/ Declare \/ Start \/ LoopEnds \/ Except
             \/ Ensure \/ Work \/ RaiseInMain \/ Cancel \/ NoPool \/ Join
    BY <1>1, <2>3, GotoSteps
  <2>4. CASE Hook \/ ScheduleAtOnce \/ Ack \/ SubmitFails \/ DrainNext \/ Close
    BY <1>1, <2>4, HookStep, ScheduleAtOnceStep, SettleSteps, DrainNextStep, CloseStep
  <2>5. CASE \E d \in Deliveries : RunScheduled(d)
    BY <1>1, <2>5, RunScheduledStep
  <2>6. CASE Raise
    BY <1>1, <2>6, RaiseStep
  <2>7. CASE Add \/ Pop \/ Complete
    BY <2>7, AddStep, PopStep, CompleteStep
  <2> QED
    BY <1>2, <2>1, <2>2, <2>3, <2>4, <2>5, <2>6, <2>7 DEF Main
<1>3. CASE Pool \/ ConnectionLost
  BY <1>1, <1>3, OtherSteps
<1>4. CASE Signal
  BY <1>1, <1>4, SignalStep
<1>5. CASE \E d \in Deliveries : OnExtractionMessage(d)
  BY <1>5, OnExtractionMessageStep
<1>6. CASE UNCHANGED vars
  BY <1>6 DEF vars, brokerVars, futureVars, answerVars, flagVars, IInv, Shape, StackInv, LockInv,
              RestInv, OnceInv, Unclaimed, Claims, Depth
<1> QED
  BY <1>2, <1>3, <1>4, <1>5, <1>6 DEF Next
-----------------------------------------------------------------------------
\* Type correctness, and that a lock is held by the frame that is inside of a section
\* of it, however deep signals interrupt each other.
THEOREM TypeCorrect == Spec => []TypeOK
<1>1. Init => IInv
  BY InitInv
<1>2. IInv /\ [Next]_vars => IInv'
  BY NextInv
<1>3. IInv => TypeOK
  <2> SUFFICES ASSUME IInv
               PROVE  TypeOK
    OBVIOUS
  <2>1. stack \in Seq(Frames)
    BY DEF IInv, Shape, StackInv, WorkFrames
  <2>2. Depth \in 1 .. MaxSignals + 1
    BY ShutdownAssumption DEF IInv, Shape, StackInv
  <2> QED
    BY <2>1, <2>2 DEF IInv, Shape, StackInv, LockInv, RestInv, TypeOK
<1> QED
  BY <1>1, <1>2, <1>3, PTL DEF Spec

\* No delivery is answered twice by the worker that has it: of the callback and the
\* handlers that interrupt it, one takes it from the table of pending deliveries.
THEOREM OneAnswer == Spec => []AnsweredOnce
<1>1. Init => IInv
  BY InitInv
<1>2. IInv /\ [Next]_vars => IInv'
  BY NextInv
<1>3. IInv => AnsweredOnce
  BY DEF IInv, OnceInv, AnsweredOnce
<1> QED
  BY <1>1, <1>2, <1>3, PTL DEF Spec
-----------------------------------------------------------------------------
\* A handler runs stop(), the drain in it or _finish_future in that, and nothing of main().
HandlerPlaces == Handling \cup {"pop", "complete", "put", "ack", "raising"}
HandlerInv    == \A n \in 2 .. Depth : stack[n].at \in HandlerPlaces

\* Somebody has every delivery that is not settled, or main() had it when an exception
\* came: one that ends a handler's _finish_future finds its delivery settled or lost.
Ended              == {"raising", "except", "close_store", "exited"}
Holding            == Claiming \cup {"put", "ack"} \cup Ended
HoldingAt(n)       == IF n = 1 THEN Holding ELSE Holding \ Ended
Holds(frame, n, d) == frame.job = d /\ frame.at \in HoldingAt(n)
HeldInv ==
    \A d \in live \ settled : d \in pending \/ \E n \in 1 .. Depth : Holds(stack[n], n, d)

\* A handler that is done with its drain.
Drained    == {"shut_pool", "join", "close"}
DrainedInv ==
    \A n \in 2 .. Depth :
        stack[n].at \in Drained =>
            pending = {} /\ \A k \in n + 1 .. Depth : stack[k].at \notin Holding

\* Where there is a handler, it has set the event, or is about to.
SetInv == \A n \in 2 .. Depth : stack[n].at # "set" => shutdown

\* What a callback leaves behind is not live, unless the process ends.
EndedInv == stack[1].at \notin Busy /\ stack[1].job \in live => shutdown

GiveInv == HandlerInv /\ HeldInv /\ DrainedInv /\ SetInv /\ EndedInv

-----------------------------------------------------------------------------
\* What a step of the running frame, which becomes f, has to do for the invariant.
Orderly(f) ==
    /\ Depth # 1 => /\ f.at \in HandlerPlaces
                    /\ pending = {} => pending' = {} /\ (f.at \in Holding => Top.at \in Holding)
    /\ f.at \in Drained => Top.at \in Drained \/ pending' = {}
    /\ \A d \in live' \ settled' :
           \/ d \in pending' \/ Holds(f, Depth, d)
           \/ d \in live \ settled /\ d \notin pending /\ ~Holds(Top, Depth, d)
    /\ shutdown => shutdown'
    /\ Depth # 1 /\ f.at # "set" => Top.at # "set" \/ shutdown'
    /\ Depth # 1 => live' \subseteq live
    /\ Depth = 1 /\ f.at \notin Busy /\ f.job \in live' => shutdown'

\* A step of the running frame that does so keeps the invariant.
LEMMA OrderlyKeeps ==
    ASSUME StackInv, GiveInv, NEW f \in WorkFrames, Becomes(f), Orderly(f)
    PROVE  GiveInv'
<1> USE DEF GiveInv
<1>1. /\ Depth' = Depth /\ stack'[Depth] = f /\ Depth \in Nat /\ Depth \in 1 .. Depth
      /\ \A n \in 1 .. Depth : n # Depth => stack'[n] = stack[n]
  BY Replaced, TopType
<1>2. HandlerInv'
  BY <1>1 DEF HandlerInv, Orderly
<1>3. HeldInv'
  <2> SUFFICES ASSUME NEW d \in live' \ settled'
               PROVE  d \in pending' \/ \E n \in 1 .. Depth : Holds(stack'[n], n, d)
    BY <1>1 DEF HeldInv, Holds
  <2>1. CASE d \in pending' \/ Holds(f, Depth, d)
    BY <1>1, <2>1
  <2>2. CASE d \in live \ settled /\ d \notin pending /\ ~Holds(Top, Depth, d)
    <3>1. PICK n \in 1 .. Depth : Holds(stack[n], n, d)
      BY <2>2 DEF HeldInv
    <3>2. n # Depth
      BY <2>2, <3>1 DEF Top
    <3> QED
      BY <1>1, <3>1, <3>2
  <2> QED
    BY <2>1, <2>2 DEF Orderly
<1>4. DrainedInv'
  <2> SUFFICES ASSUME NEW n \in 2 .. Depth, stack'[n].at \in Drained
               PROVE  pending' = {} /\ \A k \in n + 1 .. Depth : stack'[k].at \notin Holding
    BY <1>1 DEF DrainedInv
  <2>1. CASE n = Depth
    <3>1. stack[n].at \in Drained => pending = {}
      BY DEF DrainedInv
    <3>2. pending' = {}
      BY <1>1, <2>1, <3>1 DEF Orderly, Top
    <3> QED
      BY <1>1, <2>1, <3>2
  <2>2. CASE n # Depth
    <3>1. pending = {} /\ \A k \in n + 1 .. Depth : stack[k].at \notin Holding
      BY <1>1, <2>2 DEF DrainedInv
    <3>2. pending' = {} /\ f.at \notin Holding
      BY <1>1, <2>2, <3>1 DEF Orderly, Top
    <3> QED
      BY <1>1, <3>1, <3>2
  <2> QED
    BY <2>1, <2>2
<1>5. SetInv'
  BY <1>1 DEF SetInv, Orderly, Top
<1>6. EndedInv'
  <2>1. CASE Depth = 1
    BY <1>1, <2>1 DEF EndedInv, Orderly
  <2>2. CASE Depth # 1
    <3>1. stack'[1] = stack[1] /\ live' \subseteq live /\ (shutdown => shutdown')
      BY <1>1, <2>2 DEF Orderly
    <3> QED
      BY <3>1 DEF EndedInv
  <2> QED
    BY <2>1, <2>2
<1> QED
  BY <1>2, <1>3, <1>4, <1>5, <1>6

\* The running frame goes on at s with its delivery.
Continues(s) == \E f \in WorkFrames : Becomes(f) /\ f.at = s /\ f.job = Top.job

\* The ways to go on are a statement without a lock, ...
LEMMA GotoContinues ==
    ASSUME StackInv, NEW s \in Places, s \in Busy => Top.at \in Busy, Goto(s)
    PROVE  Continues(s)
<1> DEFINE f == [Top EXCEPT !.at = s]
<1>1. Top \in WorkFrames
  BY TopType
<1>2. s \in Busy => Top.job \in Deliveries
  BY <1>1 DEF WorkFrames
<1>3. f \in WorkFrames /\ f.at = s /\ f.job = Top.job
  BY <1>1, <1>2, AtAnother, Zenon
<1>4. Becomes(f)
  BY DEF Goto, Becomes, Top
<1> HIDE DEF f
<1> QED
  BY <1>3, <1>4 DEF Continues

\* ... a section that is left as some frame, ...
LEMMA LeaveAsContinues ==
    ASSUME StackInv, NEW g \in WorkFrames, g.job = Top.job, LeaveAs(g)
    PROVE  Continues(g.at)
<1> DEFINE f == [g EXCEPT !.inside = FALSE]
<1>1. f \in WorkFrames /\ f.at = g.at /\ f.job = g.job
  BY DEF WorkFrames, Frames
<1>2. Becomes(f)
  BY DEF LeaveAs, Becomes
<1> HIDE DEF f
<1> QED
  BY <1>1, <1>2 DEF Continues

\* ... or left for the next statement.
LEMMA LeaveToContinues ==
    ASSUME StackInv, NEW s \in Places, s \in Busy => Top.at \in Busy, LeaveTo(s)
    PROVE  Continues(s)
<1> DEFINE g == [Top EXCEPT !.at = s]
<1>1. Top \in WorkFrames
  BY TopType
<1>2. s \in Busy => Top.job \in Deliveries
  BY <1>1 DEF WorkFrames
<1>3. g \in WorkFrames /\ g.at = s /\ g.job = Top.job
  BY <1>1, <1>2, AtAnother, Zenon
<1>4. LeaveAs(g)
  BY DEF LeaveTo
<1> HIDE DEF g
<1> QED
  BY <1>3, <1>4, LeaveAsContinues

\* A place that may follow the one where the frame is.
Follows(s) ==
    /\ Top.at \in HandlerPlaces => s \in HandlerPlaces \/ IsMain
    /\ s \in Drained => Top.at \in Drained \/ pending = {}
    /\ s \in Holding => Top.at \in Holding \/ Top.at \notin HandlerPlaces
    /\ Top.at \in HoldingAt(Depth) => s \in HoldingAt(Depth) \/ Top.job \notin live
    /\ s # "set" => Top.at # "set" \/ shutdown'
    /\ s \notin Busy /\ Top.at \in Busy => Top.job \notin live

\* A frame that goes on where it may keeps the invariant.
LEMMA ContinuesKeeps ==
    ASSUME StackInv, GiveInv, NEW s, Continues(s), Follows(s),
           pending' = pending, live' = live, settled' = settled, shutdown => shutdown'
    PROVE  GiveInv'
<1>1. PICK f \in WorkFrames : Becomes(f) /\ f.at = s /\ f.job = Top.job
  BY DEF Continues
<1>2. Depth # 1 => Top.at \in HandlerPlaces
  BY TopType DEF GiveInv, HandlerInv, Top
<1>3. Orderly(f)
  BY <1>1, <1>2 DEF Orderly, Follows, Holds, GiveInv, EndedInv, Top, IsMain
<1> QED
  BY <1>1, <1>3, OrderlyKeeps

\* A handler's frame goes on with the drain.
LEMMA ReturnsTo ==
    ASSUME NEW f \in WorkFrames, NEW n \in Nat
    PROVE  n # 1 => Return(f, n).at = "next"
<1> SUFFICES ASSUME n # 1
             PROVE  Return(f, n).at = "next"
  OBVIOUS
<1>1. Return(f, n) = [f EXCEPT !.at = "next", !.inside = FALSE, !.job = None]
  BY DEF Return
<1> QED
  BY <1>1 DEF WorkFrames, Frames

\* Where a step is one of main(), it runs at the bottom.
LEMMA MainOnly ==
    ASSUME StackInv, GiveInv, Top.at \notin HandlerPlaces
    PROVE  Depth = 1
BY TopType DEF GiveInv, HandlerInv, Top
-----------------------------------------------------------------------------
(* The actions.                                                             *)

\* The statements that only go on.
LEMMA GotoGives ==
    ASSUME IInv, GiveInv,
           \/ Check \/ Connect \/ Dial \/ Declare \/ Start \/ LoopEnds \/ Except
           \/ Ensure \/ Work \/ RaiseInMain \/ Cancel \/ NoPool \/ Join
    PROVE  GiveInv'
<1> USE DEF IInv, Shape
<1>1. pending' = pending /\ live' = live /\ settled' = settled /\ shutdown' = shutdown
  BY DEF Check, Connect, Dial, Declare, Start, LoopEnds, Except, Ensure, Work, RaiseInMain, Cancel,
         NoPool, Join, brokerVars, futureVars, answerVars, flagVars
<1>2. ASSUME NEW s \in Places, Goto(s), s \in Busy => Top.at \in Busy, Follows(s)
      PROVE  GiveInv'
  BY <1>1, <1>2, GotoContinues, ContinuesKeeps
<1>3. CASE Work
  <2>1. /\ Goto(After[Top.at]) /\ Top.at \in {"record", "put", "close_store"}
    BY <1>3, PlaceFacts DEF Work
  <2>2. After[Top.at] \in Places /\ (After[Top.at] \in Busy => Top.at \in Busy)
    BY <2>1, PlaceFacts
  <2>3. After["record"] = "ensure" /\ After["put"] = "ack" /\ After["close_store"] = "exited"
    BY DEF After
  <2>4. Follows(After[Top.at])
    BY <2>1, <2>3
       DEF Follows, HandlerPlaces, Handling, Drained, Holding, HoldingAt, Claiming, Ended, Busy
  <2> QED
    BY <1>2, <2>1, <2>2, <2>4
<1>4. CASE Except
  <2>1. PICK s \in {"close_store", "relatch"} : /\ Goto(s) /\ Top.at = "except"
                                                /\ s = "relatch" => ~shutdown
    BY <1>4 DEF Except, At
  <2>2. Depth = 1 /\ Top = stack[1]
    BY <2>1, MainOnly DEF HandlerPlaces, Handling, Top
  <2>3. s = "relatch" => Top.job \notin live
    BY <2>1, <2>2 DEF GiveInv, EndedInv, Busy
  <2>4. Follows(s)
    BY <2>1, <2>3
       DEF Follows, HandlerPlaces, Handling, Drained, Holding, HoldingAt, Claiming, Ended, Busy
  <2>5. s \in Places /\ s \notin Busy
    BY <2>1, PlaceFacts DEF Places, Busy
  <2> QED
    BY <1>2, <2>1, <2>4, <2>5
<1>5. CASE \/ Check \/ Connect \/ Dial \/ Declare \/ Start \/ LoopEnds
           \/ Ensure \/ RaiseInMain \/ Cancel \/ NoPool \/ Join
  <2>1. PICK s \in Places : /\ Goto(s) /\ (s \in Busy => Top.at \in Busy)
                            /\ s \in HandlerPlaces \/ Top.at \notin HandlerPlaces \/ IsMain
                            /\ s \in Drained => Top.at \in Drained
                            /\ s \in Holding => Top.at \in Holding \/ Top.at \notin HandlerPlaces
                            /\ Top.at \in HoldingAt(Depth) => s \in HoldingAt(Depth)
                            /\ Top.at # "set" /\ (Top.at \in Busy => s \in Busy)
    BY <1>5, PlaceFacts
       DEF Check, Connect, Dial, Declare, Start, LoopEnds, Ensure, RaiseInMain, Cancel, NoPool,
           Join,
           At, Places, Busy, HandlerPlaces, Handling, Drained, Holding, HoldingAt, Claiming, Ended
  <2> QED
    BY <1>2, <2>1 DEF Follows
<1> QED
  BY <1>3, <1>4, <1>5

\* Taking a lock.
LEMMA EnterGives ==
    ASSUME IInv, GiveInv, Enter
    PROVE  GiveInv'
<1> DEFINE f == [Top EXCEPT !.inside = TRUE]
<1>1. f \in WorkFrames /\ f.at = Top.at /\ f.job = Top.job
  BY TopType DEF WorkFrames, Frames, IInv, Shape
<1>2. Becomes(f)
  BY DEF Enter, Becomes, Top
<1> HIDE DEF f
<1>3. Continues(Top.at) /\ Follows(Top.at)
  BY <1>1, <1>2 DEF Continues, Follows
<1>4. pending' = pending /\ live' = live /\ settled' = settled /\ shutdown' = shutdown
  BY DEF Enter, brokerVars, futureVars, answerVars, flagVars
<1> QED
  BY <1>3, <1>4, ContinuesKeeps DEF IInv, Shape

\* Leaving a section.
LEMMA LeaveGives ==
    ASSUME IInv, GiveInv, Leave \/ Set \/ Drain \/ Submit \/ ShutPool
    PROVE  GiveInv'
<1> USE DEF IInv, Shape
<1>1. pending' = pending /\ live' = live /\ settled' = settled /\ (shutdown => shutdown')
  BY DEF Leave, Set, Drain, Submit, ShutPool, brokerVars, futureVars, answerVars, flagVars
<1>2. CASE Leave
  <2>1. /\ LeaveTo(After[Top.at]) /\ After[Top.at] \in Places
        /\ After[Top.at] \in Busy => Top.at \in Busy
    BY <1>2, PlaceFacts DEF Leave
  <2>2. Follows(After[Top.at])
    BY <1>2
       DEF Leave, After, Follows, HandlerPlaces, Handling, Drained, Holding, HoldingAt, Claiming,
           Ended,
           Busy
  <2> QED
    BY <1>1, <2>1, <2>2, LeaveToContinues, ContinuesKeeps
<1>3. CASE Set
  <2>1. LeaveTo("unlatch") /\ "unlatch" \in Places /\ "unlatch" \notin Busy
    BY <1>3, PlaceFacts DEF Set, Places, Busy
  <2>2. Follows("unlatch")
    BY <1>3
       DEF Set, Inside, Follows, HandlerPlaces, Handling, Drained, Holding, HoldingAt, Claiming,
           Ended,
           Busy
  <2> QED
    BY <1>1, <2>1, <2>2, LeaveToContinues, ContinuesKeeps
<1>4. CASE Drain
  <2> DEFINE s == IF pending = {} THEN "shut_pool" ELSE "next"
             g == [Top EXCEPT !.at = s, !.left = pending]
  <2>1. s \in Places /\ s \notin Busy
    BY PlaceFacts DEF Places, Busy
  <2>2. LeaveAs(g)
    BY <1>4 DEF Drain
  <2>3. Follows(s)
    BY <1>4
       DEF Drain, Inside, Follows, HandlerPlaces, Handling, Drained, Holding, HoldingAt, Claiming,
           Ended,
           Busy
  <2> HIDE DEF s
  <2>4. g \in WorkFrames /\ g.at = s /\ g.job = Top.job
    BY <2>1, TopType DEF WorkFrames, Frames, RestInv
  <2> HIDE DEF g
  <2>5. Continues(s)
    BY <2>2, <2>4, LeaveAsContinues
  <2> QED
    BY <1>1, <2>3, <2>5, ContinuesKeeps
<1>5. CASE Submit \/ ShutPool
  <2>1. PICK s \in Places : /\ LeaveTo(s) /\ (s \in Busy => Top.at \in Busy)
                            /\ Follows(s)
    BY <1>5, PlaceFacts
       DEF Submit, ShutPool, Inside, Places, Busy, Follows, HandlerPlaces, Handling, Drained,
           Holding,
           HoldingAt, Claiming, Ended
  <2> QED
    BY <1>1, <2>1, LeaveToContinues, ContinuesKeeps
<1> QED
  BY <1>2, <1>3, <1>4, <1>5

\* The callbacks of the event loop, which run at the bottom.
LEMMA LoopGives ==
    ASSUME IInv, GiveInv, Hook \/ ScheduleAtOnce
                          \/ \E d \in Deliveries : OnExtractionMessage(d) \/ RunScheduled(d)
    PROVE  GiveInv'
<1> USE DEF IInv, Shape
<1>1. CASE Hook
  <2>1. Top.at = "hook" /\ pending' = pending /\ live' = live /\ settled' = settled
        /\ shutdown' = shutdown
    BY <1>1 DEF Hook, At, brokerVars, answerVars, flagVars
  <2>2. CASE EndCallback
    <3> DEFINE f == [Top EXCEPT !.at = "loop", !.job = None]
    <3>1. f \in WorkFrames /\ f.at = "loop" /\ f.job = None
      BY TopType DEF WorkFrames, Frames, Places, Busy
    <3>2. Becomes(f)
      BY <2>2 DEF EndCallback, Becomes, Top
    <3> HIDE DEF f
    <3>3. Depth = 1
      BY <2>1, MainOnly DEF HandlerPlaces, Handling
    <3>4. Orderly(f)
      BY <2>1, <3>1, <3>3, ShutdownAssumption
         DEF Orderly, Drained, Holds, Holding, HoldingAt, Claiming, Ended, RestInv
    <3> QED
      BY <3>1, <3>2, <3>4, OrderlyKeeps
  <2>3. CASE Goto("schedule")
    <3>1. Continues("schedule") /\ Follows("schedule")
      BY <2>1, <2>3, GotoContinues, PlaceFacts
         DEF Follows, Places, Busy, Drained, Holding, HoldingAt, Claiming, Ended, HandlerPlaces,
             Handling
    <3> QED
      BY <2>1, <3>1, ContinuesKeeps
  <2> QED
    BY <1>1, <2>2, <2>3 DEF Hook
<1>2. ASSUME NEW d \in Deliveries, OnExtractionMessage(d)
      PROVE  GiveInv'
  <2> DEFINE f == [Top EXCEPT !.at = "record", !.job = d]
  <2>1. f \in WorkFrames /\ f.at = "record" /\ f.job = d
    BY TopType, PlaceFacts DEF WorkFrames, Frames, Places, Busy
  <2>2. Becomes(f) /\ Top.at = "loop"
    BY <1>2 DEF OnExtractionMessage, At, Becomes, Top
  <2>3. pending' = pending /\ live' = live \cup {d} /\ settled' = settled /\ shutdown' = shutdown
    BY <1>2 DEF OnExtractionMessage, answerVars, flagVars
  <2> HIDE DEF f
  <2>4. Depth = 1
    BY <2>2, MainOnly DEF HandlerPlaces, Handling
  <2>5. Orderly(f)
    BY <2>1, <2>2, <2>3, <2>4 DEF Orderly, Drained, Holds, Holding, HoldingAt, Claiming, Ended, Busy
  <2> QED
    BY <2>1, <2>2, <2>5, OrderlyKeeps
<1>3. ASSUME NEW d \in Deliveries, RunScheduled(d)
      PROVE  GiveInv'
  <2> DEFINE f == [Top EXCEPT !.at = "pop", !.job = d]
  <2>1. f \in WorkFrames /\ f.at = "pop"
    BY TopType, PlaceFacts DEF WorkFrames, Frames, Places, Busy
  <2>2. Becomes(f) /\ Top.at = "loop"
    BY <1>3 DEF RunScheduled, At, Becomes, Top
  <2>3. pending' = pending /\ live' = live /\ settled' = settled /\ shutdown' = shutdown
    BY <1>3 DEF RunScheduled, futureVars, answerVars, flagVars
  <2> HIDE DEF f
  <2>4. Depth = 1
    BY <2>2, MainOnly DEF HandlerPlaces, Handling
  <2>5. Orderly(f)
    BY <2>1, <2>2, <2>3, <2>4 DEF Orderly, Drained, Holds, Holding, HoldingAt, Claiming, Ended, Busy
  <2> QED
    BY <2>1, <2>2, <2>5, OrderlyKeeps
<1>4. CASE ScheduleAtOnce
  <2> DEFINE g == [Top EXCEPT !.at = "loop", !.job = None]
             f == [g EXCEPT !.inside = FALSE]
  <2>1. f \in WorkFrames /\ f.at = "loop" /\ f.job = None
    BY TopType DEF WorkFrames, Frames, Places, Busy
  <2>2. Top.at = "schedule" /\ LeaveAs(g) /\ live' = live /\ settled' = settled
        /\ shutdown' = shutdown /\ pending' \subseteq pending
        /\ \A d \in live : d \in pending => d \in pending'
    BY <1>4 DEF ScheduleAtOnce, ScheduleOrDrop, Inside, answerVars, flagVars
  <2>3. Becomes(f)
    BY <2>2 DEF LeaveAs, Becomes
  <2> HIDE DEF f, g
  <2>4. Depth = 1
    BY <2>2, MainOnly DEF HandlerPlaces, Handling
  <2>5. Orderly(f)
    BY <2>1, <2>2, <2>4, ShutdownAssumption
       DEF Orderly, Drained, Holds, Holding, HoldingAt, Claiming, Ended, RestInv
  <2> QED
    BY <2>1, <2>3, <2>5, OrderlyKeeps
<1> QED
  BY <1>1, <1>2, <1>3, <1>4

\* _finish_future and the drain around it.
LEMMA FinishGives ==
    ASSUME IInv, GiveInv, Add \/ Pop \/ Complete \/ Ack \/ SubmitFails \/ DrainNext
    PROVE  GiveInv'
<1> USE DEF IInv, Shape
<1>0. Depth # 1 => Top.at \in HandlerPlaces
  BY TopType DEF GiveInv, HandlerInv, Top
<1>1. CASE Add
  <2>1. LeaveTo("hook") /\ Top.at = "add"
        /\ pending' = pending \cup {Top.job} /\ live' = live /\ settled' = settled
        /\ shutdown' = shutdown
    BY <1>1 DEF Add, Inside, brokerVars, answerVars, flagVars
  <2>2. Continues("hook")
    BY <2>1, LeaveToContinues DEF Places, Busy
  <2>3. PICK f \in WorkFrames : Becomes(f) /\ f.at = "hook" /\ f.job = Top.job
    BY <2>2 DEF Continues
  <2>4. Depth = 1
    BY <2>1, MainOnly DEF HandlerPlaces, Handling
  <2>5. Orderly(f)
    BY <2>1, <2>3, <2>4 DEF Orderly, Drained, Holds, Holding, HoldingAt, Claiming, Ended, Busy
  <2> QED
    BY <2>3, <2>5, OrderlyKeeps
<1>2. CASE Pop
  <2>0. Top.at = "pop" /\ pending' = pending \ {Top.job} /\ live' = live /\ settled' = settled
        /\ shutdown' = shutdown
    BY <1>2 DEF Pop, Inside, brokerVars, answerVars, flagVars
  <2>1. CASE Top.job \notin pending
    <3> DEFINE g == Return(Top, Depth)
               f == [g EXCEPT !.inside = FALSE]
    <3>1. g \in WorkFrames /\ g.at \in {"loop", "next"} /\ (Depth # 1 => g.at = "next")
        /\ g.job = None
      BY TopType, Returns, ReturnsTo
    <3>2. LeaveAs(g)
      BY <1>2, <2>1 DEF Pop
    <3> HIDE DEF g
    <3>3. f \in WorkFrames /\ f.at = g.at /\ f.job = None
      BY <3>1 DEF WorkFrames, Frames
    <3>4. Becomes(f)
      BY <3>2 DEF LeaveAs, Becomes
    <3> HIDE DEF f
    <3>5. Orderly(f)
      BY <2>0, <2>1, <3>1, <3>3, ShutdownAssumption
         DEF Orderly, Drained, Holds, Holding, HoldingAt, Claiming, Ended, Busy, HandlerPlaces,
             Handling, RestInv
    <3> QED
      BY <3>3, <3>4, <3>5, OrderlyKeeps
  <2>2. CASE Top.job \in pending
    <3>1. LeaveTo("complete")
      BY <1>2, <2>2 DEF Pop
    <3>2. Continues("complete")
      BY <2>0, <3>1, LeaveToContinues DEF Places, Busy
    <3>3. PICK f \in WorkFrames : Becomes(f) /\ f.at = "complete" /\ f.job = Top.job
      BY <3>2 DEF Continues
    <3>4. Orderly(f)
      BY <2>0, <2>2, <3>3
         DEF Orderly, Drained, Holds, Holding, HoldingAt, Claiming, Ended, Busy, HandlerPlaces
    <3> QED
      BY <3>3, <3>4, OrderlyKeeps
  <2> QED
    BY <2>1, <2>2
<1>3. CASE Complete
  <2>1. /\ Top.at = "complete" /\ pending' = pending /\ live' = live /\ settled' = settled
        /\ shutdown' = shutdown
        /\ \/ Goto("put")
           \/ Goto("raising") /\ Top.job \notin live
    BY <1>3 DEF Complete, At, brokerVars, futureVars, flagVars
  <2>2. PICK s \in {"put", "raising"} : Goto(s) /\ (s = "raising" => Top.job \notin live)
    BY <2>1
  <2>3. Continues(s) /\ Follows(s)
    BY <2>1, <2>2, GotoContinues, PlaceFacts
       DEF Follows, Places, Drained, Holding, HoldingAt, Claiming, Ended, Busy, HandlerPlaces
  <2> QED
    BY <2>1, <2>3, ContinuesKeeps
<1>4. CASE Ack \/ SubmitFails
  <2>0. Top.at \in {"ack", "submit"} /\ pending' = pending /\ live' = live /\ shutdown' = shutdown
    BY <1>4 DEF Ack, SubmitFails, At, brokerVars, futureVars, flagVars
  <2>1. CASE Top.job \in live
    <3> DEFINE f == Return(Top, Depth)
    <3>1. f \in WorkFrames /\ f.at \in {"loop", "next"} /\ (Depth # 1 => f.at = "next")
        /\ f.job = None
      BY TopType, Returns, ReturnsTo
    <3>2. Becomes(f) /\ settled' = settled \cup {Top.job}
      BY <1>4, <2>1 DEF Ack, SubmitFails, Settle, Becomes
    <3> HIDE DEF f
    <3>3. Orderly(f)
      BY <2>0, <3>1, <3>2, ShutdownAssumption
         DEF Orderly, Drained, Holds, Holding, HoldingAt, Claiming, Ended, Busy, HandlerPlaces,
             Handling, RestInv
    <3> QED
      BY <3>1, <3>2, <3>3, OrderlyKeeps
  <2>2. CASE Top.job \notin live
    <3>1. Goto("raising") /\ settled' = settled
      BY <1>4, <2>2 DEF Ack, SubmitFails, Settle
    <3>2. Continues("raising") /\ Follows("raising")
      BY <2>0, <2>2, <3>1, GotoContinues
         DEF Follows, Places, Drained, Holding, HoldingAt, Claiming, Ended, Busy, HandlerPlaces
    <3> QED
      BY <2>0, <3>1, <3>2, ContinuesKeeps
  <2> QED
    BY <2>1, <2>2
<1>5. CASE DrainNext
  <2>0. Top.at = "next" /\ pending' = pending /\ live' = live /\ settled' = settled
        /\ shutdown' = shutdown
    BY <1>5 DEF DrainNext, At, brokerVars, futureVars, answerVars, flagVars
  <2>1. CASE Goto("drain")
    <3>1. Continues("drain") /\ Follows("drain")
      BY <2>0, <2>1, GotoContinues, PlaceFacts
         DEF Follows, Places, Drained, Holding, HoldingAt, Claiming, Ended, Busy, HandlerPlaces,
             Handling
    <3> QED
      BY <2>0, <3>1, ContinuesKeeps
  <2>2. ASSUME NEW d \in Top.left,
               stack' = [stack EXCEPT ![Depth] = [Top EXCEPT !.at = "pop", !.job = d,
                                                             !.left = Top.left \ {d}]]
        PROVE  GiveInv'
    <3> DEFINE f == [Top EXCEPT !.at = "pop", !.job = d, !.left = Top.left \ {d}]
    <3>1. d \in Deliveries
      BY TopType DEF Frames
    <3>2. f \in WorkFrames /\ f.at = "pop"
      BY <3>1, TopType, PlaceFacts DEF WorkFrames, Frames, Places, Busy
    <3>3. Becomes(f)
      BY <2>2 DEF Becomes
    <3> HIDE DEF f
    <3>4. Orderly(f)
      BY <2>0, <3>2
         DEF Orderly, Drained, Holds, Holding, HoldingAt, Claiming, Ended, Busy, HandlerPlaces
    <3> QED
      BY <3>2, <3>3, <3>4, OrderlyKeeps
  <2> QED
    BY <1>5, <2>1, <2>2 DEF DrainNext
<1> QED
  BY <1>1, <1>2, <1>3, <1>4, <1>5
-----------------------------------------------------------------------------
\* A handler begins.
LEMMA SignalGives ==
    ASSUME IInv, GiveInv, Signal
    PROVE  GiveInv'
<1> USE DEF IInv, Shape
<1>1. Frame("set").at = "set" /\ Frame("set") \in WorkFrames
  BY PlaceFacts DEF Frame, WorkFrames, Frames, Places, Busy
<1>2. pending' = pending /\ live' = live /\ settled' = settled /\ shutdown' = shutdown
  BY DEF Signal, brokerVars, futureVars, answerVars
<1> HIDE DEF Frame
<1>3. /\ Depth \in Nat /\ Depth' = Depth + 1 /\ stack'[Depth + 1] = Frame("set")
      /\ \A n \in 1 .. Depth : stack'[n] = stack[n]
  <2>1. stack' = Append(stack, Frame("set"))
    BY DEF Signal
  <2> QED
    BY <1>1, <2>1 DEF StackInv, Depth
<1>4. HandlerInv'
  BY <1>1, <1>3 DEF GiveInv, HandlerInv, HandlerPlaces, Handling
<1>5. HeldInv'
  BY <1>2, <1>3 DEF GiveInv, HeldInv, Holds
<1>6. DrainedInv'
  <2> SUFFICES ASSUME NEW n \in 2 .. Depth + 1, stack'[n].at \in Drained
               PROVE  pending = {} /\ \A k \in n + 1 .. Depth + 1 : stack'[k].at \notin Holding
    BY <1>2, <1>3 DEF DrainedInv
  <2>1. n # Depth + 1
    BY <1>1, <1>3 DEF Drained
  <2>2. n \in 2 .. Depth /\ stack[n].at \in Drained
    BY <1>3, <2>1
  <2>3. pending = {} /\ \A k \in n + 1 .. Depth : stack[k].at \notin Holding
    BY <2>2 DEF GiveInv, DrainedInv
  <2>4. stack'[Depth + 1].at \notin Holding
    BY <1>1, <1>3 DEF Holding, HoldingAt, Claiming, Ended
  <2> QED
    BY <1>3, <2>3, <2>4
<1>7. SetInv'
  BY <1>1, <1>2, <1>3 DEF GiveInv, SetInv
<1>8. EndedInv'
  BY <1>2, <1>3, TopType DEF GiveInv, EndedInv
<1> QED
  BY <1>4, <1>5, <1>6, <1>7, <1>8 DEF GiveInv

\* A handler ends: it has closed the connection, and nothing is live any more.
LEMMA CloseGives ==
    ASSUME IInv, GiveInv, Close
    PROVE  GiveInv'
<1> USE DEF IInv, Shape
<1>1. pending' = pending /\ settled' = settled /\ live' \subseteq live /\ shutdown' = shutdown
      /\ Top.at = "close" /\ Depth > 1
  <2>1. Top.at = "close"
    BY DEF Close, At
  <2> QED
    BY <2>1, TopType DEF Close, Gone, futureVars, answerVars, flagVars, Handling
<1>2. /\ Depth' = Depth - 1 /\ Depth \in Nat
      /\ \A n \in 1 .. Depth - 1 : stack'[n] = stack[n]
  <2>1. stack' = SubSeq(stack, 1, Depth - 1)
    BY DEF Close
  <2> QED
    BY <1>1, <2>1 DEF StackInv, Depth
<1>3. HandlerInv'
  BY <1>1, <1>2 DEF GiveInv, HandlerInv
<1>4. HeldInv'
  <2> SUFFICES ASSUME NEW d \in live' \ settled', d \notin pending
               PROVE  \E n \in 1 .. Depth - 1 : Holds(stack'[n], n, d)
    BY <1>1, <1>2 DEF HeldInv, Holds
  <2>1. PICK n \in 1 .. Depth : Holds(stack[n], n, d)
    BY <1>1 DEF GiveInv, HeldInv
  <2>2. n # Depth
    BY <1>1, <2>1 DEF Holds, Holding, HoldingAt, Claiming, Ended, Top
  <2> QED
    BY <1>2, <2>1, <2>2
<1>5. DrainedInv'
  BY <1>1, <1>2 DEF GiveInv, DrainedInv
<1>6. SetInv'
  BY <1>1, <1>2 DEF GiveInv, SetInv
<1>7. EndedInv'
  BY <1>1, <1>2 DEF GiveInv, EndedInv
<1> QED
  BY <1>3, <1>4, <1>5, <1>6, <1>7 DEF GiveInv

\* Where an exception leaves the frame below: it has what it had, or its delivery is
\* settled or was lost.
LEMMA HandledGives ==
    ASSUME NEW f \in WorkFrames, NEW n \in Nat, n # 1 => f.at \in HandlerPlaces
    PROVE  /\ n # 1 => Handled(f, n).at \in HandlerPlaces
           /\ Handled(f, n).at \notin Drained
           /\ \A d \in live \ GivenBack(f) : Holds(f, n, d) => Holds(Handled(f, n), n, d)
<1>1. CASE f.at \in {"record", "put"}
  <2> DEFINE s == After[f.at]
  <2>1. Handled(f, n) = [f EXCEPT !.at = s, !.inside = FALSE]
    BY <1>1 DEF Handled, GivenBack
  <2>2. s = IF f.at = "record" THEN "ensure" ELSE "ack"
    BY <1>1 DEF After
  <2> HIDE DEF s
  <2>3. Handled(f, n).at = s /\ Handled(f, n).job = f.job
    BY <2>1 DEF WorkFrames, Frames
  <2> QED
    BY <1>1, <2>2, <2>3
       DEF HandlerPlaces, Handling, Drained, Holding, HoldingAt, Claiming, Ended, Holds
<1>2. CASE f.at \notin {"record", "put"} /\ (f.at = "schedule" \/ GivenBack(f) # {})
  <2>1. Handled(f, n) = Return(f, n)
    BY <1>2 DEF Handled, GivenBack
  <2>2. f.at = "schedule" \/ f.job \in GivenBack(f)
    BY <1>2 DEF GivenBack
  <2>3. Return(f, n).at \in {"loop", "next"} /\ (n # 1 => Return(f, n).at = "next")
    BY Returns, ReturnsTo
  <2> QED
    BY <2>1, <2>2, <2>3
       DEF HandlerPlaces, Handling, Drained, Holding, HoldingAt, Claiming, Ended, Holds
<1>3. CASE f.at \notin {"record", "put", "schedule"} /\ GivenBack(f) = {}
  <2>1. PICK s \in {"exited", "raising"} : /\ Handled(f, n) = [f EXCEPT !.at = s, !.inside = FALSE]
                                           /\ f.at \in HandlerPlaces => s = "raising"
    BY <1>3 DEF Handled, HandlerPlaces, Handling
  <2>2. Handled(f, n).at = s /\ Handled(f, n).job = f.job
    BY <2>1 DEF WorkFrames, Frames
  <2> QED
    BY <1>3, <2>1, <2>2
       DEF HandlerPlaces, Handling, Drained, Holding, HoldingAt, Claiming, Ended, Holds, GivenBack
<1> QED
  BY <1>1, <1>2, <1>3

\* An exception leaves a handler, and no handler below it is done with its drain.
LEMMA RaiseGives ==
    ASSUME IInv, GiveInv, Raise
    PROVE  GiveInv'
<1> USE DEF IInv, Shape
<1> DEFINE below == stack[Depth - 1]
           f == Handled(below, Depth - 1)
<1>0. shutdown
  BY TopType DEF Raise, At, IsMain, Top, GiveInv, SetInv
<1>1. Depth > 1 /\ Depth \in Nat /\ Top.at = "raising"
      /\ pending' = pending /\ live' = live /\ settled' = settled \cup GivenBack(below)
      /\ shutdown' = shutdown
  BY TopType DEF Raise, At, IsMain, brokerVars, futureVars, flagVars
<1>2. /\ below \in WorkFrames /\ Depth - 1 \in Nat
      /\ Depth - 1 # 1 => below.at \in HandlerPlaces
  BY <1>1, TopType DEF GiveInv, HandlerInv
<1>3. /\ f \in WorkFrames
      /\ Depth - 1 # 1 => f.at \in HandlerPlaces
      /\ f.at \notin Drained
      /\ \A d \in live \ GivenBack(below) :
             Holds(below, Depth - 1, d) => Holds(f, Depth - 1, d)
  BY <1>2, HandledType, HandledGives
<1>4. stack' = Append(SubSeq(stack, 1, Depth - 2), f)
  BY DEF Raise
<1> HIDE DEF f
<1>5. /\ Depth' = Depth - 1 /\ stack'[Depth - 1] = f
      /\ \A n \in 1 .. Depth - 1 : n # Depth - 1 => stack'[n] = stack[n]
  BY <1>1, <1>3, <1>4, Unwound
<1> HIDE DEF below
<1>6. HandlerInv'
  <2> SUFFICES ASSUME NEW n \in 2 .. Depth - 1
               PROVE  stack'[n].at \in HandlerPlaces
    BY <1>5 DEF HandlerInv
  <2>1. stack[n].at \in HandlerPlaces
    BY <1>1 DEF GiveInv, HandlerInv
  <2>2. CASE n = Depth - 1
    BY <1>1, <1>3, <1>5, <2>1, <2>2 DEF below
  <2>3. CASE n # Depth - 1
    BY <1>1, <1>5, <2>1, <2>3
  <2> QED
    BY <2>2, <2>3
<1>7. HeldInv'
  <2> SUFFICES ASSUME NEW d \in live \ (settled \cup GivenBack(below)), d \notin pending
               PROVE  \E n \in 1 .. Depth - 1 : Holds(stack'[n], n, d)
    BY <1>1, <1>5 DEF HeldInv, Holds
  <2>1. PICK n \in 1 .. Depth : Holds(stack[n], n, d)
    BY DEF GiveInv, HeldInv
  <2>2. CASE n = Depth
    BY <1>1, <2>1, <2>2 DEF Holds, HoldingAt, Ended, Top
  <2>3. CASE n = Depth - 1
    BY <1>1, <1>3, <1>5, <2>1, <2>3 DEF below
  <2>4. CASE n # Depth /\ n # Depth - 1
    BY <1>1, <1>5, <2>1, <2>4
  <2> QED
    BY <2>2, <2>3, <2>4
<1>8. DrainedInv'
  <2> SUFFICES ASSUME NEW n \in 2 .. Depth - 1, stack'[n].at \in Drained
               PROVE  FALSE
    BY <1>1, <1>5 DEF DrainedInv
  <2>1. n # Depth - 1
    BY <1>3, <1>5
  <2>2. stack[n].at \in Drained /\ n \in 2 .. Depth /\ Depth \in n + 1 .. Depth
    BY <1>1, <1>5, <2>1
  <2>3. stack[Depth].at \notin Holding
    BY <2>2 DEF GiveInv, DrainedInv
  <2> QED
    BY <1>1, <2>3 DEF Holding, Ended, Top
<1>9. SetInv'
  BY <1>0, <1>1 DEF SetInv
<1>10. EndedInv'
  BY <1>0, <1>1 DEF EndedInv
<1> QED
  BY <1>6, <1>7, <1>8, <1>9, <1>10 DEF GiveInv

\* The pool's thread drops entries of closed channels only.
LEMMA OtherGives ==
    ASSUME IInv, GiveInv, Pool \/ ConnectionLost
    PROVE  GiveInv'
<1>1. stack' = stack /\ settled' = settled /\ shutdown' = shutdown
  BY 
     DEF Pool, ConnectionLost, ChildEnds, OnFutureDone, Schedule, ScheduleOrDrop, answerVars,
         flagVars
<1>2. /\ pending' \subseteq pending /\ live' \subseteq live
      /\ \A d \in live' : d \in pending => d \in pending'
  BY DEF Pool, ConnectionLost, Gone, ChildEnds, OnFutureDone, Schedule, ScheduleOrDrop, brokerVars,
         futureVars
<1>3. Depth' = Depth
  BY <1>1 DEF Depth
<1>4. HandlerInv'
  BY <1>1, <1>3 DEF GiveInv, HandlerInv
<1>5. HeldInv'
  BY <1>1, <1>2, <1>3 DEF GiveInv, HeldInv, Holds
<1>6. DrainedInv'
  BY <1>1, <1>2, <1>3 DEF GiveInv, DrainedInv
<1>7. SetInv'
  BY <1>1, <1>3 DEF GiveInv, SetInv
<1>8. EndedInv'
  BY <1>1, <1>2 DEF GiveInv, EndedInv
<1> QED
  BY <1>4, <1>5, <1>6, <1>7, <1>8 DEF GiveInv
-----------------------------------------------------------------------------
(* The invariant.                                                           *)

\* Every step keeps it.
LEMMA GivesNext == IInv /\ GiveInv /\ [Next]_vars => GiveInv'
<1> SUFFICES ASSUME IInv, GiveInv, [Next]_vars
             PROVE  GiveInv'
  OBVIOUS
<1>1. CASE Main
  <2>1. CASE Enter
    BY <2>1, EnterGives
  <2>2. CASE Leave \/ Set \/ Drain \/ Submit \/ ShutPool
    BY <2>2, LeaveGives
  <2>3. CASE \/ Check \/ Connect \/ Dial \/ Declare \/ Start \/ LoopEnds \/ Except
             \/ Ensure \/ Work \/ RaiseInMain \/ Cancel \/ NoPool \/ Join
    BY <2>3, GotoGives
  <2>4. CASE Hook \/ ScheduleAtOnce \/ \E d \in Deliveries : RunScheduled(d)
    BY <2>4, LoopGives
  <2>5. CASE Add \/ Pop \/ Complete \/ Ack \/ SubmitFails \/ DrainNext
    BY <2>5, FinishGives
  <2>6. CASE Close
    BY <2>6, CloseGives
  <2>7. CASE Raise
    BY <2>7, RaiseGives
  <2> QED
    BY <1>1, <2>1, <2>2, <2>3, <2>4, <2>5, <2>6, <2>7 DEF Main
<1>2. CASE Pool \/ ConnectionLost
  BY <1>2, OtherGives
<1>3. CASE Signal
  BY <1>3, SignalGives
<1>4. CASE \E d \in Deliveries : OnExtractionMessage(d)
  BY <1>4, LoopGives
<1>5. CASE UNCHANGED vars
  BY <1>5 DEF vars, brokerVars, futureVars, answerVars, flagVars, GiveInv, HandlerInv, HeldInv,
              DrainedInv, SetInv, EndedInv, Holds, Depth
<1> QED
  BY <1>1, <1>2, <1>3, <1>4, <1>5 DEF Next

\* A handler that closes the connection gives no delivery back but those that the
\* frames below it are at work on, or were until an exception ended the callback.
THEOREM OnlyInterrupted == Spec => []OnlyInterruptedIsGivenBack
<1>1. Init => IInv /\ GiveInv
  <2>1. Init => IInv
    BY InitInv
  <2>2. Init => Depth = 1 /\ live = {}
    BY DEF Init, Depth
  <2>3. Init => GiveInv
    BY <2>2 DEF GiveInv, HandlerInv, HeldInv, DrainedInv, SetInv, EndedInv, Init
  <2> QED
    BY <2>1, <2>3
<1>2. IInv /\ GiveInv /\ [Next]_vars => (IInv /\ GiveInv)'
  BY NextInv, GivesNext
<1>3. IInv /\ GiveInv => OnlyInterruptedIsGivenBack
  <2> SUFFICES ASSUME IInv, GiveInv, NEW n \in 2 .. Depth, stack[n].at = "close",
                      NEW d \in live \ settled
               PROVE  \E k \in 1 .. n - 1 : stack[k].job = d
    BY DEF OnlyInterruptedIsGivenBack
  <2>1. pending = {} /\ \A k \in n + 1 .. Depth : stack[k].at \notin Holding
    BY DEF GiveInv, DrainedInv, Drained
  <2>2. PICK k \in 1 .. Depth : Holds(stack[k], k, d)
    BY <2>1 DEF GiveInv, HeldInv
  <2>3. k # n
    BY <2>2 DEF Holds, Holding, HoldingAt, Claiming, Ended
  <2>4. Depth \in Nat
    BY TopType DEF IInv, Shape
  <2>5. k \in 1 .. n - 1
    BY <2>1, <2>2, <2>3, <2>4 DEF Holds, HoldingAt
  <2> QED
    BY <2>2, <2>5 DEF Holds
<1> QED
  BY <1>1, <1>2, <1>3, PTL DEF Spec
=============================================================================
