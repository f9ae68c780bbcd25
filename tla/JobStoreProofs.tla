--------------------------- MODULE JobStoreProofs ---------------------------
(***************************************************************************)
(* Proofs about JobStore for every set of jobs, batch size and bound.      *)
(*                                                                         *)
(* FinishedJobIsCounted is not inductive: a replay passes through the      *)
(* status `processing`, where only the suppress latch remembers that the   *)
(* job has been counted, and a batch is applied to the open transaction    *)
(* long before it shows in the database.  CountedInv therefore states the  *)
(* fact for the latch as well, and for both the committed contents and the *)
(* contents the transaction sees.                                          *)
(***************************************************************************)
EXTENDS JobStore, TLAPS

\* What is in memory names recorded events.
MemoryInv ==
    /\ \A i \in 1 .. Len(queue) : queue[i] \in 0 .. Len(events)
    /\ \A i \in 1 .. Len(batch) : batch[i] \in 1 .. Len(events)

\* The latch, like a terminal status, is only ever set for a counted job.
Counted(d) ==
    \A j \in Jobs : d.suppress[j] = 1 \/ d.status[j] \in Terminal => d.processed[j] + d.failed[j] >= 1

CountedInv == Counted(db) /\ Counted(txn)

IInv == TypeOK /\ MemoryInv /\ CountedInv

-----------------------------------------------------------------------------
\* Applying one event to well-typed contents gives well-typed contents.
LEMMA AppliedType ==
    ASSUME NEW d \in Database, NEW e \in [job : Jobs, status : Status]
    PROVE  Applied(d, e) \in Database
BY DEF Applied, Database, Status, RowStatus, Terminal, NextSuppress, OkDelta, ErrorDelta,
       CountsOutcome

\* Applying one event keeps every finished or latched job counted: an outcome is
\* left out of the totals only when the job is already in them.
LEMMA AppliedCounted ==
    ASSUME NEW d \in Database, NEW e \in [job : Jobs, status : Status], Counted(d)
    PROVE  Counted(Applied(d, e))
<1> DEFINE a == Applied(d, e)
<1> SUFFICES ASSUME NEW j \in Jobs, a.suppress[j] = 1 \/ a.status[j] \in Terminal
             PROVE  a.processed[j] + a.failed[j] >= 1
  BY DEF Counted
<1>1. CASE j # e.job
  BY <1>1 DEF Applied, Database, Counted
<1>2. CASE j = e.job
  <2> DEFINE s == d.status[j]
             r == d.suppress[j]
  <2>1. /\ a.suppress[j] = NextSuppress(s, r, e.status)
        /\ a.status[j] = e.status
        /\ a.processed[j] = d.processed[j] + OkDelta(s, r, e.status)
        /\ a.failed[j] = d.failed[j] + ErrorDelta(s, r, e.status)
    BY <1>2 DEF Applied, Database
  <2>2. r \in 0 .. 1 /\ s \in RowStatus /\ e.status \in Status
        /\ d.processed[j] \in Nat /\ d.failed[j] \in Nat
    BY DEF Database
  <2>3. r = 1 \/ s \in Terminal => d.processed[j] + d.failed[j] >= 1
    BY DEF Counted
  <2> QED
    BY <2>1, <2>2, <2>3 DEF NextSuppress, OkDelta, ErrorDelta, CountsOutcome, Status, RowStatus,
       Terminal, Processing, Ok, Error, NoRow
<1> QED
  BY <1>1, <1>2

\* Taking from and adding to a sequence of numbers in l .. n.
LEMMA TailBounded ==
    ASSUME NEW q \in Seq(Nat), q # <<>>, NEW l \in Nat, NEW n \in Nat,
           \A i \in 1 .. Len(q) : q[i] \in l .. n
    PROVE  /\ Tail(q) \in Seq(Nat) /\ Head(q) \in l .. n
           /\ \A i \in 1 .. Len(Tail(q)) : Tail(q)[i] \in l .. n
<1>1. Len(q) \in Nat /\ Len(q) >= 1 /\ Head(q) = q[1]
  OBVIOUS
<1>2. Len(Tail(q)) = Len(q) - 1 /\ \A i \in 1 .. Len(Tail(q)) : Tail(q)[i] = q[i + 1]
  OBVIOUS
<1> QED
  BY <1>1, <1>2

\* Appending a number in l .. n.
LEMMA AppendBounded ==
    ASSUME NEW q \in Seq(Nat), NEW l \in Nat, NEW n \in Nat, NEW x \in l .. n,
           \A i \in 1 .. Len(q) : q[i] \in l .. n
    PROVE  /\ Append(q, x) \in Seq(Nat)
           /\ Len(Append(q, x)) = Len(q) + 1
           /\ \A i \in 1 .. Len(Append(q, x)) : Append(q, x)[i] \in l .. n
<1>1. x \in Nat /\ Len(q) \in Nat
  OBVIOUS
<1>2. Append(q, x) \in Seq(Nat) /\ Len(Append(q, x)) = Len(q) + 1
  BY <1>1
<1>3. \A i \in 1 .. Len(q) + 1 : Append(q, x)[i] = IF i = Len(q) + 1 THEN x ELSE q[i]
  BY <1>1
<1> QED
  BY <1>1, <1>2, <1>3

\* An element of a sequence over S is in S.
LEMMA ElementTyped ==
    ASSUME NEW S, NEW q \in Seq(S), NEW i \in 1 .. Len(q)
    PROVE  q[i] \in S
OBVIOUS

\* The empty sequence is a sequence of event numbers and of events.
LEMMA EmptyTyped ==
    <<>> \in Seq(Nat) /\ <<>> \in Seq([job : Jobs, status : Status])
OBVIOUS

\* The batch of one event.
LEMMA SingletonBounded ==
    ASSUME NEW l \in Nat, NEW n \in Nat, NEW x \in l .. n
    PROVE  /\ <<x>> \in Seq(Nat) /\ Len(<<x>>) = 1
           /\ \A i \in 1 .. Len(<<x>>) : <<x>>[i] \in l .. n
OBVIOUS

\* Event numbers in memory are natural numbers.
LEMMA UnresolvedType == TypeOK => Unresolved \subseteq Nat
BY DEF TypeOK, Unresolved, NumbersIn
-----------------------------------------------------------------------------
\* The inductive invariant holds initially.
LEMMA InitInv == Init => IInv
<1> SUFFICES ASSUME Init PROVE IInv
  OBVIOUS
<1>1. EmptyDb \in Database
  BY DEF EmptyDb, Database, RowStatus
<1>2. Counted(EmptyDb)
  BY DEF Counted, EmptyDb, Terminal, NoRow, Ok, Error
<1>3. TypeOK
  BY <1>1, EmptyTyped DEF Init, TypeOK
<1>4. MemoryInv
  BY DEF Init, MemoryInv
<1> QED
  BY <1>2, <1>3, <1>4 DEF Init, IInv, CountedInv

\* Every step keeps it.
LEMMA NextInv == IInv /\ [Next]_vars => IInv'
<1> SUFFICES ASSUME IInv, [Next]_vars PROVE IInv'
  OBVIOUS
<1> USE DEF IInv
<1>0. BatchSize \in Nat /\ Unresolved \subseteq Nat /\ NumbersIn(batch) \subseteq Nat
  BY JobStoreAssumption, UnresolvedType DEF TypeOK, NumbersIn
<1>1. ASSUME NEW j \in Jobs, NEW s \in Status, EnqueueJob(j, s) PROVE IInv'
  <2> DEFINE e == [job |-> j, status |-> s]
  <2>1. /\ events' = Append(events, e) /\ events' \in Seq([job : Jobs, status : Status])
        /\ Len(events') = Len(events) + 1
    BY <1>1 DEF EnqueueJob, TypeOK
  <2>2. /\ queue' = Append(queue, Len(events) + 1) /\ queue' \in Seq(Nat)
    BY <1>1 DEF EnqueueJob, TypeOK
  <2>3. attempts' \in [Jobs -> Nat]
    BY <1>1 DEF EnqueueJob, TypeOK
  <2>4. TypeOK'
    BY <1>1, <2>1, <2>2, <2>3 DEF EnqueueJob, TypeOK
  <2>5. MemoryInv'
    BY <1>1, <2>1, <2>2 DEF EnqueueJob, TypeOK, MemoryInv
  <2> QED
    BY <1>1, <2>4, <2>5 DEF EnqueueJob, CountedInv
<1>2. ASSUME RequestStop PROVE IInv'
  <2>1. TypeOK'
    BY <1>2 DEF RequestStop, TypeOK, Stop
  <2>2. MemoryInv'
    <3>1. /\ Stop \in 0 .. Len(events) /\ Len(events) \in Nat
          /\ queue' = Append(queue, Stop) /\ UNCHANGED <<events, batch, applied>>
      BY <1>2 DEF RequestStop, TypeOK, Stop
    <3> QED
      BY <3>1, AppendBounded DEF TypeOK, MemoryInv
  <2> QED
    BY <1>2, <2>1, <2>2 DEF RequestStop, CountedInv
<1>3. ASSUME JoinReturns PROVE IInv'
  <2>1. TypeOK'
    BY <1>3, <1>0, EmptyTyped DEF JoinReturns, TypeOK
  <2>2. MemoryInv'
    BY <1>3 DEF JoinReturns, MemoryInv
  <2> QED
    BY <1>3, <2>1, <2>2 DEF JoinReturns, CountedInv
<1>4. ASSUME Crash PROVE IInv'
  <2>1. TypeOK'
    <3>1. /\ events' \in Seq([job : Jobs, status : Status])
          /\ queue' \in Seq(Nat) /\ batch' \in Seq(Nat) /\ applied' \in Nat
      BY <1>4, EmptyTyped DEF Crash, TypeOK
    <3>2. /\ attempts' \in [Jobs -> Nat] /\ lost' \subseteq Nat
          /\ committed' \subseteq Nat /\ dropped' \subseteq Nat
          /\ crashes' \in Nat /\ flushFailures' \in Nat /\ stopMark' \in Nat
      BY <1>4, <1>0 DEF Crash, TypeOK
    <3> QED
      BY <1>4, <3>1, <3>2 DEF Crash, TypeOK
  <2>2. MemoryInv'
    BY <1>4 DEF Crash, MemoryInv
  <2> QED
    BY <1>4, <2>1, <2>2 DEF Crash, CountedInv
<1>5. ASSUME Writer PROVE IInv'
  <2> USE DEF UnchangedByWriter, FlushReturns
  <2>0. queue # <<>> => /\ Tail(queue) \in Seq(Nat) /\ Head(queue) \in 0 .. Len(events)
                        /\ \A i \in 1 .. Len(Tail(queue)) : Tail(queue)[i] \in 0 .. Len(events)
    BY TailBounded DEF TypeOK, MemoryInv
  <2>a. \A x \in 1 .. Len(events) :
            /\ Append(batch, x) \in Seq(Nat) /\ Len(Append(batch, x)) = Len(batch) + 1
            /\ \A i \in 1 .. Len(Append(batch, x)) : Append(batch, x)[i] \in 1 .. Len(events)
    BY AppendBounded DEF TypeOK, MemoryInv
  <2>1. CASE TakeFirst
    <3>1. Head(queue) # Stop => Head(queue) \in 1 .. Len(events)
      BY <2>1, <2>0 DEF TakeFirst, TypeOK, Stop
    <3>2. TypeOK'
      <4>1. Tail(queue) \in Seq(Nat) /\ (Head(queue) # Stop => <<Head(queue)>> \in Seq(Nat))
        BY <2>1, <2>0, <3>1 DEF TakeFirst, TypeOK
      <4> QED
        BY <2>1, <4>1 DEF TakeFirst, TypeOK
    <3>3. MemoryInv'
      <4>1. CASE Head(queue) = Stop
        BY <2>1, <2>0, <4>1 DEF TakeFirst, MemoryInv
      <4>2. CASE Head(queue) # Stop
        <5>1. /\ queue' = Tail(queue) /\ batch' = <<Head(queue)>>
              /\ events' = events /\ applied' = applied
          BY <2>1, <4>2 DEF TakeFirst
        <5> QED
          BY <2>1, <2>0, <3>1, <4>2, <5>1, SingletonBounded DEF TakeFirst, MemoryInv, TypeOK
      <4> QED
        BY <4>1, <4>2
    <3> QED
      BY <2>1, <3>2, <3>3 DEF TakeFirst, CountedInv
  <2>2. CASE TakeNext
    <3>1. Head(queue) # Stop => Head(queue) \in 1 .. Len(events)
      BY <2>2, <2>0 DEF TakeNext, TypeOK, Stop
    <3>2. TypeOK'
      BY <2>2, <2>0, <2>a, <3>1 DEF TakeNext, TypeOK
    <3>3. MemoryInv'
      BY <2>2, <2>0, <2>a, <3>1 DEF TakeNext, TypeOK, MemoryInv
    <3> QED
      BY <2>2, <3>2, <3>3 DEF TakeNext, CountedInv
  <2>3. CASE BatchReady
    BY <2>3 DEF BatchReady, TypeOK, MemoryInv, CountedInv
  <2>4. CASE ApplyEvent
    <3> DEFINE e == events[batch[applied + 1]]
    <3>1. e \in [job : Jobs, status : Status]
      <4>1. applied + 1 \in 1 .. Len(batch) /\ Len(events) \in Nat
        BY <2>4 DEF ApplyEvent, TypeOK
      <4>2. batch[applied + 1] \in 1 .. Len(events)
        BY <4>1 DEF MemoryInv
      <4>3. events \in Seq([job : Jobs, status : Status])
        BY DEF TypeOK
      <4> QED
        BY <4>2, <4>3, ElementTyped
    <3>2. txn' = Applied(txn, e) /\ txn' \in Database /\ Counted(txn')
      BY <2>4, <3>1, AppliedType, AppliedCounted DEF ApplyEvent, TypeOK, CountedInv
    <3> QED
      BY <2>4, <3>2 DEF ApplyEvent, TypeOK, MemoryInv, CountedInv
  <2>5. CASE Commit
    <3>1. TypeOK'
      BY <2>5, <1>0, EmptyTyped DEF Commit, TypeOK
    <3>2. MemoryInv'
      BY <2>5 DEF Commit, MemoryInv
    <3> QED
      BY <2>5, <3>1, <3>2 DEF Commit, CountedInv
  <2>6. CASE FlushFails
    <3>1. TypeOK'
      <4>1. /\ events' \in Seq([job : Jobs, status : Status])
            /\ queue' \in Seq(Nat) /\ batch' \in Seq(Nat) /\ applied' \in Nat
        BY <2>6, EmptyTyped DEF FlushFails, TypeOK
      <4>2. pc' \in {"poll", "collect", "flush", "drain", "stopped"}
        BY <2>6 DEF FlushFails, TypeOK
      <4>3. dropped' \subseteq Nat
        BY <2>6, <1>0 DEF FlushFails, TypeOK
      <4>4. flushFailures' \in Nat
        BY <2>6 DEF FlushFails, TypeOK
      <4> QED
        BY <2>6, <4>1, <4>2, <4>3, <4>4 DEF FlushFails, TypeOK
    <3>2. MemoryInv'
      BY <2>6 DEF FlushFails, MemoryInv
    <3> QED
      BY <2>6, <3>1, <3>2 DEF FlushFails, CountedInv
  <2>7. CASE DrainTail
    <3>1. Head(queue) # Stop => Head(queue) \in 1 .. Len(events)
      BY <2>7, <2>0 DEF DrainTail, TypeOK, Stop
    <3>2. /\ batch' \in Seq(Nat) /\ Len(batch') >= Len(batch)
          /\ \A i \in 1 .. Len(batch') : batch'[i] \in 1 .. Len(events)
      <4>1. CASE Head(queue) = Stop
        BY <2>7, <4>1 DEF DrainTail, TypeOK, MemoryInv
      <4>2. CASE Head(queue) # Stop
        BY <2>7, <2>a, <3>1, <4>2 DEF DrainTail, TypeOK
      <4> QED
        BY <4>1, <4>2
    <3>3. TypeOK'
      BY <2>7, <2>0, <3>2 DEF DrainTail, TypeOK
    <3>4. MemoryInv'
      BY <2>7, <2>0, <3>2 DEF DrainTail, TypeOK, MemoryInv
    <3> QED
      BY <2>7, <3>3, <3>4 DEF DrainTail, CountedInv
  <2>8. CASE TailEmpty
    BY <2>8 DEF TailEmpty, TypeOK, MemoryInv, CountedInv
  <2> QED
    BY <1>5, <2>1, <2>2, <2>3, <2>4, <2>5, <2>6, <2>7, <2>8 DEF Writer
<1>6. CASE UNCHANGED vars
  BY <1>6 DEF vars, TypeOK, MemoryInv, CountedInv
<1> QED
  BY <1>1, <1>2, <1>3, <1>4, <1>5, <1>6 DEF Next
-----------------------------------------------------------------------------
\* Type correctness of the store for all parameters.
THEOREM TypeCorrect == Spec => []TypeOK
<1>1. Init => IInv
  BY InitInv
<1>2. IInv /\ [Next]_vars => IInv'
  BY NextInv
<1>3. IInv => TypeOK
  BY DEF IInv
<1> QED
  BY <1>1, <1>2, <1>3, PTL DEF Spec

\* In every reachable state, whatever was batched, rolled back or lost, a job
\* whose row is terminal is in the totals.
THEOREM FinishedIsCounted == Spec => []FinishedJobIsCounted
<1>1. Init => IInv
  BY InitInv
<1>2. IInv /\ [Next]_vars => IInv'
  BY NextInv
<1>3. IInv => FinishedJobIsCounted
  BY DEF IInv, CountedInv, Counted, FinishedJobIsCounted, CountedOutcomes
<1> QED
  BY <1>1, <1>2, <1>3, PTL DEF Spec
-----------------------------------------------------------------------------
(* What happens to every event between record_job and its fate, what a       *)
(* committed row shows of that history, and how often the totals count a    *)
(* job.  Three inductive invariants build on one another and on IInv:       *)
(*   StopInv      what shouldStop and the marker say about the queue;       *)
(*   OrderInv     memory is the newest part of the history, in order;       *)
(*   ContentsInv  both contents show the newest event they have applied,    *)
(*                and have counted an uninterrupted success once.           *)

\* The first element of a queue and what is behind it.
LEMMA TailAt ==
    ASSUME NEW q \in Seq(Nat), q # <<>>
    PROVE  /\ Len(q) \in Nat /\ Len(q) >= 1
           /\ Tail(q) \in Seq(Nat) /\ Len(Tail(q)) = Len(q) - 1
           /\ Head(q) = q[1] /\ q[1] \in Nat
           /\ \A i \in 1 .. Len(q) - 1 : Tail(q)[i] = q[i + 1]
OBVIOUS

\* What an element put behind a sequence changes.
LEMMA AppendAt ==
    ASSUME NEW q \in Seq(Nat), NEW x \in Nat
    PROVE  /\ Len(q) \in Nat /\ Append(q, x) \in Seq(Nat)
           /\ Len(Append(q, x)) = Len(q) + 1
           /\ Append(q, x)[Len(q) + 1] = x
           /\ \A i \in 1 .. Len(q) : Append(q, x)[i] = q[i]
OBVIOUS

\* The numbers in a sequence, by position.
LEMMA NumbersAt ==
    ASSUME NEW s \in Seq(Nat)
    PROVE  /\ DOMAIN s = 1 .. Len(s) /\ Len(s) \in Nat
           /\ \A n : n \in NumbersIn(s) <=> \E i \in 1 .. Len(s) : s[i] = n
BY DEF NumbersIn

\* The numbers in no, in one and in one more place.
LEMMA NumbersInEmpty == NumbersIn(<<>>) = {}
BY DEF NumbersIn

\* A queue of one item is numbered by that item.
LEMMA NumbersInOne == ASSUME NEW x PROVE NumbersIn(<<x>>) = {x}
BY DEF NumbersIn

\* The numbers in a longer sequence.
LEMMA NumbersInAppend ==
    ASSUME NEW q \in Seq(Nat), NEW x \in Nat
    PROVE  NumbersIn(Append(q, x)) = NumbersIn(q) \cup {x}
<1> DEFINE u == Append(q, x)
<1>1. Len(q) \in Nat /\ u \in Seq(Nat) /\ Len(u) = Len(q) + 1 /\ u[Len(q) + 1] = x
      /\ \A i \in 1 .. Len(q) : u[i] = q[i]
  BY AppendAt
<1> HIDE DEF u
<1>2. \A n : n \in NumbersIn(u) <=> \E i \in 1 .. Len(q) + 1 : u[i] = n
  BY <1>1, NumbersAt
<1>3. \A n : n \in NumbersIn(q) <=> \E i \in 1 .. Len(q) : q[i] = n
  BY NumbersAt
<1>4. \A n : (\E i \in 1 .. Len(q) + 1 : u[i] = n) <=>
             (n = x \/ \E i \in 1 .. Len(q) : q[i] = n)
  <2>1. 1 .. Len(q) + 1 = (1 .. Len(q)) \cup {Len(q) + 1}
    BY <1>1
  <2> QED
    BY ONLY ZenonT(30), <1>1, <2>1
<1>5. NumbersIn(u) = NumbersIn(q) \cup {x}
  BY <1>2, <1>3, <1>4
<1> QED
  BY <1>5 DEF u

\* The numbers behind the first one.
LEMMA NumbersInTail ==
    ASSUME NEW q \in Seq(Nat), q # <<>>
    PROVE  NumbersIn(q) = NumbersIn(Tail(q)) \cup {Head(q)}
<1>1. /\ Len(q) \in Nat /\ Len(q) >= 1
      /\ Tail(q) \in Seq(Nat) /\ Len(Tail(q)) = Len(q) - 1
      /\ Head(q) = q[1]
      /\ \A i \in 1 .. Len(q) - 1 : Tail(q)[i] = q[i + 1]
  BY TailAt
<1>2. \A n : n \in NumbersIn(q) <=> \E i \in 1 .. Len(q) : q[i] = n
  BY NumbersAt
<1>3. \A n : n \in NumbersIn(Tail(q)) <=> \E i \in 1 .. Len(q) - 1 : q[i + 1] = n
  <2>1. \A n : n \in NumbersIn(Tail(q)) <=> \E i \in 1 .. Len(Tail(q)) : Tail(q)[i] = n
    BY <1>1, NumbersAt
  <2> QED
    BY <1>1, <2>1
<1>4. \A n : (\E i \in 1 .. Len(q) : q[i] = n) <=>
             (n = q[1] \/ \E i \in 1 .. Len(q) - 1 : q[i + 1] = n)
  <2> TAKE n
  <2>1. ASSUME NEW i \in 1 .. Len(q), q[i] = n
        PROVE  n = q[1] \/ \E k \in 1 .. Len(q) - 1 : q[k + 1] = n
    <3>1. CASE i = 1
      BY <2>1, <3>1
    <3>2. CASE i # 1
      <4>1. i - 1 \in 1 .. Len(q) - 1 /\ (i - 1) + 1 = i
        BY <1>1, <3>2
      <4> QED
        BY <2>1, <4>1
    <3> QED
      BY <3>1, <3>2
  <2>2. 1 \in 1 .. Len(q) /\ \A k \in 1 .. Len(q) - 1 : k + 1 \in 1 .. Len(q)
    BY <1>1
  <2> QED
    BY <2>1, <2>2
<1> QED
  BY <1>1, <1>2, <1>3, <1>4
-----------------------------------------------------------------------------
(* The marker.                                                              *)

\* Behind the marker there is nothing that was recorded before stop(); the writer
\* only stops, or drains, when it has taken the marker; and it neither polls nor
\* ends with a batch in its hands.
StopInv ==
    /\ stopMark <= Len(events)
    /\ caller = "running" => ~shouldStop /\ \A i \in 1 .. Len(queue) : queue[i] # Stop
    /\ pc \in {"drain", "stopped"} => shouldStop
    /\ pc = "flush" /\ after # "poll" => shouldStop
    /\ caller # "exited" /\ shouldStop => \A i \in 1 .. Len(queue) : queue[i] > stopMark
    /\ \A i, k \in 1 .. Len(queue) : i < k /\ queue[i] = Stop => queue[k] > stopMark
    /\ pc \in {"poll", "stopped"} => batch = <<>>

\* StopInv holds at the start.
LEMMA InitStop == Init => StopInv
BY DEF Init, StopInv

\* Every step keeps the facts about the marker.
LEMMA NextStop == IInv /\ StopInv /\ [Next]_vars => StopInv'
<1> SUFFICES ASSUME IInv, StopInv, [Next]_vars PROVE StopInv'
  OBVIOUS
<1>1. /\ queue \in Seq(Nat) /\ Len(queue) \in Nat /\ batch \in Seq(Nat)
      /\ Len(events) \in Nat /\ stopMark \in Nat /\ shouldStop \in BOOLEAN
      /\ \A i \in 1 .. Len(queue) : queue[i] \in Nat
  BY DEF IInv, TypeOK
<1>2. ASSUME queue # <<>>
      PROVE  /\ Len(Tail(queue)) = Len(queue) - 1 /\ Len(queue) >= 1 /\ Head(queue) = queue[1]
             /\ \A i \in 1 .. Len(Tail(queue)) : i + 1 \in 1 .. Len(queue)
             /\ \A i \in 1 .. Len(Tail(queue)) : Tail(queue)[i] = queue[i + 1]
  BY <1>1, <1>2, TailAt
<1>3. ASSUME NEW j \in Jobs, NEW s \in Status, EnqueueJob(j, s) PROVE StopInv'
  <2>1. /\ Len(events') = Len(events) + 1 /\ Len(queue') = Len(queue) + 1
        /\ queue'[Len(queue) + 1] = Len(events) + 1
        /\ \A i \in 1 .. Len(queue) : queue'[i] = queue[i]
    <3>1. Len(events) + 1 \in Nat /\ queue' = Append(queue, Len(events) + 1)
      BY <1>1, <1>3 DEF EnqueueJob
    <3>2. Len(events') = Len(events) + 1
      BY <1>3 DEF EnqueueJob, IInv, TypeOK
    <3> QED
      BY <1>1, <3>1, <3>2, AppendAt
  <2>2. \A i \in 1 .. Len(queue') : i = Len(queue) + 1 \/ i \in 1 .. Len(queue)
    BY <1>1, <2>1
  <2>3. UNCHANGED <<pc, after, batch, shouldStop, caller, stopMark>>
    BY <1>3 DEF EnqueueJob
  <2>4. queue'[Len(queue) + 1] > stopMark /\ queue'[Len(queue) + 1] # Stop
    BY <1>1, <2>1 DEF StopInv, Stop
  <2>5. caller' = "running" => \A i \in 1 .. Len(queue') : queue'[i] # Stop
    BY <2>1, <2>2, <2>3, <2>4 DEF StopInv
  <2>6. caller' # "exited" /\ shouldStop' => \A i \in 1 .. Len(queue') : queue'[i] > stopMark'
    BY <2>1, <2>2, <2>3, <2>4 DEF StopInv
  <2>7. \A i, k \in 1 .. Len(queue') : i < k /\ queue'[i] = Stop => queue'[k] > stopMark'
    <3> SUFFICES ASSUME NEW i \in 1 .. Len(queue'), NEW k \in 1 .. Len(queue'),
                        i < k, queue'[i] = Stop
                 PROVE  queue'[k] > stopMark
      BY <2>3
    <3>1. i \in 1 .. Len(queue)
      BY <2>2, <2>4
    <3> QED
      BY <2>1, <2>2, <2>4, <3>1 DEF StopInv
  <2> QED
    BY <1>1, <2>1, <2>3, <2>5, <2>6, <2>7 DEF StopInv
<1>4. ASSUME RequestStop PROVE StopInv'
  <2>1. /\ Len(queue') = Len(queue) + 1
        /\ queue'[Len(queue) + 1] = Stop
        /\ \A i \in 1 .. Len(queue) : queue'[i] = queue[i]
    BY <1>1, <1>4, AppendAt DEF RequestStop, Stop
  <2>2. \A i \in 1 .. Len(queue') : i = Len(queue) + 1 \/ i \in 1 .. Len(queue)
    BY <1>1, <2>1
  <2>3. /\ caller = "running" /\ caller' = "stopping" /\ stopMark' = Len(events)
        /\ UNCHANGED <<pc, after, batch, shouldStop, events>>
    BY <1>4 DEF RequestStop
  <2> QED
    BY SMTT(30), <1>1, <2>1, <2>2, <2>3 DEF StopInv, Stop
<1>5. ASSUME JoinReturns PROVE StopInv'
  BY <1>5 DEF JoinReturns, StopInv
<1>6. ASSUME Crash PROVE StopInv'
  BY <1>1, <1>6 DEF Crash, StopInv
<1>7. ASSUME Writer PROVE StopInv'
  <2> USE DEF UnchangedByWriter, FlushReturns
  <2>1. CASE TakeFirst
    <3>1. /\ queue # <<>> /\ queue' = Tail(queue)
          /\ UNCHANGED <<after, events, caller, stopMark>>
          /\ caller # "exited" /\ pc = "poll"
      BY <2>1 DEF TakeFirst, WriterAlive
    <3>2. CASE Head(queue) = Stop
      <4>1. shouldStop' = TRUE /\ pc' = "drain"
        BY <2>1, <3>2 DEF TakeFirst
      <4>2. queue[1] = Stop /\ \A i \in 1 .. Len(Tail(queue)) : 1 < i + 1
        BY <1>1, <1>2, <3>1, <3>2
      <4>3. \A i \in 1 .. Len(queue') : queue'[i] > stopMark
        BY <1>1, <1>2, <3>1, <4>2 DEF StopInv
      <4> QED
        BY <1>1, <1>2, <3>1, <4>1, <4>2, <4>3 DEF StopInv, Stop
    <3>3. CASE Head(queue) # Stop
      <4>1. pc' = "collect" /\ shouldStop' = shouldStop
        BY <2>1, <3>3 DEF TakeFirst
      <4> QED
        BY <1>1, <1>2, <3>1, <4>1 DEF StopInv
    <3> QED
      BY <3>2, <3>3
  <2>2. CASE TakeNext
    <3>1. /\ queue # <<>> /\ queue' = Tail(queue)
          /\ UNCHANGED <<events, caller, stopMark>>
          /\ caller # "exited" /\ pc = "collect"
      BY <2>2 DEF TakeNext, WriterAlive
    <3>2. CASE Head(queue) = Stop
      <4>1. shouldStop' = TRUE /\ pc' = "flush" /\ after' = "poll"
        BY <2>2, <3>2 DEF TakeNext
      <4>2. queue[1] = Stop /\ \A i \in 1 .. Len(Tail(queue)) : 1 < i + 1
        BY <1>1, <1>2, <3>1, <3>2
      <4>3. \A i \in 1 .. Len(queue') : queue'[i] > stopMark
        BY <1>1, <1>2, <3>1, <4>2 DEF StopInv
      <4> QED
        BY <1>1, <1>2, <3>1, <4>1, <4>2, <4>3 DEF StopInv, Stop
    <3>3. CASE Head(queue) # Stop
      <4>1. pc' = "collect" /\ shouldStop' = shouldStop
        BY <2>2, <3>1, <3>3 DEF TakeNext
      <4> QED
        BY <1>1, <1>2, <3>1, <4>1 DEF StopInv
    <3> QED
      BY <3>2, <3>3
  <2>3. CASE BatchReady
    BY <2>3 DEF BatchReady, StopInv
  <2>4. CASE ApplyEvent
    BY <2>4 DEF ApplyEvent, StopInv
  <2>5. CASE Commit
    BY <2>5 DEF Commit, StopInv
  <2>6. CASE FlushFails
    BY <2>6 DEF FlushFails, StopInv
  <2>7. CASE DrainTail
    <3>1. /\ queue # <<>> /\ queue' = Tail(queue)
          /\ UNCHANGED <<events, caller, stopMark, shouldStop>>
          /\ caller # "exited" /\ pc = "drain"
          /\ pc' \in {"drain", "flush"} /\ shouldStop
      BY <2>7 DEF DrainTail, WriterAlive, StopInv
    <3> QED
      BY <1>1, <1>2, <3>1 DEF StopInv
  <2>8. CASE TailEmpty
    BY <2>8 DEF TailEmpty, StopInv
  <2> QED
    BY <1>7, <2>1, <2>2, <2>3, <2>4, <2>5, <2>6, <2>7, <2>8 DEF Writer
<1>8. CASE UNCHANGED vars
  BY <1>8 DEF vars, StopInv
<1> QED
  BY <1>3, <1>4, <1>5, <1>6, <1>7, <1>8 DEF Next

\* When the writer has ended after stop(), what is left in memory was recorded
\* behind the marker.
THEOREM StopKeepsEarlier == Spec => []StopKeepsEarlierEvents
<1>1. Init => IInv /\ StopInv
  BY InitInv, InitStop
<1>2. IInv /\ StopInv /\ [Next]_vars => (IInv /\ StopInv)'
  BY NextInv, NextStop
<1>3. IInv /\ StopInv => StopKeepsEarlierEvents
  <2> SUFFICES ASSUME IInv, StopInv, caller = "stopping", pc = "stopped", NEW n \in Unresolved
               PROVE  n > stopMark
    BY DEF StopKeepsEarlierEvents
  <2>1. batch = <<>> /\ \A i \in 1 .. Len(queue) : queue[i] > stopMark
    BY DEF StopInv
  <2>2. n \in NumbersIn(queue)
    BY <2>1, NumbersInEmpty DEF Unresolved
  <2> QED
    BY <2>1, <2>2, NumbersAt DEF IInv, TypeOK
<1> QED
  BY <1>1, <1>2, <1>3, PTL DEF Spec
-----------------------------------------------------------------------------
(* The order of what is in memory.                                          *)

\* A batch b and the queue q behind it hold their events in ascending order.
Ordered(b, q) ==
    /\ \A i, k \in 1 .. Len(b) : i < k => b[i] < b[k]
    /\ \A i, k \in 1 .. Len(q) : i < k /\ q[i] # Stop /\ q[k] # Stop => q[i] < q[k]
    /\ \A i \in 1 .. Len(b), k \in 1 .. Len(q) : q[k] # Stop => b[i] < q[k]

\* The events in a batch b and the queue q behind it.
Held(b, q) == NumbersIn(b) \cup (NumbersIn(q) \ {Stop})

OrderInv ==
    /\ Ordered(batch, queue)
    /\ \A n \in Resolved, m \in Unresolved : n < m
    /\ Resolved \cup Unresolved = 1 .. Len(events)
    /\ committed \cap dropped = {}
    /\ committed \cap lost = {}
    /\ dropped \cap lost = {}

\* Taking the marker off the queue keeps order and contents.
LEMMA TakeMarker ==
    ASSUME NEW b \in Seq(Nat), NEW q \in Seq(Nat), q # <<>>, Head(q) = Stop, Ordered(b, q)
    PROVE  Ordered(b, Tail(q)) /\ Held(b, Tail(q)) = Held(b, q)
<1> DEFINE t == Tail(q)
<1>1. /\ Len(q) \in Nat /\ Len(q) >= 1 /\ Len(t) = Len(q) - 1
      /\ \A i \in 1 .. Len(t) : t[i] = q[i + 1] /\ i + 1 \in 1 .. Len(q)
      /\ \A i \in 1 .. Len(q) : q[i] \in Nat
  BY TailAt
<1>2. Held(b, t) = Held(b, q)
  BY NumbersInTail DEF Held
<1> HIDE DEF t
<1>3. \A i, k \in 1 .. Len(t) : i < k /\ t[i] # Stop /\ t[k] # Stop => t[i] < t[k]
  <2> SUFFICES ASSUME NEW i \in 1 .. Len(t), NEW k \in 1 .. Len(t),
                      i < k, t[i] # Stop, t[k] # Stop
               PROVE  t[i] < t[k]
    OBVIOUS
  <2>1. /\ t[i] = q[i + 1] /\ t[k] = q[k + 1] /\ i + 1 < k + 1
        /\ i + 1 \in 1 .. Len(q) /\ k + 1 \in 1 .. Len(q)
    BY <1>1
  <2> QED
    BY <2>1 DEF Ordered
<1>4. Ordered(b, t)
  BY <1>1, <1>3 DEF Ordered
<1> QED
  BY <1>2, <1>4 DEF t

\* So does moving the first event of the queue to the end of the batch.
LEMMA TakeEvent ==
    ASSUME NEW b \in Seq(Nat), NEW q \in Seq(Nat), q # <<>>, Head(q) # Stop, Ordered(b, q)
    PROVE  /\ Ordered(Append(b, Head(q)), Tail(q))
           /\ Held(Append(b, Head(q)), Tail(q)) = Held(b, q)
<1> DEFINE t == Tail(q)
           x == Head(q)
           c == Append(b, x)
<1>1. /\ Len(q) \in Nat /\ Len(q) >= 1 /\ Len(t) = Len(q) - 1 /\ x = q[1] /\ x \in Nat
      /\ \A i \in 1 .. Len(t) : t[i] = q[i + 1] /\ i + 1 \in 1 .. Len(q) /\ 1 < i + 1
      /\ \A i \in 1 .. Len(q) : q[i] \in Nat
  BY TailAt
<1>2. /\ Len(b) \in Nat /\ Len(c) = Len(b) + 1 /\ c[Len(b) + 1] = x
      /\ \A i \in 1 .. Len(b) : c[i] = b[i]
  BY <1>1, AppendAt
<1>3. Held(c, t) = Held(b, q)
  <2>1. NumbersIn(c) = NumbersIn(b) \cup {x} /\ NumbersIn(q) = NumbersIn(t) \cup {x}
    BY <1>1, NumbersInAppend, NumbersInTail
  <2> QED
    BY <2>1 DEF Held
<1>4. x # Stop
  OBVIOUS
<1> HIDE DEF t, x, c
<1>5. \A i \in 1 .. Len(c) : i \in 1 .. Len(b) \/ i = Len(b) + 1
  BY <1>2
<1>6. \A i, k \in 1 .. Len(c) : i < k => c[i] < c[k]
  <2> SUFFICES ASSUME NEW i \in 1 .. Len(c), NEW k \in 1 .. Len(c), i < k
               PROVE  c[i] < c[k]
    OBVIOUS
  <2>1. i \in 1 .. Len(b)
    BY <1>2, <1>5
  <2>2. CASE k \in 1 .. Len(b)
    BY <1>2, <2>1, <2>2 DEF Ordered
  <2>3. CASE k = Len(b) + 1
    BY <1>1, <1>2, <1>4, <2>1, <2>3 DEF Ordered
  <2> QED
    BY <1>5, <2>2, <2>3
<1>7. \A i, k \in 1 .. Len(t) : i < k /\ t[i] # Stop /\ t[k] # Stop => t[i] < t[k]
  <2> SUFFICES ASSUME NEW i \in 1 .. Len(t), NEW k \in 1 .. Len(t),
                      i < k, t[i] # Stop, t[k] # Stop
               PROVE  t[i] < t[k]
    OBVIOUS
  <2>1. /\ t[i] = q[i + 1] /\ t[k] = q[k + 1] /\ i + 1 < k + 1
        /\ i + 1 \in 1 .. Len(q) /\ k + 1 \in 1 .. Len(q)
    BY <1>1
  <2> QED
    BY <2>1 DEF Ordered
<1>8. \A i \in 1 .. Len(c), k \in 1 .. Len(t) : t[k] # Stop => c[i] < t[k]
  <2> SUFFICES ASSUME NEW i \in 1 .. Len(c), NEW k \in 1 .. Len(t), t[k] # Stop
               PROVE  c[i] < t[k]
    OBVIOUS
  <2>1. k + 1 \in 1 .. Len(q) /\ t[k] = q[k + 1] /\ 1 \in 1 .. Len(q) /\ 1 < k + 1
    BY <1>1
  <2>2. CASE i \in 1 .. Len(b)
    BY <1>2, <2>1, <2>2 DEF Ordered
  <2>3. CASE i = Len(b) + 1
    BY <1>1, <1>2, <1>4, <2>1, <2>3 DEF Ordered
  <2> QED
    BY <1>5, <2>2, <2>3
<1>9. Ordered(c, t)
  BY <1>6, <1>7, <1>8 DEF Ordered
<1> QED
  BY <1>3, <1>9 DEF c, t, x

\* So does giving up the batch, except that its events are no longer held.
LEMMA GiveUpBatch ==
    ASSUME NEW b \in Seq(Nat), NEW q \in Seq(Nat), Ordered(b, q)
    PROVE  /\ Ordered(<<>>, q) /\ Held(<<>>, q) = NumbersIn(q) \ {Stop}
           /\ \A n \in NumbersIn(b), m \in NumbersIn(q) \ {Stop} : n < m
<1>1. Ordered(<<>>, q)
  BY DEF Ordered
<1>2. Held(<<>>, q) = NumbersIn(q) \ {Stop}
  BY NumbersInEmpty DEF Held
<1>3. \A n \in NumbersIn(b), m \in NumbersIn(q) \ {Stop} : n < m
  BY NumbersAt DEF Ordered
<1> QED
  BY <1>1, <1>2, <1>3

\* An event that is newer than all of memory, and the marker, go behind the queue.
LEMMA Enqueued ==
    ASSUME NEW b \in Seq(Nat), NEW q \in Seq(Nat), NEW x \in Nat, Ordered(b, q),
           x = Stop \/ \A m \in Held(b, q) : m < x
    PROVE  /\ Ordered(b, Append(q, x))
           /\ Held(b, Append(q, x)) = Held(b, q) \cup ({x} \ {Stop})
<1> DEFINE c == Append(q, x)
<1>1. /\ Len(q) \in Nat /\ Len(c) = Len(q) + 1 /\ c[Len(q) + 1] = x
      /\ \A i \in 1 .. Len(q) : c[i] = q[i]
  BY AppendAt
<1>2. Held(b, c) = Held(b, q) \cup ({x} \ {Stop})
  BY NumbersInAppend DEF Held
<1>3. x # Stop => /\ \A i \in 1 .. Len(b) : b[i] < x
                  /\ \A i \in 1 .. Len(q) : q[i] # Stop => q[i] < x
  BY NumbersAt DEF Held
<1> HIDE DEF c
<1>4. \A i \in 1 .. Len(c) : i \in 1 .. Len(q) \/ i = Len(q) + 1
  BY <1>1
<1>5. \A i, k \in 1 .. Len(c) : i < k /\ c[i] # Stop /\ c[k] # Stop => c[i] < c[k]
  <2> SUFFICES ASSUME NEW i \in 1 .. Len(c), NEW k \in 1 .. Len(c),
                      i < k, c[i] # Stop, c[k] # Stop
               PROVE  c[i] < c[k]
    OBVIOUS
  <2>1. i \in 1 .. Len(q)
    BY <1>1, <1>4
  <2>2. CASE k \in 1 .. Len(q)
    BY <1>1, <2>1, <2>2 DEF Ordered
  <2>3. CASE k = Len(q) + 1
    BY <1>1, <1>3, <2>1, <2>3
  <2> QED
    BY <1>4, <2>2, <2>3
<1>6. \A i \in 1 .. Len(b), k \in 1 .. Len(c) : c[k] # Stop => b[i] < c[k]
  BY <1>1, <1>3, <1>4 DEF Ordered
<1>7. Ordered(b, c)
  BY <1>5, <1>6 DEF Ordered
<1> QED
  BY <1>2, <1>7 DEF c

\* Nothing is held in empty memory.
LEMMA NothingHeld == Ordered(<<>>, <<>>) /\ Held(<<>>, <<>>) = {}
BY NumbersInEmpty DEF Ordered, Held

\* OrderInv holds at the start.
LEMMA InitOrder == Init => OrderInv
<1> SUFFICES ASSUME Init PROVE OrderInv
  OBVIOUS
<1>1. /\ batch = <<>> /\ queue = <<>> /\ events = <<>>
      /\ committed = {} /\ dropped = {} /\ lost = {}
  BY DEF Init
<1>2. Unresolved = {} /\ Resolved = {} /\ 1 .. Len(events) = {}
  BY <1>1, NumbersInEmpty DEF Unresolved, Resolved
<1> QED
  BY <1>1, <1>2, NothingHeld DEF OrderInv

\* Every step keeps memory in order and accounts for every event.
LEMMA NextOrder == IInv /\ StopInv /\ OrderInv /\ [Next]_vars => OrderInv'
<1> SUFFICES ASSUME IInv, StopInv, OrderInv, [Next]_vars PROVE OrderInv'
  OBVIOUS
<1>1. /\ queue \in Seq(Nat) /\ batch \in Seq(Nat) /\ Len(events) \in Nat
      /\ Ordered(batch, queue) /\ Unresolved = Held(batch, queue)
      /\ Unresolved' = Held(batch', queue')
  BY DEF IInv, TypeOK, OrderInv, Unresolved, Held
<1>2. ASSUME UNCHANGED <<events, committed, dropped, lost>>,
             Ordered(batch', queue'), Unresolved' = Unresolved
      PROVE  OrderInv'
  BY <1>2 DEF OrderInv, Resolved
<1>3. ASSUME NEW j \in Jobs, NEW s \in Status, EnqueueJob(j, s) PROVE OrderInv'
  <2> DEFINE x == Len(events) + 1
  <2>1. /\ queue' = Append(queue, x) /\ batch' = batch /\ x \in Nat /\ x # Stop
        /\ UNCHANGED <<committed, dropped, lost>>
    BY <1>1, <1>3 DEF EnqueueJob, Stop
  <2>2. Len(events') = x
    BY <1>3 DEF EnqueueJob, IInv, TypeOK
  <2>3. \A n \in Resolved \cup Unresolved : n < x
    BY <1>1 DEF OrderInv
  <2>4. Ordered(batch', queue') /\ Unresolved' = Unresolved \cup {x}
    BY <1>1, <2>1, <2>3, Enqueued
  <2>5. Resolved' = Resolved /\ 1 .. x = (1 .. Len(events)) \cup {x}
    BY <1>1, <2>1 DEF Resolved
  <2>6. \A n \in Resolved', m \in Unresolved' : n < m
    BY <2>3, <2>4, <2>5 DEF OrderInv
  <2>7. Resolved' \cup Unresolved' = 1 .. Len(events')
    BY <2>2, <2>4, <2>5 DEF OrderInv
  <2> QED
    BY <2>1, <2>4, <2>6, <2>7 DEF OrderInv
<1>4. ASSUME RequestStop PROVE OrderInv'
  <2>1. /\ queue' = Append(queue, Stop) /\ Stop \in Nat
        /\ UNCHANGED <<batch, events, committed, dropped, lost>>
    BY <1>4 DEF RequestStop, Stop
  <2>2. /\ Ordered(batch, Append(queue, Stop))
        /\ Held(batch, Append(queue, Stop)) = Held(batch, queue) \cup ({Stop} \ {Stop})
    BY <1>1, <2>1, Enqueued
  <2>3. Ordered(batch', queue') /\ Unresolved' = Unresolved
    BY <1>1, <2>1, <2>2
  <2> QED
    BY <1>2, <2>1, <2>3
<1>5. ASSUME JoinReturns \/ Crash PROVE OrderInv'
  <2>1. /\ queue' = <<>> /\ batch' = <<>> /\ lost' = lost \cup Unresolved
        /\ UNCHANGED <<events, committed, dropped>>
    BY <1>5 DEF JoinReturns, Crash
  <2>2. Unresolved' = {} /\ Ordered(batch', queue') /\ Resolved' = Resolved \cup Unresolved
    BY <1>1, <2>1, NothingHeld DEF Resolved
  <2>3. Resolved \cap Unresolved = {}
    <3>1. \A n \in Resolved \cup Unresolved : n \in Nat
      BY DEF OrderInv
    <3> QED
      BY <3>1 DEF OrderInv
  <2>4. committed' \cap lost' = {} /\ dropped' \cap lost' = {} /\ committed' \cap dropped' = {}
    BY <2>1, <2>3 DEF OrderInv, Resolved
  <2> QED
    BY <2>1, <2>2, <2>4 DEF OrderInv
<1>6. ASSUME UNCHANGED <<events, lost, queue>>, batch' = <<>>,
             \/ committed' = committed \cup NumbersIn(batch) /\ dropped' = dropped
             \/ dropped' = dropped \cup NumbersIn(batch) /\ committed' = committed
      PROVE  OrderInv'
  <2>1. /\ Ordered(batch', queue') /\ Unresolved' = NumbersIn(queue) \ {Stop}
        /\ \A n \in NumbersIn(batch), m \in Unresolved' : n < m
    BY <1>1, <1>6, GiveUpBatch
  <2>2. Resolved' = Resolved \cup NumbersIn(batch)
    BY <1>6 DEF Resolved
  <2>3. Unresolved = NumbersIn(batch) \cup Unresolved'
    BY <2>1 DEF Unresolved
  <2>4. Resolved \cap NumbersIn(batch) = {}
    <3>1. \A n \in Resolved \cup Unresolved : n \in Nat
      BY DEF OrderInv
    <3> QED
      BY <2>3, <3>1 DEF OrderInv
  <2>5. committed' \cap lost' = {} /\ dropped' \cap lost' = {} /\ committed' \cap dropped' = {}
    BY <1>6, <2>4 DEF OrderInv, Resolved
  <2> QED
    BY <1>6, <2>1, <2>2, <2>3, <2>5 DEF OrderInv
<1>7. ASSUME Writer PROVE OrderInv'
  <2> USE DEF UnchangedByWriter, FlushReturns
  <2>1. CASE TakeFirst
    <3>1. /\ queue # <<>> /\ queue' = Tail(queue) /\ batch = <<>>
          /\ UNCHANGED <<events, committed, dropped, lost>>
      BY <2>1 DEF TakeFirst, StopInv
    <3>2. CASE Head(queue) = Stop
      BY <1>1, <1>2, <2>1, <3>1, <3>2, TakeMarker DEF TakeFirst
    <3>3. CASE Head(queue) # Stop
      <4>1. batch' = <<Head(queue)>> /\ Append(batch, Head(queue)) = <<Head(queue)>>
        BY <2>1, <3>1, <3>3 DEF TakeFirst
      <4> QED
        BY <1>1, <1>2, <3>1, <3>3, <4>1, TakeEvent
    <3> QED
      BY <3>2, <3>3
  <2>2. CASE TakeNext \/ DrainTail
    <3>1. /\ queue # <<>> /\ queue' = Tail(queue)
          /\ batch' = IF Head(queue) = Stop THEN batch ELSE Append(batch, Head(queue))
          /\ UNCHANGED <<events, committed, dropped, lost>>
      BY <2>2 DEF TakeNext, DrainTail
    <3>2. CASE Head(queue) = Stop
      BY <1>1, <1>2, <3>1, <3>2, TakeMarker
    <3>3. CASE Head(queue) # Stop
      BY <1>1, <1>2, <3>1, <3>3, TakeEvent
    <3> QED
      BY <3>2, <3>3
  <2>3. CASE BatchReady \/ ApplyEvent \/ TailEmpty
    BY <1>1, <1>2, <2>3 DEF BatchReady, ApplyEvent, TailEmpty
  <2>4. CASE Commit
    BY <1>6, <2>4 DEF Commit
  <2>5. CASE FlushFails
    BY <1>6, <2>5 DEF FlushFails
  <2> QED
    BY <1>7, <2>1, <2>2, <2>3, <2>4, <2>5 DEF Writer
<1>8. CASE UNCHANGED vars
  BY <1>1, <1>2, <1>8 DEF vars
<1> QED
  BY <1>3, <1>4, <1>5, <1>7, <1>8 DEF Next

\* The batch and the queue behind it, read as one sequence.
LEMMA OrderedInMemory ==
    ASSUME NEW b \in Seq(Nat), NEW q \in Seq(Nat), Ordered(b, q),
           \A i \in 1 .. Len(b) : b[i] # Stop
    PROVE  \A i, k \in DOMAIN (b \o q) :
               i < k /\ (b \o q)[i] # Stop /\ (b \o q)[k] # Stop => (b \o q)[i] < (b \o q)[k]
<1> DEFINE c == b \o q
<1>1. /\ Len(b) \in Nat /\ Len(q) \in Nat /\ DOMAIN c = 1 .. (Len(b) + Len(q))
      /\ \A i \in 1 .. (Len(b) + Len(q)) : c[i] = IF i <= Len(b) THEN b[i] ELSE q[i - Len(b)]
  OBVIOUS
<1> HIDE DEF c
<1> SUFFICES ASSUME NEW i \in DOMAIN c, NEW k \in DOMAIN c, i < k, c[i] # Stop, c[k] # Stop
             PROVE  c[i] < c[k]
  BY DEF c
<1>2. CASE k <= Len(b)
  <2>1. i \in 1 .. Len(b) /\ k \in 1 .. Len(b) /\ c[i] = b[i] /\ c[k] = b[k]
    BY <1>1, <1>2
  <2> QED
    BY <2>1 DEF Ordered
<1>3. CASE i <= Len(b) /\ ~(k <= Len(b))
  <2>1. i \in 1 .. Len(b) /\ k - Len(b) \in 1 .. Len(q) /\ c[i] = b[i] /\ c[k] = q[k - Len(b)]
    BY <1>1, <1>3
  <2> QED
    BY <2>1 DEF Ordered
<1>4. CASE ~(i <= Len(b))
  <2>1. /\ i - Len(b) \in 1 .. Len(q) /\ k - Len(b) \in 1 .. Len(q) /\ i - Len(b) < k - Len(b)
        /\ c[i] = q[i - Len(b)] /\ c[k] = q[k - Len(b)]
    BY <1>1, <1>4
  <2> QED
    BY <2>1 DEF Ordered
<1> QED
  BY <1>1, <1>2, <1>3, <1>4

\* Every recorded event is in memory once, in order, or has one fate.
THEOREM OneFate == Spec => []EveryEventHasOneFate
<1>1. Init => IInv /\ StopInv /\ OrderInv
  BY InitInv, InitStop, InitOrder
<1>2. IInv /\ StopInv /\ OrderInv /\ [Next]_vars => (IInv /\ StopInv /\ OrderInv)'
  BY NextInv, NextStop, NextOrder
<1>3. IInv /\ OrderInv => EveryEventHasOneFate
  <2> SUFFICES ASSUME IInv, OrderInv PROVE EveryEventHasOneFate
    OBVIOUS
  <2>1. \A i \in 1 .. Len(batch) : batch[i] # Stop
    BY DEF IInv, TypeOK, MemoryInv, Stop
  <2>2. \A i, k \in DOMAIN InMemory :
            i < k /\ InMemory[i] # Stop /\ InMemory[k] # Stop => InMemory[i] < InMemory[k]
    BY <2>1, OrderedInMemory DEF IInv, TypeOK, OrderInv, InMemory
  <2> QED
    BY <2>2 DEF OrderInv, EveryEventHasOneFate
<1> QED
  BY <1>1, <1>2, <1>3, PTL DEF Spec
-----------------------------------------------------------------------------
(* What the contents show of the events applied to them.                    *)

Event == [job : Jobs, status : Status]

\* The row of every job in the contents d has the status of the newest event of the
\* job among the events S of the history h.
ShowsNewest(h, d, S) ==
    \A j \in Jobs :
        \/ (\A n \in S : h[n].job # j) /\ d.status[j] = NoRow
        \/ \E n \in S : /\ h[n].job = j /\ d.status[j] = h[n].status
                        /\ \A m \in S : h[m].job = j => m <= n

\* The job has no error in S, and no replay of it was itself interrupted.
Quiet(h, S, j) ==
    /\ \A n \in S : h[n].job = j => h[n].status # Error
    /\ \A a, b, c \in S :
           /\ h[a].job = j /\ h[b].job = j /\ h[c].job = j
           /\ a < b /\ b < c
           /\ h[a].status = Ok /\ h[b].status = Processing /\ h[c].status = Processing
           => \E n \in S : h[n].job = j /\ b < n /\ n < c

Succeeded(h, S, j) == \E n \in S : h[n].job = j /\ h[n].status = Ok

\* As long as a job is quiet, it is counted when it first succeeds and never again:
\* either its row still says ok or the latch is on.
CountsOnce(h, d, S) ==
    \A j \in Jobs : Quiet(h, S, j) =>
        \/ /\ d.processed[j] + d.failed[j] = 0 /\ d.suppress[j] = 0
           /\ ~Succeeded(h, S, j)
        \/ /\ d.processed[j] + d.failed[j] = 1
           /\ Succeeded(h, S, j)
           /\ d.status[j] = Ok \/ (d.status[j] = Processing /\ d.suppress[j] = 1)

Reflects(h, d, S) == ShowsNewest(h, d, S) /\ CountsOnce(h, d, S)

\* Whether a job is quiet depends on the events that are looked at only.
LEMMA QuietBySeen ==
    ASSUME NEW g, NEW h, NEW S, NEW j, \A n \in S : g[n] = h[n], Quiet(g, S, j)
    PROVE  Quiet(h, S, j)
<1>1. \A n \in S : h[n].job = j => h[n].status # Error
  BY DEF Quiet
<1>2. ASSUME NEW a \in S, NEW b \in S, NEW c \in S,
             h[a].job = j, h[b].job = j, h[c].job = j, a < b, b < c,
             h[a].status = Ok, h[b].status = Processing, h[c].status = Processing
      PROVE  \E n \in S : h[n].job = j /\ b < n /\ n < c
  <2>1. g[a] = h[a] /\ g[b] = h[b] /\ g[c] = h[c]
    OBVIOUS
  <2>2. PICK n \in S : g[n].job = j /\ b < n /\ n < c
    BY <1>2, <2>1 DEF Quiet
  <2>3. g[n] = h[n]
    OBVIOUS
  <2> QED
    BY <2>2, <2>3
<1> QED
  BY <1>1, <1>2 DEF Quiet

\* Later events do not change what earlier ones say.
LEMMA ReflectsLonger ==
    ASSUME NEW h \in Seq(Event), NEW e \in Event, NEW d, NEW S, S \subseteq 1 .. Len(h),
           Reflects(h, d, S)
    PROVE  Reflects(Append(h, e), d, S)
<1> DEFINE g == Append(h, e)
<1>1. \A n \in S : g[n] = h[n]
  OBVIOUS
<1> HIDE DEF g
<1>2. ShowsNewest(g, d, S)
  BY <1>1 DEF Reflects, ShowsNewest
<1>3. ASSUME NEW j \in Jobs
      PROVE  (Quiet(g, S, j) <=> Quiet(h, S, j)) /\ (Succeeded(g, S, j) <=> Succeeded(h, S, j))
  <2>1. Quiet(g, S, j) => Quiet(h, S, j)
    BY <1>1, QuietBySeen
  <2>2. Quiet(h, S, j) => Quiet(g, S, j)
    BY <1>1, QuietBySeen
  <2>3. Succeeded(g, S, j) <=> Succeeded(h, S, j)
    BY <1>1 DEF Succeeded
  <2> QED
    BY <2>1, <2>2, <2>3
<1>4. CountsOnce(g, d, S)
  BY <1>3 DEF Reflects, CountsOnce
<1> QED
  BY <1>2, <1>4 DEF Reflects, g

\* Applying an event to contents that have only seen older ones shows that event.
LEMMA AppliedShowsNewest ==
    ASSUME NEW h \in Seq(Event), NEW d \in Database, NEW S, S \subseteq 1 .. Len(h),
           NEW n \in 1 .. Len(h), \A m \in S : m < n, ShowsNewest(h, d, S)
    PROVE  ShowsNewest(h, Applied(d, h[n]), S \cup {n})
<1> DEFINE e == h[n]
           a == Applied(d, e)
<1>1. e \in Event /\ Len(h) \in Nat
  OBVIOUS
<1>2. \A j \in Jobs : a.status[j] = IF j = e.job THEN e.status ELSE d.status[j]
  BY <1>1 DEF Applied, Database, Event
<1> HIDE DEF a
<1> SUFFICES ASSUME NEW j \in Jobs
             PROVE  \/ (\A m \in S \cup {n} : h[m].job # j) /\ a.status[j] = NoRow
                    \/ \E k \in S \cup {n} : /\ h[k].job = j /\ a.status[j] = h[k].status
                                             /\ \A m \in S \cup {n} : h[m].job = j => m <= k
  BY DEF ShowsNewest, a
<1>3. CASE j = e.job
  <2>1. \A m \in S \cup {n} : m <= n
    BY <1>1
  <2>2. n \in S \cup {n} /\ h[n].job = j /\ a.status[j] = h[n].status
    BY <1>2, <1>3
  <2> QED
    BY <2>1, <2>2
<1>4. CASE j # e.job
  BY <1>1, <1>2, <1>4 DEF ShowsNewest
<1> QED
  BY <1>3, <1>4

\* What is quiet with a newer event was quiet before it.
LEMMA QuietBefore ==
    ASSUME NEW h, NEW S, S \subseteq Nat, NEW n \in Nat, \A m \in S : m < n, NEW j,
           Quiet(h, S \cup {n}, j)
    PROVE  Quiet(h, S, j)
<1>1. \A m \in S : h[m].job = j => h[m].status # Error
  BY DEF Quiet
<1>2. ASSUME NEW a \in S, NEW b \in S, NEW c \in S,
             h[a].job = j /\ h[b].job = j /\ h[c].job = j, a < b /\ b < c,
             h[a].status = Ok /\ h[b].status = Processing /\ h[c].status = Processing
      PROVE  \E m \in S : h[m].job = j /\ b < m /\ m < c
  <2>1. PICK m \in S \cup {n} : h[m].job = j /\ b < m /\ m < c
    BY <1>2 DEF Quiet
  <2>2. m \in S
    BY <2>1
  <2> QED
    BY <2>1, <2>2
<1> QED
  BY <1>1, <1>2 DEF Quiet

\* Applying an event keeps the count of a quiet job at one.
LEMMA AppliedCountsOnce ==
    ASSUME NEW h \in Seq(Event), NEW d \in Database, NEW S, S \subseteq 1 .. Len(h),
           NEW n \in 1 .. Len(h), \A m \in S : m < n, Reflects(h, d, S)
    PROVE  CountsOnce(h, Applied(d, h[n]), S \cup {n})
<1> DEFINE e == h[n]
           a == Applied(d, e)
           T == S \cup {n}
<1>1. e \in Event /\ Len(h) \in Nat /\ n \in Nat /\ S \subseteq Nat
  OBVIOUS
<1>2. \A j \in Jobs \ {e.job} :
          /\ a.status[j] = d.status[j] /\ a.suppress[j] = d.suppress[j]
          /\ a.processed[j] = d.processed[j] /\ a.failed[j] = d.failed[j]
  BY <1>1 DEF Applied, Database, Event
<1>3. LET s == d.status[e.job]
          r == d.suppress[e.job]
      IN  /\ a.status[e.job] = e.status
          /\ a.suppress[e.job] = NextSuppress(s, r, e.status)
          /\ a.processed[e.job] = d.processed[e.job] + OkDelta(s, r, e.status)
          /\ a.failed[e.job] = d.failed[e.job] + ErrorDelta(s, r, e.status)
  BY <1>1 DEF Applied, Database, Event
<1> HIDE DEF a
<1> SUFFICES ASSUME NEW j \in Jobs, Quiet(h, T, j)
             PROVE  \/ /\ a.processed[j] + a.failed[j] = 0 /\ a.suppress[j] = 0
                       /\ ~Succeeded(h, T, j)
                    \/ /\ a.processed[j] + a.failed[j] = 1
                       /\ Succeeded(h, T, j)
                       /\ a.status[j] = Ok \/ (a.status[j] = Processing /\ a.suppress[j] = 1)
  BY DEF CountsOnce, a
<1>4. Quiet(h, S, j)
  BY <1>1, QuietBefore
<1>5. \/ /\ d.processed[j] + d.failed[j] = 0 /\ d.suppress[j] = 0
         /\ ~Succeeded(h, S, j)
      \/ /\ d.processed[j] + d.failed[j] = 1
         /\ Succeeded(h, S, j)
         /\ d.status[j] = Ok \/ (d.status[j] = Processing /\ d.suppress[j] = 1)
  BY <1>4 DEF Reflects, CountsOnce
<1>6. CASE j # e.job
  <2>1. Succeeded(h, T, j) <=> Succeeded(h, S, j)
    BY <1>6 DEF Succeeded
  <2> QED
    BY <1>2, <1>5, <1>6, <2>1
<1>7. CASE j = e.job
  <2> DEFINE s == d.status[j]
             r == d.suppress[j]
  <2>1. /\ d.processed[j] \in Nat /\ d.failed[j] \in Nat /\ r \in 0 .. 1 /\ s \in RowStatus
    BY DEF Database
  <2>2. e.status \in {Processing, Ok} /\ e.status # Error
    BY <1>1, <1>7 DEF Quiet, Event, Status, Terminal
  <2>3. Succeeded(h, T, j) <=> (Succeeded(h, S, j) \/ e.status = Ok)
    BY <1>7 DEF Succeeded
  <2>4. /\ a.status[j] = e.status
        /\ a.suppress[j] = NextSuppress(s, r, e.status)
        /\ a.processed[j] = d.processed[j] + OkDelta(s, r, e.status)
        /\ a.failed[j] = d.failed[j]
    BY <1>3, <1>7, <2>1, <2>2 DEF ErrorDelta
  <2>5. s = NoRow \/ \E m \in S : h[m].job = j /\ s = h[m].status
    BY DEF Reflects, ShowsNewest
  <2>6. ~Succeeded(h, S, j) => s # Ok /\ s # Error
    BY <1>4, <2>5 DEF Succeeded, Quiet, NoRow, Ok, Error
  <2>7. ~(e.status = Processing /\ Succeeded(h, S, j) /\ s = Processing)
    <3> SUFFICES ASSUME e.status = Processing, Succeeded(h, S, j), s = Processing
                 PROVE  FALSE
      OBVIOUS
    <3>1. PICK x \in S : h[x].job = j /\ h[x].status = Ok
      BY DEF Succeeded
    <3>2. PICK b \in S : /\ h[b].job = j /\ s = h[b].status
                         /\ \A m \in S : h[m].job = j => m <= b
      BY DEF Reflects, ShowsNewest, NoRow, Processing
    <3>3. x < b /\ b < n
      <4>1. x # b
        BY <3>1, <3>2 DEF Ok, Processing
      <4> QED
        BY <1>1, <3>1, <3>2, <4>1
    <3>4. \E m \in T : h[m].job = j /\ b < m /\ m < n
      <4>1. /\ x \in T /\ b \in T /\ n \in T
            /\ h[x].job = j /\ h[b].job = j /\ h[n].job = j
            /\ h[x].status = Ok /\ h[b].status = Processing /\ h[n].status = Processing
        BY <1>7, <3>1, <3>2
      <4>2. \A k, l, m \in T :
               /\ h[k].job = j /\ h[l].job = j /\ h[m].job = j
               /\ k < l /\ l < m
               /\ h[k].status = Ok /\ h[l].status = Processing /\ h[m].status = Processing
               => \E i \in T : h[i].job = j /\ l < i /\ i < m
        BY DEF Quiet
      <4> HIDE DEF T
      <4> QED
        BY <3>3, <4>1, <4>2
    <3>5. PICK m \in T : h[m].job = j /\ b < m /\ m < n
      BY <3>4
    <3>6. m \in 1 .. Len(h) /\ b \in 1 .. Len(h) /\ n \in 1 .. Len(h)
      OBVIOUS
    <3> HIDE DEF e, s, r
    <3>7. m # n
      BY <3>5, <3>6
    <3>8. m \in S
      BY <3>7
    <3>9. m <= b
      BY <3>2, <3>5, <3>8
    <3> QED
      BY <3>5, <3>6, <3>9
  <2> HIDE DEF s, r, e
  <2>8. CASE e.status = Processing
    <3>1. OkDelta(s, r, e.status) = 0 /\ a.suppress[j] = IF s = Ok THEN 1 ELSE 0
      BY <2>4, <2>8 DEF OkDelta, NextSuppress, Processing, Ok
    <3>2. ~Succeeded(h, S, j) => a.suppress[j] = 0
      BY <2>6, <3>1
    <3>3. Succeeded(h, S, j) => s = Ok
      BY <1>5, <2>7, <2>8 DEF s
    <3> QED
      BY <1>5, <2>1, <2>3, <2>4, <2>8, <3>1, <3>2, <3>3 DEF Processing, Ok
  <2>9. CASE e.status = Ok
    <3>1. Succeeded(h, T, j) /\ a.status[j] = Ok
      BY <2>3, <2>4, <2>9
    <3>2. CASE ~Succeeded(h, S, j)
      <4>1. r = 0 /\ s \notin Terminal /\ d.processed[j] + d.failed[j] = 0
        BY <1>5, <2>6, <3>2 DEF r, Terminal
      <4>2. OkDelta(s, r, e.status) = 1
        BY <2>9, <4>1 DEF OkDelta, CountsOutcome, Terminal
      <4> QED
        BY <2>1, <2>4, <3>1, <4>1, <4>2
    <3>3. CASE Succeeded(h, S, j)
      <4>1. d.processed[j] + d.failed[j] = 1 /\ (s = Ok \/ r = 1)
        BY <1>5, <3>3 DEF s, r
      <4>2. OkDelta(s, r, e.status) = 0
        BY <2>9, <4>1 DEF OkDelta, CountsOutcome, Terminal
      <4> QED
        BY <2>1, <2>4, <3>1, <4>1, <4>2
    <3> QED
      BY <3>2, <3>3
  <2> QED
    BY <2>2, <2>8, <2>9
<1> QED
  BY <1>6, <1>7

\* One step of the open transaction.
LEMMA AppliedReflects ==
    ASSUME NEW h \in Seq(Event), NEW d \in Database, NEW S, S \subseteq 1 .. Len(h),
           NEW n \in 1 .. Len(h), \A m \in S : m < n, Reflects(h, d, S)
    PROVE  Reflects(h, Applied(d, h[n]), S \cup {n})
BY AppliedShowsNewest, AppliedCountsOnce DEF Reflects
-----------------------------------------------------------------------------
(* The row and the totals of a job.                                         *)

\* The events of the batch that the open transaction has applied.
AppliedSoFar == {batch[i] : i \in 1 .. applied}

\* The committed contents reflect the committed events; the open transaction reflects
\* what it has applied of the batch as well.
ContentsInv ==
    /\ applied <= Len(batch)
    /\ pc # "flush" => applied = 0
    /\ Reflects(events, db, committed)
    /\ pc = "flush" => Reflects(events, txn, committed \cup AppliedSoFar)

\* An empty database reflects no events.
LEMMA EmptyReflects == ASSUME NEW h PROVE Reflects(h, EmptyDb, {})
BY DEF Reflects, ShowsNewest, CountsOnce, Succeeded, EmptyDb

\* ContentsInv holds at the start.
LEMMA InitContents == Init => ContentsInv
<1> SUFFICES ASSUME Init PROVE ContentsInv
  OBVIOUS
<1>1. Reflects(events, db, committed) /\ pc # "flush" /\ applied = 0 /\ Len(batch) = 0
  BY EmptyReflects DEF Init
<1> QED
  BY <1>1 DEF ContentsInv

\* Every step keeps the contents a reflection of the events applied to them.
LEMMA NextContents == IInv /\ OrderInv /\ ContentsInv /\ [Next]_vars => ContentsInv'
<1> SUFFICES ASSUME IInv, OrderInv, ContentsInv, [Next]_vars PROVE ContentsInv'
  OBVIOUS
<1>1. /\ queue \in Seq(Nat) /\ batch \in Seq(Nat) /\ Len(batch) \in Nat /\ applied \in Nat
      /\ events \in Seq(Event) /\ Len(events) \in Nat /\ db \in Database /\ txn \in Database
  BY DEF IInv, TypeOK, Event
<1>2. committed \subseteq 1 .. Len(events) /\ NumbersIn(batch) \subseteq 1 .. Len(events)
  BY DEF OrderInv, Resolved, Unresolved
<1>3. AppliedSoFar \subseteq NumbersIn(batch)
  BY <1>1 DEF AppliedSoFar, NumbersIn, ContentsInv
<1>4. ASSUME pc' = "flush", applied' = 0, txn' = db, UNCHANGED <<db, committed, events>>,
             Len(batch') \in Nat
      PROVE  ContentsInv'
  <2>1. AppliedSoFar' = {}
    BY <1>4 DEF AppliedSoFar
  <2>2. committed' \cup AppliedSoFar' = committed
    BY <1>4, <2>1
  <2>3. Reflects(events', db', committed') /\ Reflects(events', txn', committed' \cup AppliedSoFar')
    BY <1>4, <2>2 DEF ContentsInv
  <2> QED
    BY <1>4, <2>3 DEF ContentsInv
<1>5. ASSUME pc' # "flush" \/ txn' = db', applied' = 0, Len(batch') \in Nat,
             Reflects(events', db', committed')
      PROVE  ContentsInv'
  <2>1. AppliedSoFar' = {}
    BY <1>5 DEF AppliedSoFar
  <2>2. committed' \cup AppliedSoFar' = committed'
    BY <2>1
  <2>3. pc' = "flush" => Reflects(events', txn', committed' \cup AppliedSoFar')
    BY <1>5, <2>2
  <2> QED
    BY <1>5, <2>3 DEF ContentsInv
<1>6. Reflects(events, db, committed)
  BY DEF ContentsInv
<1>7. Len(<<>>) = 0 /\ 0 \in Nat
  OBVIOUS
<1>8. ASSUME NEW j \in Jobs, NEW s \in Status, EnqueueJob(j, s) PROVE ContentsInv'
  <2> DEFINE e == [job |-> j, status |-> s]
  <2>1. /\ events' = Append(events, e) /\ e \in Event
        /\ UNCHANGED <<batch, applied, pc, db, txn, committed>>
    BY <1>8 DEF EnqueueJob, Event
  <2>2. AppliedSoFar' = AppliedSoFar
    BY <2>1 DEF AppliedSoFar
  <2>3. Reflects(events', db', committed')
    BY <1>1, <1>2, <2>1, ReflectsLonger DEF ContentsInv
  <2>4. pc = "flush" => Reflects(events', txn', committed' \cup AppliedSoFar')
    <3>1. committed \cup AppliedSoFar \subseteq 1 .. Len(events)
      BY <1>2, <1>3
    <3>2. pc = "flush" => Reflects(Append(events, e), txn, committed \cup AppliedSoFar)
      BY <1>1, <2>1, <3>1, ReflectsLonger DEF ContentsInv
    <3> QED
      BY <2>1, <2>2, <3>2
  <2> QED
    BY <2>1, <2>3, <2>4 DEF ContentsInv
<1>9. ASSUME UNCHANGED <<events, batch, applied, pc, db, txn, committed>> PROVE ContentsInv'
  BY <1>9 DEF ContentsInv, AppliedSoFar
<1>10. ASSUME RequestStop PROVE ContentsInv'
  BY <1>9, <1>10 DEF RequestStop
<1>11. ASSUME JoinReturns \/ Crash PROVE ContentsInv'
  BY <1>5, <1>6, <1>7, <1>11 DEF JoinReturns, Crash
<1>12. ASSUME Writer PROVE ContentsInv'
  <2> USE DEF UnchangedByWriter, FlushReturns
  <2>1. CASE TakeFirst
    <3>1. /\ pc' # "flush" /\ applied' = applied /\ pc # "flush"
          /\ UNCHANGED <<events, db, committed>>
      BY <2>1 DEF TakeFirst
    <3>2. batch' \in Seq(Nat)
      BY <2>1, NextInv DEF IInv, TypeOK
    <3> QED
      BY <1>5, <1>6, <3>1, <3>2 DEF ContentsInv
  <2>2. CASE TakeNext \/ BatchReady \/ DrainTail \/ TailEmpty
    <3>1. /\ pc # "flush" /\ applied' = applied /\ UNCHANGED <<events, db, committed>>
          /\ (pc' # "flush" \/ txn' = db')
      BY <2>2 DEF TakeNext, BatchReady, DrainTail, TailEmpty
    <3>2. batch' \in Seq(Nat)
      BY <2>2, NextInv DEF IInv, TypeOK
    <3> QED
      BY <1>5, <1>6, <3>1, <3>2 DEF ContentsInv
  <2>3. CASE ApplyEvent
    <3> DEFINE n == batch[applied + 1]
               S == committed \cup AppliedSoFar
    <3>1. /\ pc = "flush" /\ applied < Len(batch) /\ applied' = applied + 1
          /\ txn' = Applied(txn, events[n])
          /\ UNCHANGED <<events, batch, pc, db, committed>>
      BY <2>3 DEF ApplyEvent
    <3>2. applied + 1 \in 1 .. Len(batch) /\ n \in NumbersIn(batch) /\ n \in 1 .. Len(events)
      BY <1>1, <1>2, <3>1, NumbersAt
    <3>3. S \subseteq 1 .. Len(events)
      BY <1>2, <1>3
    <3>4. \A m \in S : m < n
      <4>1. \A m \in committed : m < n
        BY <3>2 DEF OrderInv, Resolved, Unresolved
      <4>2. \A i \in 1 .. applied : batch[i] < n
        <5> SUFFICES ASSUME NEW i \in 1 .. applied PROVE batch[i] < n
          OBVIOUS
        <5>1. i \in 1 .. Len(batch) /\ i < applied + 1
          BY <1>1, <3>1
        <5> QED
          BY <3>2, <5>1 DEF OrderInv, Ordered
      <4> QED
        BY <4>1, <4>2 DEF AppliedSoFar
    <3>5. AppliedSoFar' = AppliedSoFar \cup {n}
      <4>1. \A i : i \in 1 .. applied + 1 <=> i \in 1 .. applied \/ i = applied + 1
        BY <1>1
      <4> QED
        BY <3>1, <4>1 DEF AppliedSoFar
    <3>6. Reflects(events, txn, S)
      BY <3>1 DEF ContentsInv
    <3> HIDE DEF n, S
    <3>7. Reflects(events, Applied(txn, events[n]), S \cup {n})
      BY <1>1, <3>2, <3>3, <3>4, <3>6, AppliedReflects
    <3>8. committed' \cup AppliedSoFar' = S \cup {n}
      BY <3>1, <3>5 DEF S
    <3>9. Reflects(events', db', committed') /\ Reflects(events', txn', committed' \cup AppliedSoFar')
      BY <1>6, <3>1, <3>7, <3>8
    <3> QED
      BY <1>1, <3>1, <3>9 DEF ContentsInv
  <2>4. CASE Commit
    <3>1. /\ pc = "flush" /\ applied = Len(batch) /\ db' = txn /\ txn' = txn
          /\ committed' = committed \cup NumbersIn(batch)
          /\ batch' = <<>> /\ applied' = 0 /\ events' = events
      BY <2>4 DEF Commit
    <3>2. AppliedSoFar = NumbersIn(batch)
      BY <1>1, <3>1 DEF AppliedSoFar, NumbersIn
    <3> QED
      BY <1>5, <1>7, <3>1, <3>2 DEF ContentsInv
  <2>5. CASE FlushFails
    BY <1>5, <1>6, <1>7, <2>5 DEF FlushFails
  <2> QED
    BY <1>12, <2>1, <2>2, <2>3, <2>4, <2>5 DEF Writer
<1>13. CASE UNCHANGED vars
  BY <1>9, <1>13 DEF vars
<1> QED
  BY <1>8, <1>10, <1>11, <1>12, <1>13 DEF Next

\* All the invariants of the history together.
HistoryInv == IInv /\ StopInv /\ OrderInv /\ ContentsInv

\* HistoryInv holds in every reachable state.
LEMMA HistoryInvariant == Spec => []HistoryInv
<1>1. Init => HistoryInv
  BY InitInv, InitStop, InitOrder, InitContents DEF HistoryInv
<1>2. HistoryInv /\ [Next]_vars => HistoryInv'
  BY NextInv, NextStop, NextOrder, NextContents DEF HistoryInv
<1> QED
  BY <1>1, <1>2, PTL DEF Spec

\* The greatest of a set that has one.
LEMMA MaxIs ==
    ASSUME NEW S, S \subseteq Nat, NEW n \in S, \A m \in S : m <= n
    PROVE  Max(S) = n
<1>1. \A x \in S : (\A y \in S : x >= y) => x = n
  OBVIOUS
<1>2. n \in S /\ \A y \in S : n >= y
  OBVIOUS
<1> QED
  BY <1>1, <1>2 DEF Max

\* A committed row shows the newest committed event of its job.
THEOREM NewestShown == Spec => []RowIsNewestCommitted
<1>1. HistoryInv => RowIsNewestCommitted
  <2> SUFFICES ASSUME HistoryInv, NEW j \in Jobs
               PROVE  db.status[j] = IF CommittedOf(j) = {} THEN NoRow
                                     ELSE events[Max(CommittedOf(j))].status
    BY DEF RowIsNewestCommitted
  <2>1. committed \subseteq Nat
    BY DEF HistoryInv, IInv, TypeOK
  <2>2. CASE (\A n \in committed : events[n].job # j) /\ db.status[j] = NoRow
    BY <2>2 DEF CommittedOf
  <2>3. CASE \E n \in committed : /\ events[n].job = j /\ db.status[j] = events[n].status
                                  /\ \A m \in committed : events[m].job = j => m <= n
    <3>1. PICK n \in committed : /\ events[n].job = j /\ db.status[j] = events[n].status
                                 /\ \A m \in committed : events[m].job = j => m <= n
      BY <2>3
    <3>2. n \in CommittedOf(j) /\ \A m \in CommittedOf(j) : m <= n
      BY <3>1 DEF CommittedOf
    <3>3. Max(CommittedOf(j)) = n
      BY <2>1, <3>2, MaxIs DEF CommittedOf
    <3> QED
      BY <3>1, <3>2, <3>3
  <2> QED
    BY <2>2, <2>3 DEF HistoryInv, ContentsInv, Reflects, ShowsNewest
<1> QED
  BY <1>1, HistoryInvariant, PTL

\* A job that never failed and whose replays ran to their end is counted once.
THEOREM CountedOnce == Spec => []ReplayCountedOnce
<1>1. HistoryInv => ReplayCountedOnce
  <2> SUFFICES ASSUME HistoryInv, NEW j \in Jobs, ~EverFailed(j), ~ReplayInterrupted(j)
               PROVE  CountedOutcomes(db, j) <= 1
    BY DEF ReplayCountedOnce
  <2>1. Quiet(events, committed, j)
    <3>1. \A n \in committed : events[n].job = j => events[n].status # Error
      BY DEF EverFailed, CommittedOf
    <3>2. ASSUME NEW a \in committed, NEW b \in committed, NEW c \in committed,
                 events[a].job = j /\ events[b].job = j /\ events[c].job = j, a < b /\ b < c,
                 events[a].status = Ok,
                 events[b].status = Processing /\ events[c].status = Processing
          PROVE  \E n \in committed : events[n].job = j /\ b < n /\ n < c
      <4>1. a \in CommittedOf(j) /\ b \in CommittedOf(j) /\ c \in CommittedOf(j)
        BY <3>2 DEF CommittedOf
      <4>2. \E n \in CommittedOf(j) : b < n /\ n < c
        BY <3>2, <4>1 DEF ReplayInterrupted
      <4> QED
        BY <4>2 DEF CommittedOf
    <3> QED
      BY <3>1, <3>2 DEF Quiet
  <2>2. db.processed[j] \in Nat /\ db.failed[j] \in Nat
    BY DEF HistoryInv, IInv, TypeOK, Database
  <2>3. db.processed[j] + db.failed[j] = 0 \/ db.processed[j] + db.failed[j] = 1
    BY <2>1 DEF HistoryInv, ContentsInv, Reflects, CountsOnce
  <2> QED
    BY <2>2, <2>3 DEF CountedOutcomes
<1> QED
  BY <1>1, HistoryInvariant, PTL
=============================================================================
