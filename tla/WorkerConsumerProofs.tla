------------------------ MODULE WorkerConsumerProofs ------------------------
(***************************************************************************)
(* Proofs about WorkerConsumer for every set of jobs and replicas, every   *)
(* concurrency and every number of faults, drops and crashes.              *)
(*                                                                         *)
(* SettledIsAnswered is not inductive: a job is settled when the broker    *)
(* reads an ack, long after the worker wrote it, and the answer travels in *)
(* a frame of its own.  WireInv strengthens it: every ack on a wire is     *)
(* behind an answer for the same job on that wire, or the broker has such  *)
(* an answer already.  It is kept because a channel is read in order and   *)
(* loses only suffixes, and because no path of the code writes an ack      *)
(* without having written the result or the dead-letter copy first.        *)
(*                                                                         *)
(* Who owns a delivery, for every number of jobs, replicas and faults, and *)
(* from it that WorkerConsumer implements JobDelivery.                     *)
(*                                                                         *)
(* A result may reach the broker only while its job is unsettled.  That is *)
(* so because on a working connection every frame is about a delivery the  *)
(* broker still counts as outstanding there, and nothing is written about  *)
(* a delivery behind its ack or nack.  Agreed(w) states this together with *)
(* what keeps it: a delivery is held in one place of the worker at most,   *)
(* has no ack or nack on the wire while it is held, and its callback has   *)
(* written nothing before it runs.                                         *)
(***************************************************************************)
EXTENDS WorkerConsumer, FiniteSetTheorems, SequenceTheorems, TLAPS

AnsweredJobs == {j \in Jobs : results[j] # {} \/ j \in deadLetters}

\* Every ack in the frames s is for a job in D or behind an answer for its job.
Covered(s, D) ==
    \A i \in 1 .. Len(s) :
        s[i].op = "ack" =>
            \/ s[i].job \in D
            \/ \E k \in 1 .. (i - 1) : s[k].job = s[i].job /\ s[k].op \in {"result", "dlq"}

WireInv == \A w \in Workers : Covered(wire[w], AnsweredJobs)

\* The completion of a delivery is scheduled once its future is done.
ScheduledIsDone == \A w \in Workers : \A e \in pending[w] : e.scheduled => e.future # "running"

IInv == TypeOK /\ WireInv /\ SettledIsAnswered /\ ScheduledIsDone

-----------------------------------------------------------------------------
(* Frames.                                                                  *)

\* Frames of a delivery are well typed.
LEMMA FrameTyped ==
    ASSUME NEW d \in Deliveries, NEW v \in Verdicts,
           NEW op \in {"lifecycle", "result", "llm", "dlq", "ack", "nack"}
    PROVE  /\ Frame(op, d, v) \in Frames /\ Send(op, d) \in Frames
           /\ Frame(op, d, v).op = op /\ Frame(op, d, v).job = d.job
           /\ Send(op, d).op = op /\ Send(op, d).job = d.job
BY DEF Frame, Send, Frames, Deliveries, Verdicts

\* Concatenation puts the frames of t behind those of s.
LEMMA Concatenated ==
    ASSUME NEW s \in Seq(Frames), NEW t \in Seq(Frames)
    PROVE  /\ s \o t \in Seq(Frames) /\ Len(s \o t) = Len(s) + Len(t)
           /\ Len(s) \in Nat /\ Len(t) \in Nat
           /\ \A i \in 1 .. Len(s) : (s \o t)[i] = s[i]
           /\ \A i \in 1 .. Len(t) : (s \o t)[Len(s) + i] = t[i]
OBVIOUS

\* Writing covered frames behind covered frames keeps them covered.
LEMMA ConcatCovered ==
    ASSUME NEW s \in Seq(Frames), NEW t \in Seq(Frames), NEW D,
           Covered(s, D), Covered(t, D)
    PROVE  s \o t \in Seq(Frames) /\ Covered(s \o t, D)
<1> DEFINE c == s \o t
<1>1. /\ c \in Seq(Frames) /\ Len(c) = Len(s) + Len(t)
      /\ Len(s) \in Nat /\ Len(t) \in Nat
      /\ \A i \in 1 .. Len(s) : c[i] = s[i]
      /\ \A i \in 1 .. Len(t) : c[Len(s) + i] = t[i]
  OBVIOUS
<1> SUFFICES ASSUME NEW i \in 1 .. Len(c), c[i].op = "ack"
             PROVE  c[i].job \in D \/ \E k \in 1 .. (i - 1) :
                        c[k].job = c[i].job /\ c[k].op \in {"result", "dlq"}
  BY <1>1 DEF Covered
<1>2. CASE i <= Len(s)
  <2>1. i \in 1 .. Len(s) /\ c[i] = s[i]
    BY <1>1, <1>2
  <2>2. CASE s[i].job \in D
    BY <2>1, <2>2
  <2>3. CASE \E k \in 1 .. (i - 1) : s[k].job = s[i].job /\ s[k].op \in {"result", "dlq"}
    <3>1. PICK k \in 1 .. (i - 1) : s[k].job = s[i].job /\ s[k].op \in {"result", "dlq"}
      BY <2>3
    <3>2. k \in 1 .. Len(s) /\ c[k] = s[k]
      BY <1>1, <2>1, <3>1
    <3> QED
      BY <2>1, <3>1, <3>2
  <2> QED
    BY <2>1, <2>2, <2>3 DEF Covered
<1>3. CASE i > Len(s)
  <2> DEFINE n == i - Len(s)
  <2>1. n \in 1 .. Len(t) /\ i = Len(s) + n
    BY <1>1, <1>3
  <2>2. c[i] = t[n]
    BY <1>1, <2>1
  <2>3. CASE t[n].job \in D
    BY <2>2, <2>3
  <2>4. CASE \E k \in 1 .. (n - 1) : t[k].job = t[n].job /\ t[k].op \in {"result", "dlq"}
    <3>1. PICK k \in 1 .. (n - 1) : t[k].job = t[n].job /\ t[k].op \in {"result", "dlq"}
      BY <2>4
    <3>2. k \in 1 .. Len(t) /\ c[Len(s) + k] = t[k] /\ Len(s) + k \in 1 .. (i - 1)
      BY <1>1, <2>1, <3>1
    <3> QED
      BY <2>2, <3>1, <3>2
  <2> QED
    BY <2>1, <2>2, <2>3, <2>4 DEF Covered
<1> QED
  BY <1>1, <1>2, <1>3

\* Reading the first frame keeps the others covered, if an answer that is read is
\* remembered.
LEMMA TailCovered ==
    ASSUME NEW s \in Seq(Frames), s # <<>>, NEW D, NEW E, Covered(s, D), D \subseteq E,
           Head(s).op \in {"result", "dlq"} => Head(s).job \in E
    PROVE  /\ Tail(s) \in Seq(Frames) /\ Covered(Tail(s), E)
           /\ Head(s) \in Frames
           /\ Head(s).op = "ack" => Head(s).job \in D
<1> DEFINE t == Tail(s)
<1>1. /\ t \in Seq(Frames) /\ Len(s) \in Nat /\ Len(s) >= 1 /\ Len(t) = Len(s) - 1
      /\ Head(s) = s[1] /\ Head(s) \in Frames
      /\ \A i \in 1 .. Len(t) : t[i] = s[i + 1]
  OBVIOUS
<1>2. Head(s).op = "ack" => Head(s).job \in D
  BY <1>1 DEF Covered
<1>3. ASSUME NEW i \in 1 .. Len(t), t[i].op = "ack"
      PROVE  t[i].job \in E \/ \E k \in 1 .. (i - 1) :
                 t[k].job = t[i].job /\ t[k].op \in {"result", "dlq"}
  <2>1. i + 1 \in 1 .. Len(s) /\ t[i] = s[i + 1]
    BY <1>1
  <2>2. CASE s[i + 1].job \in D
    BY <2>1, <2>2
  <2>3. CASE \E k \in 1 .. i : s[k].job = s[i + 1].job /\ s[k].op \in {"result", "dlq"}
    <3>1. PICK k \in 1 .. i : s[k].job = s[i + 1].job /\ s[k].op \in {"result", "dlq"}
      BY <2>3
    <3>2. CASE k = 1
      BY <1>1, <2>1, <3>1, <3>2
    <3>3. CASE k # 1
      <4>1. k - 1 \in 1 .. (i - 1) /\ k - 1 \in 1 .. Len(t) /\ t[k - 1] = s[k]
        BY <1>1, <3>1, <3>3
      <4> QED
        BY <2>1, <3>1, <4>1
    <3> QED
      BY <3>2, <3>3
  <2> QED
    BY <1>3, <2>1, <2>2, <2>3 DEF Covered
<1> QED
  BY <1>1, <1>2, <1>3 DEF Covered
-----------------------------------------------------------------------------
(* What the callbacks write.                                                *)

\* Frames without an ack, which is all a callback has written before it ends.
Quiet(s) == s \in Seq(Frames) /\ \A i \in 1 .. Len(s) : s[i].op # "ack"

\* The frames that precede the end of a callback are quiet, and an answered
\* delivery starts with its result.
LEMMA SentQuiet ==
    ASSUME NEW d \in Deliveries, NEW v \in Verdicts
    PROVE  /\ Quiet(<<>>) /\ Quiet(Announce(d)) /\ Quiet(Answer(d, v))
           /\ Quiet(Answer(d, v) \o FollowUp(d, v))
           /\ Len(Answer(d, v)) = 1 /\ Answer(d, v)[1] = Frame("result", d, v)
           /\ Len(Answer(d, v) \o FollowUp(d, v)) \in {1, 2}
           /\ (Answer(d, v) \o FollowUp(d, v))[1] = Frame("result", d, v)
<1>1. /\ Frame("result", d, v) \in Frames /\ Frame("result", d, v).op = "result"
      /\ Send("llm", d) \in Frames /\ Send("llm", d).op = "llm"
      /\ Send("lifecycle", d) \in Frames /\ Send("lifecycle", d).op = "lifecycle"
  BY FrameTyped
<1>2. Quiet(<<>>)
  BY DEF Quiet
<1>3. Quiet(Announce(d))
  BY <1>1, <1>2 DEF Announce, Quiet
<1>4. Quiet(Answer(d, v)) /\ Len(Answer(d, v)) = 1 /\ Answer(d, v)[1] = Frame("result", d, v)
  BY <1>1 DEF Answer, Quiet
<1>5. Quiet(FollowUp(d, v)) /\ Len(FollowUp(d, v)) \in {0, 1}
  <2>1. CASE FollowUp(d, v) = <<>>
    <3>1. Len(<<>>) = 0
      OBVIOUS
    <3> QED
      BY <1>2, <2>1, <3>1
  <2>2. CASE FollowUp(d, v) = <<Send("llm", d)>>
    BY <1>1, <2>2 DEF Quiet
  <2> QED
    BY <2>1, <2>2 DEF FollowUp
<1> DEFINE s == Answer(d, v)
           t == FollowUp(d, v)
<1> HIDE DEF s, t
<1>6. /\ s \o t \in Seq(Frames) /\ Len(s \o t) = Len(s) + Len(t)
      /\ \A i \in 1 .. Len(s) : (s \o t)[i] = s[i]
      /\ \A i \in 1 .. Len(t) : (s \o t)[Len(s) + i] = t[i]
  <2>1. s \in Seq(Frames) /\ t \in Seq(Frames)
    BY <1>4, <1>5 DEF Quiet, s, t
  <2> QED
    BY <2>1, Concatenated
<1>7. ASSUME NEW i \in 1 .. Len(s \o t) PROVE (s \o t)[i].op # "ack"
  <2>1. CASE i = 1
    BY <1>4, <1>6, <2>1 DEF s, Quiet
  <2>2. CASE i # 1
    <3>1. i - 1 \in 1 .. Len(t) /\ i = Len(s) + (i - 1)
      BY <1>4, <1>5, <1>6, <2>2 DEF s, t
    <3>2. (s \o t)[i] = t[i - 1]
      BY <1>6, <3>1
    <3> QED
      BY <1>5, <3>1, <3>2 DEF t, Quiet
  <2> QED
    BY <2>1, <2>2
<1>8. Quiet(s \o t) /\ Len(s \o t) \in {1, 2} /\ (s \o t)[1] = Frame("result", d, v)
  BY <1>4, <1>5, <1>6, <1>7 DEF s, t, Quiet
<1> QED
  BY <1>2, <1>3, <1>4, <1>8 DEF s, t

\* An ack behind quiet frames that start with the result is covered.
LEMMA AckCovered ==
    ASSUME NEW s, NEW D, NEW d \in Deliveries, NEW v \in Verdicts,
           Quiet(s), Len(s) >= 1, s[1] = Frame("result", d, v)
    PROVE  s \o <<Send("ack", d)>> \in Seq(Frames) /\ Covered(s \o <<Send("ack", d)>>, D)
<1> DEFINE a == Send("ack", d)
           c == s \o <<a>>
<1>1. a \in Frames /\ a.job = d.job /\ s[1].op = "result" /\ s[1].job = d.job
  BY FrameTyped
<1> HIDE DEF a
<1>2. /\ c \in Seq(Frames) /\ Len(s) \in Nat /\ Len(c) = Len(s) + 1 /\ c[Len(s) + 1] = a
      /\ \A i \in 1 .. Len(s) : c[i] = s[i]
  BY <1>1 DEF Quiet
<1>3. ASSUME NEW i \in 1 .. Len(c), c[i].op = "ack"
      PROVE  \E k \in 1 .. (i - 1) : c[k].job = c[i].job /\ c[k].op \in {"result", "dlq"}
  <2>1. i = Len(s) + 1
    BY <1>2, <1>3 DEF Quiet
  <2>2. 1 \in 1 .. (i - 1) /\ c[1] = s[1] /\ c[i] = a
    BY <1>2, <2>1
  <2> QED
    BY <1>1, <2>2
<1> QED
  BY <1>2, <1>3 DEF Covered, a

\* All the ways _handle_processing_exception ends a delivery are covered.
LEMMA GiveUpCovered ==
    ASSUME NEW s, NEW D, NEW d \in Deliveries, Quiet(s)
    PROVE  \A e \in {<<Send("nack", d)>>, <<Send("dlq", d), Send("ack", d)>>,
                     <<Send("dlq", d), Send("nack", d)>>} :
               s \o e \in Seq(Frames) /\ Covered(s \o e, D)
<1> TAKE e \in {<<Send("nack", d)>>, <<Send("dlq", d), Send("ack", d)>>,
                <<Send("dlq", d), Send("nack", d)>>}
<1>0. "ok" \in Verdicts
  BY DEF Verdicts
<1>1. /\ Send("nack", d) \in Frames /\ Send("nack", d).op = "nack"
      /\ Send("ack", d) \in Frames /\ Send("ack", d).op = "ack" /\ Send("ack", d).job = d.job
      /\ Send("dlq", d) \in Frames /\ Send("dlq", d).op = "dlq" /\ Send("dlq", d).job = d.job
  BY <1>0, FrameTyped
<1>2. Covered(s, D)
  BY DEF Quiet, Covered
<1>3. CASE e = <<Send("nack", d)>>
  <2>1. e \in Seq(Frames) /\ Covered(e, D)
    BY <1>1, <1>3 DEF Covered
  <2> QED
    BY <1>2, <2>1, ConcatCovered DEF Quiet
<1>4. CASE e = <<Send("dlq", d), Send("ack", d)>>
  <2>1. e \in Seq(Frames) /\ Len(e) = 2 /\ e[1] = Send("dlq", d) /\ e[2] = Send("ack", d)
    BY <1>1, <1>4
  <2>2. Covered(e, D)
    BY <1>1, <2>1 DEF Covered
  <2> QED
    BY <1>2, <2>1, <2>2, ConcatCovered DEF Quiet
<1>5. CASE e = <<Send("dlq", d), Send("nack", d)>>
  <2>1. e \in Seq(Frames) /\ Len(e) = 2 /\ e[1] = Send("dlq", d) /\ e[2] = Send("nack", d)
    BY <1>1, <1>5
  <2>2. Covered(e, D)
    BY <1>1, <2>1 DEF Covered
  <2> QED
    BY <1>2, <2>1, <2>2, ConcatCovered DEF Quiet
<1> QED
  BY <1>3, <1>4, <1>5
-----------------------------------------------------------------------------
(* The shared ends of the callbacks.                                        *)

RowStatus == {"none", "processing"} \cup Verdicts

\* What an end of a callback leaves of the wires, the history and the faults.
Kept ==
    /\ wire' \in [Workers -> Seq(Frames)]
    /\ \A w \in Workers : Covered(wire'[w], AnsweredJobs)
    /\ row' \in [Workers -> [Jobs -> RowStatus]]
    /\ faults' \in Nat

\* Writing covered frames and recording a status.
LEMMA WriteKept ==
    ASSUME TypeOK, WireInv, NEW w \in Workers, NEW d \in Deliveries, NEW s \in RowStatus, NEW fr,
           wire[w] \o fr \in Seq(Frames), Covered(wire[w] \o fr, AnsweredJobs),
           Write(w, fr), Record(w, d, s), faults' \in Nat
    PROVE  Kept
<1>1. wire' \in [Workers -> Seq(Frames)]
  BY DEF Write, TypeOK
<1>2. ASSUME NEW u \in Workers PROVE Covered(wire'[u], AnsweredJobs)
  <2>1. wire'[u] = IF u = w THEN wire[w] \o fr ELSE wire[u]
    BY DEF Write, TypeOK
  <2> QED
    BY <2>1 DEF WireInv
<1>3. row' \in [Workers -> [Jobs -> RowStatus]]
  BY DEF Record, TypeOK, Deliveries, RowStatus
<1> QED
  BY <1>1, <1>2, <1>3 DEF Kept

\* Covered frames are covered behind what is on a wire.
LEMMA AppendKept ==
    ASSUME TypeOK, WireInv, NEW w \in Workers, NEW fr \in Seq(Frames), Covered(fr, AnsweredJobs)
    PROVE  wire[w] \o fr \in Seq(Frames) /\ Covered(wire[w] \o fr, AnsweredJobs)
<1>1. wire[w] \in Seq(Frames) /\ Covered(wire[w], AnsweredJobs)
  BY DEF TypeOK, WireInv
<1> QED
  BY <1>1, ConcatCovered

\* _handle_processing_exception never writes an uncovered ack.
LEMMA HandleExceptionKept ==
    ASSUME TypeOK, WireInv, NEW w \in Workers, NEW d \in Deliveries, NEW sent, Quiet(sent),
           NEW s \in RowStatus, NEW n \in Nat, HandleException(w, d, sent, s, n)
    PROVE  Kept
<1>0. faults' \in Nat /\ "error" \in RowStatus
  BY DEF HandleException, Fault, TypeOK, RowStatus, Verdicts
<1>1. \A e \in {<<Send("nack", d)>>, <<Send("dlq", d), Send("ack", d)>>,
                <<Send("dlq", d), Send("nack", d)>>} :
          /\ wire[w] \o (sent \o e) \in Seq(Frames)
          /\ Covered(wire[w] \o (sent \o e), AnsweredJobs)
  BY GiveUpCovered, AppendKept
<1>2. CASE GiveUp(w, d, sent, s)
  <2>1. CASE Write(w, sent \o <<Send("nack", d)>>) /\ Record(w, d, s)
    BY <1>0, <1>1, <2>1, WriteKept
  <2>2. CASE Write(w, sent \o <<Send("dlq", d), Send("ack", d)>>) /\ Record(w, d, "error")
    BY <1>0, <1>1, <2>2, WriteKept
  <2> QED
    BY <1>2, <2>1, <2>2 DEF GiveUp
<1>3. CASE GiveUpFails(w, d, sent, s)
  <2>1. CASE Write(w, sent \o <<Send("nack", d)>>) /\ Record(w, d, s)
    BY <1>0, <1>1, <2>1, WriteKept
  <2>2. CASE Write(w, sent \o <<Send("dlq", d), Send("nack", d)>>) /\ Record(w, d, "error")
    BY <1>0, <1>1, <2>2, WriteKept
  <2> QED
    BY <1>3, <2>1, <2>2 DEF GiveUpFails
<1> QED
  BY <1>2, <1>3 DEF HandleException

\* _complete_delivery never writes an uncovered ack.
LEMMA CompleteKept ==
    ASSUME TypeOK, WireInv, NEW w \in Workers, NEW d \in Deliveries, NEW v \in Verdicts,
           Complete(w, d, v)
    PROVE  Kept
<1>0. v \in RowStatus /\ row[w][d.job] \in RowStatus
  BY DEF TypeOK, RowStatus, Deliveries
<1>1. CASE HandleException(w, d, <<>>, row[w][d.job], 1)
  BY <1>0, <1>1, SentQuiet, HandleExceptionKept
<1>2. CASE HandleException(w, d, Answer(d, v) \o FollowUp(d, v), v, 1)
  BY <1>0, <1>2, SentQuiet, HandleExceptionKept
<1>3. ASSUME NEW s, Quiet(s), Len(s) >= 1, s[1] = Frame("result", d, v),
             Write(w, s \o <<Send("ack", d)>>), Record(w, d, v), faults' \in Nat
      PROVE  Kept
  <2>1. s \o <<Send("ack", d)>> \in Seq(Frames) /\ Covered(s \o <<Send("ack", d)>>, AnsweredJobs)
    BY <1>3, AckCovered
  <2>2. /\ wire[w] \o (s \o <<Send("ack", d)>>) \in Seq(Frames)
        /\ Covered(wire[w] \o (s \o <<Send("ack", d)>>), AnsweredJobs)
    BY <2>1, AppendKept
  <2> QED
    BY <1>0, <1>3, <2>2, WriteKept
<1>4. CASE /\ Fault(0) /\ Record(w, d, v)
           /\ Write(w, Answer(d, v) \o FollowUp(d, v) \o <<Send("ack", d)>>)
  <2>1. faults' \in Nat
    BY <1>4 DEF Fault, TypeOK
  <2>2. LET s == Answer(d, v) \o FollowUp(d, v)
        IN  Quiet(s) /\ Len(s) >= 1 /\ s[1] = Frame("result", d, v)
    BY SentQuiet
  <2> QED
    BY <1>3, <1>4, <2>1, <2>2
<1>5. CASE Fault(1) /\ Record(w, d, v) /\ Write(w, Answer(d, v) \o <<Send("ack", d)>>)
  <2>1. faults' \in Nat
    BY <1>5 DEF Fault, TypeOK
  <2>2. Quiet(Answer(d, v)) /\ Len(Answer(d, v)) >= 1 /\ Answer(d, v)[1] = Frame("result", d, v)
    BY SentQuiet
  <2> QED
    BY <1>3, <1>5, <2>1, <2>2
<1>6. CASE HandleException(w, d, Answer(d, v), v, 2)
  BY <1>0, <1>6, SentQuiet, HandleExceptionKept
<1> QED
  BY <1>1, <1>2, <1>4, <1>5, <1>6 DEF Complete
-----------------------------------------------------------------------------
(* The broker.                                                              *)

\* A frame that the broker reads leaves every wire covered by what it has then.
LEMMA ReceiveKeeps ==
    ASSUME IInv, NEW w \in Workers, Receive(w)
    PROVE  IInv'
<1> DEFINE f == Head(wire[w])
<1>0. AnsweredJobs \subseteq AnsweredJobs' /\ (f.op \in {"result", "dlq"} /\ f.job \in Jobs => f.job \in AnsweredJobs')
  BY DEF Receive, Routed, AnsweredJobs, IInv, TypeOK
<1>1. wire[w] \in Seq(Frames) /\ wire[w] # <<>> /\ Covered(wire[w], AnsweredJobs)
  BY DEF Receive, IInv, TypeOK, WireInv
<1>2. f \in Frames
  BY <1>1
<1>3. f.job \in Jobs /\ f.verdict \in Verdicts
  BY <1>2 DEF Frames
<1>4. /\ Tail(wire[w]) \in Seq(Frames) /\ Covered(Tail(wire[w]), AnsweredJobs')
      /\ f.op = "ack" => f.job \in AnsweredJobs
  BY <1>0, <1>1, <1>3, TailCovered
<1> HIDE DEF f
<1>5. TypeOK'
  <2>1. wire' \in [Workers -> Seq(Frames)]
    BY <1>4 DEF Receive, IInv, TypeOK
  <2>2. at' \in [Jobs -> Workers \cup {"ready", "settled"}]
    BY <1>3 DEF Receive, Routed, IInv, TypeOK, f
  <2>3. results' \in [Jobs -> SUBSET Verdicts]
    BY <1>3 DEF Receive, Routed, IInv, TypeOK, f
  <2>4. followups' \subseteq Jobs /\ deadLetters' \subseteq Jobs /\ started' \subseteq Jobs
    BY <1>3 DEF Receive, Routed, IInv, TypeOK, f
  <2> QED
    BY <2>1, <2>2, <2>3, <2>4 DEF Receive, IInv, TypeOK, workerVars, bounds
<1>6. WireInv'
  <2> SUFFICES ASSUME NEW u \in Workers PROVE Covered(wire'[u], AnsweredJobs')
    BY DEF WireInv
  <2>1. CASE u = w
    BY <1>4, <2>1 DEF Receive, IInv, TypeOK
  <2>2. CASE u # w
    <3>1. wire'[u] = wire[u] /\ Covered(wire[u], AnsweredJobs)
      BY <2>2 DEF Receive, IInv, TypeOK, WireInv
    <3> QED
      BY <1>0, <3>1 DEF Covered
  <2> QED
    BY <2>1, <2>2
<1>7. SettledIsAnswered'
  <2> SUFFICES ASSUME NEW j \in Jobs, at'[j] = "settled" PROVE j \in AnsweredJobs'
    BY DEF SettledIsAnswered, AnsweredJobs
  <2>1. CASE at[j] = "settled"
    BY <1>0, <2>1 DEF IInv, SettledIsAnswered, AnsweredJobs
  <2>2. CASE at[j] # "settled"
    <3>1. f.op = "ack" /\ f.job = j
      BY <1>3, <2>2 DEF Receive, Routed, IInv, TypeOK, f
    <3> QED
      BY <1>0, <1>4, <3>1
  <2> QED
    BY <2>1, <2>2
<1>8. ScheduledIsDone'
  BY DEF Receive, workerVars, IInv, ScheduledIsDone
<1> QED
  BY <1>5, <1>6, <1>7, <1>8 DEF IInv

\* A step that publishes nothing and settles nothing keeps the invariant if it
\* leaves covered wires.
LEMMA UnansweredStep ==
    ASSUME IInv, TypeOK', ScheduledIsDone', UNCHANGED <<results, deadLetters>>,
           \A w \in Workers : Covered(wire'[w], AnsweredJobs),
           \A j \in Jobs : at'[j] = "settled" => at[j] = "settled"
    PROVE  IInv'
<1>1. AnsweredJobs' = AnsweredJobs
  BY DEF AnsweredJobs
<1>2. WireInv'
  BY <1>1 DEF WireInv
<1>3. SettledIsAnswered'
  BY DEF IInv, SettledIsAnswered
<1> QED
  BY <1>2, <1>3 DEF IInv

\* Deliver, Drop, Connect: the wires stay, and a requeued job is not settled.
LEMMA BrokerKeeps ==
    ASSUME IInv, NEW w \in Workers,
           \/ \E j \in Jobs : Deliver(w, j)
           \/ Drop(w)
           \/ Connect(w)
    PROVE  IInv'
<1>0. /\ TypeOK /\ ScheduledIsDone
      /\ \A u \in Workers : Covered(wire[u], AnsweredJobs)
      /\ w # "settled"
  BY ConsumerAssumption DEF IInv, WireInv
<1>1. CASE \E j \in Jobs : Deliver(w, j)
  <2>1. PICK j \in Jobs : Deliver(w, j)
    BY <1>1
  <2>2. [job |-> j, tag |-> deliveries[j] + 1] \in Deliveries
    BY <1>0 DEF TypeOK, Deliveries
  <2>3. inbox' \in [Workers -> SUBSET Deliveries]
    BY <1>0, <2>1, <2>2 DEF Deliver, TypeOK
  <2>4. at' \in [Jobs -> Workers \cup {"ready", "settled"}] /\ deliveries' \in [Jobs -> Nat]
    BY <1>0, <2>1 DEF Deliver, TypeOK
  <2>5. TypeOK'
    BY <1>0, <2>1, <2>3, <2>4 DEF Deliver, TypeOK, workerVars, bounds
  <2>6. \A i \in Jobs : at'[i] = "settled" => at[i] = "settled"
    BY <1>0, <2>1 DEF Deliver, TypeOK
  <2>7. UNCHANGED <<results, deadLetters, wire>> /\ ScheduledIsDone'
    BY <1>0, <2>1 DEF Deliver, workerVars, ScheduledIsDone
  <2> QED
    BY <1>0, <2>5, <2>6, <2>7, UnansweredStep
<1>2. CASE Drop(w)
  <2>1. /\ at' \in [Jobs -> Workers \cup {"ready", "settled"}]
        /\ \A i \in Jobs : at'[i] = "settled" => at[i] = "settled"
    BY <1>0, <1>2 DEF Drop, Requeued, TypeOK
  <2>2. TypeOK'
    BY <1>0, <1>2, <2>1 DEF Drop, TypeOK, workerVars
  <2>3. UNCHANGED <<results, deadLetters, wire>> /\ ScheduledIsDone'
    BY <1>0, <1>2 DEF Drop, workerVars, ScheduledIsDone
  <2> QED
    BY <1>0, <2>1, <2>2, <2>3, UnansweredStep
<1>3. CASE Connect(w)
  <2>1. TypeOK'
    BY <1>0, <1>3 DEF Connect, TypeOK, workerVars, brokerVars, bounds
  <2>2. UNCHANGED <<results, deadLetters, wire, at>> /\ ScheduledIsDone'
    BY <1>0, <1>3 DEF Connect, workerVars, brokerVars, ScheduledIsDone
  <2> QED
    BY <1>0, <2>1, <2>2, UnansweredStep
<1> QED
  BY <1>1, <1>2, <1>3
-----------------------------------------------------------------------------
(* The callbacks.                                                           *)

\* A callback that leaves the broker alone and ends in one of the shared ways.
LEMMA CallbackStep ==
    ASSUME IInv, Kept, ScheduledIsDone', UNCHANGED <<brokerVars, link, stop, drops, crashes>>,
           inbox' \in [Workers -> SUBSET Deliveries],
           current' \in [Workers -> Deliveries \cup {Idle}],
           pending' \in [Workers -> SUBSET Entries],
           pool' \in [Workers -> {"none", "ready", "broken"}]
    PROVE  IInv'
<1>1. TypeOK'
  BY DEF IInv, TypeOK, Kept, RowStatus, brokerVars
<1> QED
  BY <1>1, UnansweredStep DEF Kept, brokerVars

\* _finish_future takes its entry out of _pending_deliveries.
LEMMA FinishKept ==
    ASSUME IInv, NEW w \in Workers, NEW e \in pending[w], e.future # "running", Finish(w, e)
    PROVE  Kept /\ pending' \in [Workers -> SUBSET Entries] /\ ScheduledIsDone'
<1>1. TypeOK /\ WireInv /\ ScheduledIsDone /\ e \in Entries
  BY DEF IInv, TypeOK
<1>2. e.delivery \in Deliveries /\ (e.future = "broken" \/ e.future \in Verdicts)
  BY <1>1 DEF Entries
<1>3. row[w][e.delivery.job] \in RowStatus
  BY <1>1, <1>2 DEF TypeOK, RowStatus, Deliveries
<1>4. Kept
  <2>1. CASE e.future = "broken"
    <3>1. HandleException(w, e.delivery, <<>>, row[w][e.delivery.job], 0)
      BY <2>1 DEF Finish
    <3>2. Quiet(<<>>)
      BY <1>2, SentQuiet DEF Verdicts
    <3> QED
      BY <1>1, <1>2, <1>3, <3>1, <3>2, HandleExceptionKept
  <2>2. CASE e.future # "broken"
    <3>1. Complete(w, e.delivery, e.future)
      BY <2>2 DEF Finish
    <3> QED
      BY <1>1, <1>2, <2>2, <3>1, CompleteKept
  <2> QED
    BY <2>1, <2>2
<1>5. pending' = [pending EXCEPT ![w] = @ \ {e}]
  BY DEF Finish
<1>6. pending' \in [Workers -> SUBSET Entries] /\ ScheduledIsDone'
  BY <1>1, <1>5 DEF TypeOK, ScheduledIsDone
<1> QED
  BY <1>4, <1>6

\* The two ways a future is finished: by the event loop and by the drain.
LEMMA FinishKeeps ==
    ASSUME IInv, NEW w \in Workers, NEW e \in pending[w],
           FinishFuture(w, e) \/ DrainFinishes(w, e)
    PROVE  IInv'
<1>1. /\ Finish(w, e)
      /\ UNCHANGED <<brokerVars, link, inbox, current, pool, stop, drops, crashes>>
      /\ e.future # "running"
  BY DEF FinishFuture, DrainFinishes, IInv, ScheduledIsDone
<1>2. Kept /\ pending' \in [Workers -> SUBSET Entries] /\ ScheduledIsDone'
  BY <1>1, FinishKept
<1>3. /\ inbox' \in [Workers -> SUBSET Deliveries]
      /\ current' \in [Workers -> Deliveries \cup {Idle}]
      /\ pool' \in [Workers -> {"none", "ready", "broken"}]
  BY <1>1 DEF IInv, TypeOK
<1> QED
  BY <1>1, <1>2, <1>3, CallbackStep

\* A delivery that is extracted inline is completed.
LEMMA InlineKeeps ==
    ASSUME IInv, NEW w \in Workers, NEW v \in Verdicts, InlineFinishes(w, v)
    PROVE  IInv'
<1>1. TypeOK /\ WireInv /\ current[w] \in Deliveries
  BY DEF IInv, TypeOK, InlineFinishes
<1>2. Kept
  BY <1>1, CompleteKept DEF InlineFinishes
<1>3. UNCHANGED <<brokerVars, link, inbox, pending, pool, stop, drops, crashes>>
  BY DEF InlineFinishes
<1>4. /\ inbox' \in [Workers -> SUBSET Deliveries]
      /\ current' \in [Workers -> Deliveries \cup {Idle}]
      /\ pending' \in [Workers -> SUBSET Entries]
      /\ pool' \in [Workers -> {"none", "ready", "broken"}]
      /\ ScheduledIsDone'
  BY <1>1, <1>3 DEF IInv, TypeOK, InlineFinishes, ScheduledIsDone
<1> QED
  BY <1>2, <1>3, <1>4, CallbackStep

\* A message whose processing does not start is given back or dead-lettered.
LEMMA RefusedKeeps ==
    ASSUME IInv, NEW w \in Workers, NEW d \in inbox[w], AnnounceFails(w, d) \/ SubmitFails(w, d)
    PROVE  IInv'
<1>1. TypeOK /\ WireInv /\ d \in Deliveries /\ "ok" \in Verdicts
  BY DEF IInv, TypeOK, Verdicts
<1>2. Quiet(<<>>) /\ Quiet(Announce(d))
  BY <1>1, SentQuiet
<1>3. row[w][d.job] \in RowStatus /\ "processing" \in RowStatus
  BY <1>1 DEF TypeOK, RowStatus, Deliveries
<1>4. Kept
  <2>1. CASE AnnounceFails(w, d)
    BY <1>1, <1>2, <1>3, <2>1, HandleExceptionKept DEF AnnounceFails
  <2>2. CASE SubmitFails(w, d)
    BY <1>1, <1>2, <1>3, <2>2, HandleExceptionKept DEF SubmitFails
  <2> QED
    BY <2>1, <2>2
<1>5. /\ UNCHANGED <<brokerVars, link, current, pending, pool, stop, drops, crashes>>
      /\ inbox' = [inbox EXCEPT ![w] = @ \ {d}]
  BY DEF AnnounceFails, SubmitFails, Take
<1>6. /\ inbox' \in [Workers -> SUBSET Deliveries]
      /\ current' \in [Workers -> Deliveries \cup {Idle}]
      /\ pending' \in [Workers -> SUBSET Entries]
      /\ pool' \in [Workers -> {"none", "ready", "broken"}]
      /\ ScheduledIsDone'
  BY <1>1, <1>5 DEF IInv, TypeOK, ScheduledIsDone
<1> QED
  BY <1>4, <1>5, <1>6, CallbackStep

\* _on_extraction_message takes a message and starts its extraction.
LEMMA MessageKeeps ==
    ASSUME IInv, NEW w \in Workers, NEW d \in inbox[w], OnExtractionMessage(w, d)
    PROVE  IInv'
<1>1. TypeOK /\ WireInv /\ ScheduledIsDone /\ d \in Deliveries /\ "ok" \in Verdicts
  BY DEF IInv, TypeOK, Verdicts
<1>2. Announce(d) \in Seq(Frames) /\ Covered(Announce(d), AnsweredJobs)
  BY <1>1, SentQuiet DEF Quiet, Covered
<1>3. wire[w] \o Announce(d) \in Seq(Frames) /\ Covered(wire[w] \o Announce(d), AnsweredJobs)
  BY <1>1, <1>2, AppendKept
<1>4. Kept
  <2>1. faults' \in Nat /\ "processing" \in RowStatus
    BY <1>1 DEF OnExtractionMessage, bounds, TypeOK, RowStatus
  <2> QED
    BY <1>1, <1>3, <2>1, WriteKept DEF OnExtractionMessage
<1>5. UNCHANGED <<brokerVars, link, stop, drops, crashes>>
  BY DEF OnExtractionMessage, bounds
<1>6. inbox' \in [Workers -> SUBSET Deliveries]
  BY <1>1 DEF OnExtractionMessage, Take, TypeOK
<1>7. /\ current' \in [Workers -> Deliveries \cup {Idle}]
      /\ pending' \in [Workers -> SUBSET Entries]
      /\ pool' \in [Workers -> {"none", "ready", "broken"}]
      /\ ScheduledIsDone'
  <2>1. CASE Inline
    <3>1. UNCHANGED <<pending, pool>> /\ current' = [current EXCEPT ![w] = d]
      BY <2>1 DEF OnExtractionMessage
    <3> QED
      BY <1>1, <3>1 DEF TypeOK, ScheduledIsDone
  <2>2. CASE ~Inline
    <3> DEFINE e == [delivery |-> d, open |-> TRUE, future |-> "running", scheduled |-> FALSE]
    <3>1. e \in Entries /\ e.scheduled = FALSE
      BY <1>1 DEF Entries
    <3>2. pending' = [pending EXCEPT ![w] = @ \cup {e}]
      BY <2>2 DEF OnExtractionMessage
    <3>3. UNCHANGED current /\ pool' = [pool EXCEPT ![w] = "ready"]
      BY <2>2 DEF OnExtractionMessage
    <3> HIDE DEF e
    <3>4. pending' \in [Workers -> SUBSET Entries] /\ ScheduledIsDone'
      BY <1>1, <3>1, <3>2 DEF TypeOK, ScheduledIsDone
    <3> QED
      BY <1>1, <3>3, <3>4 DEF TypeOK
  <2> QED
    BY <2>1, <2>2
<1> QED
  BY <1>4, <1>5, <1>6, <1>7, CallbackStep
-----------------------------------------------------------------------------
(* Lost connections, stop and crash.                                        *)

\* A worker that loses its connection loses what is on its wire.
LEMMA LinkLostKeeps ==
    ASSUME TypeOK, WireInv, NEW w \in Workers, LinkLost(w)
    PROVE  /\ link' \in [Workers -> {"up", "half", "down"}]
           /\ wire' \in [Workers -> Seq(Frames)]
           /\ inbox' \in [Workers -> SUBSET Deliveries]
           /\ \A u \in Workers : Covered(wire'[u], AnsweredJobs)
<1>1. <<>> \in Seq(Frames) /\ Len(<<>>) = 0
  OBVIOUS
<1>2. Covered(<<>>, AnsweredJobs)
  BY <1>1 DEF Covered
<1>3. wire' \in [Workers -> Seq(Frames)]
  BY <1>1 DEF LinkLost, TypeOK
<1>4. ASSUME NEW u \in Workers PROVE Covered(wire'[u], AnsweredJobs)
  <2>1. wire'[u] = <<>> \/ wire'[u] = wire[u]
    BY DEF LinkLost, TypeOK
  <2> QED
    BY <1>2, <2>1 DEF WireInv
<1> QED
  BY <1>3, <1>4 DEF LinkLost, TypeOK

\* The event loop ends with its connection and leaves the entries behind.
LEMMA LoopRaisesKeeps ==
    ASSUME IInv, NEW w \in Workers, LoopRaises(w) \/ InlineRaises(w)
    PROVE  IInv'
<1>1. TypeOK /\ WireInv /\ ScheduledIsDone /\ LinkLost(w)
  BY DEF IInv, LoopRaises, InlineRaises
<1>2. UNCHANGED <<brokerVars, pool, stop, row, bounds>>
  BY DEF LoopRaises, InlineRaises
<1>3. current' \in [Workers -> Deliveries \cup {Idle}]
  BY <1>1 DEF LoopRaises, InlineRaises, TypeOK
<1>4. pending' \in [Workers -> SUBSET Entries] /\ ScheduledIsDone'
  <2>1. CASE UNCHANGED pending
    BY <1>1, <2>1 DEF TypeOK, ScheduledIsDone
  <2>2. CASE \E popped : pending' = [pending EXCEPT ![w] = Closed(@ \ popped)]
    <3>1. PICK popped : pending' = [pending EXCEPT ![w] = Closed(@ \ popped)]
      BY <2>2
    <3>2. ASSUME NEW e \in Closed(pending[w] \ popped)
          PROVE  e \in Entries /\ (e.scheduled => e.future # "running")
      <4>1. PICK f \in pending[w] : e = [f EXCEPT !.open = FALSE]
        BY DEF Closed
      <4>2. f \in Entries /\ (f.scheduled => f.future # "running")
        BY <1>1 DEF TypeOK, ScheduledIsDone
      <4> QED
        BY <4>1, <4>2 DEF Entries
    <3>3. pending' \in [Workers -> SUBSET Entries]
      BY <1>1, <3>1, <3>2 DEF TypeOK
    <3>4. ScheduledIsDone'
      BY <1>1, <3>1, <3>2 DEF TypeOK, ScheduledIsDone
    <3> QED
      BY <3>3, <3>4
  <2> QED
    BY <2>1, <2>2 DEF LoopRaises, InlineRaises
<1>5. TypeOK'
  BY <1>1, <1>2, <1>3, <1>4, LinkLostKeeps DEF TypeOK, brokerVars, bounds
<1> QED
  BY <1>1, <1>2, <1>4, <1>5, LinkLostKeeps, UnansweredStep DEF brokerVars

\* The process ends, and the broker takes back what it still had.
LEMMA GoneKeeps ==
    ASSUME IInv, NEW w \in Workers,
           Crash(w) \/ CloseConnection(w) \/ \E e \in pending[w] : DrainAborts(w, e)
    PROVE  IInv'
<1>1. TypeOK /\ WireInv /\ ScheduledIsDone /\ LinkLost(w) /\ w # "settled"
  BY ConsumerAssumption DEF IInv, Crash, CloseConnection, DrainAborts, ProcessGone
<1>2. /\ UNCHANGED <<deliveries, results, followups, deadLetters, started, row, faults, drops>>
      /\ at' = IF link[w] = "up" THEN Requeued(w, {}) ELSE at
  BY DEF Crash, CloseConnection, DrainAborts, ProcessGone, bounds
<1>3. /\ at' \in [Jobs -> Workers \cup {"ready", "settled"}]
      /\ \A j \in Jobs : at'[j] = "settled" => at[j] = "settled"
  BY <1>1, <1>2 DEF Requeued, TypeOK
<1>4. /\ current' \in [Workers -> Deliveries \cup {Idle}]
      /\ pending' \in [Workers -> SUBSET Entries]
      /\ pool' \in [Workers -> {"none", "ready", "broken"}]
      /\ ScheduledIsDone'
  <2>1. CASE UNCHANGED <<current, pending, pool>>
    BY <1>1, <2>1 DEF TypeOK, ScheduledIsDone
  <2>2. CASE ProcessGone(w)
    BY <1>1, <2>2 DEF ProcessGone, TypeOK, ScheduledIsDone
  <2> QED
    BY <2>1, <2>2 DEF Crash, CloseConnection, DrainAborts
<1>5. /\ stop' \in [Workers -> {"none", "draining", "closing", "stopped", "aborted"}]
      /\ crashes' \in Nat
  <2>1. stop \in [Workers -> {"none", "draining", "closing", "stopped", "aborted"}] /\ crashes \in Nat
    BY <1>1 DEF TypeOK
  <2>2. CASE Crash(w)
    BY <2>1, <2>2 DEF Crash
  <2>3. CASE CloseConnection(w)
    BY <2>1, <2>3 DEF CloseConnection, bounds
  <2>4. CASE \E e \in pending[w] : DrainAborts(w, e)
    BY <2>1, <2>4 DEF DrainAborts
  <2> QED
    BY <2>2, <2>3, <2>4
<1>6. TypeOK'
  BY <1>1, <1>2, <1>3, <1>4, <1>5, LinkLostKeeps DEF TypeOK
<1> QED
  BY <1>1, <1>2, <1>3, <1>4, <1>6, LinkLostKeeps, UnansweredStep

\* The signal gives back the deliveries whose callback has not run; the end of
\* the drain takes the pool down.
LEMMA StopKeeps ==
    ASSUME IInv, NEW w \in Workers, Signal(w) \/ DrainEnds(w)
    PROVE  IInv'
<1>1. TypeOK /\ ScheduledIsDone /\ \A u \in Workers : Covered(wire[u], AnsweredJobs)
  BY DEF IInv, WireInv
<1>2. CASE Signal(w)
  <2>1. /\ at' \in [Jobs -> Workers \cup {"ready", "settled"}]
        /\ \A j \in Jobs : at'[j] = "settled" => at[j] = "settled"
    BY <1>1, <1>2 DEF Signal, TypeOK
  <2>2. TypeOK'
    BY <1>1, <1>2, <2>1 DEF Signal, TypeOK, bounds
  <2>3. UNCHANGED <<results, deadLetters, wire>> /\ ScheduledIsDone'
    BY <1>1, <1>2 DEF Signal, ScheduledIsDone
  <2> QED
    BY <1>1, <2>1, <2>2, <2>3, UnansweredStep
<1>3. CASE DrainEnds(w)
  <2>1. TypeOK'
    BY <1>1, <1>3 DEF DrainEnds, TypeOK, brokerVars, linkVars, bounds
  <2>2. UNCHANGED <<results, deadLetters, wire, at>> /\ ScheduledIsDone'
    BY <1>1, <1>3 DEF DrainEnds, brokerVars, linkVars, ScheduledIsDone
  <2> QED
    BY <1>1, <2>1, <2>2, UnansweredStep
<1> QED
  BY <1>2, <1>3
-----------------------------------------------------------------------------
(* The pool.                                                                *)

\* Futures that end, and the callbacks the management thread runs for them, touch
\* nothing but the entries.
LEMMA PoolKeeps ==
    ASSUME IInv, NEW w \in Workers,
           \/ PoolBreaks(w)
           \/ \E e \in pending[w] : OnFutureDone(w, e) \/ \E v \in Verdicts : ChildFinishes(w, e, v)
    PROVE  IInv'
<1>1. TypeOK /\ ScheduledIsDone /\ \A u \in Workers : Covered(wire[u], AnsweredJobs)
  BY DEF IInv, WireInv
<1>2. UnchangedByPool
  BY DEF PoolBreaks, OnFutureDone, ChildFinishes
<1>3. faults' \in Nat /\ pool' \in [Workers -> {"none", "ready", "broken"}]
  <2>1. faults \in Nat /\ pool \in [Workers -> {"none", "ready", "broken"}]
    BY <1>1 DEF TypeOK
  <2>2. CASE PoolBreaks(w)
    BY <2>1, <2>2 DEF PoolBreaks, Fault
  <2>3. CASE UNCHANGED <<pool, faults>>
    BY <2>1, <2>3
  <2> QED
    BY <2>2, <2>3 DEF OnFutureDone, ChildFinishes
<1>4. \E S : /\ pending' = [pending EXCEPT ![w] = S]
             /\ \A e \in S : e \in Entries /\ (e.scheduled => e.future # "running")
  <2>0. \A e \in pending[w] : e \in Entries /\ (e.scheduled => e.future # "running")
    BY <1>1 DEF TypeOK, ScheduledIsDone
  <2>1. CASE PoolBreaks(w)
    <3> DEFINE S == {IF e.future = "running" THEN [e EXCEPT !.future = "broken"] ELSE e : e \in pending[w]}
    <3>1. pending' = [pending EXCEPT ![w] = S]
      BY <1>1, <2>1 DEF PoolBreaks, TypeOK
    <3>2. \A e \in S : e \in Entries /\ (e.scheduled => e.future # "running")
      BY <2>0 DEF Entries
    <3> QED
      BY <3>1, <3>2
  <2>2. CASE \E e \in pending[w] : OnFutureDone(w, e)
    <3>1. PICK e \in pending[w] : OnFutureDone(w, e)
      BY <2>2
    <3>2. CASE e.open
      <4> DEFINE S == (pending[w] \ {e}) \cup {[e EXCEPT !.scheduled = TRUE]}
      <4>1. pending' = [pending EXCEPT ![w] = S]
        BY <1>1, <3>1, <3>2 DEF OnFutureDone, Replace, TypeOK
      <4>2. \A f \in S : f \in Entries /\ (f.scheduled => f.future # "running")
        BY <2>0, <3>1 DEF OnFutureDone, Entries
      <4> QED
        BY <4>1, <4>2
    <3>3. CASE ~e.open
      <4>1. pending' = [pending EXCEPT ![w] = pending[w] \ {e}]
        BY <1>1, <3>1, <3>3 DEF OnFutureDone, TypeOK
      <4> QED
        BY <2>0, <4>1
    <3> QED
      BY <3>2, <3>3
  <2>3. CASE \E e \in pending[w], v \in Verdicts : ChildFinishes(w, e, v)
    <3>1. PICK e \in pending[w], v \in Verdicts : ChildFinishes(w, e, v)
      BY <2>3
    <3> DEFINE S == (pending[w] \ {e}) \cup {[e EXCEPT !.future = v]}
    <3>2. pending' = [pending EXCEPT ![w] = S]
      BY <1>1, <3>1 DEF ChildFinishes, Replace, TypeOK
    <3>3. v \in {"ok", "error"}
      BY DEF Verdicts
    <3>4. \A f \in S : f \in Entries /\ (f.scheduled => f.future # "running")
      BY <2>0, <3>3 DEF Entries, Verdicts
    <3> QED
      BY <3>2, <3>4
  <2> QED
    BY <2>1, <2>2, <2>3
<1>5. pending' \in [Workers -> SUBSET Entries] /\ ScheduledIsDone'
  BY <1>1, <1>4 DEF TypeOK, ScheduledIsDone
<1>6. TypeOK'
  BY <1>1, <1>2, <1>3, <1>5 DEF UnchangedByPool, TypeOK, brokerVars, linkVars
<1> QED
  BY <1>1, <1>2, <1>5, <1>6, UnansweredStep DEF UnchangedByPool, brokerVars, linkVars
-----------------------------------------------------------------------------
(* The theorems.                                                            *)

\* The invariant holds in the initial states.
LEMMA InitInv == Init => IInv
<1> SUFFICES ASSUME Init PROVE IInv
  OBVIOUS
<1>1. <<>> \in Seq(Frames) /\ Len(<<>>) = 0
  OBVIOUS
<1>2. TypeOK
  BY <1>1 DEF Init, TypeOK
<1>3. WireInv
  BY <1>1 DEF Init, WireInv, Covered
<1>4. SettledIsAnswered /\ ScheduledIsDone
  BY DEF Init, SettledIsAnswered, ScheduledIsDone
<1> QED
  BY <1>2, <1>3, <1>4 DEF IInv

\* Every step preserves the invariant.
LEMMA NextInv == IInv /\ [Next]_vars => IInv'
<1> SUFFICES ASSUME IInv, [Next]_vars PROVE IInv'
  OBVIOUS
<1>1. ASSUME NEW w \in Workers, NEW j \in Jobs, Deliver(w, j) PROVE IInv'
  BY <1>1, BrokerKeeps
<1>2. ASSUME NEW w \in Workers, Receive(w) PROVE IInv'
  BY <1>2, ReceiveKeeps
<1>3. ASSUME NEW w \in Workers, Drop(w) \/ Connect(w) PROVE IInv'
  BY <1>3, BrokerKeeps
<1>4. ASSUME NEW w \in Workers, EventLoop(w) PROVE IInv'
  <2>1. CASE Connect(w)
    BY <1>3, <2>1
  <2>2. CASE LoopRaises(w) \/ InlineRaises(w)
    BY <2>2, LoopRaisesKeeps
  <2>3. ASSUME NEW d \in inbox[w], OnExtractionMessage(w, d) PROVE IInv'
    BY <2>3, MessageKeeps
  <2>4. ASSUME NEW d \in inbox[w], AnnounceFails(w, d) \/ SubmitFails(w, d) PROVE IInv'
    BY <2>4, RefusedKeeps
  <2>5. ASSUME NEW v \in Verdicts, InlineFinishes(w, v) PROVE IInv'
    BY <2>5, InlineKeeps
  <2>6. ASSUME NEW e \in pending[w], FinishFuture(w, e) \/ DrainFinishes(w, e) PROVE IInv'
    BY <2>6, FinishKeeps
  <2>7. CASE CloseConnection(w) \/ \E e \in pending[w] : DrainAborts(w, e)
    BY <2>7, GoneKeeps
  <2>8. CASE DrainEnds(w)
    BY <2>8, StopKeeps
  <2> QED
    BY <1>4, <2>1, <2>2, <2>3, <2>4, <2>5, <2>6, <2>7, <2>8 DEF EventLoop
<1>5. ASSUME NEW w \in Workers, Pool(w) \/ PoolBreaks(w) PROVE IInv'
  BY <1>5, PoolKeeps DEF Pool
<1>6. ASSUME NEW w \in Workers, Signal(w) PROVE IInv'
  BY <1>6, StopKeeps
<1>7. ASSUME NEW w \in Workers, Crash(w) PROVE IInv'
  BY <1>7, GoneKeeps
<1>8. CASE UNCHANGED vars
  <2>1. UNCHANGED <<brokerVars, linkVars, workerVars, bounds>>
    BY <1>8 DEF vars
  <2>2. TypeOK'
    BY <2>1 DEF IInv, TypeOK, brokerVars, linkVars, workerVars, bounds
  <2>3. ScheduledIsDone' /\ UNCHANGED <<results, deadLetters, wire, at>>
    BY <2>1 DEF IInv, ScheduledIsDone, brokerVars, linkVars, workerVars
  <2> QED
    BY <2>2, <2>3, UnansweredStep DEF IInv, WireInv
<1> QED
  BY <1>1, <1>2, <1>3, <1>4, <1>5, <1>6, <1>7, <1>8 DEF Next

\* Every variable keeps its type.
THEOREM TypeCorrect == Spec => []TypeOK
<1>1. IInv => TypeOK
  BY DEF IInv
<1> QED
  BY <1>1, InitInv, NextInv, PTL DEF Spec

\* No job message leaves the queue for good without a result or a copy in the
\* dead-letter queue (_complete_delivery, _handle_processing_exception).
THEOREM AnsweredBeforeSettled == Spec => []SettledIsAnswered
<1>1. IInv => SettledIsAnswered
  BY DEF IInv
<1> QED
  BY <1>1, InitInv, NextInv, PTL DEF Spec
-----------------------------------------------------------------------------
Settles(f) == f.op \in {"ack", "nack"}

\* The frames on the wire of w are about its outstanding deliveries.
OwnedFrames(w) ==
    \A i \in 1 .. Len(wire[w]) :
        /\ at[wire[w][i].job] = w
        /\ wire[w][i].tag = deliveries[wire[w][i].job]

\* Nothing is written about a job behind its ack or nack.
SettlesLast(w) ==
    \A i, k \in 1 .. Len(wire[w]) :
        i < k /\ wire[w][i].job = wire[w][k].job => ~Settles(wire[w][i])

\* What the worker holds is outstanding, and nothing on the wire settles it.
HeldIsOutstanding(w) ==
    \A d \in Held(w) :
        /\ d # Idle /\ at[d.job] = w /\ d.tag = deliveries[d.job]
        /\ \A i \in 1 .. Len(wire[w]) : wire[w][i].job = d.job => ~Settles(wire[w][i])

\* Nothing is written about a delivery before its callback runs.
UntakenIsSilent(w) ==
    \A d \in inbox[w] : \A i \in 1 .. Len(wire[w]) : wire[w][i].job # d.job

\* No delivery is held twice.
Apart(w) ==
    /\ current[w] \notin inbox[w]
    /\ \A e \in pending[w] : e.open => e.delivery # current[w] /\ e.delivery \notin inbox[w]
    /\ \A e, f \in pending[w] : e.open /\ f.open /\ e.delivery = f.delivery => e = f

\* No outstanding delivery is forgotten.
NoneForgotten(w) ==
    \A j \in Jobs : at[j] = w =>
        \/ \E d \in Held(w) : d.job = j
        \/ \E i \in 1 .. Len(wire[w]) : wire[w][i].job = j /\ Settles(wire[w][i])

Agreed(w) ==
    /\ OwnedFrames(w) /\ SettlesLast(w) /\ HeldIsOutstanding(w)
    /\ UntakenIsSilent(w) /\ Apart(w) /\ NoneForgotten(w)

\* A replica without a connection holds nothing, and one that lost it has
\* nothing outstanding.
Lost(w) ==
    /\ link[w] # "up" => \A j \in Jobs : at[j] # w
    /\ link[w] = "down" => wire[w] = <<>> /\ inbox[w] = {} /\ \A e \in pending[w] : ~e.open

\* A replica works inline or with a pool, takes nothing new once it is told to
\* stop, and has an empty pool once it is drained.
Mode(w) ==
    /\ Inline => pending[w] = {}
    /\ ~Inline => current[w] = Idle
    /\ stop[w] # "none" => inbox[w] = {}
    /\ stop[w] = "closing" => pending[w] = {}

Sound(w) == (link[w] = "up" => Agreed(w)) /\ Lost(w) /\ Mode(w)

AllSound == \A w \in Workers : Sound(w)

OInv == IInv /\ AllSound
-----------------------------------------------------------------------------
(* What a callback writes about its delivery.                               *)

\* Frames about d, none of which settles it.
Part(s, d) ==
    /\ s \in Seq(Frames)
    /\ \A i \in 1 .. Len(s) : s[i].job = d.job /\ s[i].tag = d.tag /\ ~Settles(s[i])

\* Frames about d, the last of which settles it.
Whole(s, d) ==
    /\ s \in Seq(Frames) /\ Len(s) >= 1
    /\ \A i \in 1 .. Len(s) :
           s[i].job = d.job /\ s[i].tag = d.tag /\ (Settles(s[i]) <=> i = Len(s))

\* The fields of a frame.
LEMMA FrameFields ==
    ASSUME NEW d \in Deliveries, NEW v \in Verdicts,
           NEW op \in {"lifecycle", "result", "llm", "dlq", "ack", "nack"}
    PROVE  /\ Frame(op, d, v) \in Frames
           /\ Frame(op, d, v).job = d.job /\ Frame(op, d, v).tag = d.tag
           /\ Settles(Frame(op, d, v)) <=> op \in {"ack", "nack"}
           /\ Send(op, d) = Frame(op, d, "ok")
BY DEF Frame, Send, Frames, Deliveries, Verdicts, Settles

\* One frame that does not settle is a part.
LEMMA OnePart ==
    ASSUME NEW d, NEW f \in Frames, f.job = d.job, f.tag = d.tag, ~Settles(f)
    PROVE  Part(<<f>>, d)
<1> DEFINE s == <<f>>
<1>1. s \in Seq(Frames) /\ Len(s) = 1 /\ s[1] = f
  OBVIOUS
<1> HIDE DEF s
<1>2. Part(s, d)
  BY <1>1 DEF Part
<1> QED
  BY <1>2 DEF s

\* Parts put together are a part.
LEMMA PartsJoin ==
    ASSUME NEW s, NEW t, NEW d, Part(s, d), Part(t, d)
    PROVE  Part(s \o t, d)
<1>0. s \in Seq(Frames) /\ t \in Seq(Frames)
  BY DEF Part
<1> DEFINE c == s \o t
<1>1. /\ c \in Seq(Frames) /\ Len(c) = Len(s) + Len(t)
      /\ Len(s) \in Nat /\ Len(t) \in Nat
      /\ \A i \in 1 .. Len(s) : c[i] = s[i]
      /\ \A i \in 1 .. Len(t) : c[Len(s) + i] = t[i]
  BY <1>0, Concatenated
<1> HIDE DEF c
<1>2. ASSUME NEW i \in 1 .. Len(c)
      PROVE  c[i].job = d.job /\ c[i].tag = d.tag /\ ~Settles(c[i])
  <2>1. CASE i <= Len(s)
    <3>1. i \in 1 .. Len(s) /\ c[i] = s[i]
      BY <1>1, <2>1
    <3> QED
      BY <3>1 DEF Part
  <2>2. CASE i > Len(s)
    <3>1. i - Len(s) \in 1 .. Len(t) /\ Len(s) + (i - Len(s)) = i
      BY <1>1, <2>2
    <3>2. c[i] = t[i - Len(s)]
      BY <1>1, <3>1
    <3> QED
      BY <3>1, <3>2 DEF Part
  <2> QED
    BY <1>1, <2>1, <2>2
<1>3. Part(c, d)
  BY <1>1, <1>2 DEF Part
<1> QED
  BY <1>3 DEF c

\* Frames about d whose last one settles it, behind others that do not.
LEMMA WholeEnds ==
    ASSUME NEW s, NEW t, NEW d, Part(s, d), Whole(t, d)
    PROVE  Whole(s \o t, d)
<1>0. s \in Seq(Frames) /\ t \in Seq(Frames)
  BY DEF Part, Whole
<1> DEFINE c == s \o t
<1>1. /\ c \in Seq(Frames) /\ Len(c) = Len(s) + Len(t)
      /\ Len(s) \in Nat /\ Len(t) \in Nat
      /\ \A i \in 1 .. Len(s) : c[i] = s[i]
      /\ \A i \in 1 .. Len(t) : c[Len(s) + i] = t[i]
  BY <1>0, Concatenated
<1> HIDE DEF c
<1>2. Len(t) >= 1 /\ Len(c) >= 1
  BY <1>1 DEF Whole
<1>3. ASSUME NEW i \in 1 .. Len(c)
      PROVE  c[i].job = d.job /\ c[i].tag = d.tag /\ (Settles(c[i]) <=> i = Len(c))
  <2>1. CASE i <= Len(s)
    <3>1. i \in 1 .. Len(s) /\ c[i] = s[i] /\ i # Len(c)
      BY <1>1, <1>2, <2>1
    <3> QED
      BY <3>1 DEF Part
  <2>2. CASE i > Len(s)
    <3> DEFINE m == i - Len(s)
    <3>1. m \in 1 .. Len(t) /\ Len(s) + m = i /\ (m = Len(t) <=> i = Len(c))
      BY <1>1, <2>2
    <3>2. c[i] = t[m]
      BY <1>1, <3>1
    <3> HIDE DEF m
    <3> QED
      BY <3>1, <3>2 DEF Whole
  <2> QED
    BY <1>1, <2>1, <2>2
<1>4. Whole(c, d)
  BY <1>1, <1>2, <1>3 DEF Whole
<1> QED
  BY <1>4 DEF c

\* The two ways a delivery is settled: at once, or behind its dead-letter copy.
LEMMA WholeOnes ==
    ASSUME NEW d, NEW f \in Frames, f.job = d.job, f.tag = d.tag, Settles(f),
           NEW q \in Frames, q.job = d.job, q.tag = d.tag, ~Settles(q)
    PROVE  Whole(<<f>>, d) /\ Whole(<<q, f>>, d)
<1> DEFINE s == <<f>>
           t == <<q, f>>
<1>1. /\ s \in Seq(Frames) /\ Len(s) = 1 /\ s[1] = f
      /\ t \in Seq(Frames) /\ Len(t) = 2 /\ t[1] = q /\ t[2] = f
  OBVIOUS
<1> HIDE DEF s, t
<1>2. Whole(s, d)
  BY <1>1 DEF Whole
<1>3. ASSUME NEW i \in 1 .. Len(t)
      PROVE  t[i].job = d.job /\ t[i].tag = d.tag /\ (Settles(t[i]) <=> i = Len(t))
  <2>1. i = 1 \/ i = 2
    BY <1>1
  <2> QED
    BY <1>1, <2>1
<1>4. Whole(t, d)
  BY <1>1, <1>3 DEF Whole
<1> QED
  BY <1>2, <1>4 DEF s, t

\* The frames that come before the end of a callback.
LEMMA SentIsPart ==
    ASSUME NEW d \in Deliveries, NEW v \in Verdicts
    PROVE  /\ Part(<<>>, d) /\ Part(Announce(d), d) /\ Part(Answer(d, v), d)
           /\ Part(Answer(d, v) \o FollowUp(d, v), d)
<1>0. "ok" \in Verdicts
  BY DEF Verdicts
<1>1. Part(<<>>, d)
  BY DEF Part
<1>2. Part(<<Send("lifecycle", d)>>, d) /\ Part(<<Send("llm", d)>>, d)
  BY <1>0, FrameFields, OnePart
<1>3. Part(Answer(d, v), d)
  <2>1. Part(<<Frame("result", d, v)>>, d)
    BY FrameFields, OnePart
  <2> QED
    BY <2>1 DEF Answer
<1>4. Part(FollowUp(d, v), d)
  BY <1>1, <1>2 DEF FollowUp
<1>5. Part(Announce(d), d)
  BY <1>1, <1>2 DEF Announce
<1> QED
  BY <1>1, <1>3, <1>4, <1>5, PartsJoin

WritesWhole(w, d) == \E fr : Whole(fr, d) /\ wire' = [wire EXCEPT ![w] = @ \o fr]

\* An exception settles its delivery with the last frame.
LEMMA ExceptionSettles ==
    ASSUME NEW w, NEW d \in Deliveries, NEW sent, Part(sent, d), NEW s, NEW n,
           HandleException(w, d, sent, s, n)
    PROVE  WritesWhole(w, d)
<1> DEFINE a == Send("ack", d)
           b == Send("nack", d)
           q == Send("dlq", d)
<1>0. "ok" \in Verdicts
  BY DEF Verdicts
<1>1. /\ a \in Frames /\ a.job = d.job /\ a.tag = d.tag /\ Settles(a)
      /\ b \in Frames /\ b.job = d.job /\ b.tag = d.tag /\ Settles(b)
      /\ q \in Frames /\ q.job = d.job /\ q.tag = d.tag /\ ~Settles(q)
  BY <1>0, FrameFields
<1> HIDE DEF a, b, q
<1>2. Whole(<<b>>, d) /\ Whole(<<q, a>>, d) /\ Whole(<<q, b>>, d)
  BY <1>1, WholeOnes
<1>3. /\ Whole(sent \o <<b>>, d)
      /\ Whole(sent \o <<q, a>>, d) /\ Whole(sent \o <<q, b>>, d)
  BY <1>2, WholeEnds
<1>4. \/ wire' = [wire EXCEPT ![w] = @ \o (sent \o <<b>>)]
      \/ wire' = [wire EXCEPT ![w] = @ \o (sent \o <<q, a>>)]
      \/ wire' = [wire EXCEPT ![w] = @ \o (sent \o <<q, b>>)]
  BY DEF HandleException, GiveUp, GiveUpFails, Write, a, b, q
<1> QED
  BY <1>3, <1>4 DEF WritesWhole

\* So does a completion.
LEMMA CompletionSettles ==
    ASSUME NEW w, NEW d \in Deliveries, NEW v \in Verdicts, Complete(w, d, v)
    PROVE  WritesWhole(w, d)
<1> DEFINE a == Send("ack", d)
           q == Send("dlq", d)
<1>0. "ok" \in Verdicts
  BY DEF Verdicts
<1>1. a \in Frames /\ a.job = d.job /\ a.tag = d.tag /\ Settles(a)
      /\ q \in Frames /\ q.job = d.job /\ q.tag = d.tag /\ ~Settles(q)
  BY <1>0, FrameFields
<1> HIDE DEF a, q
<1>2. /\ Part(<<>>, d) /\ Part(Answer(d, v), d)
      /\ Part(Answer(d, v) \o FollowUp(d, v), d)
  BY SentIsPart
<1>3. Whole((Answer(d, v) \o FollowUp(d, v)) \o <<a>>, d) /\ Whole(Answer(d, v) \o <<a>>, d)
  BY <1>1, <1>2, WholeOnes, WholeEnds
<1>4. CASE \/ wire' = [wire EXCEPT ![w] = @ \o ((Answer(d, v) \o FollowUp(d, v)) \o <<a>>)]
           \/ wire' = [wire EXCEPT ![w] = @ \o (Answer(d, v) \o <<a>>)]
  BY <1>3, <1>4 DEF WritesWhole
<1>5. CASE \/ HandleException(w, d, <<>>, row[w][d.job], 1)
           \/ HandleException(w, d, Answer(d, v) \o FollowUp(d, v), v, 1)
           \/ HandleException(w, d, Answer(d, v), v, 2)
  BY <1>2, <1>5, ExceptionSettles
<1> QED
  BY <1>4, <1>5 DEF Complete, Write, a
-----------------------------------------------------------------------------
(* What keeps the two sides agreed.                                         *)

\* What is on a wire or held is about jobs.
LEMMA OfJobs ==
    ASSUME TypeOK, NEW u \in Workers
    PROVE  /\ wire[u] \in Seq(Frames) /\ Len(wire[u]) \in Nat
           /\ \A i \in 1 .. Len(wire[u]) :
                  /\ wire[u][i] \in Frames /\ wire[u][i].job \in Jobs /\ wire[u][i].tag \in Nat
           /\ Held(u) \ {Idle} \subseteq Deliveries
           /\ \A d \in Deliveries : d.job \in Jobs /\ d.tag \in Nat
                                    /\ d = [job |-> d.job, tag |-> d.tag]
<1>1. wire[u] \in Seq(Frames)
  BY DEF TypeOK
<1>2. Len(wire[u]) \in Nat /\ \A i \in 1 .. Len(wire[u]) : wire[u][i] \in Frames
  BY <1>1
<1>3. \A f \in Frames : f.job \in Jobs /\ f.tag \in Nat
  BY DEF Frames
<1>4. Held(u) \ {Idle} \subseteq Deliveries
  BY DEF TypeOK, Held, Entries
<1>5. \A d \in Deliveries : d.job \in Jobs /\ d.tag \in Nat /\ d = [job |-> d.job, tag |-> d.tag]
  BY DEF Deliveries
<1> QED
  BY <1>1, <1>2, <1>3, <1>4, <1>5

\* Held deliveries of one job are one delivery.
LEMMA OneDeliveryPerJob ==
    ASSUME TypeOK, NEW u \in Workers, Agreed(u)
    PROVE  /\ Held(u) \subseteq Deliveries
           /\ \A d, e \in Held(u) : d.job = e.job => d = e
BY OfJobs DEF Agreed, HeldIsOutstanding

\* The broker's view of what is outstanding at u does not change.
SameOutstanding(u) ==
    \A j \in Jobs : /\ at'[j] = u <=> at[j] = u
                    /\ at[j] = u => deliveries'[j] = deliveries[j]

\* A step that writes nothing and leaves what is held and outstanding.
LEMMA QuietStep ==
    ASSUME TypeOK, NEW u \in Workers, Agreed(u), SameOutstanding(u), Apart(u)',
           wire'[u] = wire[u], inbox'[u] \subseteq inbox[u], Held(u)' = Held(u)
    PROVE  Agreed(u)'
<1>1. OwnedFrames(u)' /\ SettlesLast(u)' /\ UntakenIsSilent(u)'
  BY OfJobs DEF Agreed, OwnedFrames, SettlesLast, UntakenIsSilent, SameOutstanding
<1>2. HeldIsOutstanding(u)'
  BY OneDeliveryPerJob, OfJobs DEF Agreed, HeldIsOutstanding, SameOutstanding
<1>3. NoneForgotten(u)'
  BY DEF Agreed, NoneForgotten, SameOutstanding
<1> QED
  BY <1>1, <1>2, <1>3 DEF Agreed

\* A callback writes about a delivery d that it holds, and either keeps holding it
\* or settles it with its last frame.
LEMMA WritingStep ==
    ASSUME TypeOK, NEW u \in Workers, Agreed(u), UNCHANGED <<at, deliveries>>, Apart(u)',
           NEW d \in Held(u), NEW fr, wire' = [wire EXCEPT ![u] = @ \o fr],
           inbox'[u] \subseteq inbox[u] \ {d},
           \/ Part(fr, d) /\ Held(u)' = Held(u)
           \/ Whole(fr, d) /\ Held(u)' = Held(u) \ {d}
    PROVE  Agreed(u)'
<1> DEFINE s == wire[u]
           c == wire'[u]
<1>0. /\ fr \in Seq(Frames)
      /\ \A i \in 1 .. Len(fr) : fr[i].job = d.job /\ fr[i].tag = d.tag /\ (Settles(fr[i]) => i = Len(fr))
  BY DEF Part, Whole
<1>1. /\ s \in Seq(Frames) /\ c \in Seq(Frames) /\ Len(c) = Len(s) + Len(fr)
      /\ Len(s) \in Nat /\ Len(fr) \in Nat
      /\ \A i \in 1 .. Len(s) : c[i] = s[i]
      /\ \A i \in 1 .. Len(fr) : c[Len(s) + i] = fr[i]
  <2>1. s \in Seq(Frames) /\ c = s \o fr
    BY OfJobs DEF TypeOK
  <2> HIDE DEF s, c
  <2> QED
    BY <1>0, <2>1, Concatenated
<1>2. /\ at[d.job] = u /\ d.tag = deliveries[d.job]
      /\ \A i \in 1 .. Len(s) : s[i].job = d.job => ~Settles(s[i])
  BY DEF Agreed, HeldIsOutstanding
<1>3. /\ \A i \in 1 .. Len(s) : at[s[i].job] = u /\ s[i].tag = deliveries[s[i].job]
      /\ \A i, k \in 1 .. Len(s) : i < k /\ s[i].job = s[k].job => ~Settles(s[i])
  BY DEF Agreed, OwnedFrames, SettlesLast
<1> HIDE DEF s, c
\* Every frame is an old one or the n-th of the new ones.
<1>4. ASSUME NEW i \in 1 .. Len(c)
      PROVE  \/ i \in 1 .. Len(s) /\ c[i] = s[i]
             \/ /\ i > Len(s) /\ c[i].job = d.job /\ c[i].tag = d.tag
                /\ Settles(c[i]) => i = Len(c)
  <2>1. CASE i <= Len(s)
    BY <1>1, <2>1
  <2>2. CASE i > Len(s)
    <3> DEFINE m == i - Len(s)
    <3>1. m \in 1 .. Len(fr) /\ Len(s) + m = i /\ (m = Len(fr) <=> i = Len(c))
      BY <1>1, <2>2
    <3>2. c[i] = fr[m]
      BY <1>1, <3>1
    <3> HIDE DEF m
    <3> QED
      BY <1>0, <2>2, <3>1, <3>2
  <2> QED
    BY <1>1, <2>1, <2>2
<1>5. OwnedFrames(u)'
  <2>1. \A i \in 1 .. Len(c) : at[c[i].job] = u /\ c[i].tag = deliveries[c[i].job]
    BY <1>2, <1>3, <1>4
  <2> QED
    BY <2>1 DEF OwnedFrames, c
<1>6. SettlesLast(u)'
  <2>1. ASSUME NEW i \in 1 .. Len(c), NEW k \in 1 .. Len(c), i < k, c[i].job = c[k].job
        PROVE  ~Settles(c[i])
    <3>1. CASE i \in 1 .. Len(s) /\ c[i] = s[i]
      <4>1. CASE k \in 1 .. Len(s) /\ c[k] = s[k]
        BY <1>3, <2>1, <3>1, <4>1
      <4>2. CASE c[k].job = d.job
        BY <1>2, <2>1, <3>1, <4>2
      <4> QED
        BY <1>4, <4>1, <4>2
    <3>2. CASE Settles(c[i]) => i = Len(c)
      BY <1>1, <2>1, <3>2
    <3> QED
      BY <1>4, <3>1, <3>2
  <2> QED
    BY <2>1 DEF SettlesLast, c
<1>7. HeldIsOutstanding(u)'
  <2> SUFFICES ASSUME NEW e \in Held(u)'
               PROVE  /\ e # Idle /\ at[e.job] = u /\ e.tag = deliveries[e.job]
                      /\ \A i \in 1 .. Len(c) : c[i].job = e.job => ~Settles(c[i])
    BY DEF HeldIsOutstanding, c
  <2>1. /\ e \in Held(u) /\ e # Idle /\ at[e.job] = u /\ e.tag = deliveries[e.job]
        /\ \A i \in 1 .. Len(s) : s[i].job = e.job => ~Settles(s[i])
    BY DEF Agreed, HeldIsOutstanding, s
  <2>2. CASE Part(fr, d)
    <3>1. \A i \in 1 .. Len(fr) : ~Settles(fr[i])
      BY <2>2 DEF Part
    <3>2. ASSUME NEW i \in 1 .. Len(c), c[i].job = e.job, Settles(c[i]) PROVE FALSE
      <4>1. CASE i <= Len(s)
        BY <1>1, <2>1, <3>2, <4>1
      <4>2. CASE i > Len(s)
        <5>1. i - Len(s) \in 1 .. Len(fr) /\ c[i] = fr[i - Len(s)]
          <6> DEFINE m == i - Len(s)
          <6>1. m \in 1 .. Len(fr) /\ Len(s) + m = i
            BY <1>1, <4>2
          <6> HIDE DEF m
          <6>2. c[i] = fr[m]
            BY <1>1, <6>1
          <6> QED
            BY <6>1, <6>2 DEF m
        <5> QED
          BY <3>1, <3>2, <5>1
      <4> QED
        BY <1>1, <4>1, <4>2
    <3> QED
      BY <2>1, <3>2
  <2>3. CASE e # d
    <3>1. e.job # d.job
      BY <2>1, <2>3, OneDeliveryPerJob
    <3> QED
      BY <1>4, <2>1, <3>1
  <2> QED
    BY <2>2, <2>3
<1>8. UntakenIsSilent(u)'
  <2> SUFFICES ASSUME NEW e \in inbox'[u] PROVE \A i \in 1 .. Len(c) : c[i].job # e.job
    BY DEF UntakenIsSilent, c
  <2>1. e \in inbox[u] /\ e # d /\ e \in Held(u)
    BY DEF Held
  <2>2. e.job # d.job /\ \A i \in 1 .. Len(s) : s[i].job # e.job
    BY <2>1, OneDeliveryPerJob DEF Agreed, UntakenIsSilent, s
  <2> QED
    BY <1>4, <2>2
<1>9. NoneForgotten(u)'
  <2> SUFFICES ASSUME NEW j \in Jobs, at[j] = u
               PROVE  \/ \E e \in Held(u)' : e.job = j
                      \/ \E i \in 1 .. Len(c) : c[i].job = j /\ Settles(c[i])
    BY DEF NoneForgotten, c
  <2>1. CASE \E i \in 1 .. Len(s) : s[i].job = j /\ Settles(s[i])
    BY <1>1, <2>1
  <2>2. CASE \E e \in Held(u) : e.job = j
    <3>1. PICK e \in Held(u) : e.job = j
      BY <2>2
    <3>2. CASE e \in Held(u)'
      BY <3>1, <3>2
    <3>3. CASE e \notin Held(u)'
      <4>1. Whole(fr, d) /\ e = d
        BY <3>1, <3>3
      <4>2. Len(fr) >= 1 /\ fr[Len(fr)].job = d.job /\ Settles(fr[Len(fr)])
        <5>1. Len(fr) \in 1 .. Len(fr)
          BY <1>1, <4>1 DEF Whole
        <5> QED
          BY <4>1, <5>1 DEF Whole
      <4>3. Len(c) \in 1 .. Len(c) /\ c[Len(c)] = fr[Len(fr)]
        BY <1>1, <4>2
      <4> QED
        BY <3>1, <4>1, <4>2, <4>3
    <3> QED
      BY <3>2, <3>3
  <2> QED
    BY <2>1, <2>2 DEF Agreed, NoneForgotten, s
<1> QED
  BY <1>5, <1>6, <1>7, <1>8, <1>9 DEF Agreed

\* A delivery that settles or gives back its job leaves nothing of that job behind.
LEMMA ReadStep ==
    ASSUME TypeOK, NEW u \in Workers, Agreed(u), Receive(u), u # "ready", u # "settled"
    PROVE  /\ at[Head(wire[u]).job] = u
           /\ \A j \in Jobs : at'[j] # at[j] => j = Head(wire[u]).job /\ Settles(Head(wire[u]))
           /\ Agreed(u)'
<1> DEFINE s == wire[u]
           f == Head(wire[u])
           c == wire'[u]
<1>1. /\ s \in Seq(Frames) /\ s # <<>> /\ c = Tail(s) /\ f = Head(s)
      /\ UNCHANGED <<deliveries, inbox, current, pending>>
  BY OfJobs DEF Receive, TypeOK, workerVars
<1>2. /\ Len(s) \in Nat /\ Len(s) >= 1 /\ Len(c) = Len(s) - 1 /\ f = s[1] /\ f \in Frames
      /\ \A i \in 1 .. Len(c) : i + 1 \in 1 .. Len(s) /\ c[i] = s[i + 1]
  <2> HIDE DEF s, c, f
  <2> QED
    BY <1>1
<1>3. /\ \A i \in 1 .. Len(s) : at[s[i].job] = u /\ s[i].tag = deliveries[s[i].job]
      /\ \A i, k \in 1 .. Len(s) : i < k /\ s[i].job = s[k].job => ~Settles(s[i])
      /\ \A i \in 1 .. Len(s) : s[i].job \in Jobs
  BY OfJobs DEF Agreed, OwnedFrames, SettlesLast
<1>4. /\ f.job \in Jobs
      /\ f.op = "ack" => at' = [at EXCEPT ![f.job] = "settled"]
      /\ f.op = "nack" => at' = [at EXCEPT ![f.job] = "ready"]
      /\ f.op \notin {"ack", "nack"} => at' = at
  BY <1>2 DEF Receive, Routed, Frames
<1> HIDE DEF s, c, f
<1>5. at[f.job] = u
  <2>1. 1 \in 1 .. Len(s)
    BY <1>2
  <2> QED
    BY <1>2, <1>3, <2>1
<1>6. /\ \A j \in Jobs : at'[j] # at[j] => j = f.job /\ Settles(f)
      /\ \A j \in Jobs : at'[j] = u => at[j] = u
      /\ Settles(f) => at'[f.job] # u
  BY <1>4, <1>5 DEF TypeOK, Settles
<1>7. ASSUME Settles(f), NEW i \in 1 .. Len(c) PROVE c[i].job # f.job
  <2>1. i + 1 \in 1 .. Len(s) /\ c[i] = s[i + 1] /\ 1 \in 1 .. Len(s) /\ 1 < i + 1
    BY <1>2
  <2> QED
    BY <1>2, <1>3, <1>7, <2>1
<1>8. ASSUME Settles(f), NEW d \in Held(u) PROVE d.job # f.job
  <2>1. 1 \in 1 .. Len(s)
    BY <1>2
  <2> QED
    BY <1>2, <1>8, <2>1 DEF Agreed, HeldIsOutstanding, s
<1>9. Held(u)' = Held(u) /\ Apart(u)'
  BY <1>1 DEF Held, Agreed, Apart
<1>10. OwnedFrames(u)'
  <2>1. ASSUME NEW i \in 1 .. Len(c)
        PROVE  at'[c[i].job] = u /\ c[i].tag = deliveries[c[i].job]
    <3>1. /\ c[i].job \in Jobs /\ at[c[i].job] = u
          /\ c[i].tag = deliveries[c[i].job]
      BY <1>2, <1>3
    <3>2. at'[c[i].job] = at[c[i].job]
      BY <1>6, <1>7, <3>1
    <3> QED
      BY <3>1, <3>2
  <2> QED
    BY <1>1, <2>1 DEF OwnedFrames, c
<1>11. SettlesLast(u)'
  <2>1. ASSUME NEW i \in 1 .. Len(c), NEW k \in 1 .. Len(c), i < k, c[i].job = c[k].job
        PROVE  ~Settles(c[i])
    <3>1. /\ i + 1 \in 1 .. Len(s) /\ k + 1 \in 1 .. Len(s) /\ i + 1 < k + 1
          /\ c[i] = s[i + 1] /\ c[k] = s[k + 1]
      BY <1>2, <2>1
    <3> QED
      BY <1>3, <2>1, <3>1
  <2> QED
    BY <2>1 DEF SettlesLast, c
<1>12. HeldIsOutstanding(u)'
  <2>1. ASSUME NEW d \in Held(u)
        PROVE  /\ d # Idle /\ at'[d.job] = u /\ d.tag = deliveries[d.job]
               /\ \A i \in 1 .. Len(c) : c[i].job = d.job => ~Settles(c[i])
    <3>1. /\ d # Idle /\ at[d.job] = u /\ d.tag = deliveries[d.job] /\ d.job \in Jobs
          /\ \A i \in 1 .. Len(s) : s[i].job = d.job => ~Settles(s[i])
      BY OneDeliveryPerJob, OfJobs DEF Agreed, HeldIsOutstanding, s
    <3>2. at'[d.job] = u
      BY <1>6, <1>8, <3>1
    <3> QED
      BY <1>2, <3>1, <3>2
  <2> QED
    BY <1>1, <1>9, <2>1 DEF HeldIsOutstanding, c
<1>13. UntakenIsSilent(u)'
  <2>1. ASSUME NEW d \in inbox[u], NEW i \in 1 .. Len(c) PROVE c[i].job # d.job
    BY <1>2 DEF Agreed, UntakenIsSilent, s
  <2> QED
    BY <1>1, <2>1 DEF UntakenIsSilent, c
<1>14. NoneForgotten(u)'
  <2>1. ASSUME NEW j \in Jobs, at'[j] = u
        PROVE  \/ \E d \in Held(u) : d.job = j
               \/ \E i \in 1 .. Len(c) : c[i].job = j /\ Settles(c[i])
    <3>1. at[j] = u
      BY <1>6, <2>1
    <3>2. CASE \E i \in 1 .. Len(s) : s[i].job = j /\ Settles(s[i])
      <4>1. PICK i \in 1 .. Len(s) : s[i].job = j /\ Settles(s[i])
        BY <3>2
      <4>2. i # 1
        BY <1>2, <1>6, <2>1, <4>1
      <4>3. i - 1 \in 1 .. Len(c) /\ (i - 1) + 1 = i
        BY <1>2, <4>2
      <4>4. c[i - 1] = s[i]
        BY <1>2, <4>3
      <4> QED
        BY <4>1, <4>3, <4>4
    <3> QED
      BY <3>1, <3>2 DEF Agreed, NoneForgotten, s
  <2> QED
    BY <1>9, <2>1 DEF NoneForgotten, c
<1> QED
  BY <1>5, <1>6, <1>9, <1>10, <1>11, <1>12, <1>13, <1>14 DEF Agreed, f

\* A delivery reaches a worker that holds nothing of its job.
LEMMA DeliveryStep ==
    ASSUME TypeOK, NEW u \in Workers, NEW j \in Jobs, Agreed(u), Deliver(u, j), u # "ready"
    PROVE  Agreed(u)'
<1> DEFINE d == [job |-> j, tag |-> deliveries[j] + 1]
<1>1. /\ inbox'[u] = inbox[u] \cup {d} /\ UNCHANGED <<wire, current, pending>>
      /\ at' = [at EXCEPT ![j] = u] /\ deliveries' = [deliveries EXCEPT ![j] = @ + 1]
      /\ at[j] = "ready"
  BY DEF Deliver, workerVars, TypeOK
<1>2. d \in Deliveries /\ d.job = j /\ d.tag = deliveries[j] + 1 /\ d # Idle
  <2>1. deliveries[j] \in Nat
    BY DEF TypeOK
  <2>2. deliveries[j] + 1 \in Nat /\ deliveries[j] + 1 # 0
    BY <2>1
  <2> QED
    BY <2>2 DEF Deliveries, Idle
<1>3. /\ at'[j] = u /\ d.tag = deliveries'[j]
      /\ \A i \in Jobs \ {j} : at'[i] = at[i] /\ deliveries'[i] = deliveries[i]
  BY <1>1, <1>2 DEF TypeOK
<1> HIDE DEF d
<1>4. /\ \A e \in Held(u) : e \in Deliveries /\ e.job \in Jobs \ {j} /\ e # d
      /\ \A i \in 1 .. Len(wire[u]) : wire[u][i].job \in Jobs \ {j}
  BY <1>1, <1>2, OneDeliveryPerJob, OfJobs DEF Agreed, HeldIsOutstanding, OwnedFrames
<1>5. Held(u)' = Held(u) \cup {d}
  BY <1>1 DEF Held
<1>6. OwnedFrames(u)' /\ SettlesLast(u)'
  BY <1>1, <1>3, <1>4 DEF Agreed, OwnedFrames, SettlesLast
<1>7. HeldIsOutstanding(u)'
  <2>1. ASSUME NEW e \in Held(u)
        PROVE  e # Idle /\ at'[e.job] = u /\ e.tag = deliveries'[e.job]
    BY <1>3, <1>4 DEF Agreed, HeldIsOutstanding
  <2>2. \A e \in Held(u) \cup {d} : \A i \in 1 .. Len(wire[u]) :
            wire[u][i].job = e.job => ~Settles(wire[u][i])
    BY <1>2, <1>4 DEF Agreed, HeldIsOutstanding
  <2> QED
    BY <1>1, <1>2, <1>3, <1>5, <2>1, <2>2 DEF HeldIsOutstanding
<1>8. UntakenIsSilent(u)'
  BY <1>1, <1>2, <1>4 DEF Agreed, UntakenIsSilent
<1>9. Apart(u)'
  <2>1. d # current[u] /\ \A e \in pending[u] : e.open => e.delivery # d
    BY <1>2, <1>4 DEF Held
  <2> QED
    BY <1>1, <2>1 DEF Agreed, Apart
<1>10. NoneForgotten(u)'
  BY <1>1, <1>2, <1>3, <1>5 DEF Agreed, NoneForgotten
<1> QED
  BY <1>6, <1>7, <1>8, <1>9, <1>10 DEF Agreed
-----------------------------------------------------------------------------
(* One lemma per action, or per group of actions of the same shape.         *)

\* A step of w leaves the connections, the deliveries and the entries of u.
Untouched(u) ==
    /\ link'[u] = link[u] /\ wire'[u] = wire[u] /\ inbox'[u] = inbox[u]
    /\ current'[u] = current[u] /\ pending'[u] = pending[u] /\ stop'[u] = stop[u]
    /\ SameOutstanding(u)

Local(w) == \A u \in Workers \ {w} : Untouched(u)

\* The other replicas stay sound.
LEMMA LocalKeeps ==
    ASSUME OInv, NEW w \in Workers, Local(w), Sound(w)'
    PROVE  AllSound'
<1>1. ASSUME NEW u \in Workers \ {w} PROVE Sound(u)'
  <2>1. TypeOK /\ Sound(u) /\ Untouched(u)
    BY DEF OInv, AllSound, IInv, Local
  <2>2. ASSUME link'[u] = "up" PROVE Agreed(u)'
    <3>1. Agreed(u) /\ SameOutstanding(u)
      BY <2>1, <2>2 DEF Sound, Untouched
    <3>2. Held(u)' = Held(u) /\ Apart(u)'
      BY <2>1, <3>1 DEF Untouched, Held, Agreed, Apart
    <3> QED
      BY <2>1, <3>1, <3>2, QuietStep DEF Untouched
  <2>3. Lost(u)'
    BY <2>1 DEF Sound, Untouched, SameOutstanding, Lost
  <2>4. Mode(u)'
    BY <2>1 DEF Sound, Untouched, Mode, Inline
  <2> QED
    BY <2>2, <2>3, <2>4 DEF Sound
<1> QED
  BY <1>1 DEF AllSound

\* What every action lemma starts from.
LEMMA Known ==
    ASSUME OInv, NEW w \in Workers
    PROVE  /\ TypeOK /\ Sound(w) /\ w # "ready" /\ w # "settled"
           /\ link[w] \in {"up", "half", "down"}
           /\ link[w] = "up" => Agreed(w)
BY ConsumerAssumption DEF OInv, AllSound, IInv, Sound, TypeOK

\* Deliver.
LEMMA DeliverSound ==
    ASSUME OInv, NEW w \in Workers, NEW j \in Jobs, Deliver(w, j)
    PROVE  AllSound'
<1>1. /\ TypeOK /\ Sound(w) /\ Agreed(w) /\ w # "ready"
      /\ link[w] = "up" /\ link' = link /\ at[j] = "ready" /\ stop[w] = "none"
      /\ UNCHANGED <<wire, current, pending, stop>>
  BY Known DEF Deliver, workerVars
<1>2. Local(w)
  <2>1. ASSUME NEW u \in Workers \ {w} PROVE SameOutstanding(u) /\ inbox'[u] = inbox[u]
    <3>1. u # "ready"
      BY ConsumerAssumption
    <3> QED
      BY <1>1, <3>1 DEF Deliver, TypeOK, SameOutstanding
  <2> QED
    BY <1>1, <2>1 DEF Local, Untouched
<1>3. Agreed(w)'
  BY <1>1, DeliveryStep
<1>4. Lost(w)' /\ Mode(w)'
  BY <1>1 DEF Sound, Lost, Mode, Inline
<1>5. Sound(w)'
  BY <1>3, <1>4 DEF Sound
<1> QED
  BY <1>2, <1>5, LocalKeeps

\* Receive.
LEMMA ReceiveSound ==
    ASSUME OInv, NEW w \in Workers, Receive(w)
    PROVE  AllSound'
<1>1. /\ TypeOK /\ Sound(w) /\ Agreed(w) /\ w # "ready" /\ w # "settled"
      /\ link[w] = "up" /\ UNCHANGED <<deliveries, link, inbox, current, pending, stop>>
  BY Known DEF Receive, workerVars
<1>2. /\ at[Head(wire[w]).job] = w
      /\ \A j \in Jobs : at'[j] # at[j] => j = Head(wire[w]).job
      /\ Agreed(w)'
  BY <1>1, ReadStep
<1>3. Local(w)
  <2>1. ASSUME NEW u \in Workers \ {w} PROVE SameOutstanding(u) /\ wire'[u] = wire[u]
    <3>1. wire'[u] = wire[u]
      BY <1>1 DEF Receive, TypeOK
    <3>2. ASSUME NEW j \in Jobs PROVE at'[j] = u <=> at[j] = u
      <4>1. CASE at'[j] = at[j]
        BY <4>1
      <4>2. CASE at'[j] # at[j]
        <5>1. at[j] = w
          BY <1>2, <4>2
        <5>2. at'[j] \in {"settled", "ready"}
          BY <1>1, <4>2 DEF Receive, Routed, TypeOK
        <5> QED
          BY <5>1, <5>2, ConsumerAssumption
      <4> QED
        BY <4>1, <4>2
    <3> QED
      BY <1>1, <3>1, <3>2 DEF SameOutstanding
  <2> QED
    BY <1>1, <2>1 DEF Local, Untouched
<1>4. Lost(w)' /\ Mode(w)'
  BY <1>1 DEF Sound, Lost, Mode, Inline
<1> QED
  BY <1>2, <1>3, <1>4, LocalKeeps DEF Sound

\* The broker takes back what is outstanding at w; the others keep theirs.
LEMMA RequeueIsLocal ==
    ASSUME TypeOK, NEW w \in Workers, UNCHANGED deliveries,
           at' = Requeued(w, {}) \/ (at' = at /\ \A j \in Jobs : at[j] # w)
    PROVE  /\ \A u \in Workers \ {w} : SameOutstanding(u)
           /\ \A j \in Jobs : at'[j] # w
<1>1. \A u \in Workers : u # "ready"
  BY ConsumerAssumption
<1> QED
  BY <1>1 DEF Requeued, SameOutstanding, TypeOK

\* Drop.
LEMMA DropSound ==
    ASSUME OInv, NEW w \in Workers, Drop(w)
    PROVE  AllSound'
<1>1. /\ TypeOK /\ Sound(w) /\ at' = Requeued(w, {}) /\ link' = [link EXCEPT ![w] = "half"]
      /\ UNCHANGED <<deliveries, wire, inbox, current, pending, stop>>
  BY Known DEF Drop, workerVars
<1>2. Local(w)
  BY <1>1, RequeueIsLocal DEF Local, Untouched, TypeOK
<1>3. link'[w] = "half" /\ \A j \in Jobs : at'[j] # w
  BY <1>1, RequeueIsLocal DEF TypeOK
<1>4. Sound(w)'
  BY <1>1, <1>3 DEF Sound, Lost, Mode, Inline
<1> QED
  BY <1>2, <1>4, LocalKeeps

\* Connect: a new connection starts with nothing outstanding and nothing held.
LEMMA ConnectSound ==
    ASSUME OInv, NEW w \in Workers, Connect(w)
    PROVE  AllSound'
<1>1. /\ TypeOK /\ Sound(w) /\ link[w] = "down" /\ link' = [link EXCEPT ![w] = "up"]
      /\ current[w] = Idle /\ UNCHANGED <<at, deliveries, wire, inbox, current, pending, stop>>
  BY Known DEF Connect, workerVars, brokerVars
<1>2. /\ \A j \in Jobs : at[j] # w
      /\ wire[w] = <<>> /\ inbox[w] = {} /\ \A e \in pending[w] : ~e.open
  BY <1>1 DEF Sound, Lost
<1>3. Local(w)
  BY <1>1 DEF Local, Untouched, SameOutstanding, TypeOK
<1>4. Len(wire'[w]) = 0 /\ Held(w)' = {}
  BY <1>1, <1>2 DEF Held
<1>5. Agreed(w)'
  BY <1>1, <1>2, <1>4 DEF Agreed, OwnedFrames, SettlesLast, HeldIsOutstanding,
                          UntakenIsSilent, Apart, NoneForgotten
<1>6. link'[w] = "up"
  BY <1>1 DEF TypeOK
<1>7. Lost(w)' /\ Mode(w)'
  BY <1>1, <1>6 DEF Sound, Lost, Mode, Inline
<1> QED
  BY <1>3, <1>5, <1>7, LocalKeeps DEF Sound

\* A replica whose connection ends with nothing open is sound without it.
LEMMA DownSound ==
    ASSUME OInv, NEW w \in Workers, LinkLost(w), UNCHANGED deliveries,
           at' = Requeued(w, {}) \/ (at' = at /\ \A j \in Jobs : at[j] # w),
           \A u \in Workers \ {w} : /\ current'[u] = current[u] /\ pending'[u] = pending[u]
                                    /\ stop'[u] = stop[u],
           \A e \in pending'[w] : ~e.open, Mode(w)'
    PROVE  AllSound'
<1>1. TypeOK
  BY Known
<1>2. link'[w] = "down" /\ wire'[w] = <<>> /\ inbox'[w] = {}
  BY <1>1 DEF LinkLost, TypeOK
<1>3. Local(w)
  BY <1>1, RequeueIsLocal DEF Local, Untouched, LinkLost, TypeOK
<1>4. Lost(w)'
  BY <1>1, <1>2, RequeueIsLocal DEF Lost
<1> QED
  BY <1>2, <1>3, <1>4, LocalKeeps DEF Sound

\* LoopRaises closes the entries of the connection that is lost.
LEMMA LoopRaisesSound ==
    ASSUME OInv, NEW w \in Workers, LoopRaises(w)
    PROVE  AllSound'
<1>1. /\ TypeOK /\ Sound(w) /\ link[w] = "half" /\ stop[w] = "none" /\ LinkLost(w)
      /\ UNCHANGED <<at, deliveries, current, stop>>
  BY Known DEF LoopRaises, brokerVars
<1>2. PICK popped : pending' = [pending EXCEPT ![w] = Closed(@ \ popped)]
  BY DEF LoopRaises
<1>3. pending'[w] = Closed(pending[w] \ popped)
  BY <1>1, <1>2 DEF TypeOK
<1>4. \A e \in pending'[w] : ~e.open
  <2>1. \A e \in pending[w] : ~[e EXCEPT !.open = FALSE].open
    BY <1>1 DEF TypeOK, Entries
  <2> QED
    BY <1>3, <2>1 DEF Closed
<1>5. pending[w] = {} => pending'[w] = {}
  BY <1>3 DEF Closed
<1>6. Mode(w)' /\ \A j \in Jobs : at[j] # w
  BY <1>1, <1>5 DEF Sound, Mode, Lost, Inline
<1>7. \A u \in Workers \ {w} : pending'[u] = pending[u]
  BY <1>1, <1>2 DEF TypeOK
<1> QED
  BY <1>1, <1>4, <1>6, <1>7, DownSound

\* InlineRaises, CloseConnection: the pool holds nothing.
LEMMA IdlePoolSound ==
    ASSUME OInv, NEW w \in Workers, InlineRaises(w) \/ CloseConnection(w)
    PROVE  AllSound'
<1>1. /\ TypeOK /\ Sound(w) /\ LinkLost(w) /\ UNCHANGED <<deliveries, pending>>
      /\ link[w] \in {"up", "half", "down"}
  BY Known DEF InlineRaises, CloseConnection, brokerVars
<1>2. pending[w] = {}
  BY <1>1 DEF Sound, Mode, InlineRaises, CloseConnection
<1>3. at' = Requeued(w, {}) \/ (at' = at /\ \A j \in Jobs : at[j] # w)
  BY <1>1 DEF Sound, Lost, InlineRaises, CloseConnection, brokerVars
<1>4. \A u \in Workers \ {w} : current'[u] = current[u] /\ stop'[u] = stop[u]
  BY <1>1 DEF InlineRaises, CloseConnection, TypeOK
<1>5. Mode(w)'
  <2>1. inbox'[w] = {} /\ (current'[w] = Idle \/ current'[w] = current[w])
    BY <1>1 DEF InlineRaises, CloseConnection, LinkLost, TypeOK
  <2> QED
    BY <1>1, <1>2, <2>1 DEF Sound, Mode, Inline
<1> QED
  BY <1>1, <1>2, <1>3, <1>4, <1>5, DownSound

\* Crash, DrainAborts: the process is gone.
LEMMA GoneSound ==
    ASSUME OInv, NEW w \in Workers, Crash(w) \/ \E e \in pending[w] : DrainAborts(w, e)
    PROVE  AllSound'
<1>1. TypeOK /\ Sound(w) /\ ProcessGone(w) /\ link[w] \in {"up", "half", "down"}
  BY Known DEF Crash, DrainAborts
<1>2. /\ LinkLost(w) /\ UNCHANGED deliveries
      /\ pending'[w] = {} /\ current'[w] = Idle /\ inbox'[w] = {}
      /\ \A u \in Workers \ {w} : current'[u] = current[u] /\ pending'[u] = pending[u]
  BY <1>1 DEF ProcessGone, LinkLost, TypeOK
<1>3. at' = Requeued(w, {}) \/ (at' = at /\ \A j \in Jobs : at[j] # w)
  BY <1>1 DEF Sound, Lost, ProcessGone
<1>4. \A u \in Workers \ {w} : stop'[u] = stop[u]
  BY <1>1 DEF Crash, DrainAborts, TypeOK
<1>5. Mode(w)'
  BY <1>2 DEF Mode
<1> QED
  BY <1>2, <1>3, <1>4, <1>5, DownSound

\* DrainEnds.
LEMMA DrainEndsSound ==
    ASSUME OInv, NEW w \in Workers, DrainEnds(w)
    PROVE  AllSound'
<1>1. /\ TypeOK /\ Sound(w) /\ pending[w] = {} /\ stop[w] = "draining" /\ stop' = [stop EXCEPT ![w] = "closing"]
      /\ UNCHANGED <<at, deliveries, link, wire, inbox, current, pending>>
      /\ link[w] = "up" => Agreed(w)
  BY Known DEF DrainEnds, brokerVars, linkVars
<1>2. Local(w) /\ SameOutstanding(w)
  BY <1>1 DEF Local, Untouched, SameOutstanding, TypeOK
<1>3. link'[w] = "up" => Agreed(w)'
  <2>1. Held(w)' = Held(w) /\ (link[w] = "up" => Apart(w)')
    BY <1>1 DEF Held, Agreed, Apart
  <2> QED
    BY <1>1, <1>2, <2>1, QuietStep
<1>4. Lost(w)' /\ Mode(w)'
  BY <1>1 DEF Sound, Lost, Mode, Inline
<1> QED
  BY <1>2, <1>3, <1>4, LocalKeeps DEF Sound

\* A callback of w writes about a delivery it holds; it takes it out of the inbox,
\* the entries or the main thread, and settles it or holds it elsewhere.
LEMMA CallbackSound ==
    ASSUME OInv, NEW w \in Workers, NEW d \in Held(w), NEW fr,
           UNCHANGED <<at, deliveries, link, stop>>,
           wire' = [wire EXCEPT ![w] = @ \o fr],
           \A u \in Workers \ {w} : /\ inbox'[u] = inbox[u] /\ current'[u] = current[u]
                                    /\ pending'[u] = pending[u],
           link[w] # "down", Mode(w)', Apart(w) => Apart(w)',
           inbox'[w] \subseteq inbox[w] \ {d},
           link[w] = "up" => \/ Part(fr, d) /\ Held(w)' = Held(w)
                             \/ Whole(fr, d) /\ Held(w)' = Held(w) \ {d}
    PROVE  AllSound'
<1>1. TypeOK /\ Sound(w) /\ (link[w] = "up" => Agreed(w))
  BY Known
<1>2. Local(w)
  BY <1>1 DEF Local, Untouched, SameOutstanding, TypeOK
<1>3. link'[w] = "up" => Agreed(w)'
  <2> SUFFICES ASSUME link[w] = "up" PROVE Agreed(w)'
    OBVIOUS
  <2>1. Agreed(w) /\ Apart(w)'
    BY <1>1 DEF Agreed
  <2> QED
    BY <1>1, <2>1, WritingStep
<1>4. Lost(w)'
  BY <1>1 DEF Sound, Lost
<1> QED
  BY <1>2, <1>3, <1>4, LocalKeeps DEF Sound

\* _on_extraction_message moves its delivery to the main thread or to an entry.
LEMMA MessageSound ==
    ASSUME OInv, NEW w \in Workers, NEW d \in inbox[w], OnExtractionMessage(w, d)
    PROVE  AllSound'
<1>1. /\ TypeOK /\ Sound(w) /\ d \in Deliveries /\ d \in Held(w)
      /\ UNCHANGED <<at, deliveries, link, stop>>
      /\ wire' = [wire EXCEPT ![w] = @ \o Announce(d)]
      /\ link[w] \in {"up", "half"} /\ stop[w] = "none" /\ current[w] = Idle
      /\ inbox' = [inbox EXCEPT ![w] = @ \ {d}]
      /\ link[w] = "up" => Agreed(w)
  BY Known DEF OnExtractionMessage, Take, LoopRuns, Connected, Write, brokerVars, TypeOK, Held
<1>2. link[w] = "up" => d # Idle
  BY <1>1 DEF Agreed, HeldIsOutstanding
<1>3. Part(Announce(d), d)
  BY <1>1, SentIsPart DEF Verdicts
<1>4. inbox'[w] = inbox[w] \ {d} /\ \A u \in Workers \ {w} : inbox'[u] = inbox[u]
  BY <1>1 DEF TypeOK
<1>5. CASE Inline
  <2>1. current' = [current EXCEPT ![w] = d] /\ UNCHANGED pending /\ pending[w] = {}
    BY <1>1, <1>5 DEF OnExtractionMessage, Sound, Mode
  <2>2. current'[w] = d /\ \A u \in Workers \ {w} : current'[u] = current[u]
    BY <1>1, <2>1 DEF TypeOK
  <2>3. link[w] = "up" => Held(w)' = Held(w)
    BY <1>1, <1>2, <1>4, <2>1, <2>2 DEF Held
  <2>4. Mode(w)' /\ Apart(w)'
    BY <1>1, <1>4, <1>5, <2>1, <2>2 DEF Mode, Apart, Inline
  <2> QED
    BY <1>1, <1>3, <1>4, <2>1, <2>2, <2>3, <2>4, CallbackSound
<1>6. CASE ~Inline
  <2> DEFINE e == [delivery |-> d, open |-> TRUE, future |-> "running", scheduled |-> FALSE]
  <2>1. /\ pending' = [pending EXCEPT ![w] = @ \cup {e}] /\ UNCHANGED current
        /\ e.delivery = d /\ e.open
    BY <1>6 DEF OnExtractionMessage
  <2> HIDE DEF e
  <2>2. /\ pending'[w] = pending[w] \cup {e}
        /\ \A u \in Workers \ {w} : pending'[u] = pending[u]
    BY <1>1, <2>1 DEF TypeOK
  <2>3. link[w] = "up" => Held(w)' = Held(w)
    BY <1>1, <1>2, <1>4, <2>1, <2>2 DEF Held
  <2>4. Mode(w)'
    BY <1>1, <1>6, <2>1 DEF Mode, Inline
  <2>5. Apart(w) => Apart(w)'
    BY <1>1, <1>4, <2>1, <2>2 DEF Apart
  <2> QED
    BY <1>1, <1>3, <1>4, <2>1, <2>2, <2>3, <2>4, <2>5, CallbackSound
<1> QED
  BY <1>5, <1>6

\* A refused message is settled by its callback.
LEMMA RefusedSound ==
    ASSUME OInv, NEW w \in Workers, NEW d \in inbox[w], AnnounceFails(w, d) \/ SubmitFails(w, d)
    PROVE  AllSound'
<1>1. /\ TypeOK /\ Sound(w) /\ d \in Deliveries /\ d \in Held(w)
      /\ UNCHANGED <<at, deliveries, link, stop, current, pending>>
      /\ link[w] \in {"up", "half"} /\ inbox' = [inbox EXCEPT ![w] = @ \ {d}]
      /\ link[w] = "up" => Agreed(w)
  BY Known DEF AnnounceFails, SubmitFails, Take, LoopRuns, Connected, brokerVars, TypeOK, Held
<1>2. Part(<<>>, d) /\ Part(Announce(d), d)
  BY <1>1, SentIsPart DEF Verdicts
<1>3. WritesWhole(w, d)
  BY <1>1, <1>2, ExceptionSettles DEF AnnounceFails, SubmitFails
<1>4. PICK fr : Whole(fr, d) /\ wire' = [wire EXCEPT ![w] = @ \o fr]
  BY <1>3 DEF WritesWhole
<1>5. inbox'[w] = inbox[w] \ {d} /\ \A u \in Workers \ {w} : inbox'[u] = inbox[u]
  BY <1>1 DEF TypeOK
<1>6. link[w] = "up" => Held(w)' = Held(w) \ {d}
  BY <1>1, <1>5 DEF Held, Agreed, Apart
<1>7. Mode(w)' /\ (Apart(w) => Apart(w)')
  BY <1>1, <1>5 DEF Sound, Mode, Apart, Inline
<1> QED
  BY <1>1, <1>4, <1>5, <1>6, <1>7, CallbackSound

\* An inline extraction ends and its delivery is settled.
LEMMA InlineSound ==
    ASSUME OInv, NEW w \in Workers, NEW v \in Verdicts, InlineFinishes(w, v)
    PROVE  AllSound'
<1> DEFINE d == current[w]
<1>1. /\ TypeOK /\ Sound(w) /\ d \in Deliveries /\ d # Idle /\ d \in Held(w)
      /\ UNCHANGED <<at, deliveries, link, stop, inbox, pending>>
      /\ link[w] \in {"up", "half"} /\ current' = [current EXCEPT ![w] = Idle]
      /\ Complete(w, d, v) /\ (link[w] = "up" => Agreed(w))
  BY Known DEF InlineFinishes, Connected, brokerVars, TypeOK, Held
<1>2. current'[w] = Idle /\ \A u \in Workers \ {w} : current'[u] = current[u]
  BY <1>1 DEF TypeOK
<1>3. PICK fr : Whole(fr, d) /\ wire' = [wire EXCEPT ![w] = @ \o fr]
  BY <1>1, CompletionSettles DEF WritesWhole
<1>4. Inline /\ pending[w] = {}
  BY <1>1 DEF Sound, Mode
<1>5. link[w] = "up" => d \notin inbox[w] /\ Idle \notin inbox[w]
  BY <1>1 DEF Agreed, Apart, HeldIsOutstanding, Held
<1>6. link[w] = "up" => Held(w)' = Held(w) \ {d}
  BY <1>1, <1>2, <1>4, <1>5 DEF Held
<1>7. Mode(w)'
  BY <1>1, <1>4 DEF Sound, Mode, Inline
<1>8. CASE link[w] = "up"
  <2>1. Apart(w)'
    BY <1>1, <1>2, <1>4, <1>5, <1>8 DEF Apart
  <2>2. inbox'[w] \subseteq inbox[w] \ {d}
    BY <1>1, <1>5, <1>8
  <2> HIDE DEF d
  <2> QED
    BY <1>1, <1>2, <1>3, <1>6, <1>7, <2>1, <2>2, CallbackSound
<1>9. CASE link[w] = "half"
  <2>1. Local(w)
    BY <1>1, <1>2, <1>3 DEF Local, Untouched, SameOutstanding, TypeOK
  <2> QED
    BY <1>1, <1>7, <1>9, <2>1, LocalKeeps DEF Sound, Lost
<1> QED
  BY <1>1, <1>8, <1>9

\* _finish_future settles the delivery of its entry.
LEMMA FinishSound ==
    ASSUME OInv, NEW w \in Workers, NEW e \in pending[w], FinishFuture(w, e) \/ DrainFinishes(w, e)
    PROVE  AllSound'
<1> DEFINE d == e.delivery
<1>1. /\ TypeOK /\ Sound(w) /\ e \in Entries /\ e.open /\ d \in Held(w)
      /\ UNCHANGED <<at, deliveries, link, stop, inbox, current>>
      /\ link[w] \in {"up", "half"} /\ Finish(w, e)
      /\ (link[w] = "up" => Agreed(w))
  BY Known DEF FinishFuture, DrainFinishes, LoopRuns, Connected, brokerVars, TypeOK, Held
<1>2. d \in Deliveries /\ (e.future = "broken" \/ e.future \in Verdicts)
  <2>1. ScheduledIsDone
    BY DEF OInv, IInv
  <2>2. e.future # "running"
    BY <2>1 DEF FinishFuture, DrainFinishes, ScheduledIsDone
  <2> QED
    BY <1>1, <2>2 DEF Entries
<1>3. /\ pending'[w] = pending[w] \ {e}
      /\ \A u \in Workers \ {w} : pending'[u] = pending[u]
  BY <1>1 DEF Finish, TypeOK
<1>4. WritesWhole(w, d)
  <2>1. CASE e.future = "broken"
    <3>1. Part(<<>>, d)
      BY <1>2, SentIsPart DEF Verdicts
    <3> QED
      BY <1>1, <1>2, <2>1, <3>1, ExceptionSettles DEF Finish
  <2>2. CASE e.future # "broken"
    BY <1>1, <1>2, <2>2, CompletionSettles DEF Finish
  <2> QED
    BY <2>1, <2>2
<1>5. PICK fr : Whole(fr, d) /\ wire' = [wire EXCEPT ![w] = @ \o fr]
  BY <1>4 DEF WritesWhole
<1>6. Mode(w)'
  BY <1>1, <1>3 DEF Sound, Mode, Inline
<1>7. CASE link[w] = "up"
  <2>1. /\ d \notin inbox[w] /\ d # current[w]
        /\ \A f \in pending[w] : f.open /\ f.delivery = d => f = e
    BY <1>1, <1>7 DEF Agreed, Apart
  <2>2. Held(w)' = Held(w) \ {d}
    BY <1>1, <1>3, <2>1 DEF Held
  <2>3. Apart(w) => Apart(w)'
    BY <1>1, <1>3 DEF Apart
  <2>4. /\ inbox'[w] \subseteq inbox[w] \ {d} /\ link[w] # "down" /\ d \in Held(w)
        /\ UNCHANGED <<at, deliveries, link, stop>>
        /\ \A u \in Workers \ {w} : /\ inbox'[u] = inbox[u] /\ current'[u] = current[u]
                                     /\ pending'[u] = pending[u]
    BY <1>1, <1>3, <1>7, <2>1
  <2> HIDE DEF d
  <2> QED
    BY <1>5, <1>6, <2>2, <2>3, <2>4, CallbackSound
<1>8. CASE link[w] = "half"
  <2>1. Local(w)
    BY <1>1, <1>3, <1>5 DEF Local, Untouched, SameOutstanding, TypeOK
  <2> QED
    BY <1>1, <1>6, <1>8, <2>1, LocalKeeps DEF Sound, Lost
<1> QED
  BY <1>1, <1>7, <1>8

\* The open entries of w before and after a step match one to one.
Matched(w) ==
    /\ \A u \in Workers \ {w} : pending'[u] = pending[u]
    /\ \A f \in pending'[w] : \E e \in pending[w] : f.delivery = e.delivery /\ f.open = e.open
    /\ \A e \in pending[w] : e.open =>
           \E f \in pending'[w] : f.delivery = e.delivery /\ f.open
    /\ (\A e, f \in pending[w] : e.open /\ f.open /\ e.delivery = f.delivery => e = f)
       => (\A e, f \in pending'[w] : e.open /\ f.open /\ e.delivery = f.delivery => e = f)

\* What the pool does to an entry leaves what is held and where.
LEMMA PoolSound ==
    ASSUME OInv, NEW w \in Workers, PoolBreaks(w) \/ Pool(w)
    PROVE  AllSound'
<1>1. /\ TypeOK /\ Sound(w)
      /\ UNCHANGED <<at, deliveries, link, wire, inbox, current, stop>>
      /\ link[w] = "up" => Agreed(w)
  BY Known DEF PoolBreaks, Pool, OnFutureDone, ChildFinishes, UnchangedByPool, brokerVars, linkVars
<1>2. Matched(w)
  <2>0. \A e \in pending[w] : e \in Entries
    BY <1>1 DEF TypeOK
  <2>1. ASSUME NEW e \in pending[w], NEW new,
               pending' = [pending EXCEPT ![w] = (@ \ {e}) \cup {new}],
               new.delivery = e.delivery, new.open = e.open
        PROVE  Matched(w)
    <3>1. pending'[w] = (pending[w] \ {e}) \cup {new}
      BY <1>1, <2>1 DEF TypeOK
    <3>2. \A u \in Workers \ {w} : pending'[u] = pending[u]
      BY <1>1, <2>1 DEF TypeOK
    <3> QED
      BY <2>1, <3>1, <3>2 DEF Matched
  <2>2. CASE PoolBreaks(w)
    <3> DEFINE broken(e) == IF e.future = "running" THEN [e EXCEPT !.future = "broken"] ELSE e
    <3>1. /\ pending'[w] = {broken(e) : e \in pending[w]}
          /\ \A u \in Workers \ {w} : pending'[u] = pending[u]
      BY <1>1, <2>2 DEF PoolBreaks, TypeOK
    <3>2. \A e \in pending[w] : broken(e).delivery = e.delivery /\ broken(e).open = e.open
      BY <2>0 DEF Entries
    <3> HIDE DEF broken
    <3> QED
      BY <3>1, <3>2 DEF Matched
  <2>3. ASSUME NEW e \in pending[w], OnFutureDone(w, e) PROVE Matched(w)
    <3>1. CASE e.open
      <4> DEFINE new == [e EXCEPT !.scheduled = TRUE]
      <4>1. new.delivery = e.delivery /\ new.open = e.open
        BY <2>0 DEF Entries
      <4>2. pending' = [pending EXCEPT ![w] = (@ \ {e}) \cup {new}]
        BY <2>3, <3>1 DEF OnFutureDone, Replace
      <4> HIDE DEF new
      <4> QED
        BY <2>1, <4>1, <4>2
    <3>2. CASE ~e.open
      <4>1. /\ pending'[w] = pending[w] \ {e}
            /\ \A u \in Workers \ {w} : pending'[u] = pending[u]
        BY <1>1, <2>3, <3>2 DEF OnFutureDone, TypeOK
      <4> QED
        BY <3>2, <4>1 DEF Matched
    <3> QED
      BY <3>1, <3>2
  <2>4. ASSUME NEW e \in pending[w], NEW v \in Verdicts, ChildFinishes(w, e, v) PROVE Matched(w)
    <3> DEFINE new == [e EXCEPT !.future = v]
    <3>1. new.delivery = e.delivery /\ new.open = e.open
      BY <2>0 DEF Entries
    <3>2. pending' = [pending EXCEPT ![w] = (@ \ {e}) \cup {new}]
      BY <2>4 DEF ChildFinishes, Replace
    <3> HIDE DEF new
    <3> QED
      BY <2>1, <3>1, <3>2
  <2> QED
    BY <2>2, <2>3, <2>4 DEF Pool
<1>3. Local(w) /\ SameOutstanding(w)
  BY <1>1, <1>2 DEF Matched, Local, Untouched, SameOutstanding
<1>4. Held(w)' = Held(w)
  <2>1. \A d : d \in Held(w)' <=> d \in Held(w)
    BY <1>1, <1>2 DEF Matched, Held
  <2> QED
    BY <2>1
<1>5. link[w] = "up" => Agreed(w)'
  <2>1. link[w] = "up" => Apart(w)'
    BY <1>1, <1>2 DEF Matched, Agreed, Apart
  <2> QED
    BY <1>1, <1>3, <1>4, <2>1, QuietStep
<1>6. Lost(w)' /\ Mode(w)'
  BY <1>1, <1>2 DEF Matched, Sound, Lost, Mode, Inline
<1> QED
  BY <1>1, <1>3, <1>5, <1>6, LocalKeeps DEF Sound

\* Signal gives back the deliveries whose callback has not run.
LEMMA SignalSound ==
    ASSUME OInv, NEW w \in Workers, Signal(w)
    PROVE  AllSound'
<1>1. /\ TypeOK /\ Sound(w) /\ w # "ready" /\ inbox' = [inbox EXCEPT ![w] = {}]
      /\ stop' = [stop EXCEPT ![w] = "draining"]
      /\ UNCHANGED <<deliveries, link, wire, current, pending>>
      /\ link[w] = "up" => Agreed(w)
  BY Known DEF Signal
<1>2. /\ inbox'[w] = {} /\ stop'[w] = "draining"
      /\ \A u \in Workers \ {w} : inbox'[u] = inbox[u] /\ stop'[u] = stop[u]
  BY <1>1 DEF TypeOK
<1>3. CASE link[w] = "up"
  <2> DEFINE Given == {d.job : d \in inbox[w]}
  <2>1. /\ Agreed(w) /\ Held(w) \subseteq Deliveries
        /\ \A d, e \in Held(w) : d.job = e.job => d = e
    BY <1>1, <1>3, OneDeliveryPerJob
  <2>2. \A j \in Given : at[j] = w
    BY <2>1 DEF Agreed, HeldIsOutstanding, Held
  <2>3. \A j \in Jobs : at'[j] = IF j \in Given THEN "ready" ELSE at[j]
    BY <1>3 DEF Signal
  <2> HIDE DEF Given
  <2>4. ASSUME NEW u \in Workers \ {w} PROVE SameOutstanding(u)
    <3>1. u # "ready"
      BY ConsumerAssumption
    <3> QED
      BY <1>1, <2>2, <2>3, <3>1 DEF SameOutstanding
  <2>5. Local(w)
    BY <1>1, <1>2, <2>4 DEF Local, Untouched
  <2>6. Held(w)' = Held(w) \ inbox[w]
    <3>1. current[w] \notin inbox[w] /\ \A e \in pending[w] : e.open => e.delivery \notin inbox[w]
      BY <2>1 DEF Agreed, Apart
    <3> QED
      BY <1>1, <1>2, <3>1 DEF Held
  <2>7. \A d \in Held(w) : d.job \in Jobs /\ (d.job \in Given <=> d \in inbox[w])
    <3>1. inbox[w] \subseteq Held(w)
      BY DEF Held
    <3> QED
      BY <2>1, <3>1 DEF Given, Deliveries
  <2>8. \A i \in 1 .. Len(wire[w]) : wire[w][i].job \in Jobs \ Given
    BY <1>1, <2>1, OfJobs DEF Agreed, UntakenIsSilent, Given
  <2>9. OwnedFrames(w)' /\ SettlesLast(w)'
    BY <1>1, <2>1, <2>3, <2>8 DEF Agreed, OwnedFrames, SettlesLast
  <2>10. HeldIsOutstanding(w)' /\ UntakenIsSilent(w)' /\ Apart(w)'
    BY <1>1, <1>2, <2>1, <2>3, <2>6, <2>7
       DEF Agreed, HeldIsOutstanding, UntakenIsSilent, Apart
  <2>11. NoneForgotten(w)'
    <3> SUFFICES ASSUME NEW j \in Jobs, at'[j] = w
                 PROVE  \/ \E d \in Held(w)' : d.job = j
                        \/ \E i \in 1 .. Len(wire[w]) : wire[w][i].job = j /\ Settles(wire[w][i])
      BY <1>1 DEF NoneForgotten
    <3>1. j \notin Given /\ at[j] = w
      BY <1>1, <2>3
    <3>2. CASE \E d \in Held(w) : d.job = j
      BY <2>6, <2>7, <3>1, <3>2
    <3> QED
      BY <2>1, <3>1, <3>2 DEF Agreed, NoneForgotten
  <2>12. Lost(w)' /\ Mode(w)'
    BY <1>1, <1>2, <1>3 DEF Sound, Lost, Mode, Inline
  <2>13. Sound(w)'
    BY <2>9, <2>10, <2>11, <2>12 DEF Sound, Agreed
  <2> QED
    BY <2>5, <2>13, LocalKeeps
<1>4. CASE link[w] # "up"
  <2>1. \A j \in Jobs : at'[j] = at[j]
    BY <1>4 DEF Signal
  <2>2. Local(w)
    BY <1>1, <1>2, <2>1 DEF Local, Untouched, SameOutstanding
  <2>3. Sound(w)'
    BY <1>1, <1>2, <1>4, <2>1 DEF Sound, Lost, Mode, Inline
  <2> QED
    BY <2>2, <2>3, LocalKeeps
<1> QED
  BY <1>3, <1>4
-----------------------------------------------------------------------------
(* The invariant.                                                           *)

\* Nothing is connected or held in the initial states.
LEMMA OwnershipInit == Init => OInv
<1> SUFFICES ASSUME Init PROVE OInv
  OBVIOUS
<1>1. IInv
  BY InitInv
<1>2. ASSUME NEW w \in Workers PROVE Sound(w)
  <2>1. w # "ready"
    BY ConsumerAssumption
  <2> QED
    BY <2>1 DEF Init, Sound, Lost, Mode
<1> QED
  BY <1>1, <1>2 DEF OInv, AllSound

\* A step that changes nothing of this keeps it.
LEMMA StutterSound ==
    ASSUME OInv, UNCHANGED vars
    PROVE  AllSound'
<1>1. UNCHANGED <<at, deliveries, link, wire, inbox, current, pending, stop>>
  BY DEF vars, brokerVars, linkVars, workerVars
<1> SUFFICES ASSUME NEW u \in Workers PROVE Sound(u)'
  BY DEF AllSound
<1>2. Sound(u) /\ (link[u] = "up" => Agreed(u)) /\ SameOutstanding(u) /\ TypeOK
  BY <1>1, Known DEF SameOutstanding
<1>3. Held(u)' = Held(u) /\ (Apart(u) => Apart(u)')
  BY <1>1 DEF Held, Apart
<1>4. link[u] = "up" => Agreed(u)'
  BY <1>1, <1>2, <1>3, QuietStep DEF Agreed
<1> QED
  BY <1>1, <1>2, <1>4 DEF Sound, Lost, Mode, Inline

\* Every step of a replica or the broker preserves it.
LEMMA OwnershipStep ==
    ASSUME OInv, [Next]_vars
    PROVE  OInv'
<1> SUFFICES AllSound'
  BY NextInv DEF OInv
<1>1. ASSUME NEW w \in Workers, EventLoop(w) PROVE AllSound'
  <2>1. CASE Connect(w) \/ LoopRaises(w) \/ InlineRaises(w) \/ CloseConnection(w) \/ DrainEnds(w)
    BY <2>1, ConnectSound, LoopRaisesSound, IdlePoolSound, DrainEndsSound
  <2>2. ASSUME NEW d \in inbox[w],
               OnExtractionMessage(w, d) \/ AnnounceFails(w, d) \/ SubmitFails(w, d)
        PROVE  AllSound'
    BY <2>2, MessageSound, RefusedSound
  <2>3. ASSUME NEW v \in Verdicts, InlineFinishes(w, v) PROVE AllSound'
    BY <2>3, InlineSound
  <2>4. ASSUME NEW e \in pending[w], FinishFuture(w, e) \/ DrainFinishes(w, e)
        PROVE  AllSound'
    BY <2>4, FinishSound
  <2>5. CASE \E e \in pending[w] : DrainAborts(w, e)
    BY <2>5, GoneSound
  <2> QED
    BY <1>1, <2>1, <2>2, <2>3, <2>4, <2>5 DEF EventLoop
<1>2. ASSUME NEW w \in Workers,
             Receive(w) \/ Pool(w) \/ Drop(w) \/ PoolBreaks(w) \/ Signal(w) \/ Crash(w)
      PROVE  AllSound'
  BY <1>2, ReceiveSound, PoolSound, DropSound, SignalSound, GoneSound
<1>3. ASSUME NEW w \in Workers, NEW j \in Jobs, Deliver(w, j) PROVE AllSound'
  BY <1>3, DeliverSound
<1>4. CASE UNCHANGED vars
  BY <1>4, StutterSound
<1> QED
  BY <1>1, <1>2, <1>3, <1>4 DEF Next
-----------------------------------------------------------------------------
(* Ownership.                                                               *)

\* A worker and the broker that agree have one owner for every delivery.
LEMMA AgreedHasOneOwner ==
    ASSUME TypeOK, NEW w \in Workers, Agreed(w)
    PROVE  /\ Held(w) \cup Settling(w) = Outstanding(w)
           /\ Held(w) \cap Settling(w) = {}
           /\ Cardinality(SettleFrames(w)) = Cardinality(Settling(w))
<1> DEFINE s == wire[w]
           S == SettleFrames(w)
           about(i) == [job |-> s[i].job, tag |-> s[i].tag]
<1>1. /\ Len(s) \in Nat /\ DOMAIN s = 1 .. Len(s)
      /\ \A i \in 1 .. Len(s) : s[i].job \in Jobs /\ s[i].tag \in Nat
      /\ Held(w) \subseteq Deliveries
      /\ \A d \in Deliveries : d.job \in Jobs /\ d = [job |-> d.job, tag |-> d.tag]
  <2>1. s \in Seq(Frames)
    BY OfJobs
  <2> HIDE DEF s
  <2>2. DOMAIN s = 1 .. Len(s)
    BY <2>1
  <2> QED
    BY <2>2, OfJobs, OneDeliveryPerJob DEF s
<1>2. S = {i \in 1 .. Len(s) : Settles(s[i])} /\ Settling(w) = {about(i) : i \in S}
  BY <1>1 DEF SettleFrames, Settling, Settles
<1>3. /\ \A i \in 1 .. Len(s) : at[s[i].job] = w /\ s[i].tag = deliveries[s[i].job]
      /\ \A i, k \in 1 .. Len(s) : i < k /\ s[i].job = s[k].job => ~Settles(s[i])
      /\ \A d \in Held(w) : /\ at[d.job] = w /\ d.tag = deliveries[d.job]
                            /\ \A i \in 1 .. Len(s) : s[i].job = d.job => ~Settles(s[i])
      /\ \A j \in Jobs : at[j] = w =>
             \/ \E d \in Held(w) : d.job = j
             \/ \E i \in 1 .. Len(s) : s[i].job = j /\ Settles(s[i])
  BY DEF Agreed, OwnedFrames, SettlesLast, HeldIsOutstanding, NoneForgotten
<1>4. Outstanding(w) = {[job |-> j, tag |-> deliveries[j]] : j \in {i \in Jobs : at[i] = w}}
  BY DEF Outstanding, Unacked
<1> HIDE DEF s, S
<1>5. Held(w) \cup Settling(w) \subseteq Outstanding(w)
  <2>1. ASSUME NEW d \in Held(w) PROVE d \in Outstanding(w)
    BY <1>1, <1>3, <1>4
  <2>2. ASSUME NEW i \in S PROVE about(i) \in Outstanding(w)
    BY <1>1, <1>2, <1>3, <1>4
  <2> QED
    BY <1>2, <2>1, <2>2
<1>6. Outstanding(w) \subseteq Held(w) \cup Settling(w)
  <2> SUFFICES ASSUME NEW j \in Jobs, at[j] = w
               PROVE  [job |-> j, tag |-> deliveries[j]] \in Held(w) \cup Settling(w)
    BY <1>4
  <2>1. CASE \E d \in Held(w) : d.job = j
    <3>1. PICK d \in Held(w) : d.job = j
      BY <2>1
    <3>2. d = [job |-> j, tag |-> deliveries[j]]
      BY <1>1, <1>3, <3>1
    <3> QED
      BY <3>2
  <2>2. CASE \E i \in 1 .. Len(s) : s[i].job = j /\ Settles(s[i])
    <3>1. PICK i \in 1 .. Len(s) : s[i].job = j /\ Settles(s[i])
      BY <2>2
    <3>2. i \in S /\ about(i) = [job |-> j, tag |-> deliveries[j]]
      BY <1>2, <1>3, <3>1
    <3> QED
      BY <1>2, <3>2
  <2> QED
    BY <1>3, <2>1, <2>2
<1>7. Held(w) \cap Settling(w) = {}
  <2>1. ASSUME NEW d \in Held(w), NEW i \in S PROVE d # about(i)
    BY <1>2, <1>3
  <2> QED
    BY <1>2, <2>1
<1>8. Cardinality(S) = Cardinality(Settling(w))
  <2> DEFINE f == [i \in S |-> about(i)]
  <2>1. IsFiniteSet(S)
    <3>1. 1 \in Int /\ Len(s) \in Int
      BY <1>1
    <3>2. IsFiniteSet(1 .. Len(s))
      BY <3>1, FS_Interval
    <3> QED
      BY <1>2, <3>2, FS_Subset
  <2>2. ASSUME NEW i \in S, NEW k \in S, about(i) = about(k) PROVE i = k
    <3>1. /\ i \in 1 .. Len(s) /\ k \in 1 .. Len(s) /\ s[i].job = s[k].job
          /\ Settles(s[i]) /\ Settles(s[k])
      BY <1>2, <2>2
    <3>2. i \in Nat /\ k \in Nat
      BY <1>1, <3>1
    <3> QED
      BY <1>3, <3>1, <3>2
  <2>3. f \in Bijection(S, Settling(w))
    BY <1>2, <2>2 DEF Bijection, Injection, Surjection, IsInjective
  <2> QED
    BY <2>1, <2>3, FS_Bijection DEF ExistsBijection
<1> QED
  BY <1>5, <1>6, <1>7, <1>8 DEF S

\* On a working connection no delivery is forgotten, none is answered twice, and
\* no acknowledgement is for a delivery of somebody else or of an earlier
\* connection, whatever is lost and whoever crashes (_on_extraction_message,
\* _on_future_done, _finish_future, stop and pika's channel).
THEOREM OneOwner == Spec => []EveryDeliveryHasOneOwner
<1>1. OInv => EveryDeliveryHasOneOwner
  BY AgreedHasOneOwner DEF OInv, AllSound, IInv, Sound, EveryDeliveryHasOneOwner
<1>2. OInv /\ [Next]_vars => OInv'
  BY OwnershipStep
<1> QED
  BY <1>1, <1>2, OwnershipInit, PTL DEF Spec

\* A stop that drained its futures gives no extracted job back to the queue: only
\* the delivery that the signal interrupted inline is still the replica's (stop,
\* _drain_pending_futures).
THEOREM DrainedStop == Spec => []DrainedStopHoldsNothing
<1>1. ASSUME OInv, NEW w \in Workers, stop[w] = "closing", link[w] = "up", wire[w] = <<>>
      PROVE  Unacked(w) \subseteq {current[w].job}
  <2>1. Agreed(w) /\ Mode(w) /\ Len(wire[w]) = 0
    BY <1>1, Known DEF Sound
  <2>2. Held(w) \subseteq {current[w]}
    BY <1>1, <2>1 DEF Mode, Held
  <2> QED
    BY <2>1, <2>2 DEF Agreed, NoneForgotten, Unacked
<1>2. OInv => DrainedStopHoldsNothing
  BY <1>1 DEF DrainedStopHoldsNothing
<1>3. OInv /\ [Next]_vars => OInv'
  BY OwnershipStep
<1> QED
  BY <1>2, <1>3, OwnershipInit, PTL DEF Spec
-----------------------------------------------------------------------------
(* Refinement.                                                              *)

\* The answers and the settled jobs as the abstract specification sees them.
AnswersOf == [j \in Jobs |-> results[j] \cup (IF j \in deadLetters THEN {"dead_letter"} ELSE {})]
SettledJobs == {j \in Jobs : at[j] = "settled"}

\* An answer and a settlement are steps of JobDelivery.
LEMMA DeliverySteps ==
    ASSUME NEW j \in Jobs, NEW a \in {"ok", "error", "dead_letter"},
           Delivery!Answer(j, a) \/ Delivery!Settle(j)
    PROVE  Delivery!Next
BY DEF Delivery!Next, Delivery!Answers, Delivery!Answer, Delivery!Settle

\* A frame that the broker reads is an answer, a settlement or neither.
LEMMA ReceiveRefines ==
    ASSUME OInv, OInv', NEW w \in Workers, Receive(w)
    PROVE  [Delivery!Next]_(Delivery!vars)
<1> DEFINE f == Head(wire[w])
<1>1. /\ TypeOK /\ Agreed(w) /\ w # "ready" /\ w # "settled" /\ Routed(f)
      /\ wire[w] \in Seq(Frames) /\ wire[w] # <<>>
  BY Known, OfJobs DEF Receive
<1>2. f \in Frames /\ at[f.job] = w
  BY <1>1, ReadStep
<1>3. PICK j \in Jobs, v \in Verdicts : j = f.job /\ v = f.verdict
  BY <1>2 DEF Frames
<1> HIDE DEF f
<1>4. j \notin SettledJobs
  BY <1>1, <1>2, <1>3 DEF SettledJobs
<1>5. CASE f.op = "result"
  <2>1. results' = [results EXCEPT ![j] = @ \cup {v}] /\ UNCHANGED <<deadLetters, at>>
    BY <1>1, <1>3, <1>5 DEF Routed
  <2>2. AnswersOf' = [AnswersOf EXCEPT ![j] = @ \cup {v}] /\ SettledJobs' = SettledJobs
    BY <1>1, <1>3, <2>1 DEF AnswersOf, SettledJobs, TypeOK
  <2>3. Delivery!Answer(j, v)
    BY <1>4, <2>2 DEF Delivery!Answer, AnswersOf, SettledJobs
  <2> QED
    BY <2>3, DeliverySteps DEF Verdicts
<1>6. CASE f.op = "dlq"
  <2>1. deadLetters' = deadLetters \cup {j} /\ UNCHANGED <<results, at>>
    BY <1>1, <1>3, <1>6 DEF Routed
  <2>2. AnswersOf' = [AnswersOf EXCEPT ![j] = @ \cup {"dead_letter"}] /\ SettledJobs' = SettledJobs
    BY <1>1, <1>3, <2>1 DEF AnswersOf, SettledJobs, TypeOK
  <2>3. Delivery!Answer(j, "dead_letter")
    BY <1>4, <2>2 DEF Delivery!Answer, AnswersOf, SettledJobs
  <2> QED
    BY <2>3, DeliverySteps
<1>7. CASE f.op = "ack"
  <2>1. at' = [at EXCEPT ![j] = "settled"] /\ UNCHANGED <<results, deadLetters>>
    BY <1>1, <1>3, <1>7 DEF Routed
  <2>2. SettledJobs' = SettledJobs \cup {j} /\ AnswersOf' = AnswersOf /\ at'[j] = "settled"
    BY <1>1, <1>3, <2>1 DEF AnswersOf, SettledJobs, TypeOK
  <2>3. AnswersOf[j] # {}
    <3>1. results'[j] # {} \/ j \in deadLetters'
      BY <1>3, <2>2 DEF OInv, IInv, TypeOK, SettledIsAnswered
    <3> QED
      BY <1>3, <2>1, <3>1 DEF AnswersOf
  <2>4. Delivery!Settle(j)
    BY <1>4, <2>2, <2>3 DEF Delivery!Settle, AnswersOf, SettledJobs
  <2> QED
    BY <2>4, DeliverySteps
<1>8. CASE f.op \notin {"result", "dlq", "ack"}
  <2>1. /\ UNCHANGED <<results, deadLetters>>
        /\ at' = at \/ at' = [at EXCEPT ![j] = "ready"]
    BY <1>1, <1>3, <1>8 DEF Routed
  <2>2. SettledJobs' = SettledJobs /\ AnswersOf' = AnswersOf
    BY <1>1, <1>2, <1>3, <2>1 DEF AnswersOf, SettledJobs, TypeOK
  <2> QED
    BY <2>2 DEF Delivery!vars, AnswersOf, SettledJobs
<1> QED
  BY <1>5, <1>6, <1>7, <1>8

\* Every other step stutters: it publishes nothing, and what it takes back or
\* hands out is not settled.
LEMMA OthersStutter ==
    ASSUME OInv, UNCHANGED <<results, deadLetters>>,
           \A j \in Jobs : at'[j] = "settled" <=> at[j] = "settled"
    PROVE  [Delivery!Next]_(Delivery!vars)
<1>1. SettledJobs' = SettledJobs /\ AnswersOf' = AnswersOf
  BY DEF SettledJobs, AnswersOf
<1> QED
  BY <1>1 DEF Delivery!vars, AnswersOf, SettledJobs

\* Every step maps to a step of JobDelivery or to none.
LEMMA StepRefines ==
    ASSUME OInv, OInv', [Next]_vars
    PROVE  [Delivery!Next]_(Delivery!vars)
<1>0. TypeOK /\ \A w \in Workers : w # "ready" /\ w # "settled"
  BY ConsumerAssumption DEF OInv, IInv
<1>1. CASE \E w \in Workers : Receive(w)
  BY <1>1, ReceiveRefines
<1>2. ASSUME NEW w \in Workers, NEW j \in Jobs, Deliver(w, j)
      PROVE  [Delivery!Next]_(Delivery!vars)
  BY <1>0, <1>2, OthersStutter DEF Deliver, TypeOK
<1>3. CASE UNCHANGED <<at, results, deadLetters>>
  BY <1>3, OthersStutter
<1>4. ASSUME NEW w \in Workers, UNCHANGED <<results, deadLetters>>,
             at' = Requeued(w, {}) \/ at' = at
      PROVE  [Delivery!Next]_(Delivery!vars)
  <2>1. \A j \in Jobs : at'[j] = "settled" <=> at[j] = "settled"
    BY <1>0, <1>4 DEF Requeued
  <2> QED
    BY <1>4, <2>1, OthersStutter
<1>5. ASSUME NEW w \in Workers, Signal(w) PROVE [Delivery!Next]_(Delivery!vars)
  <2>1. ASSUME NEW d \in inbox[w], link[w] = "up" PROVE at[d.job] = w
    BY <2>1, Known DEF Agreed, HeldIsOutstanding, Held
  <2>2. \A j \in Jobs : at'[j] = "settled" <=> at[j] = "settled"
    BY <1>0, <1>5, <2>1 DEF Signal
  <2> QED
    BY <1>5, <2>2, OthersStutter DEF Signal
<1>6. ASSUME NEW w \in Workers, EventLoop(w) PROVE [Delivery!Next]_(Delivery!vars)
  <2>1. CASE CloseConnection(w) \/ \E e \in pending[w] : DrainAborts(w, e)
    <3>1. UNCHANGED <<results, deadLetters>> /\ (at' = Requeued(w, {}) \/ at' = at)
      BY <2>1 DEF CloseConnection, DrainAborts, ProcessGone
    <3> QED
      BY <1>4, <3>1
  <2>2. CASE ~(CloseConnection(w) \/ \E e \in pending[w] : DrainAborts(w, e))
    <3>1. UNCHANGED brokerVars
      BY <1>6, <2>2 DEF EventLoop, Connect, LoopRaises, OnExtractionMessage, AnnounceFails,
                        SubmitFails, InlineFinishes, InlineRaises, FinishFuture,
                        DrainFinishes, DrainEnds
    <3> QED
      BY <1>3, <3>1 DEF brokerVars
  <2> QED
    BY <2>1, <2>2
<1>7. ASSUME NEW w \in Workers, Pool(w) \/ PoolBreaks(w) PROVE [Delivery!Next]_(Delivery!vars)
  BY <1>3, <1>7 DEF Pool, PoolBreaks, OnFutureDone, ChildFinishes, UnchangedByPool, brokerVars
<1>8. ASSUME NEW w \in Workers, Drop(w) \/ Crash(w) PROVE [Delivery!Next]_(Delivery!vars)
  BY <1>4, <1>8 DEF Drop, Crash, ProcessGone
<1>9. CASE UNCHANGED vars
  BY <1>3, <1>9 DEF vars, brokerVars
<1> QED
  BY <1>1, <1>2, <1>5, <1>6, <1>7, <1>8, <1>9 DEF Next

\* The initial states are initial states of JobDelivery.
LEMMA InitRefines == Init => Delivery!Init
BY ConsumerAssumption DEF Init, Delivery!Init

\* The replicas and the broker together deliver every job at least once: answers
\* only ever come before a job is settled, and it is settled only with one.
THEOREM DeliveryRefined == Spec => ImplementsDelivery
<1>1. OInv /\ [Next]_vars => OInv'
  BY OwnershipStep
<1>2. OInv /\ OInv' /\ [Next]_vars => [Delivery!Next]_(Delivery!vars)
  BY StepRefines
<1> QED
  BY <1>1, <1>2, OwnershipInit, InitRefines, PTL DEF Spec, ImplementsDelivery, Delivery!Spec
-----------------------------------------------------------------------------
(***************************************************************************)
(* What the workers leave behind of a job, for every number of jobs,       *)
(* replicas and faults: a copy in the dead-letter queue is the last        *)
(* resort, and a settled job is finished in the history of some replica.   *)
(*                                                                         *)
(* Both facts are made where a callback writes and seen where the broker   *)
(* reads, so their invariants speak of the frames in between.  Frames that *)
(* satisfy a condition are a set, and a wire is a sequence over that set.  *)
(***************************************************************************)

\* A sequence over a set is one over every larger set.
LEMMA SeqGrows ==
    ASSUME NEW S, NEW T, NEW s \in Seq(S), \A i \in 1 .. Len(s) : s[i] \in S => s[i] \in T
    PROVE  s \in Seq(T)
<1>1. \A i \in 1 .. Len(s) : s[i] \in T
  OBVIOUS
<1> QED
  BY <1>1, IsASeq

\* Sequences over a set put together are one, and so is what is behind the first.
LEMMA SeqJoins ==
    ASSUME NEW S, NEW s \in Seq(S), NEW t \in Seq(S)
    PROVE  s \o t \in Seq(S) /\ <<>> \in Seq(S)
OBVIOUS

\* One element of a set is a sequence over it.
LEMMA SeqOne == ASSUME NEW S, NEW a \in S PROVE <<a>> \in Seq(S)
OBVIOUS

\* The first element and what is behind it.
LEMMA SeqRest ==
    ASSUME NEW S, NEW s \in Seq(S), s # <<>>
    PROVE  Head(s) \in S /\ Tail(s) \in Seq(S)
OBVIOUS
-----------------------------------------------------------------------------
(* What a callback writes and records.                                      *)

\* Frames about d before the end of its callback.
Plain(d) == {f \in Frames : f.job = d.job /\ f.op \notin {"dlq", "ack"}}

\* Frames about d of a callback that records s and after which n faults have happened:
\* a dead-letter copy is of a redelivered message and behind a fault, and an ack comes
\* with a final status.
Allowed(d, s, n) ==
    {f \in Frames : /\ f.job = d.job
                    /\ f.op = "dlq" => d.tag > 1 /\ n > 0
                    /\ f.op = "ack" => s \in Verdicts}

Shaped(w, d) ==
    \E fr, s : fr \in Seq(Allowed(d, s, faults')) /\ Write(w, fr) /\ Record(w, d, s)

\* The frames written before the end of a callback.
LEMMA SentIsPlain ==
    ASSUME NEW d \in Deliveries, NEW v \in Verdicts
    PROVE  /\ <<>> \in Seq(Plain(d)) /\ Announce(d) \in Seq(Plain(d))
           /\ Answer(d, v) \in Seq(Plain(d)) /\ FollowUp(d, v) \in Seq(Plain(d))
           /\ Answer(d, v) \o FollowUp(d, v) \in Seq(Plain(d))
<1>0. "ok" \in Verdicts
  BY DEF Verdicts
<1>1. /\ Frame("result", d, v) \in Plain(d)
      /\ Send("lifecycle", d) \in Plain(d) /\ Send("llm", d) \in Plain(d)
  BY <1>0, FrameTyped DEF Plain
<1>2. /\ <<>> \in Seq(Plain(d)) /\ <<Frame("result", d, v)>> \in Seq(Plain(d))
      /\ <<Send("lifecycle", d)>> \in Seq(Plain(d)) /\ <<Send("llm", d)>> \in Seq(Plain(d))
  BY <1>1, SeqOne
<1>3. /\ Announce(d) \in Seq(Plain(d)) /\ Answer(d, v) \in Seq(Plain(d))
      /\ FollowUp(d, v) \in Seq(Plain(d))
  BY <1>2 DEF Announce, Answer, FollowUp
<1> QED
  BY <1>2, <1>3, SeqJoins

\* Plain frames are allowed with any status.
LEMMA PlainIsAllowed ==
    ASSUME NEW d, NEW s, NEW n, NEW fr \in Seq(Plain(d))
    PROVE  fr \in Seq(Allowed(d, s, n))
<1>1. \A f \in Plain(d) : f \in Allowed(d, s, n)
  BY DEF Plain, Allowed
<1>2. \A i \in 1 .. Len(fr) : fr[i] \in Plain(d)
  OBVIOUS
<1> QED
  BY <1>1, <1>2, SeqGrows

\* The frames that end a callback.
LEMMA EndIsAllowed ==
    ASSUME NEW d \in Deliveries, NEW s, NEW n \in Nat
    PROVE  /\ <<Send("nack", d)>> \in Seq(Allowed(d, s, n))
           /\ s \in Verdicts => <<Send("ack", d)>> \in Seq(Allowed(d, s, n))
           /\ d.tag > 1 /\ n > 0 => <<Send("dlq", d), Send("nack", d)>> \in Seq(Allowed(d, s, n))
           /\ d.tag > 1 /\ n > 0 /\ s \in Verdicts =>
                  <<Send("dlq", d), Send("ack", d)>> \in Seq(Allowed(d, s, n))
<1> DEFINE F == Allowed(d, s, n)
<1>0. "ok" \in Verdicts
  BY DEF Verdicts
<1>1. /\ Send("nack", d) \in F
      /\ s \in Verdicts => Send("ack", d) \in F
      /\ d.tag > 1 /\ n > 0 => Send("dlq", d) \in F
  BY <1>0, FrameTyped DEF Allowed
<1> HIDE DEF F
<1>2. \A a, b \in F : <<a>> \in Seq(F) /\ <<a, b>> \in Seq(F)
  OBVIOUS
<1>3. /\ <<Send("nack", d)>> \in Seq(F)
      /\ s \in Verdicts => <<Send("ack", d)>> \in Seq(F)
      /\ d.tag > 1 /\ n > 0 => <<Send("dlq", d), Send("nack", d)>> \in Seq(F)
      /\ d.tag > 1 /\ n > 0 /\ s \in Verdicts => <<Send("dlq", d), Send("ack", d)>> \in Seq(F)
  BY <1>1, <1>2
<1> QED
  BY <1>3 DEF F

\* An exception writes allowed frames, if a fault is behind it.
LEMMA ExceptionShaped ==
    ASSUME NEW w \in Workers, NEW d \in Deliveries, NEW sent \in Seq(Plain(d)), NEW s, NEW n \in Nat,
           faults \in Nat, n = 0 => faults > 0, HandleException(w, d, sent, s, n)
    PROVE  Shaped(w, d) /\ faults' \in Nat /\ faults' >= faults
<1>0. faults' \in Nat /\ faults' >= faults /\ faults' > 0 /\ "error" \in Verdicts
  BY DEF HandleException, Fault, Verdicts
<1>1. \A t : sent \in Seq(Allowed(d, t, faults'))
  BY PlainIsAllowed
<1>2. ASSUME NEW e, NEW t, e \in Seq(Allowed(d, t, faults')),
             Write(w, sent \o e), Record(w, d, t)
      PROVE  Shaped(w, d)
  <2>1. sent \o e \in Seq(Allowed(d, t, faults'))
    BY <1>1, <1>2, SeqJoins
  <2> QED
    BY <1>2, <2>1 DEF Shaped
<1>3. CASE Write(w, sent \o <<Send("nack", d)>>) /\ Record(w, d, s)
  BY <1>0, <1>2, <1>3, EndIsAllowed
<1>4. CASE d.tag > 1 /\ Write(w, sent \o <<Send("dlq", d), Send("ack", d)>>) /\ Record(w, d, "error")
  BY <1>0, <1>2, <1>4, EndIsAllowed
<1>5. CASE d.tag > 1 /\ Write(w, sent \o <<Send("dlq", d), Send("nack", d)>>) /\ Record(w, d, "error")
  BY <1>0, <1>2, <1>5, EndIsAllowed
<1>6. Shaped(w, d)
  BY <1>3, <1>4, <1>5 DEF HandleException, GiveUp, GiveUpFails, Redelivered
<1> QED
  BY <1>0, <1>6

\* So does a completion, whatever raises.
LEMMA CompletionShaped ==
    ASSUME NEW w \in Workers, NEW d \in Deliveries, NEW v \in Verdicts, faults \in Nat,
           Complete(w, d, v)
    PROVE  Shaped(w, d) /\ faults' \in Nat /\ faults' >= faults
<1>1. /\ <<>> \in Seq(Plain(d)) /\ Answer(d, v) \in Seq(Plain(d))
      /\ Answer(d, v) \o FollowUp(d, v) \in Seq(Plain(d))
  BY SentIsPlain
<1>2. CASE \/ HandleException(w, d, <<>>, row[w][d.job], 1)
           \/ HandleException(w, d, Answer(d, v) \o FollowUp(d, v), v, 1)
           \/ HandleException(w, d, Answer(d, v), v, 2)
  <2>1. ASSUME NEW sent \in Seq(Plain(d)), NEW s, NEW n \in {1, 2}, HandleException(w, d, sent, s, n)
        PROVE  Shaped(w, d) /\ faults' \in Nat /\ faults' >= faults
    <3>1. n \in Nat /\ n # 0
      OBVIOUS
    <3> QED
      BY <2>1, <3>1, ExceptionShaped
  <2> QED
    BY <1>1, <1>2, <2>1
<1>3. ASSUME NEW fr \in Seq(Plain(d)), faults' \in Nat, faults' >= faults,
             Write(w, fr \o <<Send("ack", d)>>), Record(w, d, v)
      PROVE  Shaped(w, d)
  <2>1. fr \o <<Send("ack", d)>> \in Seq(Allowed(d, v, faults'))
    BY <1>3, PlainIsAllowed, EndIsAllowed, SeqJoins
  <2> QED
    BY <1>3, <2>1 DEF Shaped
<1>4. CASE /\ Fault(0) /\ Record(w, d, v)
           /\ Write(w, Answer(d, v) \o FollowUp(d, v) \o <<Send("ack", d)>>)
  <2>1. faults' \in Nat /\ faults' >= faults
    BY <1>4 DEF Fault
  <2> QED
    BY <1>1, <1>3, <1>4, <2>1
<1>5. CASE Fault(1) /\ Record(w, d, v) /\ Write(w, Answer(d, v) \o <<Send("ack", d)>>)
  <2>1. faults' \in Nat /\ faults' >= faults
    BY <1>5 DEF Fault
  <2> QED
    BY <1>1, <1>3, <1>5, <2>1
<1> QED
  BY <1>2, <1>4, <1>5 DEF Complete
-----------------------------------------------------------------------------
(* What a step takes, keeps and writes.                                     *)

\* What a replica still has of its deliveries, on whatever channel they came.
Pulled(w) == inbox[w] \cup ({current[w]} \ {Idle}) \cup {e.delivery : e \in pending[w]}

Broken(w) == pool[w] = "broken" \/ \E e \in pending[w] : e.future = "broken"

\* A step gives u no delivery and breaks none of its futures.
NoMore(u) ==
    /\ Pulled(u)' \subseteq Pulled(u) /\ Held(u)' \subseteq Held(u)
    /\ Broken(u)' => Broken(u)

\* Every entry of w was there before, as open and as broken as it is now.
NoNewEntry(w) ==
    \A f \in pending'[w] : \E g \in pending[w] :
        f.delivery = g.delivery /\ (f.open => g.open) /\ (f.future = "broken" => g.future = "broken")

\* A worker that gets no delivery in any of its places has no more of them.
LEMMA NoMoreOf ==
    ASSUME NEW u, inbox'[u] \subseteq inbox[u], current'[u] \in {current[u], Idle},
           NoNewEntry(u), pool'[u] = "broken" => pool[u] = "broken"
    PROVE  NoMore(u)
<1>1. /\ {e.delivery : e \in pending'[u]} \subseteq {e.delivery : e \in pending[u]}
      /\ {e.delivery : e \in {f \in pending'[u] : f.open}}
             \subseteq {e.delivery : e \in {f \in pending[u] : f.open}}
  BY DEF NoNewEntry
<1>2. Pulled(u)' \subseteq Pulled(u)
  BY <1>1 DEF Pulled
<1>3. Held(u)' \subseteq Held(u)
  BY <1>1 DEF Held
<1>4. Broken(u)' => Broken(u)
  BY DEF NoNewEntry, Broken
<1> QED
  BY <1>2, <1>3, <1>4 DEF NoMore

\* A callback about a held delivery takes it, keeps it or is done with it.
LEMMA CallbackEffect ==
    ASSUME TypeOK, ScheduledIsDone, NEW w \in Workers, Broken(w) => faults > 0,
           \/ \E d \in inbox[w] : OnExtractionMessage(w, d) \/ AnnounceFails(w, d) \/ SubmitFails(w, d)
           \/ \E v \in Verdicts : InlineFinishes(w, v)
           \/ \E e \in pending[w] : FinishFuture(w, e) \/ DrainFinishes(w, e)
    PROVE  /\ \E d \in Held(w) : Shaped(w, d)
           /\ UNCHANGED <<brokerVars, link>> /\ faults' >= faults
           /\ \A u \in Workers : NoMore(u)
<1>0. faults \in Nat /\ "ok" \in Verdicts /\ Held(w) \ {Idle} \subseteq Deliveries
  BY OfJobs DEF TypeOK, Verdicts
<1>1. ASSUME NEW d \in inbox[w], AnnounceFails(w, d) \/ SubmitFails(w, d)
      PROVE  /\ Shaped(w, d) /\ d \in Held(w)
             /\ UNCHANGED <<brokerVars, link>> /\ faults' >= faults
             /\ \A u \in Workers : NoMore(u)
  <2>1. /\ inbox' = [inbox EXCEPT ![w] = @ \ {d}] /\ d \in Deliveries
        /\ UNCHANGED <<brokerVars, link, current, pending, pool>>
    BY <1>1 DEF AnnounceFails, SubmitFails, Take, TypeOK
  <2>2. <<>> \in Seq(Plain(d)) /\ Announce(d) \in Seq(Plain(d))
    BY <1>0, <2>1, SentIsPlain
  <2>3. CASE AnnounceFails(w, d)
    <3>1. HandleException(w, d, <<>>, row[w][d.job], 1) /\ 1 \in Nat /\ 1 # 0
      BY <2>3 DEF AnnounceFails
    <3>2. Shaped(w, d) /\ faults' >= faults
      BY <1>0, <2>1, <2>2, <3>1, ExceptionShaped
    <3>3. \A u \in Workers : inbox'[u] \subseteq inbox[u] /\ NoNewEntry(u)
      BY <2>1 DEF TypeOK, NoNewEntry
    <3> QED
      BY <2>1, <3>2, <3>3, NoMoreOf DEF Held
  <2>4. CASE SubmitFails(w, d)
    <3>1. HandleException(w, d, Announce(d), "processing", 0) /\ 0 \in Nat /\ faults > 0
      BY <2>4 DEF SubmitFails, Broken
    <3>2. Shaped(w, d) /\ faults' >= faults
      BY <1>0, <2>1, <2>2, <3>1, ExceptionShaped
    <3>3. \A u \in Workers : inbox'[u] \subseteq inbox[u] /\ NoNewEntry(u)
      BY <2>1 DEF TypeOK, NoNewEntry
    <3> QED
      BY <2>1, <3>2, <3>3, NoMoreOf DEF Held
  <2> QED
    BY <1>1, <2>3, <2>4
<1>2. ASSUME NEW d \in inbox[w], OnExtractionMessage(w, d)
      PROVE  /\ Shaped(w, d) /\ d \in Held(w)
             /\ UNCHANGED <<brokerVars, link>> /\ faults' >= faults
             /\ \A u \in Workers : NoMore(u)
  <2>1. /\ inbox' = [inbox EXCEPT ![w] = @ \ {d}] /\ pool[w] # "broken" /\ d \in Deliveries
        /\ Write(w, Announce(d)) /\ Record(w, d, "processing")
        /\ UNCHANGED <<brokerVars, link, faults>>
    BY <1>2 DEF OnExtractionMessage, Take, TypeOK, bounds
  <2>2. \/ current' = [current EXCEPT ![w] = d] /\ UNCHANGED <<pending, pool>>
        \/ /\ pending' = [pending EXCEPT ![w] = @ \cup
                              {[delivery |-> d, open |-> TRUE,
                                future |-> "running", scheduled |-> FALSE]}]
           /\ pool' = [pool EXCEPT ![w] = "ready"] /\ UNCHANGED current
    BY <1>2 DEF OnExtractionMessage
  <2>3. \A u \in Workers : NoMore(u)
    <3>1. \A u \in Workers : Pulled(u)' \subseteq Pulled(u) /\ (Broken(u)' => Broken(u))
      BY <2>1, <2>2 DEF TypeOK, Pulled, Broken
    <3>2. \A u \in Workers : Held(u)' \subseteq Held(u)
      BY <2>1, <2>2 DEF TypeOK, Held
    <3> QED
      BY <3>1, <3>2 DEF NoMore
  <2>4. Shaped(w, d)
    <3>1. Announce(d) \in Seq(Allowed(d, "processing", faults'))
      BY <1>0, <2>1, SentIsPlain, PlainIsAllowed
    <3> QED
      BY <2>1, <3>1 DEF Shaped
  <2> QED
    BY <1>0, <2>1, <2>3, <2>4 DEF Held
<1>3. ASSUME NEW v \in Verdicts, InlineFinishes(w, v)
      PROVE  /\ Shaped(w, current[w]) /\ current[w] \in Held(w)
             /\ UNCHANGED <<brokerVars, link>> /\ faults' >= faults
             /\ \A u \in Workers : NoMore(u)
  <2>1. /\ current[w] # Idle /\ Complete(w, current[w], v)
        /\ current' = [current EXCEPT ![w] = Idle]
        /\ UNCHANGED <<brokerVars, link, inbox, pending, pool>>
    BY <1>3 DEF InlineFinishes
  <2>2. current[w] \in Deliveries /\ current[w] \in Held(w)
    BY <1>0, <2>1 DEF Held
  <2>3. Shaped(w, current[w]) /\ faults' >= faults
    BY <1>0, <2>1, <2>2, CompletionShaped
  <2>4. \A u \in Workers : current'[u] \in {current[u], Idle} /\ NoNewEntry(u)
    BY <2>1 DEF TypeOK, NoNewEntry
  <2> QED
    BY <2>1, <2>2, <2>3, <2>4, NoMoreOf
<1>4. ASSUME NEW e \in pending[w], FinishFuture(w, e) \/ DrainFinishes(w, e)
      PROVE  /\ Shaped(w, e.delivery) /\ e.delivery \in Held(w)
             /\ UNCHANGED <<brokerVars, link>> /\ faults' >= faults
             /\ \A u \in Workers : NoMore(u)
  <2> DEFINE d == e.delivery
  <2>1. /\ Finish(w, e) /\ UNCHANGED <<brokerVars, link, inbox, current, pool>>
        /\ e.future # "running" /\ e.open
    BY <1>4 DEF FinishFuture, DrainFinishes, ScheduledIsDone
  <2>2. d \in Deliveries /\ d \in Held(w) /\ (e.future = "broken" \/ e.future \in Verdicts)
    BY <2>1 DEF TypeOK, Entries, Held
  <2>3. \A u \in Workers : NoNewEntry(u)
    <3>1. pending' = [pending EXCEPT ![w] = @ \ {e}]
      BY <2>1 DEF Finish
    <3>2. \A u \in Workers : pending'[u] \subseteq pending[u]
      BY <3>1 DEF TypeOK
    <3> QED
      BY <3>2 DEF NoNewEntry
  <2>4. Shaped(w, d) /\ faults' >= faults
    <3>1. <<>> \in Seq(Plain(d))
      OBVIOUS
    <3>2. CASE e.future = "broken"
      <4>1. HandleException(w, d, <<>>, row[w][d.job], 0) /\ 0 \in Nat /\ faults > 0
        BY <2>1, <3>2 DEF Finish, Broken
      <4> QED
        BY <1>0, <2>2, <3>1, <4>1, ExceptionShaped
    <3>3. CASE e.future # "broken"
      <4>1. Complete(w, d, e.future) /\ e.future \in Verdicts
        BY <2>1, <2>2, <3>3 DEF Finish
      <4> QED
        BY <1>0, <2>2, <4>1, CompletionShaped
    <3> QED
      BY <3>2, <3>3
  <2> HIDE DEF d
  <2>5. \A u \in Workers : NoMore(u)
    BY <2>1, <2>3, NoMoreOf
  <2> QED
    BY <2>1, <2>2, <2>4, <2>5 DEF d
<1> QED
  BY <1>1, <1>2, <1>3, <1>4

\* What the pool does to entries leaves them all but a breakage as broken as they were.
LEMMA PoolEffect ==
    ASSUME TypeOK, NEW w \in Workers, Pool(w)
    PROVE  /\ UNCHANGED <<brokerVars, linkVars, row, faults>>
           /\ \A u \in Workers : NoMore(u)
<1>0. /\ UNCHANGED <<brokerVars, linkVars, current, row, pool, faults>>
      /\ pending[w] \subseteq Entries
  BY DEF TypeOK, Pool, OnFutureDone, ChildFinishes, UnchangedByPool
<1>1. PICK e \in pending[w], v \in Verdicts : OnFutureDone(w, e) \/ ChildFinishes(w, e, v)
  BY DEF Pool, Verdicts
<1>2. PICK new :
          /\ new.delivery = e.delivery /\ new.open = e.open
          /\ new.future = "broken" => e.future = "broken"
          /\ \/ pending' = [pending EXCEPT ![w] = (@ \ {e}) \cup {new}]
             \/ pending' = [pending EXCEPT ![w] = @ \ {e}]
  <2>0. e \in Entries
    BY <1>0
  <2>1. CASE OnFutureDone(w, e)
    <3>1. /\ [e EXCEPT !.scheduled = TRUE].delivery = e.delivery
          /\ [e EXCEPT !.scheduled = TRUE].open = e.open
          /\ [e EXCEPT !.scheduled = TRUE].future = e.future
      BY <2>0 DEF Entries
    <3> QED
      BY <2>1, <3>1 DEF OnFutureDone, Replace
  <2>2. CASE ChildFinishes(w, e, v)
    <3>1. /\ [e EXCEPT !.future = v].delivery = e.delivery
          /\ [e EXCEPT !.future = v].open = e.open
          /\ [e EXCEPT !.future = v].future # "broken"
      BY <2>0 DEF Entries, Verdicts
    <3> QED
      BY <2>2, <3>1 DEF ChildFinishes, Replace
  <2> QED
    BY <1>1, <2>1, <2>2
<1>3. /\ pending'[w] \subseteq (pending[w] \ {e}) \cup {new}
      /\ \A u \in Workers \ {w} : pending'[u] = pending[u]
  BY <1>2 DEF TypeOK
<1>4. \A u \in Workers : NoNewEntry(u)
  BY <1>2, <1>3 DEF NoNewEntry
<1> QED
  BY <1>0, <1>4, NoMoreOf DEF linkVars

\* Only a breakage breaks futures, and it is a fault.
LEMMA BreakEffect ==
    ASSUME TypeOK, NEW w \in Workers, PoolBreaks(w)
    PROVE  /\ UNCHANGED <<brokerVars, linkVars, row>> /\ faults' = faults + 1
           /\ \A u \in Workers : Pulled(u)' \subseteq Pulled(u) /\ Held(u)' \subseteq Held(u)
<1>0. /\ UNCHANGED <<brokerVars, linkVars, current, row>> /\ faults' = faults + 1
      /\ pending' = [pending EXCEPT ![w] =
             {IF e.future = "running" THEN [e EXCEPT !.future = "broken"] ELSE e : e \in @}]
  BY DEF PoolBreaks, Fault, UnchangedByPool
<1>1. /\ pending'[w] = {IF e.future = "running" THEN [e EXCEPT !.future = "broken"] ELSE e :
                            e \in pending[w]}
      /\ \A u \in Workers \ {w} : pending'[u] = pending[u]
      /\ pending[w] \subseteq Entries
  BY <1>0 DEF TypeOK
<1>2. ASSUME NEW f \in pending'[w]
      PROVE  \E e \in pending[w] : f.delivery = e.delivery /\ f.open = e.open
  <2>1. PICK e \in pending[w] : f = IF e.future = "running"
                                    THEN [e EXCEPT !.future = "broken"] ELSE e
    BY <1>1
  <2>2. f = [e EXCEPT !.future = "broken"] \/ f = e
    BY <2>1
  <2>3. f.delivery = e.delivery /\ f.open = e.open
    BY <1>1, <2>2 DEF Entries
  <2> QED
    BY <2>3
<1>3. ASSUME NEW u \in Workers
      PROVE  /\ {e.delivery : e \in pending'[u]} \subseteq {e.delivery : e \in pending[u]}
             /\ {e.delivery : e \in {f \in pending'[u] : f.open}}
                    \subseteq {e.delivery : e \in {f \in pending[u] : f.open}}
  BY <1>1, <1>2
<1>4. \A u \in Workers : inbox'[u] = inbox[u] /\ current'[u] = current[u]
  BY <1>0 DEF linkVars
<1>5. \A u \in Workers : Pulled(u)' \subseteq Pulled(u)
  BY <1>3, <1>4 DEF Pulled
<1>6. \A u \in Workers : Held(u)' \subseteq Held(u)
  BY <1>3, <1>4 DEF Held
<1> QED
  BY <1>0, <1>5, <1>6

\* Lost connections, signals, stops and crashes drop things only.
Loses(w) ==
    \/ Drop(w) \/ Connect(w) \/ LoopRaises(w) \/ InlineRaises(w) \/ Signal(w) \/ DrainEnds(w)
    \/ CloseConnection(w) \/ Crash(w) \/ \E e \in pending[w] : DrainAborts(w, e)

\* They give no worker a delivery, and a wire is kept or cut off as a whole.
LEMMA LossEffect ==
    ASSUME TypeOK, NEW w \in Workers, Loses(w)
    PROVE  /\ UNCHANGED <<deliveries, results, deadLetters, row, faults>>
           /\ \A u \in Workers : NoMore(u) /\ (wire'[u] = wire[u] \/ wire'[u] = <<>>)
<1>0. UNCHANGED <<deliveries, results, deadLetters, row, faults>>
  BY DEF Loses, Drop, Connect, LoopRaises, InlineRaises, Signal, DrainEnds, CloseConnection, Crash,
         DrainAborts, ProcessGone, brokerVars, workerVars, bounds
<1>1. /\ \A u \in Workers \ {w} : /\ wire'[u] = wire[u] /\ inbox'[u] = inbox[u]
                                  /\ current'[u] = current[u] /\ pending'[u] = pending[u]
                                  /\ pool'[u] = pool[u]
      /\ wire'[w] = wire[w] \/ wire'[w] = <<>>
      /\ inbox'[w] \subseteq inbox[w]
      /\ current'[w] = current[w] \/ current'[w] = Idle
      /\ pool'[w] = pool[w] \/ pool'[w] = "none"
  <2>1. CASE Drop(w) \/ Connect(w)
    BY <2>1 DEF TypeOK, Drop, Connect, workerVars
  <2>2. CASE LoopRaises(w) \/ InlineRaises(w)
    <3>1. LinkLost(w) /\ UNCHANGED pool
      BY <2>2 DEF LoopRaises, InlineRaises
    <3>2. /\ current' = current \/ current' = [current EXCEPT ![w] = Idle]
          /\ pending' = pending \/ \E c : pending' = [pending EXCEPT ![w] = c]
      <4>1. CASE LoopRaises(w)
        BY <4>1 DEF LoopRaises
      <4>2. CASE InlineRaises(w)
        BY <4>2 DEF InlineRaises
      <4> QED
        BY <2>2, <4>1, <4>2
    <3> QED
      BY <3>1, <3>2 DEF TypeOK, LinkLost
  <2>3. CASE Signal(w) \/ DrainEnds(w)
    BY <2>3 DEF TypeOK, Signal, DrainEnds, linkVars
  <2>4. CASE CloseConnection(w)
    BY <2>4 DEF TypeOK, CloseConnection, LinkLost
  <2>5. CASE Crash(w) \/ \E e \in pending[w] : DrainAborts(w, e)
    <3>1. ProcessGone(w)
      BY <2>5 DEF Crash, DrainAborts
    <3> QED
      BY <3>1 DEF TypeOK, ProcessGone, LinkLost
  <2> QED
    BY <2>1, <2>2, <2>3, <2>4, <2>5 DEF Loses
<1>2. NoNewEntry(w)
  <2>1. CASE LoopRaises(w)
    <3>1. PICK popped : pending' = [pending EXCEPT ![w] = Closed(@ \ popped)]
      BY <2>1 DEF LoopRaises
    <3>2. \A g \in pending[w] : /\ [g EXCEPT !.open = FALSE].delivery = g.delivery
                                /\ [g EXCEPT !.open = FALSE].future = g.future
                                /\ [g EXCEPT !.open = FALSE].open = FALSE
      BY DEF TypeOK, Entries
    <3>3. pending'[w] = {[g EXCEPT !.open = FALSE] : g \in pending[w] \ popped}
      BY <3>1 DEF TypeOK, Closed
    <3> QED
      BY ZenonT(30), <3>2, <3>3 DEF NoNewEntry
  <2>2. CASE ~LoopRaises(w)
    <3>1. pending'[w] = pending[w] \/ pending'[w] = {}
      BY <2>2 DEF TypeOK, Loses, Drop, Connect, InlineRaises, Signal, DrainEnds, CloseConnection,
                  Crash, DrainAborts, ProcessGone, workerVars
    <3> QED
      BY <3>1 DEF NoNewEntry
  <2> QED
    BY <2>1, <2>2
<1>3. \A u \in Workers : NoNewEntry(u)
  BY <1>1, <1>2 DEF NoNewEntry
<1> QED
  BY <1>0, <1>1, <1>3, NoMoreOf
-----------------------------------------------------------------------------
(* The last resort.                                                         *)

\* A job may be dead-lettered: it was delivered twice, and a channel call raised or a
\* pool broke.
Excused == {j \in Jobs : deliveries[j] > 1 /\ faults > 0}

Justified == {f \in Frames : f.op = "dlq" => f.job \in Excused}

LastResortInv ==
    /\ \A w \in Workers : \A d \in Pulled(w) : d.tag <= deliveries[d.job]
    /\ \A w \in Workers : wire[w] \in Seq(Justified)
    /\ deadLetters \subseteq Excused
    /\ \A w \in Workers : Broken(w) => faults > 0

\* Deliveries and faults are only counted up.
Counted ==
    /\ faults' >= faults
    /\ \A j \in Jobs : deliveries'[j] >= deliveries[j]

\* What is excused stays so.
LEMMA ExcuseLasts ==
    ASSUME TypeOK, TypeOK', Counted
    PROVE  Excused \subseteq Excused' /\ \A s \in Seq(Justified) : s \in Seq(Justified')
<1>1. Excused \subseteq Excused'
  <2>1. ASSUME NEW j \in Jobs, deliveries[j] > 1, faults > 0
        PROVE  deliveries'[j] > 1 /\ faults' > 0
    <3>1. deliveries[j] \in Nat /\ deliveries'[j] \in Nat /\ faults \in Nat /\ faults' \in Nat
      BY DEF TypeOK
    <3> QED
      BY <2>1, <3>1 DEF Counted
  <2> QED
    BY <2>1 DEF Excused
<1>2. Justified \subseteq Justified'
  BY <1>1 DEF Justified
<1>3. ASSUME NEW s \in Seq(Justified) PROVE s \in Seq(Justified')
  <2>1. \A i \in 1 .. Len(s) : s[i] \in Justified
    OBVIOUS
  <2> QED
    BY <1>2, <2>1, SeqGrows
<1> QED
  BY <1>1, <1>3

\* A step keeps the invariant that adds nothing which is not excused.
LEMMA LastResortKept ==
    ASSUME TypeOK, TypeOK', LastResortInv, Counted,
           \A u \in Workers : \A d \in Pulled(u)' : d \in Pulled(u) \/ d.tag <= deliveries'[d.job],
           \A u \in Workers : wire'[u] \in Seq(Justified) \/ wire'[u] \in Seq(Justified'),
           deadLetters' \subseteq deadLetters \cup Excused',
           \A u \in Workers : Broken(u)' => Broken(u) \/ faults' > 0
    PROVE  LastResortInv'
<1>1. /\ Excused \subseteq Excused' /\ \A s \in Seq(Justified) : s \in Seq(Justified')
  BY ExcuseLasts
<1>2. ASSUME NEW u \in Workers, NEW d \in Pulled(u)' PROVE d.tag <= deliveries'[d.job]
  <2>1. CASE d \in Pulled(u)
    <3>1. d \in Deliveries
      BY <2>1 DEF TypeOK, Pulled, Entries
    <3>2. /\ d.tag \in Nat /\ deliveries[d.job] \in Nat /\ deliveries'[d.job] \in Nat
          /\ deliveries'[d.job] >= deliveries[d.job] /\ d.tag <= deliveries[d.job]
      BY <2>1, <3>1 DEF TypeOK, Deliveries, Counted, LastResortInv
    <3> QED
      BY <3>2
  <2> QED
    BY <2>1
<1>3. \A u \in Workers : Broken(u)' => faults' > 0
  BY DEF LastResortInv, TypeOK, Counted
<1> QED
  BY <1>1, <1>2, <1>3 DEF LastResortInv

\* A step that delivers, raises and publishes nothing.
LEMMA LastResortQuiet ==
    ASSUME TypeOK, TypeOK', LastResortInv, UNCHANGED <<deliveries, faults, deadLetters>>,
           \A u \in Workers : NoMore(u) /\ (wire'[u] = wire[u] \/ wire'[u] = <<>>)
    PROVE  LastResortInv'
<1>1. Counted
  BY DEF Counted, TypeOK
<1>2. \A u \in Workers : wire'[u] \in Seq(Justified)
  <2>1. <<>> \in Seq(Justified)
    OBVIOUS
  <2> QED
    BY <2>1 DEF LastResortInv
<1> QED
  BY <1>1, <1>2, LastResortKept DEF NoMore

\* A callback about d.
LEMMA LastResortCallback ==
    ASSUME TypeOK, TypeOK', LastResortInv, NEW w \in Workers, NEW d \in Pulled(w), Shaped(w, d),
           faults' >= faults, UNCHANGED <<deliveries, deadLetters>>,
           \A u \in Workers : NoMore(u)
    PROVE  LastResortInv'
<1>1. Counted /\ d \in Deliveries /\ d.job \in Jobs /\ d.tag \in Nat /\ deliveries[d.job] \in Nat
      /\ faults' \in Nat
  BY DEF Counted, TypeOK, Pulled, Entries, Deliveries
<1>2. PICK fr, s : fr \in Seq(Allowed(d, s, faults')) /\ Write(w, fr)
  BY DEF Shaped
<1>3. Allowed(d, s, faults') \subseteq Justified'
  <2>1. ASSUME NEW f \in Allowed(d, s, faults'), f.op = "dlq" PROVE f.job \in Excused'
    <3>1. f.job = d.job /\ d.tag > 1 /\ faults' > 0
      BY <2>1 DEF Allowed
    <3>2. d.tag <= deliveries[d.job] /\ deliveries' = deliveries
      BY DEF LastResortInv
    <3>3. deliveries'[d.job] > 1
      BY <1>1, <3>1, <3>2
    <3> QED
      BY <1>1, <3>1, <3>3 DEF Excused
  <2> QED
    BY <2>1 DEF Allowed, Justified
<1>4. fr \in Seq(Justified')
  <2>1. \A i \in 1 .. Len(fr) : fr[i] \in Allowed(d, s, faults')
    BY <1>2
  <2> QED
    BY <1>2, <1>3, <2>1, SeqGrows
<1>5. \A u \in Workers : wire[u] \in Seq(Justified')
  BY <1>1, ExcuseLasts DEF LastResortInv
<1>6. \A u \in Workers : wire'[u] \in Seq(Justified')
  <2>1. wire[w] \o fr \in Seq(Justified')
    BY <1>4, <1>5, SeqJoins
  <2> QED
    BY <1>2, <1>5, <2>1 DEF Write, TypeOK
<1> QED
  BY <1>1, <1>6, LastResortKept DEF NoMore

\* The broker delivers, and reads a frame.
LEMMA BrokerLastResort ==
    ASSUME IInv, IInv', LastResortInv, NEW w \in Workers,
           Receive(w) \/ \E j \in Jobs : Deliver(w, j)
    PROVE  LastResortInv'
<1>0. TypeOK /\ TypeOK'
  BY DEF IInv
<1>1. ASSUME NEW j \in Jobs, Deliver(w, j) PROVE LastResortInv'
  <2>1. /\ deliveries' = [deliveries EXCEPT ![j] = @ + 1] /\ deliveries'[j] = deliveries[j] + 1
        /\ inbox' = [inbox EXCEPT ![w] = @ \cup {[job |-> j, tag |-> deliveries[j] + 1]}]
        /\ UNCHANGED <<deadLetters, wire, current, pending, pool, faults>>
    BY <1>0, <1>1 DEF Deliver, workerVars, bounds, TypeOK
  <2>2. Counted
    BY <1>0, <2>1 DEF Counted, TypeOK
  <2>3. \A u \in Workers : \A d \in Pulled(u)' : d \in Pulled(u) \/ d.tag <= deliveries'[d.job]
    <3>1. \A u \in Workers : Pulled(u)' \subseteq
              Pulled(u) \cup {[job |-> j, tag |-> deliveries[j] + 1]}
      BY <1>0, <2>1 DEF Pulled, TypeOK
    <3>2. deliveries[j] + 1 <= deliveries'[j]
      BY <1>0, <2>1 DEF TypeOK
    <3> QED
      BY <3>1, <3>2
  <2>4. \A u \in Workers : Broken(u)' => Broken(u)
    BY <2>1 DEF Broken
  <2> QED
    BY <1>0, <2>1, <2>2, <2>3, <2>4, LastResortKept DEF LastResortInv
<1>2. CASE Receive(w)
  <2> DEFINE f == Head(wire[w])
  <2>1. /\ wire[w] # <<>> /\ wire[w] \in Seq(Justified) /\ wire' = [wire EXCEPT ![w] = Tail(@)]
        /\ Routed(f)
        /\ UNCHANGED <<deliveries, inbox, current, pending, pool, faults>>
    BY <1>2 DEF Receive, workerVars, bounds, LastResortInv
  <2>2. f \in Justified /\ Tail(wire[w]) \in Seq(Justified)
    BY <2>1, SeqRest
  <2>3. deadLetters' = IF f.op = "dlq" THEN deadLetters \cup {f.job} ELSE deadLetters
    BY <2>1 DEF Routed
  <2> HIDE DEF f
  <2>4. Excused' = Excused
    BY <2>1 DEF Excused
  <2>5. deadLetters' \subseteq deadLetters \cup Excused'
    BY <2>2, <2>3, <2>4 DEF Justified
  <2>6. Counted
    BY <1>0, <2>1 DEF Counted, TypeOK
  <2>7. \A u \in Workers : Pulled(u)' = Pulled(u) /\ (Broken(u)' => Broken(u))
    BY <2>1 DEF Pulled, Broken
  <2>8. \A u \in Workers : wire'[u] \in Seq(Justified)
    BY <1>0, <2>1, <2>2 DEF TypeOK, LastResortInv
  <2> QED
    BY <1>0, <2>5, <2>6, <2>7, <2>8, LastResortKept
<1> QED
  BY <1>1, <1>2

\* Nothing has happened in the initial states.
LEMMA LastResortInit == Init => LastResortInv
<1>1. <<>> \in Seq(Justified)
  OBVIOUS
<1> QED
  BY <1>1 DEF Init, LastResortInv, Pulled, Broken

\* Every step keeps the invariant.
LEMMA LastResortStep ==
    ASSUME IInv, IInv', LastResortInv, [Next]_vars
    PROVE  LastResortInv'
<1>0. TypeOK /\ TypeOK' /\ ScheduledIsDone /\ \A w \in Workers : Broken(w) => faults > 0
  BY DEF IInv, LastResortInv
<1>1. ASSUME NEW w \in Workers,
             \/ \E d \in inbox[w] :
                    OnExtractionMessage(w, d) \/ AnnounceFails(w, d) \/ SubmitFails(w, d)
             \/ \E v \in Verdicts : InlineFinishes(w, v)
             \/ \E e \in pending[w] : FinishFuture(w, e) \/ DrainFinishes(w, e)
      PROVE  LastResortInv'
  <2>1. PICK d \in Held(w) : Shaped(w, d)
    BY <1>0, <1>1, CallbackEffect
  <2>2. /\ UNCHANGED <<deliveries, deadLetters>> /\ faults' >= faults
        /\ \A u \in Workers : NoMore(u)
    BY <1>0, <1>1, CallbackEffect DEF brokerVars
  <2>3. d \in Pulled(w)
    BY DEF Held, Pulled
  <2> QED
    BY <1>0, <2>1, <2>2, <2>3, LastResortCallback
<1>2. ASSUME NEW w \in Workers, Receive(w) \/ \E j \in Jobs : Deliver(w, j) PROVE LastResortInv'
  BY <1>2, BrokerLastResort
<1>3. ASSUME NEW w \in Workers, Loses(w) PROVE LastResortInv'
  BY <1>0, <1>3, LossEffect, LastResortQuiet
<1>4. ASSUME NEW w \in Workers, Pool(w) PROVE LastResortInv'
  BY <1>0, <1>4, PoolEffect, LastResortQuiet DEF brokerVars, linkVars
<1>5. ASSUME NEW w \in Workers, PoolBreaks(w) PROVE LastResortInv'
  <2>1. /\ UNCHANGED <<deliveries, deadLetters, wire>> /\ faults' = faults + 1
        /\ \A u \in Workers : Pulled(u)' \subseteq Pulled(u)
    BY <1>0, <1>5, BreakEffect DEF brokerVars, linkVars
  <2>2. Counted /\ faults' > 0
    BY <1>0, <2>1 DEF Counted, TypeOK
  <2> QED
    BY <1>0, <2>1, <2>2, LastResortKept DEF LastResortInv
<1>6. CASE UNCHANGED vars
  <2>1. UNCHANGED <<deliveries, faults, deadLetters, wire, inbox, current, pending, pool>>
    BY <1>6 DEF vars, brokerVars, linkVars, workerVars, bounds
  <2>2. \A u \in Workers : NoMore(u)
    BY <2>1 DEF NoMore, Pulled, Held, Broken
  <2> QED
    BY <1>0, <2>1, <2>2, LastResortQuiet
<1> QED
  BY <1>1, <1>2, <1>3, <1>4, <1>5, <1>6 DEF Next, EventLoop, Loses

\* Crashes, lost connections and signals alone never dead-letter a job: it takes an
\* exception on an open channel, and a message that had been delivered before
\* (_handle_processing_exception).
THEOREM LastResort == Spec => []DeadLetterIsLastResort
<1>1. IInv /\ LastResortInv => DeadLetterIsLastResort
  BY DEF IInv, TypeOK, LastResortInv, Excused, DeadLetterIsLastResort
<1>2. Init => IInv /\ LastResortInv
  BY InitInv, LastResortInit
<1>3. IInv /\ LastResortInv /\ [Next]_vars => IInv' /\ LastResortInv'
  BY NextInv, LastResortStep
<1> QED
  BY <1>1, <1>2, <1>3, PTL DEF Spec
-----------------------------------------------------------------------------
(* The history.                                                             *)

\* The replica w finished the job j, and nothing it still holds could say otherwise.
Finished(w, j) == row[w][j] \in Verdicts /\ \A d \in Held(w) : d.job # j

\* On a working connection the history is written before the ack.
AcksRecorded(w) ==
    \A i \in 1 .. Len(wire[w]) : wire[w][i].op = "ack" => row[w][wire[w][i].job] \in Verdicts

HistoryInv ==
    /\ \A w \in Workers : link[w] = "up" => AcksRecorded(w)
    /\ \A j \in Jobs : at[j] = "settled" => \E w \in Workers : Finished(w, j)

\* A step that settles and records nothing.
LEMMA HistoryQuiet ==
    ASSUME HistoryInv, row' = row,
           \A j \in Jobs : at'[j] = "settled" => at[j] = "settled",
           \A u \in Workers : Held(u)' \subseteq Held(u),
           \A u \in Workers : link'[u] = "up" =>
               \/ link[u] = "up" /\ wire'[u] = wire[u]
               \/ wire'[u] = <<>>
    PROVE  HistoryInv'
<1>1. \A u \in Workers : link'[u] = "up" => AcksRecorded(u)'
  <2>1. Len(<<>>) = 0
    OBVIOUS
  <2> QED
    BY <2>1 DEF HistoryInv, AcksRecorded
<1>2. \A u \in Workers, j \in Jobs : Finished(u, j) => Finished(u, j)'
  BY DEF Finished
<1> QED
  BY <1>1, <1>2 DEF HistoryInv

\* A callback rewrites the status of a job whose ack is not on the wire, and of none
\* that is settled there.
LEMMA HistoryCallback ==
    ASSUME OInv, HistoryInv, NEW w \in Workers, NEW d \in Held(w), Shaped(w, d),
           UNCHANGED <<at, link>>, \A u \in Workers : Held(u)' \subseteq Held(u)
    PROVE  HistoryInv'
<1>0. TypeOK /\ (link[w] = "up" => Agreed(w))
  BY Known
<1>1. PICK fr, s : /\ fr \in Seq(Allowed(d, s, faults'))
                   /\ wire' = [wire EXCEPT ![w] = @ \o fr]
                   /\ row' = [row EXCEPT ![w][d.job] = s]
  BY DEF Shaped, Write, Record
<1>2. /\ \A j : j # d.job => row'[w][j] = row[w][j]
      /\ d.job \in Jobs => row'[w][d.job] = s
      /\ \A u \in Workers \ {w} : row'[u] = row[u] /\ wire'[u] = wire[u]
      /\ wire'[w] = wire[w] \o fr
  BY <1>0, <1>1 DEF TypeOK
<1>3. ASSUME link[w] = "up" PROVE AcksRecorded(w)'
  <2> DEFINE old == wire[w]
             new == wire'[w]
  <2>1. /\ d \in Deliveries /\ d.job \in Jobs
        /\ \A i \in 1 .. Len(old) : old[i].job = d.job => ~Settles(old[i])
    BY <1>0, <1>3, OneDeliveryPerJob, OfJobs DEF Agreed, HeldIsOutstanding
  <2>2. /\ \A f \in Allowed(d, s, faults') : f \in Frames /\ f.job = d.job
        /\ \A f \in Allowed(d, s, faults') : f.op = "ack" => s \in Verdicts
        /\ \A i \in 1 .. Len(fr) : fr[i] \in Allowed(d, s, faults')
    BY <1>1 DEF Allowed
  <2>3. fr \in Seq(Frames)
    BY <1>1, <2>2, SeqGrows
  <2>4. /\ Len(new) = Len(old) + Len(fr) /\ Len(old) \in Nat /\ Len(fr) \in Nat
        /\ \A i \in 1 .. Len(old) : new[i] = old[i]
        /\ \A i \in 1 .. Len(fr) : new[Len(old) + i] = fr[i]
    <3>1. old \in Seq(Frames) /\ new = old \o fr
      BY <1>0, <1>2, OfJobs
    <3> HIDE DEF old, new
    <3> QED
      BY <2>3, <3>1, Concatenated
  <2>5. \A i \in 1 .. Len(old) : old[i].op = "ack" => row[w][old[i].job] \in Verdicts
    BY <1>3 DEF HistoryInv, AcksRecorded
  <2> HIDE DEF old, new
  <2>6. ASSUME NEW i \in 1 .. Len(new), new[i].op = "ack" PROVE row'[w][new[i].job] \in Verdicts
    <3>1. CASE i <= Len(old)
      <4>1. i \in 1 .. Len(old) /\ new[i] = old[i]
        BY <2>4, <3>1
      <4>2. old[i].job # d.job
        BY <2>1, <2>6, <4>1 DEF Settles
      <4> QED
        BY <1>2, <2>5, <2>6, <4>1, <4>2
    <3>2. CASE i > Len(old)
      <4> DEFINE m == i - Len(old)
      <4>1. m \in 1 .. Len(fr) /\ Len(old) + m = i
        BY <2>4, <3>2
      <4>2. new[i] = fr[m]
        BY <2>4, <4>1
      <4> HIDE DEF m
      <4> QED
        BY <1>2, <2>1, <2>2, <2>6, <4>1, <4>2
    <3> QED
      BY <2>4, <3>1, <3>2
  <2> QED
    BY <2>6 DEF AcksRecorded, new
<1>4. ASSUME NEW u \in Workers, link'[u] = "up" PROVE AcksRecorded(u)'
  <2>1. CASE u = w
    BY <1>3, <1>4, <2>1
  <2>2. CASE u # w
    BY <1>2, <1>4, <2>2 DEF HistoryInv, AcksRecorded
  <2> QED
    BY <2>1, <2>2
<1>5. ASSUME NEW u \in Workers, NEW j \in Jobs, Finished(u, j) PROVE Finished(u, j)'
  <2>1. row'[u][j] = row[u][j]
    BY <1>2, <1>5 DEF Finished
  <2> QED
    BY <1>5, <2>1 DEF Finished
<1> QED
  BY <1>4, <1>5 DEF HistoryInv

\* The broker reads an ack: its job is finished where it comes from.
LEMMA HistoryReceive ==
    ASSUME OInv, HistoryInv, NEW w \in Workers, Receive(w)
    PROVE  HistoryInv'
<1> DEFINE f == Head(wire[w])
<1>1. /\ TypeOK /\ Agreed(w) /\ link[w] = "up" /\ wire[w] \in Seq(Frames) /\ wire[w] # <<>>
      /\ Routed(f) /\ wire' = [wire EXCEPT ![w] = Tail(@)]
      /\ UNCHANGED <<link, inbox, current, pending, row>>
  BY Known, OfJobs DEF Receive, workerVars
<1>2. f \in Frames /\ f = wire[w][1] /\ 1 \in 1 .. Len(wire[w]) /\ f.job \in Jobs
  <2> DEFINE s == wire[w]
  <2>1. s \in Seq(Frames) /\ s # <<>>
    BY <1>1
  <2> HIDE DEF s
  <2>2. Head(s) \in Frames /\ Head(s) = s[1] /\ 1 \in 1 .. Len(s)
    BY <2>1
  <2>3. \A g \in Frames : g.job \in Jobs
    BY DEF Frames
  <2> QED
    BY <2>2, <2>3 DEF s
<1>3. f.op = "ack" => Finished(w, f.job)
  BY <1>1, <1>2 DEF HistoryInv, AcksRecorded, Agreed, HeldIsOutstanding, Settles, Finished
<1>4. \A j \in Jobs : at'[j] = "settled" => at[j] = "settled" \/ (f.op = "ack" /\ j = f.job)
  BY <1>1, <1>2 DEF Routed, TypeOK
<1>5. \A u \in Workers : Held(u)' = Held(u) /\ \A j \in Jobs : Finished(u, j)' = Finished(u, j)
  BY <1>1 DEF Held, Finished
<1>6. AcksRecorded(w)'
  <2> DEFINE old == wire[w]
             new == Tail(old)
  <2>1. /\ Len(new) = Len(old) - 1 /\ Len(old) \in Nat
        /\ \A i \in 1 .. Len(new) : new[i] = old[i + 1]
    BY <1>1
  <2>2. wire'[w] = new
    BY <1>1 DEF TypeOK
  <2>3. \A i \in 1 .. Len(old) : old[i].op = "ack" => row[w][old[i].job] \in Verdicts
    BY <1>1 DEF HistoryInv, AcksRecorded
  <2> HIDE DEF old, new
  <2>4. ASSUME NEW i \in 1 .. Len(new) PROVE i + 1 \in 1 .. Len(old)
    BY <2>1
  <2>5. \A i \in 1 .. Len(new) : new[i].op = "ack" => row[w][new[i].job] \in Verdicts
    BY <2>1, <2>3, <2>4
  <2> QED
    BY <1>1, <2>2, <2>5 DEF AcksRecorded
<1>7. \A u \in Workers : link'[u] = "up" => AcksRecorded(u)'
  BY <1>1, <1>6 DEF HistoryInv, AcksRecorded, TypeOK
<1> HIDE DEF f
<1>8. ASSUME NEW j \in Jobs, at'[j] = "settled" PROVE \E u \in Workers : Finished(u, j)'
  <2>1. \E u \in Workers : Finished(u, j)
    BY <1>3, <1>4, <1>8 DEF HistoryInv
  <2> QED
    BY <1>5, <2>1
<1> QED
  BY <1>7, <1>8 DEF HistoryInv

\* A delivery is of a job that is not settled.
LEMMA HistoryDeliver ==
    ASSUME OInv, HistoryInv, NEW w \in Workers, NEW j \in Jobs, Deliver(w, j)
    PROVE  HistoryInv'
<1>1. /\ TypeOK /\ w # "settled" /\ at[j] = "ready" /\ at' = [at EXCEPT ![j] = w]
      /\ inbox' = [inbox EXCEPT ![w] = @ \cup {[job |-> j, tag |-> deliveries[j] + 1]}]
      /\ UNCHANGED <<link, wire, current, pending, row>>
  BY Known DEF Deliver, workerVars
<1>2. \A u \in Workers : \A d \in Held(u)' : d \in Held(u) \/ d.job = j
  BY <1>1 DEF Held, TypeOK
<1>3. \A i \in Jobs : at'[i] = "settled" => at[i] = "settled" /\ i # j
  BY <1>1 DEF TypeOK
<1>4. \A u \in Workers, i \in Jobs : i # j /\ Finished(u, i) => Finished(u, i)'
  BY <1>1, <1>2 DEF Finished
<1>5. \A u \in Workers : link'[u] = "up" => AcksRecorded(u)'
  BY <1>1 DEF HistoryInv, AcksRecorded
<1> QED
  BY <1>3, <1>4, <1>5 DEF HistoryInv

\* Connections come and go, replicas stop and die: nothing settled is taken back.
LEMMA HistoryLoss ==
    ASSUME OInv, HistoryInv, NEW w \in Workers, Loses(w)
    PROVE  HistoryInv'
<1>0. TypeOK /\ w # "settled" /\ Sound(w)
  BY Known
<1>1. row' = row /\ \A u \in Workers : Held(u)' \subseteq Held(u)
  BY <1>0, LossEffect DEF NoMore
<1>2. \A j \in Jobs : at'[j] = "settled" => at[j] = "settled"
  <2>1. CASE Signal(w)
    BY <2>1 DEF Signal
  <2>2. CASE ~Signal(w)
    <3>1. at' = at \/ at' = Requeued(w, {})
      BY <2>2 DEF Loses, Drop, Connect, LoopRaises, InlineRaises, DrainEnds, CloseConnection, Crash,
                  DrainAborts, ProcessGone, brokerVars
    <3> QED
      BY <3>1 DEF Requeued
  <2> QED
    BY <2>1, <2>2
<1>3. ASSUME NEW u \in Workers, link'[u] = "up"
      PROVE  (link[u] = "up" /\ wire'[u] = wire[u]) \/ wire'[u] = <<>>
  <2>1. CASE Connect(w)
    BY <1>0, <1>3, <2>1 DEF Connect, TypeOK, Sound, Lost
  <2>2. CASE ~Connect(w)
    <3>1. \/ link' = link
          \/ \E s \in {"down", "half"} : link' = [link EXCEPT ![w] = s]
      BY <2>2 DEF Loses, Drop, LoopRaises, InlineRaises, Signal, DrainEnds, CloseConnection, Crash,
                  DrainAborts, ProcessGone, LinkLost, linkVars
    <3>2. link[u] = "up"
      BY <1>0, <1>3, <3>1 DEF TypeOK
    <3> QED
      BY <1>0, <3>2, LossEffect
  <2> QED
    BY <2>1, <2>2
<1> QED
  BY <1>1, <1>2, <1>3, HistoryQuiet

\* Every step keeps the invariant.
LEMMA HistoryStep ==
    ASSUME OInv, OInv', LastResortInv, HistoryInv, [Next]_vars
    PROVE  HistoryInv'
<1>0. TypeOK /\ ScheduledIsDone /\ \A w \in Workers : Broken(w) => faults > 0
  BY DEF OInv, IInv, LastResortInv
<1>1. ASSUME NEW w \in Workers,
             \/ \E d \in inbox[w] :
                    OnExtractionMessage(w, d) \/ AnnounceFails(w, d) \/ SubmitFails(w, d)
             \/ \E v \in Verdicts : InlineFinishes(w, v)
             \/ \E e \in pending[w] : FinishFuture(w, e) \/ DrainFinishes(w, e)
      PROVE  HistoryInv'
  <2>1. PICK d \in Held(w) : Shaped(w, d)
    BY <1>0, <1>1, CallbackEffect
  <2>2. UNCHANGED <<at, link>> /\ \A u \in Workers : Held(u)' \subseteq Held(u)
    BY <1>0, <1>1, CallbackEffect DEF brokerVars, NoMore
  <2> QED
    BY <2>1, <2>2, HistoryCallback
<1>2. ASSUME NEW w \in Workers, NEW j \in Jobs, Deliver(w, j) PROVE HistoryInv'
  BY <1>2, HistoryDeliver
<1>3. ASSUME NEW w \in Workers, Receive(w) PROVE HistoryInv'
  BY <1>3, HistoryReceive
<1>4. ASSUME NEW w \in Workers, Loses(w) PROVE HistoryInv'
  BY <1>4, HistoryLoss
<1>5. ASSUME NEW w \in Workers, Pool(w) \/ PoolBreaks(w) PROVE HistoryInv'
  <2>1. /\ UNCHANGED <<at, link, wire, row>> /\ \A u \in Workers : Held(u)' \subseteq Held(u)
    BY <1>0, <1>5, PoolEffect, BreakEffect DEF brokerVars, linkVars, NoMore
  <2> QED
    BY <2>1, HistoryQuiet
<1>6. CASE UNCHANGED vars
  <2>1. UNCHANGED <<at, link, wire, inbox, current, pending, row>>
    BY <1>6 DEF vars, brokerVars, linkVars, workerVars
  <2>2. \A u \in Workers : Held(u)' = Held(u)
    BY <2>1 DEF Held
  <2> QED
    BY <2>1, <2>2, HistoryQuiet
<1> QED
  BY <1>1, <1>2, <1>3, <1>4, <1>5, <1>6 DEF Next, EventLoop, Loses

\* Nothing is settled in the initial states.
LEMMA HistoryInit == Init => HistoryInv
<1> SUFFICES ASSUME Init PROVE HistoryInv
  OBVIOUS
<1>1. \A w \in Workers : link[w] = "down"
  BY DEF Init
<1>2. \A j \in Jobs : at[j] = "ready"
  BY DEF Init
<1> QED
  BY <1>1, <1>2 DEF HistoryInv

\* Once a job is settled, the history of some replica shows it as finished: a stale
\* execution on another connection never hides that (_complete_delivery and
\* _handle_processing_exception record before they acknowledge).
THEOREM SettledHasRow == Spec => []SettledJobHasTerminalRow
<1> DEFINE Inv == OInv /\ LastResortInv /\ HistoryInv
<1>1. Inv => SettledJobHasTerminalRow
  BY DEF HistoryInv, Finished, SettledJobHasTerminalRow
<1>2. Init => Inv
  BY OwnershipInit, LastResortInit, HistoryInit
<1>3. Inv /\ [Next]_vars => Inv'
  <2>1. OInv => IInv
    BY DEF OInv
  <2>2. OInv' => IInv'
    BY DEF OInv
  <2> QED
    BY <2>1, <2>2, OwnershipStep, LastResortStep, HistoryStep
<1> HIDE DEF Inv
<1> QED
  BY <1>1, <1>2, <1>3, PTL DEF Spec
=============================================================================
