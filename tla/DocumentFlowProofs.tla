------------------------- MODULE DocumentFlowProofs -------------------------
(***************************************************************************)
(* Proofs about DocumentFlow for every set of documents and replicas,      *)
(* every batch size and every number of faults.                            *)
(*                                                                         *)
(* InputOutlivesQueuedJob needs InputInv: which uploads have their input   *)
(* in storage, and that a message of an extraction exists only behind      *)
(* PublishUpload or PublishUploadRaises, also when its delivery is stale   *)
(* (DeliveredInv).  OkResultIsServed needs WrittenInv: what an execution   *)
(* has written before it answers ok.  Both rest on Good being stable: once *)
(* a file has been whole, only an open copy or an interrupted one, which   *)
(* leaves it in `damaged', can make it anything else.                      *)
(*                                                                         *)
(* EqualCountsAreAligned needs TaskInv: the vectors of an execution are    *)
(* those of texts it has sent, in their order, and so are those of an      *)
(* artifact.  TypeOK needs BrokerInv, which bounds the deliveries of a job *)
(* by the faults so far, and SettledLlmJobIsRecorded LogInv: what comes    *)
(* behind the last verdict on a settled job is not about that job.         *)
(***************************************************************************)
EXTENDS DocumentFlow, SelectionProofs, FiniteSetTheorems

Good(f) == disk[f] = "whole" \/ Writers(f) # {} \/ f \in damaged

\* The files that the result of job j names.
FilesOf(j) == IF j[2] = 0 THEN {<<"markdown", j[1]>>, <<"chunks", j[1]>>}
                          ELSE {<<"embeddings", j[1]>>}

\* The files that the execution t has written so far.
WrittenBy(t) == IF t.step = "chunks" THEN {<<"markdown", t.job[1]>>}
                ELSE IF t.step = "answer" /\ t.verdict = "ok" THEN FilesOf(t.job)
                ELSE {}

TaskOK(t) ==
    /\ DOMAIN t = {"job", "step", "open", "verdict", "sent", "vectors"}
    /\ t.job \in Jobs \cup {None}
    /\ t.step # "idle" => t.job \in Jobs
    /\ t.open => t.step \in Artifacts
    /\ t.step \in {"convert", "markdown", "chunks"} => t.job[2] = 0
    /\ t.step \in {"load", "embed", "embeddings"} => t.job[2] # 0

Shape ==
    /\ DOMAIN upload = Docs /\ DOMAIN disk = Files /\ DOMAIN at = Jobs
    /\ DOMAIN answers = Jobs /\ DOMAIN task = Workers
    /\ \A w \in Workers : TaskOK(task[w])
    /\ inputless \subseteq Docs

InputInv ==
    \A d \in Docs :
        /\ upload[d] \in {"stored", "queued", "unqueued"} => disk[<<"input", d>>] = "whole"
        /\ at[ExtractJob(d)] # "none" =>
              /\ upload[d] \in {"queued", "unqueued", "error", "aborted"}
              /\ upload[d] = "aborted" => disk[<<"input", d>>] = "whole"

DeliveredInv ==
    \A w \in Workers : \A d \in Docs :
        task[w].job = ExtractJob(d) => at[ExtractJob(d)] # "none"

WrittenInv == \A w \in Workers : \A f \in WrittenBy(task[w]) : Good(f)

ServedInv == \A j \in Jobs : "ok" \in answers[j] => \A f \in FilesOf(j) : Good(f)

IInv == /\ Shape /\ InputInv /\ DeliveredInv /\ InputOutlivesQueuedJob
        /\ WrittenInv /\ ServedInv

\* What a step must keep of files and of messages.
GoodKept == \A f \in Files : Good(f) => Good(f)'

AtKept ==
    /\ DOMAIN at' = Jobs
    /\ \A d \in Docs : at'[ExtractJob(d)] = "none" <=> at[ExtractJob(d)] = "none"

InputsKept ==
    /\ UNCHANGED upload
    /\ DOMAIN disk' = Files
    /\ \A d \in Docs : disk'[<<"input", d>>] = disk[<<"input", d>>]
-----------------------------------------------------------------------------
\* Which jobs and which files there are.
LEMMA JobsFiles ==
    /\ \A d \in Docs : ExtractJob(d) \in Jobs /\ ExtractJob(d)[1] = d /\ ExtractJob(d)[2] = 0
                       /\ ExtractJob(d) \notin LlmJobs
    /\ \A j \in Jobs : j[1] \in Docs /\ (j[2] = 0 => j = ExtractJob(j[1])) /\ FilesOf(j) \subseteq Files
    /\ \A d \in Docs, a \in Artifacts : <<a, d>> \in Files /\ <<a, d>> # <<"input", d>>
    /\ \A d \in Docs : <<"input", d>> \in Files
    /\ \A w \in Workers : w \notin {"none", "ready", "settled"}
<1>1. 0 \in 0 .. MaxFaults + 1
  BY FlowAssumption
<1>2. \A w \in Workers : w \notin {"none", "ready", "settled"}
  BY FlowAssumption DEF Workers
<1>3. \A d \in Docs : ExtractJob(d) \in Jobs /\ ExtractJob(d)[1] = d /\ ExtractJob(d)[2] = 0
  BY <1>1 DEF ExtractJob, Jobs
<1>4. \A j \in Jobs : j[1] \in Docs /\ (j[2] = 0 => j = ExtractJob(j[1])) /\ FilesOf(j) \subseteq Files
  BY DEF ExtractJob, Jobs, FilesOf, Files, Artifacts
<1> QED
  BY <1>2, <1>3, <1>4 DEF LlmJobs, Files, Artifacts

\* An execution writes files of shared storage.
LEMMA WrittenAreFiles == ASSUME NEW t, TaskOK(t) PROVE WrittenBy(t) \subseteq Files
<1>1. t.step # "idle" => FilesOf(t.job) \subseteq Files /\ <<"markdown", t.job[1]>> \in Files
  BY JobsFiles DEF TaskOK, Artifacts
<1>2. "chunks" # "idle" /\ "answer" # "idle"
  OBVIOUS
<1> QED
  BY <1>1, <1>2 DEF WrittenBy

\* IInv holds at the start.
LEMMA InitInv == Init => IInv
<1> SUFFICES ASSUME Init PROVE IInv
  OBVIOUS
<1>1. TaskOK(Idle) /\ WrittenBy(Idle) = {} /\ Idle.job = None
  BY DEF TaskOK, Idle, WrittenBy
<1>2. Shape
  BY <1>1 DEF Init, Shape
<1>3. \A d \in Docs : upload[d] = "none" /\ at[ExtractJob(d)] = "none"
  BY JobsFiles DEF Init
<1>4. \A w \in Workers, d \in Docs : task[w].job # ExtractJob(d)
  BY <1>1, JobsFiles, FlowAssumption DEF Init, Jobs
<1> QED
  BY <1>1, <1>2, <1>3, <1>4 DEF Init, IInv, InputInv, DeliveredInv, InputOutlivesQueuedJob, WrittenInv,
     ServedInv
-----------------------------------------------------------------------------
(* Good is stable.                                                          *)

\* A worker that has no file open changes what it does.
LEMMA ClosedKeeps ==
    ASSUME Shape, NEW w \in Workers, NEW t, ~task[w].open,
           task' = [task EXCEPT ![w] = t], UNCHANGED disk, damaged \subseteq damaged'
    PROVE  GoodKept
<1>1. \A v \in Workers, f \in Files : task[v].open /\ File(v) = f => task'[v].open /\ File(v)' = f
  BY DEF Shape, File
<1> QED
  BY <1>1 DEF GoodKept, Good, Writers

\* A worker leaves off, and leaves a file torn that it had open.
LEMMA DamageKeeps ==
    ASSUME Shape, NEW w \in Workers, NEW t,
           task' = [task EXCEPT ![w] = t], UNCHANGED disk, Damage(w)
    PROVE  GoodKept
<1>1. \A v \in Workers, f \in Files :
         task[v].open /\ File(v) = f => (task'[v].open /\ File(v)' = f) \/ f \in damaged'
  BY DEF Shape, File, Damage
<1>2. damaged \subseteq damaged'
  BY DEF Damage
<1> QED
  BY <1>1, <1>2 DEF GoodKept, Good, Writers

\* A step in which one worker goes from task[w] to t keeps the invariant.
LEMMA WorkerStep ==
    ASSUME IInv, NEW w \in Workers, NEW t, task' = [task EXCEPT ![w] = t],
           TaskOK(t), \A d \in Docs : t.job = ExtractJob(d) => at[ExtractJob(d)] # "none",
           AtKept, InputsKept, GoodKept, \A f \in WrittenBy(t) : Good(f)',
           DOMAIN answers' = Jobs,
           \A j \in Jobs : "ok" \in answers'[j] =>
               "ok" \in answers[j] \/ \A f \in FilesOf(j) : Good(f)',
           \A d \in inputless' : d \in Docs /\ upload[d] = "error"
    PROVE  IInv'
<1>1. Shape'
  BY DEF IInv, Shape, AtKept, InputsKept
<1>2. InputInv'
  BY JobsFiles DEF IInv, InputInv, AtKept, InputsKept
<1>3. DeliveredInv'
  BY DEF IInv, Shape, DeliveredInv, AtKept
<1>4. InputOutlivesQueuedJob'
  BY DEF InputOutlivesQueuedJob, InputsKept
<1>5. WrittenInv'
  <2>1. \A v \in Workers : WrittenBy(task[v]) \subseteq Files
    BY WrittenAreFiles DEF IInv, Shape
  <2>2. \A v \in Workers \ {w} : task'[v] = task[v]
    BY DEF IInv, Shape
  <2>3. task'[w] = t
    BY DEF IInv, Shape
  <2>4. \A v \in Workers \ {w} : \A f \in WrittenBy(task'[v]) : Good(f)'
    BY <2>1, <2>2 DEF IInv, WrittenInv, GoodKept
  <2> QED
    BY <2>3, <2>4 DEF WrittenInv, WrittenBy
<1>6. ServedInv'
  BY JobsFiles DEF IInv, ServedInv, GoodKept
<1> QED
  BY <1>1, <1>2, <1>3, <1>4, <1>5, <1>6 DEF IInv

\* An action of worker w that leaves its files alone: it has none open, or a file
\* that it leaves open is damaged.
LEMMA WorkerKeepsFiles ==
    ASSUME IInv, NEW w \in Workers, NEW t, task' = [task EXCEPT ![w] = t], TaskOK(t),
           \A d \in Docs : t.job = ExtractJob(d) => at[ExtractJob(d)] # "none",
           AtKept, UNCHANGED <<upload, disk>>,
           (~task[w].open /\ UNCHANGED damaged) \/ Damage(w),
           WrittenBy(t) \subseteq WrittenBy(task[w]),
           DOMAIN answers' = Jobs,
           \A j \in Jobs : "ok" \in answers'[j] =>
               "ok" \in answers[j] \/ FilesOf(j) \subseteq WrittenBy(task[w]),
           \A d \in inputless' : d \in Docs /\ upload[d] = "error"
    PROVE  IInv'
<1>1. GoodKept
  BY ClosedKeeps, DamageKeeps DEF IInv
<1>2. \A f \in WrittenBy(task[w]) : Good(f)'
  BY <1>1, WrittenAreFiles DEF IInv, Shape, WrittenInv, GoodKept
<1>3. InputsKept
  BY DEF InputsKept, IInv, Shape
<1> QED
  BY <1>1, <1>2, <1>3, WorkerStep

\* A step that takes no message out of docrunr.jobs or puts one there for the
\* first time.
LEMMA AtMoves ==
    ASSUME Shape, NEW j \in Jobs, NEW s \in {"ready", "settled"} \cup Workers, at[j] # "none",
           at' = [at EXCEPT ![j] = s]
    PROVE  AtKept
BY JobsFiles DEF Shape, AtKept

\* Publishing a verdict moves the job and may queue its follow-up; nothing else moves.
LEMMA AtPublishes ==
    ASSUME Shape, NEW j \in Jobs, NEW s \in {"ready", "settled"}, NEW v, at[j] # "none",
           at' = Published([at EXCEPT ![j] = s], j, v)
    PROVE  AtKept
<1>1. \A k \in Jobs \ LlmJobs : k \notin FreshFollowUp(j[1])
  BY DEF FreshFollowUp
<1>2. DOMAIN at' = Jobs
  BY DEF Published, Shape
<1>3. \A d \in Docs : at'[ExtractJob(d)] = [at EXCEPT ![j] = s][ExtractJob(d)]
  BY <1>1, JobsFiles DEF Published
<1> QED
  BY <1>2, <1>3, JobsFiles DEF Shape, AtKept

\* What Idle, Begin and Fail leave a worker with.
LEMMA IdleOK ==
    TaskOK(Idle) /\ WrittenBy(Idle) = {} /\ \A d \in Docs : Idle.job # ExtractJob(d)
<1>1. TaskOK(Idle) /\ WrittenBy(Idle) = {}
  BY DEF TaskOK, Idle, WrittenBy
<1>2. \A d \in Docs : Idle.job # ExtractJob(d)
  BY JobsFiles, FlowAssumption DEF Idle, Jobs
<1> QED
  BY <1>1, <1>2

\* A task that begins a step is well formed.
LEMMA BeginOK ==
    ASSUME NEW j \in Jobs, NEW s,
           s \in {"convert", "markdown", "chunks"} => j[2] = 0,
           s \in {"load", "embed", "embeddings"} => j[2] # 0
    PROVE  /\ TaskOK(Begin(j, s))
           /\ Begin(j, s).job = j /\ Begin(j, s).step = s /\ Begin(j, s).verdict = "ok"
BY DEF Begin, Idle, TaskOK

\* So is a task that has failed and is about to answer.
LEMMA FailOK ==
    ASSUME NEW j \in Jobs, NEW t, t = [Begin(j, "answer") EXCEPT !.verdict = "error"]
    PROVE  TaskOK(t) /\ WrittenBy(t) = {} /\ t.job = j
BY DEF Begin, Idle, TaskOK, WrittenBy
-----------------------------------------------------------------------------
(* The steps of the workers.                                                *)

\* A worker takes a delivery: nothing is written and the job stays in the broker.
LEMMA TakeInv ==
    ASSUME IInv, NEW w \in Workers, NEW j \in Jobs, NEW s, Take(w, j, s),
           (s = "convert" /\ j[2] = 0) \/ (s = "load" /\ j[2] # 0)
    PROVE  IInv'
<1>1. TaskOK(Begin(j, s)) /\ Begin(j, s).job = j /\ WrittenBy(Begin(j, s)) = {}
  BY BeginOK DEF WrittenBy
<1>2. AtKept
  BY JobsFiles DEF IInv, Shape, AtKept, Take
<1>3. ~task[w].open
  BY DEF Take, Idle
<1>4. task' = [task EXCEPT ![w] = Begin(j, s)] /\ UNCHANGED <<upload, disk, damaged, answers, inputless>>
  BY DEF Take, diskVars
<1>5. \A d \in Docs : j = ExtractJob(d) => at[ExtractJob(d)] # "none"
  BY DEF Take
<1> QED
  BY <1>1, <1>2, <1>3, <1>4, <1>5, WorkerKeepsFiles DEF IInv, Shape, InputOutlivesQueuedJob

\* A task that fails leaves its files as they are, or damages the one it has open.
LEMMA FailInv ==
    ASSUME IInv, NEW w \in Workers, task[w].job \in Jobs, Fail(w),
           UNCHANGED <<upload, disk, at, answers>>,
           (~task[w].open /\ UNCHANGED damaged) \/ Damage(w),
           \A d \in inputless' : d \in Docs /\ upload[d] = "error"
    PROVE  IInv'
<1> DEFINE t == [Begin(task[w].job, "answer") EXCEPT !.verdict = "error"]
<1>1. TaskOK(t) /\ WrittenBy(t) = {} /\ t.job = task[w].job
  BY FailOK
<1>2. task' = [task EXCEPT ![w] = t]
  BY DEF Fail
<1>3. AtKept /\ DOMAIN answers' = Jobs
  BY DEF IInv, Shape, AtKept
<1>4. \A d \in Docs : t.job = ExtractJob(d) => at[ExtractJob(d)] # "none"
  BY <1>1 DEF IInv, DeliveredInv
<1> QED
  BY <1>1, <1>2, <1>3, <1>4, WorkerKeepsFiles

\* An execution answers, with or without a result for its job.
LEMMA AnswerInv ==
    ASSUME IInv, NEW w \in Workers, Answering(w), AtKept,
           UNCHANGED answers \/ Publish(task[w].job, task[w].verdict),
           UNCHANGED <<upload, disk, damaged, inputless>>
    PROVE  IInv'
<1>1. ~task[w].open /\ task[w].job \in Jobs
  BY DEF Answering, IInv, Shape, TaskOK, Artifacts
<1>2. \A j \in Jobs : "ok" \in answers'[j] =>
         "ok" \in answers[j] \/ FilesOf(j) \subseteq WrittenBy(task[w])
  BY <1>1 DEF Publish, IInv, Shape, Answering, WrittenBy
<1>3. DOMAIN answers' = Jobs
  BY DEF Publish, IInv, Shape
<1>4. task' = [task EXCEPT ![w] = Idle]
  BY DEF Answering
<1> QED
  BY <1>1, <1>2, <1>3, <1>4, IdleOK, WorkerKeepsFiles DEF IInv, Shape, InputOutlivesQueuedJob

\* Opening an artifact truncates it; this worker is now the one that rewrites it.
LEMMA OpenInv == ASSUME IInv, NEW w \in Workers, OpenArtifact(w) PROVE IInv'
<1> DEFINE t == [task[w] EXCEPT !.open = TRUE]
<1>1. task[w].job \in Jobs /\ task[w].job[1] \in Docs /\ task[w].step \in Artifacts
  BY JobsFiles DEF IInv, Shape, TaskOK, OpenArtifact, Artifacts
<1>2. PICK g \in Files : g = File(w) /\ \A d \in Docs : g # <<"input", d>>
  BY <1>1, JobsFiles DEF File, Artifacts
<1>3. TaskOK(t) /\ t.job = task[w].job /\ t.step = task[w].step /\ t.open
  BY DEF OpenArtifact, IInv, Shape, TaskOK
<1>4. task' = [task EXCEPT ![w] = t] /\ disk' = [disk EXCEPT ![g] = "torn"]
  BY <1>2 DEF OpenArtifact
<1>5. UNCHANGED <<upload, at, answers, damaged, inputless>>
  BY DEF OpenArtifact, UnchangedByWrite, brokerVars
<1>6. InputsKept /\ AtKept
  BY <1>2, <1>4, <1>5, JobsFiles DEF InputsKept, AtKept, IInv, Shape
<1>7. \A v \in Workers, f \in Files : v \in Writers(f) => v \in Writers(f)'
  BY <1>3, <1>4 DEF Writers, File, IInv, Shape
<1>8. w \in Writers(g)'
  BY <1>2, <1>3, <1>4 DEF Writers, File, IInv, Shape
<1>9. GoodKept
  <2> SUFFICES ASSUME NEW f \in Files, Good(f) PROVE Good(f)'
    BY DEF GoodKept
  <2>1. CASE f = g
    BY <2>1, <1>8 DEF Good
  <2>2. CASE f # g
    <3>1. disk'[f] = disk[f]
      BY <2>2, <1>4 DEF IInv, Shape
    <3>2. Writers(f) # {} => Writers(f)' # {}
      BY <1>7 DEF Writers
    <3> QED
      BY <3>1, <3>2, <1>5 DEF Good
  <2> QED
    BY <2>1, <2>2
<1>10. \A f \in WrittenBy(t) : Good(f)'
  <2>1. WrittenBy(t) \subseteq WrittenBy(task[w])
    BY <1>1, <1>3 DEF WrittenBy, Artifacts
  <2> QED
    BY <2>1, <1>9, WrittenAreFiles DEF IInv, WrittenInv, Shape, GoodKept
<1>11. /\ DOMAIN answers' = Jobs /\ answers' = answers
       /\ \A d \in Docs : t.job = ExtractJob(d) => at[ExtractJob(d)] # "none"
       /\ \A d \in inputless' : d \in Docs /\ upload[d] = "error"
  BY <1>3, <1>5 DEF IInv, Shape, DeliveredInv, InputOutlivesQueuedJob
<1> QED
  BY <1>3, <1>4, <1>6, <1>9, <1>10, <1>11, WorkerStep

\* Closing an artifact makes it whole unless another worker still has it open.
LEMMA CloseInv == ASSUME IInv, NEW w \in Workers, CloseArtifact(w) PROVE IInv'
<1> DEFINE t == Begin(task[w].job, StepAfter(task[w].step))
<1>1. task[w].job \in Jobs /\ task[w].job[1] \in Docs /\ task[w].step \in Artifacts
  BY JobsFiles DEF IInv, Shape, TaskOK, CloseArtifact, Artifacts
<1>2. PICK g \in Files : g = File(w) /\ \A d \in Docs : g # <<"input", d>>
  BY <1>1, JobsFiles DEF File, Artifacts
<1>3. TaskOK(t) /\ t.job = task[w].job /\ t.step = StepAfter(task[w].step) /\ t.verdict = "ok"
  BY <1>1, BeginOK DEF StepAfter, IInv, Shape, TaskOK
<1>4. /\ task' = [task EXCEPT ![w] = t]
      /\ disk' = [disk EXCEPT ![g] = IF Writers(g) = {w} THEN "whole" ELSE @]
  BY <1>2 DEF CloseArtifact
<1>5. UNCHANGED <<upload, at, answers, damaged, inputless>>
  BY DEF CloseArtifact, UnchangedByWrite, brokerVars
<1>6. InputsKept /\ AtKept
  BY <1>2, <1>4, <1>5, JobsFiles DEF InputsKept, AtKept, IInv, Shape
<1>7. \A v \in Workers \ {w}, f \in Files : v \in Writers(f) => v \in Writers(f)'
  BY <1>4 DEF Writers, File, IInv, Shape
<1>8. Good(g)'
  <2>1. CASE Writers(g) = {w}
    BY <2>1, <1>2, <1>4 DEF Good, IInv, Shape
  <2>2. CASE Writers(g) # {w}
    <3>1. w \in Writers(g)
      BY <1>2 DEF Writers, CloseArtifact
    <3>2. PICK v \in Workers \ {w} : v \in Writers(g)
      BY <2>2, <3>1 DEF Writers
    <3> QED
      BY <3>2, <1>2, <1>7 DEF Good
  <2> QED
    BY <2>1, <2>2
<1>9. GoodKept
  <2> SUFFICES ASSUME NEW f \in Files, f # g, Good(f) PROVE Good(f)'
    BY <1>8 DEF GoodKept
  <2>1. disk[f] = "whole" => disk'[f] = "whole"
    BY <1>2, <1>4 DEF IInv, Shape
  <2>2. w \notin Writers(f)
    BY <1>2 DEF Writers
  <2>3. Writers(f) \subseteq Writers(f)'
    BY <1>7, <2>2 DEF Writers
  <2> QED
    BY <2>1, <2>3, <1>5 DEF Good
<1>10. \A f \in WrittenBy(t) : Good(f)'
  <2>1. CASE task[w].step = "markdown"
    BY <2>1, <1>2, <1>3, <1>8 DEF WrittenBy, StepAfter, File
  <2>2. CASE task[w].step = "chunks"
    <3>1. <<"markdown", task[w].job[1]>> \in Files
      BY <1>1, JobsFiles DEF Artifacts
    <3>2. PICK m \in Files : m = <<"markdown", task[w].job[1]>>
      BY <3>1
    <3>4. Good(m)'
      BY <2>2, <3>2, <1>9 DEF IInv, WrittenInv, WrittenBy, GoodKept
    <3>3. task[w].job[2] = 0
      BY <2>2 DEF IInv, Shape, TaskOK
    <3> QED
      BY <2>2, <3>2, <3>3, <3>4, <1>2, <1>3, <1>8 DEF WrittenBy, FilesOf, StepAfter, File
  <2>3. CASE task[w].step = "embeddings"
    <3>1. task[w].job[2] # 0
      BY <2>3 DEF IInv, Shape, TaskOK
    <3> QED
      BY <2>3, <3>1, <1>2, <1>3, <1>8 DEF WrittenBy, FilesOf, StepAfter, File
  <2> QED
    BY <1>1, <2>1, <2>2, <2>3 DEF Artifacts
<1>11. /\ DOMAIN answers' = Jobs /\ answers' = answers
       /\ \A d \in Docs : t.job = ExtractJob(d) => at[ExtractJob(d)] # "none"
       /\ \A d \in inputless' : d \in Docs /\ upload[d] = "error"
  BY <1>3, <1>5 DEF IInv, Shape, DeliveredInv, InputOutlivesQueuedJob
<1> QED
  BY <1>3, <1>4, <1>6, <1>9, <1>10, <1>11, WorkerStep

\* A conversion reads the input, and only lacks it after a failed upload.
LEMMA ConvertInv == ASSUME IInv, NEW x \in Workers, Convert(x) PROVE IInv'
<1>1. /\ task[x].step = "convert" /\ ~task[x].open /\ task[x].job \in Jobs
      /\ task[x].job[1] \in Docs /\ task[x].job = ExtractJob(task[x].job[1])
  BY JobsFiles DEF Convert, IInv, Shape, TaskOK, Artifacts
<1>2. UNCHANGED <<upload, disk, damaged, at, answers>>
  BY DEF Convert, diskVars, brokerVars
<1>3. \A d \in inputless' : d \in Docs /\ upload[d] = "error"
  <2> DEFINE d == task[x].job[1]
  <2>1. at[ExtractJob(d)] # "none"
    BY <1>1 DEF IInv, DeliveredInv
  <2>2. disk[<<"input", d>>] = "absent" => upload[d] = "error"
    BY <1>1, <2>1 DEF IInv, InputInv
  <2>3. \/ inputless' = inputless
        \/ inputless' = inputless \cup {d} /\ disk[<<"input", d>>] = "absent"
    BY DEF Convert
  <2> QED
    BY <1>1, <2>2, <2>3 DEF IInv, Shape, InputOutlivesQueuedJob
<1>4. CASE Fail(x)
  BY <1>1, <1>2, <1>3, <1>4, FailInv
<1>5. CASE task' = [task EXCEPT ![x].step = "markdown"]
  <2> DEFINE t == [task[x] EXCEPT !.step = "markdown"]
  <2>1. TaskOK(t) /\ t.job = task[x].job /\ WrittenBy(t) = {}
    BY <1>1 DEF IInv, Shape, TaskOK, WrittenBy
  <2>2. task' = [task EXCEPT ![x] = t]
    BY <1>5
  <2>3. AtKept /\ DOMAIN answers' = Jobs
    BY <1>2 DEF IInv, Shape, AtKept
  <2>4. \A d \in Docs : t.job = ExtractJob(d) => at[ExtractJob(d)] # "none"
    BY <2>1 DEF IInv, DeliveredInv
  <2> QED
    BY <1>1, <1>2, <1>3, <2>1, <2>2, <2>3, <2>4, WorkerKeepsFiles
<1> QED
  BY <1>4, <1>5 DEF Convert

\* Loading and embedding write nothing.
LEMMA EmbeddingInv ==
    ASSUME IInv, NEW e \in Workers, LoadChunks(e) \/ EmbedBatch(e) \/ EmbedFails(e)
    PROVE  IInv'
<1>1. /\ task[e].step \in {"load", "embed"} /\ ~task[e].open /\ task[e].job \in Jobs
      /\ task[e].job[2] # 0
  BY DEF LoadChunks, EmbedBatch, EmbedFails, IInv, Shape, TaskOK, Artifacts
<1>2. UNCHANGED <<upload, disk, damaged, at, answers, inputless>>
  BY DEF LoadChunks, EmbedBatch, EmbedFails, UnchangedByEmbedding, diskVars, brokerVars
<1>3. \A d \in inputless' : d \in Docs /\ upload[d] = "error"
  BY <1>2 DEF IInv, Shape, InputOutlivesQueuedJob
<1>4. CASE Fail(e)
  BY <1>1, <1>2, <1>3, <1>4, FailInv
<1>5. ASSUME NEW t, task' = [task EXCEPT ![e] = t],
             DOMAIN t = DOMAIN task[e], t.job = task[e].job, t.open = task[e].open,
             t.step \in {"embed", "embeddings"}
      PROVE  IInv'
  <2>1. TaskOK(t) /\ WrittenBy(t) = {}
    BY <1>1, <1>5 DEF IInv, Shape, TaskOK, WrittenBy, Artifacts
  <2>2. AtKept /\ DOMAIN answers' = Jobs
    BY <1>2 DEF IInv, Shape, AtKept
  <2>3. \A d \in Docs : t.job = ExtractJob(d) => at[ExtractJob(d)] # "none"
    BY <1>5 DEF IInv, DeliveredInv
  <2> QED
    BY <1>1, <1>2, <1>3, <1>5, <2>1, <2>2, <2>3, WorkerKeepsFiles
<1>6. CASE task' = [task EXCEPT ![e].step = "embed"]
  <2> DEFINE t == [task[e] EXCEPT !.step = "embed"]
  <2>1. /\ task' = [task EXCEPT ![e] = t] /\ DOMAIN t = DOMAIN task[e] /\ t.job = task[e].job
        /\ t.open = task[e].open /\ t.step = "embed"
    BY <1>6 DEF IInv, Shape, TaskOK
  <2> QED
    BY <1>5, <2>1
<1>7. CASE EmbedBatch(e)
  <2> DEFINE end == task[e].sent + Len(Batch(Texts(e), task[e].sent))
             t(r) == [task[e] EXCEPT !.sent = end, !.vectors = Extend(@, r),
                                     !.step = IF end = Len(Texts(e)) THEN "embeddings" ELSE @]
  <2>1. PICK r : task' = [task EXCEPT ![e].sent = end, ![e].vectors = Extend(@, r),
                                      ![e].step = IF end = Len(Texts(e)) THEN "embeddings" ELSE @]
    BY <1>7 DEF EmbedBatch
  <2> HIDE DEF end
  <2>2. /\ task' = [task EXCEPT ![e] = t(r)] /\ DOMAIN t(r) = DOMAIN task[e]
        /\ t(r).job = task[e].job /\ t(r).open = task[e].open
        /\ t(r).step \in {"embed", "embeddings"}
    BY <2>1, <1>7 DEF IInv, Shape, TaskOK, EmbedBatch
  <2> QED
    BY <1>5, <2>2
<1> QED
  BY <1>4, <1>6, <1>7 DEF LoadChunks, EmbedFails

\* An answer is published for files the task has written, or for none.
LEMMA CompleteInv ==
    ASSUME IInv, NEW w \in Workers,
           \/ CompleteExtraction(w) \/ ExtractionAnswerFails(w) \/ StaleAnswer(w)
           \/ CompleteLlm(w) \/ LlmAnswerFails(w) \/ StaleLlmAnswer(w)
    PROVE  IInv'
<1> DEFINE j == task[w].job
           v == task[w].verdict
<1>1. /\ Answering(w)
      /\ UNCHANGED answers \/ Publish(j, v)
      /\ UNCHANGED <<upload, disk, damaged, inputless>>
  BY DEF CompleteExtraction, ExtractionAnswerFails, StaleAnswer, CompleteLlm, LlmAnswerFails,
         StaleLlmAnswer, UnchangedByAnswer, diskVars
<1>2. j \in Jobs
  BY <1>1 DEF Answering, IInv, Shape, TaskOK
<1>3. CASE Holds(w)
  <2>1. at[j] # "none"
    BY <1>3, JobsFiles DEF Holds
  <2>2. \E s \in {"ready", "settled"} :
           at' = [at EXCEPT ![j] = s] \/ at' = Published([at EXCEPT ![j] = s], j, v)
    BY <1>3 DEF CompleteExtraction, ExtractionAnswerFails, StaleAnswer, CompleteLlm,
                LlmAnswerFails, StaleLlmAnswer, AfterException
  <2>3. AtKept
    BY <1>2, <2>1, <2>2, AtMoves, AtPublishes DEF IInv
  <2> QED
    BY <1>1, <2>3, AnswerInv
<1>4. CASE ~Holds(w)
  <2>1. UNCHANGED at
    BY <1>4 DEF CompleteExtraction, ExtractionAnswerFails, StaleAnswer, CompleteLlm,
                LlmAnswerFails, StaleLlmAnswer
  <2>2. AtKept
    BY <2>1 DEF IInv, Shape, AtKept
  <2> QED
    BY <1>1, <2>2, AnswerInv
<1> QED
  BY <1>3, <1>4

\* A crash damages the open file and gives the job back.
LEMMA CrashInv == ASSUME IInv, NEW w \in Workers, Crash(w) PROVE IInv'
<1>1. AtKept
  <2>1. CASE Holds(w)
    <3>1. task[w].job \in Jobs /\ at[task[w].job] # "none"
      BY <2>1, JobsFiles DEF Holds, IInv, Shape, TaskOK
    <3>2. at' = [at EXCEPT ![task[w].job] = "ready"]
      BY <2>1 DEF Crash, Requeued
    <3> QED
      BY <3>1, <3>2, AtMoves DEF IInv
  <2>2. CASE ~Holds(w)
    BY <2>2 DEF Crash, Requeued, IInv, Shape, AtKept
  <2> QED
    BY <2>1, <2>2
<1>2. /\ task' = [task EXCEPT ![w] = Idle] /\ Damage(w)
      /\ UNCHANGED <<upload, disk, answers, inputless>>
  BY DEF Crash
<1> QED
  BY <1>1, <1>2, IdleOK, WorkerKeepsFiles DEF IInv, Shape, InputOutlivesQueuedJob

\* A step that neither a worker nor a file nor an upload takes part in.
LEMMA QuietInv ==
    ASSUME IInv, AtKept, UNCHANGED <<upload, disk, damaged, answers, inputless, task>>
    PROVE  IInv'
<1>1. \A f : Good(f)' <=> Good(f)
  BY DEF Good, Writers, File
<1>2. Shape' /\ InputInv' /\ DeliveredInv' /\ InputOutlivesQueuedJob'
  BY DEF IInv, Shape, InputInv, DeliveredInv, InputOutlivesQueuedJob, AtKept
<1>3. WrittenInv' /\ ServedInv'
  BY <1>1 DEF IInv, WrittenInv, ServedInv
<1> QED
  BY <1>2, <1>3 DEF IInv

\* A lost connection gives the job back while its worker goes on.
LEMMA ConnectionLostInv == ASSUME IInv, NEW w \in Workers, ConnectionLost(w) PROVE IInv'
<1> DEFINE t == task[w]
<1>1. task[w].job \in Jobs /\ at[task[w].job] # "none"
  BY JobsFiles DEF ConnectionLost, Holds, IInv, Shape, TaskOK
<1>2. AtKept
  BY <1>1, AtMoves DEF ConnectionLost, Requeued, IInv
<1>3. UNCHANGED <<upload, disk, damaged, answers, inputless, task>>
  BY DEF ConnectionLost, diskVars
<1> QED
  BY <1>2, <1>3, QuietInv
-----------------------------------------------------------------------------
(* The steps of the upload endpoint.                                        *)

\* A step of the upload of d, in which it gets status s.
LEMMA UploadStep ==
    ASSUME IInv, NEW d \in Docs, NEW s, upload' = [upload EXCEPT ![d] = s], upload[d] # "error",
           UNCHANGED <<task, answers, damaged, inputless>>,
           DOMAIN disk' = Files, \A f \in Files : f # <<"input", d>> => disk'[f] = disk[f],
           DOMAIN at' = Jobs,
           \A c \in Docs \ {d} : at'[ExtractJob(c)] = at[ExtractJob(c)],
           at[ExtractJob(d)] # "none" => at'[ExtractJob(d)] # "none",
           s \in {"stored", "queued", "unqueued"} => disk'[<<"input", d>>] = "whole",
           at'[ExtractJob(d)] # "none" =>
               /\ s \in {"queued", "unqueued", "error", "aborted"}
               /\ s = "aborted" => disk'[<<"input", d>>] = "whole"
    PROVE  IInv'
<1>1. Shape'
  BY DEF IInv, Shape
<1>2. \A c \in Docs \ {d} : /\ upload'[c] = upload[c]
                            /\ disk'[<<"input", c>>] = disk[<<"input", c>>]
  BY JobsFiles DEF IInv, Shape
<1>3. upload'[d] = s
  BY DEF IInv, Shape
<1>4. InputInv'
  BY <1>2, <1>3 DEF IInv, InputInv
<1>5. DeliveredInv'
  BY DEF IInv, DeliveredInv
<1>6. InputOutlivesQueuedJob'
  BY <1>2 DEF IInv, Shape, InputOutlivesQueuedJob
<1>7. \A f \in Files : f # <<"input", d>> /\ Good(f) => Good(f)'
  BY DEF Good, Writers, File
<1>8. \A w \in Workers : \A f \in WrittenBy(task[w]) : f \in Files /\ f # <<"input", d>>
  BY WrittenAreFiles DEF IInv, Shape, WrittenBy, FilesOf
<1>9. WrittenInv'
  BY <1>7, <1>8 DEF IInv, WrittenInv
<1>10. \A j \in Jobs : \A f \in FilesOf(j) : f \in Files /\ f # <<"input", d>>
  BY JobsFiles DEF FilesOf
<1>11. ServedInv'
  BY <1>7, <1>10 DEF IInv, ServedInv
<1> QED
  BY <1>1, <1>4, <1>5, <1>6, <1>9, <1>11 DEF IInv

\* An upload stores the input before the job is queued, and deletes it only when the
\* publish failed and the client was told so.
LEMMA UploadInv == ASSUME IInv, NEW d \in Docs, Upload(d) \/ UploadFails(d) PROVE IInv'
<1>1. UNCHANGED <<task, answers, damaged, inputless>>
  BY DEF Upload, UploadFails, RejectUpload, StoreUpload, PublishUpload, DeleteUpload,
         PublishUploadRaises, UploadCrashes, UnchangedByUpload
<1>2. DOMAIN at = Jobs /\ DOMAIN disk = Files
  BY DEF IInv, Shape
<1>3. upload[d] \in {"none", "stored"} => at[ExtractJob(d)] = "none"
  BY DEF IInv, InputInv
<1>4. upload[d] \in {"stored", "unqueued"} => disk[<<"input", d>>] = "whole"
  BY DEF IInv, InputInv
<1>5. CASE RejectUpload(d)
  <2>1. UNCHANGED <<disk, at>> /\ upload[d] = "none"
    BY <1>5 DEF RejectUpload
  <2>2. PICK s \in {"error", "aborted"} : upload' = [upload EXCEPT ![d] = s]
    BY <1>5 DEF RejectUpload, Respond
  <2> QED
    BY <1>1, <1>2, <1>3, <2>1, <2>2, UploadStep
<1>6. CASE StoreUpload(d)
  <2>1. UNCHANGED at /\ upload[d] = "none"
    BY <1>6 DEF StoreUpload
  <2>2. PICK s \in {"stored", "error"}, x \in {"whole", "absent", "torn"} :
           /\ upload' = [upload EXCEPT ![d] = s]
           /\ disk' = [disk EXCEPT ![<<"input", d>>] = x]
           /\ s = "stored" => x = "whole"
    BY <1>6 DEF StoreUpload, Respond
  <2> QED
    BY <1>1, <1>2, <1>3, <2>1, <2>2, JobsFiles, UploadStep
<1>7. CASE PublishUpload(d) \/ PublishUploadRaises(d)
  <2>1. UNCHANGED disk /\ upload[d] = "stored"
    BY <1>7 DEF PublishUpload, PublishUploadRaises
  <2>2. PICK s \in {"queued", "unqueued"} : upload' = [upload EXCEPT ![d] = s]
    BY <1>7 DEF PublishUpload, PublishUploadRaises, Respond
  <2>3. at' = at \/ at' = [at EXCEPT ![ExtractJob(d)] = "ready"]
    BY <1>7 DEF PublishUpload, PublishUploadRaises, Enqueue
  <2>4. DOMAIN at' = Jobs /\ \A c \in Docs \ {d} : at'[ExtractJob(c)] = at[ExtractJob(c)]
    BY <1>2, <2>3, JobsFiles
  <2> QED
    BY <1>1, <1>2, <1>3, <1>4, <2>1, <2>2, <2>4, UploadStep
<1>8. CASE DeleteUpload(d)
  <2>1. UNCHANGED at /\ upload[d] = "unqueued" /\ upload' = [upload EXCEPT ![d] = "error"]
    BY <1>8 DEF DeleteUpload, Respond
  <2>2. DOMAIN disk' = Files /\ \A f \in Files : f # <<"input", d>> => disk'[f] = disk[f]
    BY <1>2, <1>8 DEF DeleteUpload
  <2>3. at[ExtractJob(d)] # "none" => at'[ExtractJob(d)] # "none"
    BY <2>1
  <2> QED
    BY <1>1, <1>2, <2>1, <2>2, <2>3, UploadStep
<1>9. CASE UploadCrashes(d)
  <2>1. /\ UNCHANGED <<disk, at>> /\ upload[d] \in {"stored", "unqueued"}
        /\ upload' = [upload EXCEPT ![d] = "aborted"]
    BY <1>9 DEF UploadCrashes, Respond
  <2> QED
    BY <1>1, <1>2, <1>4, <2>1, UploadStep
<1> QED
  BY <1>5, <1>6, <1>7, <1>8, <1>9 DEF Upload, UploadFails
-----------------------------------------------------------------------------
\* IInv is inductive.
LEMMA NextInv == IInv /\ [Next]_vars => IInv'
<1> SUFFICES ASSUME IInv, [Next]_vars PROVE IInv'
  OBVIOUS
<1>0. Extractors \subseteq Workers /\ Embedders \subseteq Workers
  BY DEF Workers
<1>1. CASE \E d \in Docs : Upload(d) \/ UploadFails(d)
  BY <1>1, UploadInv
<1>2. CASE \E d \in Docs : Extract(d)
  <2>1. PICK d \in Docs, x \in Extractors : Take(x, ExtractJob(d), "convert")
    BY <1>2 DEF Extract, OnExtractionMessage
  <2>2. ExtractJob(d) \in Jobs /\ ExtractJob(d)[2] = 0
    BY JobsFiles
  <2> QED
    BY <1>0, <2>1, <2>2, TakeInv
<1>3. CASE \E j \in LlmJobs : Embed(j)
  BY <1>0, <1>3, TakeInv DEF Embed, OnLlmMessage, LlmJobs, Jobs
<1>4. ASSUME NEW w \in Workers, Work(w) PROVE IInv'
  <2>1. CASE WriteFails(w)
    <3>1. task[w].job \in Jobs
      BY <2>1 DEF WriteFails, Artifacts, IInv, Shape, TaskOK
    <3>2. /\ Fail(w) /\ Damage(w)
          /\ UNCHANGED <<upload, disk, at, answers, inputless>>
      BY <2>1 DEF WriteFails, UnchangedByWrite, brokerVars
    <3> QED
      BY <3>1, <3>2, FailInv DEF IInv, Shape, InputOutlivesQueuedJob
  <2>2. CASE OpenArtifact(w) \/ CloseArtifact(w)
    BY <2>2, OpenInv, CloseInv
  <2>3. CASE Convert(w) \/ CompleteExtraction(w) \/ StaleAnswer(w)
    BY <2>3, ConvertInv, CompleteInv
  <2>4. CASE \/ LoadChunks(w) \/ EmbedBatch(w) \/ EmbedFails(w)
             \/ CompleteLlm(w) \/ StaleLlmAnswer(w)
    BY <2>4, CompleteInv, EmbeddingInv
  <2> QED
    BY <1>4, <2>1, <2>2, <2>3, <2>4 DEF Work
<1>5. CASE \E w \in Workers : ConnectionLost(w) \/ Crash(w)
  BY <1>5, ConnectionLostInv, CrashInv
<1>6. CASE (\E x \in Extractors : ExtractionAnswerFails(x)) \/ (\E e \in Embedders : LlmAnswerFails(e))
  BY <1>0, <1>6, CompleteInv
<1>7. CASE \E e \in Embedders : Flush(e) \/ FlushFails(e)
  <2>1. UNCHANGED <<upload, disk, at, damaged, answers, inputless, task>>
    BY <1>7 DEF Flush, FlushFails, UnchangedByFlush, diskVars, brokerVars
  <2> QED
    BY <2>1, QuietInv DEF IInv, Shape, AtKept
<1>8. CASE UNCHANGED vars
  <2>1. UNCHANGED <<upload, disk, at, damaged, answers, inputless, task>>
    BY <1>8 DEF vars, diskVars, brokerVars
  <2> QED
    BY <2>1, QuietInv DEF IInv, Shape, AtKept
<1> QED
  BY <1>1, <1>2, <1>3, <1>4, <1>5, <1>6, <1>7, <1>8 DEF Next

\* Only an upload that was answered "error" can have its extraction fail for want
\* of its input, whichever of the uploads are stored, published, cleaned up after a
\* publish that raised or aborted, and however often their jobs are delivered.
THEOREM InputOutlives == Spec => []InputOutlivesQueuedJob
<1>1. IInv => InputOutlivesQueuedJob
  BY DEF IInv
<1> QED
  BY <1>1, InitInv, NextInv, PTL DEF Spec

\* Each file that a result reported ok names can be downloaded whole, unless an
\* execution is rewriting it or was interrupted while it did, for any number of
\* replicas that extract or embed the same document at the same time.
THEOREM OkIsServed == Spec => []OkResultIsServed
<1>1. ASSUME ServedInv PROVE OkResultIsServed
  <2> SUFFICES ASSUME NEW d \in Docs, NEW n \in 0 .. MaxFaults + 1, "ok" \in answers[<<d, n>>],
                      NEW kind \in IF n = 0 THEN {"markdown", "chunks"} ELSE {"embeddings"}
               PROVE  \/ GetJobResult(<<kind, d>>) = "whole"
                      \/ disk[<<kind, d>>] # "whole" /\ Good(<<kind, d>>)
    BY DEF OkResultIsServed, Good
  <2>1. <<d, n>> \in Jobs /\ <<kind, d>> \in FilesOf(<<d, n>>)
    BY DEF Jobs, FilesOf
  <2>2. Good(<<kind, d>>)
    BY <1>1, <2>1 DEF ServedInv
  <2> QED
    BY <2>2 DEF GetJobResult
<1>2. IInv => OkResultIsServed
  BY <1>1 DEF IInv
<1> QED
  BY <1>2, InitInv, NextInv, PTL DEF Spec
-----------------------------------------------------------------------------
(* The texts and the vectors.                                               *)

\* Whatever a chunk may have as its text.
AllTexts == UNION {{c[i] : i \in DOMAIN c} : c \in Contents}

\* A document is a sequence of texts, and so is what is left of it without blank ones.
LEMMA ContentTexts ==
    ASSUME NEW c \in Contents
    PROVE  /\ c \in Seq(AllTexts) /\ ExtractTexts(c) \in Seq(AllTexts)
           /\ Within(ExtractTexts(c), c, Len(c))
<1>1. c \in Seq({c[i] : i \in DOMAIN c})
  BY FlowAssumption
<1>2. Len(c) \in Nat /\ DOMAIN c = 1 .. Len(c)
  BY <1>1
<1>3. \A i \in 1 .. Len(c) : c[i] \in AllTexts
  BY <1>2 DEF AllTexts
<1>4. c \in [1 .. Len(c) -> AllTexts]
  BY <1>1, <1>2, <1>3
<1>5. c \in Seq(AllTexts)
  BY <1>2, <1>4
<1>6. {i \in DOMAIN c : c[i] # Blank} \in SUBSET DOMAIN c
  OBVIOUS
<1> QED
  BY <1>5, <1>6, SelectedWithin DEF ExtractTexts

\* A batch is the next texts, and never more than there are.
LEMMA NextBatch ==
    ASSUME NEW T, NEW s \in Seq(T), NEW n \in 0 .. Len(s)
    PROVE  \E m \in Nat :
              /\ n + m <= Len(s) /\ Batch(s, n) \in Seq(T) /\ Len(Batch(s, n)) = m
              /\ \A i \in 1 .. m : Batch(s, n)[i] = s[n + i]
<1> DEFINE m == IF n + BatchSize <= Len(s) THEN BatchSize ELSE Len(s) - n
           b == Batch(s, n)
<1>1. m \in Nat /\ n + m <= Len(s)
  BY BatchAssumption
<1>2. b = [i \in 1 .. m |-> s[n + i]]
  BY DEF Batch
<1> HIDE DEF m, b
<1>3. b \in [1 .. m -> T]
  BY <1>1, <1>2
<1>4. b \in Seq(T) /\ Len(b) = m /\ \A i \in 1 .. m : b[i] = s[n + i]
  BY <1>1, <1>2, <1>3
<1> QED
  BY <1>1, <1>4 DEF b

\* The vectors of execution t belong to texts it has sent, in their order.
Progress(t, c) ==
    t.step \in {"load", "embed", "embeddings"} =>
        LET texts == ExtractTexts(c[t.job[1]])
        IN t.sent \in 0 .. Len(texts) /\ Within(t.vectors, texts, t.sent)

\* Extraction jobs are at work in extraction workers only.
Role(w, t) == t.step # "idle" => (w \in Extractors <=> t.job[2] = 0)

\* An artifact has vectors of its document, in their order.
Faithful(a, chunks) ==
    /\ a.chunkCount = Len(chunks)
    /\ a.vectors \in Seq(AllTexts)
    /\ Within(a.vectors, chunks, Len(chunks))

\* Workers and artifacts have what they should.
TaskInv ==
    /\ content \in [Docs -> Contents]
    /\ task \in [Workers -> Tasks]
    /\ \A w \in Workers : Progress(task[w], content) /\ Role(w, task[w])
    /\ DOMAIN artifact = Docs
    /\ \A d \in Docs : artifact[d] # None => Faithful(artifact[d], content[d])

\* A worker goes on, and may leave a faithful artifact.
LEMMA TaskStep ==
    ASSUME TaskInv, NEW w \in Workers, NEW t \in Tasks, Progress(t, content), Role(w, t),
           task' = [task EXCEPT ![w] = t], UNCHANGED content,
           \/ UNCHANGED artifact
           \/ \E d \in Docs : \E a : /\ artifact' = [artifact EXCEPT ![d] = a]
                                      /\ Faithful(a, content[d])
    PROVE  TaskInv'
<1>1. content' \in [Docs -> Contents] /\ task' \in [Workers -> Tasks] /\ DOMAIN artifact' = Docs
  BY DEF TaskInv
<1>2. \A v \in Workers : Progress(task'[v], content') /\ Role(v, task'[v])
  BY DEF TaskInv
<1>3. \A d \in Docs : artifact'[d] # None => Faithful(artifact'[d], content'[d])
  BY DEF TaskInv
<1> QED
  BY <1>1, <1>2, <1>3 DEF TaskInv

\* Nothing that TaskInv speaks of moves.
LEMMA TaskQuiet ==
    ASSUME TaskInv, UNCHANGED <<task, content, artifact>> PROVE TaskInv'
BY DEF TaskInv

\* Tasks that a step can leave behind: of no job, ...
LEMMA IdleTask == Idle \in Tasks /\ Idle.step = "idle"
<1>1. <<>> \in Seq(UNION {{c[i] : i \in DOMAIN c} : c \in Contents})
  OBVIOUS
<1> QED
  BY <1>1 DEF Idle, Tasks, Verdicts

\* ... of one that begins a step, ...
LEMMA BeginTask ==
    ASSUME NEW j \in Jobs, NEW s \in {"convert", "load", "answer", "chunks"}
    PROVE  /\ Begin(j, s) \in Tasks /\ Begin(j, s).step = s /\ Begin(j, s).job = j
           /\ Begin(j, s).sent = 0 /\ Begin(j, s).vectors = <<>>
<1>1. <<>> \in Seq(UNION {{c[i] : i \in DOMAIN c} : c \in Contents})
  OBVIOUS
<1> QED
  BY <1>1 DEF Begin, Idle, Tasks, Verdicts, Artifacts

\* ... and of one that has failed.
LEMMA FailTask ==
    ASSUME NEW j \in Jobs, NEW t, t = [Begin(j, "answer") EXCEPT !.verdict = "error"]
    PROVE  t \in Tasks /\ t.step = "answer" /\ t.job = j
<1>1. <<>> \in Seq(UNION {{c[i] : i \in DOMAIN c} : c \in Contents})
  OBVIOUS
<1> QED
  BY <1>1 DEF Begin, Idle, Tasks, Verdicts, Artifacts

\* A worker that leaves off, or that goes on to answer, has nothing more to account for.
LEMMA LeavesOff ==
    ASSUME TaskInv, IInv, NEW w \in Workers, UNCHANGED <<content, artifact>>,
           \/ task' = [task EXCEPT ![w] = Idle]
           \/ task[w].step # "idle" /\ Fail(w)
    PROVE  TaskInv'
<1>1. CASE task' = [task EXCEPT ![w] = Idle]
  <2>1. Idle \in Tasks /\ Progress(Idle, content) /\ Role(w, Idle)
    BY IdleTask DEF Progress, Role
  <2> QED
    BY <1>1, <2>1, TaskStep
<1>2. CASE task[w].step # "idle" /\ Fail(w)
  <2> DEFINE t == [Begin(task[w].job, "answer") EXCEPT !.verdict = "error"]
  <2>1. task[w].job \in Jobs
    BY <1>2 DEF IInv, Shape, TaskOK
  <2>2. t \in Tasks /\ t.step = "answer" /\ t.job = task[w].job
    BY <2>1, FailTask
  <2>3. task' = [task EXCEPT ![w] = t]
    BY <1>2 DEF Fail
  <2> HIDE DEF t
  <2>4. Progress(t, content) /\ Role(w, t)
    BY <1>2, <2>2 DEF Progress, Role, TaskInv
  <2> QED
    BY <2>2, <2>3, <2>4, TaskStep
<1> QED
  BY <1>1, <1>2

\* A worker goes on with its job, or begins one.
LEMMA TakeTask ==
    ASSUME TaskInv, NEW w \in Workers, NEW j \in Jobs, NEW s, Take(w, j, s),
           s \in {"convert", "load"}, w \in Extractors <=> j[2] = 0
    PROVE  TaskInv'
<1> DEFINE t == Begin(j, s)
<1>1. t \in Tasks /\ t.step = s /\ t.job = j /\ t.sent = 0 /\ t.vectors = <<>>
  BY BeginTask
<1>2. task' = [task EXCEPT ![w] = t] /\ UNCHANGED <<content, artifact>>
  BY DEF Take, diskVars
<1> HIDE DEF t
<1>3. Role(w, t)
  BY <1>1 DEF Role
<1>4. Progress(t, content)
  <2>1. content[j[1]] \in Contents
    BY JobsFiles DEF TaskInv
  <2>2. ExtractTexts(content[j[1]]) \in Seq(AllTexts)
    BY <2>1, ContentTexts
  <2>3. 0 \in 0 .. Len(ExtractTexts(content[j[1]]))
    BY <2>2
  <2> QED
    BY <1>1, <2>3, NothingWithin DEF Progress
<1> QED
  BY <1>1, <1>2, <1>3, <1>4, TaskStep

\* A worker with a job has one of its own kind.
LEMMA AtWork ==
    ASSUME TaskInv, IInv, NEW w \in Workers, task[w].step # "idle"
    PROVE  /\ task[w] \in Tasks /\ task[w].job \in Jobs /\ task[w].job[1] \in Docs
           /\ content[task[w].job[1]] \in Contents
           /\ ExtractTexts(content[task[w].job[1]]) \in Seq(AllTexts)
<1>1. task[w] \in Tasks /\ task[w].job \in Jobs
  BY DEF TaskInv, IInv, Shape, TaskOK
<1>2. task[w].job[1] \in Docs
  BY <1>1, JobsFiles
<1>3. content[task[w].job[1]] \in Contents
  BY <1>2 DEF TaskInv
<1> QED
  BY <1>1, <1>2, <1>3, ContentTexts

\* Opening a file or loading the chunks changes nothing of the vectors.
LEMMA StepsOn ==
    ASSUME TaskInv, IInv, NEW w \in Workers,
           \/ OpenArtifact(w)
           \/ task[w].step = "convert" /\ task' = [task EXCEPT ![w].step = "markdown"]
           \/ task[w].step = "load" /\ task' = [task EXCEPT ![w].step = "embed"],
           UNCHANGED <<content, artifact>>
    PROVE  TaskInv'
<1>1. /\ task[w].step # "idle" /\ Progress(task[w], content) /\ Role(w, task[w])
      /\ task[w].step \in {"idle", "convert", "load", "embed", "answer"} \cup Artifacts
  BY DEF OpenArtifact, Artifacts, TaskInv, Tasks
<1>2. task[w] \in Tasks /\ DOMAIN task = Workers
  BY DEF TaskInv
<1>3. CASE OpenArtifact(w)
  <2> DEFINE t == [task[w] EXCEPT !.open = TRUE]
  <2>1. /\ t \in Tasks /\ t.step = task[w].step /\ t.job = task[w].job /\ t.sent = task[w].sent
        /\ t.vectors = task[w].vectors
    BY <1>2 DEF Tasks
  <2>2. task' = [task EXCEPT ![w] = t]
    BY <1>3 DEF OpenArtifact
  <2> HIDE DEF t
  <2>3. Progress(t, content) /\ Role(w, t)
    BY <1>1, <2>1 DEF Progress, Role
  <2> QED
    BY <2>1, <2>2, <2>3, TaskStep
<1>4. ASSUME NEW s \in {"markdown", "embed"}, task' = [task EXCEPT ![w].step = s],
             s = "embed" => task[w].step = "load"
      PROVE  TaskInv'
  <2> DEFINE t == [task[w] EXCEPT !.step = s]
  <2>1. /\ t \in Tasks /\ t.step = s /\ t.job = task[w].job /\ t.sent = task[w].sent
        /\ t.vectors = task[w].vectors
    BY <1>2 DEF Tasks, Artifacts
  <2>2. task' = [task EXCEPT ![w] = t]
    BY <1>4
  <2> HIDE DEF t
  <2>3. Progress(t, content) /\ Role(w, t)
    BY <1>1, <1>4, <2>1 DEF Progress, Role
  <2> QED
    BY <2>1, <2>2, <2>3, TaskStep
<1> QED
  BY <1>3, <1>4

\* What the provider returned goes behind the vectors of the batches before.
LEMMA EmbedTask == ASSUME TaskInv, IInv, NEW e \in Workers, EmbedBatch(e) PROVE TaskInv'
<1> DEFINE s == Texts(e)
           n == task[e].sent
           v == task[e].vectors
           b == Batch(s, n)
           end == n + Len(b)
<1>1. task[e].step = "embed" /\ UNCHANGED <<content, artifact>>
  BY DEF EmbedBatch, UnchangedByEmbedding, diskVars
<1>2. PICK r \in ReturnedVectors(b) :
         task' = [task EXCEPT ![e].sent = end, ![e].vectors = Extend(@, r),
                              ![e].step = IF end = Len(s) THEN "embeddings" ELSE @]
  BY DEF EmbedBatch
<1>3. /\ task[e] \in Tasks /\ DOMAIN task = Workers /\ Role(e, task[e])
      /\ Progress(task[e], content)
  BY DEF TaskInv
<1>4. v \in Seq(AllTexts) /\ n \in Nat
  BY <1>3 DEF Tasks, AllTexts
<1>5. s \in Seq(AllTexts)
  BY <1>1, AtWork DEF Texts
<1>6. n \in 0 .. Len(s) /\ Within(v, s, n)
  BY <1>1, <1>3 DEF Progress, Texts
<1>7. PICK m \in Nat : /\ n + m <= Len(s) /\ b \in Seq(AllTexts) /\ Len(b) = m
                       /\ \A i \in 1 .. m : b[i] = s[n + i]
  BY <1>5, <1>6, NextBatch
<1> HIDE DEF s, n, v, b
<1>8. r \in Seq(AllTexts) /\ Within(r, b, Len(b))
  BY <1>7, SelectedWithin DEF ReturnedVectors
<1>9. Extend(v, r) \in Seq(AllTexts) /\ Within(Extend(v, r), s, n + m)
  BY <1>4, <1>5, <1>6, <1>7, <1>8, WithinExtended DEF Extend
<1> DEFINE t == [task[e] EXCEPT !.sent = end, !.vectors = Extend(@, r),
                                !.step = IF end = Len(s) THEN "embeddings" ELSE @]
<1>10. end = n + m /\ end \in 0 .. Len(s)
  BY <1>4, <1>5, <1>7
<1> HIDE DEF end
<1>11. /\ t \in Tasks /\ t.step \in {"embed", "embeddings"} /\ t.job = task[e].job
       /\ t.sent = end /\ t.vectors = Extend(v, r)
  <2>1. end \in Nat
    BY <1>5, <1>10
  <2> QED
    BY <1>1, <1>3, <1>9, <2>1 DEF Tasks, Artifacts, AllTexts, v
<1>12. task' = [task EXCEPT ![e] = t]
  BY <1>2, <1>3
<1> HIDE DEF t
<1>13. Role(e, t)
  BY <1>1, <1>3, <1>11 DEF Role
<1>14. Progress(t, content)
  BY <1>9, <1>10, <1>11 DEF Progress, s, Texts
<1> QED
  BY <1>1, <1>11, <1>12, <1>13, <1>14, TaskStep

\* An artifact gets the vectors of the execution that writes it.
LEMMA CloseTask == ASSUME TaskInv, IInv, NEW w \in Workers, CloseArtifact(w) PROVE TaskInv'
<1> DEFINE t == Begin(task[w].job, StepAfter(task[w].step))
           d == task[w].job[1]
           a == Artifact(content[d], task[w].vectors)
<1>1. task[w].step \in Artifacts /\ task[w].step # "idle"
  BY DEF CloseArtifact, IInv, Shape, TaskOK, Artifacts
<1>2. /\ t \in Tasks /\ t.step = StepAfter(task[w].step) /\ t.job = task[w].job
      /\ t.step \in {"chunks", "answer"}
  <2>1. StepAfter(task[w].step) \in {"convert", "load", "answer", "chunks"} \cap {"chunks", "answer"}
    BY DEF StepAfter
  <2>2. task[w].job \in Jobs
    BY <1>1, AtWork
  <2> QED
    BY <2>1, <2>2, BeginTask
<1>3. /\ UNCHANGED content /\ task' = [task EXCEPT ![w] = t]
      /\ \/ UNCHANGED artifact
         \/ task[w].step = "embeddings" /\ artifact' = [artifact EXCEPT ![d] = a]
  BY DEF CloseArtifact, UnchangedByWrite
<1>4. Progress(t, content) /\ Role(w, t)
  BY <1>1, <1>2 DEF Progress, Role, TaskInv
<1>5. CASE UNCHANGED artifact
  BY <1>2, <1>3, <1>4, <1>5, TaskStep
<1>6. CASE task[w].step = "embeddings" /\ artifact' = [artifact EXCEPT ![d] = a]
  <2> DEFINE c == content[d]
             v == task[w].vectors
             s == ExtractTexts(c)
  <2>1. d \in Docs /\ c \in Contents
    BY <1>1, AtWork
  <2>2. /\ c \in Seq(AllTexts) /\ s \in Seq(AllTexts) /\ Within(s, c, Len(c))
    BY <2>1, ContentTexts
  <2>3. v \in Seq(AllTexts)
    BY DEF TaskInv, Tasks, AllTexts
  <2>4. task[w].sent \in 0 .. Len(s) /\ Within(v, s, task[w].sent)
    BY <1>6 DEF TaskInv, Progress
  <2> HIDE DEF v, s
  <2>5. Within(v, c, Len(c))
    BY <2>2, <2>3, <2>4, WithinWithin
  <2>6. Faithful(a, c)
    BY <2>3, <2>5 DEF Faithful, Artifact, v
  <2> QED
    BY <1>2, <1>3, <1>4, <1>6, <2>1, <2>6, TaskStep
<1> QED
  BY <1>3, <1>5, <1>6

\* TaskInv holds at the start.
LEMMA InitTask == Init => TaskInv
<1> SUFFICES ASSUME Init PROVE TaskInv
  OBVIOUS
<1>1. \A w \in Workers : task[w] = Idle
  BY DEF Init
<1>2. task \in [Workers -> Tasks]
  BY IdleTask DEF Init
<1>3. \A w \in Workers : Progress(task[w], content) /\ Role(w, task[w])
  BY <1>1, IdleTask DEF Progress, Role
<1>4. /\ content \in [Docs -> Contents] /\ DOMAIN artifact = Docs
      /\ \A d \in Docs : artifact[d] = None
  BY DEF Init
<1> QED
  BY <1>2, <1>3, <1>4 DEF TaskInv

\* Workers keep TaskInv, ...
LEMMA WorkTask == ASSUME TaskInv, IInv, NEW w \in Workers, Work(w) \/ Crash(w) PROVE TaskInv'
<1>1. CASE OpenArtifact(w)
  BY <1>1, StepsOn DEF OpenArtifact, UnchangedByWrite
<1>2. CASE CloseArtifact(w)
  BY <1>2, CloseTask
<1>3. CASE WriteFails(w)
  BY <1>3, LeavesOff DEF WriteFails, UnchangedByWrite, Artifacts
<1>4. CASE Convert(w)
  BY <1>4, StepsOn, LeavesOff DEF Convert, diskVars
<1>5. CASE LoadChunks(w) \/ EmbedFails(w)
  BY <1>5, StepsOn, LeavesOff DEF LoadChunks, EmbedFails, UnchangedByEmbedding, diskVars
<1>6. CASE EmbedBatch(w)
  BY <1>6, EmbedTask
<1>7. CASE CompleteExtraction(w) \/ StaleAnswer(w) \/ CompleteLlm(w) \/ StaleLlmAnswer(w)
  <2>1. Answering(w) /\ UnchangedByAnswer
    BY <1>7 DEF CompleteExtraction, StaleAnswer, CompleteLlm, StaleLlmAnswer
  <2> QED
    BY <2>1, LeavesOff DEF Answering, UnchangedByAnswer, diskVars
<1>8. CASE Crash(w)
  BY <1>8, LeavesOff DEF Crash
<1> QED
  BY <1>1, <1>2, <1>3, <1>4, <1>5, <1>6, <1>7, <1>8 DEF Work

\* ... and so does every other step.
LEMMA NextTask == IInv /\ TaskInv /\ [Next]_vars => TaskInv'
<1> SUFFICES ASSUME IInv, TaskInv, [Next]_vars PROVE TaskInv'
  OBVIOUS
<1>1. CASE \E d \in Docs : Upload(d) \/ UploadFails(d)
  BY <1>1, TaskQuiet DEF Upload, UploadFails, RejectUpload, StoreUpload, PublishUpload, DeleteUpload,
     PublishUploadRaises, UploadCrashes, UnchangedByUpload
<1>2. CASE \E d \in Docs : Extract(d)
  <2>1. PICK d \in Docs, x \in Extractors : Take(x, ExtractJob(d), "convert")
    BY <1>2 DEF Extract, OnExtractionMessage
  <2>2. ExtractJob(d) \in Jobs /\ ExtractJob(d)[2] = 0 /\ x \in Workers
    BY JobsFiles DEF Workers
  <2> QED
    BY <2>1, <2>2, TakeTask
<1>3. CASE \E j \in LlmJobs : Embed(j)
  <2>1. PICK j \in LlmJobs, e \in Embedders : Take(e, j, "load")
    BY <1>3 DEF Embed, OnLlmMessage
  <2>2. j \in Jobs /\ j[2] # 0 /\ e \in Workers /\ e \notin Extractors
    BY FlowAssumption DEF LlmJobs, Jobs, Workers
  <2> QED
    BY <2>1, <2>2, TakeTask
<1>4. CASE \E w \in Workers : Work(w) \/ Crash(w)
  BY <1>4, WorkTask
<1>5. CASE (\E x \in Extractors : ExtractionAnswerFails(x)) \/ (\E e \in Embedders : LlmAnswerFails(e))
  <2>1. PICK w \in Workers : Answering(w) /\ UnchangedByAnswer
    BY <1>5 DEF ExtractionAnswerFails, LlmAnswerFails, Workers
  <2> QED
    BY <2>1, LeavesOff DEF Answering, UnchangedByAnswer, diskVars
<1>6. CASE \/ \E w \in Workers : ConnectionLost(w)
           \/ \E e \in Embedders : Flush(e) \/ FlushFails(e)
           \/ UNCHANGED vars
  BY <1>6, TaskQuiet DEF ConnectionLost, Flush, FlushFails, UnchangedByFlush, vars, diskVars
<1> QED
  BY <1>1, <1>2, <1>3, <1>4, <1>5, <1>6 DEF Next

\* An artifact with as many vectors as the document has chunks has at position i
\* the vector of chunk i, whatever the documents, the batches and the provider's answers.
THEOREM EqualCounts == Spec => []EqualCountsAreAligned
<1>1. ASSUME TaskInv PROVE EqualCountsAreAligned
  <2> SUFFICES ASSUME NEW d \in Docs, artifact[d] # None,
                      artifact[d].chunkCount = Len(artifact[d].vectors)
               PROVE  artifact[d].vectors = content[d]
    BY DEF EqualCountsAreAligned
  <2>1. content[d] \in Contents /\ Faithful(artifact[d], content[d])
    BY <1>1 DEF TaskInv
  <2>2. content[d] \in Seq(AllTexts)
    BY <2>1, ContentTexts
  <2> QED
    BY <2>1, <2>2, WithinSameLength DEF Faithful
<1>2. TaskInv => EqualCountsAreAligned
  BY <1>1
<1> QED
  BY <1>2, InitInv, NextInv, InitTask, NextTask, PTL DEF Spec
-----------------------------------------------------------------------------
(* The broker.                                                              *)

Places == {"none", "ready", "settled"} \cup Workers

\* A job has been delivered at most once more than deliveries of it have failed.
BrokerInv ==
    /\ at \in [Jobs -> Places] /\ count \in [Jobs -> Nat]
    /\ answers \in [Jobs -> SUBSET Verdicts] /\ dead \subseteq Jobs /\ skipped \subseteq Profiled
    /\ faults \in 0 .. MaxFaults
    /\ \A j \in Jobs : count[j] <= IF at[j] \in {"none", "ready"} THEN faults ELSE faults + 1

\* What a step may do with jobs: leave them, queue them, give them to a worker,
\* settle them, or give them back for a fault.
Moves(j) ==
    \/ at'[j] = at[j] /\ count'[j] = count[j]
    \/ at[j] = "none" /\ at'[j] = "ready" /\ count'[j] = count[j]
    \/ at[j] = "ready" /\ at'[j] \in Workers /\ count'[j] = count[j] + 1
    \/ at[j] \in Workers /\ at'[j] = "settled" /\ count'[j] = count[j]
    \/ at[j] \in Workers /\ at'[j] = "ready" /\ count'[j] = count[j] /\ faults' = faults + 1

\* Every job does one of these.
AllMove ==
    /\ at' \in [Jobs -> Places] /\ count' \in [Jobs -> Nat]
    /\ \A j \in Jobs : Moves(j)

\* Moves keep the bound on deliveries.
LEMMA BrokerStep ==
    ASSUME BrokerInv, AllMove, UNCHANGED faults \/ Fault,
           answers' \in [Jobs -> SUBSET Verdicts], dead' \subseteq Jobs, skipped' \subseteq Profiled
    PROVE  BrokerInv'
<1>1. MaxFaults \in Nat /\ faults' \in 0 .. MaxFaults /\ faults' \in {faults, faults + 1}
  BY FlowAssumption DEF BrokerInv, Fault
<1>2. \A w \in Workers : w \notin {"none", "ready", "settled"}
  BY JobsFiles
<1>3. ASSUME NEW j \in Jobs
      PROVE  /\ at'[j] \in Places
             /\ count'[j] <= IF at'[j] \in {"none", "ready"} THEN faults' ELSE faults' + 1
  <2>1. /\ at[j] \in Places /\ count[j] \in Nat /\ faults \in Nat
        /\ count[j] <= IF at[j] \in {"none", "ready"} THEN faults ELSE faults + 1
    BY DEF BrokerInv
  <2>2. Moves(j)
    BY DEF AllMove
  <2>3. at'[j] \in Places
    BY DEF AllMove
  <2> QED
    BY <1>1, <1>2, <2>1, <2>2, <2>3 DEF Moves
<1> QED
  BY <1>1, <1>3 DEF BrokerInv, AllMove

\* BrokerInv holds at the start.
LEMMA InitBroker == Init => BrokerInv
BY FlowAssumption DEF Init, BrokerInv, Places

\* One job moves.
LEMMA OneMoves ==
    ASSUME BrokerInv, NEW j \in Jobs, NEW s \in Places, at' = [at EXCEPT ![j] = s], UNCHANGED count,
           \/ at[j] = "none" /\ s = "ready"
           \/ at[j] \in Workers /\ s = "settled"
           \/ at[j] \in Workers /\ s = "ready" /\ Fault
    PROVE  AllMove
<1>1. \A k \in Jobs : at'[k] = IF k = j THEN s ELSE at[k]
  BY DEF BrokerInv
<1>2. \A k \in Jobs : Moves(k)
  BY <1>1 DEF Moves, Fault
<1> QED
  BY <1>2 DEF BrokerInv, AllMove

\* One job is answered, and the follow-up may be queued.
LEMMA AnsweredMoves ==
    ASSUME BrokerInv, NEW j \in Jobs, NEW s \in {"ready", "settled"}, at[j] \in Workers, NEW v,
           \/ at' = [at EXCEPT ![j] = s]
           \/ at' = Published([at EXCEPT ![j] = s], j, v),
           UNCHANGED count, s = "ready" => Fault
    PROVE  AllMove
<1>1. CASE at' = [at EXCEPT ![j] = s]
  BY <1>1, OneMoves DEF Places
<1>2. CASE at' = Published([at EXCEPT ![j] = s], j, v)
  <2>1. \A k \in FreshFollowUp(j[1]) : k \in Jobs /\ at[k] = "none" /\ k # j
    BY JobsFiles DEF FreshFollowUp, LlmJobs
  <2>2. \A k \in Jobs :
           \/ at'[k] = [at EXCEPT ![j] = s][k]
           \/ at[k] = "none" /\ k # j /\ at'[k] = "ready"
    BY <1>2, <2>1 DEF Published
  <2>3. \A k \in Jobs : [at EXCEPT ![j] = s][k] = IF k = j THEN s ELSE at[k]
    BY DEF BrokerInv
  <2>4. \A k \in Jobs : Moves(k)
    BY <2>2, <2>3, JobsFiles DEF Moves, Fault
  <2>5. at' \in [Jobs -> Places]
    BY <1>2, <2>3 DEF Published, BrokerInv, Places
  <2> QED
    BY <2>4, <2>5 DEF BrokerInv, AllMove
<1> QED
  BY <1>1, <1>2

\* Nothing happens to the jobs.
LEMMA BrokerQuiet ==
    ASSUME BrokerInv, UNCHANGED <<at, count, answers, dead, skipped>>, UNCHANGED faults \/ Fault
    PROVE  BrokerInv'
<1>1. AllMove
  BY DEF Moves, AllMove, BrokerInv
<1> QED
  BY <1>1, BrokerStep DEF BrokerInv

\* The upload endpoint queues jobs that nobody has.
LEMMA UploadBroker ==
    ASSUME IInv, BrokerInv, NEW d \in Docs, Upload(d) \/ UploadFails(d) PROVE BrokerInv'
<1>1. UNCHANGED <<count, answers, dead, skipped>> /\ (UNCHANGED faults \/ Fault)
  BY DEF Upload, UploadFails, RejectUpload, StoreUpload, PublishUpload, DeleteUpload,
         PublishUploadRaises, UploadCrashes, UnchangedByUpload
<1>2. CASE UNCHANGED at
  BY <1>1, <1>2, BrokerQuiet
<1>3. CASE ~UNCHANGED at
  <2>1. Enqueue(d) /\ upload[d] = "stored"
    BY <1>3 DEF Upload, UploadFails, RejectUpload, StoreUpload, PublishUpload, DeleteUpload,
       PublishUploadRaises, UploadCrashes
  <2>2. ExtractJob(d) \in Jobs /\ at[ExtractJob(d)] = "none"
    BY <2>1, JobsFiles DEF IInv, InputInv
  <2>3. AllMove
    BY <1>1, <2>1, <2>2, OneMoves DEF Enqueue, Places
  <2> QED
    BY <1>1, <2>3, BrokerStep DEF BrokerInv
<1> QED
  BY <1>2, <1>3

\* A delivery is taken.
LEMMA TakeBroker ==
    ASSUME BrokerInv, NEW w \in Workers, NEW j \in Jobs, NEW s, Take(w, j, s) PROVE BrokerInv'
<1>1. /\ at' = [at EXCEPT ![j] = w] /\ count' = [count EXCEPT ![j] = @ + 1] /\ at[j] = "ready"
      /\ UNCHANGED <<answers, dead, skipped, faults>>
  BY DEF Take
<1>2. \A k \in Jobs : Moves(k)
  BY <1>1 DEF Moves, BrokerInv
<1>3. at' \in [Jobs -> Places] /\ count' \in [Jobs -> Nat]
  BY <1>1 DEF BrokerInv, Places
<1>4. AllMove
  BY <1>2, <1>3 DEF AllMove
<1> QED
  BY <1>1, <1>4, BrokerStep DEF BrokerInv

\* A worker loses its delivery, if it has one.
LEMMA LossBroker ==
    ASSUME IInv, BrokerInv, NEW w \in Workers, Fault, at' = Requeued(w),
           UNCHANGED <<count, answers, dead, skipped>>
    PROVE  BrokerInv'
<1>1. CASE Holds(w)
  <2>1. task[w].job \in Jobs /\ at[task[w].job] \in Workers
    BY <1>1 DEF Holds, IInv, Shape, TaskOK
  <2>2. AllMove
    BY <1>1, <2>1, OneMoves DEF Requeued, Places
  <2> QED
    BY <2>2, BrokerStep DEF BrokerInv
<1>2. CASE ~Holds(w)
  BY <1>2, BrokerQuiet DEF Requeued
<1> QED
  BY <1>1, <1>2

\* A worker answers.
LEMMA AnswerBroker ==
    ASSUME IInv, BrokerInv, TaskInv, NEW w \in Workers,
           \/ CompleteExtraction(w) \/ ExtractionAnswerFails(w) \/ StaleAnswer(w)
           \/ CompleteLlm(w) \/ LlmAnswerFails(w) \/ StaleLlmAnswer(w)
    PROVE  BrokerInv'
<1> DEFINE j == task[w].job
           v == task[w].verdict
<1>1. Answering(w) /\ UNCHANGED count
  BY DEF CompleteExtraction, ExtractionAnswerFails, StaleAnswer, CompleteLlm, LlmAnswerFails,
         StaleLlmAnswer, UnchangedByAnswer
<1>2. j \in Jobs /\ v \in Verdicts /\ j[1] \in Docs
  BY <1>1, AtWork DEF Answering, Tasks
<1>3. UNCHANGED answers \/ Publish(j, v)
  BY DEF CompleteExtraction, ExtractionAnswerFails, StaleAnswer, CompleteLlm, LlmAnswerFails,
         StaleLlmAnswer
<1>4. answers' \in [Jobs -> SUBSET Verdicts]
  BY <1>2, <1>3 DEF Publish, BrokerInv
<1>5. dead' \subseteq Jobs
  BY <1>2 DEF CompleteExtraction, ExtractionAnswerFails, StaleAnswer, CompleteLlm, LlmAnswerFails,
              StaleLlmAnswer, DeadLetter, BrokerInv
<1>6. skipped' \subseteq Profiled
  BY DEF CompleteExtraction, ExtractionAnswerFails, StaleAnswer, CompleteLlm, LlmAnswerFails,
         StaleLlmAnswer, Wanted, BrokerInv
<1>7. UNCHANGED faults \/ Fault
  BY DEF CompleteExtraction, ExtractionAnswerFails, StaleAnswer, CompleteLlm, LlmAnswerFails,
         StaleLlmAnswer
<1>8. CASE Holds(w)
  <2>1. at[j] \in Workers
    BY <1>8 DEF Holds
  <2>2. \E s \in {"ready", "settled"} :
           /\ at' = [at EXCEPT ![j] = s] \/ at' = Published([at EXCEPT ![j] = s], j, v)
           /\ s = "ready" => Fault
    BY <1>8 DEF CompleteExtraction, ExtractionAnswerFails, StaleAnswer, CompleteLlm,
                LlmAnswerFails, StaleLlmAnswer, AfterException
  <2>3. AllMove
    BY <1>1, <1>2, <2>1, <2>2, AnsweredMoves
  <2> QED
    BY <1>4, <1>5, <1>6, <1>7, <2>3, BrokerStep
<1>9. CASE ~Holds(w)
  <2>1. UNCHANGED at
    BY <1>9 DEF CompleteExtraction, ExtractionAnswerFails, StaleAnswer, CompleteLlm,
                LlmAnswerFails, StaleLlmAnswer
  <2>2. AllMove
    BY <1>1, <2>1 DEF Moves, AllMove, BrokerInv
  <2> QED
    BY <1>1, <1>4, <1>5, <1>6, <1>7, <2>1, <2>2, BrokerStep DEF BrokerInv
<1> QED
  BY <1>8, <1>9

\* Every step keeps BrokerInv.
LEMMA NextBroker == IInv /\ TaskInv /\ BrokerInv /\ [Next]_vars => BrokerInv'
<1> SUFFICES ASSUME IInv, TaskInv, BrokerInv, [Next]_vars PROVE BrokerInv'
  OBVIOUS
<1>0. Extractors \subseteq Workers /\ Embedders \subseteq Workers
  BY DEF Workers
<1>1. CASE \E d \in Docs : Upload(d) \/ UploadFails(d)
  BY <1>1, UploadBroker
<1>2. CASE (\E d \in Docs : Extract(d)) \/ (\E j \in LlmJobs : Embed(j))
  <2>1. PICK w \in Workers, j \in Jobs, s \in {"convert", "load"} : Take(w, j, s)
    BY <1>0, <1>2, JobsFiles DEF Extract, OnExtractionMessage, Embed, OnLlmMessage, LlmJobs
  <2> QED
    BY <2>1, TakeBroker
<1>3. CASE \E w \in Workers : ConnectionLost(w) \/ Crash(w)
  BY <1>3, LossBroker DEF ConnectionLost, Crash
<1>4. CASE \E w \in Workers : \/ CompleteExtraction(w) \/ ExtractionAnswerFails(w) \/ StaleAnswer(w)
                              \/ CompleteLlm(w) \/ LlmAnswerFails(w) \/ StaleLlmAnswer(w)
  BY <1>4, AnswerBroker
<1>5. CASE \/ \E w \in Workers : \/ OpenArtifact(w) \/ CloseArtifact(w) \/ WriteFails(w) \/ Convert(w)
                                 \/ LoadChunks(w) \/ EmbedBatch(w) \/ EmbedFails(w)
           \/ \E e \in Embedders : Flush(e) \/ FlushFails(e)
           \/ UNCHANGED vars
  <2>1. UNCHANGED <<at, count, answers, dead, skipped>> /\ (UNCHANGED faults \/ Fault)
    BY <1>5 DEF OpenArtifact, CloseArtifact, WriteFails, UnchangedByWrite, Convert, LoadChunks,
       EmbedBatch, EmbedFails, UnchangedByEmbedding, Flush, FlushFails, UnchangedByFlush,
       brokerVars, vars
  <2> QED
    BY <2>1, BrokerQuiet
<1> QED
  BY <1>0, <1>1, <1>2, <1>3, <1>4, <1>5 DEF Next, Work
-----------------------------------------------------------------------------
(* The history of the LLM worker.                                           *)

Events == [job : LlmJobs, status : {"processing"} \cup Verdicts]

\* By a history that has still to write l and whose row of job j is r, the job has
\* ended: there is a verdict, and one behind every other event of the job.
Ended(l, r, j) ==
    /\ r \in Verdicts \/ \E i \in 1 .. Len(l) : l[i].job = j /\ l[i].status \in Verdicts
    /\ \A i \in 1 .. Len(l) :
          l[i].job = j /\ l[i].status \notin Verdicts =>
              \E k \in i + 1 .. Len(l) : l[k].job = j /\ l[k].status \in Verdicts

LogInv ==
    /\ log \in [Embedders -> Seq(Events)]
    /\ rows \in [Embedders -> [LlmJobs -> {"none", "processing"} \cup Verdicts]]
    /\ forgotten \subseteq LlmJobs
    /\ \A j \in LlmJobs : at[j] = "settled" =>
          j \in forgotten \/ \E e \in Embedders : Ended(log[e], rows[e][j], j)

\* A verdict ends its job, ...
LEMMA VerdictEnds ==
    ASSUME NEW l \in Seq(Events), NEW r, NEW j \in LlmJobs, NEW v \in Verdicts
    PROVE  /\ Append(l, [job |-> j, status |-> v]) \in Seq(Events)
           /\ Ended(Append(l, [job |-> j, status |-> v]), r, j)
<1> DEFINE a == [job |-> j, status |-> v]
           m == Append(l, a)
<1>1. a \in Events /\ a.job = j /\ a.status \in Verdicts
  BY DEF Events
<1>2. /\ m \in Seq(Events) /\ Len(l) \in Nat /\ Len(m) = Len(l) + 1 /\ m[Len(m)] = a
  BY <1>1
<1> HIDE DEF a, m
<1>3. \A i \in 1 .. Len(m) : m[i].status \notin Verdicts => Len(m) \in i + 1 .. Len(m)
  BY <1>1, <1>2
<1>4. Len(m) \in 1 .. Len(m)
  BY <1>2
<1>5. Ended(m, r, j)
  BY <1>1, <1>2, <1>3, <1>4 DEF Ended
<1> QED
  BY <1>2, <1>5 DEF a, m

\* ... and a job that has ended only begins again with an event of its own.
LEMMA EndedStays ==
    ASSUME NEW l \in Seq(Events), NEW r, NEW j \in LlmJobs, Ended(l, r, j), NEW a \in Events,
           a.job = j => a.status \in Verdicts
    PROVE  Ended(Append(l, a), r, j)
<1> DEFINE m == Append(l, a)
<1>1. /\ Len(l) \in Nat /\ Len(m) = Len(l) + 1 /\ m[Len(m)] = a
      /\ \A i \in 1 .. Len(l) : m[i] = l[i] /\ i \in 1 .. Len(m)
  OBVIOUS
<1> HIDE DEF m
<1>2. r \in Verdicts \/ \E i \in 1 .. Len(m) : m[i].job = j /\ m[i].status \in Verdicts
  BY <1>1 DEF Ended
<1>3. ASSUME NEW i \in 1 .. Len(m), m[i].job = j, m[i].status \notin Verdicts
      PROVE  \E k \in i + 1 .. Len(m) : m[k].job = j /\ m[k].status \in Verdicts
  <2>1. i # Len(m)
    BY <1>1, <1>3
  <2>2. i \in 1 .. Len(l) /\ l[i] = m[i]
    BY <1>1, <2>1
  <2>3. PICK k \in i + 1 .. Len(l) : l[k].job = j /\ l[k].status \in Verdicts
    BY <1>3, <2>2 DEF Ended
  <2>4. k \in 1 .. Len(l) /\ k \in i + 1 .. Len(m)
    BY <1>1, <2>2, <2>3
  <2> QED
    BY <1>1, <2>3, <2>4
<1>4. Ended(m, r, j)
  BY <1>2, <1>3 DEF Ended
<1> QED
  BY <1>4 DEF m

\* The history of e changes in a step that settles nobody.
LEMMA LogStep ==
    ASSUME LogInv, NEW e \in Embedders, NEW l \in Seq(Events), log' = [log EXCEPT ![e] = l],
           UNCHANGED rows, forgotten \subseteq forgotten', forgotten' \subseteq LlmJobs,
           \A j \in LlmJobs : at'[j] = "settled" =>
              \/ j \in forgotten'
              \/ Ended(l, rows[e][j], j)
              \/ at[j] = "settled" /\ (Ended(log[e], rows[e][j], j) => Ended(l, rows[e][j], j))
    PROVE  LogInv'
<1>1. log' \in [Embedders -> Seq(Events)] /\ \A f \in Embedders \ {e} : log'[f] = log[f]
  BY DEF LogInv
<1>2. log'[e] = l
  BY DEF LogInv
<1>3. ASSUME NEW j \in LlmJobs, at'[j] = "settled"
      PROVE  j \in forgotten' \/ \E f \in Embedders : Ended(log'[f], rows'[f][j], j)
  <2>1. CASE j \in forgotten' \/ Ended(l, rows[e][j], j)
    BY <1>2, <2>1
  <2>2. CASE /\ at[j] = "settled" /\ j \notin forgotten'
             /\ Ended(log[e], rows[e][j], j) => Ended(l, rows[e][j], j)
    <3>1. PICK f \in Embedders : Ended(log[f], rows[f][j], j)
      BY <2>2 DEF LogInv
    <3> QED
      BY <1>1, <1>2, <2>2, <3>1
  <2> QED
    BY <1>3, <2>1, <2>2
<1> QED
  BY <1>1, <1>3 DEF LogInv

\* Nothing is recorded and no LLM job settled.
LEMMA LogQuiet ==
    ASSUME LogInv, UNCHANGED <<log, rows, forgotten>>,
           \A j \in LlmJobs : at'[j] = "settled" => at[j] = "settled"
    PROVE  LogInv'
BY DEF LogInv

\* An embedder that has an answer has a job of its own.
LEMMA AnswersLlm ==
    ASSUME IInv, TaskInv, NEW e \in Embedders, Answering(e)
    PROVE  task[e].job \in LlmJobs /\ task[e].verdict \in Verdicts /\ e \in Workers
<1>1. e \in Workers /\ e \notin Extractors
  BY FlowAssumption DEF Workers
<1>2. task[e].job \in Jobs /\ task[e].verdict \in Verdicts
  BY <1>1, AtWork DEF Answering, Tasks
<1>3. task[e].job[2] # 0
  BY <1>1 DEF Answering, TaskInv, Role
<1>4. task[e].job[2] \in 0 .. MaxFaults + 1
  BY <1>2 DEF Jobs
<1>5. task[e].job[2] > 0
  BY <1>3, <1>4, FlowAssumption
<1> QED
  BY <1>1, <1>2, <1>5 DEF LlmJobs

\* An execution answers and settles at most its own job.
LEMMA AnswerLog ==
    ASSUME IInv, TaskInv, BrokerInv, LogInv, NEW e \in Embedders,
           CompleteLlm(e) \/ LlmAnswerFails(e) \/ StaleLlmAnswer(e)
    PROVE  LogInv'
<1> DEFINE j == task[e].job
           v == task[e].verdict
           one == Append(log[e], [job |-> j, status |-> v])
           err == Append(log[e], [job |-> j, status |-> "error"])
           two == Append(one, [job |-> j, status |-> "error"])
<1>1. Answering(e) /\ UNCHANGED <<rows, forgotten>>
  BY DEF CompleteLlm, LlmAnswerFails, StaleLlmAnswer
<1>2. j \in LlmJobs /\ v \in Verdicts /\ "error" \in Verdicts /\ log[e] \in Seq(Events)
  BY <1>1, AnswersLlm DEF LogInv, Verdicts
<1>3. /\ one \in Seq(Events) /\ err \in Seq(Events)
      /\ \A r : Ended(one, r, j) /\ Ended(err, r, j)
  BY <1>2, VerdictEnds
<1>4. two \in Seq(Events) /\ \A r : Ended(two, r, j)
  BY <1>2, <1>3, VerdictEnds
<1>5. [job |-> j, status |-> v] \in Events /\ [job |-> j, status |-> "error"] \in Events
  BY <1>2 DEF Events
<1>6. \A k \in LlmJobs : \A r :
         Ended(log[e], r, k) => Ended(one, r, k) /\ Ended(err, r, k)
  BY <1>2, <1>5, EndedStays
<1>7. \A k \in LlmJobs : \A r : Ended(one, r, k) => Ended(two, r, k)
  BY <1>2, <1>3, <1>5, EndedStays
<1>8. two = log[e] \o <<[job |-> j, status |-> v], [job |-> j, status |-> "error"]>>
  BY <1>2, <1>5
<1> HIDE DEF one, err, two
<1>9. /\ \A k \in LlmJobs : at'[k] = "settled" => k = j \/ at[k] = "settled"
      /\ \/ UNCHANGED log /\ at'[j] # "settled"
         \/ UNCHANGED <<log, at>>
         \/ \E l \in {one, err, two} : log' = [log EXCEPT ![e] = l]
  <2>1. j \in Jobs /\ DOMAIN at = Jobs /\ LlmJobs \subseteq Jobs
    BY <1>2 DEF LlmJobs, IInv, Shape
  <2>2. CASE CompleteLlm(e)
    BY <2>1, <2>2 DEF CompleteLlm, Records, one
  <2>3. CASE StaleLlmAnswer(e)
    BY <2>3 DEF StaleLlmAnswer, Records, one
  <2>4. CASE LlmAnswerFails(e)
    <3>1. PICK s \in AfterException(j) : at' = [at EXCEPT ![j] = s] /\ LlmOutcome(e, j, s)
      BY <2>4 DEF LlmAnswerFails
    <3>2. \A k \in LlmJobs : at'[k] = IF k = j THEN s ELSE at[k]
      BY <2>1, <3>1
    <3>3. \/ UNCHANGED log /\ s # "settled"
          \/ \E l \in {one, err, two} : log' = [log EXCEPT ![e] = l]
      BY <1>8, <3>1 DEF LlmOutcome, Records, one, err
    <3> QED
      BY <1>2, <3>2, <3>3
  <2> QED
    BY <2>2, <2>3, <2>4
<1>10. CASE \E l \in {one, err, two} : log' = [log EXCEPT ![e] = l]
  <2>1. PICK l \in {one, err, two} : log' = [log EXCEPT ![e] = l]
    BY <1>10
  <2>2. /\ l \in Seq(Events) /\ \A r : Ended(l, r, j)
        /\ \A k \in LlmJobs : \A r : Ended(log[e], r, k) => Ended(l, r, k)
    BY <1>3, <1>4, <1>6, <1>7, <2>1
  <2> QED
    BY <1>1, <1>9, <2>1, <2>2, LogStep DEF LogInv
<1>11. CASE UNCHANGED log /\ ~ \E l \in {one, err, two} : log' = [log EXCEPT ![e] = l]
  <2>1. \A k \in LlmJobs : at'[k] = "settled" => at[k] = "settled"
    BY <1>9, <1>11
  <2> QED
    BY <1>1, <1>11, <2>1, LogQuiet
<1> QED
  BY <1>9, <1>10, <1>11

\* What is dropped from a history is forgotten.
LEMMA DropLog ==
    ASSUME LogInv, NEW e \in Embedders, log' = [log EXCEPT ![e] = <<>>], UNCHANGED rows,
           forgotten' = forgotten \cup {log[e][i].job : i \in DOMAIN log[e]},
           \A j \in LlmJobs : at'[j] = "settled" => at[j] = "settled"
    PROVE  LogInv'
<1>1. log[e] \in Seq(Events) /\ <<>> \in Seq(Events) /\ Len(<<>>) = 0
  BY DEF LogInv
<1>2. \A i \in DOMAIN log[e] : log[e][i] \in Events
  BY <1>1
<1>3. forgotten' \subseteq LlmJobs
  BY <1>2 DEF LogInv, Events
<1>4. ASSUME NEW j \in LlmJobs, at'[j] = "settled", j \notin forgotten'
      PROVE  at[j] = "settled" /\ (Ended(log[e], rows[e][j], j) => Ended(<<>>, rows[e][j], j))
  <2>1. \A i \in 1 .. Len(log[e]) : log[e][i].job # j
    BY <1>1, <1>4
  <2> QED
    BY <1>1, <1>4, <2>1 DEF Ended
<1> QED
  BY <1>1, <1>3, <1>4, LogStep

\* What the writer writes of an ended job is its last verdict.
LEMMA FlushLog == ASSUME LogInv, NEW e \in Embedders, Flush(e) PROVE LogInv'
<1> DEFINE l == log[e]
           Mine(j) == {i \in DOMAIN l : l[i].job = j}
           Last(j) == CHOOSE i \in Mine(j) : \A k \in Mine(j) : k <= i
<1>1. /\ log' = [log EXCEPT ![e] = <<>>] /\ UNCHANGED <<forgotten, at>>
      /\ rows' = [rows EXCEPT ![e] = [j \in LlmJobs |->
             IF Mine(j) = {} THEN rows[e][j] ELSE l[Last(j)].status]]
  BY DEF Flush, UnchangedByFlush, brokerVars
<1>2. /\ l \in Seq(Events) /\ Len(l) \in Nat /\ DOMAIN l = 1 .. Len(l)
      /\ \A i \in 1 .. Len(l) : l[i] \in Events
  BY DEF LogInv
<1>3. ASSUME NEW j \in LlmJobs, Mine(j) # {}
      PROVE  Last(j) \in Mine(j) /\ \A k \in Mine(j) : k <= Last(j)
  <2>1. Mine(j) \in SUBSET (1 .. Len(l))
    BY <1>2
  <2> HIDE DEF Mine, l
  <2>2. \E i \in Mine(j) : \A k \in Mine(j) : k <= i
    BY <1>2, <1>3, <2>1, Greatest
  <2> QED
    BY <2>2
<1> DEFINE R(j) == IF Mine(j) = {} THEN rows[e][j] ELSE l[Last(j)].status
<1>4. ASSUME NEW j \in LlmJobs PROVE R(j) \in {"none", "processing"} \cup Verdicts
  <2>1. CASE Mine(j) = {}
    BY <2>1 DEF LogInv
  <2>2. CASE Mine(j) # {}
    <3>1. Last(j) \in 1 .. Len(l)
      BY <1>2, <1>3, <2>2
    <3> HIDE DEF Last, Mine, l
    <3> QED
      BY <1>2, <2>2, <3>1 DEF Events
  <2> QED
    BY <2>1, <2>2
<1>5. ASSUME NEW j \in LlmJobs, Ended(l, rows[e][j], j) PROVE R(j) \in Verdicts
  <2>1. CASE Mine(j) = {}
    <3>1. \A i \in 1 .. Len(l) : l[i].job # j
      BY <1>2, <2>1
    <3> QED
      BY <1>5, <2>1, <3>1 DEF Ended
  <2>2. CASE Mine(j) # {}
    <3> DEFINE m == Last(j)
    <3>1. m \in 1 .. Len(l) /\ l[m].job = j /\ \A k \in 1 .. Len(l) : l[k].job = j => k <= m
      BY <1>2, <1>3, <2>2
    <3>2. R(j) = l[m].status
      BY <2>2
    <3> HIDE DEF m, R, Mine, l
    <3>3. l[m].status \in Verdicts
      <4> SUFFICES ASSUME l[m].status \notin Verdicts PROVE FALSE
        OBVIOUS
      <4>1. PICK k \in m + 1 .. Len(l) : l[k].job = j
        BY <1>5, <3>1 DEF Ended
      <4>2. k \in 1 .. Len(l) /\ m < k
        BY <1>2, <3>1, <4>1
      <4> QED
        BY <1>2, <3>1, <4>1, <4>2
    <3> QED
      BY <3>2, <3>3
  <2> QED
    BY <2>1, <2>2
<1> HIDE DEF l
<1>6. rows'[e] = [j \in LlmJobs |-> R(j)] /\ \A f \in Embedders \ {e} : rows'[f] = rows[f]
  BY <1>1 DEF LogInv
<1> HIDE DEF R
<1>7. rows' \in [Embedders -> [LlmJobs -> {"none", "processing"} \cup Verdicts]]
  <2>1. DOMAIN rows' = Embedders /\ rows' = [f \in Embedders |-> rows'[f]]
    BY <1>1 DEF LogInv
  <2>2. \A f \in Embedders : rows'[f] \in [LlmJobs -> {"none", "processing"} \cup Verdicts]
    BY <1>4, <1>6 DEF LogInv
  <2> QED
    BY <2>1, <2>2
<1>8. log'[e] = <<>> /\ \A f \in Embedders \ {e} : log'[f] = log[f]
  BY <1>1 DEF LogInv
<1>9. log' \in [Embedders -> Seq(Events)]
  BY <1>1 DEF LogInv
<1>10. ASSUME NEW j \in LlmJobs, at'[j] = "settled"
       PROVE  j \in forgotten' \/ \E f \in Embedders : Ended(log'[f], rows'[f][j], j)
  <2>1. CASE j \in forgotten
    BY <1>1, <2>1
  <2>2. CASE j \notin forgotten
    <3>1. PICK f \in Embedders : Ended(log[f], rows[f][j], j)
      BY <1>1, <1>10, <2>2 DEF LogInv
    <3>2. CASE f # e
      BY <1>6, <1>8, <3>1, <3>2
    <3>3. CASE f = e
      <4>1. rows'[e][j] \in Verdicts
        BY <1>5, <1>6, <3>1, <3>3 DEF l
      <4>2. Len(log'[e]) = 0
        BY <1>8
      <4> QED
        BY <4>1, <4>2 DEF Ended
    <3> QED
      BY <3>2, <3>3
  <2> QED
    BY <2>1, <2>2
<1> QED
  BY <1>1, <1>7, <1>9, <1>10 DEF LogInv

\* LogInv holds at the start.
LEMMA InitLog == Init => LogInv
<1> SUFFICES ASSUME Init PROVE LogInv
  OBVIOUS
<1>1. <<>> \in Seq(Events) /\ LlmJobs \subseteq Jobs
  BY DEF LlmJobs
<1>2. \A j \in LlmJobs : at[j] # "settled"
  BY <1>1 DEF Init
<1> QED
  BY <1>1, <1>2 DEF Init, LogInv

\* What is not answered by the LLM worker settles no LLM job.
LEMMA SettlesNone ==
    ASSUME IInv, TaskInv, BrokerInv,
           \/ UNCHANGED at
           \/ \E d \in Docs : Enqueue(d)
           \/ \E w \in Workers : at' = Requeued(w)
           \/ \E w \in Workers, j \in Jobs : at' = [at EXCEPT ![j] = w]
           \/ \E x \in Extractors : CompleteExtraction(x) \/ ExtractionAnswerFails(x) \/ StaleAnswer(x)
    PROVE  \A j \in LlmJobs : at'[j] = "settled" => at[j] = "settled"
<1> SUFFICES ASSUME NEW j \in LlmJobs, at'[j] = "settled" PROVE at[j] = "settled"
  OBVIOUS
<1>0. j \in Jobs /\ DOMAIN at = Jobs /\ j[2] # 0
  BY DEF LlmJobs, IInv, Shape
<1>1. CASE UNCHANGED at
  BY <1>1
<1>2. CASE \E d \in Docs : Enqueue(d)
  BY <1>0, <1>2 DEF Enqueue
<1>3. CASE \E w \in Workers : at' = Requeued(w)
  BY <1>0, <1>3 DEF Requeued
<1>4. CASE \E w \in Workers, k \in Jobs : at' = [at EXCEPT ![k] = w]
  BY <1>0, <1>4, JobsFiles
<1>5. ASSUME NEW x \in Extractors,
             CompleteExtraction(x) \/ ExtractionAnswerFails(x) \/ StaleAnswer(x)
      PROVE  at[j] = "settled"
  <2> DEFINE k == task[x].job
             v == task[x].verdict
  <2>1. x \in Workers /\ Answering(x)
    BY <1>5 DEF Workers, CompleteExtraction, ExtractionAnswerFails, StaleAnswer
  <2>2. k # j
    BY <1>0, <2>1 DEF Answering, TaskInv, Role
  <2>3. \/ UNCHANGED at
        \/ \E s : at' = [at EXCEPT ![k] = s] \/ at' = Published([at EXCEPT ![k] = s], k, v)
    BY <1>5 DEF CompleteExtraction, ExtractionAnswerFails, StaleAnswer
  <2>4. \A s : Published([at EXCEPT ![k] = s], k, v)[j] \in {"ready", at[j]}
    BY <1>0, <2>2 DEF Published
  <2>5. \A s : [at EXCEPT ![k] = s][j] = at[j]
    BY <1>0, <2>2
  <2> QED
    BY <2>3, <2>4, <2>5
<1> QED
  BY <1>1, <1>2, <1>3, <1>4, <1>5

\* A job that is taken has not ended.
LEMMA TakeLog ==
    ASSUME IInv, TaskInv, BrokerInv, LogInv, NEW e \in Embedders, NEW j \in LlmJobs,
           OnLlmMessage(e, j)
    PROVE  LogInv'
<1> DEFINE a == [job |-> j, status |-> "processing"]
           l == Append(log[e], a)
<1>1. /\ log' = [log EXCEPT ![e] = l] /\ UNCHANGED <<rows, forgotten>>
      /\ at[j] = "ready" /\ at' = [at EXCEPT ![j] = e] /\ e \in Workers /\ j \in Jobs
  BY DEF OnLlmMessage, Take, Records, Workers, LlmJobs
<1>2. log[e] \in Seq(Events) /\ a \in Events /\ a.job = j
  BY DEF LogInv, Events
<1>3. l \in Seq(Events)
  BY <1>2
<1>4. \A k \in LlmJobs : at'[k] = "settled" => at[k] = "settled"
  BY <1>1, SettlesNone
<1>5. \A k \in LlmJobs : at[k] = "settled" => k # j
  BY <1>1
<1>6. ASSUME NEW k \in LlmJobs, k # j
      PROVE  Ended(log[e], rows[e][k], k) => Ended(l, rows[e][k], k)
  BY <1>2, <1>6, EndedStays
<1> HIDE DEF l
<1> QED
  BY <1>1, <1>3, <1>4, <1>5, <1>6, LogStep DEF LogInv

\* A crash drops what the worker has not written.
LEMMA CrashLog ==
    ASSUME IInv, TaskInv, BrokerInv, LogInv, NEW w \in Workers, Crash(w) PROVE LogInv'
<1>1. UNCHANGED rows /\ \A j \in LlmJobs : at'[j] = "settled" => at[j] = "settled"
  BY SettlesNone DEF Crash
<1>2. CASE w \in Embedders
  BY <1>1, <1>2, DropLog DEF Crash, Forget
<1>3. CASE w \notin Embedders
  BY <1>1, <1>3, LogQuiet DEF Crash, Forget
<1> QED
  BY <1>2, <1>3

\* Every step keeps LogInv.
LEMMA NextLog == IInv /\ TaskInv /\ BrokerInv /\ LogInv /\ [Next]_vars => LogInv'
<1> SUFFICES ASSUME IInv, TaskInv, BrokerInv, LogInv, [Next]_vars PROVE LogInv'
  OBVIOUS
<1>0. Extractors \subseteq Workers /\ Embedders \subseteq Workers
  BY DEF Workers
<1>1. CASE \E d \in Docs : Upload(d) \/ UploadFails(d)
  <2>1. UNCHANGED <<log, rows, forgotten>> /\ (UNCHANGED at \/ \E d \in Docs : Enqueue(d))
    BY <1>1 DEF Upload, UploadFails, RejectUpload, StoreUpload, PublishUpload, DeleteUpload,
       PublishUploadRaises, UploadCrashes, UnchangedByUpload, storeVars
  <2> QED
    BY <2>1, SettlesNone, LogQuiet
<1>2. CASE \E d \in Docs : Extract(d)
  <2>1. PICK d \in Docs, x \in Extractors : Take(x, ExtractJob(d), "convert") /\ UNCHANGED log
    BY <1>2 DEF Extract, OnExtractionMessage
  <2>2. UNCHANGED <<log, rows, forgotten>> /\ at' = [at EXCEPT ![ExtractJob(d)] = x]
    BY <2>1 DEF Take
  <2>3. ExtractJob(d) \in Jobs /\ x \in Workers
    BY <1>0, JobsFiles
  <2> QED
    BY <2>2, <2>3, SettlesNone, LogQuiet
<1>3. CASE \E j \in LlmJobs : Embed(j)
  BY <1>3, TakeLog DEF Embed
<1>4. CASE \E w \in Workers : Crash(w)
  BY <1>4, CrashLog
<1>5. CASE \E w \in Workers : ConnectionLost(w)
  BY <1>5, SettlesNone, LogQuiet DEF ConnectionLost, storeVars
<1>6. CASE \E e \in Embedders : CompleteLlm(e) \/ LlmAnswerFails(e) \/ StaleLlmAnswer(e)
  BY <1>6, AnswerLog
<1>7. CASE \E x \in Extractors : CompleteExtraction(x) \/ ExtractionAnswerFails(x) \/ StaleAnswer(x)
  <2>1. UNCHANGED <<log, rows, forgotten>>
    BY <1>7 DEF CompleteExtraction, ExtractionAnswerFails, StaleAnswer, storeVars
  <2> QED
    BY <1>7, <2>1, SettlesNone, LogQuiet
<1>8. CASE \E e \in Embedders : Flush(e)
  BY <1>8, FlushLog
<1>9. CASE \E e \in Embedders : FlushFails(e)
  BY <1>9, SettlesNone, DropLog DEF FlushFails, UnchangedByFlush, brokerVars
<1>10. CASE \/ \E w \in Workers : \/ OpenArtifact(w) \/ CloseArtifact(w) \/ WriteFails(w)
                                  \/ Convert(w) \/ LoadChunks(w) \/ EmbedBatch(w) \/ EmbedFails(w)
            \/ UNCHANGED vars
  <2>1. UNCHANGED <<at, log, rows, forgotten>>
    BY <1>10 DEF OpenArtifact, CloseArtifact, WriteFails, UnchangedByWrite, Convert, LoadChunks,
       EmbedBatch, EmbedFails, UnchangedByEmbedding, brokerVars, storeVars, vars
  <2> QED
    BY <2>1, LogQuiet
<1> QED
  BY <1>0, <1>1, <1>2, <1>3, <1>4, <1>5, <1>6, <1>7, <1>8, <1>9, <1>10 DEF Next, Work
-----------------------------------------------------------------------------
\* Uploads and files have their types.
FilesInv ==
    /\ upload \in [Docs -> {"none", "stored", "queued", "unqueued", "error", "aborted"}]
    /\ disk \in [Files -> {"absent", "torn", "whole"}]
    /\ damaged \subseteq Files

\* Only files of shared storage are written or damaged.
LEMMA FileOf == ASSUME IInv, NEW w \in Workers, task[w].step \in Artifacts PROVE File(w) \in Files
<1>1. task[w].job \in Jobs
  BY DEF IInv, Shape, TaskOK, Artifacts
<1> QED
  BY <1>1, JobsFiles DEF File

\* Every step keeps FilesInv.
LEMMA NextFiles == IInv /\ FilesInv /\ [Next]_vars => FilesInv'
<1> SUFFICES ASSUME IInv, FilesInv, [Next]_vars PROVE FilesInv'
  OBVIOUS
<1>1. CASE \E d \in Docs : Upload(d) \/ UploadFails(d)
  <2>1. PICK d \in Docs : Upload(d) \/ UploadFails(d)
    BY <1>1
  <2>2. <<"input", d>> \in Files
    BY JobsFiles
  <2>3. UNCHANGED damaged
    BY <2>1 DEF Upload, UploadFails, RejectUpload, StoreUpload, PublishUpload, DeleteUpload,
       PublishUploadRaises, UploadCrashes, UnchangedByUpload
  <2>4. \E s \in {"stored", "queued", "unqueued", "error", "aborted"} : Respond(d, s)
    BY <2>1 DEF Upload, UploadFails, RejectUpload, StoreUpload, PublishUpload, DeleteUpload,
       PublishUploadRaises, UploadCrashes
  <2>5. \/ UNCHANGED disk
        \/ \E s \in {"absent", "torn", "whole"} : disk' = [disk EXCEPT ![<<"input", d>>] = s]
    BY <2>1 DEF Upload, UploadFails, RejectUpload, StoreUpload, PublishUpload, DeleteUpload,
       PublishUploadRaises, UploadCrashes
  <2> QED
    BY <2>2, <2>3, <2>4, <2>5 DEF FilesInv, Respond
<1>2. CASE \E w \in Workers : OpenArtifact(w) \/ CloseArtifact(w)
  <2>1. PICK w \in Workers : OpenArtifact(w) \/ CloseArtifact(w)
    BY <1>2
  <2>2. File(w) \in Files
    BY <2>1, FileOf DEF OpenArtifact, CloseArtifact, IInv, Shape, TaskOK
  <2>3. /\ UNCHANGED <<upload, damaged>>
        /\ \/ disk' = [disk EXCEPT ![File(w)] = "torn"]
           \/ disk' = [disk EXCEPT ![File(w)] = "whole"]
           \/ disk' = [disk EXCEPT ![File(w)] = disk[File(w)]]
    BY <2>1, <2>2 DEF OpenArtifact, CloseArtifact, UnchangedByWrite, FilesInv
  <2> QED
    BY <2>2, <2>3 DEF FilesInv
<1>3. CASE \E w \in Workers : WriteFails(w) \/ Crash(w)
  <2>1. PICK w \in Workers : WriteFails(w) \/ Crash(w)
    BY <1>3
  <2>2. Damage(w) /\ UNCHANGED <<upload, disk>>
    BY <2>1 DEF WriteFails, Crash, UnchangedByWrite
  <2>3. task[w].open => File(w) \in Files
    BY FileOf DEF IInv, Shape, TaskOK
  <2> QED
    BY <2>2, <2>3 DEF FilesInv, Damage
<1>4. CASE \/ \E w \in Workers :
                 \/ Convert(w) \/ LoadChunks(w) \/ EmbedBatch(w) \/ EmbedFails(w)
                 \/ CompleteExtraction(w) \/ ExtractionAnswerFails(w) \/ StaleAnswer(w)
                 \/ CompleteLlm(w) \/ LlmAnswerFails(w) \/ StaleLlmAnswer(w)
                 \/ ConnectionLost(w)
           \/ \E w \in Workers : \E j, s : Take(w, j, s)
           \/ \E e \in Embedders : Flush(e) \/ FlushFails(e)
           \/ UNCHANGED vars
  <2>1. UNCHANGED <<upload, disk, damaged>>
    BY <1>4 DEF Convert, LoadChunks, EmbedBatch, EmbedFails, UnchangedByEmbedding,
       CompleteExtraction, ExtractionAnswerFails, StaleAnswer, CompleteLlm, LlmAnswerFails,
       StaleLlmAnswer, UnchangedByAnswer, ConnectionLost, Take, Flush, FlushFails,
       UnchangedByFlush, diskVars, vars
  <2> QED
    BY <2>1 DEF FilesInv
<1> QED
  BY <1>1, <1>2, <1>3, <1>4 DEF Next, Work, Workers, Extract, Embed, OnExtractionMessage, OnLlmMessage

\* FilesInv holds at the start.
LEMMA InitFiles == Init => FilesInv
BY DEF Init, FilesInv

\* The parts of the invariant together.
FlowInv == IInv /\ TaskInv /\ BrokerInv /\ LogInv /\ FilesInv

\* FlowInv is inductive.
LEMMA FlowInvariant == Spec => []FlowInv
<1>1. Init => FlowInv
  BY InitInv, InitTask, InitBroker, InitLog, InitFiles DEF FlowInv
<1>2. FlowInv /\ [Next]_vars => FlowInv'
  BY NextInv, NextTask, NextBroker, NextLog, NextFiles DEF FlowInv
<1> QED
  BY <1>1, <1>2, PTL DEF Spec

\* Every variable has its type; and no job is delivered more often than once for
\* every fault and once more.
THEOREM TypeCorrect == Spec => []TypeOK
<1>1. ASSUME FlowInv PROVE TypeOK
  <2>1. /\ content \in [Docs -> Contents] /\ task \in [Workers -> Tasks] /\ DOMAIN artifact = Docs
    BY <1>1 DEF FlowInv, TaskInv
  <2>2. /\ upload \in [Docs -> {"none", "stored", "queued", "unqueued", "error", "aborted"}]
        /\ disk \in [Files -> {"absent", "torn", "whole"}]
        /\ damaged \subseteq Files
    BY <1>1 DEF FlowInv, FilesInv
  <2>3. count \in [Jobs -> 0 .. MaxFaults + 1]
    <3>1. \A j \in Jobs : count[j] \in 0 .. MaxFaults + 1
      BY <1>1, FlowAssumption DEF FlowInv, BrokerInv
    <3> QED
      BY <1>1, <3>1 DEF FlowInv, BrokerInv
  <2>4. /\ at \in [Jobs -> {"none", "ready", "settled"} \cup Workers]
        /\ answers \in [Jobs -> SUBSET Verdicts] /\ dead \subseteq Jobs /\ skipped \subseteq Profiled
        /\ faults \in 0 .. MaxFaults
    BY <1>1 DEF FlowInv, BrokerInv, Places
  <2>5. /\ DOMAIN log = Embedders /\ forgotten \subseteq LlmJobs
        /\ rows \in [Embedders -> [LlmJobs -> {"none", "processing"} \cup Verdicts]]
    BY <1>1 DEF FlowInv, LogInv
  <2>6. inputless \subseteq Docs
    BY <1>1 DEF FlowInv, IInv, Shape
  <2> QED
    BY <2>1, <2>2, <2>3, <2>4, <2>5, <2>6 DEF TypeOK
<1>2. FlowInv => TypeOK
  BY <1>1
<1> QED
  BY <1>2, FlowInvariant, PTL

\* How a settled LLM job ended is recorded, whatever replicas and stale executions
\* of it record besides, unless what was recorded died with a process or a batch.
THEOREM SettledIsRecorded == Spec => []SettledLlmJobIsRecorded
<1>1. ASSUME FlowInv PROVE SettledLlmJobIsRecorded
  <2> SUFFICES ASSUME NEW j \in LlmJobs, at[j] = "settled", j \notin forgotten
               PROVE  \E e \in Embedders :
                         \/ rows[e][j] \in Verdicts
                         \/ \E i \in DOMAIN log[e] : log[e][i].job = j /\ log[e][i].status \in Verdicts
    BY DEF SettledLlmJobIsRecorded
  <2>1. PICK e \in Embedders : Ended(log[e], rows[e][j], j)
    BY <1>1 DEF FlowInv, LogInv
  <2>2. DOMAIN log[e] = 1 .. Len(log[e])
    BY <1>1 DEF FlowInv, LogInv
  <2> QED
    BY <2>1, <2>2 DEF Ended
<1>2. FlowInv => SettledLlmJobIsRecorded
  BY <1>1
<1> QED
  BY <1>2, FlowInvariant, PTL
=============================================================================
