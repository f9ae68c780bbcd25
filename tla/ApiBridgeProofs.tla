--------------------------- MODULE ApiBridgeProofs ---------------------------
(***************************************************************************)
(* Proofs about ApiBridge for every set of uploads and every number of     *)
(* executions, database errors, lost connections and crashes.              *)
(*                                                                         *)
(* The inductive invariant follows an upload from its request to the       *)
(* workers: OutboxInv says what the outbox row of a job stands for, and    *)
(* EnqueuedInv that RabbitMQ has the job before its row is marked.  On the *)
(* way back JustifiedInv follows a verdict from the worker that publishes  *)
(* it, through the queue, into the jobs table.                             *)
(***************************************************************************)
EXTENDS ApiBridge, TLAPS

OutboxInv ==
    \A j \in Jobs :
        /\ request[j] = "stored" => j \in stored
        /\ outbox[j] = "absent" <=> row[j].state = "none"
        /\ request[j] \in {"none", "stored", "503 storage"} => outbox[j] = "absent"
        /\ request[j] = "waiting" => outbox[j] # "absent"
        /\ outbox[j] # "absent" => j \in stored

EnqueuedInv ==
    \A j \in Jobs :
        /\ outbox[j] = "published" => j \in enqueued
        /\ confirmed = j => j \in enqueued /\ outbox[j] # "absent"
        /\ j \in enqueued => outbox[j] # "absent"
        /\ messages[j] > 0 => j \in enqueued
        /\ request[j] = "201" => outbox[j] = "published"

\* A message that the workers have a reason for.
Justified(m) ==
    CASE m.queue = "lifecycle" -> runs[m.job] > 0
      [] m.queue = "result"    -> m.verdict \in verdicts[m.job]
      [] m.queue = "llm"       -> m.verdict \in llmVerdicts[m.job]

JustifiedInv ==
    /\ \A m \in inbound : Justified(m)
    /\ \A j \in Jobs : followups[j] > 0 \/ llmVerdicts[j] # {} => "ok" \in verdicts[j]
    /\ ProjectionIsJustified
-----------------------------------------------------------------------------
\* What an UPDATE makes of a row is a row; it creates none and ends none.
LEMMA ProjectedRow ==
    ASSUME NEW r \in Rows, NEW m \in Messages
    PROVE  /\ Projected(r, m) \in Rows
           /\ Projected(r, m).state = "none" <=> r.state = "none"
           /\ r.state \in Finished => Projected(r, m).state \in Finished
<1>1. CASE r.state = "none"
  BY <1>1 DEF Projected, Finished
<1>2. CASE r.state # "none"
  <2>1. CASE m.queue = "lifecycle"
    <3>1. Projected(r, m) = [r EXCEPT !.state = IF r.state = "queued" THEN "processing" ELSE @]
      BY <1>2, <2>1 DEF Projected
    <3> QED
      BY <1>2, <3>1 DEF Rows, Finished
  <2>2. CASE m.queue = "result"
    <3> DEFINE n == r.completions + 1
    <3>1. Projected(r, m) = [r EXCEPT !.state = Outcome(m.verdict),
                                      !.available = (m.verdict = "ok"), !.completions = n]
      BY <1>2, <2>2 DEF Projected
    <3>2. n \in Nat
      BY DEF Rows
    <3> HIDE DEF n
    <3> QED
      BY <1>2, <3>1, <3>2 DEF Rows, Finished, Outcome
  <2>3. CASE m.queue = "llm"
    BY <1>2, <2>3 DEF Projected, Rows, Finished, Outcome
  <2> QED
    BY <2>1, <2>2, <2>3 DEF Messages
<1> QED
  BY <1>1, <1>2

\* A published verdict is added to those of its job.
LEMMA AddedVerdict ==
    ASSUME NEW f \in [Jobs -> SUBSET Verdicts], NEW j \in Jobs, NEW v \in Verdicts
    PROVE  [f EXCEPT ![j] = @ \cup {v}] \in [Jobs -> SUBSET Verdicts]
OBVIOUS

\* The numbers among the variables.
Counters ==
    /\ messages \in [Jobs -> Nat] /\ working \in [Jobs -> Nat] /\ runs \in [Jobs -> Nat]
    /\ followups \in [Jobs -> Nat]
    /\ dbErrors \in Nat /\ drops \in Nat /\ crashes \in Nat

\* A step leaves the numbers numbers.
LEMMA CountersStep == ASSUME Counters, [Next]_vars PROVE Counters'
<1>0. CASE Work
  <2>1. PICK j \in Jobs : \/ WorkerStarts(j) \/ WorkerDeadLetters(j)
                          \/ \E v \in Verdicts : WorkerAnswers(j, v) \/ LlmWorkerAnswers(j, v)
    BY <1>0 DEF Work
  <2>2. CASE WorkerStarts(j)
    BY <2>2 DEF Counters, bounds, WorkerStarts, UnchangedByWork
  <2>3. CASE WorkerDeadLetters(j)
    BY <2>3 DEF Counters, bounds, WorkerDeadLetters, UnchangedByWork
  <2>4. ASSUME NEW v \in Verdicts, WorkerAnswers(j, v) PROVE Counters'
    <3>1. working' \in [Jobs -> Nat] /\ messages' \in [Jobs -> Nat]
      BY <2>4 DEF Counters, bounds, WorkerAnswers
    <3>2. followups' \in [Jobs -> Nat]
      BY <2>4 DEF Counters, bounds, WorkerAnswers
    <3> QED
      BY <2>4, <3>1, <3>2 DEF Counters, bounds, WorkerAnswers, UnchangedByWork
  <2>5. ASSUME NEW v \in Verdicts, LlmWorkerAnswers(j, v) PROVE Counters'
    BY <2>5 DEF Counters, bounds, LlmWorkerAnswers, UnchangedByWork
  <2> QED
    BY <2>1, <2>2, <2>3, <2>4, <2>5
<1>4. Work \/ Submit \/ Bridge \/ Disconnect \/ Crash \/ UNCHANGED vars
  BY DEF Next
<1> USE DEF Counters, apiVars, bridgeVars, workVars, bounds
<1>1. CASE Submit
  <2>1. UNCHANGED <<messages, workVars, drops, crashes>>
    BY <1>1 DEF Submit, StoreUpload, CreateJob, CreateJobFails, WaitEnds, WaitFails,
                UnchangedByRequest
  <2>2. dbErrors' = dbErrors \/ dbErrors' = dbErrors + 1
    BY <1>1 DEF Submit, StoreUpload, CreateJob, CreateJobFails, WaitEnds, WaitFails, DbError
  <2>3. dbErrors' \in Nat
    BY <2>2
  <2> QED
    BY <2>1, <2>3
<1>2. CASE Bridge \/ Disconnect
  <2>1. messages' = messages \/ \E j \in Jobs : messages' = [messages EXCEPT ![j] = @ + 1]
    BY <1>2 DEF Bridge, Connect, PublishOutbox, MarkPublished, MarkPublishedFails, Project,
                ProjectFails, AckProjected, Disconnect
  <2>2. messages' \in [Jobs -> Nat]
    BY <2>1
  <2>3. UNCHANGED workVars
    BY <1>2 DEF Bridge, Connect, PublishOutbox, MarkPublished, MarkPublishedFails, Project,
                ProjectFails, AckProjected, Disconnect, UnchangedByBridge
  <2>4. /\ dbErrors' = dbErrors \/ dbErrors' = dbErrors + 1
        /\ drops' = drops \/ drops' = drops + 1
        /\ crashes' = crashes
    BY <1>2 DEF Bridge, Connect, PublishOutbox, MarkPublished, MarkPublishedFails, Project,
                ProjectFails, AckProjected, Disconnect, DbError
  <2>5. dbErrors' \in Nat /\ drops' \in Nat /\ crashes' \in Nat
    BY <2>4
  <2> QED
    BY <2>2, <2>3, <2>5
<1>3. CASE Crash
  <2>1. crashes' = crashes + 1 /\ UNCHANGED <<messages, workVars, dbErrors, drops>>
    BY <1>3 DEF Crash
  <2>2. crashes' \in Nat
    BY <2>1
  <2> QED
    BY <2>1, <2>2
<1>5. CASE UNCHANGED vars
  BY <1>5 DEF vars
<1> HIDE DEF Counters, apiVars, bridgeVars, workVars, bounds
<1> QED
  BY <1>0, <1>1, <1>2, <1>3, <1>4, <1>5

\* Every variable keeps its type.
THEOREM TypeCorrect == Spec => []TypeOK
<1>1. Init => TypeOK
  BY NoneAssumption, ApiAssumption DEF Init, TypeOK, NoRow, Rows
<1>2. TypeOK /\ [Next]_vars => TypeOK'
  <2> SUFFICES ASSUME TypeOK, [Next]_vars PROVE TypeOK'
    OBVIOUS
  <2>0. Counters'
    BY CountersStep DEF Counters, TypeOK
  <2> USE <2>0 DEF Counters, TypeOK, apiVars, bridgeVars, workVars, bounds
  <2>1. ASSUME NEW j \in Jobs,
               StoreUpload(j) \/ CreateJobFails(j) \/ WaitEnds(j) \/ WaitFails(j)
        PROVE  TypeOK'
    <3>1. CASE StoreUpload(j)
      BY <3>1 DEF StoreUpload, Responds, UnchangedByRequest
    <3>2. CASE CreateJobFails(j)
      BY <3>2 DEF CreateJobFails, DbError, Responds, UnchangedByRequest
    <3>3. CASE WaitEnds(j)
      BY <3>3 DEF WaitEnds, Responds, UnchangedByRequest
    <3>4. CASE WaitFails(j)
      BY <3>4 DEF WaitFails, DbError, Responds, UnchangedByRequest
    <3> QED
      BY <2>1, <3>1, <3>2, <3>3, <3>4
  <2>2. ASSUME NEW j \in Jobs, CreateJob(j) PROVE TypeOK'
    <3>1. [NoRow EXCEPT !.state = "queued",
                        !.llm = IF j \in LlmJobs THEN "queued" ELSE "none"] \in Rows
      BY DEF NoRow, Rows
    <3> QED
      BY <2>2, <3>1 DEF CreateJob, Responds, UnchangedByRequest
  <2>3. ASSUME Connect \/ Disconnect \/ MarkPublished \/ MarkPublishedFails \/ AckProjected
        PROVE  TypeOK'
    <3>1. CASE Connect
      BY <3>1 DEF Connect, UnchangedByBridge
    <3>2. CASE Disconnect
      BY <3>2 DEF Disconnect, BridgeLoses, UnchangedByBridge
    <3>3. CASE MarkPublished
      BY <3>3 DEF MarkPublished, UnchangedByBridge
    <3>4. CASE MarkPublishedFails
      BY <3>4 DEF MarkPublishedFails, DbError, BridgeLoses, UnchangedByBridge
    <3>5. CASE AckProjected
      BY <3>5 DEF AckProjected, UnchangedByBridge
    <3> QED
      BY <2>3, <3>1, <3>2, <3>3, <3>4, <3>5
  <2>4. ASSUME NEW j \in Jobs, PublishOutbox(j) PROVE TypeOK'
    BY <2>4 DEF PublishOutbox, UnchangedByBridge
  <2>5. ASSUME NEW m \in inbound, Project(m) PROVE TypeOK'
    <3>1. m \in Messages /\ m.job \in Jobs /\ Projected(row[m.job], m) \in Rows
      BY ProjectedRow DEF Messages
    <3>2. row' \in [Jobs -> Rows]
      BY <2>5, <3>1 DEF Project
    <3> QED
      BY <2>5, <3>1, <3>2 DEF Project, UnchangedByBridge
  <2>6. ASSUME NEW m \in inbound, ProjectFails(m) PROVE TypeOK'
    BY <2>6 DEF ProjectFails, DbError, UnchangedByBridge
  <2>7. ASSUME Crash PROVE TypeOK'
    BY <2>7 DEF Crash, BridgeLoses
  <2>8. ASSUME NEW j \in Jobs, WorkerStarts(j) \/ WorkerDeadLetters(j) PROVE TypeOK'
    <3>1. Message("lifecycle", j, "ok") \in Messages
      BY DEF Message, Messages, Verdicts
    <3> QED
      BY <2>8, <3>1 DEF WorkerStarts, WorkerDeadLetters, UnchangedByWork
  <2>9. ASSUME NEW j \in Jobs, NEW v \in Verdicts, WorkerAnswers(j, v) \/ LlmWorkerAnswers(j, v)
        PROVE  TypeOK'
    <3>1. Message("result", j, v) \in Messages /\ Message("llm", j, v) \in Messages
      BY DEF Message, Messages
    <3>2. /\ inbound' \subseteq inbound \cup {Message("result", j, v), Message("llm", j, v)}
          /\ verdicts' = verdicts \/ verdicts' = [verdicts EXCEPT ![j] = @ \cup {v}]
          /\ llmVerdicts' = llmVerdicts \/ llmVerdicts' = [llmVerdicts EXCEPT ![j] = @ \cup {v}]
          /\ UnchangedByWork
      BY <2>9 DEF WorkerAnswers, LlmWorkerAnswers
    <3>3. inbound' \subseteq Messages
      BY <3>1, <3>2
    <3>4. [verdicts EXCEPT ![j] = @ \cup {v}] \in [Jobs -> SUBSET Verdicts]
      BY AddedVerdict
    <3>5. [llmVerdicts EXCEPT ![j] = @ \cup {v}] \in [Jobs -> SUBSET Verdicts]
      BY AddedVerdict
    <3>6. verdicts' \in [Jobs -> SUBSET Verdicts] /\ llmVerdicts' \in [Jobs -> SUBSET Verdicts]
      BY <3>2, <3>4, <3>5
    <3> QED
      BY <3>2, <3>3, <3>6 DEF UnchangedByWork
  <2>10. CASE UNCHANGED vars
    BY <2>10 DEF vars
  <2> QED
    BY <2>1, <2>2, <2>3, <2>4, <2>5, <2>6, <2>7, <2>8, <2>9, <2>10 DEF Next, Submit, Bridge, Work
<1> QED
  BY <1>1, <1>2, PTL DEF Spec
-----------------------------------------------------------------------------
(* From the request to the broker.                                          *)

\* The workers put no message into docrunr.jobs.
LEMMA MessagesShrink ==
    ASSUME messages \in [Jobs -> Nat], Work
    PROVE  \A k \in Jobs : messages'[k] > 0 => messages[k] > 0
<1>1. PICK j \in Jobs : \/ UNCHANGED messages
                        \/ messages' = [messages EXCEPT ![j] = @ - 1] /\ messages[j] > 0
                        \/ messages' = [messages EXCEPT ![j] = IF @ > 0 THEN @ - 1 ELSE 0]
  BY DEF Work, WorkerStarts, WorkerDeadLetters, WorkerAnswers, LlmWorkerAnswers
<1> QED
  BY <1>1

\* What the requests, the bridge and the workers do to a job's outbox row.
LEMMA OutboxStep ==
    ASSUME TypeOK, OutboxInv, EnqueuedInv, [Next]_vars
    PROVE  OutboxInv' /\ EnqueuedInv'
<1> USE DEF TypeOK, OutboxInv, EnqueuedInv
<1>1. ASSUME NEW j \in Jobs, StoreUpload(j) \/ CreateJobFails(j) \/ WaitEnds(j) \/ WaitFails(j)
      PROVE  OutboxInv' /\ EnqueuedInv'
  <2>1. UNCHANGED <<row, outbox, confirmed, messages, enqueued>>
    BY <1>1 DEF StoreUpload, CreateJobFails, WaitEnds, WaitFails, UnchangedByRequest, bridgeVars
  <2>2. PICK code : request' = [request EXCEPT ![j] = code]
    BY <1>1 DEF StoreUpload, CreateJobFails, WaitEnds, WaitFails, Responds
  <2>3. \A k \in Jobs \ {j} : request'[k] = request[k] /\ (k \in stored => k \in stored')
    BY <1>1, <2>2 DEF StoreUpload, CreateJobFails, WaitEnds, WaitFails
  <2>4. /\ request'[j] = "stored" => j \in stored'
        /\ request'[j] \in {"none", "stored", "503 storage"} => outbox[j] = "absent"
        /\ request'[j] # "waiting"
        /\ outbox[j] # "absent" => j \in stored'
        /\ request'[j] = "201" => outbox[j] = "published"
    BY <1>1 DEF StoreUpload, CreateJobFails, WaitEnds, WaitFails, Responds
  <2> QED
    BY <2>1, <2>3, <2>4
<1>2. ASSUME NEW j \in Jobs, CreateJob(j) PROVE OutboxInv' /\ EnqueuedInv'
  <2>1. /\ request[j] = "stored" /\ request' = [request EXCEPT ![j] = "waiting"]
        /\ outbox' = [outbox EXCEPT ![j] = "pending"]
        /\ row'[j].state = "queued" /\ \A k \in Jobs \ {j} : row'[k] = row[k]
        /\ UNCHANGED <<stored, confirmed, messages, enqueued>>
    BY <1>2 DEF CreateJob, Responds, NoRow, UnchangedByRequest, bridgeVars
  <2>2. \A k \in Jobs \ {j} : request'[k] = request[k] /\ outbox'[k] = outbox[k]
    BY <2>1
  <2>3. /\ request'[j] = "waiting" /\ outbox'[j] = "pending" /\ j \in stored
        /\ row'[j].state # "none"
    BY <2>1
  <2>4. OutboxInv'
    <3>1. /\ j \in stored'
          /\ \A k \in Jobs \ {j} : row'[k] = row[k] /\ (k \in stored' <=> k \in stored)
      BY <2>1, <2>3
    <3> HIDE DEF TypeOK, EnqueuedInv
    <3> QED
      BY <2>2, <2>3, <3>1
  <2>5. EnqueuedInv'
    <3>1. UNCHANGED <<confirmed, messages, enqueued>>
      BY <2>1
    <3> QED
      BY <2>2, <2>3, <3>1
  <2> QED
    BY <2>4, <2>5
<1>3. CASE Connect \/ Disconnect \/ MarkPublishedFails \/ AckProjected
  <2>1. /\ UNCHANGED <<request, stored, row, outbox, messages, enqueued>>
        /\ confirmed' \in {confirmed, None}
    BY <1>3 DEF Connect, Disconnect, MarkPublishedFails, AckProjected, BridgeLoses,
                UnchangedByBridge
  <2> QED
    BY <2>1, NoneAssumption
<1>4. ASSUME NEW j \in Jobs, PublishOutbox(j) PROVE OutboxInv' /\ EnqueuedInv'
  <2>1. /\ UNCHANGED <<request, stored, row, outbox>> /\ outbox[j] = "pending"
        /\ confirmed' = j /\ enqueued' = enqueued \cup {j}
        /\ \A k \in Jobs \ {j} : messages'[k] = messages[k]
    BY <1>4 DEF PublishOutbox, UnchangedByBridge
  <2> QED
    BY <2>1
<1>5. CASE MarkPublished
  <2>1. /\ UNCHANGED <<request, stored, row, messages, enqueued>>
        /\ confirmed' = None /\ confirmed \in Jobs
        /\ outbox' = [outbox EXCEPT ![confirmed] = "published"]
    BY <1>5 DEF MarkPublished, UnchangedByBridge
  <2>2. \A k \in Jobs : outbox'[k] = "absent" <=> outbox[k] = "absent"
    BY <2>1
  <2>3. \A k \in Jobs : outbox'[k] = "published" => outbox[k] = "published" \/ k = confirmed
    BY <2>1
  <2>4. \A k \in Jobs : outbox[k] = "published" => outbox'[k] = "published"
    BY <2>1
  <2> QED
    BY <2>1, <2>2, <2>3, <2>4, NoneAssumption
<1>6. ASSUME NEW m \in inbound, Project(m) PROVE OutboxInv' /\ EnqueuedInv'
  <2>1. /\ UNCHANGED <<request, stored, outbox, confirmed, messages, enqueued>>
        /\ row' = [row EXCEPT ![m.job] = Projected(row[m.job], m)]
    BY <1>6 DEF Project, UnchangedByBridge
  <2>2. \A k \in Jobs : row'[k].state = "none" <=> row[k].state = "none"
    BY ZenonT(30), <2>1, ProjectedRow
  <2> QED
    BY <2>1, <2>2
<1>7. ASSUME NEW m \in inbound, ProjectFails(m) PROVE OutboxInv' /\ EnqueuedInv'
  BY <1>7 DEF ProjectFails, UnchangedByBridge
<1>8. CASE Crash
  <2>1. /\ UNCHANGED <<stored, row, outbox, messages, enqueued>> /\ confirmed' = None
        /\ \A k \in Jobs : request'[k] \in {request[k], "no response"}
    BY <1>8 DEF Crash, BridgeLoses
  <2> QED
    BY <2>1, NoneAssumption
<1>9. CASE Work
  <2>1. UNCHANGED <<request, stored, row, outbox, confirmed, enqueued>>
    BY <1>9 DEF Work, WorkerStarts, WorkerDeadLetters, WorkerAnswers, LlmWorkerAnswers,
                UnchangedByWork, apiVars, bridgeVars
  <2>2. \A k \in Jobs : messages'[k] > 0 => messages[k] > 0
    BY <1>9, MessagesShrink DEF TypeOK
  <2> QED
    BY <2>1, <2>2
<1>10. CASE UNCHANGED vars
  BY <1>10 DEF vars, apiVars, bridgeVars
<1> HIDE DEF TypeOK, OutboxInv, EnqueuedInv
<1> QED
  BY <1>1, <1>2, <1>3, <1>4, <1>5, <1>6, <1>7, <1>8, <1>9, <1>10 DEF Next, Submit, Bridge

\* Both invariants hold.
LEMMA OutboxCorrect == Spec => [](OutboxInv /\ EnqueuedInv)
<1>1. Init => OutboxInv /\ EnqueuedInv
  BY NoneAssumption DEF Init, OutboxInv, EnqueuedInv, NoRow
<1> QED
  BY <1>1, OutboxStep, TypeCorrect, PTL DEF Spec

\* The input and the row of every job that the workers have or will get are there:
\* no failure path of a request takes them from under a job that is in the outbox.
THEOREM QueuedIsBacked == Spec => []QueuedJobIsBacked
<1>1. OutboxInv /\ EnqueuedInv => QueuedJobIsBacked
  BY DEF OutboxInv, EnqueuedInv, QueuedJobIsBacked
<1> QED
  BY <1>1, OutboxCorrect, PTL

\* A client that is told 201 has a job that RabbitMQ took, and one whose upload was
\* not stored has none.
THEOREM CreatedIsEnqueued == Spec => []CreatedMeansEnqueued
<1>1. OutboxInv /\ EnqueuedInv => CreatedMeansEnqueued
  BY DEF OutboxInv, EnqueuedInv, CreatedMeansEnqueued
<1> QED
  BY <1>1, OutboxCorrect, PTL
-----------------------------------------------------------------------------
(* From the workers to the jobs table.                                      *)

\* Neither a request nor the bridge touches what the workers do.
LEMMA OnlyWorkWorks == ASSUME [Next]_vars, ~Work PROVE UNCHANGED workVars
BY DEF Next, Submit, Bridge, StoreUpload, CreateJob, CreateJobFails, WaitEnds, WaitFails, Connect,
       PublishOutbox, MarkPublished, MarkPublishedFails, Project, ProjectFails, AckProjected,
       Disconnect, Crash, UnchangedByRequest, UnchangedByBridge, vars

\* What the workers have done is never undone.
LEMMA WorkGrows ==
    ASSUME TypeOK, [Next]_vars
    PROVE  \A j \in Jobs : /\ runs[j] > 0 => runs'[j] > 0
                           /\ verdicts[j] \subseteq verdicts'[j]
                           /\ llmVerdicts[j] \subseteq llmVerdicts'[j]
<1>1. CASE Work
  <2>1. PICK j \in Jobs, v \in Verdicts :
           /\ UNCHANGED runs \/ runs' = [runs EXCEPT ![j] = @ + 1]
           /\ UNCHANGED verdicts \/ verdicts' = [verdicts EXCEPT ![j] = @ \cup {v}]
           /\ UNCHANGED llmVerdicts \/ llmVerdicts' = [llmVerdicts EXCEPT ![j] = @ \cup {v}]
    BY <1>1 DEF Work, WorkerStarts, WorkerDeadLetters, WorkerAnswers, LlmWorkerAnswers, Verdicts
  <2>2. runs \in [Jobs -> Nat] /\ DOMAIN verdicts = Jobs /\ DOMAIN llmVerdicts = Jobs
    BY DEF TypeOK
  <2>3. \A k \in Jobs : runs[k] > 0 => runs'[k] > 0
    BY <2>1, <2>2
  <2>4. \A k \in Jobs : verdicts[k] \subseteq verdicts'[k]
    BY <2>1, <2>2
  <2>5. \A k \in Jobs : llmVerdicts[k] \subseteq llmVerdicts'[k]
    BY <2>1, <2>2
  <2> QED
    BY <2>3, <2>4, <2>5
<1>2. CASE ~Work
  BY <1>2, OnlyWorkWorks DEF workVars
<1> QED
  BY <1>1, <1>2

\* What the workers must have done for a row that job j has.
RowJustified(j, r) ==
    /\ r.state = "processing" => runs[j] > 0
    /\ r.state = "succeeded" => "ok" \in verdicts[j]
    /\ r.state = "failed" => "error" \in verdicts[j]
    /\ r.llm = "succeeded" => "ok" \in llmVerdicts[j] /\ "ok" \in verdicts[j]
    /\ r.llm = "failed" => "error" \in llmVerdicts[j]

\* What a justified message makes of a justified row is justified.
LEMMA ProjectedJustified ==
    ASSUME TypeOK, JustifiedInv, NEW m \in inbound
    PROVE  RowJustified(m.job, Projected(row[m.job], m))
<1> DEFINE j == m.job
           r == row[j]
<1>1. /\ j \in Jobs /\ r \in Rows /\ m.verdict \in Verdicts
      /\ m.queue \in {"lifecycle", "result", "llm"}
  BY DEF TypeOK, Messages
<1>2. RowJustified(j, r) /\ Justified(m)
  BY <1>1 DEF JustifiedInv, ProjectionIsJustified, RowJustified
<1>3. CASE r.state = "none"
  BY <1>2, <1>3 DEF Projected
<1>4. CASE r.state # "none" /\ m.queue = "lifecycle"
  <2>1. Projected(r, m) = [r EXCEPT !.state = IF r.state = "queued" THEN "processing" ELSE @]
    BY <1>4 DEF Projected
  <2>2. runs[j] > 0
    BY <1>2, <1>4 DEF Justified
  <2> QED
    BY <1>1, <1>2, <2>1, <2>2 DEF RowJustified, Rows
<1>5. CASE r.state # "none" /\ m.queue = "result"
  <2>1. /\ Projected(r, m).state = Outcome(m.verdict)
        /\ Projected(r, m).llm = r.llm
    BY <1>1, <1>5 DEF Projected, Rows
  <2>2. m.verdict \in verdicts[j]
    BY <1>2, <1>5 DEF Justified
  <2> QED
    BY <1>1, <1>2, <2>1, <2>2 DEF RowJustified, Outcome, Verdicts
<1>6. CASE r.state # "none" /\ m.queue = "llm"
  <2>1. /\ Projected(r, m).state = r.state
        /\ Projected(r, m).llm = Outcome(m.verdict)
    BY <1>1, <1>6 DEF Projected, Rows
  <2>2. m.verdict \in llmVerdicts[j] /\ "ok" \in verdicts[j]
    BY <1>1, <1>2, <1>6 DEF Justified, JustifiedInv
  <2> QED
    BY <1>1, <1>2, <2>1, <2>2 DEF RowJustified, Outcome, Verdicts
<1> QED
  BY <1>1, <1>3, <1>4, <1>5, <1>6

\* When the message that a worker sends is justified.
LEMMA MessageJustified ==
    ASSUME NEW j, NEW v, NEW m
    PROVE  /\ m = Message("lifecycle", j, v) /\ runs'[j] > 0 => Justified(m)'
           /\ m = Message("result", j, v) /\ v \in verdicts'[j] => Justified(m)'
           /\ m = Message("llm", j, v) /\ v \in llmVerdicts'[j] => Justified(m)'
<1>1. ASSUME m = Message("lifecycle", j, v) PROVE m.queue = "lifecycle" /\ m.job = j
  BY <1>1 DEF Message
<1>2. ASSUME m = Message("result", j, v)
      PROVE  m.queue = "result" /\ m.job = j /\ m.verdict = v
  BY <1>2 DEF Message
<1>3. ASSUME m = Message("llm", j, v)
      PROVE  m.queue = "llm" /\ m.job = j /\ m.verdict = v
  BY <1>3 DEF Message
<1> QED
  BY <1>1, <1>2, <1>3 DEF Justified

\* Every step keeps what the jobs table shows justified.
LEMMA JustifiedStep ==
    ASSUME TypeOK, TypeOK', OutboxInv, JustifiedInv, [Next]_vars
    PROVE  JustifiedInv'
<1>1. \A m \in Messages : Justified(m) => Justified(m)'
  BY WorkGrows DEF Justified, Messages
<1>2. \A m \in inbound' : Justified(m)'
  <2>3. \A m \in inbound : Justified(m)'
    BY <1>1 DEF TypeOK, JustifiedInv
  <2>1. CASE Work
    <3>1. PICK j \in Jobs, v \in Verdicts :
             \/ WorkerStarts(j) \/ WorkerDeadLetters(j)
             \/ WorkerAnswers(j, v) \/ LlmWorkerAnswers(j, v)
      BY <2>1 DEF Work, Verdicts
    <3>2. CASE WorkerStarts(j)
      <4>1. runs'[j] > 0
        <5>1. runs' = [runs EXCEPT ![j] = @ + 1]
          BY <3>2 DEF WorkerStarts
        <5>2. runs \in [Jobs -> Nat]
          BY DEF TypeOK
        <5> QED
          BY <5>1, <5>2
      <4>2. inbound' = inbound \cup {Message("lifecycle", j, "ok")}
        BY <3>2 DEF WorkerStarts
      <4> QED
        BY <2>3, <4>1, <4>2, MessageJustified
    <3>3. CASE WorkerAnswers(j, v)
      <4>1. v \in verdicts'[j] /\ inbound' = inbound \cup {Message("result", j, v)}
        BY <3>3 DEF WorkerAnswers, TypeOK
      <4> QED
        BY <2>3, <4>1, MessageJustified
    <3>4. CASE LlmWorkerAnswers(j, v)
      <4>1. v \in llmVerdicts'[j] /\ inbound' = inbound \cup {Message("llm", j, v)}
        BY <3>4 DEF LlmWorkerAnswers, TypeOK
      <4> QED
        BY <2>3, <4>1, MessageJustified
    <3>5. CASE WorkerDeadLetters(j)
      BY <1>1, <3>5 DEF WorkerDeadLetters, TypeOK, JustifiedInv
    <3> QED
      BY <3>1, <3>2, <3>3, <3>4, <3>5
  <2>2. CASE ~Work
    <3>1. inbound' \subseteq inbound
      BY <2>2 DEF Next, Submit, Bridge, StoreUpload, CreateJob, CreateJobFails, WaitEnds, WaitFails,
                Connect, PublishOutbox, MarkPublished, MarkPublishedFails, Project, ProjectFails,
                AckProjected, Disconnect, Crash, UnchangedByRequest, vars
    <3> QED
      BY <1>1, <3>1 DEF TypeOK, JustifiedInv
  <2> QED
    BY <2>1, <2>2
<1>3. \A j \in Jobs : followups'[j] > 0 \/ llmVerdicts'[j] # {} => "ok" \in verdicts'[j]
  <2>1. CASE Work
    <3>1. PICK j \in Jobs, v \in Verdicts :
             \/ WorkerStarts(j) \/ WorkerDeadLetters(j)
             \/ WorkerAnswers(j, v) \/ LlmWorkerAnswers(j, v)
      BY <2>1 DEF Work, Verdicts
    <3>2. followups \in [Jobs -> Nat] /\ DOMAIN verdicts = Jobs /\ DOMAIN llmVerdicts = Jobs
      BY DEF TypeOK
    <3>3. CASE WorkerStarts(j) \/ WorkerDeadLetters(j)
      <4>1. UNCHANGED <<followups, llmVerdicts, verdicts>>
        BY <3>3 DEF WorkerStarts, WorkerDeadLetters
      <4> QED
        BY <4>1 DEF JustifiedInv
    <3>4. CASE WorkerAnswers(j, v)
      <4>1. /\ followups' = [followups EXCEPT ![j] = IF v = "ok" /\ j \in LlmJobs THEN @ + 1 ELSE @]
            /\ verdicts' = [verdicts EXCEPT ![j] = @ \cup {v}]
            /\ UNCHANGED llmVerdicts
        BY <3>4 DEF WorkerAnswers
      <4>2. \A k \in Jobs : followups'[k] # followups[k] => k = j /\ v = "ok"
        BY <3>2, <4>1
      <4>3. v \in verdicts'[j] /\ \A k \in Jobs : verdicts[k] \subseteq verdicts'[k]
        BY <3>2, <4>1
      <4> QED
        BY <4>1, <4>2, <4>3 DEF JustifiedInv
    <3>5. CASE LlmWorkerAnswers(j, v)
      <4>1. /\ followups[j] > 0 /\ followups' = [followups EXCEPT ![j] = @ - 1]
            /\ llmVerdicts' = [llmVerdicts EXCEPT ![j] = @ \cup {v}]
            /\ UNCHANGED verdicts
        BY <3>5 DEF LlmWorkerAnswers
      <4>2. \A k \in Jobs : followups'[k] > 0 => followups[k] > 0
        BY <3>2, <4>1
      <4>3. \A k \in Jobs : llmVerdicts'[k] # {} => llmVerdicts[k] # {} \/ k = j
        BY <3>2, <4>1
      <4> QED
        BY <4>1, <4>2, <4>3 DEF JustifiedInv
    <3> QED
      BY <3>1, <3>3, <3>4, <3>5
  <2>2. CASE ~Work
    <3>1. UNCHANGED workVars
      BY <2>2, OnlyWorkWorks
    <3> QED
      BY <3>1 DEF workVars, JustifiedInv
  <2> QED
    BY <2>1, <2>2
<1>4. ProjectionIsJustified'
  <2>1. ASSUME NEW j \in Jobs, CreateJob(j) PROVE ProjectionIsJustified'
    <3>1. /\ row'[j].state = "queued" /\ row'[j].llm \in {"none", "queued"}
          /\ \A k \in Jobs \ {j} : row'[k] = row[k]
      BY <2>1 DEF CreateJob, NoRow, TypeOK
    <3> QED
      BY <3>1, WorkGrows DEF JustifiedInv, ProjectionIsJustified
  <2>2. ASSUME NEW m \in inbound, Project(m) PROVE ProjectionIsJustified'
    <3>1. m.job \in Jobs
      BY DEF TypeOK, Messages
    <3>2. /\ row'[m.job] = Projected(row[m.job], m)
          /\ \A k \in Jobs \ {m.job} : row'[k] = row[k]
      BY <2>2, <3>1 DEF Project, TypeOK
    <3>3. UNCHANGED <<runs, verdicts, llmVerdicts>>
      BY <2>2 DEF Project, UnchangedByBridge, workVars
    <3>4. RowJustified(m.job, Projected(row[m.job], m))
      BY ProjectedJustified
    <3> QED
      BY <3>2, <3>3, <3>4 DEF JustifiedInv, ProjectionIsJustified, RowJustified
  <2>3. CASE UNCHANGED row
    BY <2>3, WorkGrows DEF JustifiedInv, ProjectionIsJustified
  <2> QED
    BY <2>1, <2>2, <2>3
       DEF Next, Submit, Bridge, Work, StoreUpload, CreateJobFails, WaitEnds, WaitFails, Connect,
           PublishOutbox, MarkPublished, MarkPublishedFails, ProjectFails, AckProjected, Disconnect,
           Crash, WorkerStarts, WorkerDeadLetters, WorkerAnswers, LlmWorkerAnswers, UnchangedByWork,
           apiVars, vars
<1> QED
  BY <1>2, <1>3, <1>4 DEF JustifiedInv

\* The jobs table is never ahead of the workers, whatever is delivered twice, in
\* another order or after a crash of the API.
THEOREM ProjectionJustified == Spec => []ProjectionIsJustified
<1>1. Init => JustifiedInv
  BY DEF Init, JustifiedInv, ProjectionIsJustified, NoRow
<1>2. JustifiedInv => ProjectionIsJustified
  BY DEF JustifiedInv
<1> QED
  BY <1>1, <1>2, JustifiedStep, OutboxCorrect, TypeCorrect, PTL DEF Spec

\* A row that is succeeded or failed never shows queued or processing again: no
\* lifecycle message takes it back, and no request creates its job a second time.
THEOREM FinishedStays == Spec => FinishedStaysFinished
<1> DEFINE Stays == \A j \in Jobs : row[j].state \in Finished => row'[j].state \in Finished
<1>1. ASSUME TypeOK, OutboxInv, [Next]_vars PROVE Stays
  <2>1. ASSUME NEW j \in Jobs, CreateJob(j) PROVE Stays
    <3>1. row[j].state = "none" /\ \A k \in Jobs \ {j} : row'[k] = row[k]
      BY <1>1, <2>1 DEF CreateJob, TypeOK, OutboxInv
    <3> QED
      BY <3>1 DEF Finished
  <2>2. ASSUME NEW m \in inbound, Project(m) PROVE Stays
    <3>1. m \in Messages /\ m.job \in Jobs
      BY <1>1 DEF TypeOK, Messages
    <3>2. \A j \in Jobs : row'[j] = IF j = m.job THEN Projected(row[j], m) ELSE row[j]
      BY <1>1, <2>2, <3>1 DEF Project, TypeOK
    <3>3. row[m.job] \in Rows
      BY <1>1, <3>1 DEF TypeOK
    <3> QED
      BY <3>1, <3>2, <3>3, ProjectedRow
  <2>3. CASE UNCHANGED row
    BY <2>3
  <2> QED
    BY <1>1, <2>1, <2>2, <2>3
       DEF Next, Submit, Bridge, Work, StoreUpload, CreateJobFails, WaitEnds, WaitFails, Connect,
           PublishOutbox, MarkPublished, MarkPublishedFails, ProjectFails, AckProjected, Disconnect,
           Crash, WorkerStarts, WorkerDeadLetters, WorkerAnswers, LlmWorkerAnswers, UnchangedByWork,
           apiVars, vars
<1> QED
  BY <1>1, OutboxCorrect, TypeCorrect, PTL DEF Spec, FinishedStaysFinished
=============================================================================
