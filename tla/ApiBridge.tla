------------------------------ MODULE ApiBridge ------------------------------
(***************************************************************************)
(* The local public API: POST /api/v1/documents, the transactional outbox  *)
(* and job projection in SQLite (JobRepository), and the BrokerBridge      *)
(* thread that publishes the outbox and projects the messages the workers  *)
(* send back.                                                              *)
(*                                                                         *)
(* The requests run on one event loop and do not yield between writing the *)
(* upload and the response, so at most one of them is in that part; it     *)
(* interleaves with the bridge thread only.  Timestamps are reduced to how *)
(* often completed_at was set (utc_now() differs at every call), artifact  *)
(* paths to whether they are set.  RabbitMQ and the workers are external:  *)
(* a worker may run a message several times, answer with either verdict    *)
(* and dead-letter it, which is what module JobDelivery allows.            *)
(***************************************************************************)
EXTENDS Naturals, FiniteSets

CONSTANTS
    Jobs,         \* the uploads; a job id is fresh for each
    LlmJobs,      \* the uploads with a valid llm_profile
    None,         \* no message, no job
    MaxRuns,      \* bound on the executions of a job by the workers
    MaxDbErrors,  \* bound on the SQLite calls that raise
    MaxDrops,     \* bound on the lost bridge connections
    MaxCrashes    \* bound on the crashes of the API process

ASSUME ApiAssumption ==
    /\ LlmJobs \subseteq Jobs
    /\ MaxRuns \in Nat /\ MaxDbErrors \in Nat /\ MaxDrops \in Nat /\ MaxCrashes \in Nat

VARIABLES
    request,    \* the upload request of each job
    stored,     \* inputs in shared storage
    row,        \* the jobs table
    outbox,     \* the outbox table: absent, pending, published
    link,       \* the bridge's connection: up or down
    confirmed,  \* the outbox row that the broker has and that is not yet marked
    inflight,   \* the delivered message that is projected and not yet acked
    discarded,  \* messages rejected without requeue
    messages,   \* copies of the job in docrunr.jobs
    inbound,    \* what is in the lifecycle, result and LLM result queues
    working,    \* executions that have been announced and not yet answered
    runs,       \* executions so far
    followups,  \* LLM jobs the workers have published
    enqueued,   \* jobs that were ever in docrunr.jobs
    verdicts,   \* verdicts the workers have published for a job
    llmVerdicts,
    dbErrors, drops, crashes

apiVars    == <<request, stored, row, outbox>>
bridgeVars == <<link, confirmed, inflight, discarded>>
workVars   == <<working, runs, followups, verdicts, llmVerdicts>>
bounds     == <<dbErrors, drops, crashes>>
vars       == <<apiVars, bridgeVars, messages, inbound, workVars, enqueued, bounds>>

Verdicts  == {"ok", "error"}
Finished  == {"succeeded", "failed"}
Messages  == [queue : {"lifecycle", "result", "llm"}, job : Jobs, verdict : Verdicts]
ASSUME NoneAssumption == None \notin Jobs \cup Messages

Rows      == [state : {"none", "queued", "processing"} \cup Finished,
              available : BOOLEAN,        \* chunks_path is set
              llm : {"none", "queued"} \cup Finished,
              completions : Nat]          \* how often completed_at was set
NoRow     == [state |-> "none", available |-> FALSE, llm |-> "none", completions |-> 0]

Message(q, j, v) == [queue |-> q, job |-> j, verdict |-> v]

Init ==
    /\ request = [j \in Jobs |-> "none"]
    /\ stored = {}
    /\ row = [j \in Jobs |-> NoRow]
    /\ outbox = [j \in Jobs |-> "absent"]
    /\ link = "down" /\ confirmed = None /\ inflight = None /\ discarded = {}
    /\ messages = [j \in Jobs |-> 0]
    /\ inbound = {}
    /\ working = [j \in Jobs |-> 0] /\ runs = [j \in Jobs |-> 0]
    /\ followups = [j \in Jobs |-> 0]
    /\ enqueued = {}
    /\ verdicts = [j \in Jobs |-> {}] /\ llmVerdicts = [j \in Jobs |-> {}]
    /\ dbErrors = 0 /\ drops = 0 /\ crashes = 0
-----------------------------------------------------------------------------
(* submit_document.                                                         *)

DbError == dbErrors < MaxDbErrors /\ dbErrors' = dbErrors + 1

UnchangedByRequest == UNCHANGED <<bridgeVars, messages, inbound, workVars, enqueued, drops, crashes>>

EventLoopFree == \A k \in Jobs : request[k] \notin {"stored", "waiting"}

Responds(j, code) == request' = [request EXCEPT ![j] = code]

StoreUpload(j) ==
    /\ request[j] = "none"
    /\ EventLoopFree
    /\ \/ Responds(j, "stored") /\ stored' = stored \cup {j}
       \/ Responds(j, "503 storage") /\ UNCHANGED stored
    /\ UNCHANGED <<row, outbox, dbErrors>>
    /\ UnchangedByRequest

\* repo.create_job: the job and its outbox row in one transaction.
CreateJob(j) ==
    /\ request[j] = "stored"
    /\ Responds(j, "waiting")
    /\ row' = [row EXCEPT ![j] = [NoRow EXCEPT !.state = "queued",
                  !.llm = IF j \in LlmJobs THEN "queued" ELSE "none"]]
    /\ outbox' = [outbox EXCEPT ![j] = "pending"]
    /\ UNCHANGED <<stored, dbErrors>>
    /\ UnchangedByRequest

CreateJobFails(j) ==
    /\ request[j] = "stored"
    /\ DbError
    /\ Responds(j, "500")
    /\ stored' = stored \ {j}
    /\ UNCHANGED <<row, outbox>>
    /\ UnchangedByRequest

\* Mutation: a request that fails takes its upload with it.
WaitEndsDeletes(j) ==
    /\ request[j] = "waiting"
    /\ \/ outbox[j] = "published" /\ Responds(j, "201") /\ UNCHANGED stored
       \/ outbox[j] = "pending" /\ Responds(j, "503 queue") /\ stored' = stored \ {j}
    /\ UNCHANGED <<row, outbox, dbErrors>>
    /\ UnchangedByRequest

\* Mutation: a request that fails withdraws its outbox row.
WaitEndsCancels(j) ==
    /\ request[j] = "waiting"
    /\ \/ outbox[j] = "published" /\ Responds(j, "201") /\ UNCHANGED outbox
       \/ /\ outbox[j] = "pending" /\ Responds(j, "503 queue")
          /\ outbox' = [outbox EXCEPT ![j] = "absent"]
    /\ UNCHANGED <<stored, row, dbErrors>>
    /\ UnchangedByRequest

\* wait_published polls the outbox row; after ten seconds the request fails, but
\* the job and its outbox row stay.
WaitEnds(j) ==
    /\ request[j] = "waiting"
    /\ \/ outbox[j] = "published" /\ Responds(j, "201")
       \/ outbox[j] = "pending" /\ Responds(j, "503 queue")
    /\ UNCHANGED <<stored, row, outbox, dbErrors>>
    /\ UnchangedByRequest

\* is_published raises: the request fails although its job is in the outbox.
WaitFails(j) ==
    /\ request[j] = "waiting"
    /\ DbError
    /\ Responds(j, "500")
    /\ UNCHANGED <<stored, row, outbox>>
    /\ UnchangedByRequest
-----------------------------------------------------------------------------
(* The bridge thread: _run, _flush_outbox, _consume.                        *)

BridgeIdle == link = "up" /\ confirmed = None /\ inflight = None

UnchangedByBridge == UNCHANGED <<request, stored, workVars>>

Connect ==
    /\ link = "down"
    /\ link' = "up"
    /\ UNCHANGED <<row, outbox, confirmed, inflight, discarded, messages, inbound, enqueued, bounds>>
    /\ UnchangedByBridge

\* Any exception in the loop body; unacked deliveries go back to their queue.
BridgeLoses ==
    /\ link' = "down" /\ confirmed' = None /\ inflight' = None

Disconnect ==
    /\ link = "up"
    /\ drops < MaxDrops
    /\ drops' = drops + 1
    /\ BridgeLoses
    /\ UNCHANGED <<row, outbox, discarded, messages, inbound, enqueued, dbErrors, crashes>>
    /\ UnchangedByBridge

\* Mutation: the publish is not confirmed, so the broker may not have the message.
PublishUnconfirmed(j) ==
    /\ BridgeIdle
    /\ outbox[j] = "pending"
    /\ \/ messages' = [messages EXCEPT ![j] = @ + 1] /\ enqueued' = enqueued \cup {j}
       \/ UNCHANGED <<messages, enqueued>>
    /\ confirmed' = j
    /\ UNCHANGED <<row, outbox, link, inflight, discarded, inbound, bounds>>
    /\ UnchangedByBridge

\* The broker takes the message.  What is between this and MarkPublished is the
\* confirm, which can still be lost with the connection.
PublishOutbox(j) ==
    /\ BridgeIdle
    /\ outbox[j] = "pending"
    /\ messages' = [messages EXCEPT ![j] = @ + 1]
    /\ enqueued' = enqueued \cup {j}
    /\ confirmed' = j
    /\ UNCHANGED <<row, outbox, link, inflight, discarded, inbound, bounds>>
    /\ UnchangedByBridge

MarkPublished ==
    /\ link = "up"
    /\ confirmed \in Jobs
    /\ outbox' = [outbox EXCEPT ![confirmed] = "published"]
    /\ confirmed' = None
    /\ UNCHANGED <<row, link, inflight, discarded, messages, inbound, enqueued, bounds>>
    /\ UnchangedByBridge

MarkPublishedFails ==
    /\ link = "up"
    /\ confirmed \in Jobs
    /\ DbError
    /\ BridgeLoses
    /\ UNCHANGED <<row, outbox, discarded, messages, inbound, enqueued, drops, crashes>>
    /\ UnchangedByBridge

\* Mutations: the verdict is stored as it came; the verdict is not looked at.
OutcomeRaw(v) == v
OutcomeIgnored(v) == "succeeded"

Outcome(v) == IF v = "ok" THEN "succeeded" ELSE "failed"

\* Mutation: a lifecycle message sets the state whatever it is.
ProjectedUnguarded(r, m) ==
    IF r.state = "none" THEN r
    ELSE CASE m.queue = "lifecycle" -> [r EXCEPT !.state = "processing"]
           [] m.queue = "result"    -> [r EXCEPT !.state = Outcome(m.verdict),
                                                 !.available = (m.verdict = "ok"),
                                                 !.completions = @ + 1]
           [] m.queue = "llm"       -> [r EXCEPT !.llm = Outcome(m.verdict)]

\* Mutation: a result is only expected for a job that is processing.
ProjectedInOrder(r, m) ==
    CASE m.queue = "lifecycle" /\ r.state = "queued"     -> [r EXCEPT !.state = "processing"]
      [] m.queue = "result" /\ r.state = "processing" -> [r EXCEPT !.state = Outcome(m.verdict)]
      [] OTHER                                        -> r

\* apply_lifecycle, apply_extraction_result and apply_llm_result: what each
\* UPDATE statement makes of the job's row (none if there is no such job).
Projected(r, m) ==
    IF r.state = "none" THEN r
    ELSE CASE m.queue = "lifecycle" -> [r EXCEPT !.state = IF @ = "queued" THEN "processing" ELSE @]
           [] m.queue = "result"    -> [r EXCEPT !.state = Outcome(m.verdict),
                                                 !.available = (m.verdict = "ok"),
                                                 !.completions = @ + 1]
           [] m.queue = "llm"       -> [r EXCEPT !.llm = Outcome(m.verdict)]

Project(m) ==
    /\ BridgeIdle
    /\ m \in inbound
    /\ row' = [row EXCEPT ![m.job] = Projected(@, m)]
    /\ inflight' = m
    /\ UNCHANGED <<outbox, link, confirmed, discarded, messages, inbound, enqueued, bounds>>
    /\ UnchangedByBridge

\* The UPDATE raises: the message is rejected without requeue.
ProjectFails(m) ==
    /\ BridgeIdle
    /\ m \in inbound
    /\ DbError
    /\ discarded' = discarded \cup {m}
    /\ inbound' = inbound \ {m}
    /\ UNCHANGED <<row, outbox, link, confirmed, inflight, messages, enqueued, drops, crashes>>
    /\ UnchangedByBridge

AckProjected ==
    /\ link = "up"
    /\ inflight # None
    /\ inbound' = inbound \ {inflight}
    /\ inflight' = None
    /\ UNCHANGED <<row, outbox, link, confirmed, discarded, messages, enqueued, bounds>>
    /\ UnchangedByBridge

\* The API process dies with its request and its bridge; SQLite keeps what was
\* committed.
Crash ==
    /\ crashes < MaxCrashes
    /\ crashes' = crashes + 1
    /\ request' = [j \in Jobs |-> IF request[j] \in {"stored", "waiting"}
                                  THEN "no response" ELSE request[j]]
    /\ BridgeLoses
    /\ UNCHANGED <<stored, row, outbox, discarded, messages, inbound, workVars, enqueued,
                   dbErrors, drops>>
-----------------------------------------------------------------------------
(* The workers, as far as this side can tell.                               *)

UnchangedByWork == UNCHANGED <<apiVars, bridgeVars, enqueued, bounds>>

WorkerStarts(j) ==
    /\ messages[j] > 0
    /\ runs[j] < MaxRuns
    /\ runs' = [runs EXCEPT ![j] = @ + 1]
    /\ working' = [working EXCEPT ![j] = @ + 1]
    /\ inbound' = inbound \cup {Message("lifecycle", j, "ok")}
    /\ UNCHANGED <<messages, followups, verdicts, llmVerdicts>>
    /\ UnchangedByWork

\* A verdict is published; the message is acked, or redelivered later.
WorkerAnswers(j, v) ==
    /\ working[j] > 0
    /\ working' = [working EXCEPT ![j] = @ - 1]
    /\ inbound' = inbound \cup {Message("result", j, v)}
    /\ verdicts' = [verdicts EXCEPT ![j] = @ \cup {v}]
    /\ followups' = [followups EXCEPT ![j] =
                        IF v = "ok" /\ j \in LlmJobs THEN @ + 1 ELSE @]
    /\ \/ messages' = [messages EXCEPT ![j] = IF @ > 0 THEN @ - 1 ELSE 0]
       \/ UNCHANGED messages
    /\ UNCHANGED <<runs, llmVerdicts>>
    /\ UnchangedByWork

WorkerDeadLetters(j) ==
    /\ working[j] > 0 /\ messages[j] > 0
    /\ working' = [working EXCEPT ![j] = @ - 1]
    /\ messages' = [messages EXCEPT ![j] = @ - 1]
    /\ UNCHANGED <<inbound, runs, followups, verdicts, llmVerdicts>>
    /\ UnchangedByWork

LlmWorkerAnswers(j, v) ==
    /\ followups[j] > 0
    /\ followups' = [followups EXCEPT ![j] = @ - 1]
    /\ inbound' = inbound \cup {Message("llm", j, v)}
    /\ llmVerdicts' = [llmVerdicts EXCEPT ![j] = @ \cup {v}]
    /\ UNCHANGED <<messages, working, runs, verdicts>>
    /\ UnchangedByWork
-----------------------------------------------------------------------------
Submit == \E j \in Jobs :
    StoreUpload(j) \/ CreateJob(j) \/ CreateJobFails(j) \/ WaitEnds(j) \/ WaitFails(j)

Bridge ==
    \/ Connect
    \/ \E j \in Jobs : PublishOutbox(j)
    \/ MarkPublished \/ MarkPublishedFails
    \/ \E m \in inbound : Project(m) \/ ProjectFails(m)
    \/ AckProjected

Work == \E j \in Jobs :
    \/ WorkerStarts(j) \/ WorkerDeadLetters(j)
    \/ \E v \in Verdicts : WorkerAnswers(j, v) \/ LlmWorkerAnswers(j, v)

Next == Submit \/ Bridge \/ Work \/ Disconnect \/ Crash

Spec == Init /\ [][Next]_vars

\* The bridge thread keeps looping; it is not known whether clients, workers or
\* faults do anything.  A message that waits is delivered in the end.
FairSpec ==
    /\ Spec
    /\ WF_vars(Connect) /\ WF_vars(MarkPublished) /\ WF_vars(AckProjected)
    /\ \A j \in Jobs : SF_vars(PublishOutbox(j))
    /\ \A m \in Messages : SF_vars(Project(m))
-----------------------------------------------------------------------------
(* Properties.                                                              *)

\* Every variable has its type.
TypeOK ==
    /\ request \in [Jobs -> {"none", "stored", "waiting", "201", "500", "503 storage",
                             "503 queue", "no response"}]
    /\ stored \subseteq Jobs
    /\ row \in [Jobs -> Rows]
    /\ outbox \in [Jobs -> {"absent", "pending", "published"}]
    /\ link \in {"up", "down"}
    /\ confirmed \in Jobs \cup {None}
    /\ inflight \in Messages \cup {None}
    /\ discarded \subseteq Messages
    /\ messages \in [Jobs -> Nat]
    /\ inbound \subseteq Messages
    /\ working \in [Jobs -> Nat] /\ runs \in [Jobs -> Nat] /\ followups \in [Jobs -> Nat]
    /\ enqueued \subseteq Jobs
    /\ verdicts \in [Jobs -> SUBSET Verdicts] /\ llmVerdicts \in [Jobs -> SUBSET Verdicts]
    /\ dbErrors \in Nat /\ drops \in Nat /\ crashes \in Nat

\* Whatever the request was answered, a job that will be or was handed to the
\* workers has its input in storage and its row in the jobs table: the failure
\* paths of submit_document never delete the input of a job that is in the outbox.
QueuedJobIsBacked ==
    \A j \in Jobs :
        outbox[j] = "pending" \/ messages[j] > 0 => j \in stored /\ row[j].state # "none"

\* 201 is only answered for a job that RabbitMQ has taken, whatever the bridge
\* went through meanwhile, and a job whose upload could not be stored never reaches
\* the workers.  (A 500 or a 503 for the queue says nothing of the job.)
CreatedMeansEnqueued ==
    \A j \in Jobs :
        /\ request[j] = "201" => j \in enqueued
        /\ request[j] \in {"none", "503 storage"} => j \notin enqueued

\* The projection is never ahead of the workers: a job shows as processing or
\* finished only after a worker started it, finished only with a verdict that was
\* published for it, and its embeddings likewise, which need an `ok` extraction.
ProjectionIsJustified ==
    \A j \in Jobs :
        /\ row[j].state = "processing" => runs[j] > 0
        /\ row[j].state = "succeeded" => "ok" \in verdicts[j]
        /\ row[j].state = "failed" => "error" \in verdicts[j]
        /\ row[j].llm = "succeeded" => "ok" \in llmVerdicts[j] /\ "ok" \in verdicts[j]
        /\ row[j].llm = "failed" => "error" \in llmVerdicts[j]

\* A finished job never shows as queued or processing again, although lifecycle
\* and result messages are consumed from different queues in any order and a
\* redelivered job announces itself a second time.
FinishedStaysFinished ==
    [][\A j \in Jobs : row[j].state \in Finished => row'[j].state \in Finished]_vars

\* SPEC.md section 24: "updates are idempotent".  A result that is delivered again
\* because its ack was lost leaves the row as the first delivery left it.
UpdatesAreIdempotent ==
    \A j \in Jobs : verdicts[j] = {"ok"} /\ runs[j] = 1 => row[j].completions <= 1

\* Every job that was created is published in the end, also when its request was
\* answered 503, when the process crashed, or when the outbox row could not be
\* marked (it is then published again).
OutboxDrains == \A j \in Jobs : outbox[j] = "pending" ~> outbox[j] = "published"

\* A verdict reaches the jobs table unless the database refused it: then it is
\* rejected without requeue, and nothing delivers it again.
VerdictIsProjected ==
    \A j \in Jobs, v \in Verdicts :
        LET m == Message("result", j, v)
        IN  m \in inbound ~> row[j].state \in Finished \/ m \in discarded
=============================================================================
