---------------------------- MODULE DocumentFlow ----------------------------
(***************************************************************************)
(* One document from the worker's upload endpoint to its embeddings: the   *)
(* upload, the extraction, its follow-up, the LLM worker, and the files    *)
(* they exchange through shared storage.                                   *)
(*                                                                         *)
(* Job <<d, 0>> is the extraction of document d, <<d, n>> the n-th LLM job *)
(* that its extractions have published.  Both consumers extract inline     *)
(* (WORKER_CONCURRENCY = 1, the default); module WorkerConsumer has the    *)
(* event loop and the process pool.  Here a broker connection shows by     *)
(* what it does: it lets a prefix of the frames of a delivery through, and *)
(* a delivery whose connection is lost is given to another replica while   *)
(* the first one goes on working.                                          *)
(*                                                                         *)
(* Files are local ones: LocalStorage.write copies in place, so another    *)
(* process may find a file torn.  S3Storage writes atomically, which is    *)
(* the case of a copy that nothing interleaves with.                       *)
(***************************************************************************)
EXTENDS Embeddings

CONSTANTS
    Docs,        \* the uploaded documents
    Profiled,    \* the documents with an llm_profile
    Contents,    \* the chunk sequences that a document may have
    Extractors,  \* the extraction worker replicas
    Embedders,   \* the LLM worker replicas
    None,        \* no artifact
    MaxFaults    \* bound on lost connections, failing channel calls and crashes

ASSUME FlowAssumption ==
    /\ \A c \in Contents : c \in Seq({c[i] : i \in DOMAIN c})
    /\ Profiled \subseteq Docs
    /\ Extractors \cap Embedders = {}
    /\ (Extractors \cup Embedders) \cap {"none", "ready", "settled"} = {}
    /\ MaxFaults \in Nat
    /\ None \notin Docs \X (0 .. MaxFaults + 1)

VARIABLES
    content,   \* the chunks that converting a document yields
    upload,    \* the upload request of each document
    disk,      \* the files in shared storage: absent, torn or whole
    artifact,  \* what the embeddings file holds
    at,        \* where a job message is: none, ready, at a worker, settled
    count,     \* how often it has been delivered
    answers,   \* verdicts on docrunr.results and docrunr.llm.results
    dead,      \* jobs with a copy in a dead-letter queue
    task,      \* what each replica is doing
    log,       \* the LLM worker's history: events recorded and not yet written
    rows,      \* and the status of each job in its database
    faults,
    (* history *)
    inputless, \* documents that an extraction found without their input
    damaged,   \* files that an execution has left torn
    skipped,   \* documents whose follow-up could not be published
    forgotten  \* jobs whose events were lost with the process or with a batch

diskVars   == <<disk, artifact, damaged>>
brokerVars == <<at, count, answers, dead, skipped>>
storeVars  == <<log, rows, forgotten>>
vars       == <<content, upload, diskVars, brokerVars, task, storeVars, faults, inputless>>

Workers    == Extractors \cup Embedders
Jobs       == Docs \X (0 .. MaxFaults + 1)
ExtractJob(d) == <<d, 0>>
LlmJobs    == {j \in Jobs : j[2] > 0}
Verdicts   == {"ok", "error"}
Artifacts  == {"markdown", "chunks", "embeddings"}
Files      == ({"input"} \cup Artifacts) \X Docs

Idle       == [job |-> None, step |-> "idle", open |-> FALSE, verdict |-> "ok",
               sent |-> 0, vectors |-> <<>>]
Begin(j, s) == [Idle EXCEPT !.job = j, !.step = s]

Init ==
    /\ content \in [Docs -> Contents]
    /\ upload = [d \in Docs |-> "none"]
    /\ disk = [f \in Files |-> "absent"]
    /\ artifact = [d \in Docs |-> None]
    /\ at = [j \in Jobs |-> "none"]
    /\ count = [j \in Jobs |-> 0]
    /\ answers = [j \in Jobs |-> {}]
    /\ dead = {}
    /\ task = [w \in Workers |-> Idle]
    /\ log = [e \in Embedders |-> <<>>]
    /\ rows = [e \in Embedders |-> [j \in LlmJobs |-> "none"]]
    /\ faults = 0
    /\ inputless = {} /\ damaged = {} /\ skipped = {} /\ forgotten = {}

Fault == faults < MaxFaults /\ faults' = faults + 1
-----------------------------------------------------------------------------
(* process_upload_request.                                                  *)

Respond(d, s) == upload' = [upload EXCEPT ![d] = s]

UnchangedByUpload == UNCHANGED <<content, artifact, damaged, count, answers, dead, skipped, task,
                                 storeVars, inputless>>

\* A part with no suffix, a suffix that is not allowed, or no content; or its
\* temporary file cannot be written, which ends the request.
RejectUpload(d) ==
    /\ upload[d] = "none"
    /\ Respond(d, "error") \/ Respond(d, "aborted")
    /\ UNCHANGED <<disk, at, faults>>
    /\ UnchangedByUpload

\* storage.write; what a failing one has written stays.
StoreUpload(d) ==
    /\ upload[d] = "none"
    /\ \/ Respond(d, "stored") /\ disk' = [disk EXCEPT ![<<"input", d>>] = "whole"]
       \/ Respond(d, "error") /\ \E s \in {"absent", "torn"} :
                                     disk' = [disk EXCEPT ![<<"input", d>>] = s]
    /\ UNCHANGED <<at, faults>>
    /\ UnchangedByUpload

Enqueue(d) == at' = [at EXCEPT ![ExtractJob(d)] = "ready"]

\* publish_durable_bytes returns.  There are no publisher confirms and an error
\* of connection.close() is swallowed, so the message may be lost behind it.
PublishUpload(d) ==
    /\ upload[d] = "stored"
    /\ Respond(d, "queued")
    /\ \/ Enqueue(d) /\ UNCHANGED faults
       \/ Fault /\ UNCHANGED at
    /\ UNCHANGED disk
    /\ UnchangedByUpload

\* publish_durable_bytes raises, before or after the broker has the message.
PublishUploadRaises(d) ==
    /\ upload[d] = "stored"
    /\ Fault
    /\ Respond(d, "unqueued")
    /\ Enqueue(d) \/ UNCHANGED at
    /\ UNCHANGED disk
    /\ UnchangedByUpload

\* Mutation: the input is removed once the job is on its way.
DeleteUploadAlways(d) ==
    /\ upload[d] \in {"unqueued", "queued"}
    /\ Respond(d, IF upload[d] = "queued" THEN "queued" ELSE "error")
    /\ disk' = [disk EXCEPT ![<<"input", d>>] = "absent"]
    /\ UNCHANGED <<at, faults>>
    /\ UnchangedByUpload

\* The input is deleted; an error of storage.delete is swallowed.
DeleteUpload(d) ==
    /\ upload[d] = "unqueued"
    /\ Respond(d, "error")
    /\ \/ disk' = [disk EXCEPT ![<<"input", d>>] = "absent"]
       \/ UNCHANGED disk
    /\ UNCHANGED <<at, faults>>
    /\ UnchangedByUpload

\* The worker process dies under the request, whose client gets no answer.
UploadCrashes(d) ==
    /\ upload[d] \in {"stored", "unqueued"}
    /\ Fault
    /\ Respond(d, "aborted")
    /\ UNCHANGED <<disk, at>>
    /\ UnchangedByUpload
-----------------------------------------------------------------------------
(* Shared storage.                                                          *)

File(w) == <<task[w].step, task[w].job[1]>>

Writers(f) == {w \in Workers : task[w].open /\ File(w) = f}

\* Mutation: the outcome is ok once the Markdown is written.
StepAfterSkipsChunks(s) == "answer"

\* handle_extract_job writes the Markdown, then the chunks.
StepAfter(s) == IF s = "markdown" THEN "chunks" ELSE "answer"

UnchangedByWrite == UNCHANGED <<content, upload, brokerVars, storeVars, faults, inputless>>

\* LocalStorage.write truncates the file and begins to copy ...
OpenArtifact(w) ==
    /\ task[w].step \in Artifacts
    /\ ~task[w].open
    /\ task' = [task EXCEPT ![w].open = TRUE]
    /\ disk' = [disk EXCEPT ![File(w)] = "torn"]
    /\ UNCHANGED <<artifact, damaged>>
    /\ UnchangedByWrite

\* ... and is done, unless another process is still copying to the same file.
CloseArtifact(w) ==
    /\ task[w].open
    /\ disk' = [disk EXCEPT ![File(w)] = IF Writers(File(w)) = {w} THEN "whole" ELSE @]
    /\ artifact' = IF task[w].step = "embeddings"
                   THEN [artifact EXCEPT ![task[w].job[1]] =
                           Artifact(content[task[w].job[1]], task[w].vectors)]
                   ELSE artifact
    /\ task' = [task EXCEPT ![w] = Begin(@.job, StepAfter(@.step))]
    /\ UNCHANGED damaged
    /\ UnchangedByWrite

Damage(w) == damaged' = IF task[w].open THEN damaged \cup {File(w)} ELSE damaged

Fail(w) == task' = [task EXCEPT ![w] = [Begin(@.job, "answer") EXCEPT !.verdict = "error"]]

\* Mutation: JobTimeoutError leaves the handler and the delivery is requeued.
WriteFailsRequeues(w) ==
    /\ task[w].step \in Artifacts
    /\ task' = [task EXCEPT ![w] = Idle]
    /\ at' = [at EXCEPT ![task[w].job] = IF @ = w THEN "ready" ELSE @]
    /\ damaged' = IF task[w].open THEN damaged \cup {File(w)} ELSE damaged
    /\ UNCHANGED <<content, upload, disk, artifact, count, answers, dead, skipped, storeVars,
                   faults, inputless>>

\* storage.write raises, or SIGALRM raises JobTimeoutError inside of it.
WriteFails(w) ==
    /\ task[w].step \in Artifacts
    /\ Fail(w)
    /\ Damage(w)
    /\ UNCHANGED <<disk, artifact>>
    /\ UnchangedByWrite
-----------------------------------------------------------------------------
(* The deliveries of both consumers.                                        *)

Holds(w)  == task[w].job # None /\ at[task[w].job] = w
Requeued(w) == IF Holds(w) THEN [at EXCEPT ![task[w].job] = "ready"] ELSE at

Take(w, j, s) ==
    /\ task[w] = Idle
    /\ at[j] = "ready"
    /\ at' = [at EXCEPT ![j] = w]
    /\ count' = [count EXCEPT ![j] = @ + 1]
    /\ task' = [task EXCEPT ![w] = Begin(j, s)]
    /\ UNCHANGED <<content, upload, diskVars, answers, dead, skipped, rows, forgotten, faults,
                   inputless>>

\* The connection is lost while the handler blocks the event loop, which notices
\* only when it answers.
ConnectionLost(w) ==
    /\ Holds(w)
    /\ Fault
    /\ at' = Requeued(w)
    /\ UNCHANGED <<content, upload, diskVars, count, answers, dead, skipped, task, storeVars,
                   inputless>>

\* What the history of w has not written dies with the process.
Forget(w) ==
    IF w \in Embedders
    THEN /\ log' = [log EXCEPT ![w] = <<>>]
         /\ forgotten' = forgotten \cup {log[w][i].job : i \in DOMAIN log[w]}
    ELSE UNCHANGED <<log, forgotten>>

Crash(w) ==
    /\ task[w] # Idle
    /\ Fault
    /\ at' = Requeued(w)
    /\ task' = [task EXCEPT ![w] = Idle]
    /\ Damage(w)
    /\ Forget(w)
    /\ UNCHANGED <<content, upload, disk, artifact, count, answers, dead, skipped, rows, inputless>>

Answering(w) == task[w].step = "answer" /\ task' = [task EXCEPT ![w] = Idle]

Publish(j, v) == answers' = [answers EXCEPT ![j] = @ \cup {v}]

\* _handle_processing_exception: the first delivery goes back to its queue, a
\* redelivered one to the dead-letter queue, and back if that fails in turn.
AfterException(j) == IF count[j] > 1 THEN {"ready", "settled"} ELSE {"ready"}

\* The copy may be out although its ack has failed.
DeadLetter(j) ==
    \/ at'[j] = "ready" /\ UNCHANGED dead
    \/ count[j] > 1 /\ dead' = dead \cup {j}

UnchangedByAnswer == UNCHANGED <<content, upload, diskVars, count, inputless>>
-----------------------------------------------------------------------------
(* The extraction worker: handle_extract_job and _complete_delivery.        *)

OnExtractionMessage(x, d) ==
    /\ Take(x, ExtractJob(d), "convert")
    /\ UNCHANGED log

\* storage.read and convert.
Convert(x) ==
    /\ task[x].step = "convert"
    /\ LET d == task[x].job[1] IN
         \/ /\ disk[<<"input", d>>] = "whole"
            /\ task' = [task EXCEPT ![x].step = "markdown"]
            /\ UNCHANGED inputless
         \/ /\ Fail(x)
            /\ inputless' = IF disk[<<"input", d>>] = "absent" THEN inputless \cup {d} ELSE inputless
    /\ UNCHANGED <<content, upload, diskVars, brokerVars, storeVars, faults>>

\* _maybe_publish_llm_followup, in the broker's state b: every execution that is
\* answered ok publishes a job of its own, under a fresh id.
Wanted(j, v) == v = "ok" /\ j[1] \in Profiled

FreshFollowUp(d) ==
    {j \in LlmJobs : j[1] = d /\ at[j] = "none"
                       /\ \A k \in LlmJobs : k[1] = d /\ k[2] < j[2] => at[k] # "none"}

Published(b, j, v) ==
    IF Wanted(j, v) THEN [k \in Jobs |-> IF k \in FreshFollowUp(j[1]) THEN "ready" ELSE b[k]] ELSE b

\* Mutation: the delivery is acknowledged before the follow-up is published.
CompleteExtractionAcksEarly(x) ==
    LET j == task[x].job
        v == task[x].verdict
    IN /\ Answering(x)
       /\ Holds(x)
       /\ Publish(j, v)
       /\ \/ at' = Published([at EXCEPT ![j] = "settled"], j, v) /\ UNCHANGED faults
          \/ at' = [at EXCEPT ![j] = "settled"] /\ Fault
       /\ UNCHANGED <<dead, skipped, storeVars>>
       /\ UnchangedByAnswer

\* Result, follow-up, ack; a follow-up that cannot be published is swallowed.
CompleteExtraction(x) ==
    LET j == task[x].job
        v == task[x].verdict
        settled == [at EXCEPT ![j] = "settled"]
    IN /\ Answering(x)
       /\ Holds(x)
       /\ Publish(j, v)
       /\ \/ at' = Published(settled, j, v) /\ UNCHANGED <<skipped, faults>>
          \/ Wanted(j, v) /\ Fault /\ at' = settled /\ skipped' = skipped \cup {j[1]}
       /\ UNCHANGED <<dead, storeVars>>
       /\ UnchangedByAnswer

\* A channel call raises, or the connection takes the rest of the frames with it:
\* the result and the follow-up may be out, the ack is not.
ExtractionAnswerFails(x) ==
    LET j == task[x].job
        v == task[x].verdict
    IN /\ Answering(x)
       /\ Holds(x)
       /\ Fault
       /\ \E s \in AfterException(j) :
            \/ at' = [at EXCEPT ![j] = s] /\ (UNCHANGED answers \/ Publish(j, v))
            \/ at' = Published([at EXCEPT ![j] = s], j, v) /\ Publish(j, v)
       /\ DeadLetter(j)
       /\ UNCHANGED <<skipped, storeVars>>
       /\ UnchangedByAnswer

\* A stale execution finds its channel closed and answers nobody.
StaleAnswer(x) ==
    /\ Answering(x)
    /\ ~Holds(x)
    /\ UNCHANGED <<at, answers, dead, skipped, storeVars, faults>>
    /\ UnchangedByAnswer
-----------------------------------------------------------------------------
(* The LLM worker: generate_embeddings, _complete_delivery and its history.  *)

Records(e, j, s) == log' = [log EXCEPT ![e] = Append(@, [job |-> j, status |-> s])]

OnLlmMessage(e, j) ==
    /\ Take(e, j, "load")
    /\ Records(e, j, "processing")

Texts(e) == ExtractTexts(content[task[e].job[1]])

UnchangedByEmbedding == UNCHANGED <<content, upload, diskVars, brokerVars, storeVars, faults,
                                    inputless>>

\* A torn chunk file is no JSON; a document without text cannot be embedded.
LoadChunks(e) ==
    /\ task[e].step = "load"
    /\ \/ /\ disk[<<"chunks", task[e].job[1]>>] = "whole"
          /\ Texts(e) # <<>>
          /\ task' = [task EXCEPT ![e].step = "embed"]
       \/ Fail(e)
    /\ UnchangedByEmbedding

EmbedBatch(e) ==
    /\ task[e].step = "embed"
    /\ LET end == task[e].sent + Len(Batch(Texts(e), task[e].sent)) IN
         \E returned \in ReturnedVectors(Batch(Texts(e), task[e].sent)) :
             task' = [task EXCEPT ![e].sent = end,
                                  ![e].vectors = Extend(@, returned),
                                  ![e].step = IF end = Len(Texts(e)) THEN "embeddings" ELSE @]
    /\ UnchangedByEmbedding

\* LitellmError
EmbedFails(e) ==
    /\ task[e].step = "embed"
    /\ Fail(e)
    /\ UnchangedByEmbedding

\* Result, history, ack.
CompleteLlm(e) ==
    LET j == task[e].job
    IN /\ Answering(e)
       /\ Holds(e)
       /\ Publish(j, task[e].verdict)
       /\ Records(e, j, task[e].verdict)
       /\ at' = [at EXCEPT ![j] = "settled"]
       /\ UNCHANGED <<dead, skipped, rows, forgotten, faults>>
       /\ UnchangedByAnswer

\* Mutation: a dead-lettered job keeps the status it had.
LlmOutcomeUnrecorded(e, j, s) == UNCHANGED log \/ Records(e, j, task[e].verdict)

\* What is recorded of a delivery whose answer fails: nothing, its verdict (the
\* ack failed, or frames were lost unseen) and, if it is given up, an error.
LlmOutcome(e, j, s) ==
    IF s = "settled" \/ dead' # dead
    THEN \/ Records(e, j, "error")
         \/ log' = [log EXCEPT ![e] = @ \o <<[job |-> j, status |-> task[e].verdict],
                                             [job |-> j, status |-> "error"]>>]
    ELSE UNCHANGED log \/ Records(e, j, task[e].verdict)

LlmAnswerFails(e) ==
    LET j == task[e].job
    IN /\ Answering(e)
       /\ Holds(e)
       /\ Fault
       /\ \E s \in AfterException(j) :
            /\ at' = [at EXCEPT ![j] = s]
            /\ DeadLetter(j)
            /\ LlmOutcome(e, j, s)
       /\ UNCHANGED answers \/ Publish(j, task[e].verdict)
       /\ UNCHANGED <<skipped, rows, forgotten>>
       /\ UnchangedByAnswer

\* The publish of a stale execution raises, or its frames are lost unseen.
StaleLlmAnswer(e) ==
    LET j == task[e].job
    IN /\ Answering(e)
       /\ ~Holds(e)
       /\ UNCHANGED log \/ Records(e, j, task[e].verdict)
       /\ UNCHANGED <<at, answers, dead, skipped, rows, forgotten, faults>>
       /\ UnchangedByAnswer

UnchangedByFlush(e) ==
    /\ log[e] # <<>>
    /\ log' = [log EXCEPT ![e] = <<>>]
    /\ UNCHANGED <<content, upload, diskVars, brokerVars, task, inputless>>

\* _writer_loop takes what is queued (less than batch_size here) and writes it in
\* one transaction: the row of a job has the status of its last event ...
Flush(e) ==
    /\ rows' = [rows EXCEPT ![e] = [j \in LlmJobs |->
          LET mine == {i \in DOMAIN log[e] : log[e][i].job = j}
          IN IF mine = {} THEN rows[e][j]
             ELSE log[e][CHOOSE i \in mine : \A k \in mine : k <= i].status]]
    /\ UNCHANGED <<forgotten, faults>>
    /\ UnchangedByFlush(e)

\* ... or drops the whole batch when the transaction fails.
FlushFails(e) ==
    /\ Fault
    /\ forgotten' = forgotten \cup {log[e][i].job : i \in DOMAIN log[e]}
    /\ UNCHANGED rows
    /\ UnchangedByFlush(e)
-----------------------------------------------------------------------------
Upload(d) == RejectUpload(d) \/ StoreUpload(d) \/ PublishUpload(d) \/ DeleteUpload(d)

UploadFails(d) == PublishUploadRaises(d) \/ UploadCrashes(d)

Work(w) ==
    \/ OpenArtifact(w) \/ CloseArtifact(w) \/ WriteFails(w)
    \/ w \in Extractors /\ (Convert(w) \/ CompleteExtraction(w) \/ StaleAnswer(w))
    \/ w \in Embedders /\ (LoadChunks(w) \/ EmbedBatch(w) \/ EmbedFails(w) \/ CompleteLlm(w)
                             \/ StaleLlmAnswer(w))

Extract(d) == \E x \in Extractors : OnExtractionMessage(x, d)
Embed(j)   == \E e \in Embedders : OnLlmMessage(e, j)

Next ==
    \/ \E d \in Docs : Upload(d) \/ UploadFails(d) \/ Extract(d)
    \/ \E j \in LlmJobs : Embed(j)
    \/ \E w \in Workers : Work(w) \/ ConnectionLost(w) \/ Crash(w)
    \/ \E x \in Extractors : ExtractionAnswerFails(x)
    \/ \E e \in Embedders : LlmAnswerFails(e) \/ Flush(e) \/ FlushFails(e)

Spec == Init /\ [][Next]_vars

\* A replica that runs, or is started again, goes on with what it has, takes
\* what waits, and its writer thread writes.
FairSpec ==
    /\ Spec
    /\ \A w \in Workers : WF_vars(Work(w))
    /\ \A d \in Docs : WF_vars(Extract(d))
    /\ \A j \in LlmJobs : WF_vars(Embed(j))
    /\ \A e \in Embedders : WF_vars(Flush(e))
-----------------------------------------------------------------------------
(* Properties.                                                              *)

Tasks == [job : Jobs \cup {None}, open : BOOLEAN, verdict : Verdicts, sent : Nat,
          step : {"idle", "convert", "load", "embed", "answer"} \cup Artifacts,
          vectors : Seq(UNION {{c[i] : i \in DOMAIN c} : c \in Contents})]

\* Every variable has its type.
TypeOK ==
    /\ content \in [Docs -> Contents]
    /\ upload \in [Docs -> {"none", "stored", "queued", "unqueued", "error", "aborted"}]
    /\ disk \in [Files -> {"absent", "torn", "whole"}]
    /\ DOMAIN artifact = Docs
    /\ at \in [Jobs -> {"none", "ready", "settled"} \cup Workers]
    /\ count \in [Jobs -> 0 .. MaxFaults + 1]
    /\ answers \in [Jobs -> SUBSET Verdicts]
    /\ dead \subseteq Jobs
    /\ task \in [Workers -> Tasks]
    /\ DOMAIN log = Embedders
    /\ rows \in [Embedders -> [LlmJobs -> {"none", "processing"} \cup Verdicts]]
    /\ faults \in 0 .. MaxFaults
    /\ inputless \subseteq Docs /\ skipped \subseteq Profiled
    /\ damaged \subseteq Files /\ forgotten \subseteq LlmJobs

\* Only an upload that was answered "error" can have its extraction fail for want
\* of its input: the clean-up after a publish that raised may delete the input of
\* a job that the broker has all the same, but a job whose client was told
\* "queued", or got no answer because the worker died, finds its input whenever
\* and however often it is delivered.
InputOutlivesQueuedJob == \A d \in inputless : upload[d] = "error"

\* GET /jobs/{id}/result for a job whose paths the projection has.
GetJobResult(f) ==
    CASE disk[f] = "absent" -> "JOB_NOT_READY"
      [] disk[f] = "torn"   -> IF f[1] = "markdown" THEN "torn" ELSE "STORAGE_UNAVAILABLE"
      [] disk[f] = "whole"  -> "whole"

\* Once a job is reported ok each file its result names can be downloaded whole,
\* unless a repeated execution is rewriting it or one was interrupted while it
\* did: what a redelivery, a timeout or a crash does to a published result.
OkResultIsServed ==
    \A d \in Docs, n \in 0 .. MaxFaults + 1 :
        "ok" \in answers[<<d, n>>] =>
            \A kind \in IF n = 0 THEN {"markdown", "chunks"} ELSE {"embeddings"} :
                LET f == <<kind, d>>
                IN GetJobResult(f) = "whole" \/ Writers(f) # {} \/ f \in damaged

\* An artifact with as many vectors as the document has chunks has at position
\* i the vector of chunk i: whatever the provider left out, and whichever chunks
\* were blank, a consumer that compares the two counts cannot be misled.
EqualCountsAreAligned ==
    \A d \in Docs :
        (artifact[d] # None /\ artifact[d].chunkCount = Len(artifact[d].vectors))
            => artifact[d].vectors = content[d]

\* How a settled LLM job ended is in the history of some replica, or waits for
\* its writer, unless the process died or a transaction failed with it: also
\* for a job that went to the dead-letter queue.
SettledLlmJobIsRecorded ==
    \A j \in LlmJobs : at[j] = "settled" =>
        \/ j \in forgotten
        \/ \E e \in Embedders :
              \/ rows[e][j] \in Verdicts
              \/ \E i \in DOMAIN log[e] : log[e][i].job = j /\ log[e][i].status \in Verdicts

\* A document with a profile whose job is in docrunr.jobs ends in a failed or
\* dead-lettered extraction, in a follow-up that could not be published, or in
\* an LLM job that is answered or dead-lettered: no redelivery, crash or lost
\* connection between the two consumers drops it.
ProfiledDocumentIsEmbedded ==
    \A d \in Profiled : at[ExtractJob(d)] # "none" ~>
        \/ "error" \in answers[ExtractJob(d)]
        \/ ExtractJob(d) \in dead
        \/ d \in skipped
        \/ \E j \in LlmJobs : j[1] = d /\ (answers[j] # {} \/ j \in dead)
=============================================================================
