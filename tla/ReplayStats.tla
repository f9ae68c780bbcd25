---------------------------- MODULE ReplayStats ----------------------------
(***************************************************************************)
(* The pure rule by which one recorded job event changes the dashboard     *)
(* totals and the replay_stats_suppress flag of the job's row.  It is      *)
(* used by the SQLite writer (module JobStore) and, in the program, by     *)
(* the in-memory fallback of WorkerStats.record_job as well.               *)
(***************************************************************************)
EXTENDS Naturals

NoRow      == "none"        \* cur_status is None: the job has no row yet
Processing == "processing"
Ok         == "ok"
Error      == "error"

Terminal  == {Ok, Error}
Status    == {Processing} \cup Terminal
RowStatus == {NoRow} \cup Status

\* Mutation: only an event that follows its own `processing` row counts.
CountsAfterProcessing(status, suppress, incoming) ==
    incoming \in Terminal /\ suppress = 0 /\ status = Processing

\* The terminal event is a first outcome: the row is not already terminal and
\* it is not the end of a replay that was latched when it began.
CountsOutcome(status, suppress, incoming) ==
    /\ incoming \in Terminal
    /\ suppress = 0
    /\ status \notin Terminal

OkDelta(status, suppress, incoming) ==
    IF incoming = Ok /\ CountsOutcome(status, suppress, incoming) THEN 1 ELSE 0

ErrorDelta(status, suppress, incoming) ==
    IF incoming = Error /\ CountsOutcome(status, suppress, incoming) THEN 1 ELSE 0

\* Mutation: the latch counts the replays and terminal events do not reset it.
NextSuppressCounts(status, suppress, incoming) ==
    IF incoming = Processing /\ status # NoRow THEN suppress + 1 ELSE suppress

\* Mutation: replays are not latched at all.
NextSuppressNever(status, suppress, incoming) == 0

\* The latch is set by a `processing` event that follows an `ok` row, and it is
\* spent by the next terminal event.
NextSuppress(status, suppress, incoming) ==
    IF incoming = Processing
    THEN IF status = Ok THEN 1 ELSE 0
    ELSE IF suppress = 1 \/ CountsOutcome(status, suppress, incoming) THEN 0 ELSE suppress
=============================================================================
