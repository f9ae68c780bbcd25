----------------------------- MODULE JobDelivery -----------------------------
(***************************************************************************)
(* What the extraction service promises about a job message: delivery at   *)
(* least once (SPEC.md, Delivery Guarantees).  A job stays in the broker   *)
(* until it has an answer: one or more result messages, or a copy in the   *)
(* dead-letter queue.  Answers may repeat, even with another verdict, but  *)
(* only while the job is unsettled; a settled job is never answered again. *)
(***************************************************************************)
EXTENDS Naturals

CONSTANT Jobs

Answers == {"ok", "error", "dead_letter"}

VARIABLES
    answers,   \* the kinds of answer published for a job so far
    settled    \* the jobs that left the broker's queue for good

vars == <<answers, settled>>

TypeOK == answers \in [Jobs -> SUBSET Answers] /\ settled \subseteq Jobs

Init == answers = [j \in Jobs |-> {}] /\ settled = {}

Answer(j, a) ==
    /\ j \notin settled
    /\ answers' = [answers EXCEPT ![j] = @ \cup {a}]
    /\ UNCHANGED settled

Settle(j) ==
    /\ j \notin settled
    /\ answers[j] # {}
    /\ settled' = settled \cup {j}
    /\ UNCHANGED answers

Next == \E j \in Jobs : Settle(j) \/ \E a \in Answers : Answer(j, a)

Spec == Init /\ [][Next]_vars

\* Every job is answered and settled in the end.
FairSpec == Spec /\ \A j \in Jobs : WF_vars(Settle(j)) /\ <>(answers[j] # {})

\* No job leaves the queue without an answer.
SettledIsAnswered == \A j \in settled : answers[j] # {}
=============================================================================
