--------------------------- MODULE TaskLifecycle ---------------------------
(***************************************************************************)
(* What the popup daemon promises about questions, whoever calls it and in *)
(* whatever order: a question is asked at most once, at most one question  *)
(* of a session is open at a time, an answer is given once and for ever,   *)
(* a withdrawn question may still be answered, and only answered questions *)
(* are put on and off the archive shelf.                                   *)
(* Daemon.tla is shown to implement this module.                           *)
(***************************************************************************)
CONSTANTS Task, Session, Input, None

VARIABLE question   \* Task -> what the outside world knows of the question

Unasked == [state |-> "absent", session |-> None, answer |-> None, shelved |-> FALSE]

Question == [state : {"absent", "pending", "cancelled", "completed"},
             session : Session \cup {None},
             answer : Input \cup {None},
             shelved : BOOLEAN]

(* A database may already hold questions when the daemon first opens it.   *)
LifecycleInit ==
    question \in [Task -> Question]

(* No question of session s is open.                                       *)
Free(s) ==
    \A t \in Task : ~ (question[t].state = "pending" /\ question[t].session = s)

Ask(t, s) ==
    /\ question[t].state = "absent"
    /\ Free(s)
    /\ question' = [question EXCEPT ![t] =
                       [Unasked EXCEPT !.state = "pending", !.session = s]]

Withdraw(t) ==
    /\ question[t].state = "pending"
    /\ question' = [question EXCEPT ![t].state = "cancelled"]

Answer(t, v) ==
    /\ question[t].state \in {"pending", "cancelled"}
    /\ question' = [question EXCEPT ![t].state = "completed", ![t].answer = v]

(* A batch goes on the shelf, or comes off it, as a whole.                 *)
Shelve(batch, on) ==
    /\ \A t \in batch : question[t].state = "completed"
    /\ question' = [t \in Task |->
                       IF t \in batch THEN [question[t] EXCEPT !.shelved = on]
                                      ELSE question[t]]

LifecycleNext ==
    \/ \E t \in Task, s \in Session : Ask(t, s)
    \/ \E t \in Task : Withdraw(t)
    \/ \E t \in Task, v \in Input : Answer(t, v)
    \/ \E batch \in SUBSET Task, on \in BOOLEAN : Shelve(batch, on)

LifecycleSpec == LifecycleInit /\ [][LifecycleNext]_question
=============================================================================
