----------------------------- MODULE MCAskUser -----------------------------
(* AskUser calls of one session and a browser that answers them.           *)
EXTENDS AskUser, TLC

CONSTANTS t1, t2, s1, w1, w2, yes, no, paste, auto, r1, r2

SlotSymmetry == Permutations({r1, r2})

MCTaskOf == (w1 :> t1) @@ (w2 :> t2)
MCSessionOf == (w1 :> s1) @@ (w2 :> s1)
MCTaskOf1 == w1 :> t1
MCSessionOf1 == w1 :> s1

WaiterCalls ==
    {Registration(w) : w \in Waiter} \cup {ResultQuery(w) : w \in Waiter}

Answer(t, text) ==
    [op |-> "reply", task |-> t, input |-> text, source |-> paste, valid |-> TRUE]

(* Two browsers answer the first task, one the second.                     *)
AnswerCalls == WaiterCalls \cup {Answer(t1, yes), Answer(t1, no), Answer(t2, no)}

(* One task is answered, cancelled and archived.                           *)
WithdrawCalls ==
    WaiterCalls \cup {Answer(t1, yes), [op |-> "cancel", task |-> t1],
                      [op |-> "archive", batch |-> {t1}]}
=============================================================================
