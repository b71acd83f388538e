------------------------------ MODULE MCDaemon ------------------------------
(* Instances of Daemon for TLC: which requests the clients send.           *)
EXTENDS Daemon, TLC

CONSTANTS t1, t2, s1, s2, yes, no, paste, panel, auto, named

(* Two questions of one session, a quick paste reply to the first, the     *)
(* user's cancellation of it, and renames of the session, one of them with *)
(* a blank name.                                                           *)
RacingCalls ==
    { [op |-> "create", task |-> t1, session |-> s1, valid |-> TRUE],
      [op |-> "create", task |-> t2, session |-> s1, valid |-> TRUE],
      [op |-> "reply", task |-> t1, input |-> yes, source |-> paste, valid |-> TRUE],
      [op |-> "cancel", task |-> t1],
      [op |-> "rename", session |-> s1, name |-> named, valid |-> TRUE],
      [op |-> "rename", session |-> s1, name |-> named, valid |-> FALSE] }

(* Answers, batches that overlap, and rejected bodies.                     *)
HistoryCalls ==
    { [op |-> "reply", task |-> t1, input |-> yes, source |-> paste, valid |-> TRUE],
      [op |-> "reply", task |-> t1, input |-> no, source |-> panel, valid |-> TRUE],
      [op |-> "reply", task |-> t1, input |-> yes, source |-> paste, valid |-> FALSE],
      [op |-> "create", task |-> t2, session |-> s1, valid |-> FALSE],
      [op |-> "archive", batch |-> {t1, t2}],
      [op |-> "archive", batch |-> {}],
      [op |-> "unarchive", batch |-> {t1}],
      [op |-> "result", task |-> t1] }

(* The same registration sent again, as the bridge does after an error.    *)
RetryCalls ==
    { [op |-> "create", task |-> t1, session |-> s1, valid |-> TRUE] }

(* Two questions of one session, one after the other or at once.           *)
QuestionCalls ==
    { [op |-> "create", task |-> t1, session |-> s1, valid |-> TRUE],
      [op |-> "create", task |-> t2, session |-> s1, valid |-> TRUE] }

(* Handler goroutines are interchangeable.                                 *)
SlotSymmetry == Permutations(Slot)
=============================================================================
