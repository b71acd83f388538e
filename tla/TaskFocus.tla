----------------------------- MODULE TaskFocus -----------------------------
(***************************************************************************)
(* What the reader of the browser workbench shows                          *)
(* (web/src/features/tasks/focus.ts): pure functions from a focus and an   *)
(* event to a focus.  A focus names the surface the user looks at and, for *)
(* each surface, the task in focus there.  A part of the page keeps the    *)
(* surfaces it knows; every function touches the ones it names.  Left out  *)
(* are "selectedBy", which nothing reads, and applyRestoreResult, which is *)
(* applyArchiveResult on the archived surface.                             *)
(***************************************************************************)
EXTENDS Lists

CONSTANTS Task, None

Surface == {"pending", "history", "archived"}
StaleReason == {"completed_elsewhere", "cancelled", "superseded", "archived"}

SurfaceFocus ==
    [kind : {"none"}] \cup [kind : {"task"}, task : Task]
        \cup [kind : {"stale"}, task : Task, reason : StaleReason, by : Task \cup {None}]

none == [kind |-> "none"]
focusTask(t) == [kind |-> "task", task |-> t]
staleFocus(t, why, by) == [kind |-> "stale", task |-> t, reason |-> why, by |-> by]

On(focus, t) == focus.pending = focusTask(t)
FirstOf(list) == IF list = <<>> THEN none ELSE focusTask(Head(list))

initializeFocus(pending, history) ==
    [surface |-> IF pending = <<>> /\ history # <<>> THEN "history" ELSE "pending",
     pending |-> FirstOf(pending),
     history |-> FirstOf(history),
     archived |-> none]

emptyFocusState == initializeFocus(<<>>, <<>>)

selectTask(focus, surface, t) == [focus EXCEPT !.surface = surface, ![surface] = focusTask(t)]

changeSurface(focus, surface) == [focus EXCEPT !.surface = surface]

(* A new question takes the focus of an empty list only.                   *)
applyTaskCreated(focus, t) ==
    IF focus.pending.kind = "none" THEN [focus EXCEPT !.pending = focusTask(t)] ELSE focus

applyTaskCompleted(focus, t, known) ==
    IF On(focus, t) /\ known
      THEN [focus EXCEPT !.pending = staleFocus(t, "completed_elsewhere", None)]
      ELSE focus

(* Mutant: the focus moves on whichever task was completed.                *)
AlwaysMoveOn(focus, t, remaining) ==
    [focus EXCEPT !.pending = FirstOf(Without(remaining, {t}))]

(* The user's own reply: the focus moves on to the next question.          *)
applyTaskCompletedLocally(focus, t, remaining) ==
    IF On(focus, t)
      THEN [focus EXCEPT !.pending = FirstOf(Without(remaining, {t}))]
      ELSE focus

applyTaskCancelled(focus, t, by, known) ==
    IF On(focus, t) /\ known
      THEN [focus EXCEPT !.pending =
                staleFocus(t, IF by = None THEN "cancelled" ELSE "superseded", by)]
      ELSE focus

(* Mutant: any batch makes the reader say that its row was archived.       *)
AnyBatchLeaves(focus, ids) ==
    IF focus.history.kind = "task"
      THEN [focus EXCEPT !.history = staleFocus(focus.history.task, "archived", None)]
      ELSE focus

(* A batch has moved the row in focus out of the main list.                *)
applyArchiveResult(focus, ids) ==
    IF focus.history.kind = "task" /\ focus.history.task \in ids
      THEN [focus EXCEPT !.history = staleFocus(focus.history.task, "archived", None)]
      ELSE focus
=============================================================================
