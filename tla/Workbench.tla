----------------------------- MODULE Workbench -----------------------------
(***************************************************************************)
(* One tab of the browser workbench (web/src/App.tsx, ReplyPanel.tsx,      *)
(* QuickPasteReply.tsx, lib/api.ts) against the daemon it shows: the list  *)
(* of pending questions, the focus, the reply panel and the replies on     *)
(* their way.  The daemon is reduced to what a tab can tell apart: the     *)
(* statements of its handlers that change a row, each a step of its own,   *)
(* and after them the events, one by one; Daemon has every statement.      *)
(*                                                                         *)
(* JavaScript runs one continuation at a time; an await ends a step.  The  *)
(* state setters take effect at once, the refs follow in an effect of      *)
(* their own, and the user acts on a page whose effects have run.          *)
(***************************************************************************)
EXTENDS TaskFocus, FiniteSets

CONSTANTS
    Slot,         \* replies of this tab that may be in flight
    WireSize,     \* events the hub keeps for this tab
    MaxHandlers,  \* bound: handlers at once that changed a row and have events to publish
    MaxTroubles   \* bound: replies from elsewhere, and connections lost, daemons
                  \* stopped, fetches and replies that fail, together

ASSUME WorkbenchAssumption ==
    /\ None \notin Task
    /\ WireSize \in Nat /\ MaxHandlers \in Nat /\ MaxTroubles \in Nat

VARIABLES
    row,         \* the daemon's row of each question
    open,        \* the pending questions in the order a tab lists them
    answers,     \* replies the daemon got from elsewhere: browsers or not
    asking,      \* registrations that cancelled the older question so far
    untold,      \* events that handlers are about to publish, in their order
    wire,        \* events between the daemon and the tab
    link,        \* the websocket
    faults,      \* losses and failures so far
    missed,      \* questions the tab was not told the truth about
    load,        \* the two fetches a tab starts with
    pending,     \* pendingTasks
    pendingRef,  \* pendingTasksRef
    focus,       \* focusState
    tab,         \* which list is open
    replyMode,   \* whether the reply panel is open
    drafts,      \* questions with a draft in localStorage
    submitted,   \* browserSubmittedTaskIdsRef
    submitting,  \* submittingTaskId
    calls        \* the replies in flight

handlerVars == <<asking, untold>>
serverVars == <<row, open, answers, handlerVars>>
faultVars == <<faults, missed>>
linkVars == <<wire, link>>
listVars == <<load, pending, pendingRef>>
replyVars == <<submitted, submitting>>
screenVars == <<focus, tab, replyMode, drafts, replyVars>>
pageVars == <<screenVars, calls>>
workbenchVars == <<serverVars, linkVars, faultVars, listVars, pageVars>>

-----------------------------------------------------------------------------
(* The daemon and the websocket.                                           *)

Created(t) == [type |-> "created", task |-> t]
Completed(t, from) == [type |-> "completed", task |-> t, source |-> from]
Cancelled(t, by) == [type |-> "cancelled", task |-> t, by |-> by]

Unserved == load.pc = "fetching" /\ load.pending = None

(* The events that handlers are about to publish.                          *)
Announced == UNION {Range(news) : news \in untold}

(* Questions that a handler has retired and published no event for yet.    *)
Retiring ==
    {asked.old : asked \in asking}
        \cup {event.task : event \in {e \in Announced : e.type # "created"}}
        \cup {calls[r].task : r \in {q \in Slot : calls[q].pc = "stored"}}

(* Those, and the ones that a handler has asked.                           *)
Coming == Retiring \cup {event.task : event \in Announced}

(* The questions the events on the wire are about.                         *)
Mentioned == {event.task : event \in Range(wire)}

(* The hub gives an event to a tab that is connected and not too slow.     *)
(* What a tab misses before its first fetch is answered, it does not need; *)
(* a question told of after its end is listed for good, unless that end is *)
(* told once more.                                                         *)
Publish(event) ==
    LET full == link = "up" /\ Len(wire) >= WireSize
        lost == full \/ (link = "down" /\ ~ Unserved)
        late == /\ event.type = "created" /\ row[event.task] # "pending"
                /\ event.task \notin Retiring
    IN /\ wire' = IF link = "up" /\ ~ full THEN Append(wire, event) ELSE wire
       /\ missed' = IF lost \/ late THEN missed \cup {event.task} ELSE missed

(* Something more may go wrong, or come from elsewhere.                    *)
TroubleAllowed == faults + Cardinality(answers) < MaxTroubles

Fault ==
    /\ TroubleAllowed
    /\ faults' = faults + 1

(* A handler more may change a row.                                        *)
HandlerFree == Cardinality(asking) + Cardinality(untold) < MaxHandlers

DaemonOnly == UNCHANGED <<linkVars, listVars, pageVars>>

(* A registration cancels the question its session still has open; no two  *)
(* open questions have the same session, so any of them may be the one.    *)
(* The request sent again may find its own question stored meanwhile.      *)
Supersede(t, old) ==
    /\ HandlerFree /\ (row[t] = "absent" \/ old = t)
    /\ row[old] = "pending"
    /\ row' = [row EXCEPT ![old] = "cancelled"]
    /\ open' = Without(open, {old})
    /\ asking' = asking \cup {[task |-> t, old |-> old]}
    /\ DaemonOnly /\ UNCHANGED <<answers, untold, faultVars>>

Insert(t, news) ==
    /\ row[t] = "absent"
    /\ row' = [row EXCEPT ![t] = "pending"]
    /\ open' = <<t>> \o open
    /\ untold' = untold \cup {news}
    /\ DaemonOnly /\ UNCHANGED <<answers, faultVars>>

(* The session has no open question.                                       *)
Ask(t) ==
    /\ HandlerFree /\ Insert(t, <<Created(t)>>)
    /\ UNCHANGED asking

(* Mutant: the question that gave way is not announced.                    *)
AskNextQuietly(asked) ==
    /\ Insert(asked.task, <<Created(asked.task)>>)
    /\ asking' = asking \ {asked}

AskNext(asked) ==
    /\ Insert(asked.task, <<Cancelled(asked.old, asked.task), Created(asked.task)>>)
    /\ asking' = asking \ {asked}

(* The session or the question cannot be stored, with or without a fault:  *)
(* another registration may hold the session's place.  The older question  *)
(* stays cancelled, and nobody says so.                                    *)
AskFails(asked) ==
    /\ asking' = asking \ {asked}
    /\ missed' = missed \cup {asked.old}
    /\ DaemonOnly /\ UNCHANGED <<row, open, answers, untold, faults>>

(* A reply is stored: also of a cancelled question; one of a completed     *)
(* question changes nothing and is announced as well.                      *)
Complete(t) ==
    /\ row[t] # "absent"
    /\ row' = [row EXCEPT ![t] = "completed"]
    /\ open' = Without(open, {t})

(* Another tab, or a client that is no browser, replies; bound: once each. *)
ReplyElsewhere(t, from) ==
    /\ HandlerFree /\ TroubleAllowed /\ <<t, from>> \notin answers
    /\ Complete(t)
    /\ answers' = answers \cup {<<t, from>>}
    /\ untold' = untold \cup {<<Completed(t, from)>>}
    /\ DaemonOnly /\ UNCHANGED <<asking, faultVars>>

Withdraw(t) ==
    /\ HandlerFree
    /\ row[t] = "pending"
    /\ row' = [row EXCEPT ![t] = "cancelled"]
    /\ open' = Without(open, {t})
    /\ untold' = untold \cup {<<Cancelled(t, None)>>}
    /\ DaemonOnly /\ UNCHANGED <<answers, asking, faultVars>>

(* A handler publishes the next of its events.                             *)
Tell(news) ==
    /\ Publish(Head(news))
    /\ untold' = (untold \ {news}) \cup ({Tail(news)} \ {<<>>})
    /\ UNCHANGED <<row, open, answers, asking, link, faults, listVars, pageVars>>

(* The stored answer cannot be read back: an error instead of the event.   *)
TellFails(news) ==
    /\ Head(news).type = "completed" /\ Fault
    /\ untold' = untold \ {news}
    /\ missed' = missed \cup {event.task : event \in Range(news)}
    /\ DaemonOnly /\ UNCHANGED <<row, open, answers, asking>>

(* connectTaskEvents: nothing is fetched again after a reconnection.       *)
Connect ==
    /\ link = "down"
    /\ link' = "up"
    /\ UNCHANGED <<serverVars, wire, faultVars, listVars, pageVars>>

(* The connection breaks, or the user toggles notifications or sound.      *)
Disconnect ==
    /\ link = "up" /\ Fault
    /\ link' = "down" /\ wire' = <<>>
    /\ missed' = IF Unserved THEN missed ELSE missed \cup Mentioned
    /\ UNCHANGED <<serverVars, listVars, pageVars>>

(* The daemon stops, in the middle of its handlers, and starts again with  *)
(* the rows it has.                                                        *)
Crash ==
    /\ Fault
    /\ link' = "down" /\ wire' = <<>> /\ asking' = {} /\ untold' = {}
    /\ missed' = IF Unserved THEN missed ELSE missed \cup Mentioned \cup Coming
    /\ calls' = [r \in Slot |-> IF calls[r].pc = "stored" THEN [calls[r] EXCEPT !.pc = "failed"]
                                                        ELSE calls[r]]
    /\ UNCHANGED <<row, open, answers, listVars, screenVars>>

-----------------------------------------------------------------------------
(* The first load: two fetches, then one overwrite of the page.            *)

ServePending ==
    /\ load.pc = "fetching" /\ load.pending = None
    /\ load' = [load EXCEPT !.pending = open]
    /\ UNCHANGED <<serverVars, linkVars, faultVars, pending, pendingRef, pageVars>>

(* What this part of the page knows of the focus; HistoryView has more.    *)
PendingPane(f) == [surface |-> f.surface, pending |-> f.pending]

NoLoad == [pc |-> "done", pending |-> None, overtaken |-> {}]

(* The questions that one of two lists has and the other has not.          *)
Differ(list, other) == (Range(list) \ Range(other)) \cup (Range(other) \ Range(list))

(* The history fetched with it may hold older questions, or be empty.  An  *)
(* event applied since the fetch was served is overwritten.                *)
Loaded ==
    /\ load.pc = "fetching" /\ load.pending # None
    /\ pending' = load.pending
    /\ \E history \in {<<>>} \cup {<<t>> : t \in Task} :
         focus' = PendingPane(initializeFocus(load.pending, history))
    /\ missed' = missed \cup (load.overtaken \cap Differ(pending, load.pending))
    /\ load' = NoLoad
    /\ UNCHANGED <<serverVars, linkVars, faults, pendingRef, tab, replyMode, drafts,
                   replyVars, calls>>

(* What was asked until then is listed only if an event told of it.        *)
LoadFails ==
    /\ load.pc = "fetching" /\ Fault
    /\ load' = NoLoad
    /\ missed' = missed \cup {t \in Task : row[t] # "absent"}
    /\ UNCHANGED <<serverVars, linkVars, pending, pendingRef, pageVars>>

(* The effect that copies the list to its ref.                             *)
Effect ==
    /\ pendingRef # pending
    /\ pendingRef' = pending
    /\ UNCHANGED <<serverVars, linkVars, faultVars, load, pending, pageVars>>

-----------------------------------------------------------------------------
(* The page.                                                               *)

Rendered == pendingRef = pending

(* activeTask, where the reply panel is concerned.                         *)
ActiveTask ==
    IF /\ focus.surface = "pending" /\ focus.pending.kind = "task"
       /\ focus.pending.task \in Range(pending)
      THEN focus.pending.task
      ELSE None

(* Mutant: the panel stays open.                                           *)
KeepPanel(replies) == replyMode' = replyMode /\ calls' = replies

(* A panel that closes is gone for the reply it has in flight.             *)
ClosePanel(replies) ==
    /\ replyMode' = FALSE
    /\ calls' = [r \in Slot |-> [replies[r] EXCEPT !.mounted = FALSE]]

(* Mutant: only a reply this tab still waits for counts as its own.        *)
OnlyInFlight(event) == event.task \in submitted

(* App.tsx: the event may be here before the reply's response.             *)
OwnReply(event) == event.task \in submitted \/ event.source = "browser"

(* Mutant: a question that is listed already is listed once more.          *)
AddTwice(event) ==
    /\ pending' = <<event.task>> \o pending
    /\ focus' = applyTaskCreated(focus, event.task)
    /\ UNCHANGED <<tab, replyMode, drafts, replyVars, calls>>

applyCreated(event) ==
    /\ pending' = <<event.task>> \o Without(pending, {event.task})
    /\ focus' = applyTaskCreated(focus, event.task)
    /\ UNCHANGED <<tab, replyMode, drafts, replyVars, calls>>

(* Mutant: a cancelled question stays listed.                              *)
RetireCompleted(event) ==
    /\ focus' = focus
    /\ pending' = IF event.type = "completed" THEN Without(pending, {event.task}) ELSE pending
    /\ drafts' = drafts \ {event.task} /\ submitted' = submitted \ {event.task}
    /\ ClosePanel(calls)
    /\ UNCHANGED <<tab, submitting>>

applyRetired(event) ==
    LET t == event.task
        known == t \in Range(pendingRef)
    IN /\ \/ /\ event.type = "completed" /\ OwnReply(event)
             /\ focus' = applyTaskCompletedLocally(focus, t, Without(pendingRef, {t}))
             /\ submitted' = submitted \ {t}
          \/ /\ event.type = "completed" /\ ~ OwnReply(event)
             /\ focus' = applyTaskCompleted(focus, t, known)
             /\ UNCHANGED submitted
          \/ /\ event.type = "cancelled"
             /\ focus' = applyTaskCancelled(focus, t, event.by, known)
             /\ UNCHANGED submitted
       /\ pending' = Without(pending, {t})
       /\ drafts' = drafts \ {t}
       /\ ClosePanel(calls)
       /\ UNCHANGED <<tab, submitting>>

applyEvent ==
    /\ wire # <<>>
    /\ wire' = Tail(wire)
    /\ IF Head(wire).type = "created" THEN applyCreated(Head(wire)) ELSE applyRetired(Head(wire))
    /\ load' = IF load.pending = None THEN load
               ELSE [load EXCEPT !.overtaken = @ \cup {Head(wire).task}]
    /\ UNCHANGED <<serverVars, link, faultVars, pendingRef>>

Select(t) ==
    /\ Rendered /\ tab = "pending" /\ t \in Range(pending)
    /\ focus' = selectTask(focus, "pending", t)
    /\ ClosePanel(calls)
    /\ UNCHANGED <<serverVars, linkVars, faultVars, listVars, tab, drafts, replyVars>>

OpenReplacement ==
    /\ Rendered /\ focus.surface = "pending" /\ focus.pending.kind = "stale"
    /\ focus.pending.by \in Range(pending)
    /\ focus' = selectTask(focus, "pending", focus.pending.by)
    /\ tab' = "pending"
    /\ ClosePanel(calls)
    /\ UNCHANGED <<serverVars, linkVars, faultVars, listVars, drafts, replyVars>>

ChangeTab(value) ==
    /\ Rendered /\ tab # value
    /\ tab' = value
    /\ focus' = changeSurface(focus, value)
    /\ ClosePanel(calls)
    /\ UNCHANGED <<serverVars, linkVars, faultVars, listVars, drafts, replyVars>>

OpenReply ==
    /\ Rendered /\ ActiveTask # None /\ ~ replyMode
    /\ replyMode' = TRUE
    /\ UNCHANGED <<serverVars, linkVars, faultVars, listVars, focus, tab, drafts,
                   replyVars, calls>>

CloseReply ==
    /\ Rendered /\ replyMode
    /\ ClosePanel(calls)
    /\ UNCHANGED <<serverVars, linkVars, faultVars, listVars, focus, tab, drafts, replyVars>>

(* The user types: a draft that is not blank.                              *)
updateDraft ==
    /\ Rendered /\ replyMode /\ ActiveTask \notin drafts \cup {None}
    /\ drafts' = drafts \cup {ActiveTask}
    /\ UNCHANGED <<serverVars, linkVars, faultVars, listVars, focus, tab, replyMode,
                   replyVars, calls>>

-----------------------------------------------------------------------------
(* Replies of this tab: handleSubmit and the component that calls it.      *)

NoReply == [pc |-> "idle", task |-> None, panel |-> FALSE, mounted |-> FALSE]

(* handleSubmit up to its first await.                                     *)
Submit(r, t, panel) ==
    /\ Rendered /\ calls[r].pc = "idle"
    /\ submitting' = t
    /\ submitted' = submitted \cup {t}
    /\ calls' = [calls EXCEPT ![r] =
                    [pc |-> "posting", task |-> t, panel |-> panel, mounted |-> panel]]
    /\ UNCHANGED <<serverVars, linkVars, faultVars, listVars, focus, tab, replyMode,
                   drafts>>

QuickPaste(r, t) ==
    /\ tab = "pending" /\ t \in Range(pending) /\ submitting # t
    /\ Submit(r, t, FALSE)

(* The panel knows its own reply in flight only.                           *)
PanelSubmit(r) ==
    /\ replyMode /\ ActiveTask \in drafts
    /\ \A q \in Slot : ~ calls[q].mounted
    /\ Submit(r, ActiveTask, TRUE)

Goto(r, pc) == calls' = [calls EXCEPT ![r].pc = pc]

(* The handler of the POST stores the reply, and publishes its event       *)
(* before it responds.                                                     *)
Post(r) ==
    /\ calls[r].pc = "posting"
    /\ Complete(calls[r].task)
    /\ Goto(r, "stored")
    /\ UNCHANGED <<answers, handlerVars, linkVars, faultVars, listVars, screenVars>>

PostTold(r) ==
    /\ calls[r].pc = "stored"
    /\ Publish(Completed(calls[r].task, "browser"))
    /\ Goto(r, "posted")
    /\ UNCHANGED <<serverVars, link, faults, listVars, screenVars>>

(* The request or its response is lost, or the daemon answers an error: it *)
(* may have stored the reply, and its handler may still announce it, or    *)
(* have failed to read it back.                                            *)
PostFails(r) ==
    /\ calls[r].pc \in {"posting", "stored", "posted"} /\ Fault
    /\ Goto(r, "failed")
    /\ \/ calls[r].pc # "stored" /\ UNCHANGED <<untold, missed>>
       \/ /\ calls[r].pc = "stored"
          /\ untold' = untold \cup {<<Completed(calls[r].task, "browser")>>}
          /\ UNCHANGED missed
       \/ /\ calls[r].pc = "stored"
          /\ missed' = missed \cup {calls[r].task}
          /\ UNCHANGED untold
    /\ UNCHANGED <<row, open, answers, asking, linkVars, listVars, screenVars>>

(* handleSubmit after its POST; the history is fetched next.               *)
Replied(r) ==
    LET t == calls[r].task IN
    /\ calls[r].pc = "posted"
    /\ submitted' = submitted \ {t}
    /\ focus' = applyTaskCompletedLocally(focus, t, Without(pendingRef, {t}))
    /\ pending' = Without(pendingRef, {t})
    /\ missed' = missed \cup Differ(pending', Without(pending, {t}))
    /\ drafts' = drafts \ {t}
    /\ ClosePanel([calls EXCEPT ![r].pc = "refreshing"])
    /\ UNCHANGED <<serverVars, linkVars, faults, load, pendingRef, tab, submitting>>

(* Mutant: an error leaves the row in its submitting state.                *)
FailedKeepsSubmitting(r) ==
    /\ calls[r].pc = "failed"
    /\ submitted' = submitted \ {calls[r].task}
    /\ drafts' = IF calls[r].panel THEN drafts \ {calls[r].task} ELSE drafts
    /\ calls' = [calls EXCEPT ![r] = NoReply]
    /\ UNCHANGED <<serverVars, linkVars, faultVars, listVars, focus, tab, replyMode,
                   submitting>>

(* handleSubmit reports an error and returns; ReplyPanel.submit, which     *)
(* cannot tell, clears the draft.                                          *)
Failed(r) ==
    /\ calls[r].pc = "failed"
    /\ submitted' = submitted \ {calls[r].task}
    /\ submitting' = None
    /\ drafts' = IF calls[r].panel THEN drafts \ {calls[r].task} ELSE drafts
    /\ calls' = [calls EXCEPT ![r] = NoReply]
    /\ UNCHANGED <<serverVars, linkVars, faultVars, listVars, focus, tab, replyMode>>

(* The history is there, or its fetch has failed: finally.                 *)
Refreshed(r) ==
    /\ calls[r].pc = "refreshing"
    /\ submitting' = None
    /\ \/ UNCHANGED submitted
       \/ submitted' = submitted \ {calls[r].task}
    /\ drafts' = IF calls[r].panel THEN drafts \ {calls[r].task} ELSE drafts
    /\ calls' = [calls EXCEPT ![r] = NoReply]
    /\ UNCHANGED <<serverVars, linkVars, faultVars, listVars, focus, tab, replyMode>>

-----------------------------------------------------------------------------
WorkbenchInit ==
    /\ row = [t \in Task |-> "absent"] /\ open = <<>> /\ answers = {}
    /\ asking = {} /\ untold = {}
    /\ wire = <<>> /\ link = "down" /\ faults = 0 /\ missed = {}
    /\ load = [NoLoad EXCEPT !.pc = "fetching"]
    /\ pending = <<>> /\ pendingRef = <<>>
    /\ focus = PendingPane(emptyFocusState) /\ tab = "pending" /\ replyMode = FALSE
    /\ drafts = {} /\ submitted = {} /\ submitting = None
    /\ calls = [r \in Slot |-> NoReply]

RegisterStep ==
    \/ \E t \in Task : Ask(t) \/ \E old \in Task : Supersede(t, old)
    \/ \E asked \in asking : AskNext(asked) \/ AskFails(asked)

DaemonStep ==
    \/ RegisterStep
    \/ \E t \in Task : Withdraw(t) \/ \E from \in {"browser", "other"} : ReplyElsewhere(t, from)
    \/ \E news \in untold : Tell(news) \/ TellFails(news)

LinkStep == Connect \/ Disconnect \/ Crash

PageStep == ServePending \/ Loaded \/ LoadFails \/ Effect \/ applyEvent

UserStep ==
    \/ \E t \in Task : Select(t) \/ (\E r \in Slot : QuickPaste(r, t))
    \/ \E value \in {"pending", "history"} : ChangeTab(value)
    \/ \E r \in Slot : PanelSubmit(r)
    \/ OpenReplacement \/ OpenReply \/ CloseReply \/ updateDraft

ReplyStep(r) == Post(r) \/ PostTold(r) \/ PostFails(r) \/ Replied(r) \/ Failed(r) \/ Refreshed(r)

WorkbenchNext ==
    DaemonStep \/ LinkStep \/ PageStep \/ UserStep \/ (\E r \in Slot : ReplyStep(r))

WorkbenchSpec == WorkbenchInit /\ [][WorkbenchNext]_workbenchVars

-----------------------------------------------------------------------------
(* Properties.                                                             *)

(* The state keeps its shape; no question is listed twice, whatever comes  *)
(* late or twice, and a reply counts on a panel only while one is open.    *)
WorkbenchTypeOK ==
    /\ row \in [Task -> {"absent", "pending", "cancelled", "completed"}]
    /\ focus \in [surface : {"pending", "history"}, pending : SurfaceFocus]
    /\ Range(pending) \cup Range(pendingRef) \cup drafts \cup submitted \subseteq Task
    /\ IsInjective(pending)
    /\ submitting \in Task \cup {None}
    /\ Len(wire) <= WireSize
    /\ asking \subseteq [task : Task, old : Task] /\ missed \subseteq Task
    /\ \A r \in Slot :
        /\ calls[r].pc \in {"idle", "posting", "stored", "posted", "failed", "refreshing"}
        /\ calls[r].mounted => replyMode

(* approved-design.md:45, "Broadcast task events to connected browsers":   *)
(* once no event about a question is on its way or about to be published,  *)
(* the tab lists it exactly while it is open, whatever was asked, super-   *)
(* seded, answered, withdrawn or loaded meanwhile.  Left out is a question *)
(* that is hit by one of the ways the code has to lose an event, and no    *)
(* other: a broken or full connection (api.ts:157, hub.go:55); the daemon  *)
(* stopping between the row and the event; a registration that fails after *)
(* it cancelled the question (service.go:131, handlers.go:30); a reply     *)
(* stored and not read back (handlers.go:130); a first load that fails or  *)
(* overwrites what an event told (App.tsx:188); a list set from a ref that *)
(* lags behind (App.tsx:328); and the event of its registration published  *)
(* after that of its end (handlers.go:44).                                 *)
QuietPendingIsTrue ==
    load.pc = "done" =>
        \A t \in Task \ (missed \cup Coming \cup Mentioned) :
            t \in Range(pending) <=> row[t] = "pending"

(* While the reply panel is open on a question the focus stands still: what *)
(* is typed, and sent, belongs to the question the user opened it for.     *)
(* Only the first load does not ask (App.tsx:190): it may put another      *)
(* question, or none, under an open panel.                                 *)
ReplyKeepsItsTask ==
    [][load.pc = "done" /\ focus.pending.kind = "task" /\ replyMode /\ replyMode' =>
         focus' = focus]_workbenchVars

(* CHANGELOG.md:47, "Reader focus now remains stable while realtime task   *)
(* updates arrive": a pending question leaves the focus by the user's      *)
(* hand only.                                                              *)
FocusIsStable ==
    [][load.pc = "done" =>
         \A t \in Task :
            On(focus, t) /\ row[t] = "pending" =>
                On(focus', t) \/ \E u \in Task : Select(u)]_workbenchVars

(* App.tsx:141: the tab recognises its own replies, also where the event   *)
(* overtakes the response or the response is lost.  It says "completed     *)
(* outside this browser" only where something else than a browser replied. *)
ElsewhereIsElsewhere ==
    focus.pending.kind = "stale" /\ focus.pending.reason = "completed_elsewhere" =>
        <<focus.pending.task, "other">> \in answers

(* approved-design.md:199, "Failed submissions restore the row input": no  *)
(* row stays in its submitting state once its reply has ended, whichever   *)
(* of the response, its loss, the event and the fetch after it came last.  *)
SubmittingIsInFlight ==
    submitting # None => \E r \in Slot : calls[r].pc # "idle" /\ calls[r].task = submitting

(* approved-design.md:208, "Per-task draft persistence in localStorage"    *)
(* and "Draft cleanup after completion": a draft is there as long as its   *)
(* question is open.                                                       *)
DraftsSurviveFailure ==
    [][\A t \in drafts \ drafts' : row[t] # "pending"]_workbenchVars
=============================================================================
