---------------------------- MODULE HistoryView ----------------------------
(***************************************************************************)
(* The history of one tab of the browser workbench (web/src/App.tsx):  the *)
(* main and the archived list, each loaded page by page, the selections on *)
(* them, archiving and restoring, and the focus of their readers.          *)
(*                                                                         *)
(* A request is asked, answered by the daemon at one moment and applied by *)
(* the tab at a later one; in between other requests, events and clicks    *)
(* may pass.  As in Workbench an await ends a step, the setters take       *)
(* effect at once, the refs follow in an effect, and the user acts on a    *)
(* page whose effects have run.  The groups of a list depend on sessions,  *)
(* the subject of SessionGroups: here any set of loaded rows may be one.   *)
(* The main list's focus is kept; the archived list's is its mirror image. *)
(***************************************************************************)
EXTENDS TaskFocus, SequencesExt

CONSTANTS
    Slot,       \* requests of this tab that may be in flight
    PageSize,   \* historyPageSize
    MaxFaults   \* bound: lost events, failed requests, batches of other tabs, overlaps

ASSUME HistoryAssumption ==
    /\ None \notin Task
    /\ PageSize \in Nat \ {0} /\ MaxFaults \in Nat

VARIABLES
    done,             \* the completed tasks, the newest first
    shelf,            \* the archived ones, as the daemon lists them
    news,             \* events about completed tasks on their way
    faults,           \* how many of these so far
    torn,             \* lists that requests in flight together, or a fault, may have spoiled
    calls,            \* the requests in flight
    history,          \* historyTasks
    historyRef,       \* historyTasksRef
    archived,         \* archivedTasks
    archivedRef,      \* archivedTasksRef
    archivedLoaded,
    view,             \* tab and historyView: "pending", "history" or "archived"
    mode,             \* historySelectionMode
    selected,         \* selectedHistoryIds and selectedArchivedIds
    focus             \* focusState of the main list

daemonVars == <<done, shelf>>
faultVars == <<faults, torn>>
historyVars == <<history, historyRef>>
archivedVars == <<archived, archivedRef, archivedLoaded>>
choiceVars == <<mode, selected>>
pageVars == <<historyVars, archivedVars, view, choiceVars, focus>>
viewVars == <<daemonVars, news, faultVars, calls, pageVars>>

Both == {"history", "archived"}
Nothing == [list \in Both |-> {}]

-----------------------------------------------------------------------------
(* The daemon, and what the tab misses of it.                              *)

(* What ListHistory and ListArchivedHistory range over, in their order.    *)
Rows(list) == IF list = "archived" THEN shelf ELSE Without(done, Range(shelf))

UpTo(n, list) == SubSeq(list, 1, IF n < Len(list) THEN n ELSE Len(list))

(* Mutant: an offset without a limit.                                      *)
AllFrom(list, offset) == SubSeq(Rows(list), offset + 1, Len(Rows(list)))

(* LIMIT PageSize OFFSET offset.                                           *)
Page(list, offset) == UpTo(PageSize, SubSeq(Rows(list), offset + 1, Len(Rows(list))))

Shelve(ids) == shelf' = Within(done, ids \ Range(shelf)) \o shelf
Unshelve(ids) == shelf' = Without(shelf, ids)

NoCall == [kind |-> "none", pc |-> "none", list |-> None, ids |-> {}, offset |-> 0,
           answer |-> <<>>, alone |-> FALSE]

Fault == faults < MaxFaults /\ faults' = faults + 1

(* A change the tab does not hear of also spoils the answers on their way. *)
Unheard ==
    /\ Fault /\ torn' = Both
    /\ calls' = [r \in Slot |-> [calls[r] EXCEPT !.alone = FALSE]]

(* A task is answered; the tab hears of it, unless its connection is down. *)
Complete(t) ==
    /\ t \notin Range(done)
    /\ done' = <<t>> \o done
    /\ \/ news' = news + 1 /\ UNCHANGED <<faultVars, calls>>
       \/ Unheard /\ UNCHANGED news
    /\ UNCHANGED <<shelf, pageVars>>

(* Archiving has no events: a tab does not hear of the batches of others.  *)
BatchElsewhere(t) ==
    /\ t \in Range(done) /\ Unheard
    /\ IF t \in Range(shelf) THEN Unshelve({t}) ELSE Shelve({t})
    /\ UNCHANGED <<done, news, pageVars>>

-----------------------------------------------------------------------------
(* Requests.                                                               *)

Call(kind, list) == [NoCall EXCEPT !.kind = kind, !.pc = "asked", !.list = list]

Idle == \A r \in Slot : calls[r] = NoCall

(* A request is alone while no other one was in flight with it; overlaps   *)
(* count as faults, to bound them.                                         *)
Start(r, call) ==
    /\ calls[r] = NoCall
    /\ calls' = [q \in Slot |-> IF q = r THEN [call EXCEPT !.alone = Idle]
                                         ELSE [calls[q] EXCEPT !.alone = FALSE]]
    /\ IF Idle THEN UNCHANGED faults ELSE Fault

End(r) == calls' = [calls EXCEPT ![r] = NoCall]

Answered(r, kind) == calls[r].pc = "answered" /\ calls[r].kind = kind

(* What a fetch that was alone has set is the daemon's list; what was not  *)
(* alone may have been set from an answer older than what it replaced.     *)
Sets(r, lists) == torn' = IF calls[r].alone THEN torn \ lists ELSE Both

(* A batch is one transaction; a batch of nothing is refused (service.go). *)
Serve(r) ==
    LET call == calls[r] IN
    /\ call.pc = "asked" /\ call.kind # "copy"
    /\ \/ /\ call.kind \in {"archive", "restore"} /\ call.ids # {}
          /\ IF call.kind = "archive" THEN Shelve(call.ids) ELSE Unshelve(call.ids)
          /\ calls' = [calls EXCEPT ![r].pc = "answered"]
       \/ /\ call.kind \notin {"archive", "restore"}
          /\ calls' = [calls EXCEPT ![r].pc = "answered",
                                    ![r].answer = Page(call.list, call.offset)]
          /\ UNCHANGED shelf
    /\ UNCHANGED <<done, news, faultVars, pageVars>>

Refuse(r) ==
    /\ calls[r].pc = "asked" /\ calls[r].kind \in {"archive", "restore"} /\ calls[r].ids = {}
    /\ End(r)
    /\ UNCHANGED <<daemonVars, news, faultVars, pageVars>>

(* The catch branches: nothing but the error banner.  The lists stay true  *)
(* unless a refresh is missing or a batch has been stored already.         *)
Harmless(call) ==
    \/ call.kind \in {"open", "more", "copy"}
    \/ call.kind \in {"archive", "restore"} /\ call.pc = "asked"

(* Mutant: the rows are taken off the list before the daemon has answered. *)
FailsOptimistic(r) ==
    /\ calls[r] # NoCall /\ Fault
    /\ torn' = IF Harmless(calls[r]) THEN torn ELSE Both
    /\ history' = IF calls[r].kind = "archive" THEN Without(history, calls[r].ids) ELSE history
    /\ End(r)
    /\ UNCHANGED <<daemonVars, news, historyRef, archivedVars, view, choiceVars, focus>>

Fails(r) ==
    /\ calls[r] # NoCall /\ Fault
    /\ torn' = IF Harmless(calls[r]) THEN torn ELSE Both
    /\ End(r)
    /\ UNCHANGED <<daemonVars, news, pageVars>>

-----------------------------------------------------------------------------
(* What the tab fetches by itself.                                         *)

HistoryPane(f) == [surface |-> f.surface, history |-> f.history]

(* The first load; the pending questions it fetches as well are any.       *)
Loaded(r) ==
    /\ Answered(r, "load")
    /\ history' = calls[r].answer
    /\ \E pending \in {<<>>} \cup {<<t>> : t \in Task} :
         focus' = HistoryPane(initializeFocus(pending, calls[r].answer))
    /\ Sets(r, {"history"}) /\ End(r)
    /\ UNCHANGED <<daemonVars, news, faults, historyRef, archivedVars, view, choiceVars>>

(* applyEvent, of a completed task.                                        *)
Hear(r) ==
    /\ news > 0 /\ news' = news - 1
    /\ Start(r, Call("refresh", "history"))
    /\ UNCHANGED <<daemonVars, torn, pageVars>>

(* applyEvent, of a cancelled one, and handleSubmit after its POST.        *)
Refresh(r) ==
    /\ Start(r, Call("refresh", "history"))
    /\ UNCHANGED <<daemonVars, news, torn, pageVars>>

Refreshed(r) ==
    /\ Answered(r, "refresh")
    /\ history' = calls[r].answer
    /\ Sets(r, {"history"}) /\ End(r)
    /\ UNCHANGED <<daemonVars, news, faults, historyRef, archivedVars, view, choiceVars, focus>>

(* The effects that copy the lists to their refs.                          *)
Effect ==
    /\ historyRef # history \/ archivedRef # archived
    /\ historyRef' = history /\ archivedRef' = archived
    /\ UNCHANGED <<daemonVars, news, faultVars, calls, history, archived, archivedLoaded, view,
                   choiceVars, focus>>

-----------------------------------------------------------------------------
(* The user: lists and selections.                                         *)

Rendered == historyRef = history /\ archivedRef = archived

(* visibleHistoryTasks                                                     *)
Visible == IF view = "archived" THEN archived ELSE history

(* Mutant: the tab forgets to drop the selections.                         *)
ChangeTabKeeps(value) ==
    /\ Rendered /\ view # value /\ (value = "history" => view = "pending")
    /\ view' = value /\ mode' = FALSE
    /\ focus' = changeSurface(focus, value)
    /\ UNCHANGED <<daemonVars, news, faultVars, calls, historyVars, archivedVars, selected>>

ChangeTab(value) ==
    /\ Rendered /\ view # value /\ (value = "history" => view = "pending")
    /\ view' = value /\ mode' = FALSE /\ selected' = Nothing
    /\ focus' = changeSurface(focus, value)
    /\ UNCHANGED <<daemonVars, news, faultVars, calls, historyVars, archivedVars>>

(* A question that was replaced may be in the reader of a history list     *)
(* when the first load comes late; its replacement opens in Pending.       *)
OpenReplacement ==
    /\ Rendered /\ view # "pending" /\ focus.surface = "pending"
    /\ view' = "pending"
    /\ UNCHANGED <<daemonVars, news, faultVars, calls, historyVars, archivedVars, choiceVars,
                   focus>>

openArchivedHistory(r) ==
    /\ Rendered /\ view = "history" /\ ~ mode
    /\ view' = "archived" /\ selected' = Nothing
    /\ focus' = changeSurface(focus, "archived")
    /\ IF archivedLoaded THEN UNCHANGED <<calls, faults>>
                         ELSE Start(r, Call("open", "archived"))
    /\ UNCHANGED <<daemonVars, news, torn, historyVars, archivedVars, mode>>

ArchivedOpened(r) ==
    /\ Answered(r, "open")
    /\ archived' = calls[r].answer /\ archivedLoaded' = TRUE
    /\ Sets(r, {"archived"}) /\ End(r)
    /\ UNCHANGED <<daemonVars, news, faults, historyVars, archivedRef, view, choiceVars, focus>>

backToMainHistory ==
    /\ Rendered /\ view = "archived" /\ ~ mode
    /\ view' = "history" /\ selected' = [selected EXCEPT !["archived"] = {}]
    /\ focus' = changeSurface(focus, "history")
    /\ UNCHANGED <<daemonVars, news, faultVars, calls, historyVars, archivedVars, mode>>

(* Load more: the page after what is loaded, whatever the answer meets.    *)
loadMoreHistory(r) ==
    /\ Rendered /\ view \in Both
    /\ Start(r, [Call("more", view) EXCEPT !.offset = Len(Visible)])
    /\ UNCHANGED <<daemonVars, news, torn, pageVars>>

MoreLoaded(r) ==
    /\ Answered(r, "more")
    /\ IF calls[r].list = "archived"
         THEN archived' = archived \o calls[r].answer /\ UNCHANGED history
         ELSE history' = history \o calls[r].answer /\ UNCHANGED archived
    /\ Sets(r, {}) /\ End(r)
    /\ UNCHANGED <<daemonVars, news, faults, historyRef, archivedRef, archivedLoaded, view,
                   choiceVars, focus>>

(* selectTask, as far as the main list's focus goes.                       *)
Open(t) ==
    IF view = "history" THEN selectTask(focus, "history", t) ELSE changeSurface(focus, view)

Select(t) ==
    /\ Rendered /\ view \in Both /\ t \in Range(Visible)
    /\ focus' = Open(t)
    /\ UNCHANGED <<daemonVars, news, faultVars, calls, historyVars, archivedVars, view, choiceVars>>

(* A row of the pending list, for what it does to the surface.             *)
SelectQuestion ==
    /\ Rendered /\ view = "pending" /\ focus.surface # "pending"
    /\ focus' = changeSurface(focus, "pending")
    /\ UNCHANGED <<daemonVars, news, faultVars, calls, historyVars, archivedVars, view, choiceVars>>

Choose(ids) == selected' = [selected EXCEPT ![view] = ids]

enterHistorySelectionMode ==
    /\ Rendered /\ view \in Both /\ ~ mode /\ Visible # <<>>
    /\ mode' = TRUE /\ Choose({})
    /\ UNCHANGED <<daemonVars, news, faultVars, calls, historyVars, archivedVars, view, focus>>

exitHistorySelectionMode ==
    /\ Rendered /\ view \in Both /\ mode
    /\ mode' = FALSE /\ selected' = Nothing
    /\ UNCHANGED <<daemonVars, news, faultVars, calls, historyVars, archivedVars, view, focus>>

(* The checkbox of a row also opens the row.                               *)
toggleTaskSelection(t) ==
    /\ Rendered /\ view \in Both /\ mode /\ t \in Range(Visible)
    /\ Choose(IF t \in selected[view] THEN selected[view] \ {t} ELSE selected[view] \cup {t})
    /\ focus' = Open(t)
    /\ UNCHANGED <<daemonVars, news, faultVars, calls, historyVars, archivedVars, view, mode>>

selectAllHistory ==
    /\ Rendered /\ view \in Both /\ mode
    /\ Choose(Range(Visible))
    /\ UNCHANGED <<daemonVars, news, faultVars, calls, historyVars, archivedVars, view, mode,
                   focus>>

invertHistorySelection ==
    /\ Rendered /\ view \in Both /\ mode
    /\ Choose(Range(Visible) \ selected[view])
    /\ UNCHANGED <<daemonVars, news, faultVars, calls, historyVars, archivedVars, view, mode,
                   focus>>

Groups == IF view \in Both THEN SUBSET Range(Visible) \ {{}} ELSE {}

(* A group can be selected from its menu outside the selection mode, too.  *)
toggleGroupSelection(group) ==
    /\ Rendered /\ group \in Groups
    /\ Choose(IF group \subseteq selected[view] THEN selected[view] \ group
                                                ELSE selected[view] \cup group)
    /\ mode' = TRUE
    /\ UNCHANGED <<daemonVars, news, faultVars, calls, historyVars, archivedVars, view, focus>>

-----------------------------------------------------------------------------
(* The user: batches.                                                      *)

(* archiveSelected, restoreSelected: the rows both selected and loaded.    *)
Chosen == selected[view] \cap Range(Visible)

exportSelected(r) ==
    /\ Rendered /\ view = "history" /\ mode /\ selected["history"] # {}
    /\ Start(r, Call("copy", "history"))
    /\ UNCHANGED <<daemonVars, news, torn, pageVars>>

Copied(r) ==
    /\ calls[r].kind = "copy"
    /\ mode' = FALSE /\ selected' = [selected EXCEPT !["history"] = {}]
    /\ End(r)
    /\ UNCHANGED <<daemonVars, news, faultVars, historyVars, archivedVars, view, focus>>

Batch(r, ids) ==
    /\ Rendered
    /\ Start(r, [Call(IF view = "archived" THEN "restore" ELSE "archive", view) EXCEPT !.ids = ids])
    /\ UNCHANGED <<daemonVars, news, torn, pageVars>>

BatchSelected(r) == view \in Both /\ mode /\ selected[view] # {} /\ Batch(r, Chosen)
BatchGroup(r, group) == group \in Groups /\ Batch(r, group)

(* Mutant: the archived list, loaded before, is taken to be loaded still.  *)
ArchivedStaysLoaded(r) ==
    LET left == Without(historyRef, calls[r].ids) IN
    /\ Answered(r, "archive")
    /\ history' = left /\ historyRef' = left
    /\ mode' = FALSE /\ selected' = [selected EXCEPT !["history"] = {}]
    /\ focus' = applyArchiveResult(focus, calls[r].ids)
    /\ Sets(r, {"archived"}) /\ End(r)
    /\ UNCHANGED <<daemonVars, news, faults, archivedVars, view>>

(* archiveTasks after its POST.                                            *)
Archived(r) ==
    LET left == Without(historyRef, calls[r].ids) IN
    /\ Answered(r, "archive")
    /\ history' = left /\ historyRef' = left
    /\ archived' = <<>> /\ archivedRef' = <<>> /\ archivedLoaded' = FALSE
    /\ mode' = FALSE /\ selected' = [selected EXCEPT !["history"] = {}]
    /\ focus' = applyArchiveResult(focus, calls[r].ids)
    /\ Sets(r, {"archived"}) /\ End(r)
    /\ UNCHANGED <<daemonVars, news, faults, view>>

(* restoreTasks after its POST; the main list is fetched next.  What it    *)
(* does to the archived list's focus is left out with that focus.          *)
Restored(r) ==
    LET left == Without(archivedRef, calls[r].ids) IN
    /\ Answered(r, "restore")
    /\ archived' = left /\ archivedRef' = left
    /\ mode' = FALSE /\ selected' = [selected EXCEPT !["archived"] = {}]
    /\ Sets(r, {})
    /\ calls' = [calls EXCEPT ![r] = [Call("reload", "history") EXCEPT !.alone = calls[r].alone]]
    /\ UNCHANGED <<daemonVars, news, faults, historyVars, archivedLoaded, view, focus>>

Reloaded(r) ==
    /\ Answered(r, "reload")
    /\ history' = calls[r].answer /\ historyRef' = calls[r].answer
    /\ Sets(r, {"history"}) /\ End(r)
    /\ UNCHANGED <<daemonVars, news, faults, archivedVars, view, choiceVars, focus>>

-----------------------------------------------------------------------------
HistoryInit ==
    /\ \E past \in UNION {[1..n -> Task] : n \in 0..2} :
         /\ \A i, j \in DOMAIN past : past[i] = past[j] => i = j
         /\ done = past
    /\ shelf = <<>> /\ news = 0 /\ faults = 0 /\ torn = {}
    /\ \E r \in Slot :
         calls = [q \in Slot |-> IF q = r THEN [Call("load", "history") EXCEPT !.alone = TRUE]
                                          ELSE NoCall]
    /\ history = <<>> /\ historyRef = <<>>
    /\ archived = <<>> /\ archivedRef = <<>> /\ archivedLoaded = FALSE
    /\ view = "pending" /\ mode = FALSE /\ selected = Nothing
    /\ focus = HistoryPane(emptyFocusState)

WorldStep == \E t \in Task : Complete(t) \/ BatchElsewhere(t)

TabStep(r) ==
    \/ Serve(r) \/ Refuse(r) \/ Fails(r)
    \/ Loaded(r) \/ Hear(r) \/ Refresh(r) \/ Refreshed(r)
    \/ ArchivedOpened(r) \/ MoreLoaded(r)
    \/ Copied(r) \/ Archived(r) \/ Restored(r) \/ Reloaded(r)

LookStep ==
    \/ \E value \in {"pending", "history"} : ChangeTab(value)
    \/ \E t \in Task : Select(t) \/ toggleTaskSelection(t)
    \/ OpenReplacement \/ backToMainHistory \/ SelectQuestion
    \/ enterHistorySelectionMode \/ exitHistorySelectionMode
    \/ selectAllHistory \/ invertHistorySelection
    \/ \E group \in Groups : toggleGroupSelection(group)

RequestStep(r) ==
    \/ openArchivedHistory(r) \/ loadMoreHistory(r) \/ exportSelected(r)
    \/ BatchSelected(r) \/ (\E group \in Groups : BatchGroup(r, group))

HistoryNext ==
    \/ WorldStep \/ Effect \/ LookStep
    \/ \E r \in Slot : TabStep(r) \/ RequestStep(r)

HistorySpec == HistoryInit /\ [][HistoryNext]_viewVars

-----------------------------------------------------------------------------
(* Properties.                                                             *)

(* The state keeps its shape: what is listed, selected or asked for is     *)
(* completed, no row is twice on the daemon's lists, no page is too long.  *)
HistoryTypeOK ==
    /\ Range(shelf) \subseteq Range(done) /\ Range(done) \subseteq Task
    /\ IsInjective(done) /\ IsInjective(shelf)
    /\ torn \subseteq Both /\ mode \in BOOLEAN /\ archivedLoaded \in BOOLEAN
    /\ Range(history) \cup Range(archived) \subseteq Range(done)
    /\ selected \in [Both -> SUBSET Range(done)]
    /\ focus \in [surface : Surface, history : SurfaceFocus]
    /\ \A r \in Slot :
        /\ Range(calls[r].answer) \cup calls[r].ids \subseteq Range(done)
        /\ Len(calls[r].answer) <= PageSize

(* session-grouping-and-archive-design.md:98 and :123, "main History shows *)
(* completed tasks that are not archived", Archived History the archived   *)
(* ones: whatever the user has loaded, archived and restored, and whatever *)
(* was completed meanwhile, once nothing is on its way each loaded list is *)
(* a prefix of the daemon's: no row is missing between two pages, twice,   *)
(* or in both lists.  Requests that were in flight together are left out:  *)
(* their answers may be applied in the wrong order (App.tsx:256, :556).    *)
QuietListsAreTrue ==
    news = 0 /\ Idle =>
        /\ "history" \notin torn => IsPrefix(history, Rows("history"))
        /\ "archived" \notin torn /\ archivedLoaded => IsPrefix(archived, Rows("archived"))

(* session-grouping-and-archive-design.md:584, "when archiving fails no    *)
(* task may leave the list": a row leaves the main list only because the   *)
(* daemon has archived it, or by a refresh that is down to the first page. *)
RowsLeaveForAReason ==
    [][torn = {} /\ torn' = {} =>
         \A t \in Range(history) \ Range(history') :
            t \in Range(shelf) \cup Range(SubSeq(done, PageSize + 1, Len(done)))]_viewVars

(* session-grouping-and-archive-design.md:519, "switching the tab or the   *)
(* history view clears the selections that no longer apply, so that no     *)
(* hidden selection is left": a list is opened with nothing selected,      *)
(* whatever answers came late.                                             *)
NothingHiddenIsSelected ==
    [][view' # view /\ view' # "pending" => selected' = Nothing]_viewVars

(* The reader of the main list stays with its row through refreshes, load  *)
(* more and the batches of other rows, and through a batch that fails: the *)
(* row leaves the focus by the user's hand, by the first load, or because  *)
(* this tab's batch has archived it.                                       *)
ReaderKeepsItsRow ==
    [][\A t \in Task :
         focus.history = focusTask(t) /\ focus'.history # focus.history =>
            \/ t \in Range(shelf) \/ torn # {}
            \/ focus'.surface = "history" /\ focus'.history.kind = "task" /\ UNCHANGED history
            \/ \E r \in Slot : Loaded(r)]_viewVars
=============================================================================
