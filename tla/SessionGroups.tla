--------------------------- MODULE SessionGroups ---------------------------
(***************************************************************************)
(* The main history of one tab as the user sees it: grouped by session,    *)
(* with groups that fold and headers that rename (web/src/App.tsx and      *)
(* features/tasks/TaskList.tsx).  Rows are loaded page by page and carry   *)
(* the name their session had at that time; a rename is a PATCH whose      *)
(* answer rewrites the loaded rows.  Archiving and selecting are the       *)
(* subject of HistoryView; the pending and the archived list are grouped   *)
(* and renamed by the same code.                                           *)
(*                                                                         *)
(* Requests, overlaps and faults are treated as in HistoryView.            *)
(***************************************************************************)
EXTENDS TaskGroups

CONSTANTS
    Name,        \* display names
    Blank,       \* a text of blanks only
    Edited,      \* the sessions the user renames
    FirstNames,  \* display names at the start
    Histories,   \* completed_at of every task, in the instances checked
    Slot,        \* requests of this tab that may be in flight
    PageSize,    \* historyPageSize
    MaxFaults    \* bound: lost events, failed requests, renames elsewhere, overlaps

ASSUME GroupsViewAssumption ==
    /\ Blank \notin Name
    /\ Edited \subseteq Session /\ FirstNames \in [Session -> Name]
    /\ \A times \in Histories : IsInjective(times) /\ times \in [Task -> Instants]
    /\ PageSize \in Nat \ {0} /\ MaxFaults \in Nat

VARIABLES
    at,          \* completed_at of every task
    done,        \* the tasks completed so far
    names,       \* display names the daemon stores
    news,        \* events about completed tasks on their way
    faults,      \* how many of these so far
    torn,        \* requests in flight together, or a fault, may have spoiled the list
    calls,       \* the requests in flight
    list,        \* historyTasks
    collapsed,   \* collapsedHistorySessionIds
    header       \* the state of every SessionGroupHeader

storeVars == <<at, done, names>>
faultVars == <<faults, torn>>
groupVars == <<storeVars, news, faultVars, calls, list, collapsed, header>>

-----------------------------------------------------------------------------
(* The daemon, and what the tab misses of it.                              *)

Row(t) == [task |-> t, name |-> names[SessionOf[t]]]

(* Mutant: an offset without a limit.                                      *)
AllFrom(offset) ==
    LET rows == NewestFirst(done, at)
    IN [i \in 1..(Len(rows) - offset) |-> Row(rows[offset + i])]

(* ListHistory: LIMIT PageSize OFFSET offset, each row with its session.   *)
Page(offset) ==
    LET rows == NewestFirst(done, at)
        last == IF offset + PageSize < Len(rows) THEN offset + PageSize ELSE Len(rows)
    IN [i \in 1..(last - offset) |-> Row(rows[offset + i])]

Quiet == [kind |-> "none", pc |-> "none", session |-> Blank, name |-> Blank,
          offset |-> 0, known |-> {}, rows |-> <<>>, mounted |-> FALSE, alone |-> FALSE]

Fault == faults < MaxFaults /\ faults' = faults + 1

(* What the tab does not hear of also spoils the answers on their way.     *)
Unheard ==
    /\ Fault /\ torn' = TRUE
    /\ calls' = [r \in Slot |-> [calls[r] EXCEPT !.alone = FALSE]]

Complete(t) ==
    /\ t \notin done /\ \A u \in done : at[u] < at[t]
    /\ done' = done \cup {t}
    /\ \/ news' = news + 1 /\ UNCHANGED <<faultVars, calls>>
       \/ Unheard /\ UNCHANGED news
    /\ UNCHANGED <<at, names, list, collapsed, header>>

(* A rename is announced to nobody.                                        *)
RenameElsewhere(s, name) ==
    /\ Unheard
    /\ name # names[s] /\ names' = [names EXCEPT ![s] = name]
    /\ UNCHANGED <<at, done, news, list, collapsed, header>>

-----------------------------------------------------------------------------
(* Requests.                                                               *)

Idle == \A r \in Slot : calls[r] = Quiet
Call(kind) == [Quiet EXCEPT !.kind = kind, !.pc = "asked"]

Start(r, call) ==
    /\ calls[r] = Quiet
    /\ calls' = [q \in Slot |-> IF q = r THEN [call EXCEPT !.alone = Idle]
                                         ELSE [calls[q] EXCEPT !.alone = FALSE]]
    /\ IF Idle THEN UNCHANGED faults ELSE Fault

End(r) == calls' = [calls EXCEPT ![r] = Quiet]
Answered(r, kind) == calls[r].pc = "answered" /\ calls[r].kind = kind

ServeRows(r) ==
    /\ calls[r].pc = "asked" /\ calls[r].kind \in {"refresh", "more"}
    /\ calls' = [calls EXCEPT ![r].pc = "answered", ![r].rows = Page(calls[r].offset)]
    /\ UNCHANGED <<storeVars, news, faultVars, list, collapsed, header>>

(* RenameSession: an UPDATE, then the row is read again for the answer.    *)
StoreName(r) ==
    /\ calls[r].pc = "asked" /\ calls[r].kind = "rename"
    /\ names' = [names EXCEPT ![calls[r].session] = calls[r].name]
    /\ calls' = [calls EXCEPT ![r].pc = "stored"]
    /\ UNCHANGED <<at, done, news, faultVars, list, collapsed, header>>

ReadName(r) ==
    /\ calls[r].pc = "stored"
    /\ calls' = [calls EXCEPT ![r].pc = "answered", ![r].name = names[calls[r].session]]
    /\ UNCHANGED <<storeVars, news, faultVars, list, collapsed, header>>

(* A header that waits for the answer of a rename.                         *)
Waits(r, s) == calls[r].mounted /\ calls[r].session = s

(* Mutant: the saving flag is reset after a success only.                  *)
FailsSaving(r) ==
    /\ calls[r] # Quiet /\ Fault
    /\ torn' = (torn \/ calls[r].kind = "refresh" \/ calls[r].pc \in {"stored", "answered"})
    /\ End(r)
    /\ UNCHANGED <<storeVars, news, list, collapsed, header>>

(* The catch branches; the header stays open with what the user typed.     *)
Fails(r) ==
    /\ calls[r] # Quiet /\ Fault
    /\ torn' = (torn \/ calls[r].kind = "refresh" \/ calls[r].pc \in {"stored", "answered"})
    /\ header' = [s \in Session |-> IF Waits(r, s) THEN [header[s] EXCEPT !.pc = "open"]
                                                   ELSE header[s]]
    /\ End(r)
    /\ UNCHANGED <<storeVars, news, list, collapsed>>

-----------------------------------------------------------------------------
(* The list.                                                               *)

Fresh == [pc |-> "shown", draft |-> Blank, committed |-> Blank]

(* A header whose group leaves the list, or the screen, loses its state;   *)
(* its PATCH goes on.                                                      *)
Unmounted(gone) == header' = [s \in Session |-> IF s \in gone THEN Fresh ELSE header[s]]
Forsake(r, gone) == [calls[r] EXCEPT !.mounted = @ /\ calls[r].session \notin gone]

Unmount(s) ==
    /\ header[s] # Fresh /\ Unmounted({s})
    /\ calls' = [r \in Slot |-> Forsake(r, {s})]
    /\ UNCHANGED <<storeVars, news, faultVars, list, collapsed>>

(* Fetches: by an event about a completed task, or one about a cancelled   *)
(* task, or after a reply of this tab.                                     *)
Hear(r) ==
    /\ news > 0 /\ news' = news - 1
    /\ Start(r, Call("refresh"))
    /\ UNCHANGED <<storeVars, torn, list, collapsed, header>>

Refresh(r) ==
    /\ Start(r, Call("refresh"))
    /\ UNCHANGED <<storeVars, news, torn, list, collapsed, header>>

Refreshed(r) ==
    LET gone == SessionsOf(list) \ SessionsOf(calls[r].rows) IN
    /\ Answered(r, "refresh")
    /\ list' = calls[r].rows
    /\ torn' = ~ calls[r].alone
    /\ Unmounted(gone)
    /\ calls' = [q \in Slot |-> IF q = r THEN Quiet ELSE Forsake(q, gone)]
    /\ UNCHANGED <<storeVars, news, faults, collapsed>>

loadMoreHistory(r) ==
    /\ Start(r, [Call("more") EXCEPT !.offset = Len(list), !.known = SessionsOf(list)])
    /\ UNCHANGED <<storeVars, news, torn, list, collapsed, header>>

MoreLoaded(r) ==
    /\ Answered(r, "more")
    /\ list' = list \o calls[r].rows
    /\ collapsed' = collapsed \cup (SessionsOf(calls[r].rows) \ calls[r].known)
    /\ torn' = (torn \/ ~ calls[r].alone)
    /\ End(r)
    /\ UNCHANGED <<storeVars, news, faults, header>>

toggleHistoryGroupCollapsed(s) ==
    /\ s \in SessionsOf(list)
    /\ collapsed' = IF s \in collapsed THEN collapsed \ {s} ELSE collapsed \cup {s}
    /\ UNCHANGED <<storeVars, news, faultVars, calls, list, header>>

expandAllGroups ==
    /\ collapsed' = {}
    /\ UNCHANGED <<storeVars, news, faultVars, calls, list, header>>

collapseAllGroups ==
    /\ collapsed' = SessionsOf(list)
    /\ UNCHANGED <<storeVars, news, faultVars, calls, list, header>>

-----------------------------------------------------------------------------
(* The header of a group.                                                  *)

Shown(s) == RowsOf(list, s)[1].name

startEditing(s) ==
    /\ s \in Edited \cap SessionsOf(list) /\ header[s].pc # "saving"
    /\ header' = [header EXCEPT ![s] = [pc |-> "open", draft |-> Shown(s), committed |-> Shown(s)]]
    /\ UNCHANGED <<storeVars, news, faultVars, calls, list, collapsed>>

Type(s, text) ==
    /\ header[s].pc = "open"
    /\ header' = [header EXCEPT ![s].draft = text]
    /\ UNCHANGED <<storeVars, news, faultVars, calls, list, collapsed>>

Closed(s) == [header[s] EXCEPT !.pc = "closed", !.draft = header[s].committed]

(* Escape.                                                                 *)
cancelEditing(s) ==
    /\ header[s].pc = "open"
    /\ header' = [header EXCEPT ![s] = Closed(s)]
    /\ UNCHANGED <<storeVars, news, faultVars, calls, list, collapsed>>

Patch(s) ==
    [Call("rename") EXCEPT !.session = s, !.name = header[s].draft, !.mounted = TRUE]

(* Mutant: without savingRef.                                              *)
saveTwice(s, r) ==
    /\ header[s].pc \in {"open", "saving"}
    /\ IF header[s].draft \in {Blank, header[s].committed}
         THEN header' = [header EXCEPT ![s] = Closed(s)] /\ UNCHANGED <<calls, faults>>
         ELSE header' = [header EXCEPT ![s].pc = "saving"] /\ Start(r, Patch(s))
    /\ UNCHANGED <<storeVars, news, torn, list, collapsed>>

(* Enter, or the loss of the focus; closedRef and savingRef are the guard, *)
(* since an input that is closed or disabled may lose the focus later.     *)
save(s, r) ==
    /\ header[s].pc = "open"
    /\ IF header[s].draft \in {Blank, header[s].committed}
         THEN header' = [header EXCEPT ![s] = Closed(s)] /\ UNCHANGED <<calls, faults>>
         ELSE header' = [header EXCEPT ![s].pc = "saving"] /\ Start(r, Patch(s))
    /\ UNCHANGED <<storeVars, news, torn, list, collapsed>>

(* Mutant: only the first row of the group is renamed.                     *)
updateFirstRow(s, name) ==
    [i \in DOMAIN list |->
        IF SessionOf[list[i].task] = s /\ \A j \in 1..(i - 1) : SessionOf[list[j].task] # s
          THEN [list[i] EXCEPT !.name = name] ELSE list[i]]

updateLoadedSessionNames(s, name) ==
    [i \in DOMAIN list |->
        IF SessionOf[list[i].task] = s THEN [list[i] EXCEPT !.name = name] ELSE list[i]]

(* handleRenameSession after its PATCH, and save after that.               *)
Renamed(r) ==
    /\ Answered(r, "rename")
    /\ list' = updateLoadedSessionNames(calls[r].session, calls[r].name)
    /\ header' = [s \in Session |-> IF Waits(r, s)
                                      THEN [pc |-> "closed", draft |-> header[s].draft,
                                            committed |-> header[s].draft]
                                      ELSE header[s]]
    /\ torn' = (torn \/ ~ calls[r].alone)
    /\ End(r)
    /\ UNCHANGED <<storeVars, news, faults, collapsed>>

-----------------------------------------------------------------------------
(* A tab that has just loaded its history.                                 *)
GroupsInit ==
    /\ at \in Histories
    /\ done \in SUBSET Task /\ \A t \in done, u \in Task \ done : at[t] < at[u]
    /\ names = FirstNames
    /\ news = 0 /\ faults = 0 /\ torn = FALSE
    /\ calls = [r \in Slot |-> Quiet]
    /\ list = Page(0) /\ collapsed = {}
    /\ header = [s \in Session |-> Fresh]

WorldStep ==
    \/ \E t \in Task : Complete(t)
    \/ \E s \in Edited, name \in Name : RenameElsewhere(s, name)

AnswerStep(r) ==
    \/ ServeRows(r) \/ StoreName(r) \/ ReadName(r) \/ Fails(r)
    \/ Refreshed(r) \/ MoreLoaded(r) \/ Renamed(r)

UserStep(s) ==
    \/ toggleHistoryGroupCollapsed(s) \/ Unmount(s)
    \/ startEditing(s) \/ cancelEditing(s)
    \/ \E text \in Name \cup {Blank} : Type(s, text)
    \/ \E r \in Slot : save(s, r)

GroupsNext ==
    \/ WorldStep \/ expandAllGroups \/ collapseAllGroups
    \/ \E r \in Slot : AnswerStep(r) \/ Hear(r) \/ Refresh(r) \/ loadMoreHistory(r)
    \/ \E s \in Session : UserStep(s)

GroupsSpec == GroupsInit /\ [][GroupsNext]_groupVars

-----------------------------------------------------------------------------
(* Properties.                                                             *)

(* The state keeps its shape.                                              *)
GroupsTypeOK ==
    /\ done \subseteq Task /\ names \in [Session -> Name]
    /\ Range(list) \subseteq [task : done, name : Name]
    /\ collapsed \subseteq Session
    /\ header \in [Session -> [pc : {"shown", "open", "saving", "closed"},
                               draft : Name \cup {Blank}, committed : Name \cup {Blank}]]
    /\ \A r \in Slot : Len(calls[r].rows) <= PageSize
    /\ \A s \in Session \ SessionsOf(list) : header[s] = Fresh

Settled == Idle /\ ~ torn

(* docs/session-grouping-and-archive-design.md:65, groups of the same name *)
(* "must stay two groups": once nothing is on its way the groups part the  *)
(* list by session, in the order in which the daemon's list meets them,    *)
(* with the rows of each in its order, and a copy of the list (:180) is    *)
(* the list backwards.  The daemon's order is that of the texts of the     *)
(* times; OutOfOrderOnlyByZeros says where it is not by the latest answer. *)
GroupsFollowTheList ==
    Settled /\ news = 0 =>
        LET groups == buildTaskGroups(list, at)
            First(s) == CHOOSE i \in DOMAIN list :
                            /\ SessionOf[list[i].task] = s
                            /\ \A j \in 1..(i - 1) : SessionOf[list[j].task] # s
        IN  /\ {groups[i].session : i \in DOMAIN groups} = SessionsOf(list)
            /\ Len(groups) = Cardinality(SessionsOf(list))
            /\ \A i, j \in DOMAIN groups :
                 i < j => First(groups[i].session) < First(groups[j].session)
            /\ \A i \in DOMAIN groups : groups[i].tasks = RowsOf(list, groups[i].session)
            /\ formatTasksAsXML(list, at) = Reverse(list)

(* Times are ordered by their text (task_repository.go:428): a group       *)
(* stands before one with a later answer only if it ended on a round tenth *)
(* or second that the other time continues.                                *)
OutOfOrderOnlyByZeros ==
    LET groups == buildTaskGroups(list, at)
        Latest(i) == LatestOf(groups[i].tasks, at)
        Digits(i) == Front(formatTime(Latest(i)))
    IN \A i, j \in DOMAIN groups :
         i < j /\ Latest(i) < Latest(j) => IsPrefix(Digits(i), Digits(j))

(* docs/session-grouping-and-archive-design.md:72, after a rename all rows *)
(* that are visible "must show the new name at once": once nothing is on   *)
(* its way, every loaded row has its session's name.  Left out are what    *)
(* this tab cannot hear of and requests in flight together, whose answers  *)
(* may be applied in the wrong order (App.tsx:256, :350).                  *)
QuietNamesAreCurrent ==
    Settled => \A row \in Range(list) : row.name = names[SessionOf[row.task]]

(* A header is saving exactly while one PATCH of it is on its way, with    *)
(* what the user has left in the input: Enter and the loss of the focus    *)
(* that follows it send it once, nothing that was left blank or unchanged  *)
(* is sent, and no header is disabled with nothing on its way that could   *)
(* release it (TaskList.tsx:333, :354).                                    *)
SavingIsOnePatch ==
    \A s \in Session :
        LET patches == {r \in Slot : Waits(r, s)} IN
        IF header[s].pc = "saving"
          THEN /\ Cardinality(patches) = 1
               /\ header[s].draft \notin {Blank, header[s].committed}
               /\ \A r \in patches : calls[r].pc = "asked" => calls[r].name = header[s].draft
          ELSE patches = {}
=============================================================================
