# informuser-go: models, checks and proofs

informuser-go lets an agent ask its user a question and wait for the answer.
The agent's MCP client calls the tool `AskUser` of a small stdio server
(`cmd/popup-mcp`); the server registers a *task* with the popup daemon over
HTTP and polls until somebody has replied; the daemon (`cmd/popupd`) keeps
the tasks in SQLite, serves a browser workbench and tells its tabs of every
change over websockets.

This directory holds TLA+ models of that system, written from the Go and
TypeScript code, the TLC configurations that check them, and proofs that TLAPS
checks.  `PROJECT.json` maps every definition to the lines it stands for, and
lists the runs, the mutants, the hazards, the findings and the theorems.

    tlc -config DaemonRaces.cfg MCDaemon        # a run
    tlapm DaemonProofs.tla                      # the proofs of a module

## 1. The system

### Components

| component | code | state it keeps | operations |
|---|---|---|---|
| task store | `internal/store` | tables `tasks`, `sessions` | insert, cancel pending, complete, archive and unarchive a batch, upsert and rename a session, migrate, lists |
| task service | `internal/app` | none, and no lock | CreateTask, SubmitReply, CancelTask, RenameSession, batches, TaskResult |
| HTTP handlers | `internal/httpapi` | none | one per route; they publish the events |
| daemon process | `cmd/popupd` | the listener | open the database, listen, shut down |
| event hub | `internal/realtime/hub.go` | set of subscriber channels, an RWMutex | Subscribe, Unsubscribe, Publish |
| websocket handler | `internal/realtime/websocket.go` | one channel per tab | subscribe, drain, write, leave |
| MCP bridge | `internal/mcpbridge`, `cmd/popup-mcp` | none between calls | WaitForReply: register, poll |
| workbench: pending questions | `App.tsx`, `ReplyPanel.tsx`, `QuickPasteReply.tsx`, `lib/api.ts` | list, its ref, focus, reply panel, drafts, submitting row | first load, events, selection, reply |
| reader focus | `features/tasks/focus.ts` | none (pure) | one reducer per event |
| workbench: history and archive | `App.tsx`, `TaskList.tsx`, `lib/api.ts` | two paged lists, their refs, two selections, a mode, a view | load, load more, select, archive, restore, copy, change view |
| workbench: groups and names | `App.tsx`, `TaskList.tsx`, `lib/export.ts` | folded groups, one edit state per header | group, fold, rename, order of copies |
| reader, settings, unread marks | `web/src/features` | `localStorage` settings | presentation |
| configuration, static files, scripts | `internal/config`, `internal/httpapi/static.go`, `internal/webui`, `scripts` | none | start-up and builds |

### How they interact

* The bridge knows the daemon through two requests: `POST /api/tasks`, sent
  again with the same `task_id` until it is accepted, and
  `GET /api/tasks/{id}/result`, sent every poll interval.
* A browser replies, cancels, archives and renames through the other routes.
  Any number of tabs and other clients may do so at the same time.
* A handler changes the database first, publishes to the hub next and answers
  its caller last.  A crash can cut this anywhere.
* The hub never waits for a tab: a full channel loses the event.  A tab fetches
  its lists once; afterwards it lives on events, also after it has reconnected.

### What is hard about it

* **No lock and no transaction around a request.**  `Service.CreateTask` runs
  up to six statements; those of other requests interleave with them.  Only the
  partial unique index and the status conditions of the `UPDATE`s arbitrate.
* **Retries.**  A registration whose response was lost is sent again, perhaps
  while its first attempt still runs, perhaps after a newer question of the
  session has been asked.
* **Late answers.**  A question that was cancelled or superseded can still be
  answered; one answered already can be answered again and must not change.
* **Restarts.**  Answers survive the daemon; the calls that wait for them must
  find them again.  A database may stem from an older daemon without sessions.
* **Loss and order of events.**  Publishers run concurrently, tabs come and go.
* **One page, many continuations.**  In a tab the response of a reply, the event
  about it, events about other questions and the user's clicks come in any
  order, and refs lag behind the state they mirror by one effect.  Every list is
  replaced by whatever answer comes last, asked for by events, replies, restores
  and clicks.
* **Pages of a list that moves.**  "Load more" asks by offset while rows are
  added and taken away; order is the order of texts.

### What makes each part correct

* Daemon: at most one question of a session is open; an answer, once given, is
  final; only answered questions are archived; every event told is and stays
  true; what is acknowledged was stored and announced; a poll reads the answer
  that is kept; a task has its session row; a name changes only by a rename.
* Bridge: a call returns the answer of *its* task; it never polls for a task
  the daemon has not stored; it ends when it is answered or cancelled.
* Hub: no subscriber set changes under a publisher; a tab sees a cause before
  its effect; it misses events only by overflow; nobody waits for a tab.
* Tab, history: what is loaded is the beginning of what the daemon lists; a row
  leaves for a reason; a selection nobody sees is empty; the reader stays with
  its row; groups part the list by session, in the daemon's order, under current
  names; a rename is sent once.
* Tab, questions: a question is listed exactly while it is open, once no event about
  it is on its way and unless one was lost; a reply goes to the question the panel was opened for; the focus leaves
  an open question by the user's hand only; "completed outside this browser" is
  said of foreign replies only; no row stays "submitting".

## 2. The modules

| module | what it is |
|---|---|
| `TaskLifecycle` | the abstract promise about questions: ask, withdraw, answer, shelve |
| `Daemon` | store, service, handlers and process; implements `TaskLifecycle` |
| `DaemonProofs` | the theorems about `Daemon` |
| `AskUser` | the bridge's calls, on top of `Daemon` (EXTENDS it) |
| `AskUserProofs` | the theorems about `AskUser`, which reuse those of `DaemonProofs` |
| `Hub`, `HubProofs` | hub and websocket handlers, and the theorems about them |
| `TaskFocus` | the focus reducers, pure operators |
| `Lists`, `ListProofs` | `Array.filter` and sorting, and what they return for every list: lemmas only |
| `Workbench` | the pending questions of one tab, its user, and the daemon's handlers reduced to what a tab can tell apart |
| `WorkbenchProofs` | the theorems about `Workbench` |
| `HistoryView`, `HistoryProofs` | the main and the archived history of one tab, and the theorems about them |
| `TaskGroups` | time as text, groups, lines of the list, order of a copy: pure operators |
| `SessionGroups` | the main history as groups that fold and headers that rename |
| `GroupsProofs` | the theorems about `TaskGroups` and `SessionGroups` |
| `MCDaemon`, `MCAskUser`, `MCHub`, `MCWorkbench`, `MCHistoryView`, `MCSessionGroups` | values for TLC |

### Daemon

State: `tasks` and `sessions` are the tables (`status = "absent"` and `None`
mean no row), `daemon` is the process, `req` the handler goroutine of each
request in flight, `announced` every event given to the hub (a history
variable, which only grows).

One action is one SQL statement, or one `Publish`, with the decision the Go
code takes on its result; the program counter in `req` names the next
statement.  So `CreateTask` is `CreateKnown | CreateUnknown`,
`SessionFree | SessionOccupied`, `Supersede | SupersedeTooLate`,
`EnsureSession`, `ReadSession`, `Insert | InsertRejected`, `TellSuperseded`,
`TellCreated`.  What `Validate` rejects is one Boolean, `valid`.  SQLite runs
one statement at a time, which is why a statement is atomic; the two batches
are one transaction each, hence one action each.

`StatementFails` fails any statement with the status code its handler maps the
error to.  `Stop` begins a graceful shutdown (requests in flight go on, no new
ones are taken), `Exit` ends the process at any time and cuts every handler
off; the tables stay.  `Start`, `BackfillSession` and `Listen` are migration
and start; `Init` has any rows of an older daemon for the tasks in `Legacy`.

### AskUser

`AskUser` adds to `Daemon` where each call is in `WaitForReply` (`ask`) and a
fault counter.  A call draws a fresh `task_id`, so `TaskOf` is an injection.
`Send` places a request in a slot of `Daemon`; the answer read from it decides
the next step exactly by the status codes of `polling.go`.  `Detach` breaks a
connection: the client sees an error while the handler goes on.
`CancelContext` may happen at any time.  `Fault` bounds failing statements,
shutdowns, crashes and broken connections together by `MaxFaults`.

### Hub

Publishers take the read lock (`RLock`), offer the payload to each subscriber
(`SendOrDrop`, a `select` with `default`) and return.  `Subscribe` and
`Unsubscribe` need the write lock: `Lock` enters the queue, after which no new
reader gets in, as Go's `RWMutex` has it.  A tab may stall at any point;
`ContextDone` is *allowed*, not required.  `finished`, `before` and `owed` only
record what happened, for the properties.

### TaskFocus and Workbench

JavaScript runs one continuation at a time, so an action runs up to the next
`await`.  A state setter takes effect at once; `pendingTasksRef` follows in
`Effect`, a step of its own, and events and responses may come before it.  The
user acts on a page whose effects have run (`Rendered`).  A reply is `Submit`
(up to the first await), `Post`, then `Replied` or `Failed`, then `Refreshed`
(the `finally`).

The daemon's handlers are reduced to what a tab can tell apart: every statement that
changes a row and every publication is a step of its own, everything else is left
to `Daemon`.  A registration is `Supersede` (the older question is cancelled,
`service.go:131`; the handler is then in `asking`), `AskNext` or `Ask` (the insert),
and `Tell` for each event in `untold`; or `AskFails` after `Supersede`: the session
or the question cannot be stored, with or without a fault, since another
registration may hold the session's place in the index; the handler returns
(`handlers.go:30`) and nobody is told that the older question is gone.  A registration
that is sent again may find its own question and supersede it (`daemon_retry`).  A
reply is `ReplyElsewhere` (the row) and `Tell`, or `TellFails`: the answer stored
cannot be read back and no event is sent (`handlers.go:130`).  The tab's own reply is
`Post`, `PostTold` and then `Replied`; `PostFails` cuts it anywhere, and then its
handler may still publish, or not.  `Withdraw` is a cancellation.  `Crash` ends all
handlers between any two of their steps and keeps the rows.  Up to `MaxHandlers`
handlers other than that of the tab's own reply are at work at once, and the events
of different handlers overtake each other.  Sessions are abstracted away: since no two open
questions share a session (theorem `OnePendingCorrect`), "a new question supersedes
any one of the open ones, or none" covers all assignments of sessions.

`QuietPendingIsTrue` is what remains true of the pending list.  It speaks of each
question by itself: once the tab has loaded and no event about the question is on the
wire (`Mentioned`) or yet to be published by a handler (`Coming`), the question is
listed exactly while its row is pending.  `missed` is a history variable, the set of
the questions that were hit by one of the ways the code has to lose an event; a loss
takes out these questions and no others.  The ways are all listed hazards: an event
published while the tab is disconnected or its channel is full, or cut off with the
connection; the daemon stopping between the row and the event; a registration that
fails after it has cancelled the older question; a reply stored and not read back; a
first load that fails, or that differs from the list it overwrites in a question some
event was about since the daemon served it; a list set from a ref that lags behind, in
the questions in which this changed the list; a created event published after the
question's end was told.  Events missed before the first fetch is served are not
counted: that fetch makes up for them.

The history surface is present only
as a place the user may look at; `HistoryView` models it, with the pending list
as such a place in turn.

### HistoryView

State: the daemon is `done` (completed tasks, the newest first) and `shelf` (the
archived ones among them, in the order of the archived list); the tab is the two
lists, their refs, `view` (tab and history view together), the selection mode,
the two selections and the focus of the main list.  A request in a slot of
`calls` is *asked*, then answered by the daemon in one step (`Serve`,
`Refuse`), then applied in one step of its own (`Loaded`, `Refreshed`,
`MoreLoaded`, `Archived`, `Restored` with its second fetch `Reloaded`, ...): in
between the user clicks, events arrive (`news`, `Hear`) and other requests pass.
`Fails` is every catch branch, before or after the daemon has done its part.

Two fetches in flight together may be applied in the wrong order, and then a list
is wrong (`App.tsx:256`, a listed hazard).  The model keeps these behaviours and
marks the lists they may have spoiled in `torn`: a request is `alone` if none was
in flight with it, a fetch that was alone mends what it replaces, one that was
not spoils.  An event that is lost, a batch of another tab and an answer that is
lost after the batch was stored mark `torn`, too.  The properties about what a
list *contains* are about lists that are not torn; those about selections and
rows in flight are about all.

### Lists

`Within` and `Without` are `Array.filter`; `Sorted` and `Stably` are `ORDER BY` and
`Array.sort`.  They say what `SelectSeq` and `SortSeq` of the library say, in a form
that can be reasoned about: `SelectSeq` takes an operator and `SortSeq` an arbitrary
permutation, while here a filter is a recursive function and a sort is the list
that its elements and their order determine.

### TaskGroups and SessionGroups

`TaskGroups` translates `buildTaskGroups` and `formatTasksAsXML` as operators on loaded
rows.  A time is compared by its text,
as `ORDER BY` and `localeCompare` do: `formatTime` writes two digits of the
fraction without trailing zeros, where text and time differ.

`SessionGroups` is the main list once more, now with sessions, names and times
instead of batches and selections: rows carry the name their session had when the
daemon read them, `header` is the state of each `SessionGroupHeader` (`shown`,
`open` with a draft, `saving`, `closed`), and `Unmount` is what the virtual list
or a change of tab does to it while its PATCH goes on.  `closedRef` and
`savingRef` are the program counter of the header.  The daemon's rename is its
two statements, since the answer carries the name that was read again.
Requests, `alone`, `torn` and faults are as in `HistoryView`.

## 3. The runs

All times are of two TLC workers on a small machine.

| run | instance | states | shows |
|---|---|---|---|
| `daemon_races` | 2 questions of 1 session, a reply, a cancellation, 2 renames, 1 legacy task, 2 requests at a time | 2.27 M, 90 s | shape; one open question per session; events stay true; acknowledged registrations are announced; every task has its session; names change by renames only; **implements `TaskLifecycle`** |
| `daemon_history` | 2 legacy tasks, contradicting replies, overlapping and empty batches, polls, rejected bodies | 925 k | answers final, announced before they are acknowledged; polls read what is kept; only answered tasks archived |
| `ask_user_answers` | 2 calls of 1 session, 3 possible answers, 1 fault | 1.55 M | a call returns the answer its task keeps, and polls only for stored tasks |
| `ask_user_waits` | 1 call, answer, cancellation, archiving, 2 faults, **fair** | 122 k | an answered call ends, a cancelled call ends, a registration settles |
| `hub` | 2 tabs, publishers of 2 and 1 events, channels of 2, **fair** | 329 k | mutual exclusion, order, loss by overflow only, publishers return, handlers that leave get out |
| `workbench` | 2 questions, 1 reply in flight, 1 handler at a time besides that of the tab's own reply, wire of 1, 1 foreign reply or fault | 5.4 M, 135 s | focus, panel, "elsewhere" and submitting row keep to the truth; a question not hit by a loss is listed exactly while it is open |
| `history_view` | 2 tasks, pages of 1, 2 requests in flight, 1 fault | 1.1 M, 40 s | quiet lists are the daemon's; rows leave for a reason; no hidden selection; the reader keeps its row |
| `session_groups` | 3 tasks of 2 sessions at 3 instants, pages of 1, 2 names, 2 requests in flight, 1 fault | 1.1 M, 50 s | groups and copies follow the list; order departs from time by trailing zeros only; names current; a save is one PATCH |
| `daemon_lost_question`, `daemon_retry`, `ask_user_fails`, `workbench_drafts` | as above | | the code departs from a document, see section 6 |

**Why the bounds are enough to be interesting.**  Two requests in flight give
every pairwise interleaving of statements, and two tasks of one session every
conflict over the index; a slot is used again and again, so a run has any
number of requests one after the other.  Three concurrent registrations add no
new kind of conflict: each statement touches one row and the index compares two.
(The proofs have no such bound.)  Daemon faults are not bounded at all; only
`AskUser` counts them, for its liveness runs: a crash while the retry of an
earlier crash is in flight needs two, and `AskUserProofs` has no bound on the
number.  Three events into channels of two overflow; two publishers with two
tabs give every order of visits.  In the workbench two questions are needed
for an event about one while the panel shows the other, or for one to supersede the
other.  A handler of the daemon and that of the tab's own reply publish in either
order, before and after the response, so that events overtake each other; a channel of
one overflows at the second event; registrations fail without being counted.  Replies
from elsewhere and faults have one budget (`MaxTroubles`): one foreign reply to tell it
from one's own, or one crash, lost connection, lost response, unread answer or failed
fetch.  Two of them, two handlers besides the tab's own or two replies in flight
exceed the time a run has; the proofs cover any number of replies, handlers and
faults.  In the two history runs a page of one
row makes two or three tasks span pages, so that load more meets a list that has
moved; two requests give every order of two answers, and the single fault is an
overlap, a lost event, a batch or a rename of another tab, or a failure.  A third
task in `history_view`, or a second fault, exceeds the time a run has.  The
instants .05, .1 and .11 have every relation of two texts: in order, and out of
order by a dropped zero.  One of the two sessions is renamed, possibly to the
name of the other.

**Symmetry** is used over request slots and, in the runs of `MCWorkbench` and
`MCHistoryView`, over tasks: no
property distinguishes them and, in the runs with symmetry, none is a liveness
property.  **Deadlock** is checked except in the runs of `MCWorkbench` and in
`ask_user_fails`: with all questions answered and the user idle a page may
stand still, and a failed call has nothing more to do.

**Fairness.**  The safety runs assume none.  `AskFairSpec` has weak fairness for
the steps of a call, of the handlers, of the return of answers nobody reads, and
of starting the daemon again: goroutines run and timers expire.  That somebody
starts the daemon again is an assumption on the environment, not on the code;
without it no call could ever be answered, and "retry registration forever while
the daemon is unavailable" (design document, line 167) presumes that it comes
back.  Nobody has to call, answer or cancel; failures are finitely many by
`MaxFaults`.
`HubFairSpec` has weak fairness for publishers and for what is done under the
write lock, and strong fairness for taking it: `sync.RWMutex` blocks new readers
once a writer waits, and `sync.Mutex` hands over to the longest waiter
(starvation mode), so a writer does not starve although the lock is taken by
others again and again.  Tabs owe nothing.

Every property has at least one mutant in `PROJECT.json`: a small plausible bug
in a mapped definition under which TLC finds that property violated.  The mutants
are kept next to the definitions they change, commented "Mutant".

## 4. What is proved

Proved for every value of the constants: any number of tasks, sessions, requests
in flight, tabs, publishers, calls and faults, and any page size and capacity.
Every invariant and every action property that a passing run checks is stated by
a theorem, and so is the refinement.

| module | theorems, of the properties |
|---|---|
| `DaemonProofs` | `TypeCorrect` (`TypeOK`), `OnePendingCorrect`, `ArchivedCorrect`, `AnswersFinalCorrect`, `TasksHaveSessionsCorrect`, `NamesChangeCorrect`, `LifecycleImplemented`, `EventsTrueCorrect`, `AckedReplyCorrect`, `AckedCreateCorrect`, `PolledAnswerCorrect` |
| `AskUserProofs` | `DaemonServesCalls` (every behaviour of `AskSpec` is one of `Daemon`'s `Spec`), `AskTypeCorrect`, `PollsForStoredTaskCorrect`, `ReturnedReplyCorrect` |
| `HubProofs` | `HubTypeCorrect`, `VisitsSubscribersCorrect`, `DeliveredInOrderCorrect`, `SmallBurstsCorrect` |
| `WorkbenchProofs` | `WorkbenchTypeCorrect`, `QuietPendingCorrect`, `ElsewhereCorrect`, `SubmittingCorrect`, `ReplyKeepsItsTaskCorrect`, `FocusIsStableCorrect` |
| `HistoryProofs` | `HistoryTypeCorrect`, `QuietListsCorrect`, `RowsLeaveCorrect`, `NothingHiddenCorrect`, `ReaderKeepsCorrect` |
| `GroupsProofs` | `GroupsTypeCorrect`, `SavingCorrect`, `QuietNamesCorrect`, `OutOfOrderCorrect`, `GroupsFollowCorrect` |

The theorems of the tab matter beyond the runs: these afford one reply in flight
and one fault, `history_view` and `session_groups` two requests and pages of one row.

**Assumptions.**  All are named, in the module that declares the constants, and TLC
evaluates them in every run of the module.  `ConstantsAssumption`: `None` is no value
of the others, the requests and legacy tasks are well formed.  `WaiterAssumption`:
calls have distinct tasks and requests the daemon knows.  `HubAssumption`: a channel
has room for at least one event, every publisher has a finite burst of events, and there
may be infinitely many publishers.  `WorkbenchAssumption`, `HistoryAssumption`: `None`
is no task, a page has at least one row, bounds are numbers.  `GroupsAssumption`,
`GroupsViewAssumption`: every task has a session, times are hundredths of one second,
no two tasks are completed at the same one (section 5), a name is not blank.  They
follow from uuids, from the Go types and from constants of the code.  No set is
assumed finite: where a proof counts (`SmallBurstsArrive`, `SavingIsOnePatch`), it
proves that what it counts is.

**Argument.**  None of the properties is inductive alone.

*Daemon.*

1. `ShapeInv` = `TypeOK` and what a program counter says of its record: a
   handler at a `POST /api/tasks` statement has a create call, one about to
   publish a supersession has a victim, a completed row has an answer, and so
   on.  It is needed to know that a step writes rows that are rows.
2. `TableStep`: under `ShapeInv` a step of `Next` either leaves `tasks` alone or
   is one of four guarded changes (insert without conflict, cancel a pending
   row, complete an open or cancelled one, a batch of completed rows).
   `OnePendingPerSession`, `ArchivedAreCompleted`, `AnswersAreFinal` and the
   refinement follow from these four cases without looking at handlers again.
   `SessionsStep` is its counterpart for names: a row of `sessions` changes only
   by a handler that is about to store a rename.
3. `SessionEnsured`: a registration that has passed its upsert finds its session
   row until the process ends.  With it `TasksHaveSessions` is inductive.
4. `KnowledgeInv`: what each handler has established about the tables and the
   announced events at each of its statements, for instance "at
   `tellCompleted` the task is completed".  It is stable because status only
   moves forward and `announced` only grows, which `TableStep` gives; the events
   and acknowledgement properties are its last cases.

*AskUser.*  `AskInv`: the shape of calls, `ConnectionsOK` (the slot of a call carries
this call's request, no other call's), `RegisteredExist` (an accepted registration
has a row).  `DaemonServesCalls` then carries everything proved of the daemon over.

*Hub.*  `HubInv`.  What a tab has received, is being written and will drain is one
sequence, its `Stream`.  A step leaves a stream alone, appends the event a
publisher offers, or ends it with the connection (`StreamStep`); an event offered is
in no stream yet (`StreamsOK`), and none begun after its `Publish` returned was there
before it, hence the order.  `PublishersOK` is mutual exclusion: who is still to be
visited is subscribed.  For `SmallBurstsArrive`, `OwedOK`: while the events begun
would all fit into one channel, what a subscriber is owed is in its stream or its
publisher has yet to come by, since a stream of distinct events is no longer than
the events are many.

*Workbench.*  `WorkbenchInv`: the shapes of daemon, page and calls; `Happened`, what an
event on the wire or about to be published, a registration between its two statements
or a reply that is stored says of the daemon's rows; `SeenWasAsked`, a question is
listed, or about to be, only after it was asked; the reply behind the submitting row;
and `Foretold`, question by question: of one the daemon has nothing left to say about
and that was not missed, the *last* event on the wire says whether it is open, and
without one the tab knows it.  That is `QuietPendingIsTrue` once the load is over; on
the way, it shows that applying an event late, or after a fetch that already knew of
it, does no harm.  `Publish` is the step that matters: what it puts on the wire must
be the last word, unless the handler of another event about the question is still to
come, which is what `Coming` counts.

*HistoryView.*  `HistoryInv`.  A loaded list is a prefix of the daemon's, or a request
is in flight that makes up for it (`Known`), which is true only because of what
every request that is alone knows of the list it will set (`Alone`): a page fetched is
a prefix, the next page begins where the list ends, a batch leaves a prefix of what
remains.  `Apart` says that rows are in the wrong list only while the answer that
moves them is on its way.  `NothingHiddenIsSelected` and `ReaderKeepsItsRow` are
steps from `ViewShape` and `Apart`.

*SessionGroups.*  `GroupsInv`.  `EachSaves` is `SavingIsOnePatch` for sets of slots of
any size.  `Named`: a loaded row has its session's name, or a stored rename's answer
is on its way; `Listed`: the list follows the daemon's, or a refresh is in flight; both
rest on what a request that is alone knows (`AloneKnow`).  Then the operators:
`GroupsFollowCorrect` shows that grouping a list that is in the order of the texts
by session, and sorting a copy by the texts again, keep that order; and
`OutOfOrderCorrect` that two texts are out of the order of their times only if one
of them ends in the digit zero that was dropped.

**Recursion.**  `Within` is defined by a recursive function, and the rules of induction
are out of the prover's reach, since they take an operator.  `ListProofs` does
without: a fact about the first `i` elements that failed for some `i` would fail for a
least one (`LeastNumber`, from the well-foundedness of `<`), and one step of the
recursion rules that out (`EveryNumber`).  Sorting is a choice among lists; that there
is one for every finite set, and only one, is proved in the same way (`SortExists`,
`SortIsUnique`).  No module declares a `RECURSIVE` operator.

**Only model-checked.**  The liveness properties, since fairness and `ENABLED` are
outside what TLAPS handles: `AnsweredCallEnds`, `CancelledCallEnds`,
`RegistrationSettles`, `PublishReturns` and `LeavingEnds`.  `LifecycleImplemented` is
safety, as `TaskLifecycle` states no fairness.  And the four statements of documents
that the code departs from (section 6), of each of which TLC shows a
counterexample.

## 5. Abstractions

* Texts, names and sources are model values (the daemon stores whatever source a
  client names); blank fields and malformed JSON are `valid = FALSE`.
* In `Daemon` timestamps, the order and paging of lists, JSON layout, logging
  and wording are left out.  That an archive keeps the first `archived_at` is
  said by `HistoryView`, whose `Shelve` passes over rows on the shelf.
* `HistoryView` takes tasks to be completed at different times and in the order
  of their texts, and any set of loaded rows to be a group; `SessionGroups` leaves
  batches and selections to it.  Equal times, whose ties the database breaks by
  task and the browser's groups by session, are left out; the rows of one batch
  have equal `archived_at`, so groups of the archived list that end in the same
  batch stand in the order of their session ids.
* Of the archived surface the focus is left out (`applyRestoreResult` mirrors
  `applyArchiveResult`), of a header the focus of its input and its menu, and of the
  grouped list its layout (`buildListItems`): which groups are folded is modelled.
* A statement that fails changes nothing, as SQLite guarantees.
* In `Workbench` a tab's fetch is answered from the state at one moment, and its
  response may be late by any number of steps; its order of list is the order of
  asking, newest first.
* External and modelled from their use only: the HTTP client and connections,
  `sync.RWMutex`, the browser's websocket, the user.

## 6. Where code and documents differ

Each is a run that expects a violation; the trace is the explanation.

* `daemon_lost_question` (`SupersededHasSuccessor`): `CreateTask` cancels the
  older question before the newer one is stored (`service.go:131`).  If a later
  statement fails, or the daemon stops there, the session has neither, and no
  event tells a tab so.  Design document, line 141: a new task "supersedes".
* `daemon_retry` (`RegistrationIsIdempotent`): two requests with the same
  `task_id` both pass the lookup; the second finds the row of the first as the
  session's open question, cancels it as superseded *by itself*, and its insert
  then fails.  Design document, line 138: `task_id` is the idempotency key.
* `ask_user_fails` (`FailsOnlyWhenCancelled`): a registration that lost the race
  for its session is answered 400, which the bridge does not retry, although a
  second attempt would supersede.  Design document, line 170: exit only when the
  context is cancelled.
* `workbench_drafts` (`DraftsSurviveFailure`): `handleSubmit` reports an error and
  returns normally; `ReplyPanel.submit` cannot tell and removes the draft of a
  question that is still open.  Design document, lines 208 and 209.

Seen while modelling, with no document that says more than that events are broadcast
(line 45 of the design document): a question may stay listed, or unlisted, until the
page is reloaded, because an event about it never comes, comes too late or is undone:

* a registration cancels the older question and then fails, also by a mere conflict
  over the index: no event (`handlers.go:30`), the run `daemon_lost_question` as a tab
  sees it;
* a reply is stored, but cannot be read back: an error and no event (`handlers.go:130`);
* the daemon stops between the row and the event;
* events of a gap in the connection, or of a full channel, are never made up for
  (`api.ts:157`, `hub.go:55`);
* a question is answered or withdrawn before its created event is published
  (`handlers.go:44`): it stays listed in the tabs that were already open, since no
  later event takes it out;
* the first load overwrites what events told since it was served (`App.tsx:190`), and
  the page the user already works with, so `ReplyKeepsItsTask` and `FocusIsStable` begin
  with its end;
* the list set after a reply comes from a ref that may be one effect old
  (`App.tsx:328`), so an interleaved event can be undone in it.

`QuietPendingIsTrue` leaves out the questions that were hit in one of these ways, and
shows that there is no other way and that no other question suffers.

The completed event of a repeated reply names that reply's source, not the stored one's
(`handlers.go:140`), so a tab may call a question "completed outside this browser" that
a browser answered first and another client once more; `ElsewhereIsElsewhere` allows it.

Seen in the same model, where a document or a test says otherwise but no run is kept:

* `submittingTaskId` holds one task, so a second reply gives the first row its input
  back while its request is in flight (`App.tsx:316`), and the first to end does the
  same to the second (`:342`).  Design document, line 198: the row is in a submitting
  state while the request is in flight.
* After its own reply the tab takes the next question from `pendingTasksRef`
  (`App.tsx:234`, `:328`), where one that an event has just removed from the list may
  still be.  The reader is empty then, and stays so when the next question comes, since
  a focus is set.  Test `focus.test.ts:98`: the focus moves "to the next pending task".

Seen while modelling the histories, where a document says otherwise but the
behaviour needs a race, is deliberate elsewhere, or is a matter of taste (the
documents are under `docs/`; the grouping design is
`session-grouping-and-archive-design.md`):

* A refresh answered before a batch was stored and applied after it shows the
  archived rows in the main list again (grouping design, line 98: the main
  history shows what is not archived), until the next refresh.  A refresh
  overtaken by a rename brings the old name back in the same way (line 72).
* An archive answered after the user has opened the archived list empties that
  list and marks it as not loaded, and it stays empty until it is opened again
  (line 640: it is loaded when it is entered).
* `loadMoreHistory` notes the sessions it knows at the click and folds all others of the
  page when it arrives (`App.tsx:555`), also a group that a refresh has put on the
  screen since, expanded: a group that is being read folds by itself.  History redesign
  plan, line 39: "Existing expanded group remains expanded."
* A batch answered after the user has gone to the other list ends the selection
  mode there and leaves that list's selection behind it; it is dropped on the next change of
  view (line 519), which is why `NothingHiddenIsSelected` is about changes of view.
* After the row in the reader was archived the reader says so and stays; line 188
  has the next visible task selected.
* A refresh goes back to the first 80 rows, so the reader of an older row is empty
  afterwards although its focus is kept (`CHANGELOG.md:47`: the focus is stable).
* Times with trailing zeros are listed out of order (`OutOfOrderOnlyByZeros` says
  by how much), against "by the latest `completed_at`" (line 98).

## 7. Plan

The order puts what others rely on first; the core is 1 to 4.

1. `TaskLifecycle`, `Daemon`, `DaemonProofs`.  Done.
2. `AskUser`, `AskUserProofs`.  Done.
3. `Hub`, `HubProofs`.  Done.
4. `TaskFocus`, `Workbench`, `WorkbenchProofs`.  Done; the passing runs have one reply
   in flight, the proofs any number.
5. `HistoryView`, `HistoryProofs`.  Done; the run has two tasks and two requests.
6. `TaskGroups`, `SessionGroups`, `Lists`, `GroupsProofs`.  Done.
7. Next, as theorems: that `Workbench` relies on no more than the daemon gives (its
   `row` follows `TaskLifecycle`, with the sessions of the questions as a history
   variable), and that of a delivered event sequence the hub's `Stream` gives
   `Workbench` its `wire`.  Next, as models: equal completion times.

### Not modelled

Rendering (Markdown, AsciiDoc) and the reader's settings, the suffix of replies,
notifications and the sound cue, access URLs, static files, build and test
scripts: functions of one input or presentation, without state shared with the
rest.  The unread marks (`unread.ts`) are called by nothing.  The MCP protocol is
a library; a call is what reaches `WaitForReply`.
