------------------------------- MODULE Daemon -------------------------------
(***************************************************************************)
(* The popup daemon: its SQLite store (internal/store), its task service   *)
(* (internal/app) and its HTTP handlers (internal/httpapi).                *)
(*                                                                         *)
(* The service holds no lock and, except for the two batch operations, no  *)
(* transaction: every handler is a goroutine whose SQL statements          *)
(* interleave with those of the others.  One action here is one statement  *)
(* (or one Publish), with the decision the Go code takes on its result.    *)
(***************************************************************************)
EXTENDS Naturals, FiniteSets

CONSTANTS
    Task,       \* task ids, chosen by the callers (a uuid per AskUser call)
    Session,    \* session ids
    Input,      \* non-blank texts a human may answer with
    Source,     \* reply sources a browser may name
    Name,       \* display names of sessions
    AutoName,   \* the name a session has before anybody renames it
    Slot,       \* HTTP requests that may be in flight at a time
    Calls,      \* the requests the clients may send
    Legacy,     \* tasks an older daemon may have left in the database
    None

(* The bodies the routes of router.go accept.  "valid" stands for what     *)
(* Validate looks at: no required field is blank.                          *)
CreateCall == [op : {"create"}, task : Task, session : Session, valid : BOOLEAN]
ReplyCall  == [op : {"reply"}, task : Task, input : Input, source : Source, valid : BOOLEAN]
CancelCall == [op : {"cancel"}, task : Task]
ResultCall == [op : {"result"}, task : Task]
BatchCall  == [op : {"archive", "unarchive"}, batch : SUBSET Task]
RenameCall == [op : {"rename"}, session : Session, name : Name, valid : BOOLEAN]

Call == CreateCall \cup ReplyCall \cup CancelCall \cup ResultCall
            \cup BatchCall \cup RenameCall

ASSUME ConstantsAssumption ==
    /\ None \notin Task \cup Session \cup Input \cup Source \cup Name
    /\ AutoName \in Name
    /\ Calls \subseteq Call
    /\ Legacy \subseteq Task

VARIABLES
    tasks,      \* the table tasks, a row of status "absent" for no row
    sessions,   \* the table sessions: display_name, None for no row
    daemon,     \* the process: "down", "opening", "up" or "stopping"
    req,        \* the handler goroutine of each request
    announced   \* every event handed to the hub so far

vars == <<tasks, sessions, daemon, req, announced>>

-----------------------------------------------------------------------------
(* The store.                                                              *)

Status == {"absent", "pending", "cancelled", "completed"}
Reason == {"superseded_by_new_task", "cancelled_by_user"}

Row == [status : Status,
        session : Session \cup {None},
        input : Input \cup {None},
        source : Source \cup {None},
        reason : Reason \cup {None},
        archived : BOOLEAN]

NoRow == [status |-> "absent", session |-> None, input |-> None,
          source |-> None, reason |-> None, archived |-> FALSE]

Exists(t) == tasks[t].status # "absent"

PendingIn(s) == {t \in Task : tasks[t].status = "pending" /\ tasks[t].session = s}

(* Mutant: the partial unique index is gone.                               *)
InsertIgnoresIndex(t, s) == Exists(t)

(* Primary key on task_id, partial unique index on session_id.             *)
InsertConflicts(t, s) == Exists(t) \/ PendingIn(s) # {}

InsertTask(t, s) ==
    tasks' = [tasks EXCEPT ![t] = [NoRow EXCEPT !.status = "pending", !.session = s]]

(* Mutant: the cancel statement forgets its status condition.              *)
CancelAnyRow(t) == Exists(t)

(* UPDATE ... WHERE task_id = t AND status = 'pending'                     *)
CancelAffects(t) == tasks[t].status = "pending"

CancelRow(t, why) ==
    tasks' = [tasks EXCEPT ![t].status = "cancelled", ![t].reason = why]

(* Mutant: the complete statement forgets its status condition.            *)
CompleteAnyRow(t) == Exists(t)

(* UPDATE ... WHERE task_id = t AND status IN ('pending', 'cancelled')     *)
CompleteAffects(t) == tasks[t].status \in {"pending", "cancelled"}

CompleteRow(t, text, from) ==
    tasks' = [tasks EXCEPT ![t].status = "completed", ![t].input = text,
                           ![t].source = from, ![t].reason = None]

(* Mutant: the batch does not look at the status of its rows.              *)
BatchUnchecked(batch) == batch # {}

(* One transaction: every id is validated before any row is changed.       *)
BatchAccepted(batch) == batch # {} /\ \A t \in batch : tasks[t].status = "completed"

SetArchived(batch, on) ==
    tasks' = [t \in Task |-> IF t \in batch THEN [tasks[t] EXCEPT !.archived = on]
                                            ELSE tasks[t]]

(* Mutant: the upsert replaces the whole row.                              *)
UpsertOverwrites(s) == sessions' = [sessions EXCEPT ![s] = AutoName]

(* INSERT ... ON CONFLICT(session_id) DO UPDATE SET last_seen_at           *)
UpsertSession(s) ==
    sessions' = [sessions EXCEPT ![s] = IF @ = None THEN AutoName ELSE @]

-----------------------------------------------------------------------------
(* The handlers.                                                           *)

(* Program counters: the statement a handler is about to run.              *)
CreatePC == {"lookup", "occupied", "supersede", "ensure", "name", "insert",
             "tellSuperseded", "tellCreated"}
ReplyPC  == {"complete", "recheck", "load", "tellCompleted"}
CancelPC == {"cancel", "tellCancelled"}
RenamePC == {"rename", "reread"}
PC == {"idle", "done", "find", "poll", "batch"}
         \cup CreatePC \cup ReplyPC \cup CancelPC \cup RenamePC

(* What the caller reads: the status code, or the status word of a 200.    *)
Code == {"none", "created", "exists", "completed", "ok", "found", "pending",
         "bad", "missing", "error", "lost"}

FirstPC(op) ==
    CASE op = "create"                    -> "lookup"
      [] op \in {"reply", "cancel"}       -> "find"
      [] op = "result"                    -> "poll"
      [] op \in {"archive", "unarchive"}  -> "batch"
      [] op = "rename"                    -> "rename"

NoCall == [op |-> "none"]

Idle == [pc |-> "idle", call |-> NoCall, victim |-> None, seen |-> None,
         name |-> None, code |-> "none", input |-> None]

CreatedEvent   == [type : {"created"}, task : Task, session : Session, name : Name]
CompletedEvent == [type : {"completed"}, task : Task, session : Session, source : Source]
CancelledEvent == [type : {"cancelled"}, task : Task, session : Session,
                   reason : Reason, by : Task \cup {None}]

Event == CreatedEvent \cup CompletedEvent \cup CancelledEvent

Handler == [pc : PC, call : Call \cup {NoCall},
            victim : Task \cup {None}, seen : Session \cup {None},
            name : Name \cup {None}, code : Code, input : Input \cup {None}]

At(r, pc) == req[r].pc = pc
Goto(r, pc) == req' = [req EXCEPT ![r].pc = pc]
Respond(r, code) == req' = [req EXCEPT ![r].pc = "done", ![r].code = code]
Publish(event) == announced' = announced \cup {event}

OnlyReq == UNCHANGED <<tasks, sessions, daemon, announced>>

(* POST /api/tasks: Service.CreateTask, then the two events.               *)

CreateInvalid(r) ==
    /\ At(r, "lookup") /\ ~ req[r].call.valid
    /\ Respond(r, "bad")
    /\ OnlyReq

(* Mutant: a task registered again is reported as a server error.          *)
KnownIsServerError(r) ==
    /\ At(r, "lookup") /\ req[r].call.valid
    /\ Exists(req[r].call.task)
    /\ Respond(r, "error")
    /\ OnlyReq

CreateKnown(r) ==
    LET t == req[r].call.task IN
    /\ At(r, "lookup") /\ req[r].call.valid
    /\ Exists(t)
    /\ Respond(r, IF tasks[t].status = "completed" THEN "completed" ELSE "exists")
    /\ OnlyReq

CreateUnknown(r) ==
    /\ At(r, "lookup") /\ req[r].call.valid
    /\ ~ Exists(req[r].call.task)
    /\ Goto(r, "occupied")
    /\ OnlyReq

SessionFree(r) ==
    /\ At(r, "occupied")
    /\ PendingIn(req[r].call.session) = {}
    /\ Goto(r, "ensure")
    /\ OnlyReq

SessionOccupied(r) ==
    /\ At(r, "occupied")
    /\ \E old \in PendingIn(req[r].call.session) :
         req' = [req EXCEPT ![r].pc = "supersede", ![r].victim = old]
    /\ OnlyReq

Supersede(r) ==
    /\ At(r, "supersede")
    /\ CancelAffects(req[r].victim)
    /\ CancelRow(req[r].victim, "superseded_by_new_task")
    /\ Goto(r, "ensure")
    /\ UNCHANGED <<sessions, daemon, announced>>

(* The older task left "pending" since it was read: ErrNoRows, a 400.      *)
SupersedeTooLate(r) ==
    /\ At(r, "supersede")
    /\ ~ CancelAffects(req[r].victim)
    /\ Respond(r, "bad")
    /\ OnlyReq

EnsureSession(r) ==
    /\ At(r, "ensure")
    /\ UpsertSession(req[r].call.session)
    /\ Goto(r, "name")
    /\ UNCHANGED <<tasks, daemon, announced>>

(* Mutant: the row is not read back.                                       *)
ReadNothing(r) ==
    /\ At(r, "name")
    /\ Goto(r, "insert")
    /\ OnlyReq

(* EnsureSession reads the row back; the display name goes into the event. *)
ReadSession(r) ==
    LET s == req[r].call.session IN
    /\ At(r, "name")
    /\ IF sessions[s] = None
         THEN Respond(r, "bad")
         ELSE req' = [req EXCEPT ![r].pc = "insert", ![r].name = sessions[s]]
    /\ OnlyReq

InsertRejected(r) ==
    /\ At(r, "insert")
    /\ InsertConflicts(req[r].call.task, req[r].call.session)
    /\ Respond(r, "bad")
    /\ OnlyReq

Insert(r) ==
    /\ At(r, "insert")
    /\ ~ InsertConflicts(req[r].call.task, req[r].call.session)
    /\ InsertTask(req[r].call.task, req[r].call.session)
    /\ Goto(r, IF req[r].victim = None THEN "tellCreated" ELSE "tellSuperseded")
    /\ UNCHANGED <<sessions, daemon, announced>>

(* Mutant: the handler reports only the task it created.                   *)
TellNobody(r) ==
    /\ At(r, "tellSuperseded")
    /\ Goto(r, "tellCreated")
    /\ OnlyReq

TellSuperseded(r) ==
    /\ At(r, "tellSuperseded")
    /\ Publish([type |-> "cancelled", task |-> req[r].victim,
                session |-> req[r].call.session,
                reason |-> "superseded_by_new_task", by |-> req[r].call.task])
    /\ Goto(r, "tellCreated")
    /\ UNCHANGED <<tasks, sessions, daemon>>

TellCreated(r) ==
    /\ At(r, "tellCreated")
    /\ Publish([type |-> "created", task |-> req[r].call.task,
                session |-> req[r].call.session, name |-> req[r].name])
    /\ Respond(r, "created")
    /\ UNCHANGED <<tasks, sessions, daemon>>

CreateStep(r) ==
    \/ CreateInvalid(r) \/ CreateKnown(r) \/ CreateUnknown(r)
    \/ SessionFree(r) \/ SessionOccupied(r)
    \/ Supersede(r) \/ SupersedeTooLate(r)
    \/ EnsureSession(r) \/ ReadSession(r)
    \/ InsertRejected(r) \/ Insert(r)
    \/ TellSuperseded(r) \/ TellCreated(r)

(* POST /api/tasks/{id}/reply and /cancel begin with FindTask; the session *)
(* of the row read here is the one the event will carry.                   *)

FindMissing(r) ==
    /\ At(r, "find")
    /\ ~ Exists(req[r].call.task)
    /\ Respond(r, "missing")
    /\ OnlyReq

FindTask(r) ==
    LET t == req[r].call.task IN
    /\ At(r, "find")
    /\ Exists(t)
    /\ req' = [req EXCEPT ![r].seen = tasks[t].session,
                          ![r].pc = IF req[r].call.op = "reply" THEN "complete"
                                                                ELSE "cancel"]
    /\ OnlyReq

ReplyInvalid(r) ==
    /\ At(r, "complete") /\ ~ req[r].call.valid
    /\ Respond(r, "bad")
    /\ OnlyReq

Complete(r) ==
    LET c == req[r].call IN
    /\ At(r, "complete") /\ c.valid
    /\ CompleteAffects(c.task)
    /\ CompleteRow(c.task, c.input, c.source)
    /\ Goto(r, "load")
    /\ UNCHANGED <<sessions, daemon, announced>>

CompleteTooLate(r) ==
    /\ At(r, "complete") /\ req[r].call.valid
    /\ ~ CompleteAffects(req[r].call.task)
    /\ Goto(r, "recheck")
    /\ OnlyReq

(* Mutant: a repeated reply is answered at once.                           *)
RecheckAnswersOk(r) ==
    /\ At(r, "recheck")
    /\ Respond(r, IF tasks[req[r].call.task].status = "completed" THEN "ok" ELSE "bad")
    /\ OnlyReq

(* Nothing was updated: a reply to a completed task succeeds all the same. *)
Recheck(r) ==
    /\ At(r, "recheck")
    /\ IF tasks[req[r].call.task].status = "completed"
         THEN Goto(r, "load")
         ELSE Respond(r, "bad")
    /\ OnlyReq

LoadResult(r) ==
    /\ At(r, "load")
    /\ IF tasks[req[r].call.task].status = "completed"
         THEN Goto(r, "tellCompleted")
         ELSE Respond(r, "ok")
    /\ OnlyReq

TellCompleted(r) ==
    LET c == req[r].call IN
    /\ At(r, "tellCompleted")
    /\ Publish([type |-> "completed", task |-> c.task,
                session |-> req[r].seen, source |-> c.source])
    /\ Respond(r, "ok")
    /\ UNCHANGED <<tasks, sessions, daemon>>

ReplyStep(r) ==
    \/ ReplyInvalid(r) \/ Complete(r) \/ CompleteTooLate(r)
    \/ Recheck(r) \/ LoadResult(r) \/ TellCompleted(r)

Cancel(r) ==
    /\ At(r, "cancel")
    /\ CancelAffects(req[r].call.task)
    /\ CancelRow(req[r].call.task, "cancelled_by_user")
    /\ Goto(r, "tellCancelled")
    /\ UNCHANGED <<sessions, daemon, announced>>

CancelTooLate(r) ==
    /\ At(r, "cancel")
    /\ ~ CancelAffects(req[r].call.task)
    /\ Respond(r, "bad")
    /\ OnlyReq

TellCancelled(r) ==
    /\ At(r, "tellCancelled")
    /\ Publish([type |-> "cancelled", task |-> req[r].call.task,
                session |-> req[r].seen,
                reason |-> "cancelled_by_user", by |-> None])
    /\ Respond(r, "ok")
    /\ UNCHANGED <<tasks, sessions, daemon>>

CancelStep(r) == Cancel(r) \/ CancelTooLate(r) \/ TellCancelled(r)

(* POST /api/history/archive and /unarchive.                               *)

Batch(r) ==
    /\ At(r, "batch")
    /\ BatchAccepted(req[r].call.batch)
    /\ SetArchived(req[r].call.batch, req[r].call.op = "archive")
    /\ Respond(r, "ok")
    /\ UNCHANGED <<sessions, daemon, announced>>

(* The first id that fails validation decides the answer; the order of the *)
(* ids is the caller's.                                                    *)
BatchRejected(r) ==
    LET batch == req[r].call.batch IN
    /\ At(r, "batch")
    /\ \/ batch = {} /\ Respond(r, "bad")
       \/ \E t \in batch :
            /\ tasks[t].status # "completed"
            /\ Respond(r, IF Exists(t) THEN "bad" ELSE "missing")
    /\ OnlyReq

(* PATCH /api/sessions/{id}: update, then read the row back.               *)

RenameRejected(r) ==
    LET c == req[r].call IN
    /\ At(r, "rename")
    /\ \/ ~ c.valid /\ Respond(r, "bad")
       \/ c.valid /\ sessions[c.session] = None /\ Respond(r, "missing")
    /\ OnlyReq

Rename(r) ==
    LET c == req[r].call IN
    /\ At(r, "rename") /\ c.valid
    /\ sessions[c.session] # None
    /\ sessions' = [sessions EXCEPT ![c.session] = c.name]
    /\ Goto(r, "reread")
    /\ UNCHANGED <<tasks, daemon, announced>>

Reread(r) ==
    /\ At(r, "reread")
    /\ Respond(r, IF sessions[req[r].call.session] = None THEN "missing" ELSE "ok")
    /\ OnlyReq

RenameStep(r) == RenameRejected(r) \/ Rename(r) \/ Reread(r)

(* GET /api/tasks/{id}/result.                                             *)

(* Mutant: the answer of an archived task is not found.                    *)
PollSkipsArchived(r) ==
    LET row == tasks[req[r].call.task] IN
    /\ At(r, "poll")
    /\ req' = IF row.status = "completed" /\ ~ row.archived
                THEN [req EXCEPT ![r].pc = "done", ![r].code = "found", ![r].input = row.input]
                ELSE [req EXCEPT ![r].pc = "done", ![r].code = "pending"]
    /\ OnlyReq

Poll(r) ==
    LET row == tasks[req[r].call.task] IN
    /\ At(r, "poll")
    /\ req' = IF row.status = "completed"
                THEN [req EXCEPT ![r].pc = "done", ![r].code = "found", ![r].input = row.input]
                ELSE [req EXCEPT ![r].pc = "done", ![r].code = "pending"]
    /\ OnlyReq

Step(r) ==
    \/ CreateStep(r)
    \/ FindMissing(r) \/ FindTask(r)
    \/ ReplyStep(r) \/ CancelStep(r)
    \/ Batch(r) \/ BatchRejected(r)
    \/ RenameStep(r)
    \/ Poll(r)

(* A statement fails: the request's context ended, the database stayed     *)
(* locked, the disk refused.  The statement has no effect, earlier ones of *)
(* the same handler stay, and the handler answers with its error code.     *)
FailureCode(pc) ==
    IF pc \in {"find", "load", "batch", "rename", "reread"} THEN "error" ELSE "bad"

Publishing == {"tellSuperseded", "tellCreated", "tellCompleted", "tellCancelled"}

StatementFails(r) ==
    /\ req[r].pc \notin {"idle", "done"} \cup Publishing
    /\ Respond(r, FailureCode(req[r].pc))
    /\ OnlyReq

-----------------------------------------------------------------------------
(* The process and its clients.                                            *)

(* Open: schema and archived_at column, then a session row for every       *)
(* session id found in tasks, one INSERT OR IGNORE at a time.              *)
Start ==
    /\ daemon = "down"
    /\ daemon' = "opening"
    /\ UNCHANGED <<tasks, sessions, req, announced>>

WithoutRow == {s \in Session : sessions[s] = None /\ \E t \in Task : tasks[t].session = s}

BackfillSession(s) ==
    /\ daemon = "opening"
    /\ s \in WithoutRow
    /\ sessions' = [sessions EXCEPT ![s] = AutoName]
    /\ UNCHANGED <<tasks, daemon, req, announced>>

(* Mutant: the daemon serves before it has backfilled the sessions.        *)
ListenEarly ==
    /\ daemon = "opening"
    /\ daemon' = "up"
    /\ UNCHANGED <<tasks, sessions, req, announced>>

Listen ==
    /\ daemon = "opening"
    /\ WithoutRow = {}
    /\ daemon' = "up"
    /\ UNCHANGED <<tasks, sessions, req, announced>>

(* SIGINT or SIGTERM: no new connection, the handlers get 5 s to finish.   *)
Stop ==
    /\ daemon = "up"
    /\ daemon' = "stopping"
    /\ UNCHANGED <<tasks, sessions, req, announced>>

(* The process ends, after that grace period or without it.  Callers of    *)
(* unfinished requests see their connection break.                         *)
Exit ==
    /\ daemon # "down"
    /\ daemon' = "down"
    /\ req' = [r \in Slot |-> IF req[r].pc \in {"idle", "done"} THEN req[r]
                              ELSE [req[r] EXCEPT !.pc = "done", !.code = "lost"]]
    /\ UNCHANGED <<tasks, sessions, announced>>

Accept(r, c) ==
    /\ daemon = "up"
    /\ At(r, "idle")
    /\ req' = [req EXCEPT ![r] = [Idle EXCEPT !.pc = FirstPC(c.op), !.call = c]]
    /\ OnlyReq

(* The caller has read the answer, or gave up on it: the slot is free.     *)
Receive(r) ==
    /\ At(r, "done")
    /\ req' = [req EXCEPT ![r] = Idle]
    /\ OnlyReq

Process == Start \/ (\E s \in Session : BackfillSession(s)) \/ Listen \/ Stop \/ Exit

Init ==
    /\ \E old \in [Legacy -> Row] :
         /\ \A t \in Legacy : /\ ~ old[t].archived
                              /\ (old[t].session = None) = (old[t].status = "absent")
                              /\ (old[t].input = None) = (old[t].status # "completed")
                              /\ (old[t].source = None) = (old[t].status # "completed")
                              /\ (old[t].reason = None) = (old[t].status # "cancelled")
         /\ tasks = [t \in Task |-> IF t \in Legacy THEN old[t] ELSE NoRow]
    /\ \A t, u \in Task :
         /\ tasks[t].status = "pending" /\ tasks[u].status = "pending"
         /\ tasks[t].session = tasks[u].session
         => t = u
    /\ sessions = [s \in Session |-> None]
    /\ daemon = "down"
    /\ req = [r \in Slot |-> Idle]
    /\ announced = {}

Next ==
    \/ Process
    \/ \E r \in Slot : \/ \E c \in Calls : Accept(r, c)
                       \/ Step(r)
                       \/ StatementFails(r)
                       \/ Receive(r)

Spec == Init /\ [][Next]_vars

-----------------------------------------------------------------------------
(* Properties.                                                             *)

(* Every variable keeps the shape the tables, the process and the handler  *)
(* goroutines give it.                                                     *)
TypeOK ==
    /\ tasks \in [Task -> Row]
    /\ sessions \in [Session -> Name \cup {None}]
    /\ daemon \in {"down", "opening", "up", "stopping"}
    /\ req \in [Slot -> Handler]
    /\ announced \subseteq Event

(* However many registrations of one session race through CreateTask, which *)
(* looks for a pending task, cancels it and inserts in separate statements, *)
(* a session never has two pending tasks.                                   *)
OnePendingPerSession ==
    \A t, u \in Task :
        /\ tasks[t].status = "pending" /\ tasks[u].status = "pending"
        /\ tasks[t].session = tasks[u].session
        => t = u

(* While requests are served every task has a row in sessions, so a rename  *)
(* of its session cannot miss: CreateTask ensures the session before it     *)
(* inserts, and Open backfills the databases of older daemons.              *)
TasksHaveSessions ==
    daemon \in {"up", "stopping"} =>
        \A t \in Task : Exists(t) => sessions[tasks[t].session] # None

(* Only answered tasks are ever in the archive, although a batch validates  *)
(* rows that replies and cancellations of other handlers are changing.      *)
ArchivedAreCompleted ==
    \A t \in Task : tasks[t].archived => tasks[t].status = "completed"

(* What an event says is still true when a browser reads it: the created    *)
(* task is stored under that session, the completed one is completed, the   *)
(* cancelled one is not pending, its replacement exists.  Events are        *)
(* published after the statements they report, with other handlers between. *)
EventsAreTrue ==
    \A e \in announced :
        /\ tasks[e.task].session = e.session
        /\ e.type = "created" => Exists(e.task)
        /\ e.type = "completed" => tasks[e.task].status = "completed"
        /\ e.type = "cancelled" =>
              /\ tasks[e.task].status \in {"cancelled", "completed"}
              /\ e.by # None => Exists(e.by) /\ tasks[e.by].session = e.session

(* A reply that was answered 200, a repeated or a late one included, found  *)
(* its task completed, and the completed event of that task was published   *)
(* before the answer left (App.tsx relies on that order).                   *)
AckedReplyIsAnnounced ==
    \A r \in Slot :
        At(r, "done") /\ req[r].call.op = "reply" /\ req[r].code = "ok" =>
            /\ tasks[req[r].call.task].status = "completed"
            /\ \E e \in announced : e.type = "completed" /\ e.task = req[r].call.task

(* A caller told "created" can rely on the stored task and its event, and   *)
(* the task it superseded was announced as cancelled.                       *)
AckedCreateIsAnnounced ==
    \A r \in Slot :
        At(r, "done") /\ req[r].code = "created" =>
            /\ Exists(req[r].call.task)
            /\ \E e \in announced : e.type = "created" /\ e.task = req[r].call.task
            /\ req[r].victim # None =>
                 \E e \in announced : e.type = "cancelled" /\ e.task = req[r].victim

(* The answer a poller reads is the one the task still has when the poller  *)
(* acts on it: AskUser may return it.                                       *)
PolledAnswerStands ==
    \A r \in Slot :
        At(r, "done") /\ req[r].code = "found" =>
            /\ tasks[req[r].call.task].status = "completed"
            /\ tasks[req[r].call.task].input = req[r].input

(* The first answer stays: no later reply, cancellation, batch, restart or  *)
(* racing handler changes the text or source of a completed task.           *)
AnswersAreFinal ==
    [][\A t \in Task :
          tasks[t].status = "completed" =>
              /\ tasks'[t].status = "completed"
              /\ tasks'[t].input = tasks[t].input
              /\ tasks'[t].source = tasks[t].source]_vars

(* A rename of the session to that name is about to be stored.             *)
RenamedTo(s, name) ==
    \E r \in Slot : /\ At(r, "rename")
                    /\ req[r].call.session = s /\ req[r].call.name = name

(* The name a human gave a session survives new tasks of the session and    *)
(* restarts: only a rename replaces a display name.                         *)
NamesChangeByRename ==
    [][\A s \in Session :
          sessions[s] \notin {None, sessions'[s]} => RenamedTo(s, sessions'[s])]_vars

(* Seen from outside, the tables follow the promise of TaskLifecycle.       *)
Lifecycle == INSTANCE TaskLifecycle WITH
    question <- [t \in Task |-> [state |-> tasks[t].status, session |-> tasks[t].session,
                                answer |-> tasks[t].input, shelved |-> tasks[t].archived]]

ImplementsLifecycle == Lifecycle!LifecycleSpec

(* approved-design.md:141, "a new pending task for an occupied session     *)
(* supersedes the older pending task": a superseded task has a successor,  *)
(* or one is on its way.  CreateTask cancels the older task before it      *)
(* inserts the newer one, and the insert may fail.                         *)
SupersededHasSuccessor ==
    \A t \in Task :
        tasks[t].reason = "superseded_by_new_task" =>
            \/ \E u \in Task \ {t} : tasks[u].session = tasks[t].session
            \/ \E r \in Slot : req[r].victim = t /\ ~ At(r, "done")

(* approved-design.md:138, "task_id is the MCP call idempotency key": a     *)
(* repeated registration never cancels the task it registers.               *)
RegistrationIsIdempotent ==
    \A r \in Slot : req[r].call.op = "create" => req[r].victim # req[r].call.task
=============================================================================
