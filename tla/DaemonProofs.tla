---------------------------- MODULE DaemonProofs ----------------------------
(* What TLAPS proves of Daemon, for every set of tasks, sessions, requests *)
(* and callers, and however many handlers run at a time.                   *)
EXTENDS Daemon, TLAPS

(* A handler's request is of the kind its program counter belongs to, and  *)
(* it holds what the earlier statements of that handler read.              *)
HandlerOK(q) ==
    /\ q.pc \in CreatePC => q.call \in CreateCall
    /\ q.pc = "find" => q.call \in ReplyCall \cup CancelCall
    /\ q.pc \in ReplyPC => q.call \in ReplyCall /\ q.seen \in Session
    /\ q.pc \in CancelPC => q.call \in CancelCall /\ q.seen \in Session
    /\ q.pc \in RenamePC => q.call \in RenameCall
    /\ q.pc = "poll" => q.call \in ResultCall
    /\ q.pc = "batch" => q.call \in BatchCall
    /\ q.pc \in {"supersede", "tellSuperseded"} => q.victim \in Task
    /\ q.pc \in {"insert", "tellSuperseded", "tellCreated"} => q.name \in Name

(* A row has a session exactly when it exists, and a text once completed.  *)
RowOK(row) ==
    /\ row.status = "absent" <=> row.session = None
    /\ row.status = "completed" => row.input \in Input /\ row.source \in Source

(* So it is of every slot.                                                 *)
HandlersOK == req \in [Slot -> Handler] /\ \A r \in Slot : HandlerOK(req[r])

(* Rows are rows, and a session has a name or none.                        *)
TablesOK ==
    /\ tasks \in [Task -> Row]
    /\ \A t \in Task : RowOK(tasks[t])
    /\ sessions \in [Session -> Name \cup {None}]

(* The process is in one of its states, and told events only.              *)
ProcessOK ==
    /\ daemon \in {"down", "opening", "up", "stopping"}
    /\ announced \subseteq Event

(* The shape of the state, the first step of the induction.                *)
ShapeInv == HandlersOK /\ TablesOK /\ ProcessOK

(* The strengthened shape contains the type invariant.                     *)
LEMMA ShapeImpliesType == ShapeInv => TypeOK
  BY DEF ShapeInv, HandlersOK, TablesOK, ProcessOK, TypeOK

-----------------------------------------------------------------------------
(* A handler that answers holds nothing the next statement relies on.      *)
LEMMA RespondKeepsHandlers ==
    ASSUME HandlersOK, NEW r \in Slot, NEW code \in Code, Respond(r, code)
    PROVE  HandlersOK'
  <1> DEFINE q == [req[r] EXCEPT !.pc = "done", !.code = code]
  <1>1. req' = [req EXCEPT ![r] = q]
    BY DEF Respond, HandlersOK
  <1>2. q \in Handler
    BY DEF HandlersOK, Handler, PC
  <1>3. q.pc = "done"
    BY DEF HandlersOK, Handler
  <1>4. HandlerOK(q)
    BY <1>3 DEF HandlerOK, CreatePC, ReplyPC, CancelPC, RenamePC
  <1> QED
    BY <1>1, <1>2, <1>4 DEF HandlersOK

(* A handler that goes on must hold what its next statement needs.         *)
LEMMA GotoKeepsHandlers ==
    ASSUME HandlersOK, NEW r \in Slot, NEW pc \in PC, Goto(r, pc),
           HandlerOK([req[r] EXCEPT !.pc = pc])
    PROVE  HandlersOK'
  <1> DEFINE q == [req[r] EXCEPT !.pc = pc]
  <1>1. req' = [req EXCEPT ![r] = q]
    BY DEF Goto, HandlersOK
  <1>2. q \in Handler
    BY DEF HandlersOK, Handler
  <1> QED
    BY <1>1, <1>2 DEF HandlersOK

(* The steps of CreateTask between two statements of its handler.          *)
LEMMA CreateGoto ==
    ASSUME HandlersOK, NEW r \in Slot, req[r].pc \in CreatePC,
           NEW pc \in {"occupied", "ensure", "insert", "tellSuperseded", "tellCreated"},
           pc \in {"insert", "tellSuperseded", "tellCreated"} => req[r].name \in Name,
           pc = "tellSuperseded" => req[r].victim \in Task,
           Goto(r, pc)
    PROVE  HandlersOK'
  <1>1. req[r] \in Handler /\ req[r].call \in CreateCall
    BY DEF HandlersOK, HandlerOK
  <1>2. pc \in PC
    BY DEF PC, CreatePC
  <1>3. HandlerOK([req[r] EXCEPT !.pc = pc])
    BY <1>1 DEF HandlerOK, Handler, CreatePC, ReplyPC, CancelPC, RenamePC
  <1> QED
    BY <1>2, <1>3, GotoKeepsHandlers

(* The steps of a reply between two statements of its handler.             *)
LEMMA ReplyGoto ==
    ASSUME HandlersOK, NEW r \in Slot, req[r].pc \in ReplyPC,
           NEW pc \in ReplyPC, Goto(r, pc)
    PROVE  HandlersOK'
  <1>1. req[r] \in Handler /\ req[r].call \in ReplyCall /\ req[r].seen \in Session
    BY DEF HandlersOK, HandlerOK
  <1>2. pc \in PC
    BY DEF PC
  <1>3. HandlerOK([req[r] EXCEPT !.pc = pc])
    BY <1>1 DEF HandlerOK, Handler, CreatePC, ReplyPC, CancelPC, RenamePC
  <1> QED
    BY <1>2, <1>3, GotoKeepsHandlers

(* The step of a cancellation from its statement to its event.             *)
LEMMA CancelGoto ==
    ASSUME HandlersOK, NEW r \in Slot, req[r].pc \in CancelPC,
           NEW pc \in CancelPC, Goto(r, pc)
    PROVE  HandlersOK'
  <1>1. req[r] \in Handler /\ req[r].call \in CancelCall /\ req[r].seen \in Session
    BY DEF HandlersOK, HandlerOK
  <1>2. pc \in PC
    BY DEF PC
  <1>3. HandlerOK([req[r] EXCEPT !.pc = pc])
    BY <1>1 DEF HandlerOK, Handler, CreatePC, ReplyPC, CancelPC, RenamePC
  <1> QED
    BY <1>2, <1>3, GotoKeepsHandlers

(* The step of a rename from the update to reading the row back.           *)
LEMMA RenameGoto ==
    ASSUME HandlersOK, NEW r \in Slot, req[r].pc \in RenamePC,
           NEW pc \in RenamePC, Goto(r, pc)
    PROVE  HandlersOK'
  <1>1. req[r] \in Handler /\ req[r].call \in RenameCall
    BY DEF HandlersOK, HandlerOK
  <1>2. pc \in PC
    BY DEF PC
  <1>3. HandlerOK([req[r] EXCEPT !.pc = pc])
    BY <1>1 DEF HandlerOK, Handler, CreatePC, ReplyPC, CancelPC, RenamePC
  <1> QED
    BY <1>2, <1>3, GotoKeepsHandlers

-----------------------------------------------------------------------------
(* Every statement of CreateTask keeps the shape of the state.             *)
LEMMA CreateKeepsShape ==
    ASSUME ShapeInv, NEW r \in Slot, CreateStep(r)
    PROVE  ShapeInv'
  <1> DEFINE c == req[r].call
  <1>0. HandlersOK /\ TablesOK /\ ProcessOK
    BY DEF ShapeInv
  <1>1. req[r] \in Handler /\ HandlerOK(req[r])
    BY <1>0 DEF HandlersOK
  <1>2. c.task \in Task /\ c.session \in Session /\ req[r].pc \in CreatePC
    <2>1. req[r].pc \in CreatePC
      BY DEF CreateStep, CreateInvalid, CreateKnown, CreateUnknown, SessionFree, SessionOccupied,
             Supersede, SupersedeTooLate, EnsureSession, ReadSession, InsertRejected, Insert,
             TellSuperseded, TellCreated, At, CreatePC
    <2>2. c \in CreateCall
      BY <1>1, <2>1 DEF HandlerOK
    <2> QED
      BY <2>1, <2>2 DEF CreateCall
  <1>3. ASSUME OnlyReq PROVE TablesOK' /\ ProcessOK'
    BY <1>0, <1>3 DEF OnlyReq, TablesOK, ProcessOK
  <1>4. ASSUME NEW code \in {"bad", "exists", "completed", "created"}, Respond(r, code)
        PROVE  HandlersOK'
    <2>1. code \in Code
      BY DEF Code
    <2> QED
      BY <1>0, <1>4, <2>1, RespondKeepsHandlers
  <1>5. CASE CreateInvalid(r)
    BY <1>3, <1>4, <1>5 DEF CreateInvalid, ShapeInv
  <1>6. CASE CreateKnown(r)
    BY <1>3, <1>4, <1>6 DEF CreateKnown, ShapeInv
  <1>7. CASE CreateUnknown(r)
    BY <1>0, <1>2, <1>3, <1>7, CreateGoto DEF CreateUnknown, ShapeInv
  <1>8. CASE SessionFree(r)
    BY <1>0, <1>2, <1>3, <1>8, CreateGoto DEF SessionFree, ShapeInv
  <1>9. CASE SessionOccupied(r)
    <2>1. PICK old \in Task : req' = [req EXCEPT ![r].pc = "supersede", ![r].victim = old]
      BY <1>9 DEF SessionOccupied, PendingIn
    <2> DEFINE q == [req[r] EXCEPT !.pc = "supersede", !.victim = old]
    <2>2. req' = [req EXCEPT ![r] = q]
      BY <2>1, <1>0 DEF HandlersOK
    <2>3. q \in Handler
      BY <1>1 DEF Handler, PC, CreatePC
    <2>4. HandlerOK(q)
      BY <1>1, <1>2 DEF HandlerOK, Handler, CreatePC, ReplyPC, CancelPC, RenamePC
    <2>5. HandlersOK'
      BY <1>0, <2>2, <2>3, <2>4 DEF HandlersOK
    <2> QED
      BY <1>3, <1>9, <2>5 DEF SessionOccupied, ShapeInv
  <1>10. CASE Supersede(r)
    <2>1. req[r].victim \in Task
      BY <1>1, <1>10 DEF Supersede, At, HandlerOK
    <2>2. TablesOK'
      BY <1>0, <1>10, <2>1 DEF Supersede, CancelAffects, CancelRow, TablesOK, Row, RowOK, Status, Reason
    <2>3. HandlersOK'
      BY <1>0, <1>2, <1>10, CreateGoto DEF Supersede
    <2> QED
      BY <1>0, <1>10, <2>2, <2>3 DEF Supersede, ShapeInv, ProcessOK
  <1>11. CASE SupersedeTooLate(r)
    BY <1>3, <1>4, <1>11 DEF SupersedeTooLate, ShapeInv
  <1>12. CASE EnsureSession(r)
    <2>1. TablesOK'
      BY <1>0, <1>2, <1>12, ConstantsAssumption DEF EnsureSession, UpsertSession, TablesOK
    <2>2. req' = [req EXCEPT ![r].pc = "name"]
      BY <1>12 DEF EnsureSession, Goto
    <2> DEFINE q == [req[r] EXCEPT !.pc = "name"]
    <2>3. q \in Handler
      BY <1>1 DEF Handler, PC, CreatePC
    <2>4. HandlerOK(q)
      BY <1>1, <1>2 DEF HandlerOK, Handler, CreatePC, ReplyPC, CancelPC, RenamePC
    <2>5. HandlersOK'
      BY <1>0, <2>2, <2>3, <2>4 DEF HandlersOK
    <2> QED
      BY <1>0, <1>12, <2>1, <2>5 DEF EnsureSession, ShapeInv, ProcessOK
  <1>13. CASE ReadSession(r)
    <2>1. CASE sessions[c.session] = None
      BY <1>3, <1>4, <1>13, <2>1 DEF ReadSession, ShapeInv
    <2>2. CASE sessions[c.session] # None
      <3> DEFINE q == [req[r] EXCEPT !.pc = "insert", !.name = sessions[c.session]]
      <3>1. sessions[c.session] \in Name
        BY <1>0, <1>2, <2>2 DEF TablesOK
      <3>2. req' = [req EXCEPT ![r] = q]
        BY <1>0, <1>13, <2>2 DEF ReadSession, HandlersOK
      <3>3. q \in Handler
        BY <1>1, <3>1 DEF Handler, PC, CreatePC
      <3>4. HandlerOK(q)
        BY <1>1, <1>2, <3>1 DEF HandlerOK, Handler, CreatePC, ReplyPC, CancelPC, RenamePC
      <3>5. HandlersOK'
        BY <1>0, <3>2, <3>3, <3>4 DEF HandlersOK
      <3> QED
        BY <1>3, <1>13, <3>5 DEF ReadSession, ShapeInv
    <2> QED
      BY <2>1, <2>2
  <1>14. CASE InsertRejected(r)
    BY <1>3, <1>4, <1>14 DEF InsertRejected, ShapeInv
  <1>15. CASE Insert(r)
    <2>1. TablesOK'
      BY <1>0, <1>2, <1>15, ConstantsAssumption
         DEF Insert, InsertTask, NoRow, TablesOK, Row, RowOK, Status
    <2>2. req[r].name \in Name /\ (req[r].victim # None => req[r].victim \in Task)
      BY <1>1, <1>15 DEF Insert, At, HandlerOK, Handler
    <2>3. HandlersOK'
      BY <1>0, <1>2, <1>15, <2>2, CreateGoto DEF Insert
    <2> QED
      BY <1>0, <1>15, <2>1, <2>3 DEF Insert, ShapeInv, ProcessOK
  <1>16. CASE TellSuperseded(r)
    <2>1. req[r].name \in Name /\ req[r].victim \in Task
      BY <1>1, <1>16 DEF TellSuperseded, At, HandlerOK
    <2>2. HandlersOK'
      BY <1>0, <1>2, <1>16, <2>1, CreateGoto DEF TellSuperseded
    <2>3. ProcessOK'
      BY <1>0, <1>2, <1>16, <2>1 DEF TellSuperseded, Publish, ProcessOK, Event, CancelledEvent, Reason
    <2> QED
      BY <1>0, <1>16, <2>2, <2>3 DEF TellSuperseded, ShapeInv, TablesOK
  <1>17. CASE TellCreated(r)
    <2>1. req[r].name \in Name
      BY <1>1, <1>17 DEF TellCreated, At, HandlerOK
    <2>2. ProcessOK'
      BY <1>0, <1>2, <1>17, <2>1 DEF TellCreated, Publish, ProcessOK, Event, CreatedEvent
    <2>3. HandlersOK'
      BY <1>4, <1>17 DEF TellCreated
    <2> QED
      BY <1>0, <1>17, <2>2, <2>3 DEF TellCreated, ShapeInv, TablesOK
  <1> QED
    BY <1>5, <1>6, <1>7, <1>8, <1>9, <1>10, <1>11, <1>12, <1>13, <1>14, <1>15, <1>16, <1>17
       DEF CreateStep

(* FindTask, shared by reply and cancel.                                   *)
LEMMA FindKeepsShape ==
    ASSUME ShapeInv, NEW r \in Slot, FindMissing(r) \/ FindTask(r)
    PROVE  ShapeInv'
  <1> DEFINE c == req[r].call
  <1>0. HandlersOK /\ TablesOK /\ ProcessOK
    BY DEF ShapeInv
  <1>1. TablesOK' /\ ProcessOK'
    BY <1>0 DEF FindMissing, FindTask, OnlyReq, TablesOK, ProcessOK
  <1>2. req[r] \in Handler /\ HandlerOK(req[r]) /\ req[r].pc = "find"
    BY <1>0 DEF HandlersOK, FindMissing, FindTask, At
  <1>3. c \in ReplyCall \cup CancelCall
    BY <1>2 DEF HandlerOK
  <1>4. CASE FindMissing(r)
    <2>1. "missing" \in Code
      BY DEF Code
    <2> QED
      BY <1>0, <1>1, <1>4, <2>1, RespondKeepsHandlers DEF FindMissing, ShapeInv
  <1>5. CASE FindTask(r)
    <2> DEFINE next == IF c.op = "reply" THEN "complete" ELSE "cancel"
               q == [req[r] EXCEPT !.seen = tasks[c.task].session, !.pc = next]
    <2>1. tasks[c.task].session \in Session
      <3>1. c.task \in Task
        BY <1>3 DEF ReplyCall, CancelCall
      <3>2. tasks[c.task] \in Row /\ RowOK(tasks[c.task])
        BY <1>0, <3>1 DEF TablesOK
      <3> QED
        BY <1>5, <3>2 DEF FindTask, Exists, RowOK, Row
    <2>2. req' = [req EXCEPT ![r] = q]
      BY <1>0, <1>5 DEF FindTask, HandlersOK
    <2>3. q \in Handler
      BY <1>2, <2>1, ZenonT(30) DEF Handler, PC, ReplyPC, CancelPC
    <2>4. next = "complete" => c \in ReplyCall
      BY <1>3 DEF CancelCall
    <2>5. next = "cancel" => c \in CancelCall
      BY <1>3 DEF ReplyCall
    <2>6. q.pc = next /\ q.call = c /\ q.seen \in Session
      BY <1>2, <2>1 DEF Handler
    <2>7. HandlerOK(q)
      BY <2>4, <2>5, <2>6 DEF HandlerOK, CreatePC, ReplyPC, CancelPC, RenamePC
    <2>8. HandlersOK'
      BY <1>0, <2>2, <2>3, <2>7 DEF HandlersOK
    <2> QED
      BY <1>1, <2>8 DEF ShapeInv
  <1> QED
    BY <1>4, <1>5

(* Every statement of SubmitReply and its event keep the shape.            *)
LEMMA ReplyKeepsShape ==
    ASSUME ShapeInv, NEW r \in Slot, ReplyStep(r)
    PROVE  ShapeInv'
  <1> DEFINE c == req[r].call
  <1>0. HandlersOK /\ TablesOK /\ ProcessOK
    BY DEF ShapeInv
  <1>1. req[r] \in Handler /\ HandlerOK(req[r])
    BY <1>0 DEF HandlersOK
  <1>2. req[r].pc \in ReplyPC
    BY DEF ReplyStep, ReplyInvalid, Complete, CompleteTooLate, Recheck, LoadResult, TellCompleted,
           At, ReplyPC
  <1>3. c \in ReplyCall /\ req[r].seen \in Session
    BY <1>1, <1>2 DEF HandlerOK
  <1>4. ASSUME OnlyReq PROVE TablesOK' /\ ProcessOK'
    BY <1>0, <1>4 DEF OnlyReq, TablesOK, ProcessOK
  <1>5. ASSUME NEW code \in {"bad", "ok"}, Respond(r, code)
        PROVE  HandlersOK'
    <2>1. code \in Code
      BY DEF Code
    <2> QED
      BY <1>0, <1>5, <2>1, RespondKeepsHandlers
  <1>6. ASSUME NEW pc \in {"recheck", "load", "tellCompleted"}, Goto(r, pc)
        PROVE  HandlersOK'
    <2>1. pc \in ReplyPC
      BY DEF ReplyPC
    <2> QED
      BY <1>0, <1>2, <1>6, <2>1, ReplyGoto
  <1>7. CASE ReplyInvalid(r)
    BY <1>4, <1>5, <1>7 DEF ReplyInvalid, ShapeInv
  <1>8. CASE Complete(r)
    <2> DEFINE row == [tasks[c.task] EXCEPT !.status = "completed", !.input = c.input,
                                           !.source = c.source, !.reason = None]
    <2>3. c.task \in Task /\ c.input \in Input /\ c.source \in Source
      BY <1>3 DEF ReplyCall
    <2>4. tasks[c.task] \in Row /\ RowOK(tasks[c.task]) /\ tasks[c.task].status # "absent"
      BY <1>0, <1>8, <2>3 DEF TablesOK, Complete, CompleteAffects
    <2>5. row \in Row
      BY <2>3, <2>4 DEF Row, Status
    <2>6. row.status = "completed" /\ row.session = tasks[c.task].session
          /\ row.input = c.input /\ row.source = c.source
      BY <2>4 DEF Row
    <2>7. RowOK(row)
      BY <2>3, <2>4, <2>6 DEF RowOK
    <2>8. tasks' = [tasks EXCEPT ![c.task] = row]
      BY <1>0, <1>8 DEF Complete, CompleteRow, TablesOK
    <2>1. TablesOK'
      BY <1>0, <1>8, <2>3, <2>5, <2>7, <2>8 DEF Complete, TablesOK
    <2> QED
      BY <1>0, <1>6, <1>8, <2>1 DEF Complete, ShapeInv, ProcessOK
  <1>9. CASE CompleteTooLate(r)
    BY <1>4, <1>6, <1>9 DEF CompleteTooLate, ShapeInv
  <1>10. CASE Recheck(r)
    BY <1>4, <1>5, <1>6, <1>10 DEF Recheck, ShapeInv
  <1>11. CASE LoadResult(r)
    BY <1>4, <1>5, <1>6, <1>11 DEF LoadResult, ShapeInv
  <1>12. CASE TellCompleted(r)
    <2>1. ProcessOK'
      BY <1>0, <1>3, <1>12
         DEF TellCompleted, Publish, ProcessOK, Event, CompletedEvent, ReplyCall
    <2> QED
      BY <1>0, <1>5, <1>12, <2>1 DEF TellCompleted, ShapeInv, TablesOK
  <1> QED
    BY <1>7, <1>8, <1>9, <1>10, <1>11, <1>12 DEF ReplyStep

(* Every statement of CancelTask and its event keep the shape.             *)
LEMMA CancelKeepsShape ==
    ASSUME ShapeInv, NEW r \in Slot, CancelStep(r)
    PROVE  ShapeInv'
  <1> DEFINE c == req[r].call
  <1>0. HandlersOK /\ TablesOK /\ ProcessOK
    BY DEF ShapeInv
  <1>1. req[r] \in Handler /\ HandlerOK(req[r]) /\ req[r].pc \in CancelPC
    BY <1>0 DEF HandlersOK, CancelStep, Cancel, CancelTooLate, TellCancelled, At, CancelPC
  <1>2. c \in CancelCall /\ req[r].seen \in Session
    BY <1>1 DEF HandlerOK
  <1>3. ASSUME NEW code \in {"bad", "ok"}, Respond(r, code)
        PROVE  HandlersOK'
    <2>1. code \in Code
      BY DEF Code
    <2> QED
      BY <1>0, <1>3, <2>1, RespondKeepsHandlers
  <1>4. CASE Cancel(r)
    <2>1. TablesOK'
      <3> DEFINE row == tasks[c.task]
                 withdrawn == [row EXCEPT !.status = "cancelled", !.reason = "cancelled_by_user"]
      <3>1. c.task \in Task
        BY <1>2 DEF CancelCall
      <3>2. row \in Row /\ RowOK(row) /\ row.status = "pending"
        BY <1>0, <1>4, <3>1 DEF Cancel, CancelAffects, TablesOK
      <3>3. withdrawn \in Row
        BY <3>2 DEF Row, Status, Reason
      <3>4. RowOK(withdrawn)
        BY <3>2 DEF Row, RowOK
      <3>5. tasks' = [tasks EXCEPT ![c.task] = withdrawn] /\ sessions' = sessions
        BY <1>0, <1>4, <3>1 DEF Cancel, CancelRow, TablesOK
      <3> HIDE DEF withdrawn
      <3> QED
        BY <1>0, <3>3, <3>4, <3>5 DEF TablesOK
    <2>2. "tellCancelled" \in CancelPC
      BY DEF CancelPC
    <2>3. HandlersOK'
      BY <1>0, <1>1, <1>4, <2>2, CancelGoto DEF Cancel
    <2> QED
      BY <1>0, <1>4, <2>1, <2>3 DEF Cancel, ShapeInv, ProcessOK
  <1>5. CASE CancelTooLate(r)
    BY <1>0, <1>3, <1>5 DEF CancelTooLate, OnlyReq, ShapeInv, TablesOK, ProcessOK
  <1>6. CASE TellCancelled(r)
    <2>1. ProcessOK'
      BY <1>0, <1>2, <1>6
         DEF TellCancelled, Publish, ProcessOK, Event, CancelledEvent, Reason, CancelCall
    <2> QED
      BY <1>0, <1>3, <1>6, <2>1 DEF TellCancelled, ShapeInv, TablesOK
  <1> QED
    BY <1>4, <1>5, <1>6 DEF CancelStep

(* An archive or unarchive transaction keeps the shape.                    *)
LEMMA BatchKeepsShape ==
    ASSUME ShapeInv, NEW r \in Slot, Batch(r) \/ BatchRejected(r)
    PROVE  ShapeInv'
  <1>0. HandlersOK /\ TablesOK /\ ProcessOK
    BY DEF ShapeInv
  <1>1. ASSUME NEW code \in {"bad", "missing", "ok"}, Respond(r, code)
        PROVE  HandlersOK'
    <2>1. code \in Code
      BY DEF Code
    <2> QED
      BY <1>0, <1>1, <2>1, RespondKeepsHandlers
  <1>2. CASE Batch(r)
    <2>1. (req[r].call.op = "archive") \in BOOLEAN
      OBVIOUS
    <2> DEFINE on == req[r].call.op = "archive"
               shelved(t) == [tasks[t] EXCEPT !.archived = on]
    <2>3. ASSUME NEW t \in Task PROVE shelved(t) \in Row /\ RowOK(shelved(t))
      <3>1. tasks[t] \in Row /\ RowOK(tasks[t])
        BY <1>0 DEF TablesOK
      <3>2. shelved(t) \in Row
        BY <3>1, <2>1 DEF Row
      <3>3. /\ shelved(t).status = tasks[t].status
            /\ shelved(t).session = tasks[t].session
            /\ shelved(t).input = tasks[t].input
            /\ shelved(t).source = tasks[t].source
        BY <3>1 DEF Row
      <3> QED
        BY <3>1, <3>2, <3>3 DEF RowOK
    <2>2. TablesOK'
      BY <1>0, <1>2, <2>3 DEF Batch, SetArchived, TablesOK
    <2> QED
      BY <1>0, <1>1, <1>2, <2>2 DEF Batch, ShapeInv, ProcessOK
  <1>3. CASE BatchRejected(r)
    BY <1>0, <1>1, <1>3 DEF BatchRejected, OnlyReq, ShapeInv, TablesOK, ProcessOK
  <1> QED
    BY <1>2, <1>3

(* Both statements of RenameSession keep the shape.                        *)
LEMMA RenameKeepsShape ==
    ASSUME ShapeInv, NEW r \in Slot, RenameStep(r)
    PROVE  ShapeInv'
  <1> DEFINE c == req[r].call
  <1>0. HandlersOK /\ TablesOK /\ ProcessOK
    BY DEF ShapeInv
  <1>1. req[r] \in Handler /\ HandlerOK(req[r]) /\ req[r].pc \in RenamePC
    BY <1>0 DEF HandlersOK, RenameStep, RenameRejected, Rename, Reread, At, RenamePC
  <1>2. c \in RenameCall
    BY <1>1 DEF HandlerOK
  <1>3. ASSUME NEW code \in {"bad", "missing", "ok"}, Respond(r, code)
        PROVE  HandlersOK'
    <2>1. code \in Code
      BY DEF Code
    <2> QED
      BY <1>0, <1>3, <2>1, RespondKeepsHandlers
  <1>4. CASE RenameRejected(r)
    BY <1>0, <1>3, <1>4 DEF RenameRejected, OnlyReq, ShapeInv, TablesOK, ProcessOK
  <1>5. CASE Rename(r)
    <2>1. TablesOK'
      BY <1>0, <1>2, <1>5 DEF Rename, TablesOK, RenameCall
    <2>2. "reread" \in RenamePC
      BY DEF RenamePC
    <2>3. HandlersOK'
      BY <1>0, <1>1, <1>5, <2>2, RenameGoto DEF Rename
    <2> QED
      BY <1>0, <1>5, <2>1, <2>3 DEF Rename, ShapeInv, ProcessOK
  <1>6. CASE Reread(r)
    BY <1>0, <1>3, <1>6 DEF Reread, OnlyReq, ShapeInv, TablesOK, ProcessOK
  <1> QED
    BY <1>4, <1>5, <1>6 DEF RenameStep

(* A poll of the bridge reads the answer of a completed row.               *)
LEMMA PollKeepsShape ==
    ASSUME ShapeInv, NEW r \in Slot, Poll(r)
    PROVE  ShapeInv'
  <1> DEFINE row == tasks[req[r].call.task]
             q == [req[r] EXCEPT !.pc = "done", !.code = "found", !.input = row.input]
  <1>0. HandlersOK /\ TablesOK /\ ProcessOK
    BY DEF ShapeInv
  <1>1. req[r] \in Handler /\ HandlerOK(req[r]) /\ req[r].pc = "poll"
    BY <1>0 DEF HandlersOK, Poll, At
  <1>2. req[r].call.task \in Task
    BY <1>1 DEF HandlerOK, ResultCall
  <1>3. CASE row.status = "completed"
    <2>1. row.input \in Input
      BY <1>0, <1>2, <1>3 DEF TablesOK, RowOK
    <2>2. req' = [req EXCEPT ![r] = q]
      BY <1>0, <1>3 DEF Poll, HandlersOK
    <2>3. q \in Handler
      BY <1>1, <2>1 DEF Handler, PC, Code
    <2>4. q.pc = "done"
      BY <1>1 DEF Handler
    <2>5. HandlerOK(q)
      BY <2>4 DEF HandlerOK, CreatePC, ReplyPC, CancelPC, RenamePC
    <2>6. HandlersOK'
      BY <1>0, <2>2, <2>3, <2>5 DEF HandlersOK
    <2> QED
      BY <1>0, <2>6 DEF Poll, OnlyReq, ShapeInv, TablesOK, ProcessOK
  <1>4. CASE row.status # "completed"
    <2>1. "pending" \in Code /\ Respond(r, "pending")
      BY <1>4 DEF Code, Poll, Respond
    <2>2. HandlersOK'
      BY <1>0, <2>1, RespondKeepsHandlers
    <2> QED
      BY <1>0, <2>2 DEF Poll, OnlyReq, ShapeInv, TablesOK, ProcessOK
  <1> QED
    BY <1>3, <1>4

(* A failed statement ends its handler and changes no table.               *)
LEMMA FailureKeepsShape ==
    ASSUME ShapeInv, NEW r \in Slot, StatementFails(r)
    PROVE  ShapeInv'
  <1>1. FailureCode(req[r].pc) \in Code
    BY DEF FailureCode, Code
  <1>2. HandlersOK'
    BY <1>1, RespondKeepsHandlers DEF StatementFails, ShapeInv
  <1> QED
    BY <1>2 DEF StatementFails, OnlyReq, ShapeInv, TablesOK, ProcessOK

(* A goroutine starts with its request and nothing else.                   *)
LEMMA AcceptKeepsShape ==
    ASSUME ShapeInv, NEW r \in Slot, NEW c \in Calls, Accept(r, c)
    PROVE  ShapeInv'
  <1> DEFINE q == [Idle EXCEPT !.pc = FirstPC(c.op), !.call = c]
  <1>1. c \in Call
    BY ConstantsAssumption
  <1>2. Idle \in Handler
    BY DEF Idle, Handler, PC, Code
  <1>3. /\ c \in CreateCall => c.op = "create"
        /\ c \in ReplyCall => c.op = "reply"
        /\ c \in CancelCall => c.op = "cancel"
        /\ c \in ResultCall => c.op = "result"
        /\ c \in BatchCall => c.op \in {"archive", "unarchive"}
        /\ c \in RenameCall => c.op = "rename"
    BY DEF CreateCall, ReplyCall, CancelCall, ResultCall, BatchCall, RenameCall
  <1>4. FirstPC(c.op) \in {"lookup", "find", "poll", "batch", "rename"}
    BY <1>1, <1>3 DEF FirstPC, Call
  <1>5. q.pc = FirstPC(c.op) /\ q.call = c
    BY DEF Idle
  <1>6. q \in Handler
    BY <1>1, <1>2, <1>4 DEF Handler, PC, CreatePC, RenamePC
  <1>7. HandlerOK(q)
    <2>1. CASE c \in CreateCall
      BY <2>1, <1>3, <1>5 DEF FirstPC, HandlerOK, CreatePC, ReplyPC, CancelPC, RenamePC
    <2>2. CASE c \in ReplyCall
      BY <2>2, <1>3, <1>5 DEF FirstPC, HandlerOK, CreatePC, ReplyPC, CancelPC, RenamePC
    <2>3. CASE c \in CancelCall
      BY <2>3, <1>3, <1>5 DEF FirstPC, HandlerOK, CreatePC, ReplyPC, CancelPC, RenamePC
    <2>4. CASE c \in ResultCall
      BY <2>4, <1>3, <1>5 DEF FirstPC, HandlerOK, CreatePC, ReplyPC, CancelPC, RenamePC
    <2>5. CASE c \in BatchCall
      BY <2>5, <1>3, <1>5 DEF FirstPC, HandlerOK, CreatePC, ReplyPC, CancelPC, RenamePC
    <2>6. CASE c \in RenameCall
      BY <2>6, <1>3, <1>5 DEF FirstPC, HandlerOK, CreatePC, ReplyPC, CancelPC, RenamePC
    <2> QED
      BY <1>1, <2>1, <2>2, <2>3, <2>4, <2>5, <2>6 DEF Call
  <1>8. HandlersOK'
    BY <1>6, <1>7 DEF Accept, ShapeInv, HandlersOK
  <1> QED
    BY <1>8 DEF Accept, OnlyReq, ShapeInv, TablesOK, ProcessOK

(* A caller that takes its answer frees the handler.                       *)
LEMMA ReceiveKeepsShape ==
    ASSUME ShapeInv, NEW r \in Slot, Receive(r)
    PROVE  ShapeInv'
  <1>1. Idle \in Handler /\ HandlerOK(Idle)
    BY DEF Idle, Handler, PC, Code, HandlerOK, CreatePC, ReplyPC, CancelPC, RenamePC
  <1>2. HandlersOK'
    BY <1>1 DEF Receive, ShapeInv, HandlersOK
  <1> QED
    BY <1>2 DEF Receive, OnlyReq, ShapeInv, TablesOK, ProcessOK

(* Starting, backfilling, stopping and dying keep the shape.               *)
LEMMA ProcessKeepsShape ==
    ASSUME ShapeInv, Process
    PROVE  ShapeInv'
  <1>1. CASE Start \/ Listen \/ Stop
    BY <1>1 DEF Start, Listen, Stop, ShapeInv, HandlersOK, TablesOK, ProcessOK
  <1>2. ASSUME NEW s \in Session, BackfillSession(s) PROVE ShapeInv'
    BY <1>2, ConstantsAssumption
       DEF BackfillSession, ShapeInv, HandlersOK, TablesOK, ProcessOK
  <1>3. CASE Exit
    <2> DEFINE lost(r) == [req[r] EXCEPT !.pc = "done", !.code = "lost"]
    <2>1. ASSUME NEW r \in Slot PROVE lost(r) \in Handler /\ HandlerOK(lost(r))
      <3>1. req[r] \in Handler
        BY DEF ShapeInv, HandlersOK
      <3>2. lost(r) \in Handler
        BY <3>1 DEF Handler, PC, Code
      <3>3. lost(r).pc = "done"
        BY <3>1 DEF Handler
      <3> QED
        BY <3>2, <3>3 DEF HandlerOK, CreatePC, ReplyPC, CancelPC, RenamePC
    <2>2. HandlersOK'
      BY <1>3, <2>1 DEF Exit, ShapeInv, HandlersOK
    <2> QED
      BY <1>3, <2>2 DEF Exit, ShapeInv, TablesOK, ProcessOK
  <1> QED
    BY <1>1, <1>2, <1>3 DEF Process

(* Nothing changes, nothing breaks.                                        *)
LEMMA StutterKeepsShape == ShapeInv /\ UNCHANGED vars => ShapeInv'
  BY DEF vars, ShapeInv, HandlersOK, TablesOK, ProcessOK

(* The shape is inductive: one lemma per handler, one per process step.    *)
LEMMA ShapeStep == ShapeInv /\ [Next]_vars => ShapeInv'
  <1> SUFFICES ASSUME ShapeInv, Next PROVE ShapeInv'
    BY StutterKeepsShape
  <1> QED
    BY ProcessKeepsShape, AcceptKeepsShape, FailureKeepsShape, ReceiveKeepsShape,
       CreateKeepsShape, FindKeepsShape, ReplyKeepsShape, CancelKeepsShape,
       BatchKeepsShape, RenameKeepsShape, PollKeepsShape
       DEF Next, Step

(* A new database, or one an older daemon left, has the shape.             *)
LEMMA ShapeInit == Init => ShapeInv
  <1> SUFFICES ASSUME Init PROVE ShapeInv
    OBVIOUS
  <1>1. Idle \in Handler /\ HandlerOK(Idle)
    BY DEF Idle, Handler, PC, Code, HandlerOK, CreatePC, ReplyPC, CancelPC, RenamePC
  <1>2. HandlersOK
    BY <1>1 DEF Init, HandlersOK
  <1>3. TablesOK
    <2>1. NoRow \in Row /\ RowOK(NoRow)
      BY DEF NoRow, Row, RowOK, Status
    <2>2. PICK old \in [Legacy -> Row] :
            /\ \A t \in Legacy : /\ (old[t].session = None) = (old[t].status = "absent")
                                 /\ (old[t].input = None) = (old[t].status # "completed")
                                 /\ (old[t].source = None) = (old[t].status # "completed")
            /\ tasks = [t \in Task |-> IF t \in Legacy THEN old[t] ELSE NoRow]
      BY DEF Init
    <2>3. ASSUME NEW t \in Legacy PROVE old[t] \in Row /\ RowOK(old[t])
      BY <2>2 DEF RowOK, Row
    <2>4. tasks \in [Task -> Row] /\ \A t \in Task : RowOK(tasks[t])
      BY <2>1, <2>2, <2>3
    <2> QED
      BY <2>4 DEF Init, TablesOK
  <1>4. ProcessOK
    BY DEF Init, ProcessOK
  <1> QED
    BY <1>2, <1>3, <1>4 DEF ShapeInv

(* The shape holds in every reachable state.                               *)
LEMMA ShapeCorrect == Spec => []ShapeInv
  BY ShapeInit, ShapeStep, PTL DEF Spec

(* Type correctness, for every set of callers and requests.                *)
THEOREM TypeCorrect == Spec => []TypeOK
  BY ShapeCorrect, ShapeImpliesType, PTL
-----------------------------------------------------------------------------
(* What one step of anybody may do to the table tasks.  The properties of  *)
(* the stored tasks follow from these five statements and their WHERE      *)
(* clauses alone, whatever handler issued them and whatever it had read.   *)
TableStep ==
    \/ tasks' = tasks
    \/ \E t \in Task, s \in Session : ~ InsertConflicts(t, s) /\ InsertTask(t, s)
    \/ \E t \in Task, why \in Reason : CancelAffects(t) /\ CancelRow(t, why)
    \/ \E t \in Task, v \in Input, f \in Source :
          CompleteAffects(t) /\ CompleteRow(t, v, f)
    \/ \E batch \in SUBSET Task, on \in BOOLEAN :
          BatchAccepted(batch) /\ SetArchived(batch, on)

(* Every step of the daemon is one of the five statements or none.         *)
LEMMA StepIsTableStep == ShapeInv /\ [Next]_vars => TableStep
  <1> SUFFICES ASSUME ShapeInv, [Next]_vars PROVE TableStep
    OBVIOUS
  <1>0. \A r \in Slot : req[r] \in Handler /\ HandlerOK(req[r])
    BY DEF ShapeInv, HandlersOK
  <1>1. CASE Process \/ UNCHANGED vars
    BY <1>1 DEF Process, Start, BackfillSession, Listen, Stop, Exit, vars, TableStep
  <1>2. ASSUME NEW r \in Slot,
               (\E c \in Calls : Accept(r, c)) \/ StatementFails(r) \/ Receive(r)
        PROVE  TableStep
    BY <1>2 DEF Accept, StatementFails, Receive, OnlyReq, TableStep
  <1>3. ASSUME NEW r \in Slot, Step(r) PROVE TableStep
    <2>1. CASE Supersede(r)
      <3>1. req[r].victim \in Task
        BY <1>0, <2>1 DEF Supersede, At, HandlerOK
      <3>2. "superseded_by_new_task" \in Reason
        BY DEF Reason
      <3> QED
        BY <2>1, <3>1, <3>2 DEF Supersede, TableStep
    <2>2. CASE Insert(r)
      <3>1. req[r].call \in CreateCall
        BY <1>0, <2>2 DEF Insert, At, HandlerOK, CreatePC
      <3> QED
        BY <2>2, <3>1 DEF Insert, TableStep, CreateCall
    <2>3. CASE Complete(r)
      <3>1. req[r].call \in ReplyCall
        BY <1>0, <2>3 DEF Complete, At, HandlerOK, ReplyPC
      <3> QED
        BY <2>3, <3>1 DEF Complete, TableStep, ReplyCall
    <2>4. CASE Cancel(r)
      <3>1. req[r].call \in CancelCall
        BY <1>0, <2>4 DEF Cancel, At, HandlerOK, CancelPC
      <3>2. "cancelled_by_user" \in Reason
        BY DEF Reason
      <3> QED
        BY <2>4, <3>1, <3>2 DEF Cancel, TableStep, CancelCall
    <2>5. CASE Batch(r)
      <3>1. req[r].call.batch \in SUBSET Task
        BY <1>0, <2>5 DEF Batch, At, HandlerOK, BatchCall
      <3>2. (req[r].call.op = "archive") \in BOOLEAN
        OBVIOUS
      <3> QED
        BY <2>5, <3>1, <3>2 DEF Batch, TableStep
    <2>6. ASSUME ~ Supersede(r), ~ Insert(r), ~ Complete(r), ~ Cancel(r), ~ Batch(r)
          PROVE  tasks' = tasks
      BY <1>3, <2>6 DEF Step, CreateStep, ReplyStep, CancelStep, RenameStep, OnlyReq,
         CreateInvalid, CreateKnown, CreateUnknown, SessionFree, SessionOccupied,
         SupersedeTooLate, EnsureSession, ReadSession, InsertRejected, TellSuperseded,
         TellCreated, FindMissing, FindTask, ReplyInvalid, CompleteTooLate, Recheck,
         LoadResult, TellCompleted, CancelTooLate, TellCancelled, BatchRejected,
         RenameRejected, Rename, Reread, Poll
    <2> QED
      BY <2>1, <2>2, <2>3, <2>4, <2>5, <2>6 DEF TableStep
  <1> QED
    BY <1>1, <1>2, <1>3 DEF Next

(* What the row lemmas need of the shape.                                  *)
LEMMA TablesAreTyped == ShapeInv => tasks \in [Task -> Row] /\ \A t \in Task : RowOK(tasks[t])
  BY DEF ShapeInv, TablesOK

(* However the statements of any number of registrations interleave, a     *)
(* session has at most one pending task.                                   *)
LEMMA OnePendingStep ==
    ASSUME ShapeInv, TableStep, OnePendingPerSession
    PROVE  OnePendingPerSession'
  <1>0. tasks \in [Task -> Row]
    BY TablesAreTyped
  <1>1. CASE tasks' = tasks
    BY <1>1 DEF OnePendingPerSession
  <1>2. ASSUME NEW t \in Task, NEW s \in Session, ~ InsertConflicts(t, s), InsertTask(t, s)
        PROVE  OnePendingPerSession'
    BY <1>0, <1>2 DEF OnePendingPerSession, InsertConflicts, InsertTask, PendingIn, NoRow, Row
  <1>3. ASSUME NEW t \in Task, NEW why \in Reason, CancelRow(t, why)
        PROVE  OnePendingPerSession'
    BY <1>0, <1>3 DEF OnePendingPerSession, CancelRow, Row
  <1>4. ASSUME NEW t \in Task, NEW v \in Input, NEW f \in Source, CompleteRow(t, v, f)
        PROVE  OnePendingPerSession'
    BY <1>0, <1>4 DEF OnePendingPerSession, CompleteRow, Row
  <1>5. ASSUME NEW batch \in SUBSET Task, NEW on \in BOOLEAN, SetArchived(batch, on)
        PROVE  OnePendingPerSession'
    BY <1>0, <1>5 DEF OnePendingPerSession, SetArchived, Row
  <1> QED
    BY <1>1, <1>2, <1>3, <1>4, <1>5 DEF TableStep

(* At most one pending task per session, for any number of handlers.       *)
THEOREM OnePendingCorrect == Spec => []OnePendingPerSession
  <1>1. Init => OnePendingPerSession
    BY DEF Init, OnePendingPerSession
  <1>2. ShapeInv /\ OnePendingPerSession /\ [Next]_vars => OnePendingPerSession'
    BY StepIsTableStep, OnePendingStep
  <1> QED
    BY <1>1, <1>2, ShapeCorrect, PTL DEF Spec

(* Only answered tasks are in the archive.                                 *)
THEOREM ArchivedCorrect == Spec => []ArchivedAreCompleted
  <1>1. Init => ArchivedAreCompleted
    BY DEF Init, ArchivedAreCompleted, NoRow
  <1>2. ShapeInv /\ ArchivedAreCompleted /\ [Next]_vars => ArchivedAreCompleted'
    <2> SUFFICES ASSUME ShapeInv, ArchivedAreCompleted, TableStep PROVE ArchivedAreCompleted'
      BY StepIsTableStep
    <2>0. tasks \in [Task -> Row]
      BY TablesAreTyped
    <2>1. CASE tasks' = tasks
      BY <2>1 DEF ArchivedAreCompleted
    <2>2. ASSUME NEW t \in Task, NEW s \in Session, InsertTask(t, s)
          PROVE  ArchivedAreCompleted'
      BY <2>0, <2>2 DEF ArchivedAreCompleted, InsertTask, NoRow, Row
    <2>3. ASSUME NEW t \in Task, NEW why \in Reason, CancelAffects(t), CancelRow(t, why)
          PROVE  ArchivedAreCompleted'
      BY <2>0, <2>3 DEF ArchivedAreCompleted, CancelAffects, CancelRow, Row
    <2>4. ASSUME NEW t \in Task, NEW v \in Input, NEW f \in Source, CompleteRow(t, v, f)
          PROVE  ArchivedAreCompleted'
      BY <2>0, <2>4 DEF ArchivedAreCompleted, CompleteRow, Row
    <2>5. ASSUME NEW batch \in SUBSET Task, NEW on \in BOOLEAN,
                 BatchAccepted(batch), SetArchived(batch, on)
          PROVE  ArchivedAreCompleted'
      BY <2>0, <2>5 DEF ArchivedAreCompleted, BatchAccepted, SetArchived, Row
    <2> QED
      BY <2>1, <2>2, <2>3, <2>4, <2>5 DEF TableStep
  <1> QED
    BY <1>1, <1>2, ShapeCorrect, PTL DEF Spec

(* The first answer to a task stays, whatever runs beside or after it.     *)
THEOREM AnswersFinalCorrect == Spec => AnswersAreFinal
  <1> DEFINE Kept(t) == tasks[t].status = "completed" =>
                          /\ tasks'[t].status = "completed"
                          /\ tasks'[t].input = tasks[t].input
                          /\ tasks'[t].source = tasks[t].source
  <1>1. ShapeInv /\ [Next]_vars => [\A t \in Task : Kept(t)]_vars
    <2> SUFFICES ASSUME ShapeInv, TableStep PROVE \A t \in Task : Kept(t)
      BY StepIsTableStep
    <2>0. tasks \in [Task -> Row]
      BY TablesAreTyped
    <2>1. CASE tasks' = tasks
      BY <2>1
    <2>2. ASSUME NEW t \in Task, NEW s \in Session, ~ InsertConflicts(t, s), InsertTask(t, s)
          PROVE  \A u \in Task : Kept(u)
      BY <2>0, <2>2 DEF InsertConflicts, Exists, InsertTask
    <2>3. ASSUME NEW t \in Task, NEW why \in Reason, CancelAffects(t), CancelRow(t, why)
          PROVE  \A u \in Task : Kept(u)
      BY <2>0, <2>3 DEF CancelAffects, CancelRow, Row
    <2>4. ASSUME NEW t \in Task, NEW v \in Input, NEW f \in Source,
                 CompleteAffects(t), CompleteRow(t, v, f)
          PROVE  \A u \in Task : Kept(u)
      BY <2>0, <2>4 DEF CompleteAffects, CompleteRow, Row
    <2>5. ASSUME NEW batch \in SUBSET Task, NEW on \in BOOLEAN, SetArchived(batch, on)
          PROVE  \A u \in Task : Kept(u)
      BY <2>0, <2>5 DEF SetArchived, Row
    <2> QED
      BY <2>1, <2>2, <2>3, <2>4, <2>5 DEF TableStep
  <1>2. Spec => [][\A t \in Task : Kept(t)]_vars
    BY <1>1, ShapeCorrect, PTL DEF Spec
  <1> QED
    BY <1>2 DEF AnswersAreFinal
-----------------------------------------------------------------------------
(* A handler past EnsureSession relies on the session row it ensured.      *)
SessionEnsured ==
    \A r \in Slot : req[r].pc \in {"name", "insert"} =>
                       sessions[req[r].call.session] # None

(* Only a rename changes a row of sessions.                                *)
LEMMA SessionsStep ==
    ShapeInv /\ [Next]_vars =>
        \A s \in Session : sessions[s] # None =>
            sessions'[s] = sessions[s] \/ (RenamedTo(s, sessions'[s]) /\ sessions'[s] # None)
  <1> SUFFICES ASSUME ShapeInv, [Next]_vars, NEW s \in Session, sessions[s] # None
               PROVE  sessions'[s] = sessions[s] \/ (RenamedTo(s, sessions'[s]) /\ sessions'[s] # None)
    OBVIOUS
  <1>0. sessions \in [Session -> Name \cup {None}]
    BY DEF ShapeInv, TablesOK
  <1>1. CASE Process \/ UNCHANGED vars
    BY <1>0, <1>1 DEF Process, Start, BackfillSession, WithoutRow, Listen, Stop, Exit, vars
  <1>2. ASSUME NEW r \in Slot,
               (\E c \in Calls : Accept(r, c)) \/ StatementFails(r) \/ Receive(r)
        PROVE  sessions' = sessions
    BY <1>2 DEF Accept, StatementFails, Receive, OnlyReq
  <1>3. ASSUME NEW r \in Slot, EnsureSession(r)
        PROVE  sessions'[s] = sessions[s]
    BY <1>0, <1>3 DEF EnsureSession, UpsertSession
  <1>4. ASSUME NEW r \in Slot, Rename(r)
        PROVE  sessions'[s] = sessions[s] \/ (RenamedTo(s, sessions'[s]) /\ sessions'[s] # None)
    <2>1. req[r].call \in RenameCall
      BY <1>4 DEF Rename, At, ShapeInv, HandlersOK, HandlerOK, RenamePC
    <2>2. req[r].call.name # None
      BY <2>1, ConstantsAssumption DEF RenameCall
    <2> QED
      BY <1>0, <1>4, <2>2 DEF Rename, RenamedTo
  <1>5. ASSUME NEW r \in Slot, Step(r), ~ EnsureSession(r), ~ Rename(r)
        PROVE  sessions' = sessions
    BY <1>5 DEF Step, CreateStep, ReplyStep, CancelStep, RenameStep, OnlyReq,
       CreateInvalid, CreateKnown, CreateUnknown, SessionFree, SessionOccupied, Supersede,
       SupersedeTooLate, ReadSession, InsertRejected, Insert, TellSuperseded,
       TellCreated, FindMissing, FindTask, ReplyInvalid, Complete, CompleteTooLate, Recheck,
       LoadResult, TellCompleted, Cancel, CancelTooLate, TellCancelled, Batch, BatchRejected,
       RenameRejected, Reread, Poll
  <1> QED
    BY <1>1, <1>2, <1>3, <1>4, <1>5 DEF Next

(* No step deletes a row of sessions.                                      *)
LEMMA SessionsStay ==
    ShapeInv /\ [Next]_vars => \A s \in Session : sessions[s] # None => sessions'[s] # None
  BY SessionsStep

(* A goroutine changes its own record of req only.                         *)
LEMMA OthersKeepTheirRecord ==
    ASSUME req \in [Slot -> Handler], NEW r \in Slot, NEW x \in Slot, x # r,
           (\E c \in Calls : Accept(r, c)) \/ Step(r) \/ StatementFails(r) \/ Receive(r)
    PROVE  req'[x] = req[x]
  BY DEF Accept, StatementFails, Receive, Step, CreateStep, ReplyStep, CancelStep, RenameStep,
     CreateInvalid, CreateKnown, CreateUnknown, SessionFree, SessionOccupied, Supersede,
     SupersedeTooLate, EnsureSession, ReadSession, InsertRejected, Insert, TellSuperseded,
     TellCreated, FindMissing, FindTask, ReplyInvalid, Complete, CompleteTooLate, Recheck,
     LoadResult, TellCompleted, Cancel, CancelTooLate, TellCancelled, Batch, BatchRejected,
     RenameRejected, Rename, Reread, Poll, Respond, Goto

(* Which step puts a handler in front of a statement, for the two program  *)
(* counters between EnsureSession and the insert.                          *)
LEMMA SessionEnsuredStep ==
    ShapeInv /\ SessionEnsured /\ [Next]_vars => SessionEnsured'
  <1> SUFFICES ASSUME ShapeInv, SessionEnsured, [Next]_vars,
                      NEW x \in Slot, req'[x].pc \in {"name", "insert"}
               PROVE  sessions'[req'[x].call.session] # None
    BY DEF SessionEnsured
  <1>0. req \in [Slot -> Handler] /\ HandlerOK(req[x])
    BY DEF ShapeInv, HandlersOK
  <1>1. CASE req'[x] = req[x]
    <2>1. req[x].call \in CreateCall
      BY <1>0, <1>1 DEF HandlerOK, CreatePC
    <2> QED
      BY <1>1, <2>1, SessionsStay DEF SessionEnsured, CreateCall
  <1>2. CASE EnsureSession(x)
    <2>1. req[x].call \in CreateCall
      BY <1>0, <1>2 DEF HandlerOK, CreatePC, EnsureSession, At
    <2>2. req'[x].call = req[x].call
      BY <1>0, <1>2 DEF EnsureSession, Goto, Handler
    <2>3. sessions \in [Session -> Name \cup {None}]
      BY DEF ShapeInv, TablesOK
    <2> QED
      BY <1>2, <2>1, <2>2, <2>3, ConstantsAssumption DEF EnsureSession, UpsertSession, CreateCall
  <1>3. CASE ReadSession(x)
    <2>1. req'[x].pc # "done"
      OBVIOUS
    <2>2. sessions[req[x].call.session] # None
      <3> SUFFICES ASSUME sessions[req[x].call.session] = None PROVE FALSE
        OBVIOUS
      <3>1. Respond(x, "bad")
        BY <1>3 DEF ReadSession
      <3> QED
        BY <1>0, <2>1, <3>1 DEF Respond, Handler
    <2>3. req'[x].call = req[x].call /\ sessions' = sessions
      BY <1>0, <1>3, <2>2 DEF ReadSession, OnlyReq, Handler
    <2> QED
      BY <2>2, <2>3
  <1>4. CASE ~ EnsureSession(x) /\ ~ ReadSession(x) /\ req'[x] # req[x]
    <2>1. CASE Process \/ UNCHANGED vars
      <3>1. CASE Exit
        <4>1. req[x] \in Handler
          BY <1>0
        <4>2. req'[x] = [req[x] EXCEPT !.pc = "done", !.code = "lost"]
          BY <1>4, <3>1 DEF Exit
        <4>3. req'[x].pc = "done"
          BY <4>1, <4>2 DEF Handler
        <4> QED
          BY <4>3
      <3>2. CASE ~ Exit
        BY <1>4, <2>1, <3>2 DEF Process, Start, BackfillSession, Listen, Stop, vars
      <3> QED
        BY <3>1, <3>2
    <2>2. ASSUME NEW c \in Calls, Accept(x, c) PROVE FALSE
      <3>1. FirstPC(c.op) \in {"lookup", "find", "poll", "batch", "rename"}
        <4>1. c \in Call
          BY ConstantsAssumption
        <4>2. c.op \in {"create", "reply", "cancel", "result", "archive", "unarchive", "rename"}
          BY <4>1 DEF Call, CreateCall, ReplyCall, CancelCall, ResultCall, BatchCall, RenameCall
        <4> QED
          BY <4>2 DEF FirstPC
      <3>2. req'[x].pc = FirstPC(c.op)
        BY <1>0, <2>2 DEF Accept, Idle
      <3> QED
        BY <3>1, <3>2
    <2>3. CASE StatementFails(x) \/ Receive(x)
      BY <1>0, <2>3 DEF StatementFails, Receive, Respond, Idle, Handler
    <2>4. CASE Step(x)
      <3>1. CASE CreateStep(x)
        BY <1>0, <1>4, <3>1 DEF CreateStep, CreateInvalid, CreateKnown, CreateUnknown, SessionFree,
           SessionOccupied, Supersede, SupersedeTooLate, InsertRejected, Insert, TellSuperseded,
           TellCreated, Respond, Goto, Handler
      <3>2. CASE ReplyStep(x)
        BY <1>0, <3>2 DEF ReplyStep, FindMissing, FindTask, ReplyInvalid, Complete,
           CompleteTooLate, Recheck, LoadResult, TellCompleted, Respond, Goto, Handler
      <3>3. CASE CancelStep(x) \/ FindMissing(x) \/ FindTask(x)
        BY <1>0, <3>3 DEF CancelStep, FindMissing, FindTask, Cancel, CancelTooLate, TellCancelled,
           Respond, Goto, Handler
      <3>4. CASE RenameStep(x)
        BY <1>0, <3>4 DEF RenameStep, RenameRejected, Rename, Reread, Respond, Goto, Handler
      <3>5. CASE Batch(x) \/ BatchRejected(x) \/ Poll(x)
        BY <1>0, <3>5 DEF Batch, BatchRejected, Poll, Respond, Goto, Handler
      <3> QED
        BY <2>4, <3>1, <3>2, <3>3, <3>4, <3>5 DEF Step
    <2>5. ASSUME NEW r \in Slot, r # x,
                 (\E c \in Calls : Accept(r, c)) \/ Step(r) \/ StatementFails(r) \/ Receive(r)
          PROVE  FALSE
      BY <1>0, <1>4, <2>5, OthersKeepTheirRecord
    <2> QED
      BY <2>1, <2>2, <2>3, <2>4, <2>5 DEF Next
  <1> QED
    BY <1>1, <1>2, <1>3, <1>4

(* While it serves requests, the daemon has a session row for every task.  *)
THEOREM TasksHaveSessionsCorrect == Spec => []TasksHaveSessions
  <1>1. Init => SessionEnsured /\ TasksHaveSessions
    BY DEF Init, Idle, SessionEnsured, TasksHaveSessions
  <1>2. ShapeInv /\ SessionEnsured /\ TasksHaveSessions /\ [Next]_vars => TasksHaveSessions'
    <2> SUFFICES ASSUME ShapeInv, SessionEnsured, TasksHaveSessions, [Next]_vars,
                        daemon' \in {"up", "stopping"}
                 PROVE  \A t \in Task : Exists(t)' => sessions'[tasks'[t].session] # None
      BY DEF TasksHaveSessions
    <2>0. /\ tasks \in [Task -> Row] /\ \A t \in Task : RowOK(tasks[t])
          /\ tasks' \in [Task -> Row] /\ \A t \in Task : RowOK(tasks'[t])
      BY ShapeStep DEF ShapeInv, TablesOK
    <2>1. CASE Listen
      BY <2>0, <2>1 DEF Listen, WithoutRow, Exists, RowOK, Row
    <2>2. CASE ~ Listen /\ tasks' = tasks
      <3>1. daemon \in {"up", "stopping"}
        BY <2>2 DEF Next, Process, Start, BackfillSession, Stop, Exit, Accept, StatementFails,
           Receive, vars, Step, CreateStep, ReplyStep, CancelStep, RenameStep, OnlyReq,
           CreateInvalid, CreateKnown, CreateUnknown, SessionFree, SessionOccupied, Supersede,
           SupersedeTooLate, EnsureSession, ReadSession, InsertRejected, Insert, TellSuperseded,
           TellCreated, FindMissing, FindTask, ReplyInvalid, Complete, CompleteTooLate, Recheck,
           LoadResult, TellCompleted, Cancel, CancelTooLate, TellCancelled, Batch, BatchRejected,
           RenameRejected, Rename, Reread, Poll
      <3>2. ASSUME NEW t \in Task, Exists(t)
            PROVE  tasks[t].session \in Session /\ sessions[tasks[t].session] # None
        BY <2>0, <3>1, <3>2 DEF TasksHaveSessions, Exists, RowOK, Row
      <3> QED
        BY <2>2, <3>2, SessionsStay DEF Exists
    <2>3. ASSUME NEW r \in Slot, Insert(r)
          PROVE  \A t \in Task : Exists(t)' => sessions'[tasks'[t].session] # None
      <3>1. req[r].call \in CreateCall /\ sessions[req[r].call.session] # None
        BY <2>3 DEF Insert, At, SessionEnsured, ShapeInv, HandlersOK, HandlerOK, CreatePC
      <3>2. daemon \in {"up", "stopping"} /\ sessions' = sessions
        BY <2>3 DEF Insert
      <3> QED
        BY <2>0, <2>3, <3>1, <3>2 DEF Insert, InsertTask, TasksHaveSessions, Exists, NoRow, CreateCall
    <2>4. ASSUME NEW r \in Slot,
                 Supersede(r) \/ Complete(r) \/ Cancel(r) \/ Batch(r)
          PROVE  \A t \in Task : Exists(t)' => sessions'[tasks'[t].session] # None
      <3>1. daemon \in {"up", "stopping"} /\ sessions' = sessions
        BY <2>4 DEF Supersede, Complete, Cancel, Batch
      <3>2. \A t \in Task : tasks'[t].session = tasks[t].session
        <4>1. CASE Supersede(r)
          BY <2>0, <4>1 DEF Supersede, CancelRow, Row
        <4>2. CASE Complete(r)
          BY <2>0, <4>2 DEF Complete, CompleteRow, Row
        <4>3. CASE Cancel(r)
          BY <2>0, <4>3, ZenonT(30) DEF Cancel, CancelRow, Row
        <4>4. CASE Batch(r)
          BY <2>0, <4>4 DEF Batch, SetArchived, Row
        <4> QED
          BY <2>4, <4>1, <4>2, <4>3, <4>4
      <3>3. \A t \in Task : Exists(t)' => Exists(t)
        BY <2>0, <3>2 DEF Exists, RowOK
      <3> QED
        BY <3>1, <3>2, <3>3 DEF TasksHaveSessions
    <2>5. \/ tasks' = tasks \/ Listen
          \/ \E r \in Slot : Insert(r) \/ Supersede(r) \/ Complete(r) \/ Cancel(r) \/ Batch(r)
      BY DEF Next, Process, Start, BackfillSession, Stop, Exit, Accept, StatementFails,
         Receive, vars, Step, CreateStep, ReplyStep, CancelStep, RenameStep, OnlyReq,
         CreateInvalid, CreateKnown, CreateUnknown, SessionFree, SessionOccupied,
         SupersedeTooLate, EnsureSession, ReadSession, InsertRejected, TellSuperseded,
         TellCreated, FindMissing, FindTask, ReplyInvalid, CompleteTooLate, Recheck,
         LoadResult, TellCompleted, CancelTooLate, TellCancelled, BatchRejected,
         RenameRejected, Rename, Reread, Poll
    <2> QED
      BY <2>1, <2>2, <2>3, <2>4, <2>5
  <1> QED
    BY <1>1, <1>2, SessionEnsuredStep, ShapeCorrect, PTL DEF Spec

-----------------------------------------------------------------------------
(* Refinement: the question each row stands for.                           *)
Asked == [t \in Task |-> [state |-> tasks[t].status, session |-> tasks[t].session,
                         answer |-> tasks[t].input, shelved |-> tasks[t].archived]]

(* Each statement is a step of the promise, or leaves it alone.            *)
LEMMA TableStepIsLifecycleStep ==
    ASSUME ShapeInv, TableStep
    PROVE  Lifecycle!LifecycleNext \/ Asked' = Asked
  <1>0. tasks \in [Task -> Row]
    BY TablesAreTyped
  <1>1. CASE tasks' = tasks
    BY <1>1 DEF Asked
  <1>2. ASSUME NEW t \in Task, NEW s \in Session, ~ InsertConflicts(t, s), InsertTask(t, s)
        PROVE  Lifecycle!Ask(t, s)
    BY <1>0, <1>2 DEF Lifecycle!Ask, Lifecycle!Free, Lifecycle!Unasked, InsertConflicts, Exists,
       PendingIn, InsertTask, NoRow
  <1>3. ASSUME NEW t \in Task, NEW why \in Reason, CancelAffects(t), CancelRow(t, why)
        PROVE  Lifecycle!Withdraw(t)
    BY <1>0, <1>3 DEF Lifecycle!Withdraw, CancelAffects, CancelRow, Row
  <1>4. ASSUME NEW t \in Task, NEW v \in Input, NEW f \in Source,
               CompleteAffects(t), CompleteRow(t, v, f)
        PROVE  Lifecycle!Answer(t, v)
    <2> DEFINE row == [tasks[t] EXCEPT !.status = "completed", !.input = v,
                                      !.source = f, !.reason = None]
    <2>1. tasks[t] \in Row /\ tasks' = [tasks EXCEPT ![t] = row]
      BY <1>0, <1>4 DEF CompleteRow
    <2>2. /\ row.status = "completed" /\ row.input = v
          /\ row.session = tasks[t].session /\ row.archived = tasks[t].archived
      BY <2>1 DEF Row
    <2> HIDE DEF row
    <2>3. Asked' = [Asked EXCEPT ![t] = [state |-> "completed", session |-> tasks[t].session,
                                         answer |-> v, shelved |-> tasks[t].archived]]
      BY <1>0, <2>1, <2>2 DEF Asked
    <2>4. Asked' = [Asked EXCEPT ![t].state = "completed", ![t].answer = v]
      BY <2>3 DEF Asked
    <2> QED
      BY <1>4, <2>4 DEF Lifecycle!Answer, CompleteAffects, Asked
  <1>5. ASSUME NEW batch \in SUBSET Task, NEW on \in BOOLEAN,
               BatchAccepted(batch), SetArchived(batch, on)
        PROVE  Lifecycle!Shelve(batch, on)
    BY <1>0, <1>5 DEF Lifecycle!Shelve, BatchAccepted, SetArchived, Row
  <1> QED
    BY <1>1, <1>2, <1>3, <1>4, <1>5 DEF TableStep, Lifecycle!LifecycleNext

(* The daemon keeps the promise of TaskLifecycle.                          *)
THEOREM LifecycleImplemented == Spec => ImplementsLifecycle
  <1>1. Init => Lifecycle!LifecycleInit
    <2> SUFFICES ASSUME Init PROVE Lifecycle!LifecycleInit
      OBVIOUS
    <2>1. tasks \in [Task -> Row]
      BY ShapeInit, TablesAreTyped
    <2> QED
      BY <2>1 DEF Lifecycle!LifecycleInit, Lifecycle!Question, Row, Status
  <1>2. ShapeInv /\ [Next]_vars => [Lifecycle!LifecycleNext]_Asked
    BY StepIsTableStep, TableStepIsLifecycleStep
  <1>3. Spec => Lifecycle!LifecycleInit /\ [][Lifecycle!LifecycleNext]_Asked
    BY <1>1, <1>2, ShapeCorrect, PTL DEF Spec
  <1> QED
    BY <1>3, PTL DEF ImplementsLifecycle, Lifecycle!LifecycleSpec, Asked
-----------------------------------------------------------------------------
(* What a handler knows of the tables when it publishes or answers, having *)
(* read them some statements ago: rows keep their session, and a row that  *)
(* was cancelled or completed never becomes pending again.                 *)
Settled(row) == row.status \in {"cancelled", "completed"}

(* The task a request is about.                                            *)
CalledTask(q) == q.call.task

(* An event of that type about the task is among these.                    *)
Tells(events, type, t) == \E e \in events : e.type = type /\ e.task = t

(* What a handler has established about rows and events at its next        *)
(* statement.                                                              *)
Knows(q, rows, events) ==
    /\ q.pc \in {"lookup", "occupied"} => q.victim = None
    /\ q.pc = "supersede" => /\ q.victim \in Task
                             /\ rows[q.victim].session = q.call.session
    /\ q.pc \in {"ensure", "name", "insert", "tellSuperseded"} /\ q.victim # None =>
          /\ q.victim \in Task
          /\ Settled(rows[q.victim])
          /\ rows[q.victim].session = q.call.session
    /\ q.pc \in {"tellSuperseded", "tellCreated"} => rows[CalledTask(q)].session = q.call.session
    /\ q.pc = "tellCreated" /\ q.victim # None => Tells(events, "cancelled", q.victim)
    /\ q.pc \in ReplyPC \cup CancelPC => rows[CalledTask(q)].session = q.seen
    /\ q.pc \in {"load", "tellCompleted"} => rows[CalledTask(q)].status = "completed"
    /\ q.pc = "tellCancelled" => Settled(rows[CalledTask(q)])
    /\ q.pc = "done" /\ q.call.op = "reply" /\ q.code = "ok" =>
          /\ q.call \in ReplyCall
          /\ rows[CalledTask(q)].status = "completed"
          /\ Tells(events, "completed", CalledTask(q))
    /\ q.pc = "done" /\ q.code = "created" =>
          /\ q.call \in CreateCall
          /\ rows[CalledTask(q)].session \in Session
          /\ Tells(events, "created", CalledTask(q))
          /\ q.victim # None => Tells(events, "cancelled", q.victim)
    /\ q.pc = "done" /\ q.code = "found" =>
          /\ q.call \in ResultCall
          /\ rows[CalledTask(q)].status = "completed"
          /\ rows[CalledTask(q)].input = q.input

(* What a published event says of the tables.                              *)
TrueOf(e, rows) ==
    /\ rows[e.task].session = e.session
    /\ e.type = "completed" => rows[e.task].status = "completed"
    /\ e.type = "cancelled" => Settled(rows[e.task])
                               /\ (e.by # None => rows[e.by].session = e.session)

(* Every handler knows what its statement says, and every event announced  *)
(* is true.                                                                *)
KnowledgeInv ==
    /\ \A r \in Slot : Knows(req[r], tasks, announced)
    /\ \A e \in announced : TrueOf(e, tasks)

(* The facts about rows that no statement takes back.                      *)
LEMMA RowsPersist ==
    ASSUME ShapeInv, TableStep
    PROVE  \A t \in Task :
              /\ tasks[t].session # None => tasks'[t].session = tasks[t].session
              /\ Settled(tasks[t]) => Settled(tasks'[t])
              /\ tasks[t].status = "completed" =>
                    tasks'[t].status = "completed" /\ tasks'[t].input = tasks[t].input
  <1> DEFINE Persists(t) ==
              /\ tasks[t].session # None => tasks'[t].session = tasks[t].session
              /\ Settled(tasks[t]) => Settled(tasks'[t])
              /\ tasks[t].status = "completed" =>
                    tasks'[t].status = "completed" /\ tasks'[t].input = tasks[t].input
  <1>0. tasks \in [Task -> Row] /\ \A t \in Task : RowOK(tasks[t])
    BY TablesAreTyped
  <1>1. CASE tasks' = tasks
    BY <1>1
  <1>2. ASSUME NEW t \in Task, NEW s \in Session, ~ InsertConflicts(t, s), InsertTask(t, s)
        PROVE  \A u \in Task : Persists(u)
    <2>1. tasks[t].status = "absent" /\ tasks[t].session = None
      BY <1>0, <1>2 DEF InsertConflicts, Exists, RowOK
    <2> QED
      BY <1>0, <1>2, <2>1 DEF InsertTask, Settled
  <1>3. ASSUME NEW t \in Task, NEW why \in Reason, CancelAffects(t), CancelRow(t, why)
        PROVE  \A u \in Task : Persists(u)
    BY <1>0, <1>3 DEF CancelAffects, CancelRow, Settled, Row
  <1>4. ASSUME NEW t \in Task, NEW v \in Input, NEW f \in Source,
               CompleteAffects(t), CompleteRow(t, v, f)
        PROVE  \A u \in Task : Persists(u)
    BY <1>0, <1>4 DEF CompleteAffects, CompleteRow, Settled, Row
  <1>5. ASSUME NEW batch \in SUBSET Task, NEW on \in BOOLEAN, SetArchived(batch, on)
        PROVE  \A u \in Task : Persists(u)
    BY <1>0, <1>5 DEF SetArchived, Settled, Row
  <1> QED
    BY <1>1, <1>2, <1>3, <1>4, <1>5 DEF TableStep

(* A published event is never taken back.                                  *)
LEMMA EventsAccumulate ==
    [Next]_vars => announced \subseteq announced'
  BY ZenonT(30) DEF Next, Process, Start, BackfillSession, Listen, Stop, Exit, Accept, StatementFails,
     Receive, vars, Step, CreateStep, ReplyStep, CancelStep, RenameStep, OnlyReq, Publish,
     CreateInvalid, CreateKnown, CreateUnknown, SessionFree, SessionOccupied, Supersede,
     SupersedeTooLate, EnsureSession, ReadSession, InsertRejected, Insert, TellSuperseded,
     TellCreated, FindMissing, FindTask, ReplyInvalid, Complete, CompleteTooLate, Recheck,
     LoadResult, TellCompleted, Cancel, CancelTooLate, TellCancelled, Batch, BatchRejected,
     RenameRejected, Rename, Reread, Poll

(* A handler that is not stepping keeps what it knows.                     *)
LEMMA KnowledgePersists ==
    ASSUME ShapeInv, TableStep, announced \subseteq announced',
           NEW r \in Slot, Knows(req[r], tasks, announced)
    PROVE  Knows(req[r], tasks', announced')
  <1> DEFINE q == req[r]
  <1>0. q \in Handler /\ HandlerOK(q)
    BY DEF ShapeInv, HandlersOK
  <1>1. ASSUME NEW type, NEW t, Tells(announced, type, t) PROVE Tells(announced', type, t)
    BY <1>1 DEF Tells
  <1>2. q.call \in CreateCall \cup ReplyCall \cup CancelCall \cup ResultCall => q.call.task \in Task
    BY DEF CreateCall, ReplyCall, CancelCall, ResultCall
  <1>3. q.call \in CreateCall => q.call.session \in Session
    BY DEF CreateCall
  <1>4. q.pc \in CreatePC => q.call \in CreateCall
    BY <1>0 DEF HandlerOK
  <1>5. q.pc \in ReplyPC \cup CancelPC => q.call \in ReplyCall \cup CancelCall /\ q.seen \in Session
    BY <1>0 DEF HandlerOK
  <1>6. None \notin Session
    BY ConstantsAssumption
  <1> HIDE DEF q
  <1>7. Knows(q, tasks, announced)
    BY DEF q
  <1>8. /\ q.pc = "supersede" => /\ q.victim \in Task
                                 /\ tasks'[q.victim].session = q.call.session
        /\ q.pc \in {"ensure", "name", "insert", "tellSuperseded"} /\ q.victim # None =>
              /\ q.victim \in Task
              /\ Settled(tasks'[q.victim])
              /\ tasks'[q.victim].session = q.call.session
    BY <1>3, <1>4, <1>6, <1>7, RowsPersist DEF Knows, CreatePC
  <1>9. q.pc \in {"tellSuperseded", "tellCreated"} => tasks'[CalledTask(q)].session = q.call.session
    BY <1>2, <1>3, <1>4, <1>6, <1>7, RowsPersist DEF Knows, CreatePC, CalledTask
  <1>10. /\ q.pc \in ReplyPC \cup CancelPC => tasks'[CalledTask(q)].session = q.seen
         /\ q.pc \in {"load", "tellCompleted"} => tasks'[CalledTask(q)].status = "completed"
         /\ q.pc = "tellCancelled" => Settled(tasks'[CalledTask(q)])
    BY <1>2, <1>5, <1>6, <1>7, RowsPersist DEF Knows, ReplyPC, CancelPC, CalledTask
  <1>11. q.pc = "done" /\ q.call.op = "reply" /\ q.code = "ok" =>
          /\ q.call \in ReplyCall
          /\ tasks'[CalledTask(q)].status = "completed"
          /\ Tells(announced', "completed", CalledTask(q))
    BY <1>1, <1>2, <1>7, RowsPersist DEF Knows, CalledTask
  <1>12. q.pc = "done" /\ q.code = "created" =>
          /\ q.call \in CreateCall
          /\ tasks'[CalledTask(q)].session \in Session
          /\ Tells(announced', "created", CalledTask(q))
          /\ q.victim # None => Tells(announced', "cancelled", q.victim)
    BY <1>1, <1>2, <1>6, <1>7, RowsPersist DEF Knows, CalledTask
  <1>13. q.pc = "done" /\ q.code = "found" =>
          /\ q.call \in ResultCall
          /\ tasks'[CalledTask(q)].status = "completed"
          /\ tasks'[CalledTask(q)].input = q.input
    BY <1>2, <1>7, RowsPersist DEF Knows, CalledTask
  <1>14. /\ q.pc = "tellCreated" /\ q.victim # None => Tells(announced', "cancelled", q.victim)
         /\ q.pc \in {"lookup", "occupied"} => q.victim = None
    BY <1>1, <1>7 DEF Knows
  <1>15. Knows(q, tasks', announced')
    BY <1>8, <1>9, <1>10, <1>11, <1>12, <1>13, <1>14 DEF Knows
  <1> QED
    BY <1>15 DEF q

(* Publish hands the event to the hub.                                     *)
LEMMA PublishTells ==
    ASSUME NEW e, Publish(e)
    PROVE  Tells(announced', e.type, e.task)
  <1>1. e \in announced'
    BY DEF Publish
  <1> QED
    BY <1>1 DEF Tells

(* A code other than these three tells the caller nothing of the tables.   *)
LEMMA SilentAnswer ==
    ASSUME HandlersOK, NEW r \in Slot, NEW code, Respond(r, code),
           code \notin {"ok", "created", "found"}
    PROVE  Knows(req'[r], tasks', announced')
  <1>1. req'[r].pc = "done" /\ req'[r].code = code
    BY DEF Respond, HandlersOK, Handler
  <1> QED
    BY <1>1 DEF Knows, ReplyPC, CancelPC

(* An "ok" that does not answer a reply says nothing of the tasks.         *)
LEMMA PlainOk ==
    ASSUME HandlersOK, NEW r \in Slot, Respond(r, "ok"), req[r].call.op # "reply"
    PROVE  Knows(req'[r], tasks', announced')
  <1>1. req'[r].pc = "done" /\ req'[r].code = "ok" /\ req'[r].call = req[r].call
    BY DEF Respond, HandlersOK, Handler
  <1> QED
    BY <1>1 DEF Knows, ReplyPC, CancelPC

(* What the next statement of CreateTask relies on.                        *)
LEMMA CreateKnowledge ==
    ASSUME ShapeInv, KnowledgeInv, TableStep, NEW r \in Slot, CreateStep(r)
    PROVE  Knows(req'[r], tasks', announced')
  <1> DEFINE q == req[r]  p == req'[r]
  <1>0. HandlersOK /\ q \in Handler /\ HandlerOK(q) /\ Knows(q, tasks, announced)
    BY DEF ShapeInv, HandlersOK, KnowledgeInv
  <1>1. q.pc \in CreatePC
    BY DEF CreateStep, CreateInvalid, CreateKnown, CreateUnknown, SessionFree, SessionOccupied,
           Supersede, SupersedeTooLate, EnsureSession, ReadSession, InsertRejected, Insert,
           TellSuperseded, TellCreated, At, CreatePC
  <1>2. q.call \in CreateCall /\ q.call.task \in Task /\ q.call.session \in Session
    <2>1. q.call \in CreateCall
      BY <1>0, <1>1 DEF HandlerOK
    <2> QED
      BY <2>1 DEF CreateCall
  <1>3. tasks \in [Task -> Row] /\ \A t \in Task : RowOK(tasks[t])
    BY TablesAreTyped
  <1>4. None \notin Session /\ None \notin Task
    BY ConstantsAssumption
  <1>5. ASSUME NEW pc, Goto(r, pc)
        PROVE  /\ p.pc = pc /\ p.call = q.call /\ p.victim = q.victim
               /\ p.seen = q.seen
    BY <1>0, <1>5 DEF Goto, HandlersOK, Handler
  <1>6. CASE CreateInvalid(r) \/ SupersedeTooLate(r) \/ InsertRejected(r) \/ CreateKnown(r)
    BY <1>0, <1>6, SilentAnswer DEF CreateInvalid, SupersedeTooLate, InsertRejected, CreateKnown
  <1>7. CASE CreateUnknown(r)
    <2>1. q.pc = "lookup" /\ p.pc = "occupied" /\ p.victim = q.victim
      BY <1>5, <1>7 DEF CreateUnknown, At
    <2> QED
      BY <1>0, <2>1 DEF Knows, ReplyPC, CancelPC
  <1>8. CASE SessionFree(r)
    <2>1. q.pc = "occupied" /\ p.pc = "ensure" /\ p.victim = q.victim
      BY <1>5, <1>8 DEF SessionFree, At
    <2> QED
      BY <1>0, <2>1 DEF Knows, ReplyPC, CancelPC
  <1>9. CASE SessionOccupied(r)
    <2>1. PICK old \in PendingIn(q.call.session) :
             req' = [req EXCEPT ![r].pc = "supersede", ![r].victim = old]
      BY <1>9 DEF SessionOccupied
    <2>2. p.pc = "supersede" /\ p.victim = old /\ p.call = q.call
      BY <1>0, <2>1 DEF HandlersOK, Handler
    <2>3. old \in Task /\ tasks[old].session = q.call.session /\ tasks' = tasks
      BY <1>9, <2>1 DEF PendingIn, SessionOccupied, OnlyReq
    <2> QED
      BY <2>2, <2>3 DEF Knows, ReplyPC, CancelPC
  <1>10. CASE Supersede(r)
    <2>1. q.victim \in Task /\ tasks[q.victim].session = q.call.session
      BY <1>0, <1>10 DEF Knows, Supersede, At
    <2>2. p.pc = "ensure" /\ p.victim = q.victim /\ p.call = q.call
      BY <1>5, <1>10 DEF Supersede
    <2>3. tasks'[q.victim].status = "cancelled"
      BY <1>3, <1>10, <2>1 DEF Supersede, CancelRow, Row
    <2>4. tasks'[q.victim].session = q.call.session
      BY <1>2, <1>4, <2>1, RowsPersist
    <2> QED
      BY <2>1, <2>2, <2>3, <2>4 DEF Knows, Settled, ReplyPC, CancelPC
  <1>11. CASE EnsureSession(r)
    <2>1. q.pc = "ensure" /\ p.pc = "name" /\ p.victim = q.victim /\ p.call = q.call
      BY <1>5, <1>11 DEF EnsureSession, At
    <2>2. tasks' = tasks
      BY <1>11 DEF EnsureSession
    <2> QED
      BY <1>0, <2>1, <2>2 DEF Knows, ReplyPC, CancelPC
  <1>12. CASE ReadSession(r)
    <2>1. CASE sessions[q.call.session] = None
      BY <1>0, <1>12, <2>1, SilentAnswer DEF ReadSession
    <2>2. CASE sessions[q.call.session] # None
      <3>1. req' = [req EXCEPT ![r].pc = "insert", ![r].name = sessions[q.call.session]]
        BY <1>12, <2>2 DEF ReadSession
      <3>2. q.pc = "name" /\ p.pc = "insert" /\ p.victim = q.victim /\ p.call = q.call
        BY <1>0, <1>12, <3>1 DEF ReadSession, At, HandlersOK, Handler
      <3>3. tasks' = tasks
        BY <1>12 DEF ReadSession, OnlyReq
      <3> QED
        BY <1>0, <3>2, <3>3 DEF Knows, ReplyPC, CancelPC
    <2> QED
      BY <2>1, <2>2
  <1>13. CASE Insert(r)
    <2>1. tasks'[q.call.task].session = q.call.session
      BY <1>2, <1>3, <1>13 DEF Insert, InsertTask, NoRow
    <2>2. q.pc = "insert" /\ p.victim = q.victim /\ p.call = q.call
          /\ p.pc = IF q.victim = None THEN "tellCreated" ELSE "tellSuperseded"
      BY <1>5, <1>13 DEF Insert, At
    <2>3. q.victim # None =>
            /\ q.victim \in Task
            /\ Settled(tasks'[q.victim])
            /\ tasks'[q.victim].session = q.call.session
      BY <1>0, <1>2, <1>4, <2>2, RowsPersist DEF Knows
    <2> QED
      BY <2>1, <2>2, <2>3 DEF Knows, CalledTask, ReplyPC, CancelPC
  <1>14. CASE TellSuperseded(r)
    <2>1. q.pc = "tellSuperseded" /\ p.pc = "tellCreated" /\ p.victim = q.victim /\ p.call = q.call
      BY <1>5, <1>14 DEF TellSuperseded, At
    <2>2. tasks' = tasks /\ Tells(announced', "cancelled", q.victim)
      <3> DEFINE e == [type |-> "cancelled", task |-> q.victim, session |-> q.call.session,
                       reason |-> "superseded_by_new_task", by |-> q.call.task]
      <3>1. Publish(e) /\ tasks' = tasks
        BY <1>14 DEF TellSuperseded
      <3>2. e.type = "cancelled" /\ e.task = q.victim
        OBVIOUS
      <3> HIDE DEF e
      <3> QED
        BY <3>1, <3>2, PublishTells
    <2> QED
      BY <1>0, <2>1, <2>2 DEF Knows, CalledTask, ReplyPC, CancelPC
  <1>15. CASE TellCreated(r)
    <2>1. q.pc = "tellCreated" /\ p.pc = "done" /\ p.code = "created"
          /\ p.victim = q.victim /\ p.call = q.call
      BY <1>0, <1>15 DEF TellCreated, At, Respond, HandlersOK, Handler
    <2>2. tasks' = tasks /\ Tells(announced', "created", q.call.task)
      <3> DEFINE e == [type |-> "created", task |-> q.call.task, session |-> q.call.session,
                       name |-> q.name]
      <3>1. Publish(e) /\ tasks' = tasks
        BY <1>15 DEF TellCreated
      <3>2. e.type = "created" /\ e.task = q.call.task
        OBVIOUS
      <3> HIDE DEF e
      <3> QED
        BY <3>1, <3>2, PublishTells
    <2>3. q.victim # None => Tells(announced', "cancelled", q.victim)
      BY <1>0, <1>15, <2>1 DEF Knows, TellCreated, Publish, Tells
    <2> QED
      BY <1>0, <1>2, <2>1, <2>2, <2>3 DEF Knows, CalledTask, ReplyPC, CancelPC
  <1> QED
    BY <1>6, <1>7, <1>8, <1>9, <1>10, <1>11, <1>12, <1>13, <1>14, <1>15 DEF CreateStep

(* What the next statement of a reply or a cancellation relies on.         *)
LEMMA ReplyKnowledge ==
    ASSUME ShapeInv, KnowledgeInv, TableStep, NEW r \in Slot, ReplyStep(r)
    PROVE  Knows(req'[r], tasks', announced')
  <1> DEFINE q == req[r]  p == req'[r]
  <1>0. HandlersOK /\ q \in Handler /\ HandlerOK(q) /\ Knows(q, tasks, announced)
    BY DEF ShapeInv, HandlersOK, KnowledgeInv
  <1>1. q.pc \in ReplyPC
    BY DEF ReplyStep, ReplyInvalid, Complete, CompleteTooLate, Recheck, LoadResult, TellCompleted,
           At, ReplyPC
  <1>2. q.call \in ReplyCall /\ q.call.task \in Task /\ q.seen \in Session
    <2>1. q.call \in ReplyCall /\ q.seen \in Session
      BY <1>0, <1>1 DEF HandlerOK
    <2> QED
      BY <2>1 DEF ReplyCall
  <1>3. tasks'[q.call.task].session = q.seen
    BY <1>0, <1>1, <1>2, ConstantsAssumption, RowsPersist DEF Knows, CalledTask
  <1>4. ASSUME NEW pc, Goto(r, pc)
        PROVE  p.pc = pc /\ p.call = q.call /\ p.seen = q.seen
    BY <1>0, <1>4 DEF Goto, HandlersOK, Handler
  <1>5. ASSUME Goto(r, "load"), tasks'[q.call.task].status = "completed"
        PROVE  Knows(p, tasks', announced')
    BY <1>3, <1>4, <1>5 DEF Knows, CalledTask
  <1>6. CASE ReplyInvalid(r)
    BY <1>0, <1>6, SilentAnswer DEF ReplyInvalid
  <1>7. CASE Complete(r)
    <2>1. tasks'[q.call.task].status = "completed"
      <3>1. tasks \in [Task -> Row]
        BY TablesAreTyped
      <3> QED
        BY <1>2, <1>7, <3>1 DEF Complete, CompleteRow, Row
    <2> QED
      BY <1>5, <1>7, <2>1 DEF Complete
  <1>8. CASE CompleteTooLate(r)
    <2>1. p.pc = "recheck" /\ p.call = q.call /\ p.seen = q.seen
      BY <1>4, <1>8 DEF CompleteTooLate
    <2> QED
      BY <1>3, <2>1 DEF Knows, CalledTask
  <1>9. CASE Recheck(r)
    <2>1. CASE tasks[q.call.task].status = "completed"
      BY <1>5, <1>9, <2>1 DEF Recheck, OnlyReq
    <2>2. CASE tasks[q.call.task].status # "completed"
      BY <1>0, <1>9, <2>2, SilentAnswer DEF Recheck
    <2> QED
      BY <2>1, <2>2
  <1>10. CASE LoadResult(r)
    <2>1. tasks[q.call.task].status = "completed"
      BY <1>0, <1>10 DEF LoadResult, At, Knows, CalledTask
    <2>2. p.pc = "tellCompleted" /\ p.call = q.call /\ p.seen = q.seen
      BY <1>4, <1>10, <2>1 DEF LoadResult
    <2> QED
      BY <1>3, <1>10, <2>1, <2>2 DEF Knows, CalledTask, LoadResult, OnlyReq
  <1>11. CASE TellCompleted(r)
    <2>1. q.pc = "tellCompleted" /\ p.pc = "done" /\ p.code = "ok" /\ p.call = q.call
      BY <1>0, <1>11 DEF TellCompleted, At, Respond, HandlersOK, Handler
    <2>2. tasks' = tasks /\ Tells(announced', "completed", q.call.task)
      <3> DEFINE e == [type |-> "completed", task |-> q.call.task, session |-> q.seen,
                       source |-> q.call.source]
      <3>1. Publish(e) /\ tasks' = tasks
        BY <1>11 DEF TellCompleted
      <3>2. e.type = "completed" /\ e.task = q.call.task
        OBVIOUS
      <3> HIDE DEF e
      <3> QED
        BY <3>1, <3>2, PublishTells
    <2>3. tasks[q.call.task].status = "completed"
      BY <1>0, <2>1 DEF Knows, CalledTask
    <2> QED
      BY <1>2, <2>1, <2>2, <2>3 DEF Knows, CalledTask, ReplyPC, CancelPC
  <1> QED
    BY <1>6, <1>7, <1>8, <1>9, <1>10, <1>11 DEF ReplyStep

(* What the next statement of a cancellation relies on.                    *)
LEMMA CancelKnowledge ==
    ASSUME ShapeInv, KnowledgeInv, TableStep, NEW r \in Slot, CancelStep(r)
    PROVE  Knows(req'[r], tasks', announced')
  <1> DEFINE q == req[r]  p == req'[r]
  <1>0. HandlersOK /\ q \in Handler /\ HandlerOK(q) /\ Knows(q, tasks, announced)
    BY DEF ShapeInv, HandlersOK, KnowledgeInv
  <1>1. q.pc \in CancelPC
    BY DEF CancelStep, Cancel, CancelTooLate, TellCancelled, At, CancelPC
  <1>2. q.call.op = "cancel" /\ q.call.task \in Task /\ q.seen \in Session
    <2>1. q.call \in CancelCall /\ q.seen \in Session
      BY <1>0, <1>1 DEF HandlerOK
    <2> QED
      BY <2>1 DEF CancelCall
  <1>3. tasks'[q.call.task].session = q.seen
    BY <1>0, <1>1, <1>2, ConstantsAssumption, RowsPersist DEF Knows, CalledTask
  <1>4. CASE Cancel(r)
    <2>1. tasks'[q.call.task].status = "cancelled"
      <3>1. tasks \in [Task -> Row]
        BY TablesAreTyped
      <3> QED
        BY <1>2, <1>4, <3>1 DEF Cancel, CancelRow, Row
    <2>2. p.pc = "tellCancelled" /\ p.call = q.call /\ p.seen = q.seen
      BY <1>0, <1>4 DEF Cancel, Goto, HandlersOK, Handler
    <2> QED
      BY <1>3, <2>1, <2>2 DEF Knows, CalledTask, Settled
  <1>5. CASE CancelTooLate(r)
    BY <1>0, <1>5, SilentAnswer DEF CancelTooLate
  <1>6. CASE TellCancelled(r)
    BY <1>0, <1>2, <1>6, PlainOk DEF TellCancelled
  <1> QED
    BY <1>4, <1>5, <1>6 DEF CancelStep

(* What the remaining steps leave a handler with.                          *)
LEMMA OtherKnowledge ==
    ASSUME ShapeInv, KnowledgeInv, TableStep, NEW r \in Slot,
           \/ \E c \in Calls : Accept(r, c)
           \/ FindMissing(r) \/ FindTask(r) \/ Batch(r) \/ BatchRejected(r)
           \/ RenameStep(r) \/ Poll(r) \/ StatementFails(r) \/ Receive(r)
    PROVE  Knows(req'[r], tasks', announced')
  <1> DEFINE q == req[r]  p == req'[r]
  <1>0. HandlersOK /\ q \in Handler /\ HandlerOK(q) /\ Knows(q, tasks, announced)
    BY DEF ShapeInv, HandlersOK, KnowledgeInv
  <1>1. ASSUME NEW c \in Calls, Accept(r, c) PROVE Knows(p, tasks', announced')
    <2>1. c.op \in {"create", "reply", "cancel", "result", "archive", "unarchive", "rename"}
      BY ConstantsAssumption
         DEF Call, CreateCall, ReplyCall, CancelCall, ResultCall, BatchCall, RenameCall
    <2>2. FirstPC(c.op) \in {"lookup", "find", "poll", "batch", "rename"}
      BY <2>1 DEF FirstPC
    <2>3. p.pc = FirstPC(c.op) /\ p.victim = None
      BY <1>0, <1>1 DEF Accept, Idle, HandlersOK
    <2> QED
      BY <2>2, <2>3 DEF Knows, ReplyPC, CancelPC
  <1>2. CASE FindMissing(r) \/ BatchRejected(r) \/ RenameRejected(r)
    BY <1>0, <1>2, SilentAnswer DEF FindMissing, BatchRejected, RenameRejected
  <1>3. CASE FindTask(r)
    <2>1. q.call.op = "reply" \/ q.call.op = "cancel"
      BY <1>0, <1>3 DEF FindTask, At, HandlerOK, ReplyCall, CancelCall
    <2>2. p.seen = tasks[q.call.task].session /\ p.call = q.call
          /\ p.pc \in {"complete", "cancel"} /\ tasks' = tasks
      BY <1>0, <1>3 DEF FindTask, OnlyReq, HandlersOK, Handler
    <2> QED
      BY <2>2 DEF Knows, CalledTask
  <1>4. CASE Batch(r)
    <2>1. q.call.op # "reply"
      BY <1>0, <1>4 DEF Batch, At, HandlerOK, BatchCall
    <2> QED
      BY <1>0, <1>4, <2>1, PlainOk DEF Batch
  <1>5. CASE Rename(r)
    <2>1. p.pc = "reread"
      BY <1>0, <1>5 DEF Rename, Goto, HandlersOK, Handler
    <2> QED
      BY <2>1 DEF Knows, ReplyPC, CancelPC
  <1>6. CASE Reread(r)
    <2>1. q.call.op # "reply"
      BY <1>0, <1>6 DEF Reread, At, HandlerOK, RenamePC, RenameCall
    <2>2. Respond(r, "ok") \/ Respond(r, "missing")
      BY <1>6 DEF Reread
    <2>3. CASE Respond(r, "ok")
      BY <1>0, <2>1, <2>3, PlainOk
    <2>4. CASE Respond(r, "missing")
      BY <1>0, <2>4, SilentAnswer
    <2> QED
      BY <2>2, <2>3, <2>4
  <1>7. CASE Poll(r)
    <2>1. q.call \in ResultCall
      BY <1>0, <1>7 DEF Poll, At, HandlerOK
    <2>2. CASE tasks[q.call.task].status = "completed"
      <3>1. /\ p.pc = "done" /\ p.code = "found" /\ p.call = q.call
            /\ p.input = tasks[q.call.task].input /\ tasks' = tasks
        BY <1>0, <1>7, <2>2 DEF Poll, OnlyReq, HandlersOK, Handler
      <3> QED
        BY <2>1, <2>2, <3>1 DEF Knows, CalledTask, ReplyPC, CancelPC
    <2>3. CASE tasks[q.call.task].status # "completed"
      <3>1. Respond(r, "pending")
        BY <1>7, <2>3 DEF Poll, Respond
      <3> QED
        BY <1>0, <3>1, SilentAnswer
    <2> QED
      BY <2>2, <2>3
  <1>8. CASE StatementFails(r)
    <2>1. FailureCode(q.pc) \notin {"ok", "created", "found"}
      BY DEF FailureCode
    <2> QED
      BY <1>0, <1>8, <2>1, SilentAnswer DEF StatementFails
  <1>9. CASE Receive(r)
    <2>1. p.pc = "idle"
      BY <1>0, <1>9 DEF Receive, Idle, HandlersOK
    <2> QED
      BY <2>1 DEF Knows, ReplyPC, CancelPC
  <1> QED
    BY <1>1, <1>2, <1>3, <1>4, <1>5, <1>6, <1>7, <1>8, <1>9 DEF RenameStep

(* Every event is true when it is published, and nothing makes it false.   *)
LEMMA EventsStayTrue ==
    ASSUME ShapeInv, KnowledgeInv, [Next]_vars
    PROVE  \A e \in announced' : TrueOf(e, tasks')
  <1> SUFFICES ASSUME NEW e \in announced' PROVE TrueOf(e, tasks')
    OBVIOUS
  <1>0. TableStep /\ \A r \in Slot : Knows(req[r], tasks, announced) /\ HandlerOK(req[r])
    BY StepIsTableStep DEF KnowledgeInv, ShapeInv, HandlersOK
  <1>1. CASE e \in announced
    <2>1. e \in Event /\ TrueOf(e, tasks)
      BY <1>1 DEF ShapeInv, ProcessOK, KnowledgeInv
    <2>2. e.task \in Task /\ e.session \in Session
          /\ (e.type = "cancelled" => e.by \in Task \cup {None})
      BY <2>1 DEF Event, CreatedEvent, CompletedEvent, CancelledEvent
    <2> QED
      BY <1>0, <2>1, <2>2, ConstantsAssumption, RowsPersist DEF TrueOf
  <1>2. ASSUME NEW r \in Slot, TellSuperseded(r), e \notin announced PROVE TrueOf(e, tasks')
    <2>1. e = [type |-> "cancelled", task |-> req[r].victim, session |-> req[r].call.session,
               reason |-> "superseded_by_new_task", by |-> req[r].call.task]
      BY <1>2 DEF TellSuperseded, Publish
    <2>2. tasks' = tasks /\ req[r].pc = "tellSuperseded" /\ req[r].victim \in Task
      BY <1>0, <1>2 DEF TellSuperseded, At, HandlerOK
    <2>3. /\ Settled(tasks[req[r].victim])
          /\ tasks[req[r].victim].session = req[r].call.session
          /\ tasks[req[r].call.task].session = req[r].call.session
      BY <1>0, <2>2, ConstantsAssumption DEF Knows, CalledTask
    <2> QED
      BY <2>1, <2>2, <2>3 DEF TrueOf
  <1>3. ASSUME NEW r \in Slot, TellCreated(r), e \notin announced PROVE TrueOf(e, tasks')
    <2>1. e = [type |-> "created", task |-> req[r].call.task,
               session |-> req[r].call.session, name |-> req[r].name]
      BY <1>3 DEF TellCreated, Publish
    <2>2. tasks' = tasks /\ tasks[req[r].call.task].session = req[r].call.session
      BY <1>0, <1>3 DEF TellCreated, At, Knows, CalledTask
    <2> QED
      BY <2>1, <2>2 DEF TrueOf
  <1>4. ASSUME NEW r \in Slot, TellCompleted(r), e \notin announced PROVE TrueOf(e, tasks')
    <2>1. e = [type |-> "completed", task |-> req[r].call.task,
               session |-> req[r].seen, source |-> req[r].call.source]
      BY <1>4 DEF TellCompleted, Publish
    <2>2. /\ tasks' = tasks /\ tasks[req[r].call.task].session = req[r].seen
          /\ tasks[req[r].call.task].status = "completed"
      BY <1>0, <1>4 DEF TellCompleted, At, Knows, CalledTask, ReplyPC
    <2> QED
      BY <2>1, <2>2 DEF TrueOf
  <1>5. ASSUME NEW r \in Slot, TellCancelled(r), e \notin announced PROVE TrueOf(e, tasks')
    <2>1. e = [type |-> "cancelled", task |-> req[r].call.task, session |-> req[r].seen,
               reason |-> "cancelled_by_user", by |-> None]
      BY <1>5 DEF TellCancelled, Publish
    <2>2. /\ tasks' = tasks /\ tasks[req[r].call.task].session = req[r].seen
          /\ Settled(tasks[req[r].call.task])
      BY <1>0, <1>5 DEF TellCancelled, At, Knows, CalledTask, CancelPC
    <2> QED
      BY <2>1, <2>2 DEF TrueOf
  <1>6. \/ announced' = announced
        \/ \E r \in Slot : TellSuperseded(r) \/ TellCreated(r) \/ TellCompleted(r) \/ TellCancelled(r)
    BY DEF Next, Process, Start, BackfillSession, Listen, Stop, Exit, Accept, StatementFails,
       Receive, vars, Step, CreateStep, ReplyStep, CancelStep, RenameStep, OnlyReq,
       CreateInvalid, CreateKnown, CreateUnknown, SessionFree, SessionOccupied, Supersede,
       SupersedeTooLate, EnsureSession, ReadSession, InsertRejected, Insert,
       FindMissing, FindTask, ReplyInvalid, Complete, CompleteTooLate, Recheck,
       LoadResult, Cancel, CancelTooLate, Batch, BatchRejected,
       RenameRejected, Rename, Reread, Poll
  <1> QED
    BY <1>1, <1>2, <1>3, <1>4, <1>5, <1>6

(* What every handler knows stays true while the others step.              *)
LEMMA KnowledgeStep == ShapeInv /\ KnowledgeInv /\ [Next]_vars => KnowledgeInv'
  <1> SUFFICES ASSUME ShapeInv, KnowledgeInv, [Next]_vars PROVE KnowledgeInv'
    OBVIOUS
  <1>0. TableStep /\ announced \subseteq announced' /\ req \in [Slot -> Handler]
    BY StepIsTableStep, EventsAccumulate DEF ShapeInv, HandlersOK
  <1>1. ASSUME NEW x \in Slot PROVE Knows(req'[x], tasks', announced')
    <2>1. Knows(req[x], tasks', announced')
      BY <1>0, KnowledgePersists DEF KnowledgeInv
    <2>2. CASE req'[x] = req[x]
      BY <2>1, <2>2
    <2>3. CASE Step(x) \/ (\E c \in Calls : Accept(x, c)) \/ StatementFails(x) \/ Receive(x)
      BY <1>0, <2>3, CreateKnowledge, ReplyKnowledge, CancelKnowledge, OtherKnowledge DEF Step
    <2>4. CASE Exit
      <3>1. CASE req'[x] = req[x]
        BY <2>1, <3>1
      <3>2. CASE req'[x] # req[x]
        <4>1. req'[x] = [req[x] EXCEPT !.pc = "done", !.code = "lost"] /\ req[x] \in Handler
          BY <1>0, <2>4, <3>2 DEF Exit
        <4>2. req'[x].pc = "done" /\ req'[x].code = "lost"
          BY <4>1 DEF Handler
        <4> QED
          BY <4>2 DEF Knows, ReplyPC, CancelPC
      <3> QED
        BY <3>1, <3>2
    <2>5. CASE (Process /\ ~ Exit) \/ UNCHANGED vars
      BY <2>1, <2>5 DEF Process, Start, BackfillSession, Listen, Stop, vars
    <2>6. ASSUME NEW r \in Slot, r # x,
                 (\E c \in Calls : Accept(r, c)) \/ Step(r) \/ StatementFails(r) \/ Receive(r)
          PROVE  Knows(req'[x], tasks', announced')
      <3>1. req'[x] = req[x]
        BY <1>0, <2>6, OthersKeepTheirRecord
      <3> QED
        BY <2>1, <3>1
    <2> QED
      BY <2>3, <2>4, <2>5, <2>6 DEF Next
  <1> QED
    BY <1>1, EventsStayTrue DEF KnowledgeInv

(* In every reachable state every handler knows what it relies on.         *)
LEMMA KnowledgeCorrect == Spec => [](ShapeInv /\ KnowledgeInv)
  <1>1. Init => KnowledgeInv
    BY DEF Init, Idle, KnowledgeInv, Knows, ReplyPC, CancelPC
  <1> QED
    BY <1>1, KnowledgeStep, ShapeCorrect, PTL DEF Spec

(* What an event says stays true: it may be read at any later time.        *)
THEOREM EventsTrueCorrect == Spec => []EventsAreTrue
  <1>1. ShapeInv /\ KnowledgeInv => EventsAreTrue
    <2> SUFFICES ASSUME ShapeInv, KnowledgeInv, NEW e \in announced
                 PROVE  /\ tasks[e.task].session = e.session
                        /\ e.type = "created" => Exists(e.task)
                        /\ e.type = "completed" => tasks[e.task].status = "completed"
                        /\ e.type = "cancelled" =>
                              /\ tasks[e.task].status \in {"cancelled", "completed"}
                              /\ e.by # None => Exists(e.by) /\ tasks[e.by].session = e.session
      BY DEF EventsAreTrue
    <2>1. TrueOf(e, tasks)
      BY DEF KnowledgeInv
    <2>2. e.task \in Task /\ e.session \in Session
          /\ (e.type = "cancelled" => e.by \in Task \cup {None})
      BY DEF ShapeInv, ProcessOK, Event, CreatedEvent, CompletedEvent, CancelledEvent
    <2>3. \A t \in Task : tasks[t].session \in Session => Exists(t)
      BY TablesAreTyped, ConstantsAssumption DEF RowOK, Exists
    <2> QED
      BY <2>1, <2>2, <2>3 DEF TrueOf, Settled
  <1> QED
    BY <1>1, KnowledgeCorrect, PTL

(* A reply answered 200 has its task completed and announced.              *)
THEOREM AckedReplyCorrect == Spec => []AckedReplyIsAnnounced
  <1>1. KnowledgeInv => AckedReplyIsAnnounced
    BY DEF KnowledgeInv, Knows, AckedReplyIsAnnounced, At, CalledTask, Tells
  <1> QED
    BY <1>1, KnowledgeCorrect, PTL

(* A caller told "created" has its task stored and announced.              *)
THEOREM AckedCreateCorrect == Spec => []AckedCreateIsAnnounced
  <1>1. ShapeInv /\ KnowledgeInv => AckedCreateIsAnnounced
    <2> SUFFICES ASSUME ShapeInv, KnowledgeInv PROVE AckedCreateIsAnnounced
      OBVIOUS
    <2>1. \A t \in Task : tasks[t].session \in Session => Exists(t)
      BY TablesAreTyped, ConstantsAssumption DEF RowOK, Exists
    <2> QED
      BY <2>1 DEF KnowledgeInv, Knows, AckedCreateIsAnnounced, At, CalledTask, Tells, CreateCall
  <1> QED
    BY <1>1, KnowledgeCorrect, PTL

(* The answer AskUser polls is the answer that stays stored.               *)
THEOREM PolledAnswerCorrect == Spec => []PolledAnswerStands
  <1>1. KnowledgeInv => PolledAnswerStands
    BY DEF KnowledgeInv, Knows, PolledAnswerStands, At, CalledTask
  <1> QED
    BY <1>1, KnowledgeCorrect, PTL

(* A name a human gave a session survives new tasks of the session and     *)
(* restarts: only a rename replaces it, by the name of its call.           *)
THEOREM NamesChangeCorrect == Spec => NamesChangeByRename
  <1>1. ShapeInv /\ [Next]_vars =>
          [\A s \in Session :
             sessions[s] \notin {None, sessions'[s]} => RenamedTo(s, sessions'[s])]_vars
    BY SessionsStep
  <1> QED
    BY <1>1, ShapeCorrect, PTL DEF Spec, NamesChangeByRename
=============================================================================
