---------------------------- MODULE AskUserProofs ----------------------------
(* What TLAPS proves of AskUser, for any number of calls, any browser and  *)
(* any number of faults.  The calls use the daemon only through requests,  *)
(* so everything DaemonProofs establishes holds under them.                *)
EXTENDS AskUser, DaemonProofs

(* A call with a request under way.                                        *)
InFlight == {"registering", "polling"}

(* The request such a call has sent.                                       *)
Request(w) == IF AskAt(w, "registering") THEN Registration(w) ELSE ResultQuery(w)

(* A call in flight owns a handler, nobody else does, and that handler is  *)
(* working on the request the call sent.                                   *)
ConnectionsOK ==
    /\ \A w \in Waiter :
         /\ ask[w].slot # None <=> ask[w].pc \in InFlight
         /\ ask[w].pc \in InFlight =>
              ~ At(ask[w].slot, "idle") /\ req[ask[w].slot].call = Request(w)
    /\ \A v, w \in Waiter : ask[v].slot = ask[w].slot /\ ask[v].slot # None => v = w

(* A call has a reply exactly when it has returned, and faults are counted.*)
AskShape ==
    /\ ask \in [Waiter -> AskState]
    /\ \A w \in Waiter : (ask[w].pc = "returned") = (ask[w].reply # None)
    /\ faults \in 0 .. MaxFaults

(* A handler that accepted a registration has found or stored its task.    *)
RegisteredExist ==
    \A r \in Slot :
        req[r].call.op = "create" /\ Accepted(req[r].code) => Exists(req[r].call.task)

(* The inductive invariant.                                                *)
AskInv == AskShape /\ ConnectionsOK /\ RegisteredExist
            /\ PollsForStoredTask /\ ReturnedReplyIsTheAnswer

-----------------------------------------------------------------------------
(* An answered call takes its answer from the handler it owns.             *)
LEMMA OwnedSlotIsSlot ==
    ASSUME AskShape, ConnectionsOK, NEW w \in Waiter, ask[w].pc \in InFlight
    PROVE  ask[w].slot \in Slot
  BY DEF AskShape, ConnectionsOK, AskState

(* A step of calls, browser or daemon is a step of the daemon or leaves it *)
(* alone.                                                                  *)
LEMMA AskStepIsDaemonStep ==
    ASSUME AskShape, ConnectionsOK, [AskNext]_askVars
    PROVE  [Next]_vars
  <1>1. CASE UNCHANGED askVars
    BY <1>1 DEF askVars
  <1>2. ASSUME NEW w \in Waiter, CallAskUser(w) \/ CancelContext(w) PROVE [Next]_vars
    BY <1>2 DEF CallAskUser, CancelContext, OnlyAsk
  <1>3. ASSUME NEW w \in Waiter, WaiterStep(w) PROVE [Next]_vars
    <2>1. ASSUME NEW c \in Calls, NEW pc, Send(w, c, pc) PROVE [Next]_vars
      BY <2>1 DEF Send, Next
    <2>2. CASE Register(w) \/ SendPoll(w)
      BY <2>1, <2>2, WaiterAssumption DEF Register, SendPoll
    <2>3. CASE RegisterAnswered(w) \/ PollAnswered(w)
      <3>1. ask[w].slot \in Slot
        BY <2>3, OwnedSlotIsSlot DEF RegisterAnswered, PollAnswered, AskAt, InFlight
      <3>2. Receive(ask[w].slot)
        BY <2>3 DEF RegisterAnswered, PollAnswered
      <3> QED
        BY <3>1, <3>2 DEF Next
    <2> QED
      BY <1>3, <2>2, <2>3 DEF WaiterStep, NoticeContext, RegisterRefused, RetryRegistration,
         PollIntervalOver, PollRefused, DetachOnCancel, Detach, OnlyAsk
  <1>4. ASSUME NEW r \in Slot, Browse(r) \/ Handle(r) \/ Discard(r) PROVE [Next]_vars
    BY <1>4 DEF Browse, BrowserCalls, Handle, Discard, Next
  <1>5. CASE Boot
    BY <1>5 DEF Boot, Next, Process
  <1>6. CASE Fault
    BY <1>6 DEF Fault, Detach, Next, Process
  <1> QED
    BY <1>1, <1>2, <1>3, <1>4, <1>5, <1>6 DEF AskNext

(* A running handler keeps its request, and ends in "done".                *)
LEMMA HandlerKeepsCall ==
    ASSUME HandlersOK, NEW r \in Slot, Step(r) \/ StatementFails(r)
    PROVE  req'[r].call = req[r].call /\ req'[r].pc # "idle"
  <1>0. req \in [Slot -> Handler] /\ req[r] \in Handler
    BY DEF HandlersOK
  <1>1. CASE CreateStep(r)
    BY <1>0, <1>1 DEF Handler, CreateStep, CreateInvalid, CreateKnown, CreateUnknown, SessionFree,
       SessionOccupied, Supersede, SupersedeTooLate, EnsureSession, ReadSession,
       InsertRejected, Insert, TellSuperseded, TellCreated, Goto, Respond
  <1>2. CASE ReplyStep(r) \/ CancelStep(r)
    BY <1>0, <1>2 DEF Handler, ReplyStep, CancelStep, ReplyInvalid, Complete, CompleteTooLate,
       Recheck, LoadResult, TellCompleted, Cancel, CancelTooLate, TellCancelled, Goto, Respond
  <1>3. CASE FindMissing(r) \/ FindTask(r) \/ Batch(r) \/ BatchRejected(r) \/ RenameStep(r)
               \/ Poll(r) \/ StatementFails(r)
    BY <1>0, <1>3 DEF Handler, FindMissing, FindTask, Batch, BatchRejected, RenameStep,
       RenameRejected, Rename, Reread, Poll, StatementFails, Goto, Respond
  <1> QED
    BY <1>1, <1>2, <1>3 DEF Step

(* Only its own call and its own handler leave a connection.               *)
LEMMA OthersKeepConnections ==
    ASSUME AskShape, ConnectionsOK, NEW w \in Waiter,
           \A v \in Waiter \ {w} : ask'[v] = ask[v],
           \A v \in Waiter \ {w} : ask[v].pc \in InFlight =>
               /\ req'[ask[v].slot].pc # "idle"
               /\ req'[ask[v].slot].call = req[ask[v].slot].call,
           ask'[w].slot # None <=> ask'[w].pc \in InFlight,
           ask'[w].pc \in InFlight =>
               /\ req'[ask'[w].slot].pc # "idle"
               /\ req'[ask'[w].slot].call = Request(w)'
               /\ \A v \in Waiter \ {w} : ask[v].slot # ask'[w].slot
    PROVE  ConnectionsOK'
  <1>1. \A v \in Waiter \ {w} : Request(v)' = Request(v)
    BY DEF Request, AskAt, Registration, ResultQuery
  <1> QED
    BY <1>1 DEF ConnectionsOK, At

(* A step of a handler, the process or nobody keeps every connection.      *)
LEMMA DaemonKeepsConnections ==
    ASSUME AskShape, ConnectionsOK, ask' = ask,
           \A v \in Waiter : ask[v].pc \in InFlight =>
               /\ req'[ask[v].slot].pc # "idle"
               /\ req'[ask[v].slot].call = req[ask[v].slot].call
    PROVE  ConnectionsOK'
  BY DEF ConnectionsOK, At, Request, AskAt, Registration, ResultQuery

(* No step gives a handler to two calls, or takes it from its call.        *)
LEMMA ConnectionsStep ==
    ASSUME AskShape, ConnectionsOK, HandlersOK, [AskNext]_askVars
    PROVE  ConnectionsOK'
  <1>0. req \in [Slot -> Handler] /\ ask \in [Waiter -> AskState]
    BY DEF HandlersOK, AskShape
  <1>1. \A v \in Waiter : ask[v].pc \in InFlight => ask[v].slot \in Slot /\ req[ask[v].slot].pc # "idle"
    BY OwnedSlotIsSlot DEF ConnectionsOK, At
  <1>2. ASSUME NEW w \in Waiter, NEW pc \in AskPC \ InFlight, AskGoto(w, pc),
               \A v \in Waiter \ {w} : ask[v].pc \in InFlight => req'[ask[v].slot] = req[ask[v].slot]
        PROVE  ConnectionsOK'
    <2>1. ask'[w].pc = pc /\ ask'[w].slot = None
      BY <1>0, <1>2 DEF AskGoto, AskState
    <2>2. \A v \in Waiter \ {w} : ask'[v] = ask[v]
      BY <1>0, <1>2 DEF AskGoto
    <2> QED
      BY <1>1, <1>2, <2>1, <2>2, OthersKeepConnections
  <1>3. ASSUME NEW w \in Waiter, NEW c \in Calls, NEW pc \in InFlight, Send(w, c, pc),
               c = IF pc = "registering" THEN Registration(w) ELSE ResultQuery(w)
        PROVE  ConnectionsOK'
    <2>1. PICK r \in Slot : Accept(r, c) /\ ask' = [ask EXCEPT ![w].pc = pc, ![w].slot = r]
      BY <1>3 DEF Send
    <2>2. req'[r].pc = FirstPC(c.op) /\ req'[r].call = c
      BY <1>0, <2>1 DEF Accept, Idle
    <2>3. FirstPC(c.op) # "idle"
      BY <1>3 DEF FirstPC, Registration, ResultQuery, InFlight
    <2>4. \A x \in Slot \ {r} : req'[x] = req[x]
      BY <1>0, <2>1 DEF Accept
    <2>5. ask'[w].pc = pc /\ ask'[w].slot = r /\ \A v \in Waiter \ {w} : ask'[v] = ask[v]
      BY <1>0, <2>1 DEF AskState
    <2>6. \A v \in Waiter : ask[v].slot # r
      BY <1>0, <1>1, <2>1, WaiterAssumption DEF ConnectionsOK, Accept, At
    <2>7. Request(w)' = c
      BY <1>3, <2>5 DEF Request, AskAt, Registration, ResultQuery
    <2> QED
      BY <1>1, <1>3, <2>2, <2>3, <2>4, <2>5, <2>6, <2>7, WaiterAssumption, OthersKeepConnections
  <1>4. ASSUME NEW w \in Waiter, RegisterAnswered(w) \/ PollAnswered(w)
        PROVE  ConnectionsOK'
    <2>1. ask[w].pc \in InFlight /\ ask[w].slot \in Slot
      BY <1>1, <1>4 DEF RegisterAnswered, PollAnswered, AskAt, InFlight
    <2>2. \A x \in Slot \ {ask[w].slot} : req'[x] = req[x]
      BY <1>0, <1>4 DEF RegisterAnswered, PollAnswered, Receive
    <2>3. \A v \in Waiter \ {w} : ask[v].pc \in InFlight => req'[ask[v].slot] = req[ask[v].slot]
      BY <1>1, <2>1, <2>2 DEF ConnectionsOK
    <2>4. /\ ask'[w].slot = None
          /\ ask'[w].pc \notin InFlight
          /\ \A v \in Waiter \ {w} : ask'[v] = ask[v]
      <3>1. ASSUME NEW pc \in {"waiting", "backoff", "failed"}, AskGoto(w, pc)
            PROVE  /\ ask'[w].slot = None
                   /\ ask'[w].pc = pc
                   /\ \A v \in Waiter \ {w} : ask'[v] = ask[v]
        BY <1>0, <3>1 DEF AskGoto, AskState
      <3>2. CASE RegisterAnswered(w)
        BY <3>1, <3>2 DEF RegisterAnswered, InFlight
      <3>3. CASE PollAnswered(w) /\ req[ask[w].slot].code # "found"
        BY <3>1, <3>3 DEF PollAnswered, InFlight
      <3>4. CASE PollAnswered(w) /\ req[ask[w].slot].code = "found"
        BY <1>0, <3>4 DEF PollAnswered, AskState, InFlight
      <3> QED
        BY <1>4, <3>2, <3>3, <3>4
    <2> QED
      BY <1>1, <2>3, <2>4, OthersKeepConnections
  <1>5. ASSUME NEW w \in Waiter, WaiterStep(w) \/ CallAskUser(w) \/ Detach(w)
        PROVE  ConnectionsOK'
    <2>1. CASE Register(w)
      BY <1>3, <2>1, WaiterAssumption DEF Register, InFlight
    <2>2. CASE SendPoll(w)
      BY <1>3, <2>2, WaiterAssumption DEF SendPoll, InFlight
    <2>3. CASE NoticeContext(w) \/ RegisterRefused(w) \/ RetryRegistration(w)
                 \/ PollIntervalOver(w) \/ PollRefused(w) \/ CallAskUser(w)
      BY <1>2, <2>3 DEF NoticeContext, RegisterRefused, RetryRegistration, PollIntervalOver,
         PollRefused, CallAskUser, OnlyAsk, vars, AskPC, InFlight
    <2>4. CASE Detach(w)
      BY <1>2, <2>4 DEF Detach, vars, AskPC, InFlight
    <2> QED
      BY <1>4, <1>5, <2>1, <2>2, <2>3, <2>4 DEF WaiterStep, DetachOnCancel
  <1>6. ASSUME NEW w \in Waiter, CancelContext(w) PROVE ConnectionsOK'
    <2>1. /\ \A v \in Waiter : ask'[v].pc = ask[v].pc /\ ask'[v].slot = ask[v].slot
          /\ req' = req
      BY <1>0, <1>6 DEF CancelContext, OnlyAsk, vars, AskState
    <2> QED
      BY <2>1 DEF ConnectionsOK, At, Request, AskAt, Registration, ResultQuery
  <1>7. ASSUME NEW r \in Slot, Browse(r) PROVE ConnectionsOK'
    <2>1. /\ At(r, "idle") /\ ask' = ask
          /\ \A x \in Slot \ {r} : req'[x] = req[x]
      BY <1>0, <1>7 DEF Browse, Accept
    <2> QED
      BY <1>1, <2>1, DaemonKeepsConnections DEF At
  <1>8. ASSUME NEW r \in Slot, Step(r) \/ StatementFails(r), ask' = ask PROVE ConnectionsOK'
    <2>1. \A x \in Slot \ {r} : req'[x] = req[x]
      BY <1>0, <1>8, OthersKeepTheirRecord
    <2> QED
      BY <1>1, <1>8, <2>1, HandlerKeepsCall, DaemonKeepsConnections
  <1>9. ASSUME NEW r \in Slot, Discard(r) PROVE ConnectionsOK'
    <2>1. /\ ~ Owned(r) /\ ask' = ask
          /\ \A x \in Slot \ {r} : req'[x] = req[x]
      BY <1>0, <1>9 DEF Discard, Receive
    <2> QED
      BY <1>1, <2>1, DaemonKeepsConnections DEF Owned
  <1>10. CASE Process /\ ask' = ask
    <2>1. \A x \in Slot : req'[x].call = req[x].call /\ (req[x].pc # "idle" => req'[x].pc # "idle")
      <3>1. CASE Exit
        <4> SUFFICES ASSUME NEW x \in Slot
                     PROVE  /\ req'[x].call = req[x].call
                            /\ req[x].pc # "idle" => req'[x].pc # "idle"
          OBVIOUS
        <4>1. req[x] \in Handler
          BY <1>0
        <4>2. req'[x] = IF req[x].pc \in {"idle", "done"} THEN req[x]
                        ELSE [req[x] EXCEPT !.pc = "done", !.code = "lost"]
          BY <3>1 DEF Exit
        <4> QED
          BY <4>1, <4>2 DEF Handler
      <3>2. CASE ~ Exit
        BY <1>10, <3>2 DEF Process, Start, BackfillSession, Listen, Stop
      <3> QED
        BY <3>1, <3>2
    <2> QED
      BY <1>1, <1>10, <2>1, DaemonKeepsConnections
  <1>11. CASE UNCHANGED askVars
    BY <1>1, <1>11, DaemonKeepsConnections DEF askVars, vars
  <1>12. CASE Boot \/ Fault
    BY <1>5, <1>8, <1>10, <1>12 DEF Boot, Fault, Process
  <1> QED
    BY <1>5, <1>6, <1>7, <1>8, <1>9, <1>11, <1>12 DEF AskNext, Handle

-----------------------------------------------------------------------------
(* No statement deletes a task.                                            *)
LEMMA TasksStay ==
    ASSUME ShapeInv, [Next]_vars, NEW t \in Task, Exists(t)
    PROVE  Exists(t)'
  <1>1. tasks \in [Task -> Row] /\ tasks' \in [Task -> Row] /\ RowOK(tasks[t]) /\ RowOK(tasks'[t])
    BY ShapeStep, TablesAreTyped DEF ShapeInv, TablesOK
  <1>2. tasks[t].session # None => tasks'[t].session = tasks[t].session
    BY StepIsTableStep, RowsPersist
  <1> QED
    BY <1>1, <1>2 DEF Exists, RowOK

(* Which steps of a handler accept a registration.                         *)
LEMMA AcceptingStep ==
    ASSUME HandlersOK, NEW r \in Slot, Step(r) \/ StatementFails(r),
           req'[r].code # req[r].code, Accepted(req'[r].code)
    PROVE  CreateKnown(r) \/ TellCreated(r)
  <1>0. req \in [Slot -> Handler] /\ req[r] \in Handler
    BY DEF HandlersOK
  <1>1. CASE CreateStep(r)
    BY <1>0, <1>1 DEF Handler, CreateStep, CreateInvalid, CreateUnknown, SessionFree,
       SessionOccupied, Supersede, SupersedeTooLate, EnsureSession, ReadSession,
       InsertRejected, Insert, TellSuperseded, Goto, Respond, Accepted
  <1>2. CASE ReplyStep(r) \/ CancelStep(r)
    BY <1>0, <1>2 DEF Handler, ReplyStep, CancelStep, ReplyInvalid, Complete, CompleteTooLate,
       Recheck, LoadResult, TellCompleted, Cancel, CancelTooLate, TellCancelled, Goto, Respond,
       Accepted
  <1>3. CASE FindMissing(r) \/ FindTask(r) \/ Batch(r) \/ BatchRejected(r) \/ RenameStep(r)
               \/ Poll(r) \/ StatementFails(r)
    BY <1>0, <1>3 DEF Handler, FindMissing, FindTask, Batch, BatchRejected, RenameStep,
       RenameRejected, Rename, Reread, Poll, StatementFails, FailureCode, Goto, Respond,
       Accepted
  <1> QED
    BY <1>1, <1>2, <1>3 DEF Step

(* The operation of a request names its kind.                              *)
LEMMA CreateByName ==
    ASSUME NEW c \in Call \cup {NoCall}, c.op = "create"
    PROVE  c \in CreateCall
  <1>1. NoCall.op = "none"
    BY DEF NoCall
  <1>2. c \notin ReplyCall \cup CancelCall \cup ResultCall \cup BatchCall \cup RenameCall
    BY DEF ReplyCall, CancelCall, ResultCall, BatchCall, RenameCall
  <1> QED
    BY <1>1, <1>2 DEF Call

(* An accepted registration is stored: it was found, or just inserted.     *)
LEMMA RegisteredStep ==
    ASSUME ShapeInv, KnowledgeInv, RegisteredExist, [Next]_vars
    PROVE  RegisteredExist'
  <1> SUFFICES ASSUME NEW x \in Slot, req'[x].call.op = "create", Accepted(req'[x].code)
               PROVE  tasks'[req'[x].call.task].status # "absent"
    BY DEF RegisteredExist, Exists
  <1> DEFINE Stay == \A t \in Task : Exists(t) => tasks'[t].status # "absent"
  <1>a. Stay
    BY TasksStay DEF Exists
  <1>0. /\ HandlersOK /\ HandlersOK' /\ ShapeInv' /\ KnowledgeInv'
        /\ req[x] \in Handler /\ req'[x] \in Handler
    <2>1. ShapeInv' /\ KnowledgeInv'
      BY ShapeStep, KnowledgeStep
    <2>2. HandlersOK /\ HandlersOK'
      BY <2>1 DEF ShapeInv
    <2>3. x \in Slot
      OBVIOUS
    <2> QED
      BY <2>1, <2>2, <2>3 DEF HandlersOK
  <1>1. req'[x].call \in CreateCall
    <2>1. req'[x].call \in Call \cup {NoCall}
      BY <1>0 DEF Handler
    <2> QED
      BY <2>1, CreateByName
  <1>2. CASE req'[x].call = req[x].call /\ req'[x].code = req[x].code
    <2>1. Exists(req[x].call.task) /\ req[x].call.task \in Task
      BY <1>1, <1>2 DEF RegisteredExist, CreateCall
    <2> QED
      BY <1>a, <1>2, <2>1
  <1>3. CASE req'[x].call = req[x].call /\ CreateKnown(x)
    BY <1>a, <1>1, <1>3 DEF CreateKnown, CreateCall
  <1>4. CASE TellCreated(x)
    <2>1. req'[x].pc = "done" /\ req'[x].code = "created"
      BY <1>0, <1>4 DEF TellCreated, Respond, HandlersOK, Handler
    <2>2. tasks'[req'[x].call.task].session \in Session
      BY <1>0, <2>1 DEF KnowledgeInv, Knows, CalledTask
    <2> QED
      BY <1>0, <1>1, <2>2, ConstantsAssumption DEF ShapeInv, TablesOK, RowOK, CreateCall
  <1>5. CASE Process
    <2>1. CASE Exit
      <3>1. req'[x] = IF req[x].pc \in {"idle", "done"} THEN req[x]
                      ELSE [req[x] EXCEPT !.pc = "done", !.code = "lost"]
        BY <2>1 DEF Exit
      <3>2. req'[x] = req[x]
        BY <1>0, <3>1 DEF Handler, Accepted
      <3> QED
        BY <1>2, <3>2
    <2>2. CASE ~ Exit
      BY <1>2, <1>5, <2>2 DEF Process, Start, BackfillSession, Listen, Stop
    <2> QED
      BY <2>1, <2>2
  <1>6. ASSUME NEW r \in Slot, (\E c \in Calls : Accept(r, c)) \/ Receive(r)
        PROVE  tasks'[req'[x].call.task].status # "absent"
    <2>1. CASE r # x
      BY <1>0, <1>2, <1>6, <2>1, OthersKeepTheirRecord DEF HandlersOK
    <2>2. CASE r = x
      <3>1. req'[x].code = "none"
        <4>1. ASSUME NEW c \in Calls, Accept(x, c) PROVE req'[x].code = "none"
          BY <1>0, <4>1 DEF Accept, Idle, HandlersOK
        <4>2. CASE Receive(x)
          BY <1>0, <4>2 DEF Receive, Idle, HandlersOK
        <4> QED
          BY <1>6, <2>2, <4>1, <4>2
      <3> QED
        BY <3>1 DEF Accepted
    <2> QED
      BY <2>1, <2>2
  <1>7. ASSUME NEW r \in Slot, Step(r) \/ StatementFails(r)
        PROVE  tasks'[req'[x].call.task].status # "absent"
    <2>1. CASE r # x
      BY <1>0, <1>2, <1>7, <2>1, OthersKeepTheirRecord DEF HandlersOK
    <2>2. CASE r = x
      BY <1>0, <1>2, <1>3, <1>4, <1>7, <2>2, HandlerKeepsCall, AcceptingStep
    <2> QED
      BY <2>1, <2>2
  <1>8. CASE UNCHANGED vars
    BY <1>2, <1>8 DEF vars
  <1> QED
    BY <1>5, <1>6, <1>7, <1>8 DEF Next

(* A call polls only once its registration was accepted.                   *)
LEMMA PollsStep ==
    ASSUME AskShape, ConnectionsOK, RegisteredExist, PollsForStoredTask, ShapeInv,
           [AskNext]_askVars
    PROVE  PollsForStoredTask'
  <1> DEFINE Polling == {"waiting", "poll", "polling"}
  <1> SUFFICES ASSUME NEW v \in Waiter, ask'[v].pc \in Polling PROVE Exists(TaskOf[v])'
    BY DEF PollsForStoredTask
  <1>0. ask \in [Waiter -> AskState] /\ TaskOf[v] \in Task /\ [Next]_vars
    BY AskStepIsDaemonStep, WaiterAssumption DEF AskShape
  <1>1. CASE ask[v].pc \in Polling
    BY <1>0, <1>1, TasksStay DEF PollsForStoredTask
  <1>2. CASE ask[v].pc \notin Polling
    <2>1. ASSUME NEW w \in Waiter, NEW pc, AskGoto(w, pc) PROVE v = w /\ pc \in Polling
      BY <1>0, <1>2, <2>1 DEF AskGoto, AskState
    <2>2. RegisterAnswered(v)
      <3>1. \E w \in Waiter : CallAskUser(w) \/ CancelContext(w) \/ WaiterStep(w) \/ Detach(w)
        BY <1>2 DEF AskNext, askVars, Browse, Handle, Discard, Boot, Fault
      <3>2. PICK w \in Waiter : CallAskUser(w) \/ CancelContext(w) \/ WaiterStep(w) \/ Detach(w)
        BY <3>1
      <3>3. v = w /\ ~ CancelContext(w)
        BY <1>0, <1>2, <3>2 DEF CallAskUser, CancelContext, WaiterStep, NoticeContext, Register,
           RegisterRefused, RegisterAnswered, RetryRegistration, PollIntervalOver, SendPoll,
           PollRefused, PollAnswered, DetachOnCancel, Detach, Send, AskGoto, AskState
      <3>4. ~ CallAskUser(v) /\ ~ NoticeContext(v) /\ ~ RegisterRefused(v)
              /\ ~ RetryRegistration(v)
        BY <1>2, <2>1 DEF CallAskUser, NoticeContext, RegisterRefused, RetryRegistration
      <3>5. ~ PollIntervalOver(v) /\ ~ SendPoll(v) /\ ~ PollRefused(v) /\ ~ PollAnswered(v)
        BY <1>2 DEF PollIntervalOver, SendPoll, PollRefused, PollAnswered, AskAt
      <3>6. ~ Register(v) /\ ~ Detach(v)
        BY <1>0, <1>2, <2>1 DEF Register, Send, Detach, AskState, AskAt
      <3> QED
        BY <3>2, <3>3, <3>4, <3>5, <3>6 DEF WaiterStep, DetachOnCancel
    <2>3. Accepted(req[ask[v].slot].code) /\ req[ask[v].slot].call = Registration(v)
      BY <1>0, <2>1, <2>2 DEF RegisterAnswered, ConnectionsOK, InFlight, AskAt, Request
    <2>4. ask[v].slot \in Slot
      BY <2>2, OwnedSlotIsSlot DEF RegisterAnswered, AskAt, InFlight
    <2> QED
      BY <1>0, <2>3, <2>4, TasksStay DEF RegisteredExist, Registration
  <1> QED
    BY <1>1, <1>2

(* A call returns the stored answer, which no later step changes.          *)
LEMMA ReturnedStep ==
    ASSUME AskShape, ConnectionsOK, ReturnedReplyIsTheAnswer, ShapeInv, KnowledgeInv,
           [AskNext]_askVars
    PROVE  AskShape' /\ ReturnedReplyIsTheAnswer'
  <1> DEFINE Answered(v) == /\ tasks'[TaskOf[v]].status = "completed"
                            /\ tasks'[TaskOf[v]].input = ask'[v].reply
             Shaped(v) == (ask'[v].pc = "returned") = (ask'[v].reply # None)
  <1>0. ask \in [Waiter -> AskState] /\ faults \in 0 .. MaxFaults /\ MaxFaults \in Nat
    BY WaiterAssumption DEF AskShape
  <1>1. \A v \in Waiter : ask[v].pc = "returned" => /\ tasks'[TaskOf[v]].status = "completed"
                                                   /\ tasks'[TaskOf[v]].input = ask[v].reply
    <2>1. \A t \in Task : tasks[t].status = "completed" =>
                             tasks'[t].status = "completed" /\ tasks'[t].input = tasks[t].input
      BY AskStepIsDaemonStep, StepIsTableStep, RowsPersist
    <2> QED
      BY <2>1, WaiterAssumption DEF ReturnedReplyIsTheAnswer, AskAt
  <1>2. faults' \in 0 .. MaxFaults
    <2>1. CASE Fault
      BY <1>0, <2>1 DEF Fault
    <2>2. ASSUME NEW w \in Waiter, WaiterStep(w) PROVE faults' = faults
      BY <2>2 DEF WaiterStep, OnlyAsk, NoticeContext, Register, RegisterRefused,
         RegisterAnswered, RetryRegistration, PollIntervalOver, SendPoll, PollRefused,
         PollAnswered, DetachOnCancel, Send
    <2>3. CASE faults' = faults
      BY <1>0, <2>3
    <2> QED
      BY <2>1, <2>2, <2>3 DEF AskNext, askVars, CallAskUser, CancelContext, OnlyAsk, Browse,
         Handle, Discard, Boot
  <1>3. CASE ask' = ask
    BY <1>1, <1>2, <1>3 DEF AskShape, ReturnedReplyIsTheAnswer, AskAt
  <1>4. ASSUME NEW w \in Waiter, NEW a \in AskState, ask' = [ask EXCEPT ![w] = a],
               (a.pc = "returned") = (a.reply # None),
               a.pc = "returned" => /\ tasks'[TaskOf[w]].status = "completed"
                                    /\ tasks'[TaskOf[w]].input = a.reply
        PROVE  AskShape' /\ ReturnedReplyIsTheAnswer'
    <2>1. ask' \in [Waiter -> AskState]
      BY <1>0, <1>4
    <2>2. ASSUME NEW v \in Waiter PROVE Shaped(v) /\ (ask'[v].pc = "returned" => Answered(v))
      BY <1>0, <1>1, <1>4 DEF AskShape
    <2> QED
      BY <1>2, <2>1, <2>2 DEF AskShape, ReturnedReplyIsTheAnswer, AskAt
  <1>5. ASSUME NEW w \in Waiter, NEW pc \in AskPC \ {"returned"}, ask[w].pc # "returned",
               NEW slot \in Slot \cup {None}, NEW cancelled \in BOOLEAN,
               ask' = [ask EXCEPT ![w] = [@ EXCEPT !.pc = pc, !.slot = slot,
                                                   !.cancelled = cancelled]]
        PROVE  AskShape' /\ ReturnedReplyIsTheAnswer'
    <2> DEFINE a == [ask[w] EXCEPT !.pc = pc, !.slot = slot, !.cancelled = cancelled]
    <2>1. a \in AskState /\ a.pc = pc /\ a.reply = ask[w].reply
      BY <1>0, <1>5 DEF AskState
    <2>2. ask[w].reply = None
      BY <1>5 DEF AskShape
    <2> QED
      BY <1>4, <1>5, <2>1, <2>2
  <1>6. ASSUME NEW w \in Waiter, NEW pc \in AskPC \ {"returned"}, ask[w].pc # "returned",
               AskGoto(w, pc)
        PROVE  AskShape' /\ ReturnedReplyIsTheAnswer'
    <2>1. ask' = [ask EXCEPT ![w] = [@ EXCEPT !.pc = pc, !.slot = None,
                                              !.cancelled = ask[w].cancelled]]
      BY <1>0, <1>6 DEF AskGoto, AskState
    <2>2. ask[w].cancelled \in BOOLEAN
      BY <1>0 DEF AskState
    <2> QED
      BY <1>5, <1>6, <2>1, <2>2
  <1>7. ASSUME NEW w \in Waiter, PollAnswered(w), req[ask[w].slot].code = "found"
        PROVE  AskShape' /\ ReturnedReplyIsTheAnswer'
    <2> DEFINE r == ask[w].slot
               a == [ask[w] EXCEPT !.pc = "returned", !.slot = None, !.reply = req[r].input]
    <2>1. /\ r \in Slot /\ req[r].pc = "done"
          /\ req[r].call = ResultQuery(w)
      BY <1>7, OwnedSlotIsSlot DEF PollAnswered, AskAt, InFlight, ConnectionsOK, Request, At
    <2>2. /\ tasks[TaskOf[w]].status = "completed"
          /\ tasks[TaskOf[w]].input = req[r].input
      BY <1>7, <2>1 DEF KnowledgeInv, Knows, CalledTask, ResultQuery
    <2>3. req[r].input \in Input /\ req[r].input # None
      BY <2>2, TablesAreTyped, WaiterAssumption, ConstantsAssumption DEF RowOK
    <2>4. tasks' = tasks
      BY <1>7 DEF PollAnswered, Receive, OnlyReq
    <2>5. a \in AskState /\ a.pc = "returned" /\ a.reply = req[r].input
      BY <1>0, <2>3 DEF AskState, AskPC
    <2>6. ask' = [ask EXCEPT ![w] = a]
      BY <1>7 DEF PollAnswered
    <2> QED
      BY <1>4, <2>2, <2>3, <2>4, <2>5, <2>6
  <1>8. ASSUME NEW w \in Waiter, CancelContext(w)
        PROVE  AskShape' /\ ReturnedReplyIsTheAnswer'
    <2>1. ask' = [ask EXCEPT ![w] = [@ EXCEPT !.pc = ask[w].pc, !.slot = ask[w].slot,
                                              !.cancelled = TRUE]]
      BY <1>0, <1>8 DEF CancelContext, AskState
    <2>2. ask[w].pc \in AskPC \ {"returned"} /\ ask[w].slot \in Slot \cup {None}
      BY <1>0, <1>8 DEF CancelContext, AskState, Ended
    <2> QED
      BY <1>5, <2>1, <2>2
  <1>9. ASSUME NEW w \in Waiter, NEW c, NEW pc \in InFlight, Send(w, c, pc),
               ask[w].pc # "returned"
        PROVE  AskShape' /\ ReturnedReplyIsTheAnswer'
    <2>1. PICK r \in Slot : ask' = [ask EXCEPT ![w].pc = pc, ![w].slot = r]
      BY <1>9 DEF Send
    <2>2. ask' = [ask EXCEPT ![w] = [@ EXCEPT !.pc = pc, !.slot = r,
                                              !.cancelled = ask[w].cancelled]]
      BY <1>0, <2>1 DEF AskState
    <2>3. ask[w].cancelled \in BOOLEAN /\ pc \in AskPC \ {"returned"}
      BY <1>0, <1>9 DEF AskState, AskPC, InFlight
    <2> QED
      BY <1>5, <1>9, <2>2, <2>3
  <1>10. ASSUME NEW w \in Waiter, WaiterStep(w) \/ CallAskUser(w) \/ Detach(w)
         PROVE  AskShape' /\ ReturnedReplyIsTheAnswer'
    <2>1. CASE Register(w) \/ SendPoll(w)
      BY <1>9, <2>1 DEF Register, SendPoll, AskAt, InFlight
    <2>2. CASE RegisterAnswered(w)
      BY <1>6, <2>2 DEF RegisterAnswered, AskAt, AskPC
    <2>3. CASE PollAnswered(w) /\ req[ask[w].slot].code # "found"
      BY <1>6, <2>3 DEF PollAnswered, AskAt, AskPC
    <2>4. CASE NoticeContext(w) \/ RegisterRefused(w) \/ RetryRegistration(w)
                 \/ PollIntervalOver(w) \/ PollRefused(w) \/ CallAskUser(w)
      BY <1>6, <2>4 DEF NoticeContext, RegisterRefused, RetryRegistration, PollIntervalOver,
         PollRefused, CallAskUser, AskAt, AskPC
    <2>5. CASE Detach(w)
      BY <1>6, <2>5 DEF Detach, AskPC
    <2> QED
      BY <1>7, <1>10, <2>1, <2>2, <2>3, <2>4, <2>5 DEF WaiterStep, DetachOnCancel
  <1> QED
    BY <1>3, <1>8, <1>10 DEF AskNext, askVars, Browse, Handle, Discard, Boot, Fault

-----------------------------------------------------------------------------
(* Daemon and calls together: what both sides rely on is inductive.        *)
LEMMA AskInvCorrect == AskSpec => [](AskInv /\ ShapeInv /\ KnowledgeInv)
  <1>1. AskInit => AskInv /\ ShapeInv /\ KnowledgeInv
    <2> SUFFICES ASSUME AskInit PROVE AskInv /\ ShapeInv /\ KnowledgeInv
      OBVIOUS
    <2>1. Init /\ ShapeInv /\ KnowledgeInv
      BY ShapeInit DEF AskInit, Init, Idle, KnowledgeInv, Knows, ReplyPC, CancelPC
    <2>2. AskShape
      BY WaiterAssumption DEF AskInit, AskShape, AskState, AskPC
    <2>3. ConnectionsOK /\ PollsForStoredTask /\ ReturnedReplyIsTheAnswer
      BY DEF AskInit, ConnectionsOK, InFlight, PollsForStoredTask, ReturnedReplyIsTheAnswer, AskAt
    <2>4. RegisteredExist
      BY <2>1 DEF Init, Idle, RegisteredExist, Accepted
    <2> QED
      BY <2>1, <2>2, <2>3, <2>4 DEF AskInv
  <1>2. AskInv /\ ShapeInv /\ KnowledgeInv /\ [AskNext]_askVars
          => (AskInv /\ ShapeInv /\ KnowledgeInv)'
    <2> SUFFICES ASSUME AskInv, ShapeInv, KnowledgeInv, [AskNext]_askVars
                 PROVE  AskInv' /\ ShapeInv' /\ KnowledgeInv'
      OBVIOUS
    <2>1. [Next]_vars
      BY AskStepIsDaemonStep DEF AskInv
    <2>2. ShapeInv' /\ KnowledgeInv'
      BY <2>1, ShapeStep, KnowledgeStep
    <2>3. ConnectionsOK'
      BY ConnectionsStep DEF AskInv, ShapeInv
    <2>4. RegisteredExist'
      BY <2>1, RegisteredStep DEF AskInv
    <2>5. PollsForStoredTask'
      BY PollsStep DEF AskInv
    <2>6. AskShape' /\ ReturnedReplyIsTheAnswer'
      BY ReturnedStep DEF AskInv
    <2> QED
      BY <2>2, <2>3, <2>4, <2>5, <2>6 DEF AskInv
  <1> QED
    BY <1>1, <1>2, PTL DEF AskSpec

(* Whatever the calls, the browser and the faults do, the daemon runs as   *)
(* Daemon says: what is proved of Spec holds under every AskSpec.          *)
THEOREM DaemonServesCalls == AskSpec => DaemonRuns
  <1>1. AskInit => Init
    BY DEF AskInit
  <1>2. AskInv /\ [AskNext]_askVars => [Next]_vars
    BY AskStepIsDaemonStep DEF AskInv
  <1> QED
    BY <1>1, <1>2, AskInvCorrect, PTL DEF AskSpec, DaemonRuns, Spec

(* A call has a reply exactly when it returned, and every call, handler    *)
(* and row keeps its shape.                                                *)
THEOREM AskTypeCorrect == AskSpec => []AskTypeOK
  <1>1. AskInv /\ ShapeInv => AskTypeOK
    BY ShapeImpliesType DEF AskInv, AskShape, AskTypeOK
  <1> QED
    BY <1>1, AskInvCorrect, PTL

(* No lost connection, restart or racing call makes the bridge wait for a  *)
(* task the daemon does not have.                                          *)
THEOREM PollsForStoredTaskCorrect == AskSpec => []PollsForStoredTask
  <1>1. AskInv => PollsForStoredTask
    BY DEF AskInv
  <1> QED
    BY <1>1, AskInvCorrect, PTL

(* AskUser returns the answer the task has and keeps.                      *)
THEOREM ReturnedReplyCorrect == AskSpec => []ReturnedReplyIsTheAnswer
  <1>1. AskInv => ReturnedReplyIsTheAnswer
    BY DEF AskInv
  <1> QED
    BY <1>1, AskInvCorrect, PTL
=============================================================================
