------------------------------ MODULE AskUser ------------------------------
(***************************************************************************)
(* AskUser calls of MCP clients against the daemon.  Each call runs        *)
(* Waiter.WaitForReply (internal/mcpbridge/polling.go) in a bridge process *)
(* of its own: it registers its task until the daemon accepts it, then     *)
(* polls for the answer.  A browser answers and cancels at the same time.  *)
(*                                                                         *)
(* Requests travel over HTTP: the daemon may be down, a connection may     *)
(* break while the handler runs on, the process may die between two        *)
(* statements.  The number of such faults is bounded by MaxFaults.         *)
(***************************************************************************)
EXTENDS Daemon

CONSTANTS
    Waiter,     \* AskUser calls
    TaskOf,     \* the task id each call drew, a fresh uuid
    SessionOf,  \* the MCP session of the call
    MaxFaults

Registration(w) == [op |-> "create", task |-> TaskOf[w], session |-> SessionOf[w], valid |-> TRUE]
ResultQuery(w)  == [op |-> "result", task |-> TaskOf[w]]

ASSUME WaiterAssumption ==
    /\ TaskOf \in [Waiter -> Task]
    /\ SessionOf \in [Waiter -> Session]
    /\ \A v, w \in Waiter : TaskOf[v] = TaskOf[w] => v = w
    /\ \A w \in Waiter : Registration(w) \in Calls /\ ResultQuery(w) \in Calls
    /\ None \notin Slot
    /\ MaxFaults \in Nat

VARIABLES
    ask,    \* where each call is in WaitForReply
    faults  \* faults so far

askVars == <<vars, ask, faults>>

(* idle: not called yet.  register, registering, backoff: the first loop,  *)
(* before, during and after a request.  waiting, poll, polling: the second *)
(* loop.  returned, failed, exited: the reply, an error, the context's end.*)
AskPC == {"idle", "register", "registering", "backoff", "waiting", "poll", "polling",
          "returned", "failed", "exited"}
Ended == {"returned", "failed", "exited"}

AskState == [pc : AskPC, slot : Slot \cup {None}, cancelled : BOOLEAN,
             reply : Input \cup {None}]

AskAt(w, pc) == ask[w].pc = pc
AskGoto(w, pc) == ask' = [ask EXCEPT ![w].pc = pc, ![w].slot = None]
OnlyAsk == UNCHANGED <<vars, faults>>

Owned(r) == \E w \in Waiter : ask[w].slot = r

-----------------------------------------------------------------------------
CallAskUser(w) ==
    /\ AskAt(w, "idle")
    /\ AskGoto(w, "register")
    /\ OnlyAsk

(* The MCP client cancels the call, or stdio closes.                       *)
CancelContext(w) ==
    /\ ask[w].pc \notin Ended \cup {"idle"}
    /\ ~ ask[w].cancelled
    /\ ask' = [ask EXCEPT ![w].cancelled = TRUE]
    /\ OnlyAsk

(* Mutant: the second loop ignores what its sleep returns.                 *)
NoticeWhileRegistering(w) ==
    /\ ask[w].pc \in {"register", "backoff"}
    /\ ask[w].cancelled
    /\ AskGoto(w, "exited")
    /\ OnlyAsk

(* ctx.Err() at the top of the first loop, ctx.Done() in either sleep.     *)
NoticeContext(w) ==
    /\ ask[w].pc \in {"register", "backoff", "waiting"}
    /\ ask[w].cancelled
    /\ AskGoto(w, "exited")
    /\ OnlyAsk

(* client.Do: connection accepted, a handler goroutine starts.             *)
Send(w, c, pc) ==
    \E r \in Slot :
        /\ Accept(r, c)
        /\ ask' = [ask EXCEPT ![w].pc = pc, ![w].slot = r]
        /\ UNCHANGED faults

Register(w) ==
    /\ AskAt(w, "register") /\ ~ ask[w].cancelled
    /\ Send(w, Registration(w), "registering")

(* Connection refused: not an HTTPStatusError, hence retried.              *)
RegisterRefused(w) ==
    /\ AskAt(w, "register") /\ ~ ask[w].cancelled
    /\ daemon # "up"
    /\ AskGoto(w, "backoff")
    /\ OnlyAsk

(* Mutant: whatever the daemon answered, the task is taken as registered.  *)
AnyAnswerRegisters(code) == TRUE

(* RegisterTask succeeds with a status from 200 to 299.                    *)
Accepted(code) == code \in {"created", "exists", "completed"}

(* isRetryableRegistrationError: no answer at all, or one of the server's  *)
(* own failures; a 400 is final.                                           *)
Retryable(code) == code \in {"lost", "error"}

RegisterAnswered(w) ==
    LET r == ask[w].slot IN
    /\ AskAt(w, "registering")
    /\ At(r, "done")
    /\ \/ Accepted(req[r].code) /\ AskGoto(w, "waiting")
       \/ ~ Accepted(req[r].code) /\ Retryable(req[r].code) /\ AskGoto(w, "backoff")
       \/ ~ Accepted(req[r].code) /\ ~ Retryable(req[r].code) /\ AskGoto(w, "failed")
    /\ Receive(r)
    /\ UNCHANGED faults

(* A timer that fires as the context ends fires before it: a sleep begun   *)
(* with the context over returns its error.                                *)
RetryRegistration(w) ==
    /\ AskAt(w, "backoff") /\ ~ ask[w].cancelled
    /\ AskGoto(w, "register")
    /\ OnlyAsk

PollIntervalOver(w) ==
    /\ AskAt(w, "waiting") /\ ~ ask[w].cancelled
    /\ AskGoto(w, "poll")
    /\ OnlyAsk

SendPoll(w) ==
    /\ AskAt(w, "poll") /\ ~ ask[w].cancelled
    /\ Send(w, ResultQuery(w), "polling")

(* Any error of a poll is ignored: the daemon is down, or the context over.*)
PollRefused(w) ==
    /\ AskAt(w, "poll")
    /\ daemon # "up" \/ ask[w].cancelled
    /\ AskGoto(w, "waiting")
    /\ OnlyAsk

(* Mutant: the status word of the answer is not looked at.                 *)
ReturnAnyAnswer(w) ==
    LET r == ask[w].slot IN
    /\ AskAt(w, "polling")
    /\ At(r, "done")
    /\ IF req[r].code \in {"found", "pending"}
         THEN ask' = [ask EXCEPT ![w] = [@ EXCEPT !.pc = "returned", !.slot = None,
                                                  !.reply = req[r].input]]
         ELSE AskGoto(w, "waiting")
    /\ Receive(r)
    /\ UNCHANGED faults

PollAnswered(w) ==
    LET r == ask[w].slot IN
    /\ AskAt(w, "polling")
    /\ At(r, "done")
    /\ IF req[r].code = "found"
         THEN ask' = [ask EXCEPT ![w] = [@ EXCEPT !.pc = "returned", !.slot = None,
                                                  !.reply = req[r].input]]
         ELSE AskGoto(w, "waiting")
    /\ Receive(r)
    /\ UNCHANGED faults

(* Do returns an error while the handler is still running, because the     *)
(* context ended or the connection broke; the handler runs on by itself.   *)
Detach(w) ==
    /\ ask[w].pc \in {"registering", "polling"}
    /\ AskGoto(w, IF AskAt(w, "registering") THEN "backoff" ELSE "waiting")
    /\ UNCHANGED vars

DetachOnCancel(w) ==
    /\ ask[w].cancelled
    /\ Detach(w)
    /\ UNCHANGED faults

WaiterStep(w) ==
    \/ NoticeContext(w)
    \/ Register(w) \/ RegisterRefused(w) \/ RegisterAnswered(w) \/ RetryRegistration(w)
    \/ PollIntervalOver(w) \/ SendPoll(w) \/ PollRefused(w) \/ PollAnswered(w)
    \/ DetachOnCancel(w)

-----------------------------------------------------------------------------
(* What the browser sends; registrations and polls come from the waiters.  *)
BrowserCalls == {c \in Calls : c.op \notin {"create", "result"}}

(* One slot is left to the waiters: the daemon accepts any number of       *)
(* connections, Slot only bounds the model.                                *)
Browse(r) ==
    /\ \E q \in Slot \ {r} : At(q, "idle")
    /\ \E c \in BrowserCalls : Accept(r, c)
    /\ UNCHANGED <<ask, faults>>

Handle(r) ==
    /\ Step(r)
    /\ UNCHANGED <<ask, faults>>

(* The answer to a browser, or to a waiter that is no longer there.        *)
Discard(r) ==
    /\ ~ Owned(r)
    /\ Receive(r)
    /\ UNCHANGED <<ask, faults>>

(* The daemon comes up; one that was told to stop goes down.               *)
Boot ==
    /\ \/ Start \/ Listen
       \/ \E s \in Session : BackfillSession(s)
       \/ daemon = "stopping" /\ Exit
    /\ UNCHANGED <<ask, faults>>

Fault ==
    /\ faults < MaxFaults
    /\ faults' = faults + 1
    /\ \/ (Stop \/ Exit \/ \E r \in Slot : StatementFails(r)) /\ UNCHANGED ask
       \/ \E w \in Waiter : Detach(w)

AskInit ==
    /\ Init
    /\ ask = [w \in Waiter |-> [pc |-> "idle", slot |-> None, cancelled |-> FALSE, reply |-> None]]
    /\ faults = 0

AskNext ==
    \/ \E w \in Waiter : CallAskUser(w) \/ CancelContext(w) \/ WaiterStep(w)
    \/ \E r \in Slot : Browse(r) \/ Handle(r) \/ Discard(r)
    \/ Boot
    \/ Fault

AskSpec == AskInit /\ [][AskNext]_askVars

(* Goroutines that can run do run, timers expire, the daemon is started    *)
(* again; nobody has to call, answer or cancel.                            *)
AskFairSpec ==
    /\ AskSpec
    /\ \A w \in Waiter : WF_askVars(WaiterStep(w))
    /\ \A r \in Slot : WF_askVars(Handle(r)) /\ WF_askVars(Discard(r))
    /\ WF_askVars(Boot)

-----------------------------------------------------------------------------
(* Every call keeps its shape, and has a reply exactly when it returned.   *)
AskTypeOK ==
    /\ TypeOK
    /\ ask \in [Waiter -> AskState]
    /\ \A w \in Waiter : (ask[w].pc = "returned") = (ask[w].reply # None)
    /\ faults \in 0 .. MaxFaults

(* AskUser returns the answer given to its own task, not to another task   *)
(* of the session, and that answer is the one the history keeps.           *)
ReturnedReplyIsTheAnswer ==
    \A w \in Waiter :
        AskAt(w, "returned") => /\ tasks[TaskOf[w]].status = "completed"
                                /\ tasks[TaskOf[w]].input = ask[w].reply

(* A call polls only for a task the daemon has stored: a registration lost *)
(* with its connection or with the daemon is never taken for accepted.     *)
PollsForStoredTask ==
    \A w \in Waiter :
        ask[w].pc \in {"waiting", "poll", "polling"} => Exists(TaskOf[w])

(* A registered call whose task is answered ends, whatever happened to the *)
(* daemon and to its connections before.                                   *)
AnsweredCallEnds ==
    \A w \in Waiter :
        (ask[w].pc \in {"waiting", "poll", "polling"} /\ tasks[TaskOf[w]].status = "completed")
            ~> ask[w].pc \in Ended

(* A call whose context ends does not hang in either loop.                 *)
CancelledCallEnds ==
    \A w \in Waiter : ask[w].cancelled ~> ask[w].pc \in Ended

(* A call is registered, refused for good or cancelled, however long the   *)
(* daemon was unavailable (approved-design.md:167).                        *)
RegistrationSettles ==
    \A w \in Waiter :
        AskAt(w, "register") ~> ask[w].pc \in {"waiting"} \cup Ended

(* approved-design.md:170, "exit only when the MCP request context is      *)
(* cancelled or stdio closes".                                             *)
FailsOnlyWhenCancelled ==
    \A w \in Waiter : AskAt(w, "failed") => ask[w].cancelled

(* The bridge and the browser use the daemon only through its requests.    *)
DaemonRuns == Spec
=============================================================================
