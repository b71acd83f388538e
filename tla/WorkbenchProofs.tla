--------------------------- MODULE WorkbenchProofs ---------------------------
(***************************************************************************)
(* Proofs about Workbench, for any set of questions, any number of replies *)
(* in flight and any size of the hub's buffer.                             *)
(*                                                                         *)
(* The inductive invariant has five parts: the shape of the state; what an *)
(* event on its way says of the daemon's rows; the reply behind the row    *)
(* that waits for one; that only questions that were asked are listed; and *)
(* for each question that was not missed, what the tab will list once the  *)
(* events on their way are applied.                                        *)
(***************************************************************************)
EXTENDS Workbench, ListProofs

(* A list of questions without repetition.                                 *)
Lists == {list \in Seq(Task) : IsInjective(list)}

(* What the daemon says about a question over the websocket.               *)
TaskEvent ==
    [type : {"created"}, task : Task]
        \cup [type : {"completed"}, task : Task, source : {"browser", "other"}]
        \cup [type : {"cancelled"}, task : Task, by : Task \cup {None}]

(* The events a handler has left to publish.                               *)
News == Seq(TaskEvent) \ {<<>>}

(* A reply of this tab, from the click to the end of its finally block.    *)
Reply == [pc : {"idle", "posting", "stored", "posted", "failed", "refreshing"},
          task : Task \cup {None}, panel : BOOLEAN, mounted : BOOLEAN]

(* The two fetches of the first load.                                      *)
Load == [pc : {"fetching", "done"}, pending : Lists \cup {None}, overtaken : SUBSET Task]

-----------------------------------------------------------------------------
(* The invariant.                                                          *)

(* The daemon lists exactly its open questions, and the wire holds no more *)
(* than the hub's channel.                                                 *)
DaemonShape ==
    /\ row \in [Task -> {"absent", "pending", "cancelled", "completed"}]
    /\ open \in Lists /\ Range(open) = {t \in Task : row[t] = "pending"}
    /\ asking \subseteq [task : Task, old : Task] /\ untold \subseteq News
    /\ wire \in Seq(TaskEvent) /\ Len(wire) <= WireSize
    /\ link \in {"up", "down"} /\ (link = "down" => wire = <<>>)
    /\ missed \subseteq Task

(* The page and its ref list each question once, and the focus is where a  *)
(* focus can be.                                                           *)
PageShape ==
    /\ load \in Load /\ (load.pending = None => load.overtaken = {})
    /\ pending \in Lists /\ pendingRef \in Lists
    /\ focus \in [surface : {"pending", "history"}, pending : SurfaceFocus]
    /\ drafts \subseteq Task /\ submitted \subseteq Task

(* A reply in flight has its question, and its panel is mounted only while *)
(* a panel is open.                                                        *)
CallShape ==
    /\ replyMode \in BOOLEAN /\ submitting \in Task \cup {None}
    /\ calls \in [Slot -> Reply]
    /\ \A r \in Slot :
        /\ calls[r].pc # "idle" => calls[r].task \in Task
        /\ calls[r].mounted => replyMode

(* No event opens such a question again.                                   *)
Retired == {"cancelled", "completed"}

(* What is on its way, or answered, has happened at the daemon.            *)
Tells(event, rows, replies) ==
    /\ rows[event.task] # "absent"
    /\ event.type # "created" => rows[event.task] \in Retired
    /\ event.type = "completed" /\ event.source = "other" => <<event.task, "other">> \in replies

(* So it is with the events on the wire, with those about to be published, *)
(* with the registrations that wait for their insert and with the replies  *)
(* the daemon has stored.                                                  *)
Happened ==
    /\ \A event \in Range(wire) \cup Announced : Tells(event, row, answers)
    /\ \A asked \in asking : row[asked.old] \in Retired
    /\ \A r \in Slot : calls[r].pc \in {"stored", "posted"} => row[calls[r].task] = "completed"

(* The questions of the page and of the list served to it.                 *)
Seen ==
    Range(pending) \cup Range(pendingRef)
        \cup (IF load.pending = None THEN {} ELSE Range(load.pending))

(* Nobody lists a question that was not asked.                             *)
SeenWasAsked == \A t \in Seen : row[t] # "absent"

(* The tab will list a question once the first load is over, if it knows.  *)
Known == load.pc = "done" \/ load.pending # None
Listed(t) ==
    t \in Range(IF load.pc = "done" \/ t \in load.overtaken THEN pending ELSE load.pending)

(* No later event is about the same question.                              *)
LastWord(events, i) == \A j \in DOMAIN events : events[j].task = events[i].task => j <= i

(* The last event about any question but these says whether it is open.    *)
LastWordsHold(events, rows, but) ==
    \A i \in DOMAIN events :
        events[i].task \notin but /\ LastWord(events, i) =>
            (events[i].type = "created" <=> rows[events[i].task] = "pending")

(* The questions the daemon has something left to say about, or the tab    *)
(* was not told of.                                                        *)
Open == missed \cup Coming

(* Of any other question: the last event on the wire says whether it is    *)
(* open; and without one, the tab knows whether it is.                     *)
Foretold ==
    /\ LastWordsHold(wire, row, Open)
    /\ Known => \A t \in Task \ (Open \cup Mentioned) : Listed(t) <=> row[t] = "pending"

(* The inductive invariant.  Foretold implies QuietPendingIsTrue once the  *)
(* first load is over.                                                     *)
WorkbenchInv ==
    /\ DaemonShape /\ PageShape /\ CallShape
    /\ Happened /\ SubmittingIsInFlight /\ ElsewhereIsElsewhere
    /\ SeenWasAsked /\ Foretold

-----------------------------------------------------------------------------
(* The daemon and the connection.                                          *)

(* Filtering one of the lists, or putting a new element in front of it.    *)
LEMMA ListsClosed ==
    ASSUME NEW list \in Lists, NEW S, NEW t \in Task
    PROVE  /\ Without(list, S) \in Lists /\ Range(Without(list, S)) = Range(list) \ S
           /\ t \notin Range(list) =>
                <<t>> \o list \in Lists /\ Range(<<t>> \o list) = {t} \cup Range(list)
  BY WithoutKeeps, PrependElements DEF Lists

(* A step of the daemon's handlers leaves the page alone, and one that     *)
(* changes a row or fails leaves the wire as well.                         *)
LEMMA DaemonStepKeeps ==
    ASSUME DaemonStep
    PROVE  /\ UNCHANGED <<link, load, pending, pendingRef, focus, tab, replyMode, drafts,
                          submitted, submitting, calls>>
           /\ (\E news \in untold : Tell(news)) \/ UNCHANGED wire
  BY DEF DaemonStep, RegisterStep, Ask, AskNext, Insert, AskFails, Supersede, Withdraw,
     ReplyElsewhere, Tell, TellFails, DaemonOnly, linkVars, listVars, pageVars, screenVars, replyVars

(* What the hub does with an event: it is appended, or its question is     *)
(* missed, unless the tab is not connected and has not been served yet.    *)
LEMMA PublishKeeps ==
    ASSUME DaemonShape, WorkbenchAssumption, NEW event \in TaskEvent, Publish(event)
    PROVE  /\ wire' \in Seq(TaskEvent) /\ Len(wire') <= WireSize
           /\ Range(wire') \subseteq Range(wire) \cup {event}
           /\ link = "down" => wire' = <<>>
           /\ missed' \subseteq Task /\ missed \subseteq missed'
           /\ \/ wire' = Append(wire, event) /\ Range(wire') = Range(wire) \cup {event}
              \/ wire' = wire /\ event.task \in missed'
              \/ wire' = wire /\ wire = <<>> /\ Unserved
           /\ event.type = "created" /\ row[event.task] # "pending" =>
                event.task \in missed' \cup Retiring
PROOF
  <1>1. event.task \in Task
    BY DEF TaskEvent
  <1>2. Append(wire, event) \in Seq(TaskEvent) /\ Len(Append(wire, event)) = Len(wire) + 1
          /\ Range(Append(wire, event)) = Range(wire) \cup {event}
    BY AppendElements DEF DaemonShape
  <1>3. wire' \in {wire, Append(wire, event)} /\ missed' \in {missed, missed \cup {event.task}}
    BY DEF Publish
  <1>4. wire' = Append(wire, event) => link = "up" /\ ~ (Len(wire) >= WireSize)
    BY <1>2 DEF Publish, DaemonShape
  <1>5. wire' # Append(wire, event) =>
          wire' = wire /\ (event.task \in missed' \/ (link = "down" /\ Unserved))
    BY <1>3 DEF Publish, DaemonShape
  <1>6. event.type = "created" /\ row[event.task] # "pending" =>
          event.task \in missed' \cup Retiring
    BY DEF Publish
  <1>7. wire' \in Seq(TaskEvent) /\ Len(wire') <= WireSize /\ (link = "down" => wire' = <<>>)
    BY <1>2, <1>3, <1>4, WorkbenchAssumption DEF DaemonShape, WorkbenchAssumption
  <1>8. missed' \subseteq Task /\ missed \subseteq missed'
    BY <1>1, <1>3 DEF DaemonShape
  <1>9. \/ wire' = Append(wire, event) /\ Range(wire') = Range(wire) \cup {event}
        \/ wire' = wire /\ event.task \in missed'
        \/ wire' = wire /\ wire = <<>> /\ Unserved
    BY <1>2, <1>5 DEF DaemonShape
  <1> QED
    BY <1>2, <1>3, <1>6, <1>7, <1>8, <1>9

(* The events the daemon publishes are events.                             *)
LEMMA EventsOf ==
    ASSUME NEW t \in Task
    PROVE  /\ Created(t) \in TaskEvent /\ Created(t).task = t /\ Created(t).type = "created"
           /\ \A from \in {"browser", "other"} :
                /\ Completed(t, from) \in TaskEvent /\ Completed(t, from).task = t
                /\ Completed(t, from).type = "completed" /\ Completed(t, from).source = from
           /\ \A by \in Task \cup {None} :
                /\ Cancelled(t, by) \in TaskEvent /\ Cancelled(t, by).task = t
                /\ Cancelled(t, by).type = "cancelled"
  BY DEF Created, Completed, Cancelled, TaskEvent

(* One or two events are news, and what is left of some are fewer.         *)
LEMMA NewsOf ==
    /\ \A e \in TaskEvent : <<e>> \in News /\ Range(<<e>>) = {e}
    /\ \A d, e \in TaskEvent : <<d, e>> \in News /\ Range(<<d, e>>) = {d, e}
    /\ \A news \in News : /\ Head(news) \in TaskEvent
                          /\ Range(news) = {Head(news)} \cup Range(Tail(news))
                          /\ Tail(news) # <<>> => Tail(news) \in News
PROOF
  <1>1. ASSUME NEW e \in TaskEvent PROVE <<e>> \in News /\ Range(<<e>>) = {e}
    BY DEF News, Range
  <1>2. ASSUME NEW d \in TaskEvent, NEW e \in TaskEvent
        PROVE  <<d, e>> \in News /\ Range(<<d, e>>) = {d, e}
    <2>1. <<d, e>> \in Seq(TaskEvent) /\ <<d, e>> # <<>> /\ DOMAIN <<d, e>> = {1, 2}
            /\ <<d, e>>[1] = d /\ <<d, e>>[2] = e
      OBVIOUS
    <2> QED
      BY <2>1 DEF News, Range
  <1>3. ASSUME NEW news \in News
        PROVE  /\ Head(news) \in TaskEvent
               /\ Range(news) = {Head(news)} \cup Range(Tail(news))
               /\ Tail(news) # <<>> => Tail(news) \in News
    BY PartElements DEF News
  <1> QED
    BY <1>1, <1>2, <1>3

(* A question that is retired leaves the list of open ones.                *)
LEMMA RetireKeepsOpen ==
    ASSUME DaemonShape, NEW t \in Task, NEW now \in Retired,
           row' = [row EXCEPT ![t] = now], open' = Without(open, {t})
    PROVE  /\ row' \in [Task -> {"absent", "pending", "cancelled", "completed"}]
           /\ open' \in Lists /\ Range(open') = {u \in Task : row'[u] = "pending"}
PROOF
  <1>1. open' \in Lists /\ Range(open') = Range(open) \ {t}
    BY ListsClosed DEF DaemonShape
  <1>2. row'[t] # "pending" /\ \A u \in Task : u # t => row'[u] = row[u]
    BY DEF DaemonShape, Retired
  <1> QED
    BY <1>1, <1>2 DEF DaemonShape, Retired

(* A question that is inserted is in front of them.                        *)
LEMMA InsertKeepsOpen ==
    ASSUME DaemonShape, NEW t \in Task, NEW news \in News, Insert(t, news)
    PROVE  /\ row' \in [Task -> {"absent", "pending", "cancelled", "completed"}]
           /\ open' \in Lists /\ Range(open') = {u \in Task : row'[u] = "pending"}
           /\ untold' \subseteq News
PROOF
  <1>1. row[t] = "absent" /\ row' = [row EXCEPT ![t] = "pending"] /\ open' = <<t>> \o open
          /\ untold' = untold \cup {news}
    BY DEF Insert
  <1>2. open' \in Lists /\ Range(open') = {t} \cup Range(open)
    BY <1>1, ListsClosed DEF DaemonShape
  <1>3. row'[t] = "pending" /\ \A u \in Task : u # t => row'[u] = row[u]
    BY <1>1 DEF DaemonShape
  <1> QED
    BY <1>1, <1>2, <1>3 DEF DaemonShape

(* The daemon's part of the state keeps its shape.                         *)
LEMMA DaemonShapeStep ==
    ASSUME DaemonShape, PageShape, CallShape, WorkbenchAssumption, [WorkbenchNext]_workbenchVars
    PROVE  DaemonShape'
PROOF
  <1> USE DEF serverVars, handlerVars, linkVars, listVars, faultVars, pageVars, screenVars,
              replyVars, DaemonOnly
  <1>1. ASSUME RegisterStep PROVE DaemonShape'
    <2>1. ASSUME NEW t \in Task, Ask(t) PROVE DaemonShape'
      <3>1. <<Created(t)>> \in News
        BY EventsOf, NewsOf
      <3> QED
        BY <2>1, <3>1, InsertKeepsOpen DEF Ask, Insert, DaemonShape
    <2>2. ASSUME NEW t \in Task, NEW old \in Task, Supersede(t, old) PROVE DaemonShape'
      <3>1. row' \in [Task -> {"absent", "pending", "cancelled", "completed"}]
              /\ open' \in Lists /\ Range(open') = {u \in Task : row'[u] = "pending"}
        BY <2>2, RetireKeepsOpen DEF Supersede, Retired
      <3>2. asking' \subseteq [task : Task, old : Task]
        BY <2>2 DEF Supersede, DaemonShape
      <3>3. UNCHANGED <<untold, wire, link, missed>>
        BY <2>2 DEF Supersede
      <3> QED
        BY <3>1, <3>2, <3>3 DEF DaemonShape
    <2>3. ASSUME NEW asked \in asking, AskNext(asked) PROVE DaemonShape'
      <3>1. asked.task \in Task /\ asked.old \in Task
        BY DEF DaemonShape
      <3>2. <<Cancelled(asked.old, asked.task), Created(asked.task)>> \in News
        BY <3>1, EventsOf, NewsOf
      <3>3. /\ row' \in [Task -> {"absent", "pending", "cancelled", "completed"}]
            /\ open' \in Lists /\ Range(open') = {u \in Task : row'[u] = "pending"}
            /\ untold' \subseteq News
        BY <2>3, <3>1, <3>2, InsertKeepsOpen DEF AskNext
      <3> QED
        BY <2>3, <3>3 DEF AskNext, Insert, DaemonShape
    <2>4. ASSUME NEW asked \in asking, AskFails(asked) PROVE DaemonShape'
      BY <2>4 DEF AskFails, DaemonShape
    <2> QED
      BY <1>1, <2>1, <2>2, <2>3, <2>4 DEF RegisterStep
  <1>2. ASSUME NEW t \in Task, NEW from \in {"browser", "other"}, ReplyElsewhere(t, from)
        PROVE  DaemonShape'
    <2>1. row' \in [Task -> {"absent", "pending", "cancelled", "completed"}]
            /\ open' \in Lists /\ Range(open') = {u \in Task : row'[u] = "pending"}
      BY <1>2, RetireKeepsOpen DEF ReplyElsewhere, Complete, Retired
    <2>2. <<Completed(t, from)>> \in News
      BY EventsOf, NewsOf
    <2> QED
      BY <1>2, <2>1, <2>2 DEF ReplyElsewhere, DaemonShape
  <1>3. ASSUME NEW t \in Task, Withdraw(t) PROVE DaemonShape'
    <2>1. row' \in [Task -> {"absent", "pending", "cancelled", "completed"}]
            /\ open' \in Lists /\ Range(open') = {u \in Task : row'[u] = "pending"}
      BY <1>3, RetireKeepsOpen DEF Withdraw, Retired
    <2>2. <<Cancelled(t, None)>> \in News
      BY EventsOf, NewsOf
    <2> QED
      BY <1>3, <2>1, <2>2 DEF Withdraw, DaemonShape
  <1>4. ASSUME NEW event \in TaskEvent, Publish(event), UNCHANGED <<row, open, asking, link>>,
               untold' \subseteq News
        PROVE  DaemonShape'
    BY <1>4, PublishKeeps DEF DaemonShape
  <1>5. ASSUME NEW news \in untold, Tell(news) PROVE DaemonShape'
    <2>1. Head(news) \in TaskEvent /\ (Tail(news) # <<>> => Tail(news) \in News)
      BY NewsOf DEF DaemonShape
    <2>2. untold' \subseteq News
      BY <1>5, <2>1 DEF Tell, DaemonShape
    <2> QED
      BY <1>4, <1>5, <2>1, <2>2 DEF Tell
  <1>6. ASSUME NEW news \in untold, TellFails(news) PROVE DaemonShape'
    <2>1. {event.task : event \in Range(news)} \subseteq Task
      BY DEF DaemonShape, News, Range, TaskEvent
    <2> QED
      BY <1>6, <2>1 DEF TellFails, DaemonShape
  <1>7. <<>> \in Seq(TaskEvent) /\ Len(<<>>) <= WireSize /\ Mentioned \subseteq Task
    BY WorkbenchAssumption DEF WorkbenchAssumption, Mentioned, DaemonShape, Range, TaskEvent
  <1>8. Coming \subseteq Task
    <2>1. \A event \in Announced : event.task \in Task
      BY DEF Announced, DaemonShape, News, Range, TaskEvent
    <2>2. \A asked \in asking : asked.old \in Task
      BY DEF DaemonShape
    <2>3. \A r \in Slot : calls[r].pc = "stored" => calls[r].task \in Task
      BY DEF CallShape
    <2> QED
      BY <2>1, <2>2, <2>3 DEF Coming, Retiring
  <1>9. ASSUME LinkStep PROVE DaemonShape'
    <2>1. CASE Connect
      BY <2>1 DEF Connect, DaemonShape
    <2>2. CASE Disconnect
      <3>1. wire' = <<>> /\ link' = "down" /\ UNCHANGED serverVars /\ missed' \subseteq Task
        BY <1>7, <2>2 DEF Disconnect, DaemonShape
      <3> QED
        BY <1>7, <3>1 DEF DaemonShape
    <2>3. CASE Crash
      <3>1. wire' = <<>> /\ link' = "down" /\ asking' = {} /\ untold' = {}
              /\ UNCHANGED <<row, open>> /\ missed' \subseteq Task
        BY <1>7, <1>8, <2>3 DEF Crash, DaemonShape
      <3> QED
        BY <1>7, <3>1 DEF DaemonShape
    <2> QED
      BY <1>9, <2>1, <2>2, <2>3 DEF LinkStep
  <1>10. ASSUME NEW r \in Slot, Post(r) PROVE DaemonShape'
    <2>1. calls[r].task \in Task
      BY <1>10 DEF Post, CallShape
    <2>2. row' \in [Task -> {"absent", "pending", "cancelled", "completed"}]
            /\ open' \in Lists /\ Range(open') = {u \in Task : row'[u] = "pending"}
      BY <1>10, <2>1, RetireKeepsOpen DEF Post, Complete, Retired
    <2> QED
      BY <1>10, <2>2 DEF Post, DaemonShape
  <1>11. ASSUME NEW r \in Slot, PostTold(r) PROVE DaemonShape'
    <2>1. Completed(calls[r].task, "browser") \in TaskEvent
      BY <1>11, EventsOf DEF PostTold, CallShape
    <2> QED
      BY <1>4, <1>11, <2>1 DEF PostTold, DaemonShape
  <1>12. ASSUME NEW r \in Slot, PostFails(r) PROVE DaemonShape'
    <2>1. calls[r].task \in Task
      BY <1>12 DEF PostFails, CallShape
    <2>2. <<Completed(calls[r].task, "browser")>> \in News
      BY <2>1, EventsOf, NewsOf
    <2>3. untold' \subseteq News /\ missed' \subseteq Task
      BY <1>12, <2>1, <2>2 DEF PostFails, DaemonShape
    <2> QED
      BY <1>12, <2>3 DEF PostFails, DaemonShape
  <1>13. ASSUME UNCHANGED <<serverVars, linkVars>>, missed' \subseteq Task PROVE DaemonShape'
    BY <1>13 DEF DaemonShape
  <1>14. ASSUME PageStep PROVE DaemonShape'
    <2>1. ASSUME applyEvent PROVE DaemonShape'
      <3>1. wire # <<>> /\ wire' = Tail(wire) /\ UNCHANGED <<serverVars, link, missed>>
        BY <2>1 DEF applyEvent
      <3>2. wire' \in Seq(TaskEvent) /\ Len(wire') <= WireSize
        BY <3>1, PartElements, WorkbenchAssumption DEF DaemonShape, WorkbenchAssumption
      <3> QED
        BY <3>1, <3>2 DEF DaemonShape
    <2>2. ASSUME Loaded PROVE DaemonShape'
      BY <1>13, <2>2 DEF Loaded, DaemonShape, PageShape, Load
    <2>3. ASSUME ServePending \/ LoadFails \/ Effect PROVE DaemonShape'
      BY <1>13, <2>3 DEF ServePending, LoadFails, Effect, DaemonShape
    <2> QED
      BY <1>14, <2>1, <2>2, <2>3 DEF PageStep
  <1>15. ASSUME UserStep PROVE DaemonShape'
    BY <1>13, <1>15 DEF UserStep, Select, OpenReplacement, ChangeTab, OpenReply, CloseReply,
         updateDraft, QuickPaste, PanelSubmit, Submit, DaemonShape
  <1>16. ASSUME NEW r \in Slot, Failed(r) \/ Refreshed(r) PROVE DaemonShape'
    BY <1>13, <1>16 DEF Failed, Refreshed, DaemonShape
  <1>17. ASSUME NEW r \in Slot, Replied(r) PROVE DaemonShape'
    <2>1. calls[r].task \in Task
      BY <1>17 DEF Replied, CallShape
    <2>2. pending' = Without(pendingRef, {calls[r].task}) /\ UNCHANGED <<serverVars, linkVars>>
            /\ missed' = missed \cup Differ(pending', Without(pending, {calls[r].task}))
      BY <1>17 DEF Replied
    <2>3. Range(pending') \subseteq Task /\ Range(Without(pending, {calls[r].task})) \subseteq Task
      <3>1. \A list \in Lists : Range(list) \subseteq Task
        BY DEF Lists, Range
      <3>2. Range(pending') = Range(pendingRef) \ {calls[r].task}
        BY <2>1, <2>2, ListsClosed DEF PageShape
      <3>3. Range(Without(pending, {calls[r].task})) = Range(pending) \ {calls[r].task}
        BY <2>1, ListsClosed DEF PageShape
      <3> QED
        BY <3>1, <3>2, <3>3 DEF PageShape
    <2>4. missed' \subseteq Task
      BY <2>2, <2>3 DEF Differ, DaemonShape
    <2> QED
      BY <1>13, <2>2, <2>4
  <1>18. ASSUME UNCHANGED workbenchVars PROVE DaemonShape'
    BY <1>13, <1>18 DEF workbenchVars, DaemonShape
  <1> QED
    BY <1>1, <1>2, <1>3, <1>5, <1>6, <1>9, <1>10, <1>11, <1>12, <1>14, <1>15, <1>16, <1>17, <1>18
    DEF WorkbenchNext, DaemonStep, ReplyStep

-----------------------------------------------------------------------------
(* The page and its replies.                                               *)

(* What a focus can be.                                                    *)
Pane == [surface : {"pending", "history"}, pending : SurfaceFocus]

(* What the functions of focus.ts return is a focus.                       *)
LEMMA FocusClosed ==
    ASSUME NEW f \in Pane, NEW t \in Task, NEW list \in Lists, NEW by \in Task \cup {None},
           NEW known \in BOOLEAN, WorkbenchAssumption
    PROVE  /\ FirstOf(list) \in SurfaceFocus
           /\ applyTaskCreated(f, t) \in Pane
           /\ applyTaskCompleted(f, t, known) \in Pane
           /\ applyTaskCompletedLocally(f, t, list) \in Pane
           /\ applyTaskCancelled(f, t, by, known) \in Pane
           /\ selectTask(f, "pending", t) \in Pane
           /\ \A value \in {"pending", "history"} : changeSurface(f, value) \in Pane
PROOF
  <1>1. \A l \in Lists : FirstOf(l) \in SurfaceFocus
    <2> SUFFICES ASSUME NEW l \in Lists PROVE FirstOf(l) \in SurfaceFocus
      OBVIOUS
    <2>1. l # <<>> => Head(l) \in Task
      BY PartElements DEF Lists
    <2> QED
      BY <2>1 DEF FirstOf, none, focusTask, SurfaceFocus
  <1>2. focusTask(t) \in SurfaceFocus
    BY DEF focusTask, SurfaceFocus
  <1>3. \A why \in StaleReason, u \in Task \cup {None} : staleFocus(t, why, u) \in SurfaceFocus
    BY DEF staleFocus, SurfaceFocus
  <1>4. \A value \in SurfaceFocus : [f EXCEPT !.pending = value] \in Pane
    BY DEF Pane
  <1>5. \A value \in {"pending", "history"} : [f EXCEPT !.surface = value] \in Pane
    BY DEF Pane
  <1>6. selectTask(f, "pending", t) \in Pane
    BY <1>2 DEF selectTask, Pane
  <1>7. Without(list, {t}) \in Lists
    BY ListsClosed
  <1>8. applyTaskCreated(f, t) \in Pane
    BY <1>2, <1>4 DEF applyTaskCreated
  <1>9. applyTaskCompleted(f, t, known) \in Pane
    BY <1>3, <1>4 DEF applyTaskCompleted, StaleReason
  <1>10. applyTaskCompletedLocally(f, t, list) \in Pane
    BY <1>1, <1>4, <1>7 DEF applyTaskCompletedLocally
  <1>11. applyTaskCancelled(f, t, by, known) \in Pane
    BY <1>3, <1>4 DEF applyTaskCancelled, StaleReason
  <1> QED
    BY <1>1, <1>5, <1>6, <1>8, <1>9, <1>10, <1>11 DEF changeSurface

(* An event is about a question; the page changes by it as it should.      *)
LEMMA HeadOfWire ==
    ASSUME DaemonShape, wire # <<>>
    PROVE  /\ Head(wire) \in TaskEvent /\ Head(wire).task \in Task
           /\ Head(wire).type \in {"created", "completed", "cancelled"}
           /\ Head(wire).type = "cancelled" => Head(wire).by \in Task \cup {None}
           /\ Head(wire).type = "completed" => Head(wire).source \in {"browser", "other"}
           /\ Head(wire) \in Range(wire)
  BY PartElements DEF DaemonShape, TaskEvent

(* The page keeps its shape.                                               *)
LEMMA PageShapeStep ==
    ASSUME DaemonShape, PageShape, CallShape, WorkbenchAssumption, [WorkbenchNext]_workbenchVars
    PROVE  PageShape'
PROOF
  <1> USE DEF serverVars, handlerVars, linkVars, listVars, faultVars, pageVars, screenVars, replyVars
  <1>1. focus \in Pane
    BY DEF PageShape, Pane
  <1>2. ASSUME UNCHANGED <<load, pending, pendingRef>>, focus' \in Pane,
               drafts' \subseteq Task, submitted' \subseteq Task
        PROVE  PageShape'
    BY <1>2 DEF PageShape, Pane
  <1>3. ASSUME DaemonStep \/ LinkStep PROVE PageShape'
    <2>1. UNCHANGED <<load, pending, pendingRef, focus, drafts, submitted>>
      BY <1>3, DaemonStepKeeps DEF LinkStep, Connect, Disconnect, Crash
    <2> QED
      BY <1>1, <1>2, <2>1 DEF PageShape
  <1>4. ASSUME ServePending PROVE PageShape'
    BY <1>4 DEF ServePending, PageShape, Load, DaemonShape
  <1>5. ASSUME Loaded PROVE PageShape'
    <2>1. load.pending \in Lists /\ pending' = load.pending /\ load' = NoLoad
            /\ UNCHANGED <<pendingRef, drafts, submitted>>
      BY <1>5 DEF Loaded, PageShape, Load
    <2>2. PICK history \in {<<>>} \cup {<<t>> : t \in Task} :
            focus' = PendingPane(initializeFocus(load.pending, history))
      BY <1>5 DEF Loaded
    <2>3. FirstOf(load.pending) \in SurfaceFocus
      <3>1. load.pending # <<>> => Head(load.pending) \in Task
        BY <2>1, PartElements DEF Lists
      <3> QED
        BY <3>1 DEF FirstOf, none, focusTask, SurfaceFocus
    <2>4. focus' \in Pane
      BY <2>2, <2>3 DEF PendingPane, initializeFocus, Pane
    <2> QED
      BY <2>1, <2>4 DEF NoLoad, Load, PageShape, Pane
  <1>6. ASSUME LoadFails \/ Effect PROVE PageShape'
    <2>1. NoLoad \in Load /\ NoLoad.overtaken = {}
      BY DEF NoLoad, Load
    <2>2. CASE LoadFails
      BY <2>1, <2>2 DEF LoadFails, PageShape
    <2>3. CASE Effect
      BY <2>3 DEF Effect, PageShape
    <2> QED
      BY <1>6, <2>2, <2>3
  <1>7. ASSUME applyEvent PROVE PageShape'
    <2> DEFINE event == Head(wire)
               t == event.task
    <2>1. wire # <<>> /\ UNCHANGED pendingRef
            /\ load' = IF load.pending = None THEN load ELSE [load EXCEPT !.overtaken = @ \cup {t}]
      BY <1>7 DEF applyEvent
    <2>2. t \in Task /\ event.type \in {"created", "completed", "cancelled"}
            /\ (event.type = "cancelled" => event.by \in Task \cup {None})
      BY <2>1, HeadOfWire
    <2>3. Without(pending, {t}) \in Lists /\ Range(Without(pending, {t})) = Range(pending) \ {t}
            /\ Without(pendingRef, {t}) \in Lists
      BY <2>2, ListsClosed DEF PageShape
    <2>6. load' \in Load /\ (load'.pending = None => load'.overtaken = {})
      <3> HIDE DEF t
      <3> QED
        BY <2>1, <2>2 DEF PageShape, Load
    <2>4. CASE event.type = "created"
      <3>1. applyCreated(event)
        BY <1>7, <2>4 DEF applyEvent
      <3>2. pending' \in Lists
        BY <2>2, <2>3, <3>1, ListsClosed DEF applyCreated
      <3>3. focus' \in Pane
        <4>1. focus' = applyTaskCreated(focus, t)
          BY <3>1 DEF applyCreated
        <4> HIDE DEF t, event
        <4>2. applyTaskCreated(focus, t) \in Pane
          BY <1>1, <2>2, <2>3, FocusClosed
        <4> QED
          BY <4>1, <4>2
      <3>4. drafts' \subseteq Task /\ submitted' \subseteq Task /\ pendingRef' \in Lists
        BY <2>1, <3>1 DEF applyCreated, PageShape
      <3> HIDE DEF t, event
      <3> QED
        BY <2>6, <3>2, <3>3, <3>4 DEF PageShape, Pane
    <2>5. CASE event.type # "created"
      <3>1. applyRetired(event)
        BY <1>7, <2>5 DEF applyEvent
      <3>2. pending' = Without(pending, {t}) /\ drafts' = drafts \ {t}
              /\ submitted' \in {submitted, submitted \ {t}}
        BY <3>1 DEF applyRetired
      <3> DEFINE known == t \in Range(pendingRef)
      <3>3. \/ focus' = applyTaskCompletedLocally(focus, t, Without(pendingRef, {t}))
            \/ focus' = applyTaskCompleted(focus, t, known)
            \/ event.type = "cancelled" /\ focus' = applyTaskCancelled(focus, t, event.by, known)
        BY <3>1 DEF applyRetired
      <3>4. focus' \in Pane
        <4>1. known \in BOOLEAN
          OBVIOUS
        <4> HIDE DEF known, t, event
        <4>2. applyTaskCompletedLocally(focus, t, Without(pendingRef, {t})) \in Pane
          BY <1>1, <2>2, <2>3, <4>1, FocusClosed
        <4>3. applyTaskCompleted(focus, t, known) \in Pane
          BY <1>1, <2>2, <2>3, <4>1, FocusClosed
        <4>4. event.type = "cancelled" => applyTaskCancelled(focus, t, event.by, known) \in Pane
          BY <1>1, <2>2, <2>3, <4>1, FocusClosed
        <4> QED
          BY <3>3, <4>2, <4>3, <4>4
      <3>5. drafts' \subseteq Task /\ submitted' \subseteq Task
        BY <3>2 DEF PageShape
      <3>6. pending' \in Lists /\ pendingRef' \in Lists
        BY <2>1, <2>3, <3>2 DEF PageShape
      <3> HIDE DEF t, event
      <3> QED
        BY <2>6, <3>4, <3>5, <3>6 DEF PageShape, Pane
    <2> QED
      BY <2>4, <2>5
  <1>8. ASSUME UserStep PROVE PageShape'
    <2>1. ASSUME NEW t \in Task, Select(t) PROVE PageShape'
      BY <1>1, <1>2, <2>1, FocusClosed DEF Select, PageShape
    <2>2. ASSUME OpenReplacement PROVE PageShape'
      <3>1. focus.pending.by \in Task
        BY <2>2 DEF OpenReplacement, PageShape, Lists, Range
      <3> QED
        BY <1>1, <1>2, <2>2, <3>1, FocusClosed DEF OpenReplacement, PageShape
    <2>3. ASSUME NEW value \in {"pending", "history"}, ChangeTab(value) PROVE PageShape'
      BY <1>1, <1>2, <2>3 DEF ChangeTab, changeSurface, Pane, PageShape
    <2>4. ASSUME OpenReply \/ CloseReply PROVE PageShape'
      BY <1>1, <1>2, <2>4 DEF OpenReply, CloseReply, PageShape
    <2>5. ActiveTask \in Task \cup {None}
      BY DEF ActiveTask, PageShape, Lists, Range
    <2>6. ASSUME updateDraft PROVE PageShape'
      BY <1>1, <1>2, <2>5, <2>6 DEF updateDraft, PageShape
    <2>7. ASSUME NEW r \in Slot, NEW t \in Task, NEW panel, Submit(r, t, panel) PROVE PageShape'
      BY <1>1, <1>2, <2>7 DEF Submit, PageShape
    <2>8. ASSUME NEW r \in Slot, NEW t \in Task, QuickPaste(r, t) PROVE PageShape'
      BY <2>7, <2>8 DEF QuickPaste
    <2>9. ASSUME NEW r \in Slot, PanelSubmit(r) PROVE PageShape'
      BY <2>7, <2>9 DEF PanelSubmit, PageShape
    <2> QED
      BY <1>8, <2>1, <2>2, <2>3, <2>4, <2>6, <2>8, <2>9 DEF UserStep
  <1>9. ASSUME NEW r \in Slot, ReplyStep(r) PROVE PageShape'
    <2>1. ASSUME Post(r) \/ PostTold(r) \/ PostFails(r) PROVE PageShape'
      BY <1>1, <1>2, <2>1 DEF Post, PostTold, PostFails, PageShape
    <2>2. ASSUME Replied(r) PROVE PageShape'
      <3> DEFINE t == calls[r].task
      <3>1. t \in Task
        BY <2>2 DEF Replied, CallShape
      <3>2. Without(pendingRef, {t}) \in Lists
        BY <3>1, ListsClosed DEF PageShape
      <3>3. focus' \in Pane
        BY <1>1, <2>2, <3>1, <3>2, FocusClosed DEF Replied
      <3> QED
        BY <2>2, <3>2, <3>3 DEF Replied, PageShape, Pane
    <2>3. ASSUME Failed(r) \/ Refreshed(r) PROVE PageShape'
      <3>1. drafts' \subseteq drafts /\ submitted' \subseteq submitted
              /\ UNCHANGED <<load, pending, pendingRef, focus>>
        BY <2>3 DEF Failed, Refreshed
      <3> QED
        BY <1>1, <1>2, <3>1 DEF PageShape
    <2> QED
      BY <1>9, <2>1, <2>2, <2>3 DEF ReplyStep
  <1>10. ASSUME UNCHANGED workbenchVars PROVE PageShape'
    BY <1>10 DEF workbenchVars, PageShape
  <1> QED
    BY <1>3, <1>4, <1>5, <1>6, <1>7, <1>8, <1>9, <1>10 DEF WorkbenchNext, PageStep

(* A panel that closes changes no reply but for being gone for it.         *)
LEMMA ClosePanelKeeps ==
    ASSUME NEW replies \in [Slot -> Reply], ClosePanel(replies)
    PROVE  /\ replyMode' = FALSE
           /\ calls' \in [Slot -> Reply]
           /\ \A r \in Slot : /\ calls'[r].pc = replies[r].pc /\ calls'[r].task = replies[r].task
                              /\ calls'[r].mounted = FALSE
PROOF
  <1>1. \A r \in Slot : /\ [replies[r] EXCEPT !.mounted = FALSE] \in Reply
                        /\ [replies[r] EXCEPT !.mounted = FALSE].pc = replies[r].pc
                        /\ [replies[r] EXCEPT !.mounted = FALSE].task = replies[r].task
                        /\ [replies[r] EXCEPT !.mounted = FALSE].mounted = FALSE
    BY DEF Reply
  <1>2. replyMode' = FALSE /\ calls' = [r \in Slot |-> [replies[r] EXCEPT !.mounted = FALSE]]
    BY DEF ClosePanel
  <1> QED
    BY <1>1, <1>2

(* What a step does to the row that waits and to the replies in flight:    *)
(* nothing, but for a panel that closes or a daemon that stops; a reply is *)
(* sent, from an idle slot; it moves on; or it ends, and no row waits.     *)
CallsSame ==
    /\ submitting' = submitting /\ calls' \in [Slot -> Reply]
    /\ \A r \in Slot : /\ calls'[r].task = calls[r].task
                       /\ \/ calls'[r].pc = calls[r].pc
                          \/ calls[r].pc = "stored" /\ calls'[r].pc = "failed"
                       /\ calls'[r].mounted => calls[r].mounted /\ replyMode'

(* A reply to t is sent: Submit.                                           *)
CallSent(r, t) ==
    /\ submitting' = t /\ calls[r].pc = "idle" /\ replyMode' = replyMode
    /\ \E panel \in BOOLEAN :
         /\ calls' = [calls EXCEPT ![r] =
                         [pc |-> "posting", task |-> t, panel |-> panel, mounted |-> panel]]
         /\ panel => replyMode

(* A reply gets on: Post, PostTold, PostFails or Replied.                  *)
CallMoves(r) ==
    /\ submitting' = submitting /\ calls[r].pc # "idle" /\ calls' \in [Slot -> Reply]
    /\ calls'[r].pc \in {"stored", "posted", "failed", "refreshing"}
    /\ calls'[r].pc = "stored" => Post(r)
    /\ calls'[r].pc = "posted" => calls[r].pc = "stored"
    /\ \A q \in Slot : /\ calls'[q].task = calls[q].task
                       /\ q # r => calls'[q].pc = calls[q].pc
                       /\ calls'[q].mounted => calls[q].mounted /\ replyMode'

(* A reply is over: Refreshed.                                             *)
CallEnds(r) ==
    /\ submitting' = None /\ replyMode' = replyMode
    /\ calls' = [calls EXCEPT ![r] = NoReply]

(* Every step leaves the replies alone, sends one, moves one or ends one.  *)
LEMMA CallsStep ==
    ASSUME DaemonShape, PageShape, CallShape, WorkbenchAssumption, [WorkbenchNext]_workbenchVars
    PROVE  /\ replyMode' \in BOOLEAN
           /\ \/ CallsSame
              \/ \E r \in Slot, t \in Task : CallSent(r, t)
              \/ \E r \in Slot : CallMoves(r)
              \/ \E r \in Slot : CallEnds(r)
PROOF
  <1> USE DEF serverVars, handlerVars, linkVars, listVars, faultVars, pageVars, screenVars, replyVars
  <1> DEFINE Goal == /\ replyMode' \in BOOLEAN
                     /\ \/ CallsSame
                        \/ \E r \in Slot, t \in Task : CallSent(r, t)
                        \/ \E r \in Slot : CallMoves(r)
                        \/ \E r \in Slot : CallEnds(r)
  <1>1. ASSUME UNCHANGED <<submitting, calls, replyMode>> PROVE Goal
    BY <1>1 DEF CallsSame, CallShape
  <1>2. ASSUME ClosePanel(calls), UNCHANGED submitting PROVE Goal
    <2>1. calls \in [Slot -> Reply]
      BY DEF CallShape
    <2> QED
      BY <1>2, <2>1, ClosePanelKeeps DEF CallsSame
  <1>3. ASSUME DaemonStep \/ LinkStep \/ ServePending \/ Loaded \/ LoadFails \/ Effect PROVE Goal
    <2>1. CASE Crash
      <3>1. \A r \in Slot : [calls[r] EXCEPT !.pc = "failed"] \in Reply
                /\ [calls[r] EXCEPT !.pc = "failed"].pc = "failed"
                /\ [calls[r] EXCEPT !.pc = "failed"].task = calls[r].task
                /\ [calls[r] EXCEPT !.pc = "failed"].mounted = calls[r].mounted
        BY DEF CallShape, Reply
      <3>2. /\ UNCHANGED <<submitting, replyMode>>
            /\ calls' = [r \in Slot |-> IF calls[r].pc = "stored"
                                         THEN [calls[r] EXCEPT !.pc = "failed"] ELSE calls[r]]
        BY <2>1 DEF Crash
      <3>3. calls' \in [Slot -> Reply]
        BY <3>1, <3>2 DEF CallShape
      <3> QED
        BY <3>1, <3>2, <3>3 DEF CallsSame, CallShape
    <2>2. CASE ~ Crash
      BY <1>1, <1>3, <2>2, DaemonStepKeeps DEF LinkStep, Connect, Disconnect, ServePending, Loaded,
           LoadFails, Effect
    <2> QED
      BY <2>1, <2>2
  <1>4. ASSUME applyEvent PROVE Goal
    BY <1>1, <1>2, <1>4 DEF applyEvent, applyCreated, applyRetired
  <1>5. ASSUME UserStep PROVE Goal
    <2>1. ASSUME NEW t \in Task, Select(t) PROVE Goal
      BY <1>2, <2>1 DEF Select
    <2>2. ASSUME OpenReplacement \/ CloseReply PROVE Goal
      BY <1>2, <2>2 DEF OpenReplacement, CloseReply
    <2>3. ASSUME NEW value \in {"pending", "history"}, ChangeTab(value) PROVE Goal
      BY <1>2, <2>3 DEF ChangeTab
    <2>4. ASSUME updateDraft PROVE Goal
      BY <1>1, <2>4 DEF updateDraft
    <2>5. ASSUME OpenReply PROVE Goal
      BY <2>5 DEF OpenReply, CallsSame, CallShape
    <2>6. ASSUME NEW r \in Slot, NEW t \in Task, QuickPaste(r, t) PROVE Goal
      <3>1. CallSent(r, t)
        BY <2>6 DEF QuickPaste, Submit, CallSent
      <3> QED
        BY <3>1 DEF CallSent, CallShape
    <2>7. ASSUME NEW r \in Slot, PanelSubmit(r) PROVE Goal
      <3>1. ActiveTask \in Task
        BY <2>7 DEF PanelSubmit, PageShape
      <3>2. CallSent(r, ActiveTask)
        BY <2>7 DEF PanelSubmit, Submit, CallSent
      <3> QED
        BY <3>1, <3>2 DEF CallSent, CallShape
    <2> QED
      BY <1>5, <2>1, <2>2, <2>3, <2>4, <2>5, <2>6, <2>7 DEF UserStep
  <1>6. ASSUME NEW r \in Slot, ReplyStep(r) PROVE Goal
    <2>1. ASSUME NEW pc \in {"stored", "posted", "failed", "refreshing"}, calls[r].pc # "idle",
                 calls' = [calls EXCEPT ![r].pc = pc], UNCHANGED <<submitting, replyMode>>,
                 pc = "stored" => Post(r), pc = "posted" => calls[r].pc = "stored"
          PROVE  Goal
      <3>1. calls'= [calls EXCEPT ![r] = [calls[r] EXCEPT !.pc = pc]]
        BY <2>1
      <3>2. [calls[r] EXCEPT !.pc = pc] \in Reply /\ [calls[r] EXCEPT !.pc = pc].pc = pc
              /\ [calls[r] EXCEPT !.pc = pc].task = calls[r].task
              /\ [calls[r] EXCEPT !.pc = pc].mounted = calls[r].mounted
        BY <2>1 DEF CallShape, Reply
      <3>3. CallMoves(r)
        BY <2>1, <3>1, <3>2 DEF CallMoves, CallShape
      <3> QED
        BY <2>1, <3>3 DEF CallShape
    <2>2. ASSUME Post(r) \/ PostTold(r) \/ PostFails(r) PROVE Goal
      BY <2>1, <2>2 DEF Post, PostTold, PostFails, Goto
    <2>3. ASSUME Replied(r) PROVE Goal
      <3> DEFINE replies == [calls EXCEPT ![r].pc = "refreshing"]
      <3>1. ClosePanel(replies) /\ UNCHANGED submitting /\ calls[r].pc = "posted"
        BY <2>3 DEF Replied
      <3>2. replies = [calls EXCEPT ![r] = [calls[r] EXCEPT !.pc = "refreshing"]]
        OBVIOUS
      <3>3. [calls[r] EXCEPT !.pc = "refreshing"] \in Reply
              /\ [calls[r] EXCEPT !.pc = "refreshing"].pc = "refreshing"
              /\ [calls[r] EXCEPT !.pc = "refreshing"].task = calls[r].task
        BY DEF CallShape, Reply
      <3>4. replies \in [Slot -> Reply] /\ replies[r].pc = "refreshing"
              /\ \A q \in Slot : replies[q].task = calls[q].task
                                   /\ (q # r => replies[q].pc = calls[q].pc)
        BY <3>2, <3>3 DEF CallShape
      <3> HIDE DEF replies
      <3>5. replyMode' = FALSE /\ calls' \in [Slot -> Reply]
              /\ \A q \in Slot : /\ calls'[q].pc = replies[q].pc /\ calls'[q].task = replies[q].task
                                 /\ calls'[q].mounted = FALSE
        BY <3>1, <3>4, ClosePanelKeeps
      <3>6. CallMoves(r)
        BY <3>1, <3>4, <3>5 DEF CallMoves
      <3> QED
        BY <3>5, <3>6
    <2>4. ASSUME Failed(r) \/ Refreshed(r) PROVE Goal
      BY <2>4 DEF Failed, Refreshed, CallEnds, CallShape
    <2> QED
      BY <1>6, <2>2, <2>3, <2>4 DEF ReplyStep
  <1>7. ASSUME UNCHANGED workbenchVars PROVE Goal
    BY <1>1, <1>7 DEF workbenchVars
  <1> HIDE DEF Goal
  <1>8. Goal
    BY <1>3, <1>4, <1>5, <1>6, <1>7 DEF WorkbenchNext, PageStep
  <1> QED
    BY <1>8 DEF Goal

(* The replies keep their shape, and the row that waits has its reply.     *)
LEMMA CallShapeStep ==
    ASSUME DaemonShape, PageShape, CallShape, SubmittingIsInFlight, WorkbenchAssumption,
           [WorkbenchNext]_workbenchVars
    PROVE  CallShape' /\ SubmittingIsInFlight'
PROOF
  <1>1. replyMode' \in BOOLEAN
    BY CallsStep
  <1>2. CASE CallsSame
    BY <1>1, <1>2 DEF CallsSame, CallShape, SubmittingIsInFlight
  <1>3. ASSUME NEW r \in Slot, NEW t \in Task, CallSent(r, t)
        PROVE  CallShape' /\ SubmittingIsInFlight'
    <2>1. PICK panel \in BOOLEAN :
            /\ calls' = [calls EXCEPT ![r] =
                            [pc |-> "posting", task |-> t, panel |-> panel, mounted |-> panel]]
            /\ panel => replyMode
      BY <1>3 DEF CallSent
    <2>2. calls' \in [Slot -> Reply]
      BY <2>1 DEF CallShape, Reply
    <2>3. calls'[r].pc = "posting" /\ calls'[r].task = t /\ (calls'[r].mounted => replyMode)
            /\ \A q \in Slot : q # r => calls'[q] = calls[q]
      BY <2>1 DEF CallShape
    <2>4. submitting' = t /\ replyMode' = replyMode
      BY <1>3 DEF CallSent
    <2>5. CallShape'
      BY <1>1, <2>2, <2>3, <2>4 DEF CallShape
    <2> QED
      BY <2>3, <2>4, <2>5 DEF SubmittingIsInFlight
  <1>4. ASSUME NEW r \in Slot, CallMoves(r) PROVE CallShape' /\ SubmittingIsInFlight'
    <2>1. CallShape'
      BY <1>1, <1>4 DEF CallMoves, CallShape
    <2>2. \A q \in Slot : calls[q].pc # "idle" => calls'[q].pc # "idle"
      BY <1>4 DEF CallMoves
    <2> QED
      BY <1>4, <2>1, <2>2 DEF CallMoves, SubmittingIsInFlight
  <1>5. ASSUME NEW r \in Slot, CallEnds(r) PROVE CallShape' /\ SubmittingIsInFlight'
    <2>1. NoReply \in Reply /\ NoReply.pc = "idle" /\ NoReply.mounted = FALSE
      BY DEF NoReply, Reply
    <2>2. calls' \in [Slot -> Reply] /\ \A q \in Slot : calls'[q] = calls[q] \/ calls'[q] = NoReply
      BY <1>5, <2>1 DEF CallEnds, CallShape
    <2> QED
      BY <1>1, <1>5, <2>1, <2>2 DEF CallEnds, CallShape, SubmittingIsInFlight
  <1> QED
    BY <1>2, <1>3, <1>4, <1>5, CallsStep


-----------------------------------------------------------------------------
(* What is on its way has happened.                                        *)

(* A row never returns to an earlier state, and no answer is forgotten.    *)
LEMMA RowsMoveOn ==
    ASSUME DaemonShape, CallShape, WorkbenchAssumption, [WorkbenchNext]_workbenchVars
    PROVE  /\ answers \subseteq answers'
           /\ \A t \in Task : /\ row[t] # "absent" => row'[t] # "absent"
                              /\ row[t] \in Retired => row'[t] \in Retired
                              /\ row[t] = "completed" => row'[t] = "completed"
PROOF
  <1> USE DEF serverVars, handlerVars, linkVars, listVars, faultVars, pageVars, screenVars,
              replyVars, DaemonOnly
  <1> DEFINE Goal == /\ answers \subseteq answers'
                     /\ \A t \in Task : /\ row[t] # "absent" => row'[t] # "absent"
                                        /\ row[t] \in Retired => row'[t] \in Retired
                                        /\ row[t] = "completed" => row'[t] = "completed"
  <1>1. ASSUME UNCHANGED <<row, answers>> PROVE Goal
    BY <1>1
  <1>2. ASSUME NEW t \in Task, NEW news, Insert(t, news) PROVE Goal
    <2>1. row[t] = "absent" /\ row' = [row EXCEPT ![t] = "pending"] /\ UNCHANGED answers
      BY <1>2 DEF Insert
    <2> QED
      BY <2>1 DEF DaemonShape, Retired
  <1>3. ASSUME NEW t \in Task, Complete(t), answers \subseteq answers' PROVE Goal
    <2>1. row' = [row EXCEPT ![t] = "completed"]
      BY <1>3 DEF Complete
    <2> QED
      BY <1>3, <2>1 DEF DaemonShape, Retired
  <1>4. ASSUME NEW t \in Task, row[t] = "pending", row' = [row EXCEPT ![t] = "cancelled"],
               UNCHANGED answers
        PROVE  Goal
    BY <1>4 DEF DaemonShape, Retired
  <1>5. ASSUME RegisterStep PROVE Goal
    <2>1. ASSUME NEW t \in Task, Ask(t) PROVE Goal
      BY <1>2, <2>1 DEF Ask
    <2>2. ASSUME NEW t \in Task, NEW old \in Task, Supersede(t, old) PROVE Goal
      BY <1>4, <2>2 DEF Supersede
    <2>3. ASSUME NEW asked \in asking, AskNext(asked) PROVE Goal
      BY <1>2, <2>3 DEF AskNext, DaemonShape
    <2>4. ASSUME NEW asked \in asking, AskFails(asked) PROVE Goal
      BY <1>1, <2>4 DEF AskFails
    <2> QED
      BY <1>5, <2>1, <2>2, <2>3, <2>4 DEF RegisterStep
  <1>6. ASSUME DaemonStep PROVE Goal
    <2>1. ASSUME NEW t \in Task, NEW from, ReplyElsewhere(t, from) PROVE Goal
      BY <1>3, <2>1 DEF ReplyElsewhere
    <2>2. ASSUME NEW t \in Task, Withdraw(t) PROVE Goal
      BY <1>4, <2>2 DEF Withdraw
    <2> QED
      BY <1>1, <1>5, <1>6, <2>1, <2>2 DEF DaemonStep, Tell, TellFails
  <1>7. ASSUME LinkStep \/ PageStep PROVE Goal
    BY <1>1, <1>7 DEF LinkStep, PageStep, Connect, Disconnect, Crash, ServePending, Loaded,
         LoadFails, Effect, applyEvent
  <1>8. ASSUME UserStep PROVE Goal
    BY <1>1, <1>8 DEF UserStep, Select, OpenReplacement, ChangeTab, OpenReply, CloseReply,
         updateDraft, QuickPaste, PanelSubmit, Submit
  <1>9. ASSUME NEW r \in Slot, ReplyStep(r) PROVE Goal
    BY <1>1, <1>3, <1>9 DEF ReplyStep, Post, PostTold, PostFails, Replied, Failed, Refreshed,
       CallShape
  <1>10. ASSUME UNCHANGED workbenchVars PROVE Goal
    BY <1>1, <1>10 DEF workbenchVars
  <1> HIDE DEF Goal
  <1>11. Goal
    BY <1>6, <1>7, <1>8, <1>9, <1>10 DEF WorkbenchNext
  <1> QED
    BY <1>11 DEF Goal

(* Of the events on their way, those that were not there before are about  *)
(* what this step did.                                                     *)
LEMMA NewsHappened ==
    ASSUME DaemonShape, CallShape, Happened, WorkbenchAssumption, [WorkbenchNext]_workbenchVars
    PROVE  \A event \in Range(wire') \cup Announced' :
             event \in Range(wire) \cup Announced \/ Tells(event, row', answers')
PROOF
  <1> USE DEF serverVars, handlerVars, linkVars, listVars, faultVars, pageVars, screenVars,
              replyVars, DaemonOnly
  <1> DEFINE Fine(events) == \A event \in events :
                  event \in Range(wire) \cup Announced \/ Tells(event, row', answers')
             Goal == Fine(Range(wire') \cup Announced')
  <1>1. ASSUME Range(wire') \subseteq Range(wire), untold' \subseteq untold PROVE Goal
    BY <1>1 DEF Announced
  <1>2. ASSUME NEW news \in News, untold' = untold \cup {news}, UNCHANGED wire,
               \A event \in Range(news) : Tells(event, row', answers')
        PROVE  Goal
    <2>1. Announced' = Announced \cup Range(news)
      BY <1>2 DEF Announced
    <2> QED
      BY <1>2, <2>1
  <1>3. ASSUME NEW event \in TaskEvent, Publish(event), Announced' \subseteq Announced,
               event \in Announced \/ Tells(event, row', answers')
        PROVE  Goal
    BY <1>3, PublishKeeps
  <1>4. ASSUME NEW t \in Task, row[t] = "absent", row' = [row EXCEPT ![t] = "pending"]
        PROVE  Tells(Created(t), row', answers')
    <2>1. row'[t] = "pending"
      BY <1>4 DEF DaemonShape
    <2> QED
      BY <2>1, EventsOf DEF Tells
  <1>5. ASSUME RegisterStep PROVE Goal
    <2>1. ASSUME NEW t \in Task, Ask(t) PROVE Goal
      <3>1. <<Created(t)>> \in News /\ Range(<<Created(t)>>) = {Created(t)}
        BY EventsOf, NewsOf
      <3>2. Tells(Created(t), row', answers')
        BY <1>4, <2>1 DEF Ask, Insert
      <3> QED
        BY <1>2, <2>1, <3>1, <3>2 DEF Ask, Insert
    <2>2. ASSUME NEW asked \in asking, AskNext(asked) PROVE Goal
      <3> DEFINE gone == Cancelled(asked.old, asked.task)
                 came == Created(asked.task)
      <3>1. asked.task \in Task /\ asked.old \in Task /\ row[asked.old] \in Retired
        BY DEF DaemonShape, Happened
      <3>2. <<gone, came>> \in News /\ Range(<<gone, came>>) = {gone, came}
        BY <3>1, EventsOf, NewsOf
      <3>3. row[asked.task] = "absent" /\ row' = [row EXCEPT ![asked.task] = "pending"]
              /\ untold' = untold \cup {<<gone, came>>} /\ UNCHANGED wire
        BY <2>2 DEF AskNext, Insert
      <3>4. Tells(came, row', answers')
        BY <1>4, <3>1, <3>3
      <3>5. row'[asked.old] = row[asked.old]
        BY <3>1, <3>3 DEF DaemonShape, Retired
      <3>6. gone.task = asked.old /\ gone.type = "cancelled"
        BY <3>1, EventsOf
      <3>7. Tells(gone, row', answers')
        BY <3>1, <3>5, <3>6 DEF Tells, Retired
      <3> HIDE DEF gone, came
      <3> QED
        BY <1>2, <3>2, <3>3, <3>4, <3>7
    <2>3. ASSUME NEW asked \in asking, AskFails(asked) PROVE Goal
      BY <1>1, <2>3 DEF AskFails
    <2>4. ASSUME NEW t \in Task, NEW old \in Task, Supersede(t, old) PROVE Goal
      BY <1>1, <2>4 DEF Supersede
    <2> QED
      BY <1>5, <2>1, <2>2, <2>3, <2>4 DEF RegisterStep
  <1>6. ASSUME NEW t \in Task, NEW from \in {"browser", "other"}, ReplyElsewhere(t, from)
        PROVE  Goal
    <2>1. <<Completed(t, from)>> \in News /\ Range(<<Completed(t, from)>>) = {Completed(t, from)}
      BY EventsOf, NewsOf
    <2>2. row' = [row EXCEPT ![t] = "completed"] /\ <<t, from>> \in answers'
            /\ untold' = untold \cup {<<Completed(t, from)>>} /\ UNCHANGED wire
      BY <1>6 DEF ReplyElsewhere, Complete
    <2>3. row'[t] = "completed"
      BY <2>2 DEF DaemonShape
    <2>4. Tells(Completed(t, from), row', answers')
      BY <2>2, <2>3, EventsOf DEF Tells, Retired
    <2> QED
      BY <1>2, <2>1, <2>2, <2>4
  <1>7. ASSUME NEW t \in Task, Withdraw(t) PROVE Goal
    <2>1. <<Cancelled(t, None)>> \in News /\ Range(<<Cancelled(t, None)>>) = {Cancelled(t, None)}
      BY EventsOf, NewsOf
    <2>2. row' = [row EXCEPT ![t] = "cancelled"]
            /\ untold' = untold \cup {<<Cancelled(t, None)>>} /\ UNCHANGED wire
      BY <1>7 DEF Withdraw
    <2>3. row'[t] = "cancelled"
      BY <2>2 DEF DaemonShape
    <2>4. Tells(Cancelled(t, None), row', answers')
      BY <2>3, EventsOf DEF Tells, Retired
    <2> QED
      BY <1>2, <2>1, <2>2, <2>4
  <1>8. ASSUME NEW news \in untold, Tell(news) PROVE Goal
    <2>1. news \in News
      BY DEF DaemonShape
    <2>2. Head(news) \in TaskEvent /\ Range(news) = {Head(news)} \cup Range(Tail(news))
      BY <2>1, NewsOf
    <2>3. Head(news) \in Announced /\ Range(Tail(news)) \subseteq Announced
      BY <2>2 DEF Announced
    <2>4. untold' = (untold \ {news}) \cup ({Tail(news)} \ {<<>>}) /\ Publish(Head(news))
      BY <1>8 DEF Tell
    <2>5. Announced' \subseteq Announced
      BY <2>3, <2>4 DEF Announced
    <2> QED
      BY <1>3, <2>2, <2>3, <2>4, <2>5
  <1>9. ASSUME NEW news \in untold, TellFails(news) PROVE Goal
    BY <1>1, <1>9 DEF TellFails
  <1>10. ASSUME DaemonStep PROVE Goal
    BY <1>5, <1>6, <1>7, <1>8, <1>9, <1>10 DEF DaemonStep
  <1>11. ASSUME NEW r \in Slot, ReplyStep(r) PROVE Goal
    <2> DEFINE event == Completed(calls[r].task, "browser")
    <2>1. ASSUME calls[r].pc \in {"stored", "posted"}, UNCHANGED row
          PROVE  event \in TaskEvent /\ Tells(event, row', answers')
      <3>1. calls[r].task \in Task /\ row'[calls[r].task] = "completed"
        BY <2>1 DEF CallShape, Happened
      <3> QED
        BY <3>1, EventsOf DEF Tells, Retired
    <2>2. ASSUME PostTold(r) PROVE Goal
      <3>1. Publish(event) /\ calls[r].pc = "stored" /\ UNCHANGED <<row, untold>>
        BY <2>2 DEF PostTold
      <3> HIDE DEF event
      <3> QED
        BY <1>3, <2>1, <3>1 DEF Announced
    <2>3. ASSUME PostFails(r) PROVE Goal
      <3>1. UNCHANGED <<row, wire>>
              /\ (untold' = untold \/ (calls[r].pc = "stored" /\ untold' = untold \cup {<<event>>}))
        BY <2>3 DEF PostFails
      <3> HIDE DEF event
      <3>2. calls[r].pc = "stored" => <<event>> \in News /\ Range(<<event>>) = {event}
        BY <2>1, <3>1, NewsOf
      <3> QED
        BY <1>1, <1>2, <2>1, <3>1, <3>2
    <2> QED
      BY <1>1, <1>11, <2>2, <2>3 DEF ReplyStep, Post, Replied, Failed, Refreshed
  <1>12. ASSUME LinkStep \/ applyEvent PROVE Goal
    <2>1. CASE Connect
      BY <1>1, <2>1 DEF Connect
    <2>2. CASE Disconnect \/ Crash
      <3>1. Range(wire') = {} /\ untold' \subseteq untold
        BY <2>2 DEF Disconnect, Crash, Range
      <3> QED
        BY <1>1, <3>1
    <2>3. CASE applyEvent
      <3>1. Range(wire') \subseteq Range(wire) /\ UNCHANGED untold
        BY <2>3, PartElements DEF applyEvent, DaemonShape
      <3> QED
        BY <1>1, <3>1
    <2> QED
      BY <1>12, <2>1, <2>2, <2>3 DEF LinkStep
  <1>13. ASSUME ServePending \/ Loaded \/ LoadFails \/ Effect \/ UserStep PROVE Goal
    BY <1>1, <1>13 DEF ServePending, Loaded, LoadFails, Effect, UserStep, Select, OpenReplacement,
         ChangeTab, OpenReply, CloseReply, updateDraft, QuickPaste, PanelSubmit, Submit
  <1>14. ASSUME UNCHANGED workbenchVars PROVE Goal
    BY <1>1, <1>14 DEF workbenchVars
  <1> HIDE DEF Goal
  <1>15. Goal
    BY <1>10, <1>11, <1>12, <1>13, <1>14 DEF WorkbenchNext, PageStep
  <1> QED
    BY <1>15 DEF Goal

(* A registration waits for its insert only after it cancelled an open     *)
(* question.                                                               *)
LEMMA AskingStep ==
    ASSUME DaemonShape, WorkbenchAssumption, [WorkbenchNext]_workbenchVars
    PROVE  \A asked \in asking' : asked \in asking \/ row'[asked.old] \in Retired
PROOF
  <1> USE DEF serverVars, handlerVars, linkVars, listVars, faultVars, pageVars, screenVars,
              replyVars, DaemonOnly
  <1>1. ASSUME NEW t \in Task, NEW old \in Task, Supersede(t, old)
        PROVE  \A asked \in asking' : asked \in asking \/ row'[asked.old] \in Retired
    <2>1. asking' = asking \cup {[task |-> t, old |-> old]}
            /\ row' = [row EXCEPT ![old] = "cancelled"]
      BY <1>1 DEF Supersede
    <2>2. row'[old] \in Retired
      BY <2>1 DEF DaemonShape, Retired
    <2> QED
      BY <2>1, <2>2
  <1>2. ASSUME DaemonStep, ~ \E t, old \in Task : Supersede(t, old) PROVE asking' \subseteq asking
    BY <1>2 DEF DaemonStep, RegisterStep, Ask, AskNext, AskFails, Insert, Tell, TellFails, Withdraw,
       ReplyElsewhere
  <1>3. ASSUME LinkStep \/ PageStep PROVE asking' \subseteq asking
    BY <1>3 DEF LinkStep, PageStep, Connect, Disconnect, Crash, ServePending, Loaded, LoadFails,
       Effect, applyEvent
  <1>4. ASSUME UserStep PROVE asking' \subseteq asking
    BY <1>4 DEF UserStep, Select, OpenReplacement, ChangeTab, OpenReply, CloseReply, updateDraft,
       QuickPaste, PanelSubmit, Submit
  <1>5. ASSUME NEW r \in Slot, ReplyStep(r) PROVE asking' \subseteq asking
    BY <1>5 DEF ReplyStep, Post, PostTold, PostFails, Replied, Failed, Refreshed
  <1>6. ASSUME UNCHANGED workbenchVars PROVE asking' \subseteq asking
    BY <1>6 DEF workbenchVars
  <1> QED
    BY <1>1, <1>2, <1>3, <1>4, <1>5, <1>6 DEF WorkbenchNext

(* What is told, or about to be, stays true, and a reply that is stored    *)
(* has completed its question.                                             *)
LEMMA HappenedStep ==
    ASSUME DaemonShape, PageShape, CallShape, Happened, WorkbenchAssumption,
           [WorkbenchNext]_workbenchVars
    PROVE  Happened'
PROOF
  <1>1. /\ answers \subseteq answers'
        /\ \A t \in Task : /\ row[t] # "absent" => row'[t] # "absent"
                           /\ row[t] \in Retired => row'[t] \in Retired
                           /\ row[t] = "completed" => row'[t] = "completed"
    BY RowsMoveOn
  <1>2. \A event \in Range(wire) \cup Announced :
          Tells(event, row, answers) /\ event.task \in Task
    BY DEF Happened, DaemonShape, Range, TaskEvent, Announced, News
  <1>3. \A event \in Range(wire) \cup Announced : Tells(event, row', answers')
    BY <1>1, <1>2 DEF Tells
  <1>4. \A event \in Range(wire') \cup Announced' : Tells(event, row', answers')
    BY <1>3, NewsHappened
  <1>5. \A asked \in asking : row'[asked.old] \in Retired
    BY <1>1 DEF Happened, DaemonShape
  <1>6. \A asked \in asking' : row'[asked.old] \in Retired
    BY <1>5, AskingStep
  <1>7. ASSUME NEW r \in Slot, calls'[r].pc \in {"stored", "posted"}
        PROVE  row'[calls'[r].task] = "completed"
    <2>1. ASSUME calls[r].pc \in {"stored", "posted"}, calls'[r].task = calls[r].task
          PROVE  row'[calls'[r].task] = "completed"
      BY <1>1, <2>1 DEF Happened, CallShape
    <2>2. ASSUME Post(r), calls'[r].task = calls[r].task PROVE row'[calls'[r].task] = "completed"
      <3>1. calls[r].task \in Task /\ row' = [row EXCEPT ![calls[r].task] = "completed"]
        BY <2>2 DEF Post, Complete, CallShape
      <3> QED
        BY <2>2, <3>1 DEF DaemonShape
    <2>3. CASE CallsSame
      BY <1>7, <2>1, <2>3 DEF CallsSame
    <2>4. ASSUME NEW q \in Slot, NEW t \in Task, CallSent(q, t)
          PROVE  row'[calls'[r].task] = "completed"
      BY <1>7, <2>1, <2>4 DEF CallSent, CallShape
    <2>5. ASSUME NEW q \in Slot, CallEnds(q) PROVE row'[calls'[r].task] = "completed"
      BY <1>7, <2>1, <2>5 DEF CallEnds, CallShape, NoReply
    <2>6. ASSUME NEW q \in Slot, CallMoves(q) PROVE row'[calls'[r].task] = "completed"
      BY <1>7, <2>1, <2>2, <2>6 DEF CallMoves, CallShape
    <2> QED
      BY <2>3, <2>4, <2>5, <2>6, CallsStep
  <1> QED
    BY <1>4, <1>6, <1>7 DEF Happened

(* Only questions that were asked are ever listed: those of an event, and  *)
(* those the daemon serves.                                                *)
LEMMA SeenWasAskedStep ==
    ASSUME DaemonShape, PageShape, CallShape, Happened, SeenWasAsked, WorkbenchAssumption,
           [WorkbenchNext]_workbenchVars
    PROVE  SeenWasAsked'
PROOF
  <1> USE DEF serverVars, handlerVars, linkVars, listVars, faultVars, pageVars, screenVars,
              replyVars, DaemonOnly
  <1>1. Seen \subseteq Task
    BY DEF Seen, PageShape, Load, Lists, Range
  <1>2. \A t \in Task : row[t] # "absent" => row'[t] # "absent"
    BY RowsMoveOn
  <1>3. ASSUME NEW more \in SUBSET Task, \A t \in more : row[t] # "absent",
               Seen' \subseteq Seen \cup more
        PROVE  SeenWasAsked'
    BY <1>1, <1>2, <1>3 DEF SeenWasAsked
  <1>4. ASSUME Seen' \subseteq Seen PROVE SeenWasAsked'
    BY <1>1, <1>2, <1>4 DEF SeenWasAsked
  <1>5. ASSUME UNCHANGED <<load, pending, pendingRef>> PROVE SeenWasAsked'
    BY <1>4, <1>5 DEF Seen
  <1>6. ASSUME ServePending PROVE SeenWasAsked'
    <2>1. Range(open) \in SUBSET Task /\ \A t \in Range(open) : row[t] # "absent"
      BY DEF DaemonShape
    <2>2. load'.pending = open /\ UNCHANGED <<pending, pendingRef>>
      BY <1>6 DEF ServePending, PageShape, Load
    <2>3. Seen' \subseteq Seen \cup Range(open)
      BY <2>2 DEF Seen
    <2> QED
      BY <1>3, <2>1, <2>3
  <1>7. ASSUME Loaded PROVE SeenWasAsked'
    <2>1. pending' = load.pending /\ load.pending # None /\ load'.pending = None
            /\ UNCHANGED pendingRef
      BY <1>7 DEF Loaded, NoLoad
    <2>2. Seen' \subseteq Seen
      BY <2>1 DEF Seen
    <2> QED
      BY <1>4, <2>2
  <1>8. ASSUME LoadFails PROVE SeenWasAsked'
    <2>1. load'.pending = None /\ UNCHANGED <<pending, pendingRef>>
      BY <1>8 DEF LoadFails, NoLoad
    <2>2. Seen' \subseteq Seen
      BY <2>1 DEF Seen
    <2> QED
      BY <1>4, <2>2
  <1>9. ASSUME Effect PROVE SeenWasAsked'
    <2>1. Seen' \subseteq Seen
      BY <1>9 DEF Effect, Seen
    <2> QED
      BY <1>4, <2>1
  <1>10. ASSUME applyEvent PROVE SeenWasAsked'
    <2> DEFINE t == Head(wire).task
    <2>1. t \in Task /\ row[t] # "absent"
      BY <1>10, HeadOfWire DEF applyEvent, Happened, Tells
    <2>2. load'.pending = load.pending /\ UNCHANGED pendingRef
      BY <1>10 DEF applyEvent, PageShape, Load
    <2>3. Without(pending, {t}) \in Lists /\ Range(Without(pending, {t})) = Range(pending) \ {t}
      BY <2>1, ListsClosed DEF PageShape
    <2>4. pending' = Without(pending, {t}) \/ pending' = <<t>> \o Without(pending, {t})
      BY <1>10 DEF applyEvent, applyCreated, applyRetired
    <2> HIDE DEF t
    <2> DEFINE rest == Without(pending, {t})
    <2>5. rest \in Lists /\ t \notin Range(rest) /\ Range(rest) \subseteq Range(pending)
      BY <2>3
    <2> HIDE DEF rest
    <2>6. Range(<<t>> \o rest) = {t} \cup Range(rest)
      BY <2>1, <2>5, ListsClosed
    <2>7. Range(pending') \subseteq Range(pending) \cup {t}
      BY <2>4, <2>5, <2>6 DEF rest
    <2>8. Seen' \subseteq Seen \cup {t}
      BY <2>2, <2>7 DEF Seen
    <2> QED
      BY <1>3, <2>1, <2>8
  <1>11. ASSUME NEW r \in Slot, ReplyStep(r) PROVE SeenWasAsked'
    <2>1. ASSUME Replied(r) PROVE SeenWasAsked'
      <3>1. pending' = Without(pendingRef, {calls[r].task}) /\ UNCHANGED <<load, pendingRef>>
              /\ calls[r].task \in Task
        BY <2>1 DEF Replied, CallShape
      <3>2. Range(Without(pendingRef, {calls[r].task})) = Range(pendingRef) \ {calls[r].task}
        <4>1. pendingRef \in Lists
          BY DEF PageShape
        <4>2. PICK t \in Task : t = calls[r].task
          BY <3>1
        <4> QED
          BY <4>1, <4>2, ListsClosed
      <3>3. Range(pending') \subseteq Range(pendingRef)
        BY <3>1, <3>2
      <3>4. Seen' \subseteq Seen
        BY <3>1, <3>3 DEF Seen
      <3> QED
        BY <1>4, <3>4
    <2>2. ASSUME Post(r) \/ PostTold(r) \/ PostFails(r) PROVE SeenWasAsked'
      BY <1>5, <2>2 DEF Post, PostTold, PostFails
    <2>3. ASSUME Failed(r) \/ Refreshed(r) PROVE SeenWasAsked'
      BY <1>5, <2>3 DEF Failed, Refreshed
    <2> QED
      BY <1>11, <2>1, <2>2, <2>3 DEF ReplyStep
  <1>12. ASSUME DaemonStep \/ LinkStep PROVE SeenWasAsked'
    BY <1>5, <1>12, DaemonStepKeeps DEF LinkStep, Connect, Disconnect, Crash
  <1>13. ASSUME UserStep PROVE SeenWasAsked'
    BY <1>5, <1>13 DEF UserStep, Select, OpenReplacement, ChangeTab, OpenReply, CloseReply,
       updateDraft, QuickPaste, PanelSubmit, Submit
  <1>14. ASSUME UNCHANGED workbenchVars PROVE SeenWasAsked'
    BY <1>5, <1>14 DEF workbenchVars
  <1> QED
    BY <1>6, <1>7, <1>8, <1>9, <1>10, <1>11, <1>12, <1>13, <1>14 DEF WorkbenchNext, PageStep

-----------------------------------------------------------------------------
(* The focus.                                                              *)

(* What a step does to the focus: nothing; or the first load puts another  *)
(* one; or an empty one gets a question; or, with the reply panel closed,  *)
(* the user selects, or the question in focus is open no longer.           *)
LEMMA FocusStep ==
    ASSUME DaemonShape, PageShape, CallShape, Happened, WorkbenchAssumption,
           [WorkbenchNext]_workbenchVars
    PROVE  \/ focus' = focus
           \/ load.pc = "fetching" /\ focus'.pending.kind # "stale"
           \/ focus.pending.kind = "none" /\ focus'.pending.kind = "task"
           \/ /\ replyMode' = FALSE
              /\ \/ focus'.pending = focus.pending
                 \/ /\ focus'.pending.kind # "stale"
                    /\ focus.pending.kind = "stale" \/ \E u \in Task : Select(u)
                 \/ \E t \in Task :
                      /\ On(focus, t) /\ row[t] # "pending"
                      /\ focus'.pending.kind = "stale"
                           /\ focus'.pending.reason = "completed_elsewhere" =>
                             focus'.pending.task = t /\ <<t, "other">> \in answers
PROOF
  <1> USE DEF serverVars, handlerVars, linkVars, listVars, faultVars, pageVars, screenVars, replyVars
  <1> DEFINE Left(t) ==
               /\ On(focus, t) /\ row[t] # "pending"
               /\ focus'.pending.kind = "stale"
                    /\ focus'.pending.reason = "completed_elsewhere" =>
                      focus'.pending.task = t /\ <<t, "other">> \in answers
             Goal == \/ focus' = focus
                     \/ load.pc = "fetching" /\ focus'.pending.kind # "stale"
                     \/ focus.pending.kind = "none" /\ focus'.pending.kind = "task"
                     \/ /\ replyMode' = FALSE
                        /\ \/ focus'.pending = focus.pending
                           \/ /\ focus'.pending.kind # "stale"
                              /\ focus.pending.kind = "stale" \/ \E u \in Task : Select(u)
                           \/ \E t \in Task : Left(t)
  <1>1. \A value : [focus EXCEPT !.pending = value].pending = value
    BY DEF PageShape
  <1>2. \A list : FirstOf(list).kind # "stale"
    BY DEF FirstOf, none, focusTask
  <1>3. ASSUME NEW t \in Task, NEW list, focus' = applyTaskCompletedLocally(focus, t, list),
               row[t] # "pending", replyMode' = FALSE
        PROVE  Goal
    <2>1. CASE ~ On(focus, t)
      BY <1>3, <2>1 DEF applyTaskCompletedLocally
    <2>2. CASE On(focus, t)
      <3>1. focus'.pending = FirstOf(Without(list, {t}))
        BY <1>1, <1>3, <2>2 DEF applyTaskCompletedLocally
      <3>2. Left(t)
        BY <1>2, <1>3, <2>2, <3>1
      <3> QED
        BY <1>3, <3>2
    <2> QED
      BY <2>1, <2>2
  <1>4. ASSUME Loaded PROVE Goal
    <2>1. PICK history \in {<<>>} \cup {<<t>> : t \in Task} :
            focus' = PendingPane(initializeFocus(load.pending, history))
      BY <1>4 DEF Loaded
    <2>2. focus'.pending = FirstOf(load.pending)
      BY <2>1 DEF PendingPane, initializeFocus
    <2> QED
      BY <1>2, <1>4, <2>2 DEF Loaded
  <1>5. ASSUME applyEvent PROVE Goal
    <2> DEFINE event == Head(wire)
               t == event.task
               known == t \in Range(pendingRef)
    <2>1. event \in Range(wire) /\ t \in Task /\ event.type \in {"created", "completed", "cancelled"}
            /\ (event.type = "completed" => event.source \in {"browser", "other"})
      BY <1>5, HeadOfWire DEF applyEvent
    <2>2. Tells(event, row, answers)
      BY <2>1 DEF Happened
    <2>3. CASE event.type = "created"
      <3>1. focus' = applyTaskCreated(focus, t)
        BY <1>5, <2>3 DEF applyEvent, applyCreated
      <3>2. focusTask(t).kind = "task"
        BY DEF focusTask
      <3> HIDE DEF t
      <3> QED
        BY <1>1, <3>1, <3>2 DEF applyTaskCreated
    <2>4. CASE event.type # "created"
      <3>1. applyRetired(event)
        BY <1>5, <2>4 DEF applyEvent
      <3>2. replyMode' = FALSE
        BY <3>1 DEF applyRetired, ClosePanel
      <3>3. row[t] # "pending"
        BY <2>1, <2>2, <2>4 DEF Tells, Retired
      <3>4. CASE focus' = applyTaskCompletedLocally(focus, t, Without(pendingRef, {t}))
        BY <1>3, <2>1, <3>2, <3>3, <3>4
      <3>5. ASSUME event.type = "completed", ~ OwnReply(event),
                   focus' = applyTaskCompleted(focus, t, known)
            PROVE  Goal
        <4>1. <<t, "other">> \in answers
          BY <2>1, <2>2, <3>5 DEF Tells, OwnReply
        <4>2. staleFocus(t, "completed_elsewhere", None).task = t
          BY DEF staleFocus
        <4>3. focus' = focus \/ (On(focus, t) /\ focus'.pending.task = t)
          <5> HIDE DEF t, known
          <5> QED
            BY <1>1, <3>5, <4>2 DEF applyTaskCompleted
        <4> HIDE DEF t, event
        <4> QED
          BY <2>1, <3>2, <3>3, <4>1, <4>3
      <3>6. ASSUME event.type = "cancelled", focus' = applyTaskCancelled(focus, t, event.by, known)
            PROVE  Goal
        <4> DEFINE why == IF event.by = None THEN "cancelled" ELSE "superseded"
        <4>1. staleFocus(t, why, event.by).reason # "completed_elsewhere"
          BY DEF staleFocus
        <4>2. focus' = focus \/ (On(focus, t) /\ focus'.pending.reason # "completed_elsewhere")
          <5>1. focus' = IF On(focus, t) /\ known
                          THEN [focus EXCEPT !.pending = staleFocus(t, why, event.by)]
                          ELSE focus
            BY <3>6 DEF applyTaskCancelled
          <5> HIDE DEF t, known, why, event
          <5> QED
            BY <1>1, <4>1, <5>1
        <4> HIDE DEF t, event
        <4> QED
          BY <2>1, <3>2, <3>3, <4>2
      <3> QED
        BY <3>1, <3>4, <3>5, <3>6 DEF applyRetired
    <2> QED
      BY <2>3, <2>4
  <1>6. ASSUME NEW t \in Task, selectTask(focus, "pending", t) = focus' PROVE focus'.pending.kind # "stale"
    <2>1. focus'.pending = focusTask(t)
      BY <1>6 DEF selectTask, PageShape
    <2> QED
      BY <2>1 DEF focusTask
  <1>7. ASSUME UserStep PROVE Goal
    <2>1. ASSUME NEW t \in Task, Select(t) PROVE Goal
      BY <1>6, <2>1 DEF Select, ClosePanel
    <2>2. ASSUME OpenReplacement PROVE Goal
      <3>1. focus.pending.by \in Task /\ focus.pending.kind = "stale" /\ replyMode' = FALSE
              /\ focus' = selectTask(focus, "pending", focus.pending.by)
        BY <2>2 DEF OpenReplacement, PageShape, Lists, Range, ClosePanel
      <3>2. focus'.pending.kind # "stale"
        BY <1>6, <3>1
      <3> QED
        BY <3>1, <3>2
    <2>3. ASSUME NEW value \in {"pending", "history"}, ChangeTab(value) PROVE Goal
      BY <2>3 DEF ChangeTab, changeSurface, ClosePanel, PageShape
    <2> QED
      BY <1>7, <2>1, <2>2, <2>3 DEF UserStep, OpenReply, CloseReply, updateDraft, QuickPaste,
         PanelSubmit, Submit
  <1>8. ASSUME NEW r \in Slot, ReplyStep(r) PROVE Goal
    <2>1. ASSUME Replied(r) PROVE Goal
      <3>1. calls[r].task \in Task /\ row[calls[r].task] # "pending" /\ replyMode' = FALSE
        BY <2>1 DEF Replied, Happened, CallShape, ClosePanel
      <3>2. focus' = applyTaskCompletedLocally(focus, calls[r].task, Without(pendingRef, {calls[r].task}))
        BY <2>1 DEF Replied
      <3> QED
        BY <1>3, <3>1, <3>2
    <2> QED
      BY <1>8, <2>1 DEF ReplyStep, Post, PostTold, PostFails, Failed, Refreshed
  <1>9. ASSUME DaemonStep \/ LinkStep \/ ServePending \/ LoadFails \/ Effect PROVE Goal
    BY <1>9, DaemonStepKeeps DEF LinkStep, Connect, Disconnect, Crash, ServePending, LoadFails, Effect
  <1>10. ASSUME UNCHANGED workbenchVars PROVE Goal
    BY <1>10 DEF workbenchVars
  <1> HIDE DEF Goal
  <1>11. Goal
    BY <1>4, <1>5, <1>7, <1>8, <1>9, <1>10 DEF WorkbenchNext, PageStep
  <1> QED
    BY <1>11 DEF Goal

(* The tab says that another client replied only where one did.            *)
LEMMA ElsewhereStep ==
    ASSUME DaemonShape, PageShape, CallShape, Happened, ElsewhereIsElsewhere, WorkbenchAssumption,
           [WorkbenchNext]_workbenchVars
    PROVE  ElsewhereIsElsewhere'
PROOF
  <1>1. answers \subseteq answers'
    BY RowsMoveOn
  <1> QED
    BY <1>1, FocusStep DEF ElsewhereIsElsewhere

-----------------------------------------------------------------------------
(* What the events on their way foretell.                                  *)

(* One more event says the last word about its question, if it matters.    *)
LEMMA OneMoreWord ==
    ASSUME NEW events \in Seq(TaskEvent), NEW event \in TaskEvent, NEW rows, NEW but,
           LastWordsHold(events, rows, but \cup {event.task}),
           event.task \in but \/ (event.type = "created" <=> rows[event.task] = "pending")
    PROVE  LastWordsHold(Append(events, event), rows, but)
PROOF
  <1> DEFINE more == Append(events, event)
  <1>1. DOMAIN more = 1..(Len(events) + 1) /\ DOMAIN events = 1..Len(events) /\ Len(events) \in Nat
    OBVIOUS
  <1>2. more[Len(events) + 1] = event /\ \A j \in 1..Len(events) : more[j] = events[j]
    OBVIOUS
  <1> HIDE DEF more
  <1> SUFFICES ASSUME NEW i \in DOMAIN more, more[i].task \notin but, LastWord(more, i)
               PROVE  more[i].type = "created" <=> rows[more[i].task] = "pending"
    BY DEF LastWordsHold, more
  <1>3. CASE i = Len(events) + 1
    BY <1>2, <1>3
  <1>4. CASE i # Len(events) + 1
    <2>1. i \in DOMAIN events /\ more[i] = events[i] /\ ~ (Len(events) + 1 <= i)
            /\ Len(events) + 1 \in DOMAIN more
      BY <1>1, <1>2, <1>4
    <2>2. events[i].task # event.task
      BY <1>2, <2>1 DEF LastWord
    <2>3. LastWord(events, i)
      BY <1>1, <1>2, <2>1 DEF LastWord
    <2> QED
      BY <2>1, <2>2, <2>3 DEF LastWordsHold
  <1> QED
    BY <1>3, <1>4

(* The last words are the same without the first event.                    *)
LEMMA OneWordLess ==
    ASSUME NEW events \in Seq(TaskEvent), events # <<>>, NEW rows, NEW but,
           LastWordsHold(events, rows, but)
    PROVE  /\ LastWordsHold(Tail(events), rows, but)
           /\ \A t \in Task \ but :
                t = Head(events).task /\ (\A e \in Range(Tail(events)) : e.task # t) =>
                  (Head(events).type = "created" <=> rows[t] = "pending")
PROOF
  <1> DEFINE less == Tail(events)
  <1>1. /\ DOMAIN events = 1..Len(events) /\ Len(events) \in Nat \ {0} /\ Head(events) = events[1]
        /\ DOMAIN less = 1..(Len(events) - 1) /\ \A i \in 1..(Len(events) - 1) : less[i] = events[i + 1]
    OBVIOUS
  <1>2. \A j \in DOMAIN events : j = 1 \/ (j - 1 \in DOMAIN less /\ (j - 1) + 1 = j)
    BY <1>1
  <1>3. 1 \in DOMAIN events /\ \A i \in DOMAIN less : i + 1 \in DOMAIN events
    BY <1>1
  <1> HIDE DEF less
  <1>4. ASSUME NEW i \in DOMAIN less, less[i].task \notin but, LastWord(less, i)
        PROVE  less[i].type = "created" <=> rows[less[i].task] = "pending"
    <2>1. LastWord(events, i + 1)
      <3> SUFFICES ASSUME NEW j \in DOMAIN events, events[j].task = events[i + 1].task
                   PROVE  j <= i + 1
        BY DEF LastWord
      <3>1. CASE j = 1
        BY <1>1, <3>1
      <3>2. CASE j # 1
        <4>1. j - 1 \in DOMAIN less /\ less[j - 1].task = less[i].task
          BY <1>1, <1>2, <3>2
        <4>2. j - 1 <= i
          BY <1>4, <4>1 DEF LastWord
        <4> QED
          BY <1>1, <4>2
      <3> QED
        BY <3>1, <3>2
    <2> QED
      BY <1>1, <1>3, <1>4, <2>1 DEF LastWordsHold
  <1>5. ASSUME NEW t \in Task \ but, t = Head(events).task, \A e \in Range(less) : e.task # t
        PROVE  Head(events).type = "created" <=> rows[t] = "pending"
    <2>1. LastWord(events, 1)
      <3> SUFFICES ASSUME NEW j \in DOMAIN events, events[j].task = events[1].task, j # 1
                   PROVE  FALSE
        BY <1>1 DEF LastWord
      <3>1. j - 1 \in DOMAIN less /\ less[j - 1].task = t
        BY <1>1, <1>2, <1>5
      <3> QED
        BY <1>5, <3>1 DEF Range
    <2> QED
      BY <1>1, <1>3, <1>5, <2>1 DEF LastWordsHold
  <1> QED
    BY <1>4, <1>5 DEF LastWordsHold, less

(* Nothing is said about a question less, unless it has been said.         *)
LEMMA FewerWords ==
    ASSUME NEW events \in Seq(TaskEvent), NEW rows, NEW but, NEW more,
           LastWordsHold(events, rows, but), but \cap Task \subseteq more
    PROVE  LastWordsHold(events, rows, more)
PROOF
  <1>1. \A i \in DOMAIN events : events[i].task \in Task
    BY DEF TaskEvent
  <1> QED
    BY <1>1 DEF LastWordsHold

(* The questions of the replies that are stored and not announced.         *)
StoredTasks == {calls[r].task : r \in {q \in Slot : calls[q].pc = "stored"}}

(* What is still to come is what registrations, handlers and stored        *)
(* replies are about, before a step and after it.                          *)
LEMMA ComingIs ==
    /\ Coming = {asked.old : asked \in asking} \cup {event.task : event \in Announced}
                    \cup StoredTasks
    /\ Coming' = {asked.old : asked \in asking'} \cup {event.task : event \in Announced'}
                    \cup StoredTasks'
  BY DEF Coming, Retiring, StoredTasks

(* A step that stores no reply and ends none that is stored.               *)
LEMMA StoredKept ==
    ASSUME CallShape,
           UserStep \/ applyEvent \/ UNCHANGED calls
             \/ \E r \in Slot : Replied(r) \/ Failed(r) \/ Refreshed(r)
    PROVE  StoredTasks' = StoredTasks
PROOF
  <1> DEFINE Same(q) == /\ calls'[q].pc = "stored" <=> calls[q].pc = "stored"
                        /\ calls[q].pc = "stored" => calls'[q].task = calls[q].task
  <1>1. ASSUME \A q \in Slot : Same(q) PROVE StoredTasks' = StoredTasks
    BY <1>1 DEF StoredTasks
  <1>2. ASSUME UNCHANGED calls PROVE \A q \in Slot : Same(q)
    BY <1>2
  <1>3. calls \in [Slot -> Reply]
    BY DEF CallShape
  <1>4. ASSUME ClosePanel(calls) PROVE \A q \in Slot : Same(q)
    BY <1>3, <1>4, ClosePanelKeeps
  <1>5. ASSUME NEW r \in Slot, NEW t, NEW panel, Submit(r, t, panel) PROVE \A q \in Slot : Same(q)
    BY <1>3, <1>5 DEF Submit
  <1>6. ASSUME UserStep PROVE \A q \in Slot : Same(q)
    <2>1. ASSUME NEW t, Select(t) PROVE \A q \in Slot : Same(q)
      BY <1>4, <2>1 DEF Select
    <2>2. ASSUME NEW value, ChangeTab(value) PROVE \A q \in Slot : Same(q)
      BY <1>4, <2>2 DEF ChangeTab
    <2>3. ASSUME OpenReplacement \/ CloseReply PROVE \A q \in Slot : Same(q)
      BY <1>4, <2>3 DEF OpenReplacement, CloseReply
    <2>4. ASSUME OpenReply \/ updateDraft PROVE \A q \in Slot : Same(q)
      BY <1>2, <2>4 DEF OpenReply, updateDraft
    <2>5. ASSUME NEW r \in Slot, NEW t, QuickPaste(r, t) PROVE \A q \in Slot : Same(q)
      BY <1>5, <2>5 DEF QuickPaste
    <2>6. ASSUME NEW r \in Slot, PanelSubmit(r) PROVE \A q \in Slot : Same(q)
      BY <1>5, <2>6 DEF PanelSubmit
    <2> HIDE DEF Same
    <2> QED
      BY <1>6, <2>1, <2>2, <2>3, <2>4, <2>5, <2>6 DEF UserStep
  <1>7. ASSUME applyEvent PROVE \A q \in Slot : Same(q)
    BY <1>2, <1>4, <1>7 DEF applyEvent, applyCreated, applyRetired
  <1>8. ASSUME NEW r \in Slot, Failed(r) \/ Refreshed(r) PROVE \A q \in Slot : Same(q)
    <2>1. calls[r].pc \in {"failed", "refreshing"} /\ calls' = [calls EXCEPT ![r] = NoReply]
      BY <1>8 DEF Failed, Refreshed
    <2>2. NoReply.pc = "idle"
      BY DEF NoReply
    <2> QED
      BY <1>3, <2>1, <2>2
  <1>9. ASSUME NEW r \in Slot, Replied(r) PROVE \A q \in Slot : Same(q)
    <2> DEFINE replies == [calls EXCEPT ![r].pc = "refreshing"]
    <2>1. ClosePanel(replies) /\ calls[r].pc = "posted"
      BY <1>9 DEF Replied
    <2>2. replies = [calls EXCEPT ![r] = [calls[r] EXCEPT !.pc = "refreshing"]]
      OBVIOUS
    <2>3. [calls[r] EXCEPT !.pc = "refreshing"] \in Reply
            /\ [calls[r] EXCEPT !.pc = "refreshing"].pc = "refreshing"
      BY <1>3 DEF Reply
    <2>4. replies \in [Slot -> Reply] /\ replies[r].pc = "refreshing"
            /\ \A q \in Slot : q # r => replies[q] = calls[q]
      BY <1>3, <2>2, <2>3
    <2> HIDE DEF replies
    <2> QED
      BY <2>1, <2>4, ClosePanelKeeps
  <1> HIDE DEF Same
  <1> QED
    BY <1>1, <1>2, <1>6, <1>7, <1>8, <1>9

(* A step that only opens questions, and leaves the others as they were.   *)
LEMMA ForetoldKeeps ==
    ASSUME DaemonShape, Foretold, UNCHANGED <<wire, load, pending>>, Open \subseteq Open',
           \A t \in Task : t \in Open' \/ row'[t] = row[t]
    PROVE  Foretold'
PROOF
  <1>1. wire \in Seq(TaskEvent) /\ \A i \in DOMAIN wire : wire[i].task \in Task
    BY DEF DaemonShape, TaskEvent
  <1>2. LastWordsHold(wire, row, Open')
    BY <1>1, FewerWords DEF Foretold
  <1>3. LastWordsHold(wire', row', Open')
    BY <1>1, <1>2 DEF LastWordsHold
  <1>4. Known' = Known /\ Mentioned' = Mentioned /\ \A t \in Task : Listed(t)' = Listed(t)
    BY DEF Known, Mentioned, Listed
  <1>5. ASSUME Known', NEW t \in Task \ (Open' \cup Mentioned')
        PROVE  Listed(t)' <=> row'[t] = "pending"
    BY <1>4, <1>5 DEF Foretold
  <1> QED
    BY <1>3, <1>5 DEF Foretold

(* An event is published: its question was to come, and is mentioned now,  *)
(* or still to come, or missed.                                            *)
LEMMA PublishIsForetold ==
    ASSUME DaemonShape, Foretold, WorkbenchAssumption, NEW event \in TaskEvent, Publish(event),
           Tells(event, row, answers), UNCHANGED <<row, load, pending>>,
           Coming \subseteq Coming' \cup {event.task},
           event.type = "created" /\ event.task \in Retiring => event.task \in Coming'
    PROVE  Foretold'
PROOF
  <1> DEFINE t == event.task
  <1>1. t \in Task
    BY DEF TaskEvent
  <1>2. missed \subseteq missed' /\ Open \subseteq Open' \cup {t}
    BY PublishKeeps DEF Open
  <1>3. t \in Open' \/ (event.type = "created" <=> row[t] = "pending")
    <2>1. event.type = "created" /\ row[t] # "pending" => t \in Open'
      BY PublishKeeps DEF Open
    <2>2. event.type # "created" => row[t] # "pending"
      BY DEF Tells, Retired
    <2> QED
      BY <2>1, <2>2
  <1> HIDE DEF t
  <1>4. CASE wire' = Append(wire, event) /\ Range(wire') = Range(wire) \cup {event}
    <2>1. LastWordsHold(wire, row, Open' \cup {t})
      BY <1>2, FewerWords DEF Foretold, DaemonShape
    <2>2. LastWordsHold(wire', row', Open')
      BY <1>3, <1>4, <2>1, OneMoreWord DEF DaemonShape, t
    <2>3. Mentioned' = Mentioned \cup {t}
      BY <1>4 DEF Mentioned, t
    <2>4. Known' = Known /\ \A u \in Task : Listed(u)' = Listed(u)
      BY DEF Known, Listed
    <2>5. ASSUME Known', NEW u \in Task \ (Open' \cup Mentioned')
          PROVE  Listed(u)' <=> row'[u] = "pending"
      BY <1>2, <2>3, <2>4, <2>5 DEF Foretold
    <2> QED
      BY <2>2, <2>5 DEF Foretold
  <1>5. CASE wire' = wire /\ t \in missed'
    <2>1. Open \subseteq Open'
      BY <1>2, <1>5 DEF Open
    <2> QED
      BY <1>5, <2>1, ForetoldKeeps
  <1>6. CASE wire' = wire /\ wire = <<>> /\ Unserved
    <2>1. ~ Known'
      BY <1>6 DEF Known, Unserved
    <2>2. LastWordsHold(wire', row', Open')
      BY <1>6 DEF LastWordsHold
    <2> QED
      BY <2>1, <2>2 DEF Foretold
  <1> QED
    BY <1>4, <1>5, <1>6, PublishKeeps DEF t

(* The connection is lost, with what is on the wire.                       *)
LEMMA CutIsForetold ==
    ASSUME Foretold, wire' = <<>>, UNCHANGED <<row, load, pending>>,
           Unserved \/ Open \cup Mentioned \subseteq Open'
    PROVE  Foretold'
PROOF
  <1>1. LastWordsHold(wire', row', Open')
    BY DEF LastWordsHold
  <1>2. Known' = Known /\ \A t \in Task : Listed(t)' = Listed(t)
    BY DEF Known, Listed
  <1>3. CASE Unserved
    BY <1>1, <1>2, <1>3 DEF Foretold, Known, Unserved
  <1>4. CASE Open \cup Mentioned \subseteq Open'
    <2>1. ASSUME Known', NEW t \in Task \ (Open' \cup Mentioned')
          PROVE  Listed(t)' <=> row'[t] = "pending"
      BY <1>2, <1>4, <2>1 DEF Foretold
    <2> QED
      BY <1>1, <2>1 DEF Foretold
  <1> QED
    BY <1>3, <1>4

(* A step of a registration: what it cancels is announced with the insert, *)
(* or missed when there is none.                                           *)
LEMMA RegisterIsForetold ==
    ASSUME DaemonShape, Foretold, WorkbenchAssumption, RegisterStep
    PROVE  Foretold'
PROOF
  <1> USE DEF handlerVars, linkVars, listVars, faultVars, pageVars, DaemonOnly
  <1>1. UNCHANGED <<wire, load, pending>>
    BY DEF RegisterStep, Ask, AskNext, Insert, AskFails, Supersede
  <1>2. StoredTasks' = StoredTasks
    BY DEF RegisterStep, Ask, AskNext, Insert, AskFails, Supersede, StoredTasks
  <1>3. ASSUME Open \subseteq Open', \A t \in Task : t \in Open' \/ row'[t] = row[t]
        PROVE  Foretold'
    BY <1>1, <1>3, ForetoldKeeps
  <1>4. ASSUME NEW t \in Task, Ask(t) PROVE Foretold'
    <2>1. Range(<<Created(t)>>) = {Created(t)} /\ Created(t).task = t
      BY EventsOf, NewsOf
    <2>2. untold' = untold \cup {<<Created(t)>>} /\ row' = [row EXCEPT ![t] = "pending"]
            /\ UNCHANGED <<asking, missed>>
      BY <1>4 DEF Ask, Insert
    <2>3. Announced' = Announced \cup {Created(t)}
      BY <2>1, <2>2 DEF Announced
    <2>4. Open \subseteq Open' /\ t \in Open'
      BY <1>2, <2>1, <2>2, <2>3, ComingIs DEF Open
    <2>5. \A u \in Task : u # t => row'[u] = row[u]
      BY <2>2 DEF DaemonShape
    <2> QED
      BY <1>3, <2>4, <2>5
  <1>5. ASSUME NEW t \in Task, NEW old \in Task, Supersede(t, old) PROVE Foretold'
    <2>1. asking' = asking \cup {[task |-> t, old |-> old]}
            /\ row' = [row EXCEPT ![old] = "cancelled"] /\ UNCHANGED <<untold, missed>>
      BY <1>5 DEF Supersede
    <2>2. Announced' = Announced
      BY <2>1 DEF Announced
    <2> DEFINE more == [task |-> t, old |-> old]
    <2>3. {asked.old : asked \in asking'} = {asked.old : asked \in asking} \cup {old}
      <3>1. more.old = old /\ asking' = asking \cup {more}
        BY <2>1
      <3> HIDE DEF more
      <3> QED
        BY <3>1
    <2>4. Open \subseteq Open' /\ old \in Open'
      BY <1>2, <2>1, <2>2, <2>3, ComingIs DEF Open
    <2>5. \A u \in Task : u # old => row'[u] = row[u]
      BY <2>1 DEF DaemonShape
    <2> QED
      BY <1>3, <2>4, <2>5
  <1>6. ASSUME NEW asked \in asking, AskNext(asked) PROVE Foretold'
    <2> DEFINE gone == Cancelled(asked.old, asked.task)
               came == Created(asked.task)
    <2>1. asked.task \in Task /\ asked.old \in Task
      BY DEF DaemonShape
    <2>2. Range(<<gone, came>>) = {gone, came} /\ gone.task = asked.old /\ came.task = asked.task
      BY <2>1, EventsOf, NewsOf
    <2>3. untold' = untold \cup {<<gone, came>>} /\ row' = [row EXCEPT ![asked.task] = "pending"]
            /\ asking' = asking \ {asked} /\ UNCHANGED missed
      BY <1>6 DEF AskNext, Insert
    <2> HIDE DEF gone, came
    <2>4. Announced' = Announced \cup {gone, came}
      BY <2>2, <2>3 DEF Announced
    <2>5. Open \subseteq Open' /\ asked.task \in Open'
      BY <1>2, <2>2, <2>3, <2>4, ComingIs DEF Open
    <2>6. \A u \in Task : u # asked.task => row'[u] = row[u]
      BY <2>3 DEF DaemonShape
    <2> QED
      BY <1>3, <2>5, <2>6
  <1>7. ASSUME NEW asked \in asking, AskFails(asked) PROVE Foretold'
    <2>1. asking' = asking \ {asked} /\ missed' = missed \cup {asked.old} /\ UNCHANGED <<row, untold>>
      BY <1>7 DEF AskFails
    <2>2. Open \subseteq Open'
      BY <1>2, <2>1, ComingIs DEF Open, Announced
    <2> QED
      BY <1>3, <2>1, <2>2
  <1> QED
    BY <1>4, <1>5, <1>6, <1>7 DEF RegisterStep

(* The other steps of the daemon's handlers.                               *)
LEMMA DaemonIsForetold ==
    ASSUME DaemonShape, Happened, Foretold, WorkbenchAssumption, DaemonStep
    PROVE  Foretold'
PROOF
  <1> USE DEF handlerVars, linkVars, listVars, faultVars, pageVars, DaemonOnly
  <1>1. ASSUME NEW t \in Task, NEW event \in TaskEvent, event.task = t, NEW now,
               untold' = untold \cup {<<event>>}, row' = [row EXCEPT ![t] = now],
               UNCHANGED <<asking, missed, wire, load, pending, calls>>
        PROVE  Foretold'
    <2>1. Announced' = Announced \cup {event}
      <3>1. Range(<<event>>) = {event}
        BY NewsOf
      <3> QED
        BY <1>1, <3>1 DEF Announced
    <2>2. StoredTasks' = StoredTasks
      BY <1>1 DEF StoredTasks
    <2>3. Open \subseteq Open' /\ t \in Open'
      BY <1>1, <2>1, <2>2, ComingIs DEF Open
    <2>4. \A u \in Task : u # t => row'[u] = row[u]
      BY <1>1 DEF DaemonShape
    <2> QED
      BY <1>1, <2>3, <2>4, ForetoldKeeps
  <1>2. ASSUME NEW t \in Task, NEW from \in {"browser", "other"}, ReplyElsewhere(t, from)
        PROVE  Foretold'
    <2>1. Completed(t, from) \in TaskEvent /\ Completed(t, from).task = t
      BY EventsOf
    <2>2. untold' = untold \cup {<<Completed(t, from)>>} /\ row' = [row EXCEPT ![t] = "completed"]
            /\ UNCHANGED <<asking, missed, wire, load, pending, calls>>
      BY <1>2 DEF ReplyElsewhere, Complete
    <2> QED
      BY <1>1, <2>1, <2>2
  <1>3. ASSUME NEW t \in Task, Withdraw(t) PROVE Foretold'
    <2>1. Cancelled(t, None) \in TaskEvent /\ Cancelled(t, None).task = t
      BY EventsOf
    <2>2. untold' = untold \cup {<<Cancelled(t, None)>>} /\ row' = [row EXCEPT ![t] = "cancelled"]
            /\ UNCHANGED <<asking, missed, wire, load, pending, calls>>
      BY <1>3 DEF Withdraw
    <2> QED
      BY <1>1, <2>1, <2>2
  <1>4. ASSUME NEW news \in untold, Tell(news) PROVE Foretold'
    <2> DEFINE event == Head(news)
    <2>1. news \in News
      BY DEF DaemonShape
    <2>2. event \in TaskEvent /\ Range(news) = {event} \cup Range(Tail(news))
      BY <2>1, NewsOf
    <2>3. Publish(event) /\ untold' = (untold \ {news}) \cup ({Tail(news)} \ {<<>>})
            /\ UNCHANGED <<row, asking, load, pending, calls>>
      BY <1>4 DEF Tell
    <2>4. event \in Announced
      BY <2>2 DEF Announced
    <2> HIDE DEF event
    <2>5. Tells(event, row, answers)
      BY <2>4 DEF Happened
    <2>6. Range(Tail(news)) \subseteq Announced'
      <3>1. Range(<<>>) = {}
        BY DEF Range
      <3> QED
        BY <2>3, <3>1 DEF Announced
    <2>7. Announced \subseteq Announced' \cup {event}
      BY <2>2, <2>3, <2>6 DEF Announced
    <2>8. StoredTasks' = StoredTasks
      BY <2>3 DEF StoredTasks
    <2>9. Coming \subseteq Coming' \cup {event.task}
      BY <2>3, <2>7, <2>8, ComingIs
    <2>10. ASSUME event.type = "created", event.task \in Retiring PROVE event.task \in Coming'
      <3>1. CASE \E asked \in asking : asked.old = event.task
        BY <2>3, <3>1, ComingIs
      <3>2. CASE \E e \in Announced : e.type # "created" /\ e.task = event.task
        <4>1. PICK e \in Announced : e.type # "created" /\ e.task = event.task
          BY <3>2
        <4>2. e \in Announced'
          BY <2>7, <2>10, <4>1
        <4> QED
          BY <4>1, <4>2, ComingIs
      <3>3. CASE event.task \in StoredTasks
        BY <2>8, <3>3, ComingIs
      <3> QED
        BY <2>10, <3>1, <3>2, <3>3 DEF Retiring, StoredTasks
    <2> QED
      BY <2>2, <2>3, <2>5, <2>9, <2>10, PublishIsForetold
  <1>5. ASSUME NEW news \in untold, TellFails(news) PROVE Foretold'
    <2>1. untold' = untold \ {news} /\ missed' = missed \cup {event.task : event \in Range(news)}
            /\ UNCHANGED <<row, asking, wire, load, pending, calls>>
      BY <1>5 DEF TellFails
    <2>2. Announced \subseteq Announced' \cup Range(news)
      BY <2>1 DEF Announced
    <2>3. StoredTasks' = StoredTasks
      BY <2>1 DEF StoredTasks
    <2>4. Open \subseteq Open'
      BY <2>1, <2>2, <2>3, ComingIs DEF Open
    <2> QED
      BY <2>1, <2>4, ForetoldKeeps
  <1> QED
    BY <1>2, <1>3, <1>4, <1>5, RegisterIsForetold DEF DaemonStep

(* The steps of the tab's replies.                                         *)
LEMMA ReplyIsForetold ==
    ASSUME DaemonShape, PageShape, CallShape, Happened, Foretold, WorkbenchAssumption,
           NEW r \in Slot, ReplyStep(r)
    PROVE  Foretold'
PROOF
  <1> USE DEF serverVars, handlerVars, linkVars, listVars, faultVars, pageVars, screenVars,
              replyVars
  <1> DEFINE t == calls[r].task
  <1>1. ASSUME NEW pc, Goto(r, pc)
        PROVE  \A q \in Slot : q # r => calls'[q] = calls[q]
    BY <1>1 DEF Goto, CallShape
  <1>2. ASSUME NEW pc, Goto(r, pc) PROVE StoredTasks \subseteq StoredTasks' \cup {t}
    BY <1>1, <1>2 DEF StoredTasks
  <1>3. ASSUME Post(r) PROVE Foretold'
    <2>1. Goto(r, "stored") /\ Complete(t) /\ calls[r].pc = "posting"
            /\ UNCHANGED <<handlerVars, wire, load, pending, missed>>
      BY <1>3 DEF Post
    <2>2. calls'[r] = [calls[r] EXCEPT !.pc = "stored"]
      BY <2>1 DEF Goto, CallShape
    <2>3. calls'[r].pc = "stored" /\ calls'[r].task = t
      BY <2>2 DEF CallShape, Reply
    <2>4. t \in StoredTasks' /\ StoredTasks \subseteq StoredTasks'
      BY <1>2, <2>1, <2>3 DEF StoredTasks
    <2>5. Open \subseteq Open' /\ t \in Open'
      BY <2>1, <2>4, ComingIs DEF Open, Announced
    <2>6. \A u \in Task : u # t => row'[u] = row[u]
      BY <2>1 DEF Complete, DaemonShape
    <2> QED
      BY <2>1, <2>5, <2>6, ForetoldKeeps
  <1>4. ASSUME PostTold(r) PROVE Foretold'
    <2> DEFINE event == Completed(t, "browser")
    <2>1. Goto(r, "posted") /\ Publish(event) /\ UNCHANGED <<row, handlerVars, load, pending>>
            /\ t \in Task /\ row[t] = "completed"
      BY <1>4 DEF PostTold, CallShape, Happened
    <2>2. event \in TaskEvent /\ event.task = t /\ event.type = "completed"
            /\ event.source = "browser"
      BY <2>1, EventsOf
    <2>3. Tells(event, row, answers)
      BY <2>1, <2>2 DEF Tells, Retired
    <2>4. Coming \subseteq Coming' \cup {t}
      BY <1>2, <2>1, ComingIs DEF Announced
    <2> HIDE DEF event
    <2> QED
      BY <2>1, <2>2, <2>3, <2>4, PublishIsForetold
  <1>5. ASSUME PostFails(r) PROVE Foretold'
    <2> DEFINE event == Completed(t, "browser")
    <2>1. Goto(r, "failed") /\ UNCHANGED <<row, asking, wire, load, pending>>
      BY <1>5 DEF PostFails
    <2>2. Open \subseteq Open'
      <3>1. CASE calls[r].pc # "stored" /\ UNCHANGED <<untold, missed>>
        <4>1. StoredTasks \subseteq StoredTasks'
          BY <1>1, <2>1, <3>1 DEF StoredTasks
        <4> QED
          BY <2>1, <3>1, <4>1, ComingIs DEF Open, Announced
      <3>2. CASE untold' = untold \cup {<<event>>} /\ calls[r].pc = "stored" /\ UNCHANGED missed
        <4>1. t \in Task
          BY <3>2 DEF CallShape
        <4>2. Range(<<event>>) = {event} /\ event.task = t
          BY <4>1, EventsOf, NewsOf
        <4>3. Announced' = Announced \cup {event}
          BY <3>2, <4>2 DEF Announced
        <4> HIDE DEF event
        <4> QED
          BY <1>2, <2>1, <3>2, <4>2, <4>3, ComingIs DEF Open
      <3>3. CASE missed' = missed \cup {t} /\ UNCHANGED untold
        BY <1>2, <2>1, <3>3, ComingIs DEF Open, Announced
      <3> QED
        BY <1>5, <3>1, <3>2, <3>3 DEF PostFails
    <2> QED
      BY <2>1, <2>2, ForetoldKeeps
  <1>6. ASSUME Replied(r) PROVE Foretold'
    <2>1. /\ missed' = missed \cup Differ(pending', Without(pending, {t}))
          /\ UNCHANGED <<row, handlerVars, wire, load>>
      BY <1>6 DEF Replied
    <2>2. t \in Task /\ row[t] # "pending"
      BY <1>6 DEF Replied, Happened, CallShape
    <2>3. Range(Without(pending, {t})) = Range(pending) \ {t}
      BY <2>2, ListsClosed DEF PageShape
    <2>4. Coming' = Coming
      BY <1>6, <2>1, StoredKept, ComingIs DEF Announced
    <2>5. \A u \in Task \ missed' : u \in Range(pending') <=> u \in Range(pending) \ {t}
      BY <2>1, <2>3 DEF Differ
    <2> HIDE DEF t
    <2>6. LastWordsHold(wire', row', Open')
      <3>1. Open \subseteq Open'
        BY <2>1, <2>4 DEF Open
      <3> QED
        BY <2>1, <3>1, FewerWords DEF Foretold, DaemonShape
    <2>7. ASSUME Known', NEW u \in Task \ (Open' \cup Mentioned')
          PROVE  Listed(u)' <=> row'[u] = "pending"
      <3>1. Known /\ u \notin Open \cup Mentioned /\ u \notin missed'
        BY <2>1, <2>4, <2>7 DEF Known, Open, Mentioned
      <3>2. Listed(u) <=> row[u] = "pending"
        BY <3>1 DEF Foretold
      <3>3. CASE load.pc = "done" \/ u \in load.overtaken
        BY <2>1, <2>2, <2>5, <3>1, <3>2, <3>3 DEF Listed
      <3>4. CASE ~ (load.pc = "done" \/ u \in load.overtaken)
        BY <2>1, <3>2, <3>4 DEF Listed
      <3> QED
        BY <3>3, <3>4
    <2> QED
      BY <2>6, <2>7 DEF Foretold
  <1>7. ASSUME Failed(r) \/ Refreshed(r) PROVE Foretold'
    <2>1. UNCHANGED <<row, handlerVars, wire, load, pending, missed>>
      BY <1>7 DEF Failed, Refreshed
    <2>2. Open' = Open
      BY <1>7, <2>1, StoredKept, ComingIs DEF Open, Announced
    <2> QED
      BY <2>1, <2>2, ForetoldKeeps
  <1> QED
    BY <1>3, <1>4, <1>5, <1>6, <1>7 DEF ReplyStep

(* The first load.                                                         *)
LEMMA LoadIsForetold ==
    ASSUME DaemonShape, PageShape, CallShape, SeenWasAsked, Foretold,
           ServePending \/ Loaded \/ LoadFails
    PROVE  Foretold'
PROOF
  <1> USE DEF serverVars, handlerVars, linkVars, listVars, faultVars, pageVars, screenVars,
              replyVars
  <1>1. UNCHANGED <<row, handlerVars, wire, calls>> /\ missed \subseteq missed'
    BY DEF ServePending, Loaded, LoadFails
  <1>2. Coming' = Coming /\ Open \subseteq Open' /\ Mentioned' = Mentioned
    BY <1>1, StoredKept, ComingIs DEF Open, Announced, Mentioned
  <1>3. LastWordsHold(wire', row', Open')
    BY <1>1, <1>2, FewerWords DEF Foretold, DaemonShape
  <1>4. ASSUME NEW t \in Task \ (Open' \cup Mentioned') PROVE Listed(t)' <=> row'[t] = "pending"
    <2>1. CASE ServePending
      <3>1. load.pc = "fetching" /\ load.overtaken = {} /\ load' = [load EXCEPT !.pending = open]
        BY <2>1 DEF ServePending, PageShape
      <3>2. load'.pc = "fetching" /\ load'.overtaken = {} /\ load'.pending = open
        BY <3>1 DEF PageShape, Load
      <3> QED
        BY <1>1, <3>2 DEF Listed, DaemonShape
    <2>2. CASE Loaded
      <3>1. load.pc = "fetching" /\ load.pending # None /\ pending' = load.pending
              /\ load'.pc = "done"
              /\ missed' = missed \cup (load.overtaken \cap Differ(pending, load.pending))
        BY <2>2 DEF Loaded, NoLoad
      <3>2. Listed(t) <=> row[t] = "pending"
        BY <1>2, <1>4, <3>1 DEF Foretold, Known
      <3>3. t \in load.overtaken => (t \in Range(pending) <=> t \in Range(load.pending))
        BY <1>4, <3>1 DEF Open, Differ
      <3>4. Listed(t) <=> t \in Range(load.pending)
        BY <3>1, <3>3 DEF Listed
      <3> QED
        BY <1>1, <3>1, <3>2, <3>4 DEF Listed
    <2>3. CASE LoadFails
      <3>1. load'.pc = "done" /\ pending' = pending
              /\ missed' = missed \cup {u \in Task : row[u] # "absent"}
        BY <2>3 DEF LoadFails, NoLoad
      <3>2. row[t] = "absent"
        BY <1>4, <3>1 DEF Open
      <3>3. t \notin Range(pending)
        BY <3>2 DEF SeenWasAsked, Seen
      <3> QED
        BY <1>1, <3>1, <3>2, <3>3 DEF Listed
    <2> QED
      BY <2>1, <2>2, <2>3
  <1> QED
    BY <1>3, <1>4 DEF Foretold

(* An event is applied: it was the last word about its question, or there  *)
(* is more to come.                                                        *)
LEMMA ApplyIsForetold ==
    ASSUME DaemonShape, PageShape, CallShape, Foretold, applyEvent
    PROVE  Foretold'
PROOF
  <1> USE DEF serverVars, handlerVars, faultVars
  <1> DEFINE event == Head(wire)
             t == event.task
  <1>1. wire # <<>> /\ wire' = Tail(wire) /\ UNCHANGED <<row, handlerVars, missed>>
          /\ load' = IF load.pending = None THEN load
                     ELSE [load EXCEPT !.overtaken = @ \cup {t}]
    BY DEF applyEvent
  <1>2. Open' = Open
    BY <1>1, StoredKept, ComingIs DEF Open, Announced
  <1>3. /\ LastWordsHold(wire', row', Open')
        /\ \A u \in Task \ Open :
              u = t /\ u \notin Mentioned' => (event.type = "created" <=> row[u] = "pending")
    BY <1>1, <1>2, OneWordLess DEF DaemonShape, Mentioned, Foretold
  <1>4. t \in Task /\ Mentioned = Mentioned' \cup {t}
    <2>1. Range(wire) = {event} \cup Range(wire')
      BY <1>1, PartElements DEF DaemonShape
    <2> QED
      BY <1>1, <2>1, HeadOfWire DEF Mentioned
  <1>5. Range(pending') = IF event.type = "created" THEN Range(pending) \cup {t}
                                                    ELSE Range(pending) \ {t}
    <2>1. Without(pending, {t}) \in Lists /\ Range(Without(pending, {t})) = Range(pending) \ {t}
      BY <1>4, ListsClosed DEF PageShape
    <2>2. CASE event.type = "created"
      <3>1. pending' = <<t>> \o Without(pending, {t})
        BY <2>2 DEF applyEvent, applyCreated
      <3> HIDE DEF t
      <3>2. Range(pending') = {t} \cup Range(Without(pending, {t}))
        BY <1>4, <2>1, <3>1, ListsClosed
      <3> QED
        BY <2>1, <2>2, <3>2
    <2>3. CASE event.type # "created"
      BY <2>1, <2>3 DEF applyEvent, applyRetired
    <2> QED
      BY <2>2, <2>3
  <1> HIDE DEF t, event
  <1>6. load'.pc = load.pc /\ load'.pending = load.pending
          /\ load'.overtaken \in {load.overtaken, load.overtaken \cup {t}}
          /\ (load.pending # None => load'.overtaken = load.overtaken \cup {t})
    BY <1>1 DEF PageShape, Load
  <1>7. ASSUME Known', NEW u \in Task \ (Open' \cup Mentioned')
        PROVE  Listed(u)' <=> row'[u] = "pending"
    <2>1. CASE u = t
      <3>1. event.type = "created" <=> row[u] = "pending"
        BY <1>2, <1>3, <1>7, <2>1
      <3>2. load'.pc = "done" \/ t \in load'.overtaken
        BY <1>6, <1>7 DEF Known
      <3> QED
        BY <1>1, <1>5, <2>1, <3>1, <3>2 DEF Listed
    <2>2. CASE u # t
      <3>1. Listed(u) <=> row[u] = "pending"
        BY <1>2, <1>4, <1>6, <1>7, <2>2 DEF Foretold, Known
      <3>2. u \in Range(pending') <=> u \in Range(pending)
        BY <1>5, <2>2
      <3>3. u \in load'.overtaken <=> u \in load.overtaken
        BY <1>6, <2>2
      <3> QED
        BY <1>1, <1>6, <3>1, <3>2, <3>3 DEF Listed
    <2> QED
      BY <2>1, <2>2
  <1> QED
    BY <1>3, <1>7 DEF Foretold

(* What is foretold stays so, or its question is missed.                   *)
LEMMA ForetoldStep ==
    ASSUME DaemonShape, PageShape, CallShape, Happened, SeenWasAsked, Foretold,
           WorkbenchAssumption, [WorkbenchNext]_workbenchVars
    PROVE  Foretold'
PROOF
  <1> USE DEF serverVars, handlerVars, linkVars, listVars, faultVars, pageVars, screenVars,
              replyVars
  <1>1. ASSUME UNCHANGED <<row, handlerVars, wire, load, pending, missed>>,
               StoredTasks' = StoredTasks
        PROVE  Foretold'
    <2>1. Open' = Open
      BY <1>1, ComingIs DEF Open, Announced
    <2> QED
      BY <1>1, <2>1, ForetoldKeeps
  <1>2. ASSUME UserStep \/ Effect \/ Connect \/ UNCHANGED workbenchVars PROVE Foretold'
    <2>1. UNCHANGED <<row, handlerVars, wire, load, pending, missed>>
      BY <1>2 DEF Effect, Connect, workbenchVars, UserStep, Select, OpenReplacement, ChangeTab,
         OpenReply, CloseReply, updateDraft, QuickPaste, PanelSubmit, Submit
    <2>2. UserStep \/ UNCHANGED calls
      BY <1>2 DEF Effect, Connect, workbenchVars
    <2> QED
      BY <1>1, <2>1, <2>2, StoredKept
  <1>3. ASSUME Disconnect PROVE Foretold'
    <2>1. wire' = <<>> /\ missed' = (IF Unserved THEN missed ELSE missed \cup Mentioned)
            /\ UNCHANGED <<row, handlerVars, load, pending, calls>>
      BY <1>3 DEF Disconnect
    <2>2. Coming' = Coming
      BY <2>1, StoredKept, ComingIs DEF Announced
    <2>3. Unserved \/ Open \cup Mentioned \subseteq Open'
      BY <2>1, <2>2 DEF Open
    <2> QED
      BY <2>1, <2>3, CutIsForetold
  <1>4. ASSUME Crash PROVE Foretold'
    <2>1. wire' = <<>> /\ missed' = (IF Unserved THEN missed ELSE missed \cup Mentioned \cup Coming)
            /\ UNCHANGED <<row, load, pending>>
      BY <1>4 DEF Crash
    <2>2. Unserved \/ Open \cup Mentioned \subseteq Open'
      BY <2>1 DEF Open
    <2> QED
      BY <2>1, <2>2, CutIsForetold
  <1> QED
    BY <1>2, <1>3, <1>4, DaemonIsForetold, ReplyIsForetold, LoadIsForetold, ApplyIsForetold
    DEF WorkbenchNext, LinkStep, PageStep

-----------------------------------------------------------------------------
(* The theorems.                                                           *)

(* The page opens on questions an older page has left, with nothing on its *)
(* way.                                                                    *)
LEMMA WorkbenchInvInitially ==
    WorkbenchInit /\ WorkbenchAssumption => WorkbenchInv
PROOF
  <1> SUFFICES ASSUME WorkbenchInit, WorkbenchAssumption PROVE WorkbenchInv
    OBVIOUS
  <1> USE DEF WorkbenchInit
  <1>1. <<>> \in Lists /\ Range(<<>>) = {}
    BY DEF Lists, IsInjective, Range
  <1>2. <<>> \in Seq(TaskEvent) /\ Len(<<>>) <= WireSize
    BY WorkbenchAssumption DEF WorkbenchAssumption
  <1>3. DaemonShape
    BY <1>1, <1>2 DEF DaemonShape
  <1>4. load.pc = "fetching" /\ load.pending = None
          /\ load.overtaken = {} /\ load \in Load
    BY DEF NoLoad, Load
  <1>5. focus \in Pane /\ focus.pending.kind = "none"
    BY DEF PendingPane, emptyFocusState, initializeFocus, FirstOf, none, SurfaceFocus, Pane
  <1>6. PageShape
    BY <1>1, <1>4, <1>5 DEF PageShape, Pane
  <1>7. NoReply \in Reply /\ NoReply.pc = "idle" /\ NoReply.mounted = FALSE
    BY DEF NoReply, Reply
  <1>8. CallShape
    BY <1>7 DEF CallShape
  <1>9. Happened
    BY <1>1, <1>7 DEF Happened, Announced
  <1>10. SubmittingIsInFlight /\ ElsewhereIsElsewhere /\ SeenWasAsked
    BY <1>1, <1>4, <1>5 DEF SubmittingIsInFlight, ElsewhereIsElsewhere, SeenWasAsked, Seen
  <1>11. Foretold
    BY <1>4 DEF Foretold, LastWordsHold, Known
  <1> QED
    BY <1>3, <1>6, <1>8, <1>9, <1>10, <1>11 DEF WorkbenchInv

(* The invariant holds of every reachable state.                           *)
LEMMA WorkbenchInvariance ==
    WorkbenchSpec => []WorkbenchInv
PROOF
  <1>1. WorkbenchInit => WorkbenchInv
    BY WorkbenchAssumption, WorkbenchInvInitially
  <1>2. WorkbenchInv /\ [WorkbenchNext]_workbenchVars => WorkbenchInv'
    BY WorkbenchAssumption, DaemonShapeStep, PageShapeStep, CallShapeStep, HappenedStep,
       ElsewhereStep, SeenWasAskedStep, ForetoldStep DEF WorkbenchInv
  <1> QED
    BY <1>1, <1>2, PTL DEF WorkbenchSpec

(* The state keeps its shape, and no question is listed twice, however     *)
(* many questions, replies and events there are.                           *)
THEOREM WorkbenchTypeCorrect == WorkbenchSpec => []WorkbenchTypeOK
PROOF
  <1>1. WorkbenchInv => WorkbenchTypeOK
    <2> SUFFICES ASSUME WorkbenchInv PROVE WorkbenchTypeOK
      OBVIOUS
    <2>1. \A list \in Lists : Range(list) \subseteq Task /\ IsInjective(list)
      BY DEF Lists, Range
    <2>2. Range(pending) \cup Range(pendingRef) \cup drafts \cup submitted \subseteq Task
            /\ IsInjective(pending)
      BY <2>1 DEF WorkbenchInv, PageShape
    <2>3. \A r \in Slot :
            /\ calls[r].pc \in {"idle", "posting", "stored", "posted", "failed", "refreshing"}
            /\ calls[r].mounted => replyMode
      BY DEF WorkbenchInv, CallShape, Reply
    <2> QED
      BY <2>2, <2>3 DEF WorkbenchTypeOK, WorkbenchInv, DaemonShape, PageShape, CallShape
  <1> QED
    BY <1>1, WorkbenchInvariance, PTL

(* Whatever questions, handlers, replies and events there are, the tab     *)
(* lists a question exactly while it is open, once no event about it is on *)
(* its way or about to be published, unless one of the named ways to lose  *)
(* an event has hit that very question.                                    *)
THEOREM QuietPendingCorrect == WorkbenchSpec => []QuietPendingIsTrue
PROOF
  <1>1. WorkbenchInv => QuietPendingIsTrue
    <2> SUFFICES ASSUME WorkbenchInv, load.pc = "done",
                        NEW t \in Task \ (missed \cup Coming \cup Mentioned)
                 PROVE  t \in Range(pending) <=> row[t] = "pending"
      BY DEF QuietPendingIsTrue
    <2>1. Known /\ t \in Task \ (Open \cup Mentioned)
      BY DEF Known, Open
    <2>2. Listed(t) <=> row[t] = "pending"
      BY <2>1 DEF WorkbenchInv, Foretold
    <2> QED
      BY <2>2 DEF Listed
  <1> QED
    BY <1>1, WorkbenchInvariance, PTL

(* The tab says that another client replied only where one did.            *)
THEOREM ElsewhereCorrect == WorkbenchSpec => []ElsewhereIsElsewhere
PROOF
  <1>1. WorkbenchInv => ElsewhereIsElsewhere
    BY DEF WorkbenchInv
  <1> QED
    BY <1>1, WorkbenchInvariance, PTL

(* A row waits only for a reply in flight.                                 *)
THEOREM SubmittingCorrect == WorkbenchSpec => []SubmittingIsInFlight
PROOF
  <1>1. WorkbenchInv => SubmittingIsInFlight
    BY DEF WorkbenchInv
  <1> QED
    BY <1>1, WorkbenchInvariance, PTL

(* While the reply panel is open on a question, the focus stands still.    *)
THEOREM ReplyKeepsItsTaskCorrect == WorkbenchSpec => ReplyKeepsItsTask
PROOF
  <1>1. WorkbenchInv /\ [WorkbenchNext]_workbenchVars =>
          [load.pc = "done" /\ focus.pending.kind = "task" /\ replyMode /\ replyMode' =>
             focus' = focus]_workbenchVars
    BY WorkbenchAssumption, FocusStep DEF WorkbenchInv
  <1> QED
    BY <1>1, WorkbenchInvariance, PTL DEF WorkbenchSpec, ReplyKeepsItsTask

(* A question in focus that is open leaves it by the user's hand only.     *)
THEOREM FocusIsStableCorrect == WorkbenchSpec => FocusIsStable
PROOF
  <1>1. WorkbenchInv /\ [WorkbenchNext]_workbenchVars =>
          [load.pc = "done" =>
             \A t \in Task :
                On(focus, t) /\ row[t] = "pending" =>
                    On(focus', t) \/ \E u \in Task : Select(u)]_workbenchVars
    <2> SUFFICES ASSUME WorkbenchInv, [WorkbenchNext]_workbenchVars, load.pc = "done",
                        NEW t \in Task, On(focus, t), row[t] = "pending"
                 PROVE  On(focus', t) \/ \E u \in Task : Select(u)
      OBVIOUS
    <2>1. focus.pending.kind = "task" /\ focus.pending.task = t
      BY DEF On, focusTask
    <2>2. \A u \in Task : On(focus, u) => u = t
      BY <2>1 DEF On, focusTask
    <2> QED
      BY <2>1, <2>2, WorkbenchAssumption, FocusStep DEF WorkbenchInv, On
  <1> QED
    BY <1>1, WorkbenchInvariance, PTL DEF WorkbenchSpec, FocusIsStable
==============================================================================
