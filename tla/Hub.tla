-------------------------------- MODULE Hub --------------------------------
(***************************************************************************)
(* The event hub (internal/realtime/hub.go) with the websocket handlers    *)
(* that drain it (websocket.go).  Any number of request handlers publish   *)
(* at a time: Publish holds the read lock of an RWMutex and offers its     *)
(* payload to one subscriber after the other, without waiting for any.     *)
(* Subscribe and Unsubscribe take the write lock.                          *)
(***************************************************************************)
EXTENDS Naturals, Sequences, FiniteSets

CONSTANTS
    Conn,        \* websocket connections of browser tabs
    Publisher,   \* request handlers that publish
    Burst,       \* how many events each of them publishes, one by one
    BufferSize,  \* capacity of a subscriber's channel
    None

(* The n-th event of a publisher.                                          *)
Event == UNION {{p} \X (1 .. Burst[p]) : p \in Publisher}

ASSUME HubAssumption ==
    /\ Burst \in [Publisher -> Nat]
    /\ BufferSize \in Nat \ {0}
    /\ None \notin Conn \cup Event

VARIABLES
    subscribers,  \* the hub's set of channels, one per connection
    writer,       \* the connection that holds or awaits the write lock
    buffer,       \* the channel of each connection
    conn,         \* where each websocket handler is
    peer,         \* whether the tab is there
    writing,      \* the payload a handler is writing to its tab
    received,     \* what the tab has been sent
    pub,          \* where each publisher is
    finished,     \* events whose Publish has returned
    before,       \* per event, what was finished when its Publish began
    owed          \* per connection, events published while it subscribed

hubVars == <<subscribers, writer, buffer, conn, peer, writing, received,
             pub, finished, before, owed>>
tabVars == <<buffer, conn, peer, writing, received>>
logVars == <<finished, before>>

ConnPC == {"closed", "subscribing", "serving", "writing", "leaving"}
PubPC == {"idle", "entering", "blocked", "sending"}

Publishing(p) == <<p, pub[p].sent + 1>>
Readers == {p \in Publisher : pub[p].pc = "sending"}

(* Everything on its way to a tab, in the order it will arrive.            *)
Stream(c) == received[c] \o (IF writing[c] = None THEN <<>> ELSE <<writing[c]>>) \o buffer[c]
Elements(seq) == {seq[i] : i \in DOMAIN seq}

-----------------------------------------------------------------------------
(* Publish.                                                                *)

Begin(p) ==
    /\ pub[p].pc = "idle"
    /\ pub[p].sent < Burst[p]
    /\ pub' = [pub EXCEPT ![p].pc = "entering"]
    /\ before' = [before EXCEPT ![Publishing(p)] = finished]
    /\ UNCHANGED <<subscribers, writer, tabVars, finished, owed>>

(* What a publisher will visit: the map cannot change under the read lock. *)
Visiting(p, subs) == [pub[p] EXCEPT !.pc = "sending", !.todo = subs]

(* RLock: at once, unless a writer holds the lock or waits for it.         *)
RLock(p) ==
    /\ pub[p].pc = "entering"
    /\ IF writer = None
         THEN /\ pub' = [pub EXCEPT ![p] = Visiting(p, subscribers)]
              /\ owed' = [c \in Conn |-> IF c \in subscribers THEN owed[c] \cup {Publishing(p)}
                                                             ELSE owed[c]]
         ELSE /\ pub' = [pub EXCEPT ![p].pc = "blocked"]
              /\ UNCHANGED owed
    /\ UNCHANGED <<subscribers, writer, tabVars, logVars>>

(* Mutant: the last place of the channel is never used.                    *)
HasSpareRoom(c) == Len(buffer[c]) + 1 < BufferSize

HasRoom(c) == Len(buffer[c]) < BufferSize

(* Mutant: no default case, the publisher waits for a slow tab.            *)
SendAndWait(p, c) ==
    /\ pub[p].pc = "sending" /\ c \in pub[p].todo
    /\ HasRoom(c)
    /\ buffer' = [buffer EXCEPT ![c] = Append(@, Publishing(p))]
    /\ pub' = [pub EXCEPT ![p].todo = @ \ {c}]
    /\ UNCHANGED <<subscribers, writer, conn, peer, writing, received, logVars, owed>>

(* select with a default: a full channel drops the event.                  *)
SendOrDrop(p, c) ==
    /\ pub[p].pc = "sending" /\ c \in pub[p].todo
    /\ buffer' = IF HasRoom(c) THEN [buffer EXCEPT ![c] = Append(@, Publishing(p))]
                               ELSE buffer
    /\ pub' = [pub EXCEPT ![p].todo = @ \ {c}]
    /\ UNCHANGED <<subscribers, writer, conn, peer, writing, received, logVars, owed>>

Return(p) ==
    /\ pub[p].pc = "sending" /\ pub[p].todo = {}
    /\ pub' = [pub EXCEPT ![p].pc = "idle", ![p].sent = @ + 1]
    /\ finished' = finished \cup {Publishing(p)}
    /\ UNCHANGED <<subscribers, writer, tabVars, before, owed>>

PublisherStep(p) == Begin(p) \/ RLock(p) \/ (\E c \in Conn : SendOrDrop(p, c)) \/ Return(p)

-----------------------------------------------------------------------------
(* The websocket handler.                                                  *)

Open(c) ==
    /\ conn[c] = "closed"
    /\ conn' = [conn EXCEPT ![c] = "subscribing"]
    /\ peer' = [peer EXCEPT ![c] = "open"]
    /\ received' = [received EXCEPT ![c] = <<>>]
    /\ UNCHANGED <<subscribers, writer, buffer, writing, pub, logVars, owed>>

(* Lock: one writer at a time; from now on new readers wait.               *)
Lock(c) ==
    /\ conn[c] \in {"subscribing", "leaving"}
    /\ writer = None
    /\ writer' = c
    /\ UNCHANGED <<subscribers, tabVars, pub, logVars, owed>>

(* Unlock lets every reader in that had to wait, before the next writer.   *)
Unlock(subs) ==
    LET waiting == {p \in Publisher : pub[p].pc = "blocked"} IN
    /\ writer' = None
    /\ pub' = [p \in Publisher |-> IF p \in waiting THEN Visiting(p, subs) ELSE pub[p]]
    /\ owed' = [c \in Conn |-> IF c \in subs THEN owed[c] \cup {Publishing(p) : p \in waiting}
                                            ELSE {}]

Subscribe(c) ==
    /\ conn[c] = "subscribing" /\ writer = c /\ Readers = {}
    /\ subscribers' = subscribers \cup {c}
    /\ buffer' = [buffer EXCEPT ![c] = <<>>]
    /\ conn' = [conn EXCEPT ![c] = "serving"]
    /\ Unlock(subscribers')
    /\ UNCHANGED <<peer, writing, received, logVars>>

(* Mutant: the newest payload is taken first.                              *)
TakeNewest(c) ==
    /\ conn[c] = "serving" /\ buffer[c] # <<>>
    /\ writing' = [writing EXCEPT ![c] = buffer[c][Len(buffer[c])]]
    /\ buffer' = [buffer EXCEPT ![c] = SubSeq(@, 1, Len(@) - 1)]
    /\ conn' = [conn EXCEPT ![c] = "writing"]
    /\ UNCHANGED <<subscribers, writer, peer, received, pub, logVars, owed>>

(* payload := <-events                                                     *)
Take(c) ==
    /\ conn[c] = "serving" /\ buffer[c] # <<>>
    /\ writing' = [writing EXCEPT ![c] = Head(buffer[c])]
    /\ buffer' = [buffer EXCEPT ![c] = Tail(@)]
    /\ conn' = [conn EXCEPT ![c] = "writing"]
    /\ UNCHANGED <<subscribers, writer, peer, received, pub, logVars, owed>>

(* conn.Write returns: the payload is with the operating system, or, once  *)
(* the tab is gone, perhaps an error.  A tab that does not read blocks it. *)
Written(c) ==
    /\ conn[c] = "writing"
    /\ received' = [received EXCEPT ![c] = Append(@, writing[c])]
    /\ writing' = [writing EXCEPT ![c] = None]
    /\ \/ conn' = [conn EXCEPT ![c] = "serving"]
       \/ peer[c] = "gone" /\ conn' = [conn EXCEPT ![c] = "leaving"]
    /\ UNCHANGED <<subscribers, writer, buffer, peer, pub, logVars, owed>>

(* The tab closes, reloads or loses its network.                           *)
TabGoes(c) ==
    /\ conn[c] # "closed" /\ peer[c] = "open"
    /\ peer' = [peer EXCEPT ![c] = "gone"]
    /\ UNCHANGED <<subscribers, writer, buffer, conn, writing, received, pub, logVars, owed>>

(* <-r.Context().Done(), which a closed tab need not cause.                *)
ContextDone(c) ==
    /\ conn[c] = "serving" /\ peer[c] = "gone"
    /\ conn' = [conn EXCEPT ![c] = "leaving"]
    /\ UNCHANGED <<subscribers, writer, buffer, peer, writing, received, pub, logVars, owed>>

(* Mutant: the map is changed under the read lock.                         *)
UnsubscribeAmongReaders(c) ==
    /\ conn[c] = "leaving" /\ writer = c
    /\ subscribers' = subscribers \ {c}
    /\ conn' = [conn EXCEPT ![c] = "closed"]
    /\ buffer' = [buffer EXCEPT ![c] = <<>>]
    /\ received' = [received EXCEPT ![c] = <<>>]
    /\ Unlock(subscribers')
    /\ UNCHANGED <<peer, writing, logVars>>

(* Mutant: the handler returns without its deferred Unsubscribe.           *)
LeaveSubscribed(c) ==
    /\ conn[c] = "leaving" /\ writer = c /\ Readers = {}
    /\ conn' = [conn EXCEPT ![c] = "closed"]
    /\ Unlock(subscribers)
    /\ UNCHANGED <<subscribers, buffer, peer, writing, received, logVars>>

Unsubscribe(c) ==
    /\ conn[c] = "leaving" /\ writer = c /\ Readers = {}
    /\ subscribers' = subscribers \ {c}
    /\ conn' = [conn EXCEPT ![c] = "closed"]
    /\ buffer' = [buffer EXCEPT ![c] = <<>>]
    /\ received' = [received EXCEPT ![c] = <<>>]
    /\ Unlock(subscribers')
    /\ UNCHANGED <<peer, writing, logVars>>

TabStep(c) == Open(c) \/ TabGoes(c) \/ Take(c) \/ Written(c) \/ ContextDone(c)

HubInit ==
    /\ subscribers = {}
    /\ writer = None
    /\ buffer = [c \in Conn |-> <<>>]
    /\ conn = [c \in Conn |-> "closed"]
    /\ peer = [c \in Conn |-> "gone"]
    /\ writing = [c \in Conn |-> None]
    /\ received = [c \in Conn |-> <<>>]
    /\ pub = [p \in Publisher |-> [pc |-> "idle", sent |-> 0, todo |-> {}]]
    /\ finished = {}
    /\ before = [e \in Event |-> {}]
    /\ owed = [c \in Conn |-> {}]

HubNext ==
    \/ \E p \in Publisher : PublisherStep(p)
    \/ \E c \in Conn : TabStep(c) \/ Lock(c) \/ Subscribe(c) \/ Unsubscribe(c)

HubSpec == HubInit /\ [][HubNext]_hubVars

(* Publishers run; a goroutine that asks for the write lock gets it, for   *)
(* sync.Mutex hands over to the longest waiter.  Tabs owe nothing.         *)
HubFairSpec ==
    /\ HubSpec
    /\ \A p \in Publisher : WF_hubVars(PublisherStep(p))
    /\ \A c \in Conn : SF_hubVars(Lock(c)) /\ WF_hubVars(Subscribe(c) \/ Unsubscribe(c))

-----------------------------------------------------------------------------
(* Properties.                                                             *)

(* The hub's set is the connections served, and no channel exceeds its     *)
(* capacity although several publishers fill it at once.                   *)
HubTypeOK ==
    /\ subscribers = {c \in Conn : conn[c] \in {"serving", "writing", "leaving"}}
    /\ writer \in Conn \cup {None}
    /\ conn \in [Conn -> ConnPC]
    /\ \A c \in Conn : Len(buffer[c]) <= BufferSize /\ Elements(Stream(c)) \subseteq Event
    /\ \A p \in Publisher : pub[p] \in [pc : PubPC, sent : 0 .. Burst[p], todo : SUBSET Conn]

(* The write lock excludes the readers: nobody visits a set that changes.  *)
VisitsSubscribersOnly ==
    \A p \in Publisher : pub[p].todo \subseteq subscribers

(* No tab sees an event before one whose Publish had returned earlier: a   *)
(* task is seen created before it is seen completed, a superseded task     *)
(* cancelled before its successor is created.  Events may be missing.      *)
DeliveredInOrder ==
    \A c \in Conn : \A i, j \in DOMAIN Stream(c) :
        i < j => Stream(c)[j] \notin before[Stream(c)[i]] /\ Stream(c)[i] # Stream(c)[j]

(* The events whose Publish has begun.                                     *)
Begun == finished \cup {Publishing(p) : p \in {q \in Publisher : pub[q].pc # "idle"}}

(* A tab misses events only in a burst that exceeds its channel: as long   *)
(* as no more were published than fit, it is sent each one published while *)
(* it was subscribed.                                                      *)
SmallBurstsArrive ==
    Cardinality(Begun) <= BufferSize =>
        \A c \in subscribers : owed[c] \cap finished \subseteq Elements(Stream(c))

(* hub.go:50, "A slow browser tab must not block task creation or reply    *)
(* submission": every Publish returns, with tabs that never read.          *)
PublishReturns ==
    \A p \in Publisher : pub[p].pc = "entering" ~> pub[p].pc = "idle"

(* A handler that leaves gets the write lock and is gone from the hub.     *)
LeavingEnds == \A c \in Conn : conn[c] = "leaving" ~> conn[c] = "closed"
=============================================================================
