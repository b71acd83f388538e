------------------------------ MODULE HubProofs ------------------------------
(* What TLAPS proves of Hub, for any number of tabs, publishers and events *)
(* and for channels of any capacity.                                       *)
EXTENDS Hub, FiniteSetTheorems, SequenceTheorems, TLAPS

(* The variables keep their shape; a handler holds a payload exactly while *)
(* it writes one, and has nothing before it is subscribed.                 *)
HubShape ==
    /\ subscribers = {c \in Conn : conn[c] \in {"serving", "writing", "leaving"}}
    /\ writer \in Conn \cup {None}
    /\ conn \in [Conn -> ConnPC]
    /\ buffer \in [Conn -> Seq(Event)] /\ received \in [Conn -> Seq(Event)]
    /\ writing \in [Conn -> Event \cup {None}]
    /\ \A c \in Conn :
         /\ Len(buffer[c]) <= BufferSize
         /\ writing[c] # None <=> conn[c] = "writing"
         /\ conn[c] \in {"closed", "subscribing"} => buffer[c] = <<>> /\ received[c] = <<>>

(* A publisher has events left while it publishes one, and subscribers to  *)
(* visit only while it holds the read lock.                                *)
PublishersOK ==
    /\ pub \in [Publisher -> [pc : PubPC, sent : Nat, todo : SUBSET Conn]]
    /\ \A p \in Publisher :
         /\ pub[p].sent <= Burst[p]
         /\ pub[p].pc # "idle" => pub[p].sent < Burst[p]
         /\ pub[p].pc # "sending" => pub[p].todo = {}
         /\ pub[p].todo \subseteq subscribers

(* The log of finished events is what the publishers have sent.            *)
LogOK ==
    /\ finished \subseteq Event
    /\ \A p \in Publisher : \A n \in Nat : <<p, n>> \in finished <=> n \in 1 .. pub[p].sent
    /\ DOMAIN before = Event /\ \A e \in Event : before[e] \subseteq finished

(* On its way to a tab is only what some Publish has offered to it, once.  *)
StreamsOK ==
    \A c \in Conn :
        /\ Elements(Stream(c)) \subseteq Begun
        /\ \A p \in Publisher :
             Publishing(p) \in Elements(Stream(c)) =>
                 pub[p].pc = "sending" /\ c \notin pub[p].todo

(* While no channel can be full, what a subscriber is owed is on its way   *)
(* or still to be offered.                                                 *)
OwedOK ==
    /\ IsFiniteSet(Begun)
    /\ owed \in [Conn -> SUBSET Event]
    /\ \A c \in Conn \ subscribers : owed[c] = {}
    /\ Cardinality(Begun) <= BufferSize =>
         \A c \in subscribers : \A e \in owed[c] :
             \/ e \in Elements(Stream(c))
             \/ \E p \in Publisher : e = Publishing(p) /\ c \in pub[p].todo

(* The inductive invariant: DeliveredInOrder stands on what its neighbours *)
(* say of the log and the streams.                                         *)
HubInv == HubShape /\ PublishersOK /\ LogOK /\ StreamsOK /\ DeliveredInOrder /\ OwedOK

-----------------------------------------------------------------------------
(* Events and sequences.                                                   *)

(* An event is a publisher and a number up to the size of its burst.       *)
LEMMA EventsAreNumbered ==
    \A e : e \in Event <=> \E p \in Publisher : \E n \in 1 .. Burst[p] : e = <<p, n>>
  BY DEF Event

(* The event a publisher works on is an event, not finished, and its own.  *)
LEMMA WorksOnItsEvent ==
    ASSUME PublishersOK, LogOK, NEW p \in Publisher
    PROVE  /\ Publishing(p) \notin finished
           /\ \A e \in Event : Publishing(p) \notin before[e]
           /\ pub[p].sent < Burst[p] => Publishing(p) \in Event
           /\ \A q \in Publisher : Publishing(q) = Publishing(p) => q = p
  <1>1. pub[p].sent \in Nat /\ Burst[p] \in Nat
    BY HubAssumption DEF PublishersOK
  <1>2. Publishing(p) \notin finished
    BY <1>1 DEF Publishing, LogOK
  <1>3. pub[p].sent < Burst[p] => pub[p].sent + 1 \in 1 .. Burst[p]
    BY <1>1
  <1> QED
    BY <1>2, <1>3, EventsAreNumbered DEF Publishing, LogOK

(* Appending adds one element.                                             *)
LEMMA ElementsOfAppend ==
    ASSUME NEW S, NEW s \in Seq(S), NEW e \in S
    PROVE  Elements(Append(s, e)) = Elements(s) \cup {e}
  <1>1. DOMAIN Append(s, e) = DOMAIN s \cup {Len(s) + 1}
    BY AppendProperties, LenProperties
  <1>2. \A i \in DOMAIN s : Append(s, e)[i] = s[i]
    BY AppendProperties, LenProperties
  <1>3. Append(s, e)[Len(s) + 1] = e
    BY AppendProperties
  <1> QED
    BY <1>1, <1>2, <1>3 DEF Elements

(* A sequence over a set has elements of that set only.                    *)
LEMMA ElementsOfSeq ==
    ASSUME NEW S, NEW s \in Seq(S)
    PROVE  Elements(s) \subseteq S
  BY LenProperties, ElementOfSeq DEF Elements

(* Concatenation is associative and the empty sequence is neutral.         *)
LEMMA ConcatEvents ==
    /\ \A s, t, u \in Seq(Event) : (s \o t) \o u = s \o (t \o u)
    /\ <<>> \in Seq(Event) /\ <<>> \o <<>> = <<>>
  <1>1. \A s, t, u \in Seq(Event) : (s \o t) \o u = s \o (t \o u)
    <2> TAKE s, t, u \in Seq(Event)
    <2> QED
      BY ConcatAssociative
  <1>2. <<>> \in Seq(Event)
    BY EmptySeq, Zenon
  <1>3. <<>> \o <<>> = <<>>
    BY <1>2, ConcatEmptySeq, Zenon
  <1> QED
    BY <1>1, <1>2, <1>3

(* What a tab has received, is being written and will drain is one sequence*)
(* of events.                                                              *)
LEMMA StreamIsASequence ==
    ASSUME HubShape, NEW c \in Conn
    PROVE  /\ Stream(c) \in Seq(Event)
           /\ Elements(Stream(c)) \subseteq Event
           /\ Len(buffer[c]) <= Len(Stream(c))
           /\ conn[c] \in {"closed", "subscribing"} => Stream(c) = <<>>
  <1> DEFINE w == IF writing[c] = None THEN <<>> ELSE <<writing[c]>>
  <1>1. buffer[c] \in Seq(Event) /\ received[c] \in Seq(Event) /\ w \in Seq(Event)
    BY DEF HubShape
  <1>2. /\ Stream(c) \in Seq(Event)
        /\ Len(Stream(c)) = Len(received[c]) + Len(w) + Len(buffer[c])
    BY <1>1, ConcatProperties DEF Stream
  <1>3. Elements(Stream(c)) \subseteq Event
    BY <1>2, ElementsOfSeq
  <1>4. Len(received[c]) \in Nat /\ Len(w) \in Nat /\ Len(buffer[c]) \in Nat
    BY <1>1, LenProperties
  <1>5. Len(buffer[c]) <= Len(Stream(c))
    <2>1. \A i, j, k \in Nat : k <= i + j + k
      OBVIOUS
    <2> QED
      BY <1>2, <1>4, <2>1, Zenon
  <1>6. CASE conn[c] \in {"closed", "subscribing"}
    <2>1. received[c] = <<>> /\ w = <<>> /\ buffer[c] = <<>>
      BY <1>6 DEF HubShape
    <2>2. <<>> \o <<>> = <<>>
      BY ConcatEvents
    <2>3. Stream(c) = (received[c] \o w) \o buffer[c]
      BY DEF Stream
    <2>4. Stream(c) = <<>>
      BY <2>1, <2>2, <2>3
    <2> QED
      BY <1>2, <1>3, <1>5, <2>4
  <1> QED
    BY <1>2, <1>3, <1>5, <1>6

-----------------------------------------------------------------------------
(* The shape.                                                              *)

(* The steps of a Publish keep the shape: no channel is filled beyond its  *)
(* capacity.                                                               *)
LEMMA PublisherKeepsShape ==
    ASSUME HubShape, PublishersOK, LogOK, NEW p \in Publisher, PublisherStep(p)
    PROVE  HubShape'
  <1>1. CASE Begin(p) \/ RLock(p) \/ Return(p)
    BY <1>1 DEF HubShape, Begin, RLock, Return, tabVars
  <1>2. ASSUME NEW c \in Conn, SendOrDrop(p, c) PROVE HubShape'
    <2>1. Publishing(p) \in Event
      BY <1>2, WorksOnItsEvent DEF PublishersOK, SendOrDrop
    <2>2. buffer[c] \in Seq(Event) /\ Len(buffer[c]) \in Nat /\ BufferSize \in Nat
      BY HubAssumption, LenProperties DEF HubShape
    <2>3. /\ Append(buffer[c], Publishing(p)) \in Seq(Event)
          /\ Len(Append(buffer[c], Publishing(p))) = Len(buffer[c]) + 1
      BY <2>1, <2>2, AppendProperties
    <2>4. CASE HasRoom(c)
      <3>1. buffer' = [buffer EXCEPT ![c] = Append(buffer[c], Publishing(p))]
        BY <1>2, <2>4 DEF SendOrDrop
      <3>2. buffer' \in [Conn -> Seq(Event)]
        BY <2>3, <3>1 DEF HubShape
      <3>3. \A d \in Conn : Len(buffer'[d]) <= BufferSize
        BY <2>2, <2>3, <2>4, <3>1 DEF HubShape, HasRoom
      <3>4. conn[c] \notin {"closed", "subscribing"}
        BY <1>2 DEF SendOrDrop, PublishersOK, HubShape
      <3> QED
        BY <1>2, <3>1, <3>2, <3>3, <3>4 DEF HubShape, SendOrDrop
    <2>5. CASE ~ HasRoom(c)
      BY <1>2, <2>5 DEF HubShape, SendOrDrop
    <2> QED
      BY <2>4, <2>5
  <1> QED
    BY <1>1, <1>2 DEF PublisherStep

(* Writing to a tab and closing its connection keep the shape.             *)
LEMMA TabKeepsShape ==
    ASSUME HubShape, NEW c \in Conn, TabStep(c)
    PROVE  HubShape'
  <1>1. CASE Open(c) \/ TabGoes(c) \/ ContextDone(c)
    BY <1>1 DEF HubShape, Open, TabGoes, ContextDone, ConnPC
  <1>2. CASE Take(c)
    <2>1. /\ Head(buffer[c]) \in Event /\ Tail(buffer[c]) \in Seq(Event)
          /\ Len(Tail(buffer[c])) = Len(buffer[c]) - 1
      BY <1>2, HeadTailProperties DEF Take, HubShape
    <2>2. Len(buffer[c]) \in Nat /\ Head(buffer[c]) # None /\ BufferSize \in Nat
      BY <2>1, HubAssumption, LenProperties DEF HubShape
    <2>3. Len(Tail(buffer[c])) <= BufferSize
      BY <2>1, <2>2 DEF HubShape
    <2> QED
      BY <1>2, <2>1, <2>2, <2>3 DEF HubShape, Take, ConnPC
  <1>3. CASE Written(c)
    <2>1. writing[c] \in Event
      BY <1>3 DEF HubShape, Written
    <2>2. Append(received[c], writing[c]) \in Seq(Event)
      BY <2>1, AppendProperties DEF HubShape
    <2> QED
      BY <1>3, <2>2 DEF HubShape, Written, ConnPC
  <1> QED
    BY <1>1, <1>2, <1>3 DEF TabStep

(* Entering and leaving the map keep the shape: the set is the handlers    *)
(* that subscribed.                                                        *)
LEMMA SubscriptionKeepsShape ==
    ASSUME HubShape, NEW c \in Conn, Lock(c) \/ Subscribe(c) \/ Unsubscribe(c)
    PROVE  HubShape'
  <1>0. Len(<<>>) = 0 /\ BufferSize \in Nat
    BY HubAssumption
  <1>1. CASE Lock(c)
    BY <1>1 DEF HubShape, Lock, tabVars
  <1>2. CASE Subscribe(c)
    BY <1>0, <1>2 DEF HubShape, Subscribe, Unlock, ConnPC
  <1>3. CASE Unsubscribe(c)
    BY <1>0, <1>3 DEF HubShape, Unsubscribe, Unlock, ConnPC
  <1> QED
    BY <1>1, <1>2, <1>3

-----------------------------------------------------------------------------
(* What a step does to the publishers: it leaves their events alone, or    *)
(* begins one, or ends one; only under the read lock are tabs visited.     *)

(* A Publish that begins finishes nothing.                                 *)
LEMMA BeginKeepsLog ==
    ASSUME HubShape, PublishersOK, LogOK, NEW p \in Publisher, Begin(p)
    PROVE  PublishersOK' /\ LogOK'
  <1>1. pub[p].sent \in Nat /\ Burst[p] \in Nat
    BY HubAssumption DEF PublishersOK
  <1>2. pub' = [pub EXCEPT ![p] = [pub[p] EXCEPT !.pc = "entering"]]
    BY DEF Begin, PublishersOK
  <1>3. PublishersOK'
    BY <1>1, <1>2 DEF PublishersOK, Begin, PubPC
  <1>4. \A q \in Publisher : pub'[q].sent = pub[q].sent
    BY <1>2 DEF PublishersOK
  <1>5. LogOK'
    BY <1>4 DEF LogOK, Begin
  <1> QED
    BY <1>3, <1>5

(* A publisher that takes the read lock keeps its count and has the        *)
(* subscribers before it.                                                  *)
LEMMA VisitingFields ==
    ASSUME PublishersOK, NEW p \in Publisher, NEW subs
    PROVE  Visiting(p, subs).sent = pub[p].sent /\ Visiting(p, subs).todo = subs
  <1>1. pub[p] \in [pc : PubPC, sent : Nat, todo : SUBSET Conn]
    BY DEF PublishersOK
  <1> QED
    BY <1>1 DEF Visiting

(* The read lock is had at once, with all subscribers to visit, or awaited. *)
LEMMA RLockVisits ==
    ASSUME HubShape, PublishersOK, NEW p \in Publisher, RLock(p)
    PROVE  \E q \in [pc : PubPC, sent : Nat, todo : SUBSET Conn] :
              /\ pub' = [pub EXCEPT ![p] = q]
              /\ q.sent = pub[p].sent /\ q.pc \in {"sending", "blocked"}
              /\ q.todo = IF q.pc = "sending" THEN subscribers ELSE {}
  <1>1. /\ subscribers \subseteq Conn /\ pub[p].pc = "entering"
        /\ pub[p] \in [pc : PubPC, sent : Nat, todo : SUBSET Conn]
    BY DEF RLock, HubShape, PublishersOK
  <1>2. CASE writer = None
    <2>1. Visiting(p, subscribers) \in [pc : PubPC, sent : Nat, todo : SUBSET Conn]
      BY <1>1 DEF Visiting, PubPC
    <2> QED
      BY <1>1, <1>2, <2>1 DEF RLock, Visiting
  <1>3. CASE writer # None
    <2> DEFINE q == [pub[p] EXCEPT !.pc = "blocked"]
    <2>1. q \in [pc : PubPC, sent : Nat, todo : SUBSET Conn]
      BY <1>1 DEF PubPC
    <2>2. q.sent = pub[p].sent /\ q.pc = "blocked" /\ q.todo = {}
      BY <1>1 DEF PublishersOK
    <2>3. pub' = [pub EXCEPT ![p] = q]
      BY <1>3 DEF RLock, PublishersOK
    <2> QED
      BY <2>1, <2>2, <2>3
  <1> QED
    BY <1>2, <1>3

(* A publisher that takes the read lock is to visit subscribers only.      *)
LEMMA RLockKeepsLog ==
    ASSUME HubShape, PublishersOK, LogOK, NEW p \in Publisher, RLock(p)
    PROVE  PublishersOK' /\ LogOK'
  <1>1. subscribers' = subscribers /\ subscribers \subseteq Conn
    BY DEF RLock, HubShape
  <1>2. pub[p].sent \in Nat /\ pub[p].pc = "entering"
    BY DEF PublishersOK, RLock
  <1>3. PICK q \in [pc : PubPC, sent : Nat, todo : SUBSET Conn] :
          /\ pub' = [pub EXCEPT ![p] = q]
          /\ q.sent = pub[p].sent /\ q.pc \in {"sending", "blocked"}
          /\ q.todo = IF q.pc = "sending" THEN subscribers ELSE {}
    BY RLockVisits
  <1>4. PublishersOK'
    BY <1>1, <1>2, <1>3 DEF PublishersOK
  <1>5. \A r \in Publisher : pub'[r].sent = pub[r].sent
    BY <1>3 DEF PublishersOK
  <1>6. LogOK'
    BY <1>5 DEF LogOK, RLock, logVars
  <1> QED
    BY <1>4, <1>6

(* Offering an event to one channel finishes nothing.                      *)
LEMMA SendKeepsLog ==
    ASSUME HubShape, PublishersOK, LogOK, NEW p \in Publisher, NEW c \in Conn,
           SendOrDrop(p, c)
    PROVE  PublishersOK' /\ LogOK'
  <1>1. pub' = [pub EXCEPT ![p] = [pub[p] EXCEPT !.todo = pub[p].todo \ {c}]]
    BY DEF SendOrDrop, PublishersOK
  <1>2. PublishersOK'
    BY <1>1 DEF PublishersOK, SendOrDrop
  <1>3. \A q \in Publisher : pub'[q].sent = pub[q].sent
    BY <1>1 DEF PublishersOK
  <1>4. LogOK'
    BY <1>3 DEF LogOK, SendOrDrop, logVars
  <1> QED
    BY <1>2, <1>4

(* A Publish that returns enters its event, the next of this publisher, in *)
(* the log.                                                                *)
LEMMA ReturnKeepsLog ==
    ASSUME HubShape, PublishersOK, LogOK, NEW p \in Publisher, Return(p)
    PROVE  PublishersOK' /\ LogOK'
  <1>1. pub[p].sent \in Nat /\ Burst[p] \in Nat /\ pub[p].sent < Burst[p]
    BY HubAssumption DEF PublishersOK, Return
  <1>2. pub' = [pub EXCEPT ![p] = [pub[p] EXCEPT !.pc = "idle", !.sent = @ + 1]]
    BY DEF Return, PublishersOK
  <1>3. PublishersOK'
    BY <1>1, <1>2 DEF PublishersOK, Return, PubPC
  <1>4. Publishing(p) \in Event
    BY <1>1, WorksOnItsEvent
  <1>5. /\ pub'[p].sent = pub[p].sent + 1
        /\ \A q \in Publisher \ {p} : pub'[q].sent = pub[q].sent
    BY <1>2 DEF PublishersOK
  <1>6. ASSUME NEW q \in Publisher, NEW n \in Nat
        PROVE  <<q, n>> \in finished' <=> n \in 1 .. pub'[q].sent
    <2>1. finished' = finished \cup {<<p, pub[p].sent + 1>>}
      BY DEF Return, Publishing
    <2>2. <<q, n>> \in finished' <=> <<q, n>> \in finished \/ (q = p /\ n = pub[p].sent + 1)
      BY <1>1, <2>1
    <2>3. <<q, n>> \in finished <=> n \in 1 .. pub[q].sent
      BY DEF LogOK
    <2>4. CASE q = p
      BY <1>1, <1>5, <2>2, <2>3, <2>4
    <2>5. CASE q # p
      BY <1>5, <2>2, <2>3, <2>5
    <2> QED
      BY <2>4, <2>5
  <1>7. LogOK'
    BY <1>4, <1>6 DEF LogOK, Return
  <1> QED
    BY <1>3, <1>7

(* Unlock gives every waiting publisher the subscribers there are now.     *)
LEMMA UnlockKeepsLog ==
    ASSUME HubShape, PublishersOK, LogOK, NEW c \in Conn, Subscribe(c) \/ Unsubscribe(c)
    PROVE  PublishersOK' /\ LogOK'
  <1>1. subscribers' \subseteq Conn /\ Unlock(subscribers') /\ Readers = {}
    BY DEF HubShape, Subscribe, Unsubscribe
  <1>2. \A q \in Publisher : pub[q].todo = {}
    BY <1>1 DEF PublishersOK, Readers
  <1>3. \A q \in Publisher :
           pub'[q] = IF pub[q].pc = "blocked" THEN Visiting(q, subscribers') ELSE pub[q]
    BY <1>1 DEF Unlock
  <1>4. pub' \in [Publisher -> [pc : PubPC, sent : Nat, todo : SUBSET Conn]]
    <2>1. \A q \in Publisher : pub'[q] \in [pc : PubPC, sent : Nat, todo : SUBSET Conn]
      BY <1>1, <1>3 DEF PublishersOK, Visiting, PubPC
    <2> QED
      BY <1>1, <2>1 DEF Unlock
  <1>5. \A q \in Publisher :
          /\ pub'[q].sent = pub[q].sent
          /\ pub'[q].pc # "idle" => pub[q].pc # "idle"
          /\ pub'[q].pc # "sending" => pub'[q].todo = {}
          /\ pub'[q].todo \subseteq subscribers'
    BY <1>2, <1>3 DEF PublishersOK, Visiting
  <1>6. PublishersOK'
    BY <1>4, <1>5 DEF PublishersOK
  <1>7. LogOK'
    BY <1>5 DEF LogOK, Subscribe, Unsubscribe, logVars
  <1> QED
    BY <1>6, <1>7

(* What handlers and tabs do leaves publishers and log alone, or takes the *)
(* lock while nobody publishes.                                            *)
LEMMA TabKeepsLog ==
    ASSUME HubShape, PublishersOK, LogOK, NEW c \in Conn, TabStep(c) \/ Lock(c)
    PROVE  PublishersOK' /\ LogOK'
  <1>1. UNCHANGED <<subscribers, pub, finished, before>>
    BY DEF TabStep, Open, TabGoes, Take, Written, ContextDone, Lock, logVars
  <1> QED
    BY <1>1 DEF PublishersOK, LogOK

(* Every step keeps the shape, the publishers' bookkeeping and the log.    *)
LEMMA ShapeStep ==
    ASSUME HubShape, PublishersOK, LogOK, [HubNext]_hubVars
    PROVE  HubShape' /\ PublishersOK' /\ LogOK'
  <1>1. CASE UNCHANGED hubVars
    BY <1>1 DEF hubVars, HubShape, PublishersOK, LogOK
  <1>2. ASSUME NEW p \in Publisher, PublisherStep(p)
        PROVE  HubShape' /\ PublishersOK' /\ LogOK'
    BY <1>2, PublisherKeepsShape, BeginKeepsLog, RLockKeepsLog, SendKeepsLog, ReturnKeepsLog
       DEF PublisherStep
  <1>3. ASSUME NEW c \in Conn, TabStep(c) \/ Lock(c) \/ Subscribe(c) \/ Unsubscribe(c)
        PROVE  HubShape' /\ PublishersOK' /\ LogOK'
    BY <1>3, TabKeepsShape, SubscriptionKeepsShape, TabKeepsLog, UnlockKeepsLog
  <1> QED
    BY <1>1, <1>2, <1>3 DEF HubNext

-----------------------------------------------------------------------------
(* What a step does to what is on its way to a tab: nothing, or it ends it *)
(* with the subscription, or it appends the event a publisher works on.    *)

(* A payload taken from the channel is still on its way.                   *)
LEMMA TakeKeepsStream ==
    ASSUME HubShape, NEW c \in Conn, Take(c)
    PROVE  Stream(c)' = Stream(c)
  <1> DEFINE e == Head(buffer[c])
  <1>1. /\ buffer[c] \in Seq(Event) /\ buffer[c] # <<>>
        /\ received[c] \in Seq(Event) /\ writing[c] = None
    BY DEF Take, HubShape
  <1>2. e \in Event /\ e # None /\ Tail(buffer[c]) \in Seq(Event)
    BY <1>1, HeadTailProperties, HubAssumption
  <1>3. <<e>> \in Seq(Event) /\ buffer[c] = <<e>> \o Tail(buffer[c])
    BY <1>1, <1>2
  <1>4. Stream(c)' = (received[c] \o <<e>>) \o Tail(buffer[c])
    BY <1>2 DEF Stream, Take, HubShape
  <1>5. Stream(c) = (received[c] \o <<>>) \o buffer[c]
    BY <1>1 DEF Stream
  <1>6. received[c] \o <<>> = received[c]
    BY <1>1, ConcatEmptySeq
  <1>7. (received[c] \o <<e>>) \o Tail(buffer[c]) = received[c] \o (<<e>> \o Tail(buffer[c]))
    BY <1>1, <1>2, <1>3, ConcatEvents, Zenon
  <1> QED
    BY <1>3, <1>4, <1>5, <1>6, <1>7

(* A payload written is received: the stream is the same.                  *)
LEMMA WrittenKeepsStream ==
    ASSUME HubShape, NEW c \in Conn, Written(c)
    PROVE  Stream(c)' = Stream(c)
  <1>1. /\ buffer[c] \in Seq(Event) /\ received[c] \in Seq(Event)
        /\ writing[c] \in Event /\ writing[c] # None
    BY DEF Written, HubShape
  <1>2. Stream(c) = (received[c] \o <<writing[c]>>) \o buffer[c]
    BY <1>1 DEF Stream
  <1>3. Stream(c)' = (Append(received[c], writing[c]) \o <<>>) \o buffer[c]
    BY DEF Stream, Written, HubShape
  <1>4. /\ Append(received[c], writing[c]) \in Seq(Event)
        /\ Append(received[c], writing[c]) = received[c] \o <<writing[c]>>
    BY <1>1, AppendProperties, AppendIsConcat
  <1>5. Append(received[c], writing[c]) \o <<>> = Append(received[c], writing[c])
    BY <1>4, ConcatEmptySeq
  <1> QED
    BY <1>2, <1>3, <1>4, <1>5

(* An event offered goes to the end of the stream, or is dropped if the    *)
(* channel is full; no other stream changes.                               *)
LEMMA SendAppends ==
    ASSUME HubShape, PublishersOK, LogOK, NEW p \in Publisher, NEW c \in Conn,
           SendOrDrop(p, c)
    PROVE  /\ Publishing(p) \in Event
           /\ Stream(c)' = IF HasRoom(c) THEN Append(Stream(c), Publishing(p)) ELSE Stream(c)
           /\ \A d \in Conn \ {c} : Stream(d)' = Stream(d)
  <1> DEFINE w == IF writing[c] = None THEN <<>> ELSE <<writing[c]>>
             start == received[c] \o w
             e == Publishing(p)
  <1>1. e \in Event
    BY WorksOnItsEvent DEF PublishersOK, SendOrDrop
  <1>2. \A d \in Conn \ {c} : Stream(d)' = Stream(d)
    BY DEF Stream, SendOrDrop, HubShape
  <1>3. CASE ~ HasRoom(c)
    BY <1>1, <1>2, <1>3 DEF SendOrDrop, Stream
  <1>4. CASE HasRoom(c)
    <2>1. buffer[c] \in Seq(Event) /\ received[c] \in Seq(Event) /\ w \in Seq(Event)
      BY DEF HubShape
    <2>2. start \in Seq(Event) /\ <<e>> \in Seq(Event) /\ start \o buffer[c] \in Seq(Event)
      BY <1>1, <2>1, ConcatProperties
    <2>3. Stream(c) = start \o buffer[c] /\ Stream(c)' = start \o Append(buffer[c], e)
      BY <1>4 DEF Stream, SendOrDrop, HubShape
    <2>4. /\ Append(buffer[c], e) = buffer[c] \o <<e>>
          /\ Append(start \o buffer[c], e) = (start \o buffer[c]) \o <<e>>
      BY <1>1, <2>1, <2>2, AppendIsConcat
    <2> HIDE DEF start, e
    <2>5. (start \o buffer[c]) \o <<e>> = start \o (buffer[c] \o <<e>>)
      BY <2>1, <2>2, ConcatEvents, ZenonT(30)
    <2>6. Stream(c)' = Append(Stream(c), e)
      BY <2>3, <2>4, <2>5
    <2> QED
      BY <1>1, <1>2, <1>4, <2>6 DEF e
  <1> QED
    BY <1>3, <1>4

(* No other step touches a stream that a subscriber has.                   *)
LEMMA OthersKeepStreams ==
    ASSUME HubShape, HubShape', NEW c \in Conn,
           \/ \E d \in Conn : TabStep(d) \/ Lock(d) \/ Subscribe(d) \/ Unsubscribe(d)
           \/ \E p \in Publisher : Begin(p) \/ RLock(p) \/ Return(p)
    PROVE  Stream(c)' = Stream(c) \/ (Stream(c)' = <<>> /\ c \notin subscribers')
  <1>1. CASE \E p \in Publisher : Begin(p) \/ RLock(p) \/ Return(p)
    BY <1>1 DEF Begin, RLock, Return, tabVars, Stream
  <1>2. ASSUME NEW d \in Conn, TabStep(d) \/ Lock(d) \/ Subscribe(d) \/ Unsubscribe(d), d # c
        PROVE  Stream(c)' = Stream(c)
    BY <1>2, ZenonT(30) DEF TabStep, Open, TabGoes, Take, Written, ContextDone, Lock, Subscribe,
         Unsubscribe, tabVars, HubShape, Stream
  <1>3. CASE TabGoes(c) \/ ContextDone(c) \/ Lock(c)
    BY <1>3 DEF TabGoes, ContextDone, Lock, tabVars, Stream
  <1>4. CASE Take(c) \/ Written(c)
    BY <1>4, TakeKeepsStream, WrittenKeepsStream
  <1>5. CASE Open(c) \/ Unsubscribe(c)
    <2>1. conn'[c] \in {"closed", "subscribing"}
      BY <1>5 DEF Open, Unsubscribe, HubShape
    <2>2. c \notin subscribers'
      BY <2>1 DEF HubShape
    <2>3. Stream(c)' = <<>>
      <3>1. /\ received'[c] = <<>> /\ buffer'[c] = <<>> /\ writing'[c] = None
        BY <2>1 DEF HubShape
      <3>2. <<>> \o <<>> = <<>>
        BY ConcatEvents
      <3> QED
        BY <3>1, <3>2 DEF Stream
    <2> QED
      BY <2>2, <2>3
  <1>6. CASE Subscribe(c)
    BY <1>6 DEF Subscribe, HubShape, Stream
  <1> QED
    BY <1>1, <1>2, <1>3, <1>4, <1>5, <1>6 DEF TabStep

-----------------------------------------------------------------------------
(* What has begun grows, an event at a time, and stays finite.             *)

(* A step begins at most one Publish and takes none back.                  *)
LEMMA BegunGrows ==
    ASSUME HubShape, PublishersOK, LogOK, [HubNext]_hubVars
    PROVE  \/ Begun' = Begun
           \/ \E p \in Publisher : Begun' = Begun \cup {Publishing(p)}
  <1>1. ASSUME \A q \in Publisher : /\ pub'[q].sent = pub[q].sent
                                    /\ (pub'[q].pc = "idle") = (pub[q].pc = "idle"),
               finished' = finished
        PROVE  Begun' = Begun
    BY <1>1 DEF Begun, Publishing
  <1>2. CASE UNCHANGED hubVars
    BY <1>1, <1>2 DEF hubVars
  <1>3. ASSUME NEW p \in Publisher, Begin(p)
        PROVE  Begun' = Begun \cup {Publishing(p)}
    <2>1. pub' = [pub EXCEPT ![p] = [pub[p] EXCEPT !.pc = "entering"]] /\ finished' = finished
      BY <1>3 DEF Begin, PublishersOK
    <2>2. /\ \A q \in Publisher : pub'[q].sent = pub[q].sent
          /\ \A q \in Publisher : pub'[q].pc # "idle" <=> q = p \/ pub[q].pc # "idle"
      BY <2>1 DEF PublishersOK
    <2> QED
      BY <2>1, <2>2 DEF Begun, Publishing
  <1>4. ASSUME NEW p \in Publisher, RLock(p)
        PROVE  Begun' = Begun
    <2>1. PICK q \in [pc : PubPC, sent : Nat, todo : SUBSET Conn] :
            /\ pub' = [pub EXCEPT ![p] = q]
            /\ q.sent = pub[p].sent /\ q.pc \in {"sending", "blocked"}
      BY <1>4, RLockVisits
    <2>2. pub[p].pc # "idle" /\ finished' = finished
      BY <1>4 DEF RLock, logVars
    <2> QED
      BY <1>1, <2>1, <2>2 DEF PublishersOK
  <1>5. ASSUME NEW p \in Publisher, NEW c \in Conn, SendOrDrop(p, c)
        PROVE  Begun' = Begun
    BY <1>1, <1>5 DEF SendOrDrop, PublishersOK, logVars
  <1>6. ASSUME NEW p \in Publisher, Return(p)
        PROVE  Begun' = Begun
    <2>1. pub' = [pub EXCEPT ![p] = [pub[p] EXCEPT !.pc = "idle", !.sent = @ + 1]]
      BY <1>6 DEF Return, PublishersOK
    <2>2. /\ \A q \in Publisher \ {p} : pub'[q] = pub[q]
          /\ pub'[p].pc = "idle" /\ pub[p].pc # "idle"
      BY <1>6, <2>1 DEF PublishersOK, Return
    <2>3. finished' = finished \cup {Publishing(p)}
      BY <1>6 DEF Return
    <2> QED
      BY <2>2, <2>3 DEF Begun, Publishing
  <1>7. ASSUME NEW c \in Conn, TabStep(c) \/ Lock(c)
        PROVE  Begun' = Begun
    BY <1>1, <1>7 DEF TabStep, Open, TabGoes, Take, Written, ContextDone, Lock, logVars
  <1>8. ASSUME NEW c \in Conn, Subscribe(c) \/ Unsubscribe(c)
        PROVE  Begun' = Begun
    <2>1. finished' = finished /\ Unlock(subscribers')
      BY <1>8 DEF Subscribe, Unsubscribe, logVars
    <2>2. \A q \in Publisher :
            /\ pub'[q].sent = pub[q].sent
            /\ (pub'[q].pc = "idle") = (pub[q].pc = "idle")
      BY <2>1 DEF Unlock, Visiting, PublishersOK
    <2> QED
      BY <1>1, <2>1, <2>2
  <1> QED
    BY <1>2, <1>3, <1>4, <1>5, <1>6, <1>7, <1>8 DEF HubNext, PublisherStep

(* The events begun stay finitely many and do not get fewer.               *)
LEMMA BegunIsMonotonic ==
    ASSUME HubShape, PublishersOK, LogOK, [HubNext]_hubVars, IsFiniteSet(Begun)
    PROVE  /\ Begun \subseteq Begun' /\ IsFiniteSet(Begun')
           /\ Cardinality(Begun) \in Nat /\ Cardinality(Begun') \in Nat
           /\ Cardinality(Begun) <= Cardinality(Begun')
  <1>1. Begun \subseteq Begun' /\ IsFiniteSet(Begun')
    BY BegunGrows, FS_AddElement
  <1> QED
    BY <1>1, FS_Subset, FS_CardinalityType

(* A publisher goes on with its event, or turns to one that nobody knows.  *)
LEMMA PublisherMovesOn ==
    ASSUME HubShape, PublishersOK, LogOK, [HubNext]_hubVars, NEW p \in Publisher
    PROVE  \/ /\ Publishing(p)' = Publishing(p)
              /\ pub[p].pc = "sending" => pub'[p].pc = "sending" /\ pub'[p].todo \subseteq pub[p].todo
           \/ Return(p) /\ Publishing(p)' \notin Begun
  <1>1. CASE UNCHANGED hubVars
    BY <1>1 DEF hubVars, Publishing
  <1>2. ASSUME NEW q \in Publisher, Begin(q) \/ RLock(q) \/ (Return(q) /\ q # p)
        PROVE  Publishing(p)' = Publishing(p) /\ (pub[p].pc = "sending" => pub'[p] = pub[p])
    <2>1. pub'[p].sent = pub[p].sent /\ (pub[p].pc = "sending" => pub'[p] = pub[p])
      <3>1. CASE Begin(q) \/ (Return(q) /\ q # p)
        BY <3>1 DEF Begin, Return, PublishersOK
      <3>2. CASE RLock(q)
        BY <3>2, RLockVisits DEF RLock, PublishersOK
      <3> QED
        BY <1>2, <3>1, <3>2
    <2> QED
      BY <2>1 DEF Publishing
  <1>3. ASSUME NEW q \in Publisher, NEW c \in Conn, SendOrDrop(q, c)
        PROVE  /\ Publishing(p)' = Publishing(p)
               /\ pub'[p].pc = pub[p].pc /\ pub'[p].todo \subseteq pub[p].todo
    BY <1>3 DEF SendOrDrop, PublishersOK, Publishing
  <1>4. CASE Return(p)
    <2>1. pub[p].sent \in Nat /\ pub'[p].sent = pub[p].sent + 1
      BY <1>4 DEF Return, PublishersOK
    <2>2. Publishing(p)' = <<p, pub[p].sent + 2>>
      BY <2>1 DEF Publishing
    <2>3. Publishing(p)' \notin finished
      BY <2>1, <2>2 DEF LogOK
    <2>4. \A q \in Publisher : Publishing(q) # Publishing(p)'
      BY <2>1, <2>2 DEF Publishing
    <2> QED
      BY <1>4, <2>3, <2>4 DEF Begun
  <1>5. ASSUME NEW c \in Conn, TabStep(c) \/ Lock(c)
        PROVE  pub' = pub
    BY <1>5 DEF TabStep, Open, TabGoes, Take, Written, ContextDone, Lock
  <1>6. ASSUME NEW c \in Conn, Subscribe(c) \/ Unsubscribe(c)
        PROVE  Publishing(p)' = Publishing(p) /\ (pub[p].pc = "sending" => pub'[p] = pub[p])
    <2>1. Unlock(subscribers')
      BY <1>6 DEF Subscribe, Unsubscribe
    <2> QED
      BY <2>1 DEF Unlock, Visiting, PublishersOK, Publishing
  <1> QED
    BY <1>1, <1>2, <1>3, <1>4, <1>5, <1>6 DEF HubNext, PublisherStep, Publishing

(* A stream stays, ends with the connection, or gets the event a publisher *)
(* offers.                                                                 *)
LEMMA StreamStep ==
    ASSUME HubShape, PublishersOK, LogOK, [HubNext]_hubVars, NEW c \in Conn
    PROVE  \/ Stream(c)' = Stream(c)
           \/ Stream(c)' = <<>> /\ c \notin subscribers'
           \/ \E p \in Publisher :
                /\ SendOrDrop(p, c) /\ Publishing(p) \in Event
                /\ Stream(c)' = Append(Stream(c), Publishing(p))
  <1>1. CASE UNCHANGED hubVars
    BY <1>1 DEF hubVars, Stream
  <1>2. ASSUME NEW p \in Publisher, NEW d \in Conn, SendOrDrop(p, d)
        PROVE  \/ Stream(c)' = Stream(c)
               \/ /\ d = c /\ Publishing(p) \in Event
                  /\ Stream(c)' = Append(Stream(c), Publishing(p))
    BY <1>2, SendAppends
  <1>3. HubShape'
    BY ShapeStep
  <1> QED
    BY <1>1, <1>2, <1>3, OthersKeepStreams DEF HubNext, PublisherStep

-----------------------------------------------------------------------------
(* Streams hold what was begun, each event once, in order.                 *)

(* Every step keeps it that a stream has only what was offered to it, once.*)
LEMMA StreamsStep ==
    ASSUME HubShape, PublishersOK, LogOK, IsFiniteSet(Begun), StreamsOK, [HubNext]_hubVars
    PROVE  StreamsOK'
  <1> SUFFICES ASSUME NEW c \in Conn
               PROVE  /\ Elements(Stream(c)') \subseteq Begun'
                      /\ \A p \in Publisher : Publishing(p)' \in Elements(Stream(c)') =>
                            pub'[p].pc = "sending" /\ c \notin pub'[p].todo
    BY DEF StreamsOK, Elements
  <1>1. Begun \subseteq Begun' /\ Elements(Stream(c)) \subseteq Begun
    BY BegunIsMonotonic DEF StreamsOK
  <1>2. ASSUME NEW p \in Publisher, Publishing(p)' \in Elements(Stream(c))
        PROVE  pub'[p].pc = "sending" /\ c \notin pub'[p].todo
    BY <1>1, <1>2, PublisherMovesOn DEF StreamsOK
  <1>3. CASE Stream(c)' = Stream(c)
    BY <1>1, <1>2, <1>3
  <1>4. CASE Stream(c)' = <<>>
    BY <1>4 DEF Elements
  <1>5. ASSUME NEW p \in Publisher, SendOrDrop(p, c), Publishing(p) \in Event,
               Stream(c)' = Append(Stream(c), Publishing(p))
        PROVE  /\ Elements(Stream(c)') \subseteq Begun'
               /\ \A q \in Publisher : Publishing(q)' \in Elements(Stream(c)') =>
                     pub'[q].pc = "sending" /\ c \notin pub'[q].todo
    <2>1. Elements(Stream(c)') = Elements(Stream(c)) \cup {Publishing(p)}
      BY <1>5, StreamIsASequence, ElementsOfAppend
    <2>2. Publishing(p) \in Begun
      BY <1>5 DEF SendOrDrop, Begun
    <2>3. \A q \in Publisher : Publishing(q)' = Publishing(q)
      BY <1>5 DEF SendOrDrop, PublishersOK, Publishing
    <2>4. pub'[p].pc = "sending" /\ c \notin pub'[p].todo
      BY <1>5 DEF SendOrDrop, PublishersOK
    <2>5. \A q \in Publisher : Publishing(q) = Publishing(p) => q = p
      BY WorksOnItsEvent
    <2> QED
      BY <1>1, <1>2, <2>1, <2>2, <2>3, <2>4, <2>5
  <1> QED
    BY <1>3, <1>4, <1>5, StreamStep

(* What an event in a stream came after is settled when its Publish began. *)
LEMMA BeforeIsSettled ==
    ASSUME PublishersOK, LogOK, [HubNext]_hubVars, NEW e \in Begun
    PROVE  before'[e] = before[e]
  <1>1. ASSUME NEW p \in Publisher, Begin(p)
        PROVE  before'[e] = before[e]
    <2>1. Publishing(p) # e
      BY <1>1, WorksOnItsEvent DEF Begin, Begun
    <2> QED
      BY <1>1, <2>1 DEF Begin, LogOK
  <1> QED
    BY <1>1 DEF HubNext, PublisherStep, RLock, SendOrDrop, Return, TabStep, Open, TabGoes, Take,
       Written, ContextDone, Lock, Subscribe, Unsubscribe, logVars, hubVars

(* Every step keeps the order: an event that is offered is in no stream    *)
(* yet, and none that was begun after it returned can be.                  *)
LEMMA OrderStep ==
    ASSUME HubShape, PublishersOK, LogOK, StreamsOK, DeliveredInOrder, [HubNext]_hubVars
    PROVE  DeliveredInOrder'
  <1> DEFINE Ordered(s, b) ==
        \A i, j \in DOMAIN s : i < j => s[j] \notin b[s[i]] /\ s[i] # s[j]
  <1> SUFFICES ASSUME NEW c \in Conn
               PROVE  Ordered(Stream(c)', before')
    BY DEF DeliveredInOrder
  <1>1. /\ Stream(c) \in Seq(Event) /\ DOMAIN Stream(c) = 1 .. Len(Stream(c))
        /\ Len(Stream(c)) \in Nat
    BY StreamIsASequence, LenProperties
  <1>2. \A i \in DOMAIN Stream(c) : before'[Stream(c)[i]] = before[Stream(c)[i]]
    BY BeforeIsSettled DEF StreamsOK, Elements
  <1>3. Ordered(Stream(c), before)
    BY DEF DeliveredInOrder
  <1>4. CASE Stream(c)' = Stream(c)
    BY <1>2, <1>3, <1>4
  <1>5. CASE Stream(c)' = <<>>
    BY <1>5
  <1>6. ASSUME NEW p \in Publisher, SendOrDrop(p, c), Publishing(p) \in Event,
               Stream(c)' = Append(Stream(c), Publishing(p))
        PROVE  Ordered(Stream(c)', before')
    <2> DEFINE s == Stream(c)
               t == Append(s, Publishing(p))
    <2>1. before' = before
      BY <1>6 DEF SendOrDrop, logVars
    <2>2. /\ DOMAIN t = 1 .. Len(s) + 1 /\ t[Len(s) + 1] = Publishing(p)
          /\ \A i \in 1 .. Len(s) : t[i] = s[i]
      BY <1>1, <1>6, AppendProperties, LenProperties
    <2>3. \A i \in DOMAIN s : s[i] # Publishing(p) /\ Publishing(p) \notin before[s[i]]
      <3>1. Publishing(p) \notin Elements(s)
        BY <1>6 DEF StreamsOK, SendOrDrop
      <3>2. \A e \in Event : Publishing(p) \notin before[e]
        BY WorksOnItsEvent
      <3>3. Elements(s) \subseteq Event
        BY StreamIsASequence
      <3> QED
        BY <3>1, <3>2, <3>3 DEF Elements
    <2> HIDE DEF s, t
    <2>4. Ordered(t, before)
      <3> SUFFICES ASSUME NEW i \in 1 .. Len(s) + 1, NEW j \in 1 .. Len(s) + 1, i < j
                   PROVE  t[j] \notin before[t[i]] /\ t[i] # t[j]
        BY <2>2
      <3>1. i \in 1 .. Len(s) /\ (j \in 1 .. Len(s) \/ j = Len(s) + 1)
        BY <1>1 DEF s
      <3>2. t[i] = s[i]
        BY <2>2, <3>1
      <3>3. CASE j = Len(s) + 1
        BY <1>1, <2>2, <2>3, <3>1, <3>2, <3>3 DEF s
      <3>4. CASE j \in 1 .. Len(s)
        BY <1>1, <1>3, <2>2, <3>1, <3>2, <3>4 DEF s
      <3> QED
        BY <3>1, <3>3, <3>4
    <2> QED
      BY <1>6, <2>1, <2>4 DEF s, t
  <1> QED
    BY <1>4, <1>5, <1>6, StreamStep

-----------------------------------------------------------------------------
(* Nothing owed is lost before a channel can be full.                      *)

(* A sequence without repetition over a finite set is no longer than the   *)
(* set is large.                                                           *)
LEMMA DistinctSeqFits ==
    ASSUME NEW S, NEW s \in Seq(S), NEW T, IsFiniteSet(T), Elements(s) \subseteq T,
           \A i, j \in DOMAIN s : i < j => s[i] # s[j]
    PROVE  Len(s) <= Cardinality(T)
  <1>1. Len(s) \in Nat /\ DOMAIN s = 1 .. Len(s) /\ s \in [1 .. Len(s) -> S]
    BY LenProperties
  <1>2. s \in [1 .. Len(s) -> T]
    BY <1>1 DEF Elements
  <1>3. \A i, j \in 1 .. Len(s) : s[i] = s[j] => i = j
    BY <1>1
  <1>4. s \in Injection(1 .. Len(s), T)
    BY <1>1, <1>2, <1>3 DEF Injection, IsInjective
  <1>5. Cardinality(1 .. Len(s)) <= Cardinality(T)
    BY <1>4, FS_Injection
  <1>6. Cardinality(1 .. Len(s)) = Len(s)
    BY <1>1, FS_Interval
  <1> QED
    BY <1>5, <1>6

(* A channel that is full has been offered one event more than it holds.   *)
LEMMA FullChannelNeedsABurst ==
    ASSUME HubShape, PublishersOK, LogOK, StreamsOK, DeliveredInOrder, IsFiniteSet(Begun),
           NEW p \in Publisher, NEW c \in Conn, SendOrDrop(p, c),
           Cardinality(Begun) <= BufferSize
    PROVE  HasRoom(c)
  <1> DEFINE others == Begun \ {Publishing(p)}
  <1>1. Publishing(p) \in Begun /\ Publishing(p) \notin Elements(Stream(c))
    BY DEF SendOrDrop, Begun, StreamsOK
  <1>2. /\ IsFiniteSet(others) /\ Cardinality(others) = Cardinality(Begun) - 1
        /\ Cardinality(Begun) \in Nat
    BY <1>1, FS_RemoveElement, FS_CardinalityType
  <1>3. Stream(c) \in Seq(Event) /\ Len(buffer[c]) <= Len(Stream(c))
    BY StreamIsASequence
  <1>4. Elements(Stream(c)) \subseteq others
    BY <1>1 DEF StreamsOK
  <1>5. \A i, j \in DOMAIN Stream(c) : i < j => Stream(c)[i] # Stream(c)[j]
    BY DEF DeliveredInOrder
  <1> HIDE DEF others
  <1>6. Len(Stream(c)) <= Cardinality(others)
    BY <1>2, <1>3, <1>4, <1>5, DistinctSeqFits
  <1>7. Len(Stream(c)) \in Nat /\ Len(buffer[c]) \in Nat /\ BufferSize \in Nat
    BY <1>3, LenProperties, HubAssumption DEF HubShape
  <1> QED
    BY <1>2, <1>3, <1>6, <1>7 DEF HasRoom

(* The event is in the tab's stream, or its publisher has still to offer   *)
(* it.                                                                     *)
OnItsWay(c, e) ==
    \/ e \in Elements(Stream(c))
    \/ \E p \in Publisher : e = Publishing(p) /\ c \in pub[p].todo

(* What is on its way to a subscriber stays so, unless its channel is full. *)
LEMMA StaysOnItsWay ==
    ASSUME HubShape, PublishersOK, LogOK, StreamsOK, [HubNext]_hubVars,
           NEW c \in subscribers', NEW e, OnItsWay(c, e),
           \A p \in Publisher : SendOrDrop(p, c) => HasRoom(c)
    PROVE  OnItsWay(c, e)'
  <1>0. c \in Conn
    BY ShapeStep DEF HubShape
  <1>1. CASE e \in Elements(Stream(c))
    <2>1. e \in Elements(Stream(c)')
      <3>1. ASSUME NEW p \in Publisher, Publishing(p) \in Event,
                   Stream(c)' = Append(Stream(c), Publishing(p))
            PROVE  e \in Elements(Stream(c)')
        BY <1>0, <1>1, <3>1, StreamIsASequence, ElementsOfAppend
      <3> QED
        BY <1>0, <1>1, <3>1, StreamStep
    <2> QED
      BY <2>1 DEF OnItsWay, Elements
  <1>2. ASSUME NEW p \in Publisher, e = Publishing(p), c \in pub[p].todo
        PROVE  OnItsWay(c, e)'
    <2>1. pub[p].pc = "sending"
      BY <1>2 DEF PublishersOK
    <2>2. CASE SendOrDrop(p, c)
      <3>1. /\ Publishing(p) \in Event
            /\ Stream(c)' = Append(Stream(c), Publishing(p))
        BY <1>0, <2>2, SendAppends
      <3>2. e \in Elements(Stream(c)')
        BY <1>0, <1>2, <3>1, StreamIsASequence, ElementsOfAppend
      <3> QED
        BY <3>2 DEF OnItsWay, Elements
    <2>3. CASE ~ SendOrDrop(p, c)
      <3>1. ~ Return(p) /\ Publishing(p)' = Publishing(p)
        BY <1>2, PublisherMovesOn DEF Return
      <3>2. c \in pub'[p].todo
        <4>1. CASE UNCHANGED hubVars
          BY <1>2, <4>1 DEF hubVars
        <4>2. ASSUME NEW q \in Publisher, Begin(q) \/ RLock(q) \/ Return(q)
              PROVE  c \in pub'[p].todo
          <5>1. q # p
            BY <2>1, <3>1, <4>2 DEF Begin, RLock
          <5>2. pub'[p] = pub[p]
            BY <4>2, <5>1, RLockVisits DEF Begin, Return, PublishersOK
          <5> QED
            BY <1>2, <5>2
        <4>3. ASSUME NEW q \in Publisher, NEW d \in Conn, SendOrDrop(q, d)
              PROVE  c \in pub'[p].todo
          BY <1>2, <2>3, <4>3 DEF SendOrDrop, PublishersOK
        <4>4. ASSUME NEW d \in Conn, TabStep(d) \/ Lock(d)
              PROVE  c \in pub'[p].todo
          BY <1>2, <4>4 DEF TabStep, Open, TabGoes, Take, Written, ContextDone, Lock
        <4>5. ASSUME NEW d \in Conn, Subscribe(d) \/ Unsubscribe(d)
              PROVE  c \in pub'[p].todo
          BY <2>1, <4>5 DEF Subscribe, Unsubscribe, Readers
        <4> QED
          BY <4>1, <4>2, <4>3, <4>4, <4>5 DEF HubNext, PublisherStep
      <3> QED
        BY <1>2, <3>1, <3>2 DEF OnItsWay
    <2> QED
      BY <2>2, <2>3
  <1> QED
    BY <1>1, <1>2 DEF OnItsWay

(* A publisher that gets its read lock owes its event to the subscribers.  *)
LEMMA OwedStep ==
    ASSUME HubShape, PublishersOK, LogOK, [HubNext]_hubVars, owed \in [Conn -> SUBSET Event],
           \A c \in Conn \ subscribers : owed[c] = {}
    PROVE  /\ owed' \in [Conn -> SUBSET Event]
           /\ \A c \in Conn \ subscribers' : owed'[c] = {}
           /\ \A c \in subscribers' : \A e \in owed'[c] :
                 \/ c \in subscribers /\ e \in owed[c]
                 \/ OnItsWay(c, e)'
  <1>1. HubShape' /\ PublishersOK'
    BY ShapeStep
  <1>2. CASE owed' = owed /\ subscribers' = subscribers
    BY <1>2 DEF HubShape
  <1>3. ASSUME NEW p \in Publisher, RLock(p), writer = None
        PROVE  /\ owed' \in [Conn -> SUBSET Event]
               /\ \A c \in Conn \ subscribers' : owed'[c] = {}
               /\ \A c \in subscribers' : \A e \in owed'[c] :
                     \/ c \in subscribers /\ e \in owed[c]
                     \/ OnItsWay(c, e)'
    <2>1. pub[p].sent < Burst[p] /\ subscribers' = subscribers
      BY <1>3 DEF RLock, PublishersOK
    <2>2. Publishing(p) \in Event
      BY <2>1, WorksOnItsEvent
    <2>3. owed' = [c \in Conn |-> IF c \in subscribers THEN owed[c] \cup {Publishing(p)}
                                                     ELSE owed[c]]
      BY <1>3 DEF RLock
    <2>4. Publishing(p)' = Publishing(p) /\ pub'[p].todo = subscribers
      BY <1>3, VisitingFields DEF RLock, PublishersOK, Publishing
    <2>5. \A c \in subscribers' : \A e : e = Publishing(p) => OnItsWay(c, e)'
      BY <2>1, <2>4 DEF OnItsWay
    <2> QED
      BY <2>1, <2>2, <2>3, <2>5 DEF HubShape
  <1>4. ASSUME NEW d \in Conn, Subscribe(d) \/ Unsubscribe(d)
        PROVE  /\ owed' \in [Conn -> SUBSET Event]
               /\ \A c \in Conn \ subscribers' : owed'[c] = {}
               /\ \A c \in subscribers' : \A e \in owed'[c] :
                     \/ c \in subscribers /\ e \in owed[c]
                     \/ OnItsWay(c, e)'
    <2> DEFINE waiting == {p \in Publisher : pub[p].pc = "blocked"}
    <2>1. /\ owed' = [c \in Conn |->
                        IF c \in subscribers' THEN owed[c] \cup {Publishing(p) : p \in waiting}
                                             ELSE {}]
          /\ \A p \in waiting : pub'[p] = Visiting(p, subscribers')
      BY <1>4 DEF Subscribe, Unsubscribe, Unlock
    <2>2. \A p \in waiting : Publishing(p) \in Event
      BY WorksOnItsEvent DEF PublishersOK
    <2>3. \A p \in waiting : Publishing(p)' = Publishing(p) /\ pub'[p].todo = subscribers'
      BY <2>1, VisitingFields DEF Publishing
    <2>4. \A c \in subscribers' : \A e \in {Publishing(p) : p \in waiting} : OnItsWay(c, e)'
      BY <2>3 DEF OnItsWay
    <2>5. subscribers' \subseteq Conn
      BY <1>1 DEF HubShape
    <2> QED
      BY <2>1, <2>2, <2>4, <2>5
  <1>5. CASE UNCHANGED hubVars
    BY <1>2, <1>5 DEF hubVars
  <1> QED
    BY <1>2, <1>3, <1>4, <1>5 DEF HubNext, PublisherStep, Begin, RLock, SendOrDrop, Return,
       TabStep, Open, TabGoes, Take, Written, ContextDone, Lock

(* Every step keeps it that an owed event is on its way: a channel that    *)
(* holds all events begun has room for one more.                           *)
LEMMA OwedOKStep ==
    ASSUME HubInv, [HubNext]_hubVars
    PROVE  OwedOK'
  <1>1. HubShape /\ PublishersOK /\ LogOK /\ StreamsOK /\ DeliveredInOrder /\ OwedOK
    BY DEF HubInv
  <1>2. /\ IsFiniteSet(Begun') /\ Cardinality(Begun) <= Cardinality(Begun')
        /\ Cardinality(Begun) \in Nat /\ Cardinality(Begun') \in Nat
    BY <1>1, BegunIsMonotonic DEF OwedOK
  <1>3. /\ owed' \in [Conn -> SUBSET Event]
        /\ \A c \in Conn \ subscribers' : owed'[c] = {}
        /\ \A c \in subscribers' : \A e \in owed'[c] :
             (c \in subscribers /\ e \in owed[c]) \/ OnItsWay(c, e)'
    BY <1>1, OwedStep DEF OwedOK
  <1>4. ASSUME Cardinality(Begun') <= BufferSize, NEW c \in subscribers', NEW e \in owed'[c]
        PROVE  OnItsWay(c, e)'
    <2>1. Cardinality(Begun) <= BufferSize
      BY <1>2, <1>4, HubAssumption
    <2>2. CASE c \in subscribers /\ e \in owed[c]
      <3>1. OnItsWay(c, e)
        BY <1>1, <2>1, <2>2 DEF OwedOK, OnItsWay
      <3>2. \A p \in Publisher : SendOrDrop(p, c) => HasRoom(c)
        BY <1>1, <2>1, <2>2, FullChannelNeedsABurst DEF OwedOK, HubShape
      <3> QED
        BY <1>1, <3>1, <3>2, StaysOnItsWay
    <2> QED
      BY <1>3, <1>4, <2>2
  <1> QED
    BY <1>2, <1>3, <1>4 DEF OwedOK, OnItsWay

-----------------------------------------------------------------------------

(* Nothing is subscribed, published or owed at first.                      *)
LEMMA HubInvInitially == HubInit => HubInv
  <1> SUFFICES ASSUME HubInit PROVE HubInv
    OBVIOUS
  <1>1. <<>> \in Seq(Event) /\ Len(<<>>) = 0 /\ BufferSize \in Nat
    BY HubAssumption
  <1>2. HubShape
    BY <1>1 DEF HubInit, HubShape, ConnPC
  <1>3. PublishersOK
    BY HubAssumption DEF HubInit, PublishersOK, PubPC
  <1>4. LogOK
    BY DEF HubInit, LogOK
  <1>5. \A c \in Conn : Stream(c) = <<>>
    BY <1>2, StreamIsASequence DEF HubInit
  <1>6. StreamsOK /\ DeliveredInOrder
    BY <1>5 DEF StreamsOK, DeliveredInOrder, Elements
  <1>7. Begun = {}
    BY DEF HubInit, Begun
  <1>8. OwedOK
    BY <1>7, FS_EmptySet DEF HubInit, OwedOK
  <1> QED
    BY <1>2, <1>3, <1>4, <1>6, <1>8 DEF HubInv

(* The invariant holds of every reachable state.                           *)
LEMMA HubInvariance == HubSpec => []HubInv
  <1>1. HubInv /\ [HubNext]_hubVars => HubInv'
    BY ShapeStep, StreamsStep, OrderStep, OwedOKStep DEF HubInv, OwedOK
  <1> QED
    BY <1>1, HubInvInitially, PTL DEF HubSpec

(* The hub's set is the connections served, and no channel exceeds its     *)
(* capacity however many publishers fill it at once (hub.go:25-57).        *)
THEOREM HubTypeCorrect == HubSpec => []HubTypeOK
  <1>1. HubInv => HubTypeOK
    <2> SUFFICES ASSUME HubInv PROVE HubTypeOK
      OBVIOUS
    <2>1. HubShape /\ PublishersOK
      BY DEF HubInv
    <2>2. \A p \in Publisher : pub[p] \in [pc : PubPC, sent : 0 .. Burst[p], todo : SUBSET Conn]
      BY <2>1, HubAssumption DEF PublishersOK
    <2> QED
      BY <2>1, <2>2, StreamIsASequence DEF HubTypeOK, HubShape
  <1> QED
    BY <1>1, HubInvariance, PTL

(* The write lock excludes the readers: no publisher visits a connection   *)
(* that has left the map meanwhile (hub.go:37-57).                         *)
THEOREM VisitsSubscribersCorrect == HubSpec => []VisitsSubscribersOnly
  <1>1. HubInv => VisitsSubscribersOnly
    BY DEF HubInv, PublishersOK, VisitsSubscribersOnly
  <1> QED
    BY <1>1, HubInvariance, PTL

(* However many handlers publish at a time, no tab sees an event before    *)
(* one whose Publish had returned before its own began (hub.go:46-57).     *)
THEOREM DeliveredInOrderCorrect == HubSpec => []DeliveredInOrder
  <1>1. HubInv => DeliveredInOrder
    BY DEF HubInv
  <1> QED
    BY <1>1, HubInvariance, PTL

(* A tab misses nothing published while it is subscribed as long as no     *)
(* more was published than its channel holds (hub.go:52-56).               *)
THEOREM SmallBurstsCorrect == HubSpec => []SmallBurstsArrive
  <1>1. HubInv => SmallBurstsArrive
    <2> SUFFICES ASSUME HubInv, Cardinality(Begun) <= BufferSize,
                        NEW c \in subscribers, NEW e \in owed[c], e \in finished
                 PROVE  e \in Elements(Stream(c))
      BY DEF SmallBurstsArrive
    <2>1. \A p \in Publisher : e # Publishing(p)
      BY WorksOnItsEvent DEF HubInv
    <2> QED
      BY <2>1 DEF HubInv, OwedOK
  <1> QED
    BY <1>1, HubInvariance, PTL
=============================================================================
