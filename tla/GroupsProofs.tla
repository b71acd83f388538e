---------------------------- MODULE GroupsProofs ----------------------------
(***************************************************************************)
(* Proofs about SessionGroups and the pure functions of TaskGroups, for    *)
(* any sessions and names, any times of a hundredth of a second, any page  *)
(* size and any number of requests in flight.                              *)
(*                                                                         *)
(* The inductive invariant says what the list, and each request that is    *)
(* alone, knows of the daemon's rows and names: a request in flight is why *)
(* a name may be old or a row missing, and what it will set makes up.      *)
(***************************************************************************)
EXTENDS SessionGroups, ListProofs

-----------------------------------------------------------------------------
(* Times as texts.                                                         *)

(* The place of a text among all texts.                                    *)
Code(time) ==
    IF time = 0 THEN 110
    ELSE 11 * (time \div 10) + (IF time % 10 = 0 THEN 10 ELSE time % 10)

(* The digits of a time.                                                   *)
LEMMA Digits ==
    \A time \in 0..99 : /\ time \div 10 \in 0..9 /\ time % 10 \in 0..9
                        /\ time = (10 * (time \div 10)) + (time % 10)
  OBVIOUS

(* One text comes before another as their codes do; the codes differ.      *)
LEMMA TextOrder ==
    ASSUME NEW a \in 0..99, NEW b \in 0..99
    PROVE  /\ Before(a, b) <=> Code(a) < Code(b)
           /\ Code(a) = Code(b) => a = b
           /\ Code(a) \in Nat
PROOF
  <1> DEFINE q(t) == t \div 10
             r(t) == t % 10
  <1>1. /\ q(a) \in 0..9 /\ r(a) \in 0..9 /\ a = 10 * q(a) + r(a)
        /\ q(b) \in 0..9 /\ r(b) \in 0..9 /\ b = 10 * q(b) + r(b)
    BY Digits
  <1>2. \A t \in {a, b} : /\ t = 0 => formatTime(t) = <<10>> /\ Code(t) = 110
                          /\ t # 0 /\ r(t) = 0 => formatTime(t) = <<-1, q(t), 10>> /\ Code(t) = 11 * q(t) + 10
                          /\ t # 0 /\ r(t) # 0 => formatTime(t) = <<-1, q(t), r(t), 10>> /\ Code(t) = 11 * q(t) + r(t)
    BY DEF formatTime, Code, Point, Zulu
  <1> HIDE DEF q, r
  <1>3. TextBefore(<<10>>, <<10>>) = FALSE
    BY DEF TextBefore
  <1>4. \A x, y, z \in Int :
          /\ ~ TextBefore(<<10>>, <<-1, x, 10>>) /\ ~ TextBefore(<<10>>, <<-1, x, y, 10>>)
          /\ TextBefore(<<-1, x, 10>>, <<10>>) /\ TextBefore(<<-1, x, y, 10>>, <<10>>)
    BY DEF TextBefore
  <1>5. \A x, y \in Int : TextBefore(<<-1, x, 10>>, <<-1, y, 10>>) <=> x < y
    <2>1. SUFFICES ASSUME NEW x \in Int, NEW y \in Int
                   PROVE  TextBefore(<<-1, x, 10>>, <<-1, y, 10>>) <=> x < y
      OBVIOUS
    <2>2. DOMAIN <<-1, x, 10>> \cap DOMAIN <<-1, y, 10>> = {1, 2, 3}
      OBVIOUS
    <2>3. ASSUME x < y PROVE TextBefore(<<-1, x, 10>>, <<-1, y, 10>>)
      <3> DEFINE s == <<-1, x, 10>>
                 t == <<-1, y, 10>>
      <3>1. 2 \in DOMAIN s \cap DOMAIN t /\ s[2] < t[2] /\ \A j \in 1..(2 - 1) : s[j] = t[j]
        BY <2>2, <2>3
      <3> HIDE DEF s, t
      <3>2. TextBefore(s, t)
        BY <3>1 DEF TextBefore
      <3> QED
        BY <3>2 DEF s, t
    <2>4. TextBefore(<<-1, x, 10>>, <<-1, y, 10>>) => x < y
      BY <2>2 DEF TextBefore
    <2> QED
      BY <2>3, <2>4
  <1>6. \A x, y, z \in Int :
          TextBefore(<<-1, x, 10>>, <<-1, y, z, 10>>) <=> x < y \/ (x = y /\ 10 < z)
    BY DEF TextBefore
  <1>7. \A x, y, z \in Int :
          TextBefore(<<-1, y, z, 10>>, <<-1, x, 10>>) <=> y < x \/ (x = y /\ z < 10)
    BY DEF TextBefore
  <1>8. \A x, y, u, v \in Int :
          TextBefore(<<-1, x, y, 10>>, <<-1, u, v, 10>>) <=> x < u \/ (x = u /\ y < v)
    BY DEF TextBefore
  <1>9. Before(a, b) <=> Code(a) < Code(b)
    <2>1. CASE a = 0 /\ b = 0
      BY <1>2, <1>3, <2>1 DEF Before
    <2>2. CASE a = 0 /\ b # 0
      <3>1. formatTime(a) = <<10>> /\ Code(a) = 110
        BY <1>2, <2>2
      <3>2. formatTime(b) = <<-1, q(b), 10>> \/ formatTime(b) = <<-1, q(b), r(b), 10>>
        BY <1>2, <2>2
      <3>3. ~ TextBefore(<<10>>, <<-1, q(b), 10>>) /\ ~ TextBefore(<<10>>, <<-1, q(b), r(b), 10>>)
        BY <1>1, <1>4
      <3>4. ~ Before(a, b)
        BY <3>1, <3>2, <3>3 DEF Before
      <3>5. ~ Code(a) < Code(b)
        BY <1>1, <1>2, <2>2, <3>1
      <3> QED
        BY <3>4, <3>5
    <2>3. CASE a # 0 /\ b = 0
      BY <1>1, <1>2, <1>4, <2>3 DEF Before
    <2>4. CASE a # 0 /\ r(a) = 0 /\ b # 0 /\ r(b) = 0
      BY <1>1, <1>2, <1>5, <2>4 DEF Before
    <2>5. CASE a # 0 /\ r(a) = 0 /\ b # 0 /\ r(b) # 0
      BY <1>1, <1>2, <1>6, <2>5 DEF Before
    <2>6. CASE a # 0 /\ r(a) # 0 /\ b # 0 /\ r(b) = 0
      BY <1>1, <1>2, <1>7, <2>6 DEF Before
    <2>7. CASE a # 0 /\ r(a) # 0 /\ b # 0 /\ r(b) # 0
      <3>1. Code(a) = 11 * q(a) + r(a) /\ Code(b) = 11 * q(b) + r(b)
        BY <1>2, <2>7
      <3>2. Before(a, b) <=> q(a) < q(b) \/ (q(a) = q(b) /\ r(a) < r(b))
        <4>1. formatTime(a) = <<-1, q(a), r(a), 10>> /\ formatTime(b) = <<-1, q(b), r(b), 10>>
          BY <1>2, <2>7
        <4>2. TextBefore(<<-1, q(a), r(a), 10>>, <<-1, q(b), r(b), 10>>)
                <=> q(a) < q(b) \/ (q(a) = q(b) /\ r(a) < r(b))
          <5>1. q(a) \in Int /\ r(a) \in Int /\ q(b) \in Int /\ r(b) \in Int
            BY <1>1
          <5> QED
            BY <1>8, <5>1, Zenon
        <4> QED
          BY <4>1, <4>2 DEF Before
      <3>3. q(a) < q(b) \/ (q(a) = q(b) /\ r(a) < r(b)) <=> Code(a) < Code(b)
        BY <1>1, <3>1
      <3> QED
        BY <3>2, <3>3
    <2> QED
      BY <2>1, <2>2, <2>3, <2>4, <2>5, <2>6, <2>7
  <1>10. Code(a) = Code(b) => a = b
    BY <1>1, <1>2
  <1>11. Code(a) \in Nat
    BY <1>1, <1>2
  <1> QED
    BY <1>9, <1>10, <1>11

-----------------------------------------------------------------------------
(* The invariant.                                                          *)

(* A loaded row is of a completed task.                                    *)
RowSet == [task : done, name : Name]

(* A request of the tab.                                                   *)
CallSet ==
    [kind : {"none", "refresh", "more", "rename"}, pc : {"none", "asked", "stored", "answered"},
     session : Session \cup {Blank}, name : Name \cup {Blank}, offset : Nat,
     known : SUBSET Session, rows : Seq([task : Task, name : Name]),
     mounted : BOOLEAN, alone : BOOLEAN]

(* The editor of a group's header.                                         *)
HeaderSet ==
    [pc : {"shown", "open", "saving", "closed"}, draft : Name \cup {Blank},
     committed : Name \cup {Blank}]

(* The daemon's times, completed tasks and names.                          *)
StoreShape ==
    /\ at \in Histories /\ done \subseteq Task /\ names \in [Session -> Name]
    /\ news \in Nat /\ torn \in BOOLEAN

(* The list has rows of completed tasks; the header of a session it does   *)
(* not list is as new.                                                     *)
ListShape ==
    /\ list \in Seq([task : Task, name : Name]) /\ Range(list) \subseteq RowSet
    /\ collapsed \subseteq Session
    /\ header \in [Session -> HeaderSet]
    /\ \A s \in Session \ SessionsOf(list) : header[s] = Fresh

(* What each kind of request carries.                                      *)
Carries(call) ==
    /\ call.kind = "none" => call = Quiet
    /\ call.pc = "none" => call.kind = "none"
    /\ call.pc = "stored" => call.kind = "rename"
    /\ call.kind = "rename" => call.session \in Session /\ call.name \in Name
    /\ call.kind = "refresh" => call.offset = 0
    /\ call.mounted => call.kind = "rename"
    /\ Len(call.rows) <= PageSize

(* Requests carry rows of completed tasks, and one that is alone is the    *)
(* only one.                                                               *)
CallsShape ==
    /\ calls \in [Slot -> CallSet]
    /\ \A r \in Slot :
        /\ Carries(calls[r]) /\ Range(calls[r].rows) \subseteq RowSet
        /\ calls[r].alone => \A q \in Slot : q # r => calls[q] = Quiet

(* What SavingIsOnePatch says of one session, whatever Slot is.            *)
Saves(s) ==
    LET patches == {r \in Slot : Waits(r, s)} IN
    IF header[s].pc = "saving"
      THEN /\ \E r \in Slot : patches = {r}
           /\ header[s].draft \notin {Blank, header[s].committed}
           /\ \A r \in patches : calls[r].pc = "asked" => calls[r].name = header[s].draft
      ELSE patches = {}

(* So it is of every session: SavingIsOnePatch, without counting.          *)
EachSaves == \A s \in Session : Saves(s)

(* The row carries the name its session has now.                           *)
IsNamed(row) == row.name = names[SessionOf[row.task]]

(* The rows are those of the daemon's list from offset on.                 *)
Follows(rows, offset) ==
    \A i \in 1..Len(rows) :
        /\ offset + i \in DOMAIN NewestFirst(done, at)
        /\ rows[i].task = NewestFirst(done, at)[offset + i]

(* What a request that is alone knows.                                     *)
Knows(call) ==
    /\ call.kind \in {"refresh", "more"} /\ call.pc = "answered" =>
         /\ \A row \in Range(call.rows) : IsNamed(row)
         /\ news = 0 => Follows(call.rows, call.offset)
    /\ call.kind = "rename" /\ call.pc \in {"stored", "answered"} => call.name = names[call.session]
    /\ call.kind = "more" => call.offset = Len(list)

(* So it is of every request that is alone.                                *)
AloneKnow == \A r \in Slot : calls[r].alone => Knows(calls[r])

(* A row has its session's name, or the answer that will give it is on its *)
(* way.                                                                    *)
Renaming(s) ==
    \E r \in Slot : /\ calls[r].kind = "rename" /\ calls[r].pc \in {"stored", "answered"}
                    /\ calls[r].session = s

(* So it is of every row of a list that is not torn.                       *)
Named == ~ torn => \A row \in Range(list) : IsNamed(row) \/ Renaming(SessionOf[row.task])

(* The list is the daemon's as far as it goes, or will be fetched.         *)
Listed == ~ torn /\ news = 0 => Follows(list, 0) \/ \E r \in Slot : calls[r].kind = "refresh"

(* The inductive invariant.                                                *)
GroupsInv ==
    /\ StoreShape /\ ListShape /\ CallsShape
    /\ EachSaves /\ AloneKnow /\ Named /\ Listed

(* What is assumed of the constants, of TaskGroups and of SessionGroups.   *)
GroupsConstants == GroupsAssumption /\ GroupsViewAssumption

-----------------------------------------------------------------------------
(* Pages.                                                                  *)

(* The tasks completed so far can be listed, the newest first.             *)
LEMMA NewestFirstLists ==
    ASSUME GroupsConstants, StoreShape
    PROVE  /\ NewestFirst(done, at) \in Seq(done) /\ IsInjective(NewestFirst(done, at))
           /\ Range(NewestFirst(done, at)) = done
           /\ \A i, j \in DOMAIN NewestFirst(done, at) : i < j =>
                Before(at[NewestFirst(done, at)[j]], at[NewestFirst(done, at)[i]])
PROOF
  <1> DEFINE pairs == {p \in done \X done : Before(at[p[2]], at[p[1]])}
             all == Sorted(done, pairs)
  <1>1. IsInjective(at) /\ at \in [Task -> 0..99] /\ done \subseteq Task
    BY DEF GroupsConstants, GroupsAssumption, GroupsViewAssumption, StoreShape
  <1>2. IsFiniteSet(done)
    <2> DEFINE times == [t \in done |-> at[t]]
    <2>1. times \in Injection(done, 0..99)
      BY <1>1 DEF Injection, IsInjective
    <2>2. IsFiniteSet(0..99)
      <3>1. 0 \in Int /\ 99 \in Int
        OBVIOUS
      <3> QED
        BY <3>1, FS_Interval
    <2> QED
      BY <2>1, <2>2, FS_Injection
  <1>3. \A t, u \in done : <<t, u>> \in pairs <=> Code(at[u]) < Code(at[t])
    BY <1>1, TextOrder
  <1>4. \A t, u \in done : /\ Code(at[t]) \in Nat
                           /\ t # u => Code(at[t]) # Code(at[u])
    BY <1>1, TextOrder DEF IsInjective
  <1> HIDE DEF pairs
  <1>5. Orders(pairs, done)
    BY <1>3, <1>4 DEF Orders
  <1>6. Arranges(all, done, pairs)
    BY <1>2, <1>5, SortedSorts
  <1>7. all \in Seq(done) /\ IsInjective(all) /\ Range(all) = done /\ DOMAIN all = 1..Cardinality(done)
    BY <1>2, <1>5, <1>6, SortedElements
  <1>8. \A i, j \in DOMAIN all : i < j => <<all[i], all[j]>> \in pairs
    BY <1>6, <1>7 DEF Arranges
  <1>9. \A i, j \in DOMAIN all : i < j => Before(at[all[j]], at[all[i]])
    BY <1>8 DEF pairs
  <1>10. NewestFirst(done, at) = all
    BY DEF NewestFirst, pairs
  <1> QED
    BY <1>7, <1>9, <1>10

(* A page has rows of the list, with the names of the moment, and no more  *)
(* than the limit.                                                         *)
LEMMA PageFollows ==
    ASSUME GroupsConstants, StoreShape, NEW offset \in Nat, NEW page \in {Page(offset)}
    PROVE  /\ page \in Seq([task : Task, name : Name]) /\ Len(page) <= PageSize
           /\ Range(page) \subseteq RowSet /\ \A row \in Range(page) : IsNamed(row)
           /\ Follows(page, offset)
PROOF
  <1> DEFINE all == NewestFirst(done, at)
             last == IF offset + PageSize < Len(all) THEN offset + PageSize ELSE Len(all)
  <1>1. all \in Seq(done)
    BY NewestFirstLists
  <1>2. /\ PageSize \in Nat /\ done \subseteq Task /\ names \in [Session -> Name]
        /\ SessionOf \in [Task -> Session]
    BY DEF GroupsConstants, GroupsAssumption, GroupsViewAssumption, StoreShape
  <1>3. page = [i \in 1..(last - offset) |-> Row(all[offset + i])]
    BY DEF Page
  <1> HIDE DEF all
  <1>4. Len(all) \in Nat /\ DOMAIN all = 1..Len(all) /\ \A i \in 1..Len(all) : all[i] \in done
    BY <1>1
  <1>5. \A i \in 1..(last - offset) : offset + i \in 1..Len(all)
    BY <1>2, <1>4
  <1>6. PICK n \in Nat : n <= PageSize /\ 1..(last - offset) = 1..n
    <2>1. CASE last - offset \in Nat
      <3>1. last - offset <= PageSize
        BY <1>2, <1>4
      <3> QED
        BY <2>1, <3>1
    <2>2. CASE last - offset \notin Nat
      <3>1. 1..(last - offset) = 1..0 /\ 0 <= PageSize
        BY <1>2, <1>4, <2>2
      <3> QED
        BY <3>1
    <2> QED
      BY <2>1, <2>2
  <1> HIDE DEF last
  <1>7. page = [i \in 1..n |-> Row(all[offset + i])]
    BY <1>3, <1>6
  <1>8. \A i \in 1..n : /\ offset + i \in DOMAIN all /\ all[offset + i] \in done
                        /\ Row(all[offset + i]) \in RowSet
                        /\ Row(all[offset + i]).task = all[offset + i]
                        /\ IsNamed(Row(all[offset + i]))
    BY <1>2, <1>4, <1>5, <1>6 DEF Row, RowSet, IsNamed
  <1>9. RowSet \subseteq [task : Task, name : Name]
    BY <1>2 DEF RowSet
  <1>10. /\ page \in Seq([task : Task, name : Name]) /\ Len(page) = n /\ DOMAIN page = 1..n
         /\ \A i \in 1..n : page[i] = Row(all[offset + i])
    <2>1. DOMAIN page = 1..n /\ \A i \in 1..n : page[i] = Row(all[offset + i])
      BY <1>7
    <2>2. page \in [1..n -> [task : Task, name : Name]]
      <3>1. \A i \in 1..n : Row(all[offset + i]) \in [task : Task, name : Name]
        BY <1>8, <1>9
      <3> QED
        BY <1>7, <3>1
    <2>3. \A Y : \A f \in [1..n -> Y] : f \in Seq(Y) /\ Len(f) = n
      BY <1>6
    <2> QED
      BY <2>1, <2>2, <2>3
  <1>11. Range(page) \subseteq RowSet /\ \A row \in Range(page) : IsNamed(row)
    BY <1>8, <1>10 DEF Range
  <1>12. Follows(page, offset)
    BY <1>8, <1>10 DEF Follows, all
  <1> QED
    BY <1>6, <1>10, <1>11, <1>12

(* What follows the daemon's list as far as it goes, and a page from there *)
(* on, do so together.                                                     *)
LEMMA FollowsOn ==
    ASSUME NEW X, NEW rows \in Seq(X), NEW page \in Seq(X), Follows(rows, 0), Follows(page, Len(rows))
    PROVE  Follows(rows \o page, 0)
PROOF
  <1> DEFINE both == rows \o page
             all == NewestFirst(done, at)
  <1>1. /\ Len(rows) \in Nat /\ Len(page) \in Nat /\ Len(both) = Len(rows) + Len(page)
        /\ \A i \in 1..Len(rows) : both[i] = rows[i]
        /\ \A i \in 1..Len(page) : both[Len(rows) + i] = page[i]
    OBVIOUS
  <1>2. \A i \in 1..Len(rows) : 0 + i = i /\ i \in DOMAIN all /\ rows[i].task = all[i]
    BY <1>1 DEF Follows
  <1>3. \A i \in 1..Len(page) : Len(rows) + i \in DOMAIN all /\ page[i].task = all[Len(rows) + i]
    BY DEF Follows
  <1> HIDE DEF both, all
  <1>4. ASSUME NEW i \in 1..Len(both) PROVE i \in DOMAIN all /\ both[i].task = all[i]
    <2>1. CASE i \in 1..Len(rows)
      BY <1>1, <1>2, <2>1
    <2>2. CASE i \notin 1..Len(rows)
      <3>1. PICK j \in 1..Len(page) : i = Len(rows) + j
        <4>1. i - Len(rows) \in 1..Len(page) /\ i = Len(rows) + (i - Len(rows))
          BY <1>1, <2>2
        <4> QED
          BY <4>1
      <3> QED
        BY <1>1, <1>3, <3>1
    <2> QED
      BY <2>1, <2>2
  <1>5. \A i \in 1..Len(both) : 0 + i = i
    BY <1>1
  <1>6. Follows(both, 0)
    BY <1>4, <1>5 DEF Follows, all
  <1> QED
    BY <1>6 DEF both

-----------------------------------------------------------------------------
(* Requests.                                                               *)

(* Nothing is known of no request.                                         *)
LEMMA QuietShape ==
    ASSUME GroupsConstants
    PROVE  /\ Quiet \in CallSet /\ Carries(Quiet) /\ Range(Quiet.rows) = {}
           /\ Quiet.kind = "none" /\ Quiet.pc = "none" /\ Quiet.alone = FALSE /\ Quiet.mounted = FALSE
PROOF
  <1>1. /\ Quiet.kind = "none" /\ Quiet.pc = "none" /\ Quiet.alone = FALSE /\ Quiet.mounted = FALSE
        /\ Quiet.rows = <<>>
    BY DEF Quiet
  <1>2. <<>> \in Seq([task : Task, name : Name]) /\ Len(<<>>) = 0 /\ Range(<<>>) = {}
    BY DEF Range
  <1>3. Quiet \in CallSet
    BY <1>2 DEF Quiet, CallSet
  <1>4. PageSize \in Nat
    BY DEF GroupsConstants, GroupsViewAssumption
  <1>5. Carries(Quiet)
    BY <1>1, <1>2, <1>4 DEF Carries
  <1> QED
    BY <1>1, <1>2, <1>3, <1>5

(* A request that is as it was, but may no longer be alone, or its header  *)
(* on the page.                                                            *)
Alike(call, now) ==
    /\ now \in CallSet
    /\ now.kind = call.kind /\ now.pc = call.pc /\ now.session = call.session /\ now.name = call.name
    /\ now.offset = call.offset /\ now.known = call.known /\ now.rows = call.rows
    /\ now.alone => call.alone
    /\ now.mounted => call.mounted
    /\ call = Quiet => now = Quiet

(* A request that is no longer alone, or whose header is gone, carries what*)
(* it carried.                                                             *)
LEMMA LessIsAlike ==
    ASSUME GroupsConstants, NEW call \in CallSet
    PROVE  /\ Alike(call, call)
           /\ Alike(call, [call EXCEPT !.alone = FALSE])
           /\ [call EXCEPT !.alone = FALSE].alone = FALSE
           /\ [call EXCEPT !.alone = FALSE].mounted = call.mounted
           /\ \A b \in BOOLEAN : (b => call.mounted) =>
                /\ Alike(call, [call EXCEPT !.mounted = b])
                /\ [call EXCEPT !.mounted = b].mounted = b
                /\ [call EXCEPT !.mounted = b].alone = call.alone
PROOF
  <1>1. PICK no \in BOOLEAN : no = FALSE
    OBVIOUS
  <1>2. \A b \in BOOLEAN : [call EXCEPT !.alone = b] \in CallSet /\ [call EXCEPT !.mounted = b] \in CallSet
    BY DEF CallSet
  <1>3. \A b \in BOOLEAN :
          /\ [call EXCEPT !.alone = b].alone = b /\ [call EXCEPT !.mounted = b].mounted = b
          /\ [call EXCEPT !.alone = b].mounted = call.mounted
          /\ [call EXCEPT !.mounted = b].alone = call.alone
    BY DEF CallSet
  <1>4. \A b \in BOOLEAN :
          LET x == [call EXCEPT !.alone = b] IN
          /\ x.kind = call.kind /\ x.pc = call.pc /\ x.session = call.session /\ x.name = call.name
          /\ x.offset = call.offset /\ x.known = call.known /\ x.rows = call.rows
    BY DEF CallSet
  <1>5. \A b \in BOOLEAN :
          LET x == [call EXCEPT !.mounted = b] IN
          /\ x.kind = call.kind /\ x.pc = call.pc /\ x.session = call.session /\ x.name = call.name
          /\ x.offset = call.offset /\ x.known = call.known /\ x.rows = call.rows
    BY DEF CallSet
  <1>6. \A b \in BOOLEAN : b = FALSE /\ call = Quiet =>
          [call EXCEPT !.alone = b] = Quiet /\ [call EXCEPT !.mounted = b] = Quiet
    <2>1. /\ Quiet.alone = FALSE /\ Quiet.mounted = FALSE
          /\ Quiet = [k \in DOMAIN Quiet |-> Quiet[k]]
      BY DEF Quiet
    <2>2. [Quiet EXCEPT !.alone = FALSE] = Quiet /\ [Quiet EXCEPT !.mounted = FALSE] = Quiet
      BY <2>1
    <2> QED
      BY <2>2
  <1>7. Alike(call, call)
    BY DEF Alike
  <1>8. Alike(call, [call EXCEPT !.alone = no])
    BY <1>1, <1>2, <1>3, <1>4, <1>6 DEF Alike
  <1>9. \A b \in BOOLEAN : (b => call.mounted) => Alike(call, [call EXCEPT !.mounted = b])
    <2>1. SUFFICES ASSUME NEW b \in BOOLEAN, b => call.mounted
                   PROVE  Alike(call, [call EXCEPT !.mounted = b])
      OBVIOUS
    <2>2. call = Quiet => b = FALSE
      BY <2>1, QuietShape
    <2> QED
      BY <1>2, <1>3, <1>5, <1>6, <2>1, <2>2 DEF Alike
  <1> QED
    BY <1>1, <1>3, <1>7, <1>8, <1>9

(* A request is only alone while no other one is in flight.                *)
LEMMA OthersAreNotAlone ==
    ASSUME GroupsConstants, CallsShape, NEW r \in Slot, calls[r] # Quiet
    PROVE  \A q \in Slot : q # r => ~ calls[q].alone
  BY DEF CallsShape

(* One request changes, while the others lose at most being alone or their *)
(* headers.                                                                *)
LEMMA CallsKept ==
    ASSUME GroupsConstants, CallsShape, RowSet \subseteq RowSet', NEW r \in Slot,
           DOMAIN calls' = Slot, calls' = [q \in Slot |-> calls'[q]],
           \A q \in Slot : q # r => Alike(calls[q], calls'[q]),
           calls'[r] \in CallSet, Carries(calls'[r]), Range(calls'[r].rows) \subseteq RowSet',
           \A q \in Slot : q # r /\ calls'[q].alone => calls'[r] = Quiet,
           calls'[r].alone => \A q \in Slot : q # r => calls[q] = Quiet
    PROVE  CallsShape'
PROOF
  <1>1. calls' \in [Slot -> CallSet]
    BY DEF Alike
  <1>2. ASSUME NEW q \in Slot, q # r
        PROVE  /\ Carries(calls'[q]) /\ Range(calls'[q].rows) \subseteq RowSet'
               /\ calls'[q].alone => \A p \in Slot : p # q => calls'[p] = Quiet
    <2>1. /\ Alike(calls[q], calls'[q]) /\ Carries(calls[q]) /\ Range(calls[q].rows) \subseteq RowSet
          /\ calls[q].alone => \A p \in Slot : p # q => calls[p] = Quiet
      BY <1>2 DEF CallsShape
    <2>2. Carries(calls'[q])
      BY <2>1 DEF Carries, Alike
    <2>3. Range(calls'[q].rows) \subseteq RowSet'
      BY <2>1 DEF Alike
    <2>4. ASSUME calls'[q].alone, NEW p \in Slot, p # q PROVE calls'[p] = Quiet
      <3>1. calls[q].alone
        BY <2>1, <2>4 DEF Alike
      <3>2. CASE p = r
        BY <1>2, <2>4, <3>2
      <3>3. CASE p # r
        BY <2>1, <2>4, <3>1, <3>3 DEF Alike
      <3> QED
        BY <3>2, <3>3
    <2> QED
      BY <2>2, <2>3, <2>4
  <1>3. calls'[r].alone => \A q \in Slot : q # r => calls'[q] = Quiet
    BY DEF Alike
  <1> QED
    BY <1>1, <1>2, <1>3 DEF CallsShape, Carries

(* All requests change no more than that.                                  *)
LEMMA AllKept ==
    ASSUME GroupsConstants, CallsShape, RowSet \subseteq RowSet',
           DOMAIN calls' = Slot, calls' = [q \in Slot |-> calls'[q]],
           \A q \in Slot : Alike(calls[q], calls'[q])
    PROVE  CallsShape'
PROOF
  <1>1. calls' \in [Slot -> CallSet]
    BY DEF Alike
  <1>2. ASSUME NEW q \in Slot
        PROVE  /\ Carries(calls'[q]) /\ Range(calls'[q].rows) \subseteq RowSet'
               /\ calls'[q].alone => \A p \in Slot : p # q => calls'[p] = Quiet
    BY DEF CallsShape, Carries, Alike
  <1> QED
    BY <1>1, <1>2 DEF CallsShape, Carries

(* A request that begins is alone if there is no other, and no other one   *)
(* is alone after it.                                                      *)
LEMMA CallsStarted ==
    ASSUME GroupsConstants, CallsShape, NEW r \in Slot, NEW call \in CallSet, Carries(call),
           call.kind # "none", Range(call.rows) \subseteq RowSet, Start(r, call), UNCHANGED done
    PROVE  /\ CallsShape' /\ calls[r] = Quiet
           /\ calls'[r].kind = call.kind /\ calls'[r].pc = call.pc /\ calls'[r].known = call.known
           /\ calls'[r].session = call.session /\ calls'[r].name = call.name
           /\ calls'[r].offset = call.offset /\ calls'[r].rows = call.rows
           /\ calls'[r].mounted = call.mounted
           /\ \A q \in Slot : q # r => /\ Alike(calls[q], calls'[q]) /\ ~ calls'[q].alone
                                       /\ calls'[q].mounted = calls[q].mounted
PROOF
  <1>1. calls[r] = Quiet /\ calls \in [Slot -> CallSet]
    BY DEF Start, CallsShape
  <1>2. calls' = [q \in Slot |-> IF q = r THEN [call EXCEPT !.alone = Idle]
                                          ELSE [calls[q] EXCEPT !.alone = FALSE]]
    BY DEF Start
  <1>3. PICK b \in BOOLEAN : b = Idle
    BY DEF Idle
  <1> DEFINE now == [call EXCEPT !.alone = b]
  <1>4. /\ now \in CallSet /\ now.kind = call.kind /\ now.pc = call.pc /\ now.known = call.known
        /\ now.session = call.session /\ now.name = call.name /\ now.offset = call.offset
        /\ now.rows = call.rows /\ now.mounted = call.mounted /\ now.alone = b
    BY DEF CallSet
  <1>6. calls'[r] = now
    BY <1>2, <1>3
  <1> HIDE DEF now
  <1>7. ASSUME NEW q \in Slot, q # r
        PROVE  /\ Alike(calls[q], calls'[q]) /\ ~ calls'[q].alone
               /\ calls'[q].mounted = calls[q].mounted
    <2>1. calls[q] \in CallSet
      BY <1>1
    <2>2. calls'[q] = [calls[q] EXCEPT !.alone = FALSE]
      BY <1>2, <1>7
    <2> QED
      BY <2>1, <2>2, LessIsAlike
  <1>8. RowSet' = RowSet /\ Carries(now) /\ Range(now.rows) \subseteq RowSet'
    BY <1>4 DEF RowSet, Carries
  <1>9. now.alone => \A q \in Slot : q # r => calls[q] = Quiet
    BY <1>3, <1>4 DEF Idle
  <1>10. DOMAIN calls' = Slot /\ calls' = [q \in Slot |-> calls'[q]]
    BY <1>2
  <1>11. CallsShape'
    BY <1>4, <1>6, <1>7, <1>8, <1>9, <1>10, CallsKept
  <1> QED
    BY <1>1, <1>4, <1>6, <1>7, <1>11

(* A request that goes on, or ends, is as alone as it was.                 *)
LEMMA CallsReplaced ==
    ASSUME GroupsConstants, CallsShape, NEW r \in Slot, calls[r] # Quiet, UNCHANGED done,
           NEW now \in CallSet, Carries(now), Range(now.rows) \subseteq RowSet,
           now.alone => calls[r].alone, calls' = [calls EXCEPT ![r] = now]
    PROVE  /\ CallsShape' /\ calls'[r] = now
           /\ \A q \in Slot : q # r => calls'[q] = calls[q] /\ ~ calls[q].alone
           /\ calls[r].alone => \A q \in Slot : q # r => calls[q] = Quiet
PROOF
  <1>1. calls \in [Slot -> CallSet] /\ RowSet' = RowSet
    BY DEF CallsShape, RowSet
  <1>2. calls'[r] = now /\ DOMAIN calls' = Slot /\ \A q \in Slot : q # r => calls'[q] = calls[q]
    BY <1>1
  <1>3. \A q \in Slot : q # r => ~ calls[q].alone
    BY OthersAreNotAlone
  <1>4. calls[r].alone => \A q \in Slot : q # r => calls[q] = Quiet
    BY DEF CallsShape
  <1>5. \A q \in Slot : q # r => Alike(calls[q], calls'[q])
    BY <1>1, <1>2, LessIsAlike
  <1>6. calls' = [q \in Slot |-> calls'[q]]
    BY <1>1
  <1>7. CallsShape'
    BY <1>1, <1>2, <1>3, <1>4, <1>5, <1>6, CallsKept
  <1> QED
    BY <1>2, <1>3, <1>4, <1>7

(* A change the tab does not hear of leaves no request alone.              *)
LEMMA CallsUnheard ==
    ASSUME GroupsConstants, CallsShape, RowSet \subseteq RowSet', Unheard
    PROVE  /\ CallsShape' /\ torn' = TRUE
           /\ \A q \in Slot : /\ Alike(calls[q], calls'[q]) /\ ~ calls'[q].alone
                               /\ calls'[q].mounted = calls[q].mounted
PROOF
  <1>1. calls' = [q \in Slot |-> [calls[q] EXCEPT !.alone = FALSE]] /\ torn' = TRUE
    BY DEF Unheard
  <1>2. DOMAIN calls' = Slot /\ calls' = [q \in Slot |-> calls'[q]]
    BY <1>1
  <1>3. ASSUME NEW q \in Slot
        PROVE  /\ Alike(calls[q], calls'[q]) /\ ~ calls'[q].alone
               /\ calls'[q].mounted = calls[q].mounted
    <2>1. calls[q] \in CallSet /\ calls'[q] = [calls[q] EXCEPT !.alone = FALSE]
      BY <1>1 DEF CallsShape
    <2> QED
      BY <2>1, LessIsAlike
  <1>4. CallsShape'
    BY <1>2, <1>3, AllKept
  <1> QED
    BY <1>1, <1>3, <1>4

(* A header that leaves the page forsakes its request.                     *)
LEMMA Forsaken ==
    ASSUME GroupsConstants, CallsShape, NEW q \in Slot, NEW gone, NEW now \in {Forsake(q, gone)}
    PROVE  /\ Alike(calls[q], now) /\ now.alone = calls[q].alone
           /\ now.mounted <=> calls[q].mounted /\ calls[q].session \notin gone
PROOF
  <1>1. calls[q] \in CallSet
    BY DEF CallsShape
  <1>2. PICK b \in BOOLEAN : b <=> calls[q].mounted /\ calls[q].session \notin gone
    OBVIOUS
  <1>3. now = [calls[q] EXCEPT !.mounted = b]
    BY <1>1, <1>2 DEF Forsake, CallSet
  <1>4. b => calls[q].mounted
    BY <1>2
  <1>5. /\ Alike(calls[q], [calls[q] EXCEPT !.mounted = b])
        /\ [calls[q] EXCEPT !.mounted = b].mounted = b
        /\ [calls[q] EXCEPT !.mounted = b].alone = calls[q].alone
    <2>1. [calls[q] EXCEPT !.mounted = b].alone = calls[q].alone
      BY <1>1 DEF CallSet
    <2>2. \A c \in BOOLEAN : (c => calls[q].mounted) =>
            /\ Alike(calls[q], [calls[q] EXCEPT !.mounted = c])
            /\ [calls[q] EXCEPT !.mounted = c].mounted = c
      BY <1>1, LessIsAlike, Zenon
    <2>3. /\ Alike(calls[q], [calls[q] EXCEPT !.mounted = b])
          /\ [calls[q] EXCEPT !.mounted = b].mounted = b
      BY <1>4, <2>2, Zenon
    <2> QED
      BY <2>1, <2>3, Zenon
  <1> QED
    BY <1>2, <1>3, <1>5

-----------------------------------------------------------------------------
(* What keeps the parts of the invariant.                                  *)

(* Only a header that is saving waits.                                     *)
LEMMA SavesEach ==
    /\ \A s \in Session : Saves(s) /\ header[s].pc # "saving" => \A r \in Slot : ~ Waits(r, s)
    /\ \A s \in Session : header[s].pc # "saving" /\ (\A r \in Slot : ~ Waits(r, s)) => Saves(s)
  BY DEF Saves

(* A header that stays as it is waits for the same requests.               *)
LEMMA SavesKept ==
    ASSUME NEW s \in Session, Saves(s), header'[s] = header[s],
           \A q \in Slot :
              /\ Waits(q, s)' <=> Waits(q, s)
              /\ Waits(q, s) /\ calls'[q].pc = "asked" =>
                   calls[q].pc = "asked" /\ calls'[q].name = calls[q].name
    PROVE  Saves(s)'
PROOF
  <1> DEFINE patches == {r \in Slot : Waits(r, s)}
  <1>1. IF header[s].pc = "saving"
          THEN /\ \E r \in Slot : patches = {r}
               /\ header[s].draft \notin {Blank, header[s].committed}
               /\ \A r \in patches : calls[r].pc = "asked" => calls[r].name = header[s].draft
          ELSE patches = {}
    BY DEF Saves
  <1>2. \A r \in patches : r \in Slot /\ Waits(r, s)
    OBVIOUS
  <1>3. patches' = patches
    OBVIOUS
  <1>4. IF header'[s].pc = "saving"
          THEN /\ \E r \in Slot : patches' = {r}
               /\ header'[s].draft \notin {Blank, header'[s].committed}
               /\ \A r \in patches' : calls'[r].pc = "asked" => calls'[r].name = header'[s].draft
          ELSE patches' = {}
    <2> HIDE DEF patches
    <2>1. header[s].pc = "saving" =>
            \A r \in patches : calls'[r].pc = "asked" => calls'[r].name = header[s].draft
      BY <1>1, <1>2, Zenon
    <2> QED
      BY <1>1, <1>3, <2>1
  <1> QED
    BY <1>4 DEF Saves

(* The requests stay with the headers, and ask for the same names.         *)
LEMMA SavingKept ==
    ASSUME EachSaves, UNCHANGED header,
           \A q \in Slot :
              /\ calls'[q].mounted <=> calls[q].mounted
              /\ calls[q].mounted => /\ calls'[q].session = calls[q].session
                                     /\ calls'[q].pc = "asked" =>
                                          calls[q].pc = "asked" /\ calls'[q].name = calls[q].name
    PROVE  EachSaves'
PROOF
  <1>1. ASSUME NEW s \in Session PROVE Saves(s)'
    <2>1. Saves(s)
      BY DEF EachSaves
    <2>2. \A q \in Slot :
            /\ Waits(q, s)' <=> Waits(q, s)
            /\ Waits(q, s) /\ calls'[q].pc = "asked" =>
                 calls[q].pc = "asked" /\ calls'[q].name = calls[q].name
      BY DEF Waits
    <2> QED
      BY <2>1, <2>2, SavesKept
  <1> QED
    BY <1>1 DEF EachSaves

(* Names, rows and the renames that are stored stay.                       *)
LEMMA NamedKept ==
    ASSUME Named, UNCHANGED <<list, names>>, ~ torn' => ~ torn,
           \A q \in Slot :
              calls[q].kind = "rename" /\ calls[q].pc \in {"stored", "answered"} /\ ~ torn' =>
                 /\ calls'[q].kind = "rename" /\ calls'[q].pc \in {"stored", "answered"}
                 /\ calls'[q].session = calls[q].session
    PROVE  Named'
PROOF
  <1>1. \A s : ~ torn' /\ Renaming(s) => Renaming(s)'
    BY DEF Renaming
  <1>2. \A row : IsNamed(row) => IsNamed(row)'
    BY DEF IsNamed
  <1> QED
    BY <1>1, <1>2 DEF Named

(* The rows and the refreshes on their way stay.                           *)
LEMMA ListedKept ==
    ASSUME Listed, UNCHANGED <<at, done, list>>, ~ torn' => ~ torn, news' = 0 => news = 0,
           \A q \in Slot : calls[q].kind = "refresh" /\ ~ torn' => calls'[q].kind = "refresh"
    PROVE  Listed'
PROOF
  <1>1. Follows(list, 0) => Follows(list, 0)'
    BY DEF Follows
  <1> QED
    BY <1>1 DEF Listed

(* What a request knows stays true of the same rows and names.             *)
LEMMA KnowsKept ==
    ASSUME UNCHANGED <<at, done, names, list>>, news' = 0 => news = 0, NEW q \in Slot,
           Knows(calls[q]), Alike(calls[q], calls'[q])
    PROVE  Knows(calls[q])'
PROOF
  <1>1. \A row : IsNamed(row) => IsNamed(row)'
    BY DEF IsNamed
  <1>2. Follows(calls[q].rows, calls[q].offset) => Follows(calls[q].rows, calls[q].offset)'
    BY DEF Follows, Alike
  <1> QED
    BY <1>1, <1>2 DEF Knows, Alike

(* The sessions of the list are sessions, and each is shown with a name.   *)
LEMMA LoadedSessions ==
    ASSUME GroupsConstants, ListShape
    PROVE  /\ SessionsOf(list) \subseteq Session
           /\ \A s \in SessionsOf(list) : Shown(s) \in Name
PROOF
  <1>1. SessionOf \in [Task -> Session]
    BY DEF GroupsConstants, GroupsAssumption
  <1>2. \A row \in Range(list) : row.task \in Task /\ row.name \in Name
    <2>1. \A X : list \in Seq(X) => \A row \in Range(list) : row \in X
      BY DEF Range
    <2>2. \A row \in Range(list) : row \in [task : Task, name : Name]
      BY <2>1 DEF ListShape
    <2> QED
      BY <2>2
  <1>3. ASSUME NEW s \in SessionsOf(list) PROVE Shown(s) \in Name
    <2> DEFINE chosen == {row \in Range(list) : SessionOf[row.task] = s}
               rows == RowsOf(list, s)
    <2>1. rows \in Seq([task : Task, name : Name]) /\ Range(rows) = Range(list) \cap chosen
      <3>1. list \in Seq([task : Task, name : Name])
        BY DEF ListShape
      <3> HIDE DEF chosen
      <3>2. Within(list, chosen) \in Seq([task : Task, name : Name])
            /\ Range(Within(list, chosen)) = Range(list) \cap chosen
        BY <3>1, WithinKeeps
      <3> QED
        BY <3>2 DEF RowsOf, chosen
    <2>2. chosen # {} /\ chosen \subseteq Range(list)
      BY <1>3 DEF SessionsOf
    <2> HIDE DEF chosen, rows
    <2>3. 1 \in DOMAIN rows
      BY <2>1, <2>2 DEF Range
    <2>4. rows[1] \in Range(list)
      BY <2>1, <2>2, <2>3 DEF Range
    <2> QED
      BY <1>2, <2>4 DEF Shown, rows
  <1> QED
    BY <1>1, <1>2, <1>3 DEF SessionsOf

-----------------------------------------------------------------------------
(* Steps of the user.                                                      *)

(* Steps that leave the daemon, the requests and the rows alone.           *)
LEMMA StillCalls ==
    ASSUME GroupsConstants, GroupsInv, UNCHANGED <<storeVars, news, torn, calls, list>>
    PROVE  StoreShape' /\ CallsShape' /\ AloneKnow' /\ Named' /\ Listed'
PROOF
  <1>1. UNCHANGED <<at, done, names>>
    BY DEF storeVars
  <1>2. StoreShape'
    BY <1>1 DEF GroupsInv, StoreShape
  <1>3. CallsShape'
    BY <1>1 DEF GroupsInv, CallsShape, RowSet, Carries
  <1>4. AloneKnow'
    <2>1. SUFFICES ASSUME NEW q \in Slot, calls'[q].alone PROVE Knows(calls[q])'
      BY DEF AloneKnow
    <2>2. Knows(calls[q]) /\ Alike(calls[q], calls'[q])
      BY <2>1, LessIsAlike DEF GroupsInv, AloneKnow, CallsShape
    <2> QED
      BY <1>1, <2>2, KnowsKept
  <1>5. Named'
    BY <1>1, NamedKept DEF GroupsInv
  <1>6. Listed'
    BY <1>1, ListedKept DEF GroupsInv
  <1> QED
    BY <1>2, <1>3, <1>4, <1>5, <1>6

(* Folding and unfolding.                                                  *)
LEMMA FoldStep ==
    ASSUME GroupsConstants, GroupsInv, collapsed' \subseteq Session,
           UNCHANGED <<storeVars, news, faultVars, calls, list, header>>
    PROVE  GroupsInv'
PROOF
  <1>1. UNCHANGED <<at, done, names>> /\ UNCHANGED torn
    BY DEF storeVars, faultVars
  <1>2. StoreShape' /\ CallsShape' /\ AloneKnow' /\ Named' /\ Listed'
    BY <1>1, StillCalls
  <1>3. ListShape'
    BY <1>1 DEF GroupsInv, ListShape, RowSet, SessionsOf, Fresh
  <1>4. EachSaves'
    BY SavingKept DEF GroupsInv
  <1> QED
    BY <1>2, <1>3, <1>4 DEF GroupsInv

(* One header of the list changes that is not saving, before or after.     *)
LEMMA HeaderStep ==
    ASSUME GroupsConstants, GroupsInv, NEW s \in SessionsOf(list), NEW h \in HeaderSet,
           header[s].pc # "saving", h.pc # "saving", header' = [header EXCEPT ![s] = h],
           UNCHANGED <<storeVars, news, torn, calls, list, collapsed>>
    PROVE  GroupsInv'
PROOF
  <1>1. UNCHANGED <<at, done, names>>
    BY DEF storeVars
  <1>2. StoreShape' /\ CallsShape' /\ AloneKnow' /\ Named' /\ Listed'
    BY StillCalls
  <1>3. s \in Session /\ header \in [Session -> HeaderSet]
    BY LoadedSessions DEF GroupsInv, ListShape
  <1>4. header' \in [Session -> HeaderSet] /\ header'[s] = h
        /\ \A u \in Session : u # s => header'[u] = header[u]
    BY <1>3
  <1>5. SessionsOf(list)' = SessionsOf(list) /\ RowSet' = RowSet
    BY <1>1 DEF SessionsOf, RowSet
  <1>6. ListShape'
    BY <1>1, <1>3, <1>4, <1>5 DEF GroupsInv, ListShape, Fresh
  <1>7. ASSUME NEW u \in Session PROVE Saves(u)'
    <2>1. Saves(u)
      BY DEF GroupsInv, EachSaves
    <2>2. \A q \in Slot : Waits(q, u)' <=> Waits(q, u)
      BY DEF Waits
    <2>3. CASE u = s
      <3>1. \A q \in Slot : ~ Waits(q, u)'
        BY <2>1, <2>2, <2>3, SavesEach
      <3>2. {r \in Slot : Waits(r, u)'} = {} /\ header'[u].pc # "saving"
        BY <1>4, <2>3, <3>1
      <3> QED
        BY <3>2 DEF Saves
    <2>4. CASE u # s
      BY <1>4, <2>1, <2>2, <2>4, SavesKept
    <2> QED
      BY <2>3, <2>4
  <1>8. EachSaves'
    BY <1>7 DEF EachSaves
  <1> QED
    BY <1>2, <1>6, <1>8 DEF GroupsInv


(* Headers that leave the page, with their groups or by scrolling.         *)
LEMMA SavingForsaken ==
    ASSUME GroupsConstants, GroupsInv, NEW gone,
           header' = [u \in Session |-> IF u \in gone THEN Fresh ELSE header[u]],
           \A q \in Slot :
              /\ calls'[q].mounted <=> calls[q].mounted /\ calls[q].session \notin gone
              /\ calls[q].mounted => /\ calls'[q].session = calls[q].session
                                     /\ calls'[q].pc = calls[q].pc /\ calls'[q].name = calls[q].name
    PROVE  EachSaves'
PROOF
  <1>1. Fresh.pc = "shown"
    BY DEF Fresh
  <1>2. ASSUME NEW u \in Session PROVE Saves(u)'
    <2>1. CASE u \in gone
      <3>1. header'[u].pc # "saving"
        BY <1>1, <2>1
      <3>2. \A q \in Slot : ~ Waits(q, u)'
        BY <2>1 DEF Waits
      <3>3. {q \in Slot : Waits(q, u)'} = {}
        BY <3>2
      <3> QED
        BY <3>1, <3>3 DEF Saves
    <2>2. CASE u \notin gone
      <3>1. Saves(u)
        BY DEF GroupsInv, EachSaves
      <3>2. header'[u] = header[u]
        BY <2>2
      <3>3. \A q \in Slot :
              /\ Waits(q, u)' <=> Waits(q, u)
              /\ Waits(q, u) /\ calls'[q].pc = "asked" =>
                   calls[q].pc = "asked" /\ calls'[q].name = calls[q].name
        BY <2>2 DEF Waits
      <3> QED
        BY <3>1, <3>2, <3>3, SavesKept
    <2> QED
      BY <2>1, <2>2
  <1> QED
    BY <1>2 DEF EachSaves

(* The shape of a header that is not edited.                               *)
LEMMA FreshShape == Fresh \in HeaderSet /\ Fresh.pc = "shown"
  BY DEF Fresh, HeaderSet

(* A header scrolls out of sight.                                          *)
LEMMA UnmountStep ==
    ASSUME GroupsConstants, GroupsInv, NEW s \in Session, Unmount(s)
    PROVE  GroupsInv'
PROOF
  <1>1. /\ UNCHANGED <<at, done, names, news, torn, list, collapsed>>
        /\ header' = [u \in Session |-> IF u \in {s} THEN Fresh ELSE header[u]]
        /\ calls' = [q \in Slot |-> Forsake(q, {s})]
    BY DEF Unmount, Unmounted, storeVars, faultVars
  <1>2. RowSet' = RowSet /\ SessionsOf(list)' = SessionsOf(list)
    BY <1>1 DEF RowSet, SessionsOf
  <1>3. ASSUME NEW q \in Slot
        PROVE  /\ Alike(calls[q], calls'[q]) /\ calls'[q].alone = calls[q].alone
               /\ calls'[q].mounted <=> calls[q].mounted /\ calls[q].session \notin {s}
    <2>1. calls'[q] = Forsake(q, {s})
      BY <1>1
    <2> QED
      BY <2>1, Forsaken DEF GroupsInv
  <1>4. DOMAIN calls' = Slot /\ calls' = [q \in Slot |-> calls'[q]]
    BY <1>1
  <1>5. CallsShape'
    BY <1>2, <1>3, <1>4, AllKept DEF GroupsInv
  <1>6. StoreShape'
    BY <1>1 DEF GroupsInv, StoreShape
  <1>7. ListShape'
    <2>1. header' \in [Session -> HeaderSet]
      BY <1>1, FreshShape DEF GroupsInv, ListShape
    <2>2. \A u \in Session \ SessionsOf(list)' : header'[u] = Fresh
      BY <1>1, <1>2 DEF GroupsInv, ListShape
    <2> QED
      BY <1>1, <1>2, <2>1, <2>2 DEF GroupsInv, ListShape, Fresh
  <1>8. EachSaves'
    BY <1>1, <1>3, SavingForsaken DEF Alike
  <1>9. AloneKnow'
    <2>1. SUFFICES ASSUME NEW q \in Slot, calls'[q].alone PROVE Knows(calls[q])'
      BY DEF AloneKnow
    <2>2. Knows(calls[q])
      BY <1>3, <2>1 DEF GroupsInv, AloneKnow
    <2> QED
      BY <1>1, <1>3, <2>2, KnowsKept
  <1>10. Named'
    BY <1>1, <1>3, NamedKept DEF GroupsInv, Alike
  <1>11. Listed'
    BY <1>1, <1>3, ListedKept DEF GroupsInv, Alike
  <1> QED
    BY <1>5, <1>6, <1>7, <1>8, <1>9, <1>10, <1>11 DEF GroupsInv

-----------------------------------------------------------------------------
(* Requests begin.                                                         *)

(* What a request carries when it begins.                                  *)
LEMMA CallShape ==
    ASSUME GroupsConstants, NEW kind \in {"refresh", "more", "rename"}
    PROVE  /\ Call(kind) \in CallSet /\ Call(kind).kind = kind /\ Call(kind).pc = "asked"
           /\ Call(kind).offset = 0 /\ Call(kind).rows = <<>> /\ Call(kind).mounted = FALSE
PROOF
  <1>1. Quiet \in CallSet /\ Quiet.offset = 0 /\ Quiet.rows = <<>> /\ Quiet.mounted = FALSE
    BY QuietShape DEF Quiet
  <1> QED
    BY <1>1 DEF Call, CallSet

(* A request that begins leaves what is known of the list.                 *)
LEMMA StartStep ==
    ASSUME GroupsConstants, GroupsInv, NEW r \in Slot, NEW call \in CallSet, Carries(call),
           call.kind # "none", call.pc = "asked", call.rows = <<>>, Start(r, call),
           call.kind = "more" => call.offset = Len(list),
           UNCHANGED <<storeVars, torn, list>>,
           news' \in Nat, news' = 0 => news = 0 \/ call.kind = "refresh"
    PROVE  StoreShape' /\ CallsShape' /\ AloneKnow' /\ Named' /\ Listed'
PROOF
  <1>1. UNCHANGED <<at, done, names>>
    BY DEF storeVars
  <1>2. Range(call.rows) \subseteq RowSet
    BY DEF Range
  <1>3. /\ CallsShape' /\ calls[r] = Quiet
        /\ calls'[r].kind = call.kind /\ calls'[r].pc = call.pc /\ calls'[r].known = call.known
        /\ calls'[r].offset = call.offset
        /\ \A q \in Slot : q # r => Alike(calls[q], calls'[q]) /\ ~ calls'[q].alone
    BY <1>1, <1>2, CallsStarted DEF GroupsInv
  <1>4. StoreShape'
    BY <1>1 DEF GroupsInv, StoreShape
  <1>5. AloneKnow'
    <2>1. SUFFICES ASSUME NEW q \in Slot, calls'[q].alone PROVE Knows(calls[q])'
      BY DEF AloneKnow
    <2>2. q = r
      BY <1>3, <2>1
    <2>3. SessionsOf(list)' = SessionsOf(list)
      BY <1>1 DEF SessionsOf
    <2> QED
      BY <1>3, <2>2, <2>3 DEF Knows
  <1>6. Quiet.kind = "none"
    BY DEF Quiet
  <1>7. Named'
    <2>1. \A q \in Slot : calls[q].kind = "rename" => Alike(calls[q], calls'[q])
      BY <1>3, <1>6
    <2> QED
      BY <1>1, <2>1, NamedKept DEF GroupsInv, Alike
  <1>8. Listed'
    <2>1. \A q \in Slot : calls[q].kind = "refresh" => calls'[q].kind = "refresh"
      BY <1>3, <1>6 DEF Alike
    <2>2. CASE news' = 0 => news = 0
      BY <1>1, <2>1, <2>2, ListedKept DEF GroupsInv
    <2>3. CASE call.kind = "refresh"
      BY <1>3, <2>3 DEF Listed
    <2> QED
      BY <2>2, <2>3
  <1> QED
    BY <1>3, <1>4, <1>5, <1>7, <1>8

(* A request that is no rename begins.                                     *)
LEMMA FetchStep ==
    ASSUME GroupsConstants, GroupsInv, NEW r \in Slot, NEW call \in CallSet, Carries(call),
           call.kind \in {"refresh", "more"}, call.pc = "asked", call.rows = <<>>, Start(r, call),
           call.kind = "more" => call.offset = Len(list),
           UNCHANGED <<storeVars, torn, list, collapsed, header>>,
           news' \in Nat, news' = 0 => news = 0 \/ call.kind = "refresh"
    PROVE  GroupsInv'
PROOF
  <1>1. StoreShape' /\ CallsShape' /\ AloneKnow' /\ Named' /\ Listed'
    BY StartStep
  <1>2. UNCHANGED <<at, done, names>>
    BY DEF storeVars
  <1>3. ListShape'
    BY <1>2 DEF GroupsInv, ListShape, RowSet, SessionsOf, Fresh
  <1>4. Range(call.rows) \subseteq RowSet
    BY DEF Range
  <1>5. /\ calls[r] = Quiet /\ calls'[r].mounted = call.mounted
        /\ \A q \in Slot : q # r => Alike(calls[q], calls'[q]) /\ calls'[q].mounted = calls[q].mounted
    BY <1>2, <1>4, CallsStarted DEF GroupsInv
  <1>6. Quiet.mounted = FALSE /\ ~ call.mounted
    BY QuietShape DEF Carries
  <1>7. EachSaves'
    BY <1>5, <1>6, SavingKept DEF GroupsInv, Alike
  <1> QED
    BY <1>1, <1>3, <1>7 DEF GroupsInv

(* The list is fetched, and more of it.                                    *)
LEMMA FetchSteps ==
    ASSUME GroupsConstants, GroupsInv, NEW r \in Slot, Hear(r) \/ Refresh(r) \/ loadMoreHistory(r)
    PROVE  GroupsInv'
PROOF
  <1>1. PageSize \in Nat /\ news \in Nat /\ Len(<<>>) = 0
    BY DEF GroupsConstants, GroupsViewAssumption, GroupsInv, StoreShape
  <1>2. PICK all \in {Call("refresh")} : TRUE
    OBVIOUS
  <1>3. all \in CallSet /\ all.kind = "refresh" /\ all.pc = "asked" /\ all.rows = <<>> /\ Carries(all)
    <2>1. /\ Call("refresh") \in CallSet /\ Call("refresh").kind = "refresh"
          /\ Call("refresh").pc = "asked" /\ Call("refresh").rows = <<>>
          /\ Call("refresh").mounted = FALSE /\ Call("refresh").offset = 0
      BY CallShape
    <2>2. /\ all \in CallSet /\ all.kind = "refresh" /\ all.pc = "asked" /\ all.rows = <<>>
          /\ all.mounted = FALSE /\ all.offset = 0
      BY <1>2, <2>1
    <2> QED
      BY <1>1, <2>2 DEF Carries
  <1>4. CASE Hear(r)
    BY <1>1, <1>2, <1>3, <1>4, FetchStep DEF Hear
  <1>5. CASE Refresh(r)
    BY <1>1, <1>2, <1>3, <1>5, FetchStep DEF Refresh
  <1>6. CASE loadMoreHistory(r)
    <2>1. PICK more \in {[Call("more") EXCEPT !.offset = Len(list), !.known = SessionsOf(list)]} : TRUE
      OBVIOUS
    <2>2. Len(list) \in Nat /\ SessionsOf(list) \in SUBSET Session
      BY LoadedSessions DEF GroupsInv, ListShape
    <2>3. /\ Call("more") \in CallSet /\ Call("more").kind = "more" /\ Call("more").pc = "asked"
          /\ Call("more").rows = <<>> /\ Call("more").mounted = FALSE
      BY CallShape
    <2>4. /\ more \in CallSet /\ more.kind = "more" /\ more.pc = "asked" /\ more.rows = <<>>
          /\ more.mounted = FALSE /\ more.offset = Len(list)
      BY <2>1, <2>2, <2>3 DEF CallSet
    <2>5. Carries(more)
      BY <1>1, <2>4 DEF Carries
    <2> QED
      BY <1>1, <1>6, <2>1, <2>4, <2>5, FetchStep DEF loadMoreHistory
  <1> QED
    BY <1>4, <1>5, <1>6


(* A header that is left: closed, or saving and its PATCH sent.            *)
LEMMA SaveStep ==
    ASSUME GroupsConstants, GroupsInv, NEW s \in Session, NEW r \in Slot, save(s, r)
    PROVE  GroupsInv'
PROOF
  <1>1. header \in [Session -> HeaderSet] /\ header[s].pc = "open" /\ header[s] \in HeaderSet
    BY DEF save, GroupsInv, ListShape
  <1>2. s \in SessionsOf(list)
    BY <1>1, FreshShape DEF GroupsInv, ListShape
  <1>3. UNCHANGED <<storeVars, news, torn, list, collapsed>>
    BY DEF save
  <1>4. CASE header[s].draft \in {Blank, header[s].committed}
    <2>1. PICK h \in {Closed(s)} : TRUE
      OBVIOUS
    <2>2. h \in HeaderSet /\ h.pc = "closed"
      BY <1>1, <2>1 DEF Closed, HeaderSet
    <2>3. header' = [header EXCEPT ![s] = h] /\ UNCHANGED calls
      BY <1>4, <2>1 DEF save
    <2> QED
      BY <1>1, <1>2, <1>3, <2>2, <2>3, HeaderStep
  <1>5. CASE header[s].draft \notin {Blank, header[s].committed}
    <2>1. header' = [header EXCEPT ![s].pc = "saving"] /\ Start(r, Patch(s))
      BY <1>5 DEF save
    <2>2. PICK call \in {Patch(s)} : TRUE
      OBVIOUS
    <2>3. header[s].draft \in Name
      BY <1>1, <1>5 DEF HeaderSet
    <2>4. /\ Call("rename") \in CallSet /\ Call("rename").kind = "rename"
          /\ Call("rename").pc = "asked" /\ Call("rename").rows = <<>>
      BY CallShape
    <2>5. /\ call \in CallSet /\ call.kind = "rename" /\ call.pc = "asked" /\ call.rows = <<>>
          /\ call.session = s /\ call.name = header[s].draft /\ call.mounted = TRUE
      BY <2>2, <2>3, <2>4 DEF Patch, CallSet
    <2>6. Carries(call)
      <3>1. PageSize \in Nat /\ Len(<<>>) = 0
        BY DEF GroupsConstants, GroupsViewAssumption
      <3> QED
        BY <2>3, <2>5, <3>1 DEF Carries
    <2>7. Start(r, call)
      BY <2>1, <2>2
    <2>8. StoreShape' /\ CallsShape' /\ AloneKnow' /\ Named' /\ Listed'
      <3>1. news' \in Nat /\ news' = news
        BY <1>3 DEF GroupsInv, StoreShape
      <3> QED
        BY <1>3, <2>5, <2>6, <2>7, <3>1, StartStep
    <2>9. UNCHANGED <<at, done, names>>
      BY <1>3 DEF storeVars
    <2>10. /\ calls[r] = Quiet /\ calls'[r].mounted = TRUE /\ calls'[r].session = s
           /\ calls'[r].name = header[s].draft
           /\ \A q \in Slot : q # r => Alike(calls[q], calls'[q]) /\ calls'[q].mounted = calls[q].mounted
      <3>1. Range(call.rows) \subseteq RowSet
        BY <2>5 DEF Range
      <3> QED
        BY <2>5, <2>6, <2>7, <2>9, <3>1, CallsStarted DEF GroupsInv
    <2>11. /\ header' \in [Session -> HeaderSet] /\ header'[s].pc = "saving"
           /\ header'[s].draft = header[s].draft /\ header'[s].committed = header[s].committed
           /\ \A u \in Session : u # s => header'[u] = header[u]
      BY <1>1, <2>1 DEF HeaderSet
    <2>12. ListShape'
      <3>1. SessionsOf(list)' = SessionsOf(list) /\ RowSet' = RowSet
        BY <1>3, <2>9 DEF SessionsOf, RowSet
      <3> QED
        BY <1>2, <1>3, <2>11, <3>1 DEF GroupsInv, ListShape, Fresh
    <2>13. Quiet.mounted = FALSE
      BY QuietShape
    <2>14. ASSUME NEW u \in Session PROVE Saves(u)'
      <3>1. Saves(u)
        BY DEF GroupsInv, EachSaves
      <3>2. \A q \in Slot : q # r => (Waits(q, u)' <=> Waits(q, u))
        BY <2>10 DEF Waits, Alike
      <3>3. ~ Waits(r, u) /\ (Waits(r, u)' <=> u = s)
        BY <2>10, <2>13 DEF Waits
      <3>4. CASE u = s
        <4>1. \A q \in Slot : ~ Waits(q, u)
          BY <1>1, <3>1, <3>4, SavesEach
        <4>2. {q \in Slot : Waits(q, u)'} = {r}
          BY <3>2, <3>3, <3>4, <4>1
        <4> QED
          BY <1>5, <2>10, <2>11, <3>4, <4>2 DEF Saves
      <3>5. CASE u # s
        <4>1. \A q \in Slot :
                /\ Waits(q, u)' <=> Waits(q, u)
                /\ Waits(q, u) /\ calls'[q].pc = "asked" =>
                     calls[q].pc = "asked" /\ calls'[q].name = calls[q].name
          BY <2>10, <3>2, <3>3, <3>5 DEF Alike
        <4> QED
          BY <2>11, <3>1, <3>5, <4>1, SavesKept
      <3> QED
        BY <3>4, <3>5
    <2> QED
      BY <2>8, <2>12, <2>14 DEF GroupsInv, EachSaves
  <1> QED
    BY <1>4, <1>5

(* What the user does with one group.                                      *)
LEMMA UserSteps ==
    ASSUME GroupsConstants, GroupsInv, NEW s \in Session, UserStep(s)
    PROVE  GroupsInv'
PROOF
  <1>1. /\ header \in [Session -> HeaderSet] /\ collapsed \subseteq Session
        /\ header[s].pc = "open" => s \in SessionsOf(list)
    BY FreshShape DEF GroupsInv, ListShape
  <1>2. SessionsOf(list) \subseteq Session /\ \A u \in SessionsOf(list) : Shown(u) \in Name
    BY LoadedSessions DEF GroupsInv
  <1>3. CASE toggleHistoryGroupCollapsed(s)
    <2>1. collapsed' \subseteq Session
      BY <1>1, <1>3 DEF toggleHistoryGroupCollapsed
    <2> QED
      BY <1>3, <2>1, FoldStep DEF toggleHistoryGroupCollapsed
  <1>4. CASE Unmount(s)
    BY <1>4, UnmountStep
  <1>5. CASE startEditing(s)
    <2>1. PICK h \in {[pc |-> "open", draft |-> Shown(s), committed |-> Shown(s)]} : TRUE
      OBVIOUS
    <2>2. s \in SessionsOf(list) /\ header[s].pc # "saving" /\ h \in HeaderSet /\ h.pc # "saving"
      BY <1>2, <1>5, <2>1 DEF startEditing, HeaderSet
    <2>3. header' = [header EXCEPT ![s] = h]
      BY <1>5, <2>1 DEF startEditing
    <2>4. UNCHANGED <<storeVars, news, torn, calls, list, collapsed>>
      BY <1>5 DEF startEditing, faultVars
    <2> QED
      BY <2>2, <2>3, <2>4, HeaderStep
  <1>6. CASE cancelEditing(s)
    <2>1. PICK h \in {Closed(s)} : TRUE
      OBVIOUS
    <2>2. h \in HeaderSet /\ h.pc # "saving"
      <3>1. header[s] \in HeaderSet /\ h = [header[s] EXCEPT !.pc = "closed", !.draft = header[s].committed]
        BY <1>1, <2>1 DEF Closed
      <3> QED
        BY <3>1 DEF HeaderSet
    <2>3. header[s].pc = "open" /\ header' = [header EXCEPT ![s] = h]
      BY <1>6, <2>1 DEF cancelEditing
    <2>4. UNCHANGED <<storeVars, news, torn, calls, list, collapsed>>
      BY <1>6 DEF cancelEditing, faultVars
    <2> QED
      BY <1>1, <2>2, <2>3, <2>4, HeaderStep
  <1>7. ASSUME NEW text \in Name \cup {Blank}, Type(s, text) PROVE GroupsInv'
    <2>1. PICK h \in {[header[s] EXCEPT !.draft = text]} : TRUE
      OBVIOUS
    <2>2. header[s].pc = "open" /\ header' = [header EXCEPT ![s] = h]
      BY <1>1, <1>7, <2>1 DEF Type
    <2>3. h \in HeaderSet /\ h.pc # "saving"
      BY <1>1, <2>1, <2>2 DEF HeaderSet
    <2>4. UNCHANGED <<storeVars, news, torn, calls, list, collapsed>>
      BY <1>7 DEF Type, faultVars
    <2> QED
      BY <1>1, <2>2, <2>3, <2>4, HeaderStep
  <1>8. ASSUME NEW r \in Slot, save(s, r) PROVE GroupsInv'
    BY <1>8, SaveStep
  <1> QED
    BY <1>3, <1>4, <1>5, <1>6, <1>7, <1>8 DEF UserStep

(* All groups unfold, or fold.                                             *)
LEMMA AllFoldSteps ==
    ASSUME GroupsConstants, GroupsInv, expandAllGroups \/ collapseAllGroups
    PROVE  GroupsInv'
PROOF
  <1>1. collapsed' \subseteq Session
    BY LoadedSessions DEF expandAllGroups, collapseAllGroups, GroupsInv
  <1> QED
    BY <1>1, FoldStep DEF expandAllGroups, collapseAllGroups

-----------------------------------------------------------------------------
(* Steps of the world.                                                     *)

(* After what the tab does not hear of, nothing is claimed.                *)
LEMMA UnheardStep ==
    ASSUME GroupsConstants, GroupsInv, Unheard, StoreShape', done \subseteq done',
           UNCHANGED <<list, collapsed, header>>
    PROVE  GroupsInv'
PROOF
  <1>1. RowSet \subseteq RowSet'
    BY DEF RowSet
  <1>2. /\ CallsShape' /\ torn' = TRUE
        /\ \A q \in Slot : /\ Alike(calls[q], calls'[q]) /\ ~ calls'[q].alone
                           /\ calls'[q].mounted = calls[q].mounted
    BY <1>1, CallsUnheard DEF GroupsInv
  <1>3. ListShape'
    BY <1>1 DEF GroupsInv, ListShape, SessionsOf, Fresh
  <1>4. EachSaves'
    BY <1>2, SavingKept DEF GroupsInv, Alike
  <1>5. AloneKnow' /\ Named' /\ Listed'
    BY <1>2 DEF AloneKnow, Named, Listed
  <1> QED
    BY <1>2, <1>3, <1>4, <1>5 DEF GroupsInv

(* A task completes, or another tab renames.                               *)
LEMMA WorldSteps ==
    ASSUME GroupsConstants, GroupsInv, WorldStep
    PROVE  GroupsInv'
PROOF
  <1>1. ASSUME NEW t \in Task, Complete(t) PROVE GroupsInv'
    <2>1. UNCHANGED <<at, names, list, collapsed, header>> /\ done' = done \cup {t}
      BY <1>1 DEF Complete
    <2>2. CASE news' = news + 1 /\ UNCHANGED <<faultVars, calls>>
      <3>1. news' \in Nat /\ news' # 0 /\ UNCHANGED torn
        BY <2>2 DEF GroupsInv, StoreShape, faultVars
      <3>2. StoreShape'
        BY <2>1, <3>1 DEF GroupsInv, StoreShape
      <3>3. RowSet \subseteq RowSet'
        BY <2>1 DEF RowSet
      <3>4. ListShape'
        BY <2>1, <3>3 DEF GroupsInv, ListShape, SessionsOf, Fresh
      <3>5. CallsShape'
        BY <2>2, <3>3 DEF GroupsInv, CallsShape, Carries
      <3>6. EachSaves'
        BY <2>1, <2>2, SavingKept DEF GroupsInv
      <3>7. AloneKnow'
        <4>1. \A row : IsNamed(row) => IsNamed(row)'
          BY <2>1 DEF IsNamed
        <4>2. SessionsOf(list)' = SessionsOf(list) /\ Len(list)' = Len(list)
          BY <2>1 DEF SessionsOf
        <4> QED
          BY <2>1, <2>2, <3>1, <4>1, <4>2 DEF GroupsInv, AloneKnow, Knows
      <3>8. Named'
        BY <2>1, <2>2, <3>1, NamedKept DEF GroupsInv
      <3>9. Listed'
        BY <3>1 DEF Listed
      <3> QED
        BY <3>2, <3>4, <3>5, <3>6, <3>7, <3>8, <3>9 DEF GroupsInv
    <2>3. CASE Unheard /\ UNCHANGED news
      <3>1. torn' \in BOOLEAN
        BY <2>3 DEF Unheard
      <3>2. StoreShape'
        BY <2>1, <2>3, <3>1 DEF GroupsInv, StoreShape
      <3> QED
        BY <2>1, <2>3, <3>2, UnheardStep
    <2> QED
      BY <1>1, <2>2, <2>3 DEF Complete
  <1>2. ASSUME NEW s \in Edited, NEW name \in Name, RenameElsewhere(s, name) PROVE GroupsInv'
    <2>1. /\ UNCHANGED <<at, done, news, list, collapsed, header>> /\ Unheard
          /\ names' = [names EXCEPT ![s] = name]
      BY <1>2 DEF RenameElsewhere
    <2>2. torn' \in BOOLEAN
      BY <2>1 DEF Unheard
    <2>3. StoreShape'
      BY <2>1, <2>2 DEF GroupsInv, StoreShape
    <2> QED
      BY <2>1, <2>3, UnheardStep
  <1> QED
    BY <1>1, <1>2 DEF WorldStep


-----------------------------------------------------------------------------
(* Requests go on.                                                         *)

(* A request in flight goes on, with its header: the daemon's names, or    *)
(* the rows it has, may be new.                                            *)
LEMMA OnwardStep ==
    ASSUME GroupsConstants, GroupsInv, NEW r \in Slot, calls[r] # Quiet, NEW now \in CallSet,
           Carries(now), Range(now.rows) \subseteq RowSet, now.alone = calls[r].alone,
           now.kind = calls[r].kind, now.session = calls[r].session, now.mounted = calls[r].mounted,
           now.pc # "asked", calls' = [calls EXCEPT ![r] = now],
           calls[r].pc \in {"stored", "answered"} => now.pc \in {"stored", "answered"},
           UNCHANGED <<at, done, news, torn, list, collapsed, header>>,
           names' \in [Session -> Name], now.alone => Knows(now)'
    PROVE  /\ StoreShape' /\ ListShape' /\ CallsShape' /\ EachSaves' /\ AloneKnow' /\ Listed'
           /\ calls'[r] = now /\ \A q \in Slot : q # r => calls'[q] = calls[q]
           /\ \A s : Renaming(s) => Renaming(s)'
PROOF
  <1>1. /\ CallsShape' /\ calls'[r] = now
        /\ \A q \in Slot : q # r => calls'[q] = calls[q] /\ ~ calls[q].alone
    BY CallsReplaced DEF GroupsInv
  <1>2. StoreShape'
    BY DEF GroupsInv, StoreShape
  <1>3. ListShape'
    BY DEF GroupsInv, ListShape, RowSet, SessionsOf, Fresh
  <1>4. EachSaves'
    <2>1. \A q \in Slot :
            /\ calls'[q].mounted <=> calls[q].mounted
            /\ calls[q].mounted => /\ calls'[q].session = calls[q].session
                                   /\ calls'[q].pc = "asked" =>
                                        calls[q].pc = "asked" /\ calls'[q].name = calls[q].name
      BY <1>1
    <2> QED
      BY <2>1, SavingKept DEF GroupsInv
  <1>5. AloneKnow'
    BY <1>1 DEF AloneKnow
  <1>6. Listed'
    <2>1. \A q \in Slot : calls[q].kind = "refresh" => calls'[q].kind = "refresh"
      BY <1>1
    <2> QED
      BY <2>1, ListedKept DEF GroupsInv
  <1>7. ASSUME NEW s, Renaming(s) PROVE Renaming(s)'
    <2>1. PICK q \in Slot : /\ calls[q].kind = "rename" /\ calls[q].pc \in {"stored", "answered"}
                            /\ calls[q].session = s
      BY <1>7 DEF Renaming
    <2>2. /\ calls'[q].kind = "rename" /\ calls'[q].pc \in {"stored", "answered"}
          /\ calls'[q].session = s
      BY <1>1, <2>1
    <2> QED
      BY <2>2 DEF Renaming
  <1> QED
    BY <1>1, <1>2, <1>3, <1>4, <1>5, <1>6, <1>7

(* The daemon answers with a page.                                         *)
LEMMA ServeStep ==
    ASSUME GroupsConstants, GroupsInv, NEW r \in Slot, ServeRows(r)
    PROVE  GroupsInv'
PROOF
  <1>1. /\ calls \in [Slot -> CallSet] /\ calls[r] \in CallSet /\ Carries(calls[r])
        /\ calls[r].pc = "asked" /\ calls[r].kind \in {"refresh", "more"}
        /\ names \in [Session -> Name]
    BY DEF ServeRows, GroupsInv, CallsShape, StoreShape
  <1>2. UNCHANGED <<at, done, names, news, torn, list, collapsed, header>>
    BY DEF ServeRows, storeVars, faultVars
  <1>3. calls[r].offset \in Nat
    BY <1>1 DEF CallSet
  <1>4. PICK page \in {Page(calls[r].offset)} : TRUE
    OBVIOUS
  <1>5. /\ page \in Seq([task : Task, name : Name]) /\ Len(page) <= PageSize
        /\ Range(page) \subseteq RowSet /\ \A row \in Range(page) : IsNamed(row)
        /\ Follows(page, calls[r].offset)
    BY <1>3, <1>4, PageFollows DEF GroupsInv
  <1>6. PICK now \in {[calls[r] EXCEPT !.pc = "answered", !.rows = page]} : TRUE
    OBVIOUS
  <1>7. /\ now \in CallSet /\ now.pc = "answered" /\ now.rows = page
        /\ now.kind = calls[r].kind /\ now.session = calls[r].session /\ now.name = calls[r].name
        /\ now.offset = calls[r].offset /\ now.known = calls[r].known
        /\ now.mounted = calls[r].mounted /\ now.alone = calls[r].alone
    BY <1>1, <1>5, <1>6 DEF CallSet
  <1>8. calls' = [calls EXCEPT ![r] = now]
    BY <1>1, <1>4, <1>6 DEF ServeRows
  <1>9. Carries(now)
    BY <1>1, <1>5, <1>7 DEF Carries
  <1>10. ASSUME now.alone PROVE Knows(now)'
    <2>1. Knows(calls[r])
      BY <1>7, <1>10 DEF GroupsInv, AloneKnow
    <2>2. \A row : IsNamed(row) => IsNamed(row)'
      BY <1>2 DEF IsNamed
    <2>3. PICK offset \in Nat : offset = calls[r].offset
      BY <1>3
    <2>4. Follows(page, offset)
      BY <1>5, <2>3
    <2>5. Follows(page, offset)'
      BY <1>2, <2>4 DEF Follows
    <2>6. SessionsOf(list)' = SessionsOf(list) /\ Len(list)' = Len(list)
      BY <1>2 DEF SessionsOf
    <2>7. now.kind = "more" => now.offset = Len(list)
      BY <1>7, <2>1 DEF Knows
    <2>8. \A row \in Range(now.rows) : IsNamed(row)'
      BY <1>5, <1>7, <2>2
    <2>9. Follows(now.rows, now.offset)'
      BY <1>7, <2>3, <2>5
    <2> QED
      BY <1>1, <1>7, <2>6, <2>7, <2>8, <2>9 DEF Knows
  <1>11. calls[r] # Quiet
    BY <1>1, QuietShape
  <1>12. /\ StoreShape' /\ ListShape' /\ CallsShape' /\ EachSaves' /\ AloneKnow' /\ Listed'
         /\ \A s : Renaming(s) => Renaming(s)'
    BY <1>1, <1>2, <1>5, <1>7, <1>8, <1>9, <1>10, <1>11, OnwardStep
  <1>13. Named'
    BY <1>2, <1>12 DEF GroupsInv, Named, IsNamed
  <1> QED
    BY <1>12, <1>13 DEF GroupsInv

(* The daemon stores a name, and reads it for the answer.                  *)
LEMMA NameSteps ==
    ASSUME GroupsConstants, GroupsInv, NEW r \in Slot, StoreName(r) \/ ReadName(r)
    PROVE  GroupsInv'
PROOF
  <1>1. /\ calls \in [Slot -> CallSet] /\ calls[r] \in CallSet /\ Carries(calls[r])
        /\ names \in [Session -> Name] /\ Range(calls[r].rows) \subseteq RowSet
    BY DEF GroupsInv, CallsShape, StoreShape
  <1>2. calls[r].kind = "rename" /\ calls[r].session \in Session /\ calls[r].name \in Name
    BY <1>1 DEF StoreName, ReadName, Carries
  <1>3. UNCHANGED <<at, done, news, torn, list, collapsed, header>>
    BY DEF StoreName, ReadName, storeVars, faultVars
  <1>4. PICK now \in {calls'[r]} : TRUE
    OBVIOUS
  <1>5. CASE StoreName(r)
    <2>1. /\ now \in CallSet /\ now.pc = "stored" /\ now.rows = calls[r].rows
          /\ now.kind = calls[r].kind /\ now.session = calls[r].session /\ now.name = calls[r].name
          /\ now.offset = calls[r].offset /\ now.known = calls[r].known
          /\ now.mounted = calls[r].mounted /\ now.alone = calls[r].alone
          /\ calls' = [calls EXCEPT ![r] = now]
      BY <1>1, <1>4, <1>5 DEF StoreName, CallSet
    <2>2. names' = [names EXCEPT ![calls[r].session] = calls[r].name]
      BY <1>5 DEF StoreName
    <2>3. names' \in [Session -> Name] /\ names'[now.session] = now.name
      BY <1>1, <1>2, <2>1, <2>2
    <2>4. Carries(now) /\ Knows(now)' /\ calls[r] # Quiet
      <3>1. Carries(now)
        BY <1>1, <1>2, <2>1 DEF Carries
      <3>2. Knows(now)'
        BY <1>2, <2>1, <2>3 DEF Knows
      <3> QED
        BY <1>2, <3>1, <3>2, QuietShape
    <2>5. /\ StoreShape' /\ ListShape' /\ CallsShape' /\ EachSaves' /\ AloneKnow' /\ Listed'
          /\ calls'[r] = now /\ \A s : Renaming(s) => Renaming(s)'
      BY <1>1, <1>2, <1>3, <2>1, <2>3, <2>4, OnwardStep
    <2>6. PICK s \in Session : s = calls[r].session
      BY <1>2
    <2>7. Renaming(s)'
      BY <1>2, <2>1, <2>5, <2>6 DEF Renaming
    <2>8. \A row : IsNamed(row) /\ SessionOf[row.task] # s => IsNamed(row)'
      <3>1. \A u : u # s => names'[u] = names[u]
        BY <1>1, <2>2, <2>6
      <3> QED
        BY <3>1 DEF IsNamed
    <2>9. Named'
      <3>1. SUFFICES ASSUME ~ torn, NEW row \in Range(list)
                     PROVE  IsNamed(row)' \/ Renaming(SessionOf[row.task])'
        BY <1>3 DEF Named
      <3>2. IsNamed(row) \/ Renaming(SessionOf[row.task])
        BY <3>1 DEF GroupsInv, Named
      <3> QED
        BY <2>5, <2>7, <2>8, <3>2
    <2> QED
      BY <2>5, <2>9 DEF GroupsInv
  <1>6. CASE ReadName(r)
    <2>1. names' = names /\ calls[r].pc = "stored"
      BY <1>6 DEF ReadName, storeVars
    <2>2. names[calls[r].session] \in Name
      BY <1>1, <1>2
    <2>3. /\ now \in CallSet /\ now.pc = "answered" /\ now.rows = calls[r].rows
          /\ now.kind = calls[r].kind /\ now.session = calls[r].session
          /\ now.name = names[calls[r].session]
          /\ now.offset = calls[r].offset /\ now.known = calls[r].known
          /\ now.mounted = calls[r].mounted /\ now.alone = calls[r].alone
          /\ calls' = [calls EXCEPT ![r] = now]
      BY <1>1, <1>4, <1>6, <2>2, ZenonT(30) DEF ReadName, CallSet
    <2>4. Carries(now) /\ Knows(now)' /\ calls[r] # Quiet
      BY <1>1, <1>2, <2>1, <2>2, <2>3, QuietShape DEF Carries, Knows
    <2>5. /\ StoreShape' /\ ListShape' /\ CallsShape' /\ EachSaves' /\ AloneKnow' /\ Listed'
          /\ \A s : Renaming(s) => Renaming(s)'
      BY <1>1, <1>2, <1>3, <2>1, <2>3, <2>4, OnwardStep
    <2>6. Named'
      BY <1>3, <2>1, <2>5 DEF GroupsInv, Named, IsNamed
    <2> QED
      BY <2>5, <2>6 DEF GroupsInv
  <1> QED
    BY <1>5, <1>6


-----------------------------------------------------------------------------
(* Requests end.                                                           *)

(* A request that ends leaves the others; if it was alone, none is left.   *)
LEMMA CallsEnded ==
    ASSUME GroupsConstants, GroupsInv, NEW r \in Slot, calls[r] # Quiet, UNCHANGED done,
           calls' = [calls EXCEPT ![r] = Quiet]
    PROVE  /\ CallsShape' /\ calls'[r] = Quiet /\ AloneKnow'
           /\ \A q \in Slot : q # r => calls'[q] = calls[q] /\ ~ calls[q].alone
           /\ calls[r].alone => \A q \in Slot : q # r => calls[q] = Quiet
PROOF
  <1>1. Quiet \in CallSet /\ Carries(Quiet) /\ Range(Quiet.rows) = {} /\ Quiet.alone = FALSE
    BY QuietShape
  <1>2. PICK now \in {Quiet} : now = Quiet
    OBVIOUS
  <1>3. now \in CallSet /\ Carries(now) /\ Range(now.rows) \subseteq RowSet /\ now.alone = FALSE
        /\ calls' = [calls EXCEPT ![r] = now]
    BY <1>1, <1>2
  <1>4. /\ CallsShape' /\ calls'[r] = Quiet
        /\ \A q \in Slot : q # r => calls'[q] = calls[q] /\ ~ calls[q].alone
        /\ calls[r].alone => \A q \in Slot : q # r => calls[q] = Quiet
    BY <1>2, <1>3, CallsReplaced DEF GroupsInv
  <1>5. AloneKnow'
    BY <1>1, <1>4 DEF AloneKnow
  <1> QED
    BY <1>4, <1>5

(* The headers that waited for a request that ends are released.           *)
LEMMA SavingReleased ==
    ASSUME GroupsConstants, GroupsInv, NEW r \in Slot, calls'[r] = Quiet,
           \A q \in Slot : q # r => calls'[q] = calls[q],
           \A s \in Session : IF Waits(r, s) THEN header'[s].pc # "saving" ELSE header'[s] = header[s]
    PROVE  EachSaves'
PROOF
  <1>1. Quiet.mounted = FALSE
    BY QuietShape
  <1>2. ASSUME NEW s \in Session PROVE Saves(s)'
    <2>1. Saves(s)
      BY DEF GroupsInv, EachSaves
    <2>2. ~ Waits(r, s)' /\ \A q \in Slot : q # r => (Waits(q, s)' <=> Waits(q, s))
      BY <1>1 DEF Waits
    <2>3. CASE Waits(r, s)
      <3>1. PICK q \in Slot : {p \in Slot : Waits(p, s)} = {q}
        BY <2>1, <2>3, SavesEach DEF Saves
      <3>2. \A p \in Slot : p # r => ~ Waits(p, s)
        BY <2>3, <3>1
      <3>3. {p \in Slot : Waits(p, s)'} = {} /\ header'[s].pc # "saving"
        BY <2>2, <2>3, <3>2
      <3> QED
        BY <3>3 DEF Saves
    <2>4. CASE ~ Waits(r, s)
      <3>1. header'[s] = header[s]
        BY <2>4
      <3>2. \A q \in Slot :
              /\ Waits(q, s)' <=> Waits(q, s)
              /\ Waits(q, s) /\ calls'[q].pc = "asked" =>
                   calls[q].pc = "asked" /\ calls'[q].name = calls[q].name
        BY <2>2, <2>4
      <3> QED
        BY <2>1, <3>1, <3>2, SavesKept
    <2> QED
      BY <2>3, <2>4
  <1> QED
    BY <1>2 DEF EachSaves

(* A session whose header waits is in the list.                            *)
LEMMA WaitsInList ==
    ASSUME GroupsConstants, GroupsInv, NEW r \in Slot, NEW s \in Session, Waits(r, s)
    PROVE  s \in SessionsOf(list) /\ header[s] \in HeaderSet
PROOF
  <1>1. header[s].pc = "saving"
    BY SavesEach DEF GroupsInv, EachSaves
  <1> QED
    BY <1>1, FreshShape DEF GroupsInv, ListShape

(* A request fails.                                                        *)
LEMMA FailStep ==
    ASSUME GroupsConstants, GroupsInv, NEW r \in Slot, Fails(r)
    PROVE  GroupsInv'
PROOF
  <1>1. /\ calls[r] # Quiet /\ UNCHANGED <<at, done, names, news, list, collapsed>>
        /\ torn' = (torn \/ calls[r].kind = "refresh" \/ calls[r].pc \in {"stored", "answered"})
        /\ header' = [s \in Session |-> IF Waits(r, s) THEN [header[s] EXCEPT !.pc = "open"]
                                                       ELSE header[s]]
        /\ calls' = [calls EXCEPT ![r] = Quiet]
    BY DEF Fails, End, storeVars
  <1>2. /\ CallsShape' /\ calls'[r] = Quiet /\ AloneKnow'
        /\ \A q \in Slot : q # r => calls'[q] = calls[q]
    BY <1>1, CallsEnded
  <1>3. StoreShape'
    BY <1>1 DEF GroupsInv, StoreShape
  <1>4. ASSUME NEW s \in Session
        PROVE  /\ header'[s] \in HeaderSet
               /\ s \notin SessionsOf(list) => header'[s] = Fresh
               /\ IF Waits(r, s) THEN header'[s].pc # "saving" ELSE header'[s] = header[s]
    <2>1. CASE Waits(r, s)
      <3>1. s \in SessionsOf(list) /\ header[s] \in HeaderSet
        BY <2>1, WaitsInList
      <3>2. header'[s] = [header[s] EXCEPT !.pc = "open"]
        BY <1>1, <2>1
      <3>3. header'[s] \in HeaderSet /\ header'[s].pc = "open"
        BY <3>1, <3>2 DEF HeaderSet
      <3> QED
        BY <2>1, <3>1, <3>3
    <2>2. CASE ~ Waits(r, s)
      BY <1>1, <2>2 DEF GroupsInv, ListShape
    <2> QED
      BY <2>1, <2>2
  <1>5. ListShape'
    <2>1. header' \in [Session -> HeaderSet]
      <3>1. header' = [s \in Session |-> header'[s]]
        BY <1>1
      <3>2. \A s \in Session : header'[s] \in HeaderSet
        BY <1>4
      <3> QED
        BY <3>1, <3>2
    <2>2. SessionsOf(list)' = SessionsOf(list) /\ RowSet' = RowSet
      BY <1>1 DEF SessionsOf, RowSet
    <2> QED
      BY <1>1, <1>4, <2>1, <2>2 DEF GroupsInv, ListShape, Fresh
  <1>6. EachSaves'
    BY <1>2, <1>4, SavingReleased
  <1>7. Named'
    <2>1. \A q \in Slot :
            calls[q].kind = "rename" /\ calls[q].pc \in {"stored", "answered"} /\ ~ torn' =>
                 /\ calls'[q].kind = "rename" /\ calls'[q].pc \in {"stored", "answered"}
                 /\ calls'[q].session = calls[q].session
      BY <1>1, <1>2
    <2> QED
      BY <1>1, <2>1, NamedKept DEF GroupsInv, StoreShape
  <1>8. Listed'
    <2>1. \A q \in Slot : calls[q].kind = "refresh" /\ ~ torn' => calls'[q].kind = "refresh"
      BY <1>1, <1>2
    <2> QED
      BY <1>1, <2>1, ListedKept DEF GroupsInv, StoreShape
  <1> QED
    BY <1>2, <1>3, <1>5, <1>6, <1>7, <1>8 DEF GroupsInv

(* The list is replaced.                                                   *)
LEMMA RefreshedStep ==
    ASSUME GroupsConstants, GroupsInv, NEW r \in Slot, Refreshed(r)
    PROVE  GroupsInv'
PROOF
  <1> DEFINE gone == SessionsOf(list) \ SessionsOf(calls[r].rows)
  <1>1. /\ calls[r].kind = "refresh" /\ calls[r].pc = "answered" /\ list' = calls[r].rows
        /\ torn' = ~ calls[r].alone /\ UNCHANGED <<at, done, names, news, collapsed>>
        /\ header' = [s \in Session |-> IF s \in gone THEN Fresh ELSE header[s]]
        /\ calls' = [q \in Slot |-> IF q = r THEN Quiet ELSE Forsake(q, gone)]
    BY DEF Refreshed, Answered, Unmounted, storeVars
  <1>2. /\ calls[r] \in CallSet /\ Carries(calls[r]) /\ Range(calls[r].rows) \subseteq RowSet
        /\ calls[r].alone => \A q \in Slot : q # r => calls[q] = Quiet
    BY DEF GroupsInv, CallsShape
  <1>3. /\ Quiet \in CallSet /\ Carries(Quiet) /\ Range(Quiet.rows) = {} /\ Quiet.kind = "none"
        /\ Quiet.alone = FALSE /\ Quiet.mounted = FALSE /\ calls[r] # Quiet /\ calls[r].offset = 0
        /\ ~ calls[r].mounted
    BY <1>1, <1>2, QuietShape DEF Carries
  <1>4. \A s \in Session \ SessionsOf(calls[r].rows) : header'[s] = Fresh
    BY <1>1 DEF GroupsInv, ListShape
  <1> HIDE DEF gone
  <1>5. calls'[r] = Quiet /\ DOMAIN calls' = Slot /\ calls' = [q \in Slot |-> calls'[q]]
    BY <1>1
  <1>6. ASSUME NEW q \in Slot, q # r
        PROVE  /\ Alike(calls[q], calls'[q]) /\ ~ calls'[q].alone
               /\ calls'[q].mounted <=> calls[q].mounted /\ calls[q].session \notin gone
    <2>1. calls'[q] = Forsake(q, gone)
      BY <1>1, <1>6
    <2>2. /\ Alike(calls[q], calls'[q]) /\ calls'[q].alone = calls[q].alone
          /\ calls'[q].mounted <=> calls[q].mounted /\ calls[q].session \notin gone
      BY <2>1, Forsaken DEF GroupsInv
    <2>3. ~ calls[q].alone
      BY <1>3, <1>6, OthersAreNotAlone DEF GroupsInv
    <2> QED
      BY <2>2, <2>3
  <1>7. CallsShape'
    <2>1. RowSet' = RowSet
      BY <1>1 DEF RowSet
    <2> QED
      BY <1>3, <1>5, <1>6, <2>1, CallsKept DEF GroupsInv
  <1>8. StoreShape'
    <2>1. torn' \in BOOLEAN
      BY <1>1
    <2> QED
      BY <1>1, <2>1 DEF GroupsInv, StoreShape
  <1>9. ListShape'
    <2>1. header' \in [Session -> HeaderSet]
      BY <1>1, FreshShape DEF GroupsInv, ListShape
    <2>2. list' \in Seq([task : Task, name : Name]) /\ Range(list') \subseteq RowSet'
      BY <1>1, <1>2 DEF CallSet, RowSet
    <2>3. SessionsOf(list)' = SessionsOf(calls[r].rows)
      BY <1>1 DEF SessionsOf
    <2> QED
      BY <1>1, <1>4, <2>1, <2>2, <2>3 DEF GroupsInv, ListShape, Fresh
  <1>10. EachSaves'
    <2>1. \A q \in Slot :
            /\ calls'[q].mounted <=> calls[q].mounted /\ calls[q].session \notin gone
            /\ calls[q].mounted => /\ calls'[q].session = calls[q].session
                                   /\ calls'[q].pc = calls[q].pc /\ calls'[q].name = calls[q].name
      BY <1>3, <1>5, <1>6 DEF Alike
    <2> QED
      BY <1>1, <2>1, SavingForsaken
  <1>11. AloneKnow'
    BY <1>3, <1>5, <1>6 DEF AloneKnow
  <1>12. calls[r].alone => /\ \A row \in Range(calls[r].rows) : IsNamed(row)
                           /\ news = 0 => Follows(calls[r].rows, 0)
    BY <1>1, <1>3 DEF GroupsInv, AloneKnow, Knows
  <1>13. Named'
    BY <1>1, <1>12 DEF Named, IsNamed
  <1>14. Listed'
    BY <1>1, <1>12 DEF Listed, Follows
  <1> QED
    BY <1>7, <1>8, <1>9, <1>10, <1>11, <1>13, <1>14 DEF GroupsInv


(* The list gets longer.                                                   *)
LEMMA MoreLoadedStep ==
    ASSUME GroupsConstants, GroupsInv, NEW r \in Slot, MoreLoaded(r)
    PROVE  GroupsInv'
PROOF
  <1> DEFINE page == calls[r].rows
  <1>1. /\ calls[r].kind = "more" /\ calls[r].pc = "answered" /\ list' = list \o page
        /\ collapsed' = collapsed \cup (SessionsOf(page) \ calls[r].known)
        /\ torn' = (torn \/ ~ calls[r].alone) /\ UNCHANGED <<at, done, names, news, header>>
        /\ calls' = [calls EXCEPT ![r] = Quiet]
    BY DEF MoreLoaded, Answered, End, storeVars
  <1>2. /\ page \in Seq([task : Task, name : Name]) /\ Range(page) \subseteq RowSet
        /\ list \in Seq([task : Task, name : Name]) /\ Range(list) \subseteq RowSet
        /\ calls[r] # Quiet
    BY <1>1, QuietShape DEF GroupsInv, CallsShape, ListShape, CallSet
  <1>3. Range(list') = Range(list) \cup Range(page) /\ list' \in Seq([task : Task, name : Name])
    BY <1>1, <1>2, ConcatElements
  <1>4. /\ CallsShape' /\ calls'[r] = Quiet /\ AloneKnow'
        /\ \A q \in Slot : q # r => calls'[q] = calls[q]
        /\ calls[r].alone => \A q \in Slot : q # r => calls[q] = Quiet
    BY <1>1, <1>2, CallsEnded
  <1>5. StoreShape'
    BY <1>1 DEF GroupsInv, StoreShape
  <1>6. ListShape'
    <2>1. SessionsOf(page) \subseteq Session
      <3>1. SessionOf \in [Task -> Session] /\ done \subseteq Task
        BY DEF GroupsConstants, GroupsAssumption, GroupsInv, StoreShape
      <3>2. \A row \in Range(page) : row.task \in Task
        BY <1>2, <3>1 DEF RowSet
      <3> QED
        BY <3>1, <3>2 DEF SessionsOf
    <2>2. SessionsOf(list) \subseteq SessionsOf(list)'
      BY <1>3 DEF SessionsOf
    <2>3. RowSet' = RowSet
      BY <1>1 DEF RowSet
    <2> QED
      BY <1>1, <1>2, <1>3, <2>1, <2>2, <2>3 DEF GroupsInv, ListShape, Fresh
  <1>7. EachSaves'
    <2>1. \A s \in Session : ~ Waits(r, s)
      BY <1>1 DEF GroupsInv, CallsShape, Carries, Waits
    <2> QED
      BY <1>1, <1>4, <2>1, SavingReleased
  <1>8. ASSUME calls[r].alone
        PROVE  /\ \A row \in Range(page) : IsNamed(row)
               /\ news = 0 => Follows(page, Len(list))
               /\ \A q \in Slot : calls[q].kind = "none" \/ calls[q].kind = "more"
    <2>1. Knows(calls[r])
      BY <1>8 DEF GroupsInv, AloneKnow
    <2>2. \A q \in Slot : calls[q].kind = "none" \/ calls[q].kind = "more"
      BY <1>1, <1>4, <1>8, QuietShape
    <2> QED
      BY <1>1, <2>1, <2>2 DEF Knows
  <1>9. Named'
    <2>1. SUFFICES ASSUME ~ torn, calls[r].alone, NEW row \in Range(list') PROVE IsNamed(row)'
      BY <1>1 DEF Named
    <2>2. \A s : ~ Renaming(s)
      BY <1>8, <2>1 DEF Renaming
    <2>3. IsNamed(row)
      BY <1>3, <1>8, <2>1, <2>2 DEF GroupsInv, Named
    <2> QED
      BY <1>1, <2>3 DEF IsNamed
  <1>10. Listed'
    <2>1. SUFFICES ASSUME ~ torn, calls[r].alone, news = 0 PROVE Follows(list, 0)'
      BY <1>1 DEF Listed
    <2>2. Follows(list, 0) /\ Follows(page, Len(list))
      BY <1>8, <2>1 DEF GroupsInv, Listed
    <2>3. PICK rows \in {list \o page} : TRUE
      OBVIOUS
    <2>4. Follows(rows, 0)
      <3> HIDE DEF page
      <3>1. Follows(list \o page, 0)
        BY <1>2, <2>2, FollowsOn
      <3> QED
        BY <2>3, <3>1
    <2> QED
      BY <1>1, <2>3, <2>4 DEF Follows
  <1> QED
    BY <1>4, <1>5, <1>6, <1>7, <1>9, <1>10 DEF GroupsInv

(* A rename is shown.                                                      *)
LEMMA RenamedStep ==
    ASSUME GroupsConstants, GroupsInv, NEW r \in Slot, Renamed(r)
    PROVE  GroupsInv'
PROOF
  <1> DEFINE session == calls[r].session
             name == calls[r].name
             Renames(row) == IF SessionOf[row.task] = session THEN [row EXCEPT !.name = name] ELSE row
  <1>1. /\ calls[r].kind = "rename" /\ calls[r].pc = "answered"
        /\ list' = updateLoadedSessionNames(session, name)
        /\ header' = [s \in Session |-> IF Waits(r, s)
                                          THEN [pc |-> "closed", draft |-> header[s].draft,
                                                committed |-> header[s].draft]
                                          ELSE header[s]]
        /\ torn' = (torn \/ ~ calls[r].alone) /\ UNCHANGED <<at, done, names, news, collapsed>>
        /\ calls' = [calls EXCEPT ![r] = Quiet]
    BY DEF Renamed, Answered, End, storeVars
  <1>2. /\ list \in Seq([task : Task, name : Name]) /\ Range(list) \subseteq RowSet
        /\ session \in Session /\ name \in Name /\ calls[r] # Quiet
    BY <1>1, QuietShape DEF GroupsInv, CallsShape, ListShape, Carries
  <1>3. /\ CallsShape' /\ calls'[r] = Quiet /\ AloneKnow'
        /\ \A q \in Slot : q # r => calls'[q] = calls[q]
        /\ calls[r].alone => \A q \in Slot : q # r => calls[q] = Quiet
    BY <1>1, <1>2, CallsEnded
  <1>4. StoreShape'
    BY <1>1 DEF GroupsInv, StoreShape
  <1>5. list' = [i \in DOMAIN list |-> Renames(list[i])]
    BY <1>1 DEF updateLoadedSessionNames
  <1>6. \A row \in RowSet :
          /\ Renames(row) \in RowSet /\ Renames(row).task = row.task
          /\ Renames(row).name = IF SessionOf[row.task] = session THEN name ELSE row.name
    BY <1>2 DEF RowSet
  <1>7. calls[r].alone => name = names[session] /\ \A q \in Slot : q # r => calls[q] = Quiet
    BY <1>1, <1>3 DEF GroupsInv, AloneKnow, Knows
  <1> HIDE DEF session, name, Renames
  <1>8. \A i \in DOMAIN list : list[i] \in RowSet /\ list'[i] = Renames(list[i])
    BY <1>2, <1>5 DEF Range
  <1>9. /\ list' \in Seq([task : Task, name : Name]) /\ Range(list') \subseteq RowSet
        /\ Len(list') = Len(list) /\ DOMAIN list' = DOMAIN list /\ DOMAIN list = 1..Len(list)
    <2>1. DOMAIN list = 1..Len(list) /\ Len(list) \in Nat
      BY <1>2
    <2>2. \A Y, n : \A f \in [1..n -> Y] : n \in Nat => f \in Seq(Y) /\ Len(f) = n
      OBVIOUS
    <2>3. list' \in [1..Len(list) -> RowSet]
      BY <1>5, <1>6, <1>8, <2>1
    <2>4. RowSet \subseteq [task : Task, name : Name]
      BY DEF RowSet, GroupsInv, StoreShape
    <2>5. list' \in [1..Len(list) -> [task : Task, name : Name]]
      BY <2>3, <2>4
    <2>6. Range(list') \subseteq RowSet
      BY <2>3 DEF Range
    <2>7. list' \in Seq([task : Task, name : Name]) /\ Len(list') = Len(list)
      BY <2>1, <2>2, <2>5
    <2> QED
      BY <2>1, <2>3, <2>6, <2>7
  <1>10. SessionsOf(list)' = SessionsOf(list)
    BY <1>6, <1>8, <1>9 DEF SessionsOf, Range
  <1>11. ASSUME NEW s \in Session
         PROVE  /\ header'[s] \in HeaderSet
                /\ s \notin SessionsOf(list) => header'[s] = Fresh
                /\ IF Waits(r, s) THEN header'[s].pc # "saving" ELSE header'[s] = header[s]
    <2>1. CASE Waits(r, s)
      <3>1. s \in SessionsOf(list) /\ header[s] \in HeaderSet
        BY <2>1, WaitsInList
      <3>2. header'[s] = [pc |-> "closed", draft |-> header[s].draft, committed |-> header[s].draft]
        BY <1>1, <2>1
      <3>3. header'[s] \in HeaderSet /\ header'[s].pc = "closed"
        BY <3>1, <3>2 DEF HeaderSet
      <3> QED
        BY <2>1, <3>1, <3>3
    <2>2. CASE ~ Waits(r, s)
      BY <1>1, <2>2 DEF GroupsInv, ListShape
    <2> QED
      BY <2>1, <2>2
  <1>12. ListShape'
    <2>1. header' \in [Session -> HeaderSet]
      <3>1. header' = [s \in Session |-> header'[s]]
        BY <1>1
      <3>2. \A s \in Session : header'[s] \in HeaderSet
        BY <1>11
      <3> QED
        BY <3>1, <3>2
    <2>2. RowSet' = RowSet
      BY <1>1 DEF RowSet
    <2> QED
      BY <1>1, <1>9, <1>10, <1>11, <2>1, <2>2 DEF GroupsInv, ListShape, Fresh
  <1>13. EachSaves'
    BY <1>3, <1>11, SavingReleased
  <1>14. Named'
    <2>1. SUFFICES ASSUME ~ torn, calls[r].alone, NEW row \in Range(list') PROVE IsNamed(row)'
      BY <1>1 DEF Named
    <2>2. PICK i \in DOMAIN list : row = list'[i]
      BY <1>9, <2>1 DEF Range
    <2>3. list[i] \in RowSet /\ row = Renames(list[i]) /\ list[i] \in Range(list)
      BY <1>8, <2>2 DEF Range
    <2>4. row.task = list[i].task
          /\ row.name = IF SessionOf[list[i].task] = session THEN name ELSE list[i].name
      BY <1>6, <2>3
    <2>5. CASE SessionOf[list[i].task] = session
      BY <1>1, <1>7, <2>1, <2>4, <2>5 DEF IsNamed
    <2>6. CASE SessionOf[list[i].task] # session
      <3>1. ~ Renaming(SessionOf[list[i].task])
        BY <1>7, <2>1, <2>6, QuietShape DEF Renaming, session
      <3>2. IsNamed(list[i])
        BY <2>1, <2>3, <3>1 DEF GroupsInv, Named
      <3> QED
        BY <1>1, <2>4, <2>6, <3>2 DEF IsNamed
    <2> QED
      BY <2>5, <2>6
  <1>15. Listed'
    <2>1. \A q \in Slot : calls[q].kind = "refresh" => calls'[q].kind = "refresh"
      BY <1>1, <1>3
    <2>2. Follows(list, 0) => Follows(list, 0)'
      <3>1. \A i \in 1..Len(list) : list'[i].task = list[i].task
        BY <1>6, <1>8, <1>9
      <3> QED
        BY <1>1, <1>9, <3>1 DEF Follows
    <2>3. Listed /\ torn \in BOOLEAN
      BY DEF GroupsInv, StoreShape
    <2> QED
      BY <1>1, <2>1, <2>2, <2>3 DEF Listed
  <1> QED
    BY <1>3, <1>4, <1>12, <1>13, <1>14, <1>15 DEF GroupsInv


-----------------------------------------------------------------------------
(* The invariant holds.                                                    *)

(* A tab that has just loaded its history.                                 *)
LEMMA GroupsInvInitially ==
    ASSUME GroupsConstants, GroupsInit
    PROVE  GroupsInv
PROOF
  <1>1. /\ at \in Histories /\ done \subseteq Task /\ names = FirstNames /\ news = 0 /\ torn = FALSE
        /\ calls = [r \in Slot |-> Quiet] /\ list = Page(0) /\ collapsed = {}
        /\ header = [s \in Session |-> Fresh]
    BY DEF GroupsInit
  <1>2. StoreShape
    BY <1>1 DEF StoreShape, GroupsConstants, GroupsViewAssumption
  <1>3. 0 \in Nat /\ list \in {Page(0)}
    BY <1>1
  <1>4. /\ list \in Seq([task : Task, name : Name]) /\ Range(list) \subseteq RowSet
        /\ (\A row \in Range(list) : IsNamed(row)) /\ Follows(list, 0)
    BY <1>2, <1>3, PageFollows
  <1>5. ListShape
    BY <1>1, <1>4, FreshShape DEF ListShape
  <1>6. /\ \A r \in Slot : calls[r] = Quiet
        /\ calls \in [Slot -> CallSet] /\ Carries(Quiet) /\ Range(Quiet.rows) = {}
        /\ Quiet.alone = FALSE /\ Quiet.mounted = FALSE
    BY <1>1, QuietShape
  <1>7. CallsShape
    BY <1>6 DEF CallsShape, Carries
  <1>8. EachSaves
    BY <1>1, <1>6, FreshShape DEF EachSaves, Saves, Waits
  <1>9. AloneKnow
    BY <1>6 DEF AloneKnow
  <1>10. Named /\ Listed
    BY <1>4 DEF Named, Listed
  <1> QED
    BY <1>2, <1>5, <1>7, <1>8, <1>9, <1>10 DEF GroupsInv

(* Every step keeps it.                                                    *)
LEMMA GroupsInvariance ==
    ASSUME GroupsConstants, GroupsInv, [GroupsNext]_groupVars
    PROVE  GroupsInv'
PROOF
  <1>1. CASE UNCHANGED groupVars
    <2>1. UNCHANGED <<storeVars, news, faultVars, calls, list, header>> /\ UNCHANGED collapsed
      BY <1>1 DEF groupVars
    <2>2. collapsed' \subseteq Session
      BY <2>1 DEF GroupsInv, ListShape
    <2> QED
      BY <2>1, <2>2, FoldStep
  <1>2. CASE WorldStep
    BY <1>2, WorldSteps
  <1>3. CASE expandAllGroups \/ collapseAllGroups
    BY <1>3, AllFoldSteps
  <1>4. ASSUME NEW r \in Slot, AnswerStep(r) PROVE GroupsInv'
    <2>1. CASE ServeRows(r)
      BY <2>1, ServeStep
    <2>2. CASE StoreName(r) \/ ReadName(r)
      BY <2>2, NameSteps
    <2>3. CASE Fails(r)
      BY <2>3, FailStep
    <2>4. CASE Refreshed(r)
      BY <2>4, RefreshedStep
    <2>5. CASE MoreLoaded(r)
      BY <2>5, MoreLoadedStep
    <2>6. CASE Renamed(r)
      BY <2>6, RenamedStep
    <2> QED
      BY <1>4, <2>1, <2>2, <2>3, <2>4, <2>5, <2>6 DEF AnswerStep
  <1>5. ASSUME NEW r \in Slot, Hear(r) \/ Refresh(r) \/ loadMoreHistory(r) PROVE GroupsInv'
    BY <1>5, FetchSteps
  <1>6. ASSUME NEW s \in Session, UserStep(s) PROVE GroupsInv'
    BY <1>6, UserSteps
  <1> QED
    BY <1>1, <1>2, <1>3, <1>4, <1>5, <1>6 DEF GroupsNext

(* The constants are as TaskGroups and SessionGroups assume.               *)
LEMMA GroupsConstantsHold == GroupsConstants
  BY GroupsAssumption, GroupsViewAssumption DEF GroupsConstants

(* In every state of every behaviour.                                      *)
THEOREM GroupsInvHolds == GroupsSpec => []GroupsInv
PROOF
  <1>1. GroupsInit => GroupsInv
    BY GroupsInvInitially, GroupsConstantsHold
  <1>2. GroupsInv /\ [GroupsNext]_groupVars => GroupsInv'
    BY GroupsInvariance, GroupsConstantsHold
  <1> QED
    BY <1>1, <1>2, PTL DEF GroupsSpec

-----------------------------------------------------------------------------
(* What follows from it.                                                   *)

(* The state of the browser's history keeps its shape: every loaded row is *)
(* of a completed task, a header is edited only while its group is in the  *)
(* list, and no answer is longer than a page.                              *)
THEOREM GroupsTypeCorrect == GroupsSpec => []GroupsTypeOK
PROOF
  <1>1. GroupsInv => GroupsTypeOK
    BY DEF GroupsInv, StoreShape, ListShape, CallsShape, Carries, RowSet, HeaderSet, GroupsTypeOK
  <1> QED
    BY <1>1, GroupsInvHolds, PTL

(* A header is saving exactly while one PATCH of it is on its way, with    *)
(* what the user left in the input, whatever scrolls out of sight, fails   *)
(* or is fetched meanwhile.                                                *)
THEOREM SavingCorrect == GroupsSpec => []SavingIsOnePatch
PROOF
  <1>1. ASSUME GroupsInv PROVE SavingIsOnePatch
    <2>1. SUFFICES ASSUME NEW s \in Session
                   PROVE  LET patches == {r \in Slot : Waits(r, s)} IN
                          IF header[s].pc = "saving"
                            THEN /\ Cardinality(patches) = 1
                                 /\ header[s].draft \notin {Blank, header[s].committed}
                                 /\ \A r \in patches : calls[r].pc = "asked" =>
                                                          calls[r].name = header[s].draft
                            ELSE patches = {}
      BY DEF SavingIsOnePatch
    <2>2. Saves(s)
      BY <1>1 DEF GroupsInv, EachSaves
    <2>3. \A r : Cardinality({r}) = 1
      BY FS_Singleton
    <2> QED
      BY <2>2, <2>3 DEF Saves
  <1> QED
    BY <1>1, GroupsInvHolds, PTL

(* Once nothing is on its way, every loaded row has the name its session   *)
(* has in the daemon, unless requests overlapped or the tab missed         *)
(* something.                                                              *)
THEOREM QuietNamesCorrect == GroupsSpec => []QuietNamesAreCurrent
PROOF
  <1>1. ASSUME GroupsInv PROVE QuietNamesAreCurrent
    <2>1. SUFFICES ASSUME Idle, ~ torn, NEW row \in Range(list)
                   PROVE  row.name = names[SessionOf[row.task]]
      BY DEF QuietNamesAreCurrent, Settled
    <2>2. ~ Renaming(SessionOf[row.task])
      BY <2>1, GroupsConstantsHold, QuietShape DEF Idle, Renaming
    <2> QED
      BY <1>1, <2>1, <2>2 DEF GroupsInv, Named, IsNamed
  <1> QED
    BY <1>1, GroupsInvHolds, PTL


-----------------------------------------------------------------------------
(* Groups.                                                                 *)

(* The times of the daemon are distinct hundredths of a second.            *)
LEMMA TimesAreInstants ==
    ASSUME GroupsConstants, StoreShape
    PROVE  at \in [Task -> 0..99] /\ IsInjective(at)
  BY DEF GroupsConstants, GroupsAssumption, GroupsViewAssumption, StoreShape

(* The rows of a session, of any list.                                     *)
LEMMA RowsOfSession ==
    ASSUME NEW rows \in Seq([task : Task, name : Name]), NEW s
    PROVE  /\ RowsOf(rows, s) \in Seq([task : Task, name : Name])
           /\ Range(RowsOf(rows, s)) = {row \in Range(rows) : SessionOf[row.task] = s}
           /\ s \in SessionsOf(rows) => Range(RowsOf(rows, s)) # {}
PROOF
  <1> DEFINE chosen == {row \in Range(rows) : SessionOf[row.task] = s}
  <1>1. RowsOf(rows, s) = Within(rows, chosen)
    BY DEF RowsOf
  <1>2. chosen \subseteq Range(rows) /\ (s \in SessionsOf(rows) => chosen # {})
    BY DEF SessionsOf
  <1> HIDE DEF chosen
  <1>3. Within(rows, chosen) \in Seq([task : Task, name : Name])
        /\ Range(Within(rows, chosen)) = Range(rows) \cap chosen
    BY WithinKeeps
  <1>4. Range(RowsOf(rows, s)) = chosen
    BY <1>1, <1>2, <1>3
  <1> QED
    BY <1>1, <1>2, <1>3, <1>4 DEF chosen

(* The latest time of some rows is that of one of them, and none is later. *)
LEMMA LatestIs ==
    ASSUME NEW rows \in Seq([task : Task, name : Name]), Range(rows) # {},
           NEW times \in [Task -> 0..99]
    PROVE  /\ \E row \in Range(rows) : LatestOf(rows, times) = times[row.task]
           /\ \A row \in Range(rows) : ~ Before(LatestOf(rows, times), times[row.task])
PROOF
  <1> DEFINE code(row) == Code(times[row.task])
             T == {120 - code(row) : row \in Range(rows)}
             Latest(time) == \A row \in Range(rows) : ~ Before(time, times[row.task])
  <1>1. \A row \in Range(rows) : row.task \in Task /\ times[row.task] \in 0..99
    <2>1. \A X : rows \in Seq(X) => \A row \in Range(rows) : row \in X
      BY DEF Range
    <2>2. \A row \in Range(rows) : row \in [task : Task, name : Name]
      BY <2>1
    <2> QED
      BY <2>2
  <1>2. \A row \in Range(rows) : code(row) \in Nat /\ code(row) <= 110
    <2>1. \A time \in 0..99 : Code(time) \in Nat
      BY TextOrder
    <2>2. \A time \in 0..99 : Code(time) <= 110
      <3>1. \A x, y \in 0..9 : 11 * x + 10 <= 110 /\ 11 * x + y <= 110
        OBVIOUS
      <3> QED
        BY <3>1, Digits DEF Code
    <2> QED
      BY <1>1, <2>1, <2>2
  <1> HIDE DEF code
  <1>3. T \subseteq Nat /\ T # {}
    BY <1>2
  <1>4. PICK n \in T : \A m \in T : n <= m
    BY <1>3, LeastNumber
  <1>5. PICK last \in Range(rows) : n = 120 - code(last)
    BY <1>4
  <1>6. ASSUME NEW row \in Range(rows) PROVE code(row) <= code(last)
    <2>1. 120 - code(row) \in T
      OBVIOUS
    <2>2. n <= 120 - code(row)
      BY <1>4, <2>1
    <2> QED
      BY <1>2, <1>5, <2>2
  <1>7. ASSUME NEW row \in Range(rows) PROVE ~ Before(times[last.task], times[row.task])
    <2>1. times[last.task] \in 0..99 /\ times[row.task] \in 0..99
      BY <1>1, <1>5
    <2>2. Before(times[last.task], times[row.task]) <=> code(last) < code(row)
      BY <2>1, TextOrder DEF code
    <2> QED
      BY <1>2, <1>5, <1>6, <2>2
  <1>8. times[last.task] \in {times[row.task] : row \in Range(rows)} /\ Latest(times[last.task])
    BY <1>5, <1>7
  <1>9. LatestOf(rows, times) = CHOOSE time \in {times[row.task] : row \in Range(rows)} : Latest(time)
    BY DEF LatestOf
  <1> HIDE DEF Latest
  <1>10. /\ LatestOf(rows, times) \in {times[row.task] : row \in Range(rows)}
         /\ Latest(LatestOf(rows, times))
    BY <1>8, <1>9
  <1> QED
    BY <1>10 DEF Latest

(* Rows are ordered by the codes of their times, either way.               *)
LEMMA TimeOrders ==
    ASSUME NEW rows \in Seq([task : Task, name : Name]), NEW times \in [Task -> 0..99],
           NEW some, some \subseteq Range(rows)
    PROVE  WeaklyOrders(ByTime(rows, times), some) /\ WeaklyOrders(ByTimeDown(rows, times), some)
PROOF
  <1> DEFINE code(row) == Code(times[row.task])
  <1>1. \A row \in Range(rows) : row.task \in Task /\ times[row.task] \in 0..99
    <2>1. \A X : rows \in Seq(X) => \A row \in Range(rows) : row \in X
      BY DEF Range
    <2>2. \A row \in Range(rows) : row \in [task : Task, name : Name]
      BY <2>1
    <2> QED
      BY <2>2
  <1>2. \A x \in some : code(x) \in Nat
    BY <1>1, TextOrder
  <1>3. \A x, y \in some : Before(times[x.task], times[y.task]) <=> code(x) < code(y)
    BY <1>1, TextOrder
  <1>4. \A x, y \in some : /\ <<x, y>> \in ByTime(rows, times) <=> code(x) < code(y)
                           /\ <<x, y>> \in ByTimeDown(rows, times) <=> code(y) < code(x)
    BY <1>3 DEF ByTime, ByTimeDown
  <1> HIDE DEF code
  <1> QED
    BY <1>2, <1>4 DEF WeaklyOrders

(* The sessions of a list are finitely many.                               *)
LEMMA SessionsAreFinite ==
    ASSUME NEW rows \in Seq([task : Task, name : Name])
    PROVE  IsFiniteSet(SessionsOf(rows))
PROOF
  <1> DEFINE of == [i \in 1..Len(rows) |-> SessionOf[rows[i].task]]
  <1>1. Len(rows) \in Nat /\ 1 \in Int /\ Len(rows) \in Int /\ DOMAIN rows = 1..Len(rows)
    OBVIOUS
  <1>2. IsFiniteSet(1..Len(rows))
    BY <1>1, FS_Interval
  <1>3. SessionsOf(rows) = {of[i] : i \in 1..Len(rows)}
    BY <1>1 DEF SessionsOf, Range
  <1>4. of \in Surjection(1..Len(rows), SessionsOf(rows))
    BY <1>3 DEF Surjection
  <1> QED
    BY <1>2, <1>4, FS_Surjection

(* There is one group for each session of a list, the one with the latest  *)
(* answer first, and it has the session's rows.                            *)
LEMMA GroupsAre ==
    ASSUME GroupsConstants, NEW rows \in Seq([task : Task, name : Name]),
           NEW times \in [Task -> 0..99], IsInjective(times),
           NEW groups \in {buildTaskGroups(rows, times)}
    PROVE  /\ Len(groups) = Cardinality(SessionsOf(rows)) /\ Len(groups) \in Nat
           /\ DOMAIN groups = 1..Len(groups)
           /\ {groups[i].session : i \in DOMAIN groups} = SessionsOf(rows)
           /\ \A i \in DOMAIN groups :
                groups[i].tasks = Stably(RowsOf(rows, groups[i].session), ByTimeDown(rows, times))
           /\ \A i, j \in DOMAIN groups : i < j =>
                Before(LatestOf(RowsOf(rows, groups[j].session), times),
                       LatestOf(RowsOf(rows, groups[i].session), times))
PROOF
  <1> DEFINE all == SessionsOf(rows)
             Latest(s) == LatestOf(RowsOf(rows, s), times)
             pairs == {p \in all \X all : Before(Latest(p[2]), Latest(p[1]))}
             ordered == Sorted(all, pairs)
  <1>1. groups = [i \in DOMAIN ordered |->
                    [session |-> ordered[i], displayName |-> RowsOf(rows, ordered[i])[1].name,
                     tasks |-> Stably(RowsOf(rows, ordered[i]), ByTimeDown(rows, times))]]
    BY DEF buildTaskGroups
  <1>2. \A s \in all : \E row \in Range(rows) : SessionOf[row.task] = s /\ Latest(s) = times[row.task]
    <2>1. SUFFICES ASSUME NEW s \in all
                   PROVE  \E row \in Range(rows) : SessionOf[row.task] = s /\ Latest(s) = times[row.task]
      OBVIOUS
    <2>2. /\ RowsOf(rows, s) \in Seq([task : Task, name : Name]) /\ Range(RowsOf(rows, s)) # {}
          /\ Range(RowsOf(rows, s)) = {row \in Range(rows) : SessionOf[row.task] = s}
      BY RowsOfSession
    <2>3. \E row \in Range(RowsOf(rows, s)) : Latest(s) = times[row.task]
      BY <2>2, LatestIs
    <2> QED
      BY <2>2, <2>3
  <1>3. \A row \in Range(rows) : row.task \in Task
    <2>1. \A X : rows \in Seq(X) => \A row \in Range(rows) : row \in X
      BY DEF Range
    <2>2. \A row \in Range(rows) : row \in [task : Task, name : Name]
      BY <2>1
    <2> QED
      BY <2>2
  <1>4. \A s \in all : Latest(s) \in 0..99
    BY <1>2, <1>3
  <1>5. \A s, u \in all : s # u => Latest(s) # Latest(u)
    BY <1>2, <1>3 DEF IsInjective
  <1> HIDE DEF Latest
  <1> DEFINE code(s) == Code(Latest(s))
  <1>6. \A s, u \in all : /\ Before(Latest(s), Latest(u)) <=> code(s) < code(u)
                          /\ code(s) \in Nat /\ (s # u => code(s) # code(u))
    BY <1>4, <1>5, TextOrder
  <1>7. \A s, u \in all : <<s, u>> \in pairs <=> code(u) < code(s)
    BY <1>6
  <1>8. \A s, u : <<s, u>> \in pairs => Before(Latest(u), Latest(s))
    OBVIOUS
  <1> HIDE DEF code, pairs
  <1>9. Orders(pairs, all)
    BY <1>6, <1>7 DEF Orders
  <1>10. IsFiniteSet(all)
    BY SessionsAreFinite
  <1> HIDE DEF all
  <1>11. Arranges(ordered, all, pairs)
    BY <1>9, <1>10, SortedSorts
  <1>12. /\ Cardinality(all) \in Nat /\ Range(ordered) = all
         /\ DOMAIN ordered = 1..Cardinality(all)
    BY <1>9, <1>10, <1>11, SortedElements, FS_CardinalityType
  <1>13. \A i, j \in DOMAIN ordered : i < j => Before(Latest(ordered[j]), Latest(ordered[i]))
    BY <1>8, <1>11, <1>12 DEF Arranges
  <1> HIDE DEF ordered
  <1>14. /\ DOMAIN groups = 1..Cardinality(all)
         /\ \A i \in DOMAIN groups :
              /\ groups[i].session = ordered[i]
              /\ groups[i].tasks = Stably(RowsOf(rows, ordered[i]), ByTimeDown(rows, times))
    BY <1>1, <1>12
  <1>15. Len(groups) = Cardinality(all)
    BY <1>1, <1>12
  <1>16. {groups[i].session : i \in DOMAIN groups} = all
    BY <1>12, <1>14 DEF Range
  <1>17. \A i, j \in DOMAIN groups : i < j => Before(Latest(groups[j].session), Latest(groups[i].session))
    BY <1>12, <1>13, <1>14
  <1> QED
    BY <1>12, <1>14, <1>15, <1>16, <1>17 DEF all, Latest


(* The latest time of a group's rows is that of its session's rows.        *)
LEMMA LatestOfGroup ==
    ASSUME NEW rows \in Seq([task : Task, name : Name]), NEW times \in [Task -> 0..99], NEW s,
           NEW tasks \in {Stably(RowsOf(rows, s), ByTimeDown(rows, times))}
    PROVE  LatestOf(tasks, times) = LatestOf(RowsOf(rows, s), times)
PROOF
  <1> DEFINE some == RowsOf(rows, s)
             newer == ByTimeDown(rows, times)
  <1>1. some \in Seq([task : Task, name : Name]) /\ Range(some) \subseteq Range(rows)
    BY RowsOfSession
  <1>2. WeaklyOrders(newer, Range(some))
    BY <1>1, TimeOrders
  <1> HIDE DEF some, newer
  <1>3. Range(Stably(some, newer)) = Range(some)
    BY <1>1, <1>2, StablyKeeps
  <1>4. Range(tasks) = Range(some)
    BY <1>3 DEF some, newer
  <1> QED
    BY <1>4 DEF LatestOf, some

(* All but the last of a text.                                             *)
LEMMA FrontElements ==
    ASSUME NEW t \in Seq(Int), NEW m \in Nat, Len(t) = m + 1
    PROVE  /\ Front(t) \in Seq(Int) /\ Len(Front(t)) = m
           /\ \A i \in 1..m : Front(t)[i] = t[i]
PROOF
  <1>1. Front(t) = SubSeq(t, 1, m)
    BY DEF Front
  <1>2. SubSeq(t, 1, m) \in Seq(Int) /\ Len(SubSeq(t, 1, m)) = m
    BY PartElements
  <1>3. \A i \in 1..m : SubSeq(t, 1, m)[i] = t[i]
    OBVIOUS
  <1> QED
    BY <1>1, <1>2, <1>3

(* The smaller of two numbers has the greater code only in one decade.     *)
LEMMA SameDecade ==
    \A p, x, u, y \in 0..9 :
        /\ (10 * p) + x < (10 * u) + y
        /\ (11 * u) + (IF y = 0 THEN 10 ELSE y) < (11 * p) + (IF x = 0 THEN 10 ELSE x)
        => x = 0 /\ u = p /\ y # 0
PROOF
  <1>1. \A p, x, u, y \in 0..9 : (10 * p) + x < (10 * u) + y => p <= u
    OBVIOUS
  <1>2. \A p, u \in 0..9 : \A x, y \in 1..10 : (11 * u) + y < (11 * p) + x => u <= p /\ (u = p => y < x)
    OBVIOUS
  <1>3. \A x \in 0..9 : (IF x = 0 THEN 10 ELSE x) \in 1..10
    OBVIOUS
  <1>4. SUFFICES ASSUME NEW p \in 0..9, NEW x \in 0..9, NEW u \in 0..9, NEW y \in 0..9,
                        (10 * p) + x < (10 * u) + y,
                        (11 * u) + (IF y = 0 THEN 10 ELSE y) < (11 * p) + (IF x = 0 THEN 10 ELSE x)
                 PROVE  x = 0 /\ u = p /\ y # 0
    BY Zenon
  <1>5. u = p
    BY <1>1, <1>2, <1>3, <1>4
  <1>6. x < y
    BY <1>4, <1>5
  <1>7. (IF y = 0 THEN 10 ELSE y) < (IF x = 0 THEN 10 ELSE x)
    BY <1>2, <1>3, <1>4, <1>5
  <1> QED
    BY <1>5, <1>6, <1>7

(* A time whose text comes after that of a later time is a beginning of    *)
(* the later time's digits.                                                *)
LEMMA OnlyByZeros ==
    ASSUME NEW a \in 0..99, NEW b \in 0..99, a < b, Before(b, a)
    PROVE  IsPrefix(Front(formatTime(a)), Front(formatTime(b)))
PROOF
  <1> DEFINE q(t) == t \div 10
             r(t) == t % 10
  <1>1. /\ q(a) \in 0..9 /\ r(a) \in 0..9 /\ a = 10 * q(a) + r(a)
        /\ q(b) \in 0..9 /\ r(b) \in 0..9 /\ b = 10 * q(b) + r(b)
    BY Digits
  <1>2. Code(b) < Code(a)
    BY TextOrder
  <1>3. /\ Code(b) = IF b = 0 THEN 110 ELSE 11 * q(b) + (IF r(b) = 0 THEN 10 ELSE r(b))
        /\ Code(a) = IF a = 0 THEN 110 ELSE 11 * q(a) + (IF r(a) = 0 THEN 10 ELSE r(a))
    BY DEF Code
  <1>4. \A t \in {a, b} : /\ t = 0 => formatTime(t) = <<10>>
                          /\ t # 0 /\ r(t) = 0 => formatTime(t) = <<-1, q(t), 10>>
                          /\ t # 0 /\ r(t) # 0 => formatTime(t) = <<-1, q(t), r(t), 10>>
    BY DEF formatTime, Point, Zulu
  <1> HIDE DEF q, r
  <1>5. /\ q(a) \in Int /\ r(a) \in Int /\ q(b) \in Int /\ r(b) \in Int /\ b # 0
    BY <1>1
  <1>6. \A x, y \in Int :
          /\ <<10>> \in Seq(Int) /\ Len(<<10>>) = 0 + 1
          /\ <<-1, x, 10>> \in Seq(Int) /\ Len(<<-1, x, 10>>) = 2 + 1
          /\ <<-1, x, y, 10>> \in Seq(Int) /\ Len(<<-1, x, y, 10>>) = 3 + 1
    OBVIOUS
  <1>7. PICK s \in Seq(Int), t \in Seq(Int) : s = formatTime(a) /\ t = formatTime(b)
    BY <1>4, <1>5, <1>6
  <1>8. PICK m \in {2, 3} : Len(t) = m + 1 /\ (r(b) # 0 => m = 3)
    BY <1>4, <1>5, <1>6, <1>7
  <1>9. PICK v : v = Front(t)
    OBVIOUS
  <1>10. v \in Seq(Int) /\ Len(v) = m /\ \A i \in 1..m : v[i] = t[i]
    <2>1. m \in Nat
      BY <1>8
    <2> QED
      BY <1>8, <1>9, <2>1, FrontElements
  <1>11. PICK u : u = Front(s)
    OBVIOUS
  <1>12. CASE a = 0
    <2>1. s = <<10>> /\ Len(s) = 0 + 1
      BY <1>4, <1>6, <1>7, <1>12
    <2>2. u \in Seq(Int) /\ Len(u) = 0
      BY <1>11, <2>1, FrontElements
    <2>3. Len(u) <= Len(v) /\ \A i \in 1..Len(u) : u[i] = v[i]
      BY <1>10, <2>2
    <2>4. IsPrefix(u, v)
      BY <1>10, <2>2, <2>3, PrefixElements
    <2> QED
      BY <1>7, <1>9, <1>11, <2>4
  <1>13. CASE a # 0
    <2>1. r(a) = 0 /\ q(b) = q(a) /\ r(b) # 0
      <3>1. /\ Code(b) = (11 * q(b)) + (IF r(b) = 0 THEN 10 ELSE r(b))
            /\ Code(a) = (11 * q(a)) + (IF r(a) = 0 THEN 10 ELSE r(a))
        BY <1>3, <1>5, <1>13
      <3>2. (10 * q(a)) + r(a) < (10 * q(b)) + r(b)
        BY <1>1
      <3>3. q(a) \in 0..9 /\ r(a) \in 0..9 /\ q(b) \in 0..9 /\ r(b) \in 0..9
        BY <1>1
      <3>4. (11 * q(b)) + (IF r(b) = 0 THEN 10 ELSE r(b)) < (11 * q(a)) + (IF r(a) = 0 THEN 10 ELSE r(a))
        BY <1>2, <3>1
      <3>5. PICK p \in 0..9, x \in 0..9, z \in 0..9, y \in 0..9 :
              p = q(a) /\ x = r(a) /\ z = q(b) /\ y = r(b)
        BY <3>3
      <3>6. (10 * p) + x < (10 * z) + y
        BY <3>2, <3>5
      <3>7. (11 * z) + (IF y = 0 THEN 10 ELSE y) < (11 * p) + (IF x = 0 THEN 10 ELSE x)
        BY <3>4, <3>5
      <3>8. x = 0 /\ z = p /\ y # 0
        BY <3>6, <3>7, SameDecade, Zenon
      <3> QED
        BY <3>5, <3>8
    <2>2. s = <<-1, q(a), 10>> /\ t = <<-1, q(a), r(b), 10>>
      BY <1>4, <1>5, <1>7, <1>13, <2>1
    <2>3. Len(s) = 2 + 1 /\ s[1] = t[1] /\ s[2] = t[2]
      BY <1>5, <2>2
    <2>4. u \in Seq(Int) /\ Len(u) = 2 /\ \A i \in 1..2 : u[i] = s[i]
      BY <1>11, <2>3, FrontElements
    <2>5. Len(u) <= Len(v) /\ \A i \in 1..Len(u) : u[i] = v[i]
      BY <1>8, <1>10, <2>1, <2>3, <2>4
    <2>6. IsPrefix(u, v)
      BY <1>10, <2>4, <2>5, PrefixElements
    <2> QED
      BY <1>7, <1>9, <1>11, <2>6
  <1> QED
    BY <1>12, <1>13

(* A group stands before one with a later answer only if it ended on a     *)
(* round tenth or second that the other time continues.                    *)
THEOREM OutOfOrderCorrect == GroupsSpec => []OutOfOrderOnlyByZeros
PROOF
  <1>1. ASSUME GroupsInv PROVE OutOfOrderOnlyByZeros
    <2>1. PICK groups \in {buildTaskGroups(list, at)} : TRUE
      OBVIOUS
    <2>2. /\ list \in Seq([task : Task, name : Name]) /\ at \in [Task -> 0..99] /\ IsInjective(at)
      BY <1>1, GroupsConstantsHold, TimesAreInstants DEF GroupsInv, ListShape
    <2>3. /\ {groups[i].session : i \in DOMAIN groups} = SessionsOf(list)
          /\ \A i \in DOMAIN groups :
               groups[i].tasks = Stably(RowsOf(list, groups[i].session), ByTimeDown(list, at))
          /\ \A i, j \in DOMAIN groups : i < j =>
               Before(LatestOf(RowsOf(list, groups[j].session), at),
                      LatestOf(RowsOf(list, groups[i].session), at))
      BY <2>2, GroupsConstantsHold, GroupsAre
    <2> DEFINE Latest(i) == LatestOf(groups[i].tasks, at)
    <2>4. ASSUME NEW i \in DOMAIN groups
          PROVE  /\ Latest(i) = LatestOf(RowsOf(list, groups[i].session), at) /\ Latest(i) \in 0..99
      <3>1. groups[i].session \in SessionsOf(list)
        BY <2>3
      <3>2. Latest(i) = LatestOf(RowsOf(list, groups[i].session), at)
        BY <2>2, <2>3, LatestOfGroup
      <3>3. PICK some \in {RowsOf(list, groups[i].session)} : TRUE
        OBVIOUS
      <3>4. some \in Seq([task : Task, name : Name]) /\ Range(some) # {}
        BY <2>2, <3>1, <3>3, RowsOfSession
      <3>5. PICK row \in Range(some) : LatestOf(some, at) = at[row.task]
        BY <2>2, <3>4, LatestIs
      <3>6. row.task \in Task
        <4>1. \A X : some \in Seq(X) => \A x \in Range(some) : x \in X
          BY DEF Range
        <4>2. row \in [task : Task, name : Name]
          BY <3>4, <3>5, <4>1
        <4> QED
          BY <4>2
      <3>7. at[row.task] \in 0..99
        BY <2>2, <3>6
      <3> QED
        BY <3>2, <3>3, <3>5, <3>7
    <2>5. ASSUME NEW i \in DOMAIN groups, NEW j \in DOMAIN groups, i < j, Latest(i) < Latest(j)
          PROVE  IsPrefix(Front(formatTime(Latest(i))), Front(formatTime(Latest(j))))
      <3>1. Before(Latest(j), Latest(i)) /\ Latest(i) \in 0..99 /\ Latest(j) \in 0..99
        BY <2>3, <2>4, <2>5
      <3> HIDE DEF Latest
      <3> QED
        BY <2>5, <3>1, OnlyByZeros
    <2>6. groups = buildTaskGroups(list, at)
      BY <2>1
    <2> QED
      BY <2>5, <2>6 DEF OutOfOrderOnlyByZeros
  <1> QED
    BY <1>1, GroupsInvHolds, PTL

(* Once nothing is on its way, the groups part the list by session, in the *)
(* order in which the daemon's list meets them, with the rows of each in   *)
(* its order, and a copy of the list is the list backwards.                *)
THEOREM GroupsFollowCorrect == GroupsSpec => []GroupsFollowTheList
PROOF
  <1>1. ASSUME GroupsInv PROVE GroupsFollowTheList
    <2>1. SUFFICES ASSUME Idle, ~ torn, news = 0
                   PROVE  LET groups == buildTaskGroups(list, at)
                              First(s) == CHOOSE i \in DOMAIN list :
                                              /\ SessionOf[list[i].task] = s
                                              /\ \A j \in 1..(i - 1) : SessionOf[list[j].task] # s
                          IN  /\ {groups[i].session : i \in DOMAIN groups} = SessionsOf(list)
                              /\ Len(groups) = Cardinality(SessionsOf(list))
                              /\ \A i, j \in DOMAIN groups :
                                   i < j => First(groups[i].session) < First(groups[j].session)
                              /\ \A i \in DOMAIN groups :
                                   groups[i].tasks = RowsOf(list, groups[i].session)
                              /\ formatTasksAsXML(list, at) = Reverse(list)
      BY DEF GroupsFollowTheList, Settled
    <2>2. PICK groups \in {buildTaskGroups(list, at)} : TRUE
      OBVIOUS
    <2>3. /\ list \in Seq([task : Task, name : Name]) /\ at \in [Task -> 0..99] /\ IsInjective(at)
          /\ StoreShape
      BY <1>1, GroupsConstantsHold, TimesAreInstants DEF GroupsInv, ListShape
    <2>4. /\ Len(groups) = Cardinality(SessionsOf(list))
          /\ {groups[i].session : i \in DOMAIN groups} = SessionsOf(list)
          /\ \A i \in DOMAIN groups :
               groups[i].tasks = Stably(RowsOf(list, groups[i].session), ByTimeDown(list, at))
          /\ \A i, j \in DOMAIN groups : i < j =>
               Before(LatestOf(RowsOf(list, groups[j].session), at),
                      LatestOf(RowsOf(list, groups[i].session), at))
      BY <2>3, GroupsConstantsHold, GroupsAre
    <2>5. /\ DOMAIN list = 1..Len(list) /\ Len(list) \in Nat
          /\ \A i \in DOMAIN list : list[i] \in Range(list) /\ list[i].task \in Task
      <3>1. \A X : list \in Seq(X) => \A i \in DOMAIN list : list[i] \in X
        OBVIOUS
      <3>2. \A i \in DOMAIN list : list[i] \in [task : Task, name : Name]
        BY <2>3, <3>1
      <3> QED
        BY <2>3, <3>2 DEF Range
    <2> DEFINE time(i) == at[list[i].task]
    <2>6. \A i, j \in DOMAIN list : i < j => Before(time(j), time(i))
      <3> DEFINE all == NewestFirst(done, at)
      <3>1. Follows(list, 0)
        <4>1. \A r \in Slot : calls[r].kind # "refresh"
          BY <2>1, GroupsConstantsHold, QuietShape DEF Idle
        <4> QED
          BY <1>1, <2>1, <4>1 DEF GroupsInv, Listed
      <3>2. \A i \in DOMAIN list : 0 + i = i /\ i \in DOMAIN all /\ list[i].task = all[i]
        BY <2>5, <3>1 DEF Follows
      <3>3. \A i, j \in DOMAIN all : i < j => Before(at[all[j]], at[all[i]])
        BY <2>3, GroupsConstantsHold, NewestFirstLists
      <3> HIDE DEF all
      <3> QED
        BY <3>2, <3>3
    <2>7. \A i \in DOMAIN list : time(i) \in 0..99
      BY <2>3, <2>5
    <2>8. \A i, j \in DOMAIN list : Before(time(j), time(i)) => i # j /\ ~ Before(time(i), time(j))
      <3>1. SUFFICES ASSUME NEW i \in DOMAIN list, NEW j \in DOMAIN list, Before(time(j), time(i))
                     PROVE  i # j /\ ~ Before(time(i), time(j))
        OBVIOUS
      <3>2. time(i) \in 0..99 /\ time(j) \in 0..99
        BY <2>7
      <3> HIDE DEF time
      <3>3. /\ Before(time(j), time(i)) <=> Code(time(j)) < Code(time(i))
            /\ Before(time(i), time(j)) <=> Code(time(i)) < Code(time(j))
            /\ Code(time(i)) \in Nat /\ Code(time(j)) \in Nat
        BY <3>2, TextOrder
      <3> QED
        BY <3>1, <3>3
    <2>9. /\ \A i, j \in DOMAIN list : i < j => <<list[i], list[j]>> \in ByTimeDown(list, at)
          /\ \A i, j \in DOMAIN list : i < j => <<list[j], list[i]>> \in ByTime(list, at)
      BY <2>5, <2>6 DEF ByTimeDown, ByTime
    <2>10. formatTasksAsXML(list, at) = Reverse(list)
      <3>1. WeaklyOrders(ByTime(list, at), Range(list))
        BY <2>3, TimeOrders
      <3> QED
        BY <2>3, <2>9, <3>1, StablyOrdered DEF formatTasksAsXML
    <2>11. ASSUME NEW i \in DOMAIN groups PROVE groups[i].tasks = RowsOf(list, groups[i].session)
      <3>1. PICK s \in SessionsOf(list) : s = groups[i].session
        BY <2>4
      <3>2. PICK newer \in {ByTimeDown(list, at)} : TRUE
        OBVIOUS
      <3> DEFINE chosen == {row \in Range(list) : SessionOf[row.task] = s}
                 some == Within(list, chosen)
      <3>3. RowsOf(list, s) = some
        BY DEF RowsOf
      <3>4. some \in Seq([task : Task, name : Name]) /\ Range(some) \subseteq Range(list)
        BY <2>3, <3>3, RowsOfSession
      <3>5. WeaklyOrders(newer, Range(some))
        BY <2>3, <3>2, <3>4, TimeOrders
      <3> HIDE DEF chosen
      <3>6. \A j, k \in DOMAIN some : j < k => <<some[j], some[k]>> \in newer
        BY <2>3, <2>9, <3>2, WithinOrdered
      <3> HIDE DEF some
      <3>7. Stably(some, newer) = some
        BY <3>4, <3>5, <3>6, StablyOrdered
      <3> QED
        BY <2>4, <3>1, <3>2, <3>3, <3>7
    <2> DEFINE Opens(i, s) == /\ SessionOf[list[i].task] = s
                              /\ \A j \in 1..(i - 1) : SessionOf[list[j].task] # s
               First(s) == CHOOSE i \in DOMAIN list : Opens(i, s)
    <2>12. ASSUME NEW s \in SessionsOf(list)
           PROVE  First(s) \in DOMAIN list /\ time(First(s)) = LatestOf(RowsOf(list, s), at)
      <3> DEFINE T == {i \in DOMAIN list : SessionOf[list[i].task] = s}
      <3>1. T \subseteq Nat /\ T # {}
        BY <2>5, <2>12 DEF SessionsOf, Range
      <3>2. PICK n \in T : \A m \in T : n <= m
        BY <3>1, LeastNumber
      <3>3. n \in DOMAIN list /\ Opens(n, s)
        BY <2>5, <3>2
      <3>4. First(s) \in DOMAIN list /\ Opens(First(s), s)
        <4> HIDE DEF Opens
        <4> QED
          BY <3>3
      <3>5. PICK f \in DOMAIN list : f = First(s)
        BY <3>4
      <3> HIDE DEF First
      <3>6. \A i \in DOMAIN list : SessionOf[list[i].task] = s => i = f \/ f < i
        BY <2>5, <3>4, <3>5
      <3>7. PICK some \in {RowsOf(list, s)} : TRUE
        OBVIOUS
      <3>8. /\ some \in Seq([task : Task, name : Name]) /\ Range(some) # {}
            /\ Range(some) = {row \in Range(list) : SessionOf[row.task] = s}
        <4>1. /\ RowsOf(list, s) \in Seq([task : Task, name : Name]) /\ Range(RowsOf(list, s)) # {}
              /\ Range(RowsOf(list, s)) = {row \in Range(list) : SessionOf[row.task] = s}
          BY <2>3, <2>12, RowsOfSession
        <4> QED
          BY <3>7, <4>1
      <3>9. PICK row \in Range(some) : LatestOf(some, at) = at[row.task]
        BY <2>3, <3>8, LatestIs
      <3>10. PICK k \in DOMAIN list : row = list[k]
        BY <3>8, <3>9 DEF Range
      <3>11. list[f] \in Range(some) /\ SessionOf[list[k].task] = s
        BY <2>5, <3>4, <3>5, <3>8, <3>9, <3>10
      <3>12. ~ Before(LatestOf(some, at), at[list[f].task])
        BY <2>3, <3>8, <3>11, LatestIs
      <3>13. k = f
        BY <2>6, <3>6, <3>9, <3>10, <3>11, <3>12
      <3> QED
        BY <3>5, <3>7, <3>9, <3>10, <3>13
    <2> HIDE DEF First
    <2>13. ASSUME NEW i \in DOMAIN groups, NEW j \in DOMAIN groups, i < j
           PROVE  First(groups[i].session) < First(groups[j].session)
      <3>1. groups[i].session \in SessionsOf(list) /\ groups[j].session \in SessionsOf(list)
        BY <2>4
      <3>2. PICK f \in DOMAIN list : f = First(groups[i].session)
        BY <2>12, <3>1
      <3>3. PICK g \in DOMAIN list : g = First(groups[j].session)
        BY <2>12, <3>1
      <3>4. Before(time(g), time(f))
        BY <2>4, <2>12, <2>13, <3>1, <3>2, <3>3
      <3>5. f # g
        BY <2>8, <3>4
      <3>6. ~ g < f
        BY <2>6, <2>8, <3>4
      <3> QED
        BY <2>5, <3>2, <3>3, <3>5, <3>6
    <2>14. groups = buildTaskGroups(list, at)
      BY <2>2
    <2> QED
      BY <2>4, <2>10, <2>11, <2>13, <2>14 DEF First, Opens
  <1> QED
    BY <1>1, GroupsInvHolds, PTL
=============================================================================
