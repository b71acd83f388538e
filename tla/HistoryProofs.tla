---------------------------- MODULE HistoryProofs ----------------------------
(***************************************************************************)
(* Proofs about HistoryView, for any set of tasks, any page size and any   *)
(* number of requests in flight.                                           *)
(*                                                                         *)
(* The inductive invariant says what each list, and each request that is   *)
(* alone, knows of the daemon's rows: a request in flight is why a list    *)
(* may differ from them, and what it will set makes up for it.             *)
(***************************************************************************)
EXTENDS HistoryView, ListProofs

(* The requests that replace the main list by its first page.              *)
Fetch == {"load", "refresh", "reload"}

(* A request of the tab, with what it asked and the answer it was given.   *)
Request ==
    [kind : Fetch \cup {"none", "open", "more", "copy", "archive", "restore"},
     pc : {"none", "asked", "answered"}, list : Both \cup {None}, ids : SUBSET Task,
     offset : Nat, answer : Seq(Task), alone : BOOLEAN]

-----------------------------------------------------------------------------
(* The invariant.                                                          *)

(* The daemon's rows: the archived ones are completed, none is listed      *)
(* twice.                                                                  *)
RowsShape ==
    /\ done \in Seq(Task) /\ IsInjective(done)
    /\ shelf \in Seq(Task) /\ IsInjective(shelf) /\ Range(shelf) \subseteq Range(done)
    /\ news \in Nat /\ torn \subseteq Both

(* The lists of the tab have completed tasks only.                         *)
ListsShape ==
    /\ history \in Seq(Task) /\ historyRef \in Seq(Task)
    /\ archived \in Seq(Task) /\ archivedRef \in Seq(Task)
    /\ Range(history) \cup Range(historyRef) \cup Range(archived) \cup Range(archivedRef)
         \subseteq Range(done)
    /\ archivedLoaded \in BOOLEAN

(* A surface, a selection among completed tasks, and none of the main list *)
(* behind the archived one.                                                *)
ViewShape ==
    /\ view \in Surface /\ mode \in BOOLEAN
    /\ selected \in [Both -> SUBSET Range(done)]
    /\ view = "archived" => selected["history"] = {}
    /\ focus \in [surface : Surface, history : SurfaceFocus]

(* What each kind of request asks for.                                     *)
Asks(call) ==
    /\ call.kind = "none" => call = NoCall
    /\ call.pc = "none" => call.kind = "none"
    /\ call.kind \in Fetch => call.list = "history" /\ call.offset = 0
    /\ call.kind = "open" => call.list = "archived" /\ call.offset = 0
    /\ call.kind = "more" => call.list \in Both
    /\ Len(call.answer) <= PageSize

(* Requests carry completed tasks, and one that is alone is the only one.  *)
CallsShape ==
    /\ calls \in [Slot -> Request]
    /\ \A r \in Slot :
        /\ Asks(calls[r])
        /\ Range(calls[r].answer) \cup calls[r].ids \subseteq Range(done)
        /\ calls[r].alone => \A q \in Slot : q # r => calls[q] = NoCall

(* The batches the daemon has stored and the tab has not applied.          *)
Stored(kind) == {r \in Slot : calls[r].kind = kind /\ calls[r].pc = "answered"}

(* No list has a row of the other kind but for a batch that was stored and *)
(* whose answer is on its way; the rows of such a batch are of one kind.   *)
Apart ==
    /\ "history" \notin torn =>
         \A t \in Range(history) \cap Range(shelf) : \E r \in Stored("archive") : t \in calls[r].ids
    /\ "archived" \notin torn =>
         \A t \in Range(archived) \ Range(shelf) : \E r \in Stored("restore") : t \in calls[r].ids
    /\ torn = {} =>
         /\ Range(history) \cap Range(archived) = {}
         /\ \A r \in Slot :
             /\ calls[r].kind = "archive" => calls[r].ids \subseteq Range(history)
             /\ calls[r].kind = "restore" => calls[r].ids \subseteq Range(archived)
         /\ \A r \in Stored("archive") : calls[r].ids \subseteq Range(shelf)
         /\ \A r \in Stored("restore") : calls[r].ids \cap Range(shelf) = {}

(* The page that a request which is alone has been answered, and the list  *)
(* it will set.                                                            *)
FetchedAlone(call) ==
    /\ Range(call.answer) \cap Range(shelf) = {}
    /\ news = 0 => IsPrefix(call.answer, Rows("history"))
    /\ \A t \in Range(history) \ Range(call.answer) :
          t \in Range(shelf) \cup Range(SubSeq(done, PageSize + 1, Len(done)))

(* The next page of a list: that list has not moved since it was asked for.*)
MoreAlone(call) ==
    /\ call.list = "archived" =>
         /\ call.offset = Len(archived)
         /\ call.pc = "answered" => call.answer = Page("archived", call.offset)
    /\ call.list = "history" =>
         /\ call.offset = Len(history)
         /\ call.pc = "answered" =>
              /\ Range(call.answer) \cap Range(shelf) = {}
              /\ news = 0 => call.answer = Page("history", call.offset)

(* A batch: what it will leave of its list is a prefix of what the daemon  *)
(* has.                                                                    *)
BatchAlone(call) ==
    /\ historyRef = history /\ archivedRef = archived
    /\ call.pc = "answered" /\ call.kind = "archive" /\ news = 0 /\ "history" \notin torn =>
         IsPrefix(Without(history, call.ids), Rows("history"))
    /\ call.pc = "answered" /\ call.kind = "restore" /\ archivedLoaded /\ "archived" \notin torn =>
         IsPrefix(Without(archived, call.ids), shelf)

(* What a request knows that was never in flight with another one.         *)
Alone(call) ==
    call.alone =>
      /\ call.kind \in Fetch /\ call.pc = "answered" => FetchedAlone(call)
      /\ call.kind = "open" /\ call.pc = "answered" => IsPrefix(call.answer, shelf)
      /\ call.kind = "more" => MoreAlone(call)
      /\ call.kind \in {"archive", "restore"} => BatchAlone(call)

(* A list is what the daemon has, or a request is in flight that makes up. *)
Known ==
    /\ news = 0 /\ "history" \notin torn =>
         \/ IsPrefix(history, Rows("history"))
         \/ \E r \in Slot : calls[r].kind \in Fetch
         \/ Stored("archive") \cup Stored("restore") # {}
    /\ archivedLoaded /\ "archived" \notin torn =>
         \/ IsPrefix(archived, shelf)
         \/ Stored("archive") \cup Stored("restore") # {}

(* The part of the invariant about rows and requests, which clicks leave   *)
(* alone.                                                                  *)
RowsInv ==
    /\ RowsShape /\ ListsShape /\ CallsShape
    /\ Apart /\ (\A r \in Slot : Alone(calls[r])) /\ Known

(* The inductive invariant.                                                *)
HistoryInv == RowsInv /\ ViewShape

-----------------------------------------------------------------------------
(* Rows and pages.                                                         *)

(* A page is at most as long as its limit, has rows of the list only, and  *)
(* what is loaded up to its offset, with the page, is a prefix again.      *)
LEMMA PageIsNext ==
    ASSUME NEW X, NEW list \in Seq(X), NEW offset \in Nat, NEW n \in Nat,
           NEW page \in {UpTo(n, SubSeq(list, offset + 1, Len(list)))}
    PROVE  /\ page \in Seq(X) /\ Len(page) <= n /\ Range(page) \subseteq Range(list)
           /\ \A loaded \in Seq(X) : Len(loaded) = offset /\ IsPrefix(loaded, list) =>
                IsPrefix(loaded \o page, list)
PROOF
  <1> DEFINE rest == SubSeq(list, offset + 1, Len(list))
             m == IF n < Len(rest) THEN n ELSE Len(rest)
  <1>1. Len(list) \in Nat /\ DOMAIN list = 1..Len(list)
    OBVIOUS
  <1>2. /\ rest \in Seq(X)
        /\ Len(rest) = IF offset + 1 <= Len(list) THEN Len(list) - offset ELSE 0
        /\ \A i \in 1..Len(rest) : rest[i] = list[offset + i]
    OBVIOUS
  <1>3. page = SubSeq(rest, 1, m)
    BY DEF UpTo
  <1> HIDE DEF rest
  <1>4. Len(rest) \in Nat /\ (Len(rest) = 0 \/ offset + Len(rest) = Len(list))
    <2>1. Len(rest) \in Nat
      BY <1>2
    <2>2. \A l \in Nat : offset + 1 <= l => offset + (l - offset) = l
      OBVIOUS
    <2> QED
      BY <1>1, <1>2, <2>1, <2>2
  <1>5. m \in Nat /\ m <= n /\ m \in 0..Len(rest) /\ (m = 0 \/ offset + m <= Len(list))
    <2>1. \A r \in Nat, l \in Nat : r = 0 \/ offset + r = l =>
              LET k == IF n < r THEN n ELSE r
              IN  k \in Nat /\ k <= n /\ k \in 0..r /\ (k = 0 \/ offset + k <= l)
      OBVIOUS
    <2> QED
      BY <1>1, <1>4, <2>1
  <1> HIDE DEF m
  <1>6. page \in Seq(X) /\ Len(page) = m /\ \A i \in 1..m : page[i] = list[offset + i]
    <2>1. page \in Seq(X) /\ Len(page) = m
      BY <1>2, <1>3, <1>5, PartElements
    <2>2. \A i \in 1..m : i \in 1..Len(rest) /\ SubSeq(rest, 1, m)[i] = rest[i]
      BY <1>2, <1>4, <1>5
    <2> QED
      BY <1>2, <1>3, <2>1, <2>2
  <1>7. \A i \in 1..m : offset + i \in 1..Len(list)
    BY <1>1, <1>5
  <1>8. Range(page) \subseteq Range(list)
    <2>1. DOMAIN page = 1..m
      BY <1>6
    <2> QED
      BY <1>1, <1>6, <1>7, <2>1 DEF Range
  <1>9. ASSUME NEW loaded \in Seq(X), Len(loaded) = offset, IsPrefix(loaded, list)
        PROVE  IsPrefix(loaded \o page, list)
    <2> DEFINE both == loaded \o page
    <2>1. offset <= Len(list) /\ \A i \in 1..offset : loaded[i] = list[i]
      BY <1>9, PrefixElements
    <2>2. /\ both \in Seq(X) /\ Len(both) = offset + m
          /\ \A i \in 1..offset : both[i] = loaded[i]
          /\ \A i \in 1..m : both[offset + i] = page[i]
      <3>1. /\ both \in Seq(X) /\ Len(both) = Len(loaded) + Len(page)
            /\ \A i \in 1..Len(loaded) : both[i] = loaded[i]
            /\ \A i \in 1..Len(page) : both[Len(loaded) + i] = page[i]
        <4> HIDE DEF both
        <4>1. \A s \in Seq(X), u \in Seq(X) :
                /\ s \o u \in Seq(X) /\ Len(s \o u) = Len(s) + Len(u)
                /\ \A i \in 1..Len(s) : (s \o u)[i] = s[i]
                /\ \A i \in 1..Len(u) : (s \o u)[Len(s) + i] = u[i]
          OBVIOUS
        <4> QED
          BY <1>6, <4>1 DEF both
      <3> QED
        BY <1>6, <1>9, <3>1
    <2> HIDE DEF both
    <2>3. Len(both) <= Len(list)
      BY <1>1, <1>5, <2>1, <2>2
    <2>4. \A i \in 1..(offset + m) : i \in 1..offset \/ (i - offset \in 1..m /\ offset + (i - offset) = i)
      BY <1>5
    <2>5. \A i \in 1..(offset + m) : both[i] = list[i]
      <3> SUFFICES ASSUME NEW i \in 1..(offset + m) PROVE both[i] = list[i]
        OBVIOUS
      <3>1. CASE i \in 1..offset
        BY <2>1, <2>2, <3>1
      <3>2. CASE i - offset \in 1..m /\ offset + (i - offset) = i
        <4> DEFINE j == i - offset
        <4>1. j \in 1..m /\ offset + j = i
          BY <3>2
        <4> HIDE DEF j
        <4> QED
          BY <1>6, <2>2, <4>1
      <3> QED
        BY <2>4, <3>1, <3>2
    <2>6. IsPrefix(both, list)
      BY <2>2, <2>3, <2>5, PrefixElements
    <2> QED
      BY <2>6 DEF both
  <1> QED
    BY <1>5, <1>6, <1>8, <1>9

(* The first page is a prefix.                                             *)
LEMMA FirstPage ==
    ASSUME NEW X, NEW list \in Seq(X), NEW n \in Nat
    PROVE  IsPrefix(UpTo(n, list), list)
PROOF
  <1> DEFINE m == IF n < Len(list) THEN n ELSE Len(list)
             first == SubSeq(list, 1, m)
  <1>1. m \in 0..Len(list) /\ Len(list) \in Nat
    OBVIOUS
  <1> HIDE DEF m
  <1>2. first \in Seq(X) /\ Len(first) = m /\ \A i \in 1..m : first[i] = list[i]
    BY <1>1
  <1> HIDE DEF first
  <1>3. IsPrefix(first, list)
    BY <1>1, <1>2, PrefixElements
  <1> QED
    BY <1>3 DEF UpTo, first, m

(* An element of the filtered list that its first page lacks has at least  *)
(* a page of elements before it in the list itself, too.                   *)
LEMMA PushedOut ==
    ASSUME NEW X, NEW list \in Seq(X), NEW S, NEW n \in Nat,
           NEW t \in Range(Without(list, S)) \ Range(UpTo(n, Without(list, S)))
    PROVE  t \in Range(SubSeq(list, n + 1, Len(list)))
PROOF
  <1> DEFINE D == Range(list) \ S
             rows == Within(list, D)
  <1>1. rows = Without(list, S) /\ rows \in Seq(X) /\ Range(rows) = Range(list) \ S
    BY WithoutKeeps DEF Without
  <1>2. Len(list) \in Nat /\ DOMAIN list = 1..Len(list) /\ Len(rows) \in Nat
    BY <1>1
  <1> HIDE DEF D
  <1>3. PICK i \in 1..Len(list) : list[i] = t
    BY <1>1, <1>2 DEF Range
  <1>4. CASE n < i
    <2> DEFINE late == SubSeq(list, n + 1, Len(list))
    <2>1. Len(late) = Len(list) - n /\ DOMAIN late = 1..(Len(list) - n) /\ i - n \in 1..(Len(list) - n)
      <3>1. n < Len(list) /\ n + 1 \in Nat /\ Len(list) - n \in Nat /\ i - n \in 1..(Len(list) - n)
        BY <1>2, <1>4
      <3>2. late \in Seq(X) /\ Len(late) = Len(list) - n
        BY <3>1
      <3> QED
        BY <3>1, <3>2
    <2>2. late[i - n] = list[n + (i - n)] /\ n + (i - n) = i
      BY <1>2, <1>4
    <2> HIDE DEF late
    <2>3. t \in Range(late)
      BY <1>3, <2>1, <2>2 DEF Range
    <2> QED
      BY <2>3 DEF late
  <1>5. CASE i <= n
    <2> DEFINE k == IF n < Len(list) THEN n ELSE Len(list)
               first == SubSeq(list, 1, k)
               kept == Within(first, D)
    <2>1. k \in 0..Len(list) /\ k <= n /\ i \in 1..k
      BY <1>2, <1>5
    <2> HIDE DEF k
    <2>2. first \in Seq(X) /\ Len(first) = k /\ first[i] = list[i] /\ DOMAIN first = 1..k
      BY <1>2, <2>1
    <2> HIDE DEF first
    <2>3. kept \in Seq(X) /\ Len(kept) <= k /\ Range(kept) = Range(first) \cap D
      BY <2>2, WithinKeeps
    <2>4. IsPrefix(kept, rows)
      BY <2>1, WithinFirst DEF first
    <2> HIDE DEF rows
    <2>5. t \in Range(kept)
      BY <1>1, <1>3, <2>1, <2>2, <2>3 DEF Range, D
    <2> HIDE DEF kept
    <2>6. PICK j \in 1..Len(kept) : kept[j] = t
      BY <2>3, <2>5 DEF Range
    <2>7. Len(kept) \in Nat /\ Len(kept) <= Len(rows) /\ rows[j] = t
      BY <1>1, <2>3, <2>4, <2>6, PrefixElements
    <2> DEFINE m == IF n < Len(rows) THEN n ELSE Len(rows)
    <2>8. j \in 1..m /\ m \in 0..Len(rows)
      BY <1>2, <2>1, <2>3, <2>6, <2>7
    <2>9. UpTo(n, rows) = SubSeq(rows, 1, m)
      BY DEF UpTo
    <2> HIDE DEF m
    <2>10. SubSeq(rows, 1, m)[j] = rows[j] /\ DOMAIN SubSeq(rows, 1, m) = 1..m
      BY <1>1, <1>2, <2>8
    <2>11. t \in Range(UpTo(n, rows))
      BY <2>7, <2>8, <2>9, <2>10 DEF Range
    <2> QED
      BY <1>1, <2>11
  <1> QED
    BY <1>2, <1>4, <1>5

-----------------------------------------------------------------------------
(* What the daemon's steps do to its lists.                                *)

(* Both lists are lists of completed tasks, and have none in common.       *)
LEMMA RowsAreDone ==
    ASSUME RowsShape
    PROVE  /\ \A list \in Both : Rows(list) \in Seq(Task) /\ Range(Rows(list)) \subseteq Range(done)
           /\ Rows("archived") = shelf
           /\ Rows("history") = Without(done, Range(shelf))
           /\ Range(Rows("history")) = Range(done) \ Range(shelf)
PROOF
  <1>1. Rows("archived") = shelf /\ Rows("history") = Without(done, Range(shelf))
    BY DEF Rows
  <1>2. /\ Without(done, Range(shelf)) \in Seq(Task)
        /\ Range(Without(done, Range(shelf))) = Range(done) \ Range(shelf)
    BY WithoutKeeps DEF RowsShape
  <1> QED
    BY <1>1, <1>2 DEF RowsShape, Both

(* A batch moves its rows to the front of the archived list, and off the   *)
(* main one.                                                               *)
LEMMA ShelveMovesRows ==
    ASSUME RowsShape, NEW ids, ids \subseteq Range(done), Shelve(ids), UNCHANGED done
    PROVE  /\ shelf' \in Seq(Task) /\ IsInjective(shelf')
           /\ Range(shelf') = Range(shelf) \cup ids
           /\ Rows("history")' = Without(Rows("history"), ids)
PROOF
  <1> DEFINE fresh == Within(done, ids \ Range(shelf))
  <1>1. done \in Seq(Task) /\ IsInjective(done) /\ shelf \in Seq(Task) /\ IsInjective(shelf)
          /\ Range(shelf) \subseteq Range(done)
    BY DEF RowsShape
  <1>2. fresh \in Seq(Task) /\ IsInjective(fresh) /\ Range(fresh) = Range(done) \cap (ids \ Range(shelf))
    BY <1>1, WithinKeeps
  <1>3. shelf' = fresh \o shelf
    BY DEF Shelve
  <1> HIDE DEF fresh
  <1>4. Range(fresh) = ids \ Range(shelf) /\ Range(fresh) \cap Range(shelf) = {}
    BY <1>2
  <1>5. shelf' \in Seq(Task) /\ Range(shelf') = Range(shelf) \cup ids
    BY <1>1, <1>2, <1>3, <1>4, ConcatElements
  <1>6. IsInjective(shelf')
    BY <1>1, <1>2, <1>3, <1>4, ConcatDistinct
  <1>7. Rows("history")' = Without(done, Range(shelf')) /\ Rows("history") = Without(done, Range(shelf))
    BY DEF Rows
  <1>8. Range(shelf') \cap Range(done) = (Range(shelf) \cup ids) \cap Range(done)
    BY <1>5
  <1>9. Without(Without(done, Range(shelf)), ids) = Without(done, Range(shelf'))
    BY <1>1, <1>8, WithoutWithout
  <1> QED
    BY <1>5, <1>6, <1>7, <1>9

(* A batch takes its rows off the archived list.                           *)
LEMMA UnshelveMovesRows ==
    ASSUME RowsShape, NEW ids, Unshelve(ids)
    PROVE  /\ shelf' \in Seq(Task) /\ IsInjective(shelf')
           /\ Range(shelf') = Range(shelf) \ ids /\ shelf' = Without(shelf, ids)
  BY WithoutKeeps DEF RowsShape, Unshelve

(* A task that is answered comes first, and pushes the others back.        *)
LEMMA CompletePushesRows ==
    ASSUME HistoryAssumption, RowsShape, NEW t \in Task, t \notin Range(done), done' = <<t>> \o done
    PROVE  /\ done' \in Seq(Task) /\ IsInjective(done') /\ Range(done') = {t} \cup Range(done)
           /\ Range(SubSeq(done, PageSize + 1, Len(done)))
                \subseteq Range(SubSeq(done', PageSize + 1, Len(done')))
PROOF
  <1>1. done \in Seq(Task) /\ IsInjective(done) /\ PageSize \in Nat
    BY DEF RowsShape, HistoryAssumption
  <1>2. done' \in Seq(Task) /\ IsInjective(done') /\ Range(done') = {t} \cup Range(done)
    BY <1>1, PrependElements
  <1>3. Len(done') = Len(done) + 1 /\ \A i \in 1..Len(done) : done'[i + 1] = done[i]
    BY <1>1
  <1> DEFINE old == SubSeq(done, PageSize + 1, Len(done))
             new == SubSeq(done', PageSize + 1, Len(done'))
  <1>4. CASE Len(done) <= PageSize
    <2>1. old = <<>>
      BY <1>1, <1>4
    <2>2. Range(old) = {}
      BY <2>1 DEF Range
    <2> QED
      BY <1>2, <2>2
  <1>5. CASE PageSize < Len(done)
    <2> DEFINE m == Len(done) - PageSize
    <2>1. m \in Nat /\ Len(done) \in Nat /\ Len(done') - PageSize = m + 1
      BY <1>1, <1>3, <1>5
    <2>2. Len(old) = m /\ DOMAIN old = 1..m /\ \A i \in 1..m : old[i] = done[PageSize + i]
      BY <1>1, <1>5
    <2>3. Len(new) = m + 1 /\ DOMAIN new = 1..(m + 1) /\ \A i \in 1..(m + 1) : new[i] = done'[PageSize + i]
      BY <1>1, <1>2, <1>3, <1>5
    <2>4. \A i \in 1..m : PageSize + i \in 1..Len(done) /\ i + 1 \in 1..(m + 1)
                            /\ PageSize + (i + 1) = (PageSize + i) + 1
      BY <1>1, <1>5
    <2> HIDE DEF m, old, new
    <2>5. ASSUME NEW i \in 1..m
          PROVE  old[i] = new[i + 1] /\ i + 1 \in DOMAIN new
      <3>1. new[i + 1] = done'[PageSize + (i + 1)] /\ i + 1 \in DOMAIN new
        BY <2>3, <2>4
      <3>2. done'[(PageSize + i) + 1] = done[PageSize + i]
        BY <1>3, <2>4
      <3>3. PageSize + (i + 1) = (PageSize + i) + 1
        BY <2>4
      <3> QED
        BY <2>2, <3>1, <3>2, <3>3
    <2>6. Range(old) \subseteq Range(new)
      BY <2>2, <2>5 DEF Range
    <2> QED
      BY <1>2, <2>6 DEF old, new
  <1>6. Len(done) \in Nat
    BY <1>1
  <1> QED
    BY <1>1, <1>4, <1>5, <1>6

-----------------------------------------------------------------------------
(* Requests that begin, change and end.                                    *)

(* What no request is in flight looks like.                                *)
LEMMA NoCallShape ==
    /\ NoCall \in Request /\ Asks(NoCall) /\ NoCall.ids = {} /\ NoCall.answer = <<>>
    /\ NoCall.kind = "none" /\ NoCall.pc = "none" /\ ~ NoCall.alone /\ Range(NoCall.answer) = {}
    /\ \A call \in Request : call.kind # "none" => call # NoCall
PROOF
  <1>1. NoCall \in Request /\ Asks(NoCall)
    BY HistoryAssumption DEF NoCall, Request, Asks, Fetch, HistoryAssumption
  <1>2. Range(<<>>) = {}
    BY DEF Range
  <1> QED
    BY <1>1, <1>2 DEF NoCall

(* A request that is marked alone or not is otherwise the same.            *)
LEMMA MarkedCall ==
    ASSUME NEW call \in Request, NEW marked, NEW b \in BOOLEAN, marked = [call EXCEPT !.alone = b]
    PROVE  /\ marked \in Request /\ marked.kind = call.kind /\ marked.pc = call.pc
           /\ marked.list = call.list /\ marked.ids = call.ids /\ marked.offset = call.offset
           /\ marked.answer = call.answer /\ marked.alone = b
           /\ [NoCall EXCEPT !.alone = FALSE] = NoCall
PROOF
  <1>1. /\ marked.kind = call.kind /\ marked.pc = call.pc /\ marked.list = call.list
        /\ marked.ids = call.ids /\ marked.offset = call.offset /\ marked.answer = call.answer
        /\ marked.alone = b
    BY DEF Request
  <1>2. marked \in Request
    BY DEF Request
  <1>3. [NoCall EXCEPT !.alone = FALSE] = NoCall
    <2>1. NoCall.alone = FALSE /\ NoCall = [k \in DOMAIN NoCall |-> NoCall[k]]
      BY DEF NoCall
    <2> QED
      BY <2>1
  <1> QED
    BY <1>1, <1>2, <1>3

(* One request in flight becomes another, or none.                         *)
Becomes(r, call) ==
    /\ calls[r].kind # "none"
    /\ call \in Request /\ Asks(call) /\ Range(call.answer) \cup call.ids \subseteq Range(done)
    /\ call.alone => calls[r].alone
    /\ calls' = [calls EXCEPT ![r] = call]

(* A request that was alone is the only one, and no other one is alone.    *)
LEMMA CallsBecome ==
    ASSUME CallsShape, NEW r \in Slot, NEW call, Becomes(r, call), UNCHANGED done
    PROVE  /\ CallsShape' /\ calls'[r] = call
           /\ \A q \in Slot : q # r => calls'[q] = calls[q] /\ ~ calls[q].alone
           /\ calls[r].alone => \A q \in Slot : q # r => calls[q].kind = "none" /\ calls[q].pc = "none"
PROOF
  <1>1. calls \in [Slot -> Request] /\ calls[r] # NoCall
    BY NoCallShape DEF CallsShape, Becomes
  <1>2. calls' \in [Slot -> Request] /\ calls'[r] = call /\ \A q \in Slot : q # r => calls'[q] = calls[q]
    BY <1>1 DEF Becomes
  <1>3. \A q \in Slot : q # r => ~ calls[q].alone
    BY <1>1 DEF CallsShape
  <1>4. calls[r].alone => \A q \in Slot : q # r => calls[q] = NoCall
    BY DEF CallsShape
  <1>5. ASSUME NEW q \in Slot
        PROVE  /\ Asks(calls'[q])
               /\ Range(calls'[q].answer) \cup calls'[q].ids \subseteq Range(done')
               /\ calls'[q].alone => \A p \in Slot : p # q => calls'[p] = NoCall
    <2>1. CASE q = r
      BY <1>2, <1>4, <2>1 DEF Becomes, Asks
    <2>2. CASE q # r
      BY <1>2, <1>3, <2>2 DEF CallsShape, Asks
    <2> QED
      BY <2>1, <2>2
  <1>6. CallsShape'
    BY <1>2, <1>5 DEF CallsShape, Asks
  <1> QED
    BY <1>2, <1>3, <1>4, <1>6, NoCallShape

(* A request that begins is alone if there is no other, and no other one   *)
(* is alone after it.                                                      *)
LEMMA CallsStart ==
    ASSUME CallsShape, NEW r \in Slot, NEW call \in Request, Start(r, call), UNCHANGED done,
           Asks(call), call.kind # "none", Range(call.answer) \cup call.ids \subseteq Range(done)
    PROVE  /\ CallsShape' /\ calls[r] = NoCall
           /\ calls'[r].kind = call.kind /\ calls'[r].pc = call.pc /\ calls'[r].list = call.list
           /\ calls'[r].ids = call.ids /\ calls'[r].offset = call.offset
           /\ calls'[r].answer = call.answer
           /\ \A q \in Slot : q # r =>
                /\ calls'[q].kind = calls[q].kind /\ calls'[q].pc = calls[q].pc
                /\ calls'[q].ids = calls[q].ids /\ ~ calls'[q].alone
PROOF
  <1> DEFINE started == [call EXCEPT !.alone = Idle]
             passed(q) == [calls[q] EXCEPT !.alone = FALSE]
  <1>1. calls \in [Slot -> Request] /\ \A q \in Slot : calls[q] \in Request
    BY DEF CallsShape
  <1>2. PICK b \in BOOLEAN : b <=> Idle
    OBVIOUS
  <1>3. /\ started \in Request /\ started.kind = call.kind /\ started.pc = call.pc
        /\ started.list = call.list /\ started.ids = call.ids /\ started.offset = call.offset
        /\ started.answer = call.answer /\ (started.alone => Idle)
    <2>1. started = [call EXCEPT !.alone = b]
      BY <1>2 DEF Idle
    <2> QED
      BY <1>2, <2>1, MarkedCall
  <1>4. ASSUME NEW q \in Slot
        PROVE  /\ passed(q) \in Request /\ ~ passed(q).alone /\ passed(q).kind = calls[q].kind
               /\ passed(q).pc = calls[q].pc /\ passed(q).list = calls[q].list
               /\ passed(q).ids = calls[q].ids /\ passed(q).offset = calls[q].offset
               /\ passed(q).answer = calls[q].answer
               /\ calls[q] = NoCall => passed(q) = NoCall
    <2> DEFINE p == passed(q)
    <2> PICK no \in BOOLEAN : no = FALSE
      OBVIOUS
    <2>1. p = [calls[q] EXCEPT !.alone = no] /\ calls[q] \in Request
      BY <1>1
    <2> HIDE DEF p
    <2>2. /\ p \in Request /\ p.alone = no /\ p.kind = calls[q].kind /\ p.pc = calls[q].pc
          /\ p.list = calls[q].list /\ p.ids = calls[q].ids /\ p.offset = calls[q].offset
          /\ p.answer = calls[q].answer
      BY <2>1, MarkedCall
    <2>3. [NoCall EXCEPT !.alone = FALSE] = NoCall
      BY <2>1, MarkedCall
    <2>4. calls[q] = NoCall => passed(q) = NoCall
      BY <2>3
    <2> QED
      BY <2>2, <2>4 DEF p
  <1>5. calls' = [q \in Slot |-> IF q = r THEN started ELSE passed(q)]
    BY DEF Start
  <1> HIDE DEF started, passed
  <1>6. calls' \in [Slot -> Request] /\ calls'[r] = started
          /\ \A q \in Slot : q # r => calls'[q] = passed(q)
    BY <1>3, <1>4, <1>5
  <1>7. started.alone => \A q \in Slot : q # r => calls'[q] = NoCall
    BY <1>3, <1>4, <1>6 DEF Idle
  <1>8. Asks(started) /\ \A q \in Slot : Asks(passed(q))
    <2>1. Asks(started)
      BY <1>3 DEF Asks
    <2>2. ASSUME NEW q \in Slot PROVE Asks(passed(q))
      BY <1>4 DEF Asks, CallsShape
    <2> QED
      BY <2>1, <2>2
  <1>9. ASSUME NEW q \in Slot
        PROVE  /\ Asks(calls'[q])
               /\ Range(calls'[q].answer) \cup calls'[q].ids \subseteq Range(done')
               /\ calls'[q].alone => \A p \in Slot : p # q => calls'[p] = NoCall
    <2>1. CASE q = r
      BY <1>3, <1>6, <1>7, <1>8, <2>1
    <2>2. CASE q # r
      BY <1>4, <1>6, <1>8, <2>2 DEF CallsShape
    <2> QED
      BY <2>1, <2>2
  <1>10. CallsShape'
    BY <1>6, <1>9 DEF CallsShape, Asks
  <1> QED
    BY <1>3, <1>4, <1>6, <1>10, ZenonT(30) DEF Start

(* Once nothing can be told of the lists, and no request is alone, nothing *)
(* is.                                                                     *)
LEMMA TornSaysNothing ==
    ASSUME torn' = Both, \A q \in Slot : ~ calls'[q].alone
    PROVE  Apart' /\ (\A q \in Slot : Alone(calls[q]))' /\ Known'
PROOF
  <1>1. "history" \in torn' /\ "archived" \in torn' /\ torn' # {}
    BY DEF Both
  <1>2. Apart'
    BY <1>1 DEF Apart
  <1>3. Known'
    BY <1>1 DEF Known
  <1>4. (\A q \in Slot : Alone(calls[q]))'
    BY DEF Alone
  <1> QED
    BY <1>2, <1>3, <1>4

(* A request ends.  If it was alone, none is in flight any more.           *)
LEMMA CallsEnd ==
    ASSUME CallsShape, NEW r \in Slot, calls[r].kind # "none", End(r), UNCHANGED done
    PROVE  /\ CallsShape' /\ calls'[r] = NoCall
           /\ \A q \in Slot : ~ calls'[q].alone
           /\ \A q \in Slot : q # r => calls'[q] = calls[q]
           /\ calls[r].alone => \A q \in Slot : calls'[q].kind = "none"
                                                /\ (q # r => calls[q].kind = "none")
PROOF
  <1>1. Becomes(r, NoCall)
    BY NoCallShape DEF Becomes, End
  <1> QED
    BY <1>1, CallsBecome, NoCallShape


(* A main list that is fetched is the daemon's (App.tsx:116, :241, :337).  *)
LEMMA FetchSets ==
    ASSUME RowsInv, NEW r \in Slot, calls[r].kind \in Fetch, calls[r].pc = "answered",
           history' = calls[r].answer, historyRef' \in {historyRef, calls[r].answer},
           Sets(r, {"history"}), End(r),
           UNCHANGED <<done, shelf, news, archived, archivedRef, archivedLoaded>>
    PROVE  RowsInv'
PROOF
  <1>1. /\ CallsShape' /\ calls'[r] = NoCall /\ \A q \in Slot : ~ calls'[q].alone
        /\ calls[r].alone => \A q \in Slot : calls'[q].kind = "none"
                                             /\ (q # r => calls[q].kind = "none")
    BY CallsEnd DEF RowsInv, Fetch
  <1>2. torn' \subseteq Both
    BY DEF RowsInv, RowsShape, Sets
  <1>3. RowsShape'
    BY <1>2 DEF RowsInv, RowsShape
  <1>4. calls[r].answer \in Seq(Task) /\ Range(calls[r].answer) \subseteq Range(done)
    BY DEF RowsInv, CallsShape, Request
  <1>5. ListsShape'
    BY <1>4 DEF RowsInv, ListsShape
  <1>6. CASE ~ calls[r].alone
    <2>1. torn' = Both
      BY <1>6 DEF Sets
    <2> QED
      BY <1>1, <1>3, <1>5, <2>1, TornSaysNothing DEF RowsInv
  <1>7. CASE calls[r].alone
    <2>1. torn' = torn \ {"history"}
      BY <1>7 DEF Sets
    <2>2. FetchedAlone(calls[r])
      BY <1>7 DEF RowsInv, Alone
    <2>3. Range(history') \cap Range(shelf) = {} /\ (news = 0 => IsPrefix(history', Rows("history")))
      BY <2>2 DEF FetchedAlone
    <2>4. \A q \in Slot : calls[q].kind \notin {"archive", "restore"}
                            /\ calls'[q].kind \notin {"archive", "restore"}
      BY <1>1, <1>7 DEF Fetch
    <2>5. \A k \in {"archive", "restore"} : Stored(k) = {} /\ Stored(k)' = {}
      BY <2>4 DEF Stored
    <2>6. "archived" \notin torn => Range(archived) \subseteq Range(shelf)
      BY <2>5 DEF RowsInv, Apart
    <2>7. Apart'
      <3>1. torn' = {} => "archived" \notin torn
        BY <2>1
      <3>2. "archived" \notin torn' => "archived" \notin torn
        BY <2>1
      <3>3. torn' = {} => Range(history') \cap Range(archived') = {}
        BY <2>3, <2>6, <3>1
      <3> QED
        BY <2>3, <2>4, <2>5, <2>6, <3>2, <3>3 DEF Apart
    <2>8. (\A q \in Slot : Alone(calls[q]))'
      BY <1>1 DEF Alone
    <2>9. Rows("history")' = Rows("history")
      BY DEF Rows
    <2>10. Known'
      <3>1. archivedLoaded /\ "archived" \notin torn => IsPrefix(archived, shelf)
        BY <2>5 DEF RowsInv, Known
      <3>2. news' = 0 => IsPrefix(history', Rows("history")')
        BY <2>3, <2>9
      <3>3. archivedLoaded' /\ "archived" \notin torn' => IsPrefix(archived', shelf')
        BY <2>1, <3>1
      <3> QED
        BY <3>2, <3>3 DEF Known
    <2> QED
      BY <1>1, <1>3, <1>5, <2>7, <2>8, <2>10 DEF RowsInv
  <1> QED
    BY <1>6, <1>7

(* The archived list is fetched when it is opened (App.tsx:376).           *)
LEMMA OpenSets ==
    ASSUME RowsInv, NEW r \in Slot, calls[r].kind = "open", calls[r].pc = "answered",
           archived' = calls[r].answer, archivedLoaded' = TRUE,
           Sets(r, {"archived"}), End(r),
           UNCHANGED <<done, shelf, news, history, historyRef, archivedRef>>
    PROVE  RowsInv'
PROOF
  <1>1. /\ CallsShape' /\ calls'[r] = NoCall /\ \A q \in Slot : ~ calls'[q].alone
        /\ calls[r].alone => \A q \in Slot : calls'[q].kind = "none"
                                             /\ (q # r => calls[q].kind = "none")
    BY CallsEnd DEF RowsInv
  <1>2. torn' \subseteq Both
    BY DEF RowsInv, RowsShape, Sets
  <1>3. RowsShape'
    BY <1>2 DEF RowsInv, RowsShape
  <1>4. calls[r].answer \in Seq(Task) /\ Range(calls[r].answer) \subseteq Range(done)
    BY DEF RowsInv, CallsShape, Request
  <1>5. ListsShape'
    BY <1>4 DEF RowsInv, ListsShape
  <1>6. CASE ~ calls[r].alone
    <2>1. torn' = Both
      BY <1>6 DEF Sets
    <2> QED
      BY <1>1, <1>3, <1>5, <2>1, TornSaysNothing DEF RowsInv
  <1>7. CASE calls[r].alone
    <2>1. torn' = torn \ {"archived"}
      BY <1>7 DEF Sets
    <2>2. IsPrefix(archived', shelf)
      BY <1>7 DEF RowsInv, Alone
    <2>3. Range(archived') \subseteq Range(shelf)
      BY <1>4, <2>2, PrefixRange DEF RowsInv, RowsShape
    <2>4. \A q \in Slot : calls[q].kind \notin {"archive", "restore"} \cup Fetch
                            /\ calls'[q].kind \notin {"archive", "restore"}
      BY <1>1, <1>7 DEF Fetch
    <2>5. \A k \in {"archive", "restore"} : Stored(k) = {} /\ Stored(k)' = {}
      BY <2>4 DEF Stored
    <2>6. "history" \notin torn => Range(history) \cap Range(shelf) = {}
      BY <2>5 DEF RowsInv, Apart
    <2>7. Apart'
      <3>1. ("history" \notin torn' => "history" \notin torn) /\ (torn' = {} => "history" \notin torn)
        BY <2>1
      <3>2. torn' = {} => Range(history') \cap Range(archived') = {}
        BY <2>3, <2>6, <3>1
      <3> QED
        BY <2>3, <2>4, <2>5, <2>6, <3>1, <3>2 DEF Apart
    <2>8. (\A q \in Slot : Alone(calls[q]))'
      BY <1>1 DEF Alone
    <2>9. Rows("history")' = Rows("history")
      BY DEF Rows
    <2>10. Known'
      <3>1. news' = 0 /\ "history" \notin torn' => IsPrefix(history', Rows("history")')
        BY <2>1, <2>4, <2>5, <2>9 DEF RowsInv, Known
      <3> QED
        BY <2>2, <3>1 DEF Known
    <2> QED
      BY <1>1, <1>3, <1>5, <2>7, <2>8, <2>10 DEF RowsInv
  <1> QED
    BY <1>6, <1>7

(* Load more: the page is put after what is loaded (App.tsx:545).          *)
LEMMA MoreAdds ==
    ASSUME HistoryAssumption, RowsInv, NEW r \in Slot,
           calls[r].kind = "more", calls[r].pc = "answered",
           IF calls[r].list = "archived"
             THEN archived' = archived \o calls[r].answer /\ UNCHANGED history
             ELSE history' = history \o calls[r].answer /\ UNCHANGED archived,
           Sets(r, {}), End(r),
           UNCHANGED <<done, shelf, news, historyRef, archivedRef, archivedLoaded>>
    PROVE  RowsInv'
PROOF
  <1>1. /\ CallsShape' /\ calls'[r] = NoCall /\ \A q \in Slot : ~ calls'[q].alone
        /\ calls[r].alone => \A q \in Slot : calls'[q].kind = "none"
                                             /\ (q # r => calls[q].kind = "none")
    BY CallsEnd DEF RowsInv
  <1>2. torn' \subseteq Both
    BY DEF RowsInv, RowsShape, Sets
  <1>3. RowsShape'
    BY <1>2 DEF RowsInv, RowsShape
  <1>4. /\ calls[r].answer \in Seq(Task) /\ Range(calls[r].answer) \subseteq Range(done)
        /\ calls[r].list \in Both
    BY DEF RowsInv, CallsShape, Request, Asks
  <1>5. /\ history \in Seq(Task) /\ Range(history) \subseteq Range(done)
        /\ archived \in Seq(Task) /\ Range(archived) \subseteq Range(done)
    BY DEF RowsInv, ListsShape
  <1>6. /\ history \o calls[r].answer \in Seq(Task)
        /\ Range(history \o calls[r].answer) = Range(history) \cup Range(calls[r].answer)
    BY <1>4, <1>5, ConcatElements
  <1>7. /\ archived \o calls[r].answer \in Seq(Task)
        /\ Range(archived \o calls[r].answer) = Range(archived) \cup Range(calls[r].answer)
    BY <1>4, <1>5, ConcatElements
  <1>8. ListsShape'
    <2>1. history' \in Seq(Task) /\ Range(history') \subseteq Range(done)
      BY <1>4, <1>5, <1>6
    <2>2. archived' \in Seq(Task) /\ Range(archived') \subseteq Range(done)
      BY <1>4, <1>5, <1>7
    <2> QED
      BY <2>1, <2>2 DEF RowsInv, ListsShape
  <1>9. CASE ~ calls[r].alone
    <2>1. torn' = Both
      BY <1>9 DEF Sets
    <2> QED
      BY <1>1, <1>3, <1>8, <2>1, TornSaysNothing DEF RowsInv
  <1>10. CASE calls[r].alone
    <2>1. torn' = torn
      BY <1>10 DEF Sets
    <2>2. MoreAlone(calls[r])
      BY <1>10 DEF RowsInv, Alone
    <2>3. \A q \in Slot : calls[q].kind \notin {"archive", "restore"} \cup Fetch
                            /\ calls'[q].kind \notin {"archive", "restore"}
      BY <1>1, <1>10 DEF Fetch
    <2>4. \A k \in {"archive", "restore"} : Stored(k) = {} /\ Stored(k)' = {}
      BY <2>3 DEF Stored
    <2>5. /\ "history" \notin torn => Range(history) \cap Range(shelf) = {}
          /\ "archived" \notin torn => Range(archived) \subseteq Range(shelf)
      BY <2>4 DEF RowsInv, Apart
    <2>6. /\ news = 0 /\ "history" \notin torn => IsPrefix(history, Rows("history"))
          /\ archivedLoaded /\ "archived" \notin torn => IsPrefix(archived, shelf)
      BY <2>3, <2>4 DEF RowsInv, Known
    <2>7. Rows("history")' = Rows("history")
      BY DEF Rows
    <2>8. (\A q \in Slot : Alone(calls[q]))'
      BY <1>1 DEF Alone
    <2>9. /\ Rows("history") \in Seq(Task) /\ Rows("archived") = shelf
          /\ shelf \in Seq(Task) /\ PageSize \in Nat
      BY RowsAreDone DEF RowsInv, RowsShape, Both, HistoryAssumption
    <2>10. /\ "history" \notin torn => Range(history') \cap Range(shelf) = {}
           /\ "archived" \notin torn => Range(archived') \subseteq Range(shelf)
           /\ news = 0 /\ "history" \notin torn => IsPrefix(history', Rows("history"))
           /\ archivedLoaded /\ "archived" \notin torn => IsPrefix(archived', shelf)
      <3>1. CASE calls[r].list = "archived"
        <4>1. calls[r].offset = Len(archived) /\ Len(archived) \in Nat
                /\ calls[r].answer = Page("archived", calls[r].offset)
          BY <1>5, <2>2, <3>1 DEF MoreAlone
        <4>2. calls[r].answer = UpTo(PageSize, SubSeq(shelf, Len(archived) + 1, Len(shelf)))
          BY <2>9, <4>1 DEF Page
        <4> DEFINE page == calls[r].answer
                   offset == Len(archived)
        <4>3. page \in {UpTo(PageSize, SubSeq(shelf, offset + 1, Len(shelf)))} /\ offset \in Nat
          BY <4>1, <4>2
        <4> HIDE DEF page, offset
        <4>4. shelf \in Seq(Task) /\ PageSize \in Nat
          BY <2>9
        <4>5. Range(page) \subseteq Range(shelf)
          BY <4>3, <4>4, PageIsNext
        <4>6. archived \in Seq(Task) /\ Len(archived) = offset
          BY <1>5 DEF offset
        <4>7. IsPrefix(archived, shelf) => IsPrefix(archived \o page, shelf)
          BY <4>3, <4>4, <4>6, PageIsNext
        <4> QED
          BY <1>7, <2>5, <2>6, <3>1, <4>5, <4>7 DEF page
      <3>2. CASE calls[r].list # "archived"
        <4>1. /\ calls[r].offset = Len(history) /\ Len(history) \in Nat
              /\ Range(calls[r].answer) \cap Range(shelf) = {}
              /\ news = 0 => calls[r].answer = Page("history", calls[r].offset)
          BY <1>4, <1>5, <2>2, <3>2 DEF MoreAlone, Both
        <4> DEFINE rows == Rows("history")
        <4>2. news = 0 => calls[r].answer = UpTo(PageSize, SubSeq(rows, Len(history) + 1, Len(rows)))
          BY <4>1 DEF Page
        <4>3. rows \in Seq(Task)
          BY <2>9
        <4> HIDE DEF rows
        <4>4. news = 0 /\ IsPrefix(history, rows) => IsPrefix(history \o calls[r].answer, rows)
          BY <1>5, <2>9, <4>1, <4>2, <4>3, PageIsNext
        <4> QED
          BY <1>6, <2>5, <2>6, <3>2, <4>1, <4>4 DEF rows
      <3> QED
        BY <3>1, <3>2
    <2>11. Apart'
      <3>1. torn' = {} => Range(history') \cap Range(archived') = {}
        BY <2>1, <2>10
      <3> QED
        BY <2>1, <2>3, <2>4, <2>10, <3>1 DEF Apart
    <2>12. Known'
      BY <2>1, <2>7, <2>10 DEF Known
    <2> QED
      BY <1>1, <1>3, <1>8, <2>8, <2>11, <2>12 DEF RowsInv
  <1> QED
    BY <1>9, <1>10

(* A batch is archived: its rows leave the main list, and the archived one *)
(* is forgotten (App.tsx:396-414).                                         *)
LEMMA ArchiveApplied ==
    ASSUME RowsInv, NEW r \in Slot, calls[r].kind = "archive", calls[r].pc = "answered",
           history' = Without(historyRef, calls[r].ids), historyRef' = history',
           archived' = <<>>, archivedRef' = <<>>, archivedLoaded' = FALSE,
           Sets(r, {"archived"}), End(r),
           UNCHANGED <<done, shelf, news>>
    PROVE  RowsInv'
PROOF
  <1>1. /\ CallsShape' /\ calls'[r] = NoCall /\ \A q \in Slot : ~ calls'[q].alone
        /\ calls[r].alone => \A q \in Slot : calls'[q].kind = "none"
                                             /\ (q # r => calls[q].kind = "none")
    BY CallsEnd DEF RowsInv
  <1>2. torn' \subseteq Both
    BY DEF RowsInv, RowsShape, Sets
  <1>3. RowsShape'
    BY <1>2 DEF RowsInv, RowsShape
  <1>4. historyRef \in Seq(Task) /\ Range(historyRef) \subseteq Range(done)
    BY DEF RowsInv, ListsShape
  <1>5. history' \in Seq(Task) /\ Range(history') = Range(historyRef) \ calls[r].ids
    BY <1>4, WithoutKeeps
  <1>6. Range(archived') = {} /\ archived' \in Seq(Task)
    BY DEF Range
  <1>7. ListsShape'
    BY <1>4, <1>5, <1>6 DEF ListsShape
  <1>8. CASE ~ calls[r].alone
    <2>1. torn' = Both
      BY <1>8 DEF Sets
    <2> QED
      BY <1>1, <1>3, <1>7, <2>1, TornSaysNothing DEF RowsInv
  <1>9. CASE calls[r].alone
    <2>1. torn' = torn \ {"archived"}
      BY <1>9 DEF Sets
    <2>2. BatchAlone(calls[r])
      BY <1>9 DEF RowsInv, Alone
    <2>3. /\ historyRef = history
          /\ news = 0 /\ "history" \notin torn => IsPrefix(history', Rows("history"))
      BY <2>2 DEF BatchAlone
    <2>4. \A q \in Slot : calls'[q].kind \notin {"archive", "restore"}
      BY <1>1, <1>9
    <2>5. Stored("archive") \subseteq {r} /\ \A k \in {"archive", "restore"} : Stored(k)' = {}
      BY <1>1, <1>9, <2>4 DEF Stored
    <2>6. "history" \notin torn => Range(history') \cap Range(shelf) = {}
      BY <1>5, <2>3, <2>5 DEF RowsInv, Apart
    <2>7. "history" \notin torn' => "history" \notin torn
      BY <2>1
    <2>8. Apart'
      BY <1>6, <2>4, <2>5, <2>6, <2>7 DEF Apart
    <2>9. (\A q \in Slot : Alone(calls[q]))'
      BY <1>1 DEF Alone
    <2>10. Rows("history")' = Rows("history")
      BY DEF Rows
    <2>11. Known'
      BY <2>3, <2>7, <2>10 DEF Known
    <2> QED
      BY <1>1, <1>3, <1>7, <2>8, <2>9, <2>11 DEF RowsInv
  <1> QED
    BY <1>8, <1>9

(* A batch is restored: its rows leave the archived list, and the main one *)
(* is fetched again (App.tsx:418-440).                                     *)
LEMMA RestoreApplied ==
    ASSUME RowsInv, NEW r \in Slot, calls[r].kind = "restore", calls[r].pc = "answered",
           archived' = Without(archivedRef, calls[r].ids), archivedRef' = archived',
           Sets(r, {}),
           calls' = [calls EXCEPT ![r] = [Call("reload", "history") EXCEPT !.alone = calls[r].alone]],
           UNCHANGED <<done, shelf, news, history, historyRef, archivedLoaded>>
    PROVE  RowsInv'
PROOF
  <1> DEFINE reload == [Call("reload", "history") EXCEPT !.alone = calls[r].alone]
  <1>1. /\ reload \in Request /\ reload.kind = "reload" /\ reload.pc = "asked" /\ reload.answer = <<>>
        /\ reload.ids = {} /\ reload.list = "history" /\ reload.offset = 0
        /\ reload.alone = calls[r].alone
    <2>1. Call("reload", "history") \in Request
      BY NoCallShape DEF Call, Request, Fetch, Both
    <2>2. /\ Call("reload", "history").kind = "reload" /\ Call("reload", "history").pc = "asked"
          /\ Call("reload", "history").answer = <<>> /\ Call("reload", "history").ids = {}
          /\ Call("reload", "history").list = "history" /\ Call("reload", "history").offset = 0
      BY DEF Call, NoCall
    <2>3. calls[r].alone \in BOOLEAN
      BY DEF RowsInv, CallsShape, Request
    <2> QED
      BY <2>1, <2>2, <2>3, MarkedCall
  <1> HIDE DEF reload
  <1>2. Range(reload.answer) = {} /\ Asks(reload)
    <2>1. Len(reload.answer) = 0
      BY <1>1
    <2>2. 0 <= PageSize
      BY HistoryAssumption DEF HistoryAssumption
    <2> QED
      BY <1>1, <2>1, <2>2 DEF Asks, Fetch, Range
  <1>3. Becomes(r, reload)
    BY <1>1, <1>2 DEF Becomes, reload
  <1>4. /\ CallsShape' /\ calls'[r] = reload
        /\ \A q \in Slot : q # r => calls'[q] = calls[q] /\ ~ calls[q].alone
        /\ calls[r].alone => \A q \in Slot : q # r => calls[q].kind = "none" /\ calls[q].pc = "none"
    BY <1>3, CallsBecome DEF RowsInv
  <1>5. torn' = (IF calls[r].alone THEN torn ELSE Both) /\ torn' \subseteq Both
    BY DEF RowsInv, RowsShape, Sets
  <1>6. RowsShape'
    BY <1>5 DEF RowsInv, RowsShape
  <1>7. archivedRef \in Seq(Task) /\ Range(archivedRef) \subseteq Range(done)
    BY DEF RowsInv, ListsShape
  <1>8. archived' \in Seq(Task) /\ Range(archived') = Range(archivedRef) \ calls[r].ids
    BY <1>7, WithoutKeeps
  <1>9. ListsShape'
    BY <1>7, <1>8 DEF RowsInv, ListsShape
  <1>10. (\A q \in Slot : Alone(calls[q]))'
    BY <1>1, <1>4 DEF Alone, Fetch
  <1>11. CASE ~ calls[r].alone
    BY <1>1, <1>4, <1>5, <1>6, <1>9, <1>11, TornSaysNothing DEF RowsInv
  <1>12. CASE calls[r].alone
    <2>1. torn' = torn
      BY <1>5, <1>12
    <2>2. BatchAlone(calls[r])
      BY <1>12 DEF RowsInv, Alone
    <2>3. /\ archivedRef = archived
          /\ archivedLoaded /\ "archived" \notin torn => IsPrefix(archived', shelf)
      BY <2>2 DEF BatchAlone
    <2>4. \A q \in Slot : calls'[q].kind \notin {"archive", "restore"}
      BY <1>1, <1>4, <1>12
    <2>5. /\ Stored("archive") = {} /\ Stored("restore") \subseteq {r}
          /\ \A k \in {"archive", "restore"} : Stored(k)' = {}
      BY <1>4, <1>12, <2>4 DEF Stored
    <2>6. /\ "archived" \notin torn => Range(archived') \subseteq Range(shelf)
          /\ "history" \notin torn => Range(history) \cap Range(shelf) = {}
      BY <1>8, <2>3, <2>5 DEF RowsInv, Apart
    <2>7. torn = {} => Range(history) \cap Range(archived') = {}
      BY <2>6
    <2>8. Apart'
      BY <2>1, <2>4, <2>5, <2>6, <2>7 DEF Apart
    <2>9. calls'[r].kind \in Fetch
      BY <1>1, <1>4 DEF Fetch
    <2>10. Known'
      BY <2>1, <2>3, <2>9 DEF Known
    <2> QED
      BY <1>4, <1>6, <1>9, <1>10, <2>8, <2>10 DEF RowsInv
  <1> QED
    BY <1>11, <1>12

(* A request that fails, is refused or copies sets no list; what a fetch   *)
(* would have set, or a batch that was stored, the lists then lack.        *)
LEMMA EndKeeps ==
    ASSUME RowsInv, NEW r \in Slot, calls[r].kind # "none", End(r),
           torn' = IF Harmless(calls[r]) THEN torn ELSE Both,
           UNCHANGED <<done, shelf, news, history, historyRef, archived, archivedRef, archivedLoaded>>
    PROVE  RowsInv'
PROOF
  <1>1. /\ CallsShape' /\ calls'[r] = NoCall /\ \A q \in Slot : ~ calls'[q].alone
        /\ \A q \in Slot : q # r => calls'[q] = calls[q]
    BY CallsEnd DEF RowsInv
  <1>2. RowsShape' /\ ListsShape'
    BY DEF RowsInv, RowsShape, ListsShape
  <1>3. CASE ~ Harmless(calls[r])
    <2>1. torn' = Both
      BY <1>3
    <2> QED
      BY <1>1, <1>2, <2>1, TornSaysNothing DEF RowsInv
  <1>4. CASE Harmless(calls[r])
    <2>1. torn' = torn
      BY <1>4
    <2>2. calls[r].kind \notin Fetch /\ ~ (calls[r].kind \in {"archive", "restore"} /\ calls[r].pc = "answered")
      BY <1>4 DEF Harmless, Fetch
    <2>3. \A q \in Slot : q = r \/ calls'[q] = calls[q]
      BY <1>1
    <2>4. calls'[r].kind = "none"
      BY <1>1, NoCallShape
    <2>5. /\ \A k \in {"archive", "restore"} : Stored(k)' = Stored(k)
          /\ \A q \in Slot : calls[q].kind \in Fetch => calls'[q].kind \in Fetch
      BY <2>2, <2>3, <2>4 DEF Stored
    <2>6. \A q \in Slot : calls'[q].kind \in {"archive", "restore"} => calls'[q] = calls[q]
      BY <2>3, <2>4
    <2>7. \A k \in {"archive", "restore"} : \A q \in Stored(k)' : calls'[q] = calls[q]
      BY <2>6 DEF Stored
    <2>8. Apart'
      <3>1. Stored("archive")' = Stored("archive") /\ Stored("restore")' = Stored("restore")
        BY <2>5
      <3>2. \A q \in Stored("archive") \cup Stored("restore") : calls'[q] = calls[q]
        BY <2>7, <3>1
      <3>3. /\ "history" \notin torn =>
                 \A t \in Range(history) \cap Range(shelf) : \E q \in Stored("archive") : t \in calls'[q].ids
            /\ "archived" \notin torn =>
                 \A t \in Range(archived) \ Range(shelf) : \E q \in Stored("restore") : t \in calls'[q].ids
        BY <3>2 DEF RowsInv, Apart
      <3>4. torn = {} =>
                 /\ Range(history) \cap Range(archived) = {}
                 /\ \A q \in Slot :
                     /\ calls'[q].kind = "archive" => calls'[q].ids \subseteq Range(history)
                     /\ calls'[q].kind = "restore" => calls'[q].ids \subseteq Range(archived)
                 /\ \A q \in Stored("archive") : calls'[q].ids \subseteq Range(shelf)
                 /\ \A q \in Stored("restore") : calls'[q].ids \cap Range(shelf) = {}
        BY <2>6, <3>2 DEF RowsInv, Apart
      <3> QED
        BY <2>1, <3>1, <3>3, <3>4 DEF Apart
    <2>9. (\A q \in Slot : Alone(calls[q]))'
      BY <1>1 DEF Alone
    <2>10. Rows("history")' = Rows("history")
      BY DEF Rows
    <2>11. Known'
      BY <2>1, <2>5, <2>10 DEF RowsInv, Known
    <2> QED
      BY <1>1, <1>2, <2>8, <2>9, <2>11 DEF RowsInv
  <1> QED
    BY <1>3, <1>4

(* What only the reader, a selection or a ref is about changes no list.    *)
LEMMA QuietKeeps ==
    ASSUME RowsInv,
           \/ UNCHANGED <<historyRef, archivedRef>>
           \/ historyRef' = history /\ archivedRef' = archived,
           UNCHANGED <<done, shelf, news, torn, calls, history, archived, archivedLoaded>>
    PROVE  RowsInv'
PROOF
  <1>1. RowsShape' /\ ListsShape' /\ CallsShape'
    BY DEF RowsInv, RowsShape, ListsShape, CallsShape, Asks
  <1>2. Apart'
    BY DEF RowsInv, Apart, Stored
  <1>3. /\ Rows("history")' = Rows("history")
        /\ \A list, offset : Page(list, offset)' = Page(list, offset)
    BY DEF Rows, Page, UpTo
  <1>4. Known'
    BY <1>3 DEF RowsInv, Known, Stored
  <1>5. (\A q \in Slot : Alone(calls[q]))'
    <2> SUFFICES ASSUME NEW q \in Slot PROVE Alone(calls[q])'
      OBVIOUS
    <2>1. Alone(calls[q])
      BY DEF RowsInv
    <2>2. FetchedAlone(calls[q])' = FetchedAlone(calls[q]) /\ MoreAlone(calls[q])' = MoreAlone(calls[q])
      BY <1>3 DEF FetchedAlone, MoreAlone
    <2>3. BatchAlone(calls[q]) => BatchAlone(calls[q])'
      BY <1>3 DEF BatchAlone
    <2> QED
      BY <2>1, <2>2, <2>3 DEF Alone
  <1> QED
    BY <1>1, <1>2, <1>4, <1>5 DEF RowsInv

(* What is asked for by a request that begins: it is asked when the refs   *)
(* are up to date, unless it fetches or copies.                            *)
Asking(call) ==
    /\ call \in Request /\ Asks(call) /\ call.pc = "asked" /\ call.kind # "none"
    /\ call.answer = <<>> /\ call.ids \subseteq Range(done)
    /\ call.kind = "more" => call.offset = Len(IF call.list = "archived" THEN archived ELSE history)
    /\ call.kind \in {"archive", "restore"} => historyRef = history /\ archivedRef = archived
    /\ call.kind = "archive" => call.ids \subseteq Range(history)
    /\ call.kind = "restore" => call.ids \subseteq Range(archived)

(* A request that begins knows what the lists are; those in flight with it *)
(* are no longer alone, and so nothing is claimed of them.                 *)
LEMMA StartKeeps ==
    ASSUME RowsInv, NEW r \in Slot, NEW call, Asking(call), Start(r, call),
           news' \in Nat, news' = news \/ call.kind \in Fetch,
           UNCHANGED <<done, shelf, torn, history, historyRef, archived, archivedRef, archivedLoaded>>
    PROVE  RowsInv'
PROOF
  <1>1. call \in Request /\ call.kind # "none" /\ call.pc = "asked" /\ Asks(call)
          /\ Range(call.answer) \cup call.ids \subseteq Range(done)
    <2>1. Range(<<>>) = {}
      BY DEF Range
    <2> QED
      BY <2>1 DEF Asking
  <1>2. /\ CallsShape' /\ calls[r] = NoCall
        /\ calls'[r].kind = call.kind /\ calls'[r].pc = "asked" /\ calls'[r].list = call.list
        /\ calls'[r].ids = call.ids /\ calls'[r].offset = call.offset
        /\ \A q \in Slot : q # r =>
             /\ calls'[q].kind = calls[q].kind /\ calls'[q].pc = calls[q].pc
             /\ calls'[q].ids = calls[q].ids /\ ~ calls'[q].alone
    BY <1>1, CallsStart DEF RowsInv
  <1>3. RowsShape' /\ ListsShape'
    BY DEF RowsInv, RowsShape, ListsShape
  <1>4. calls[r].kind = "none" /\ calls[r].pc = "none"
    BY <1>2, NoCallShape
  <1>5. Stored("archive")' = Stored("archive") /\ Stored("restore")' = Stored("restore")
    <2>1. \A q \in Slot : calls'[q].pc = "answered" <=> calls[q].pc = "answered"
      BY <1>2, <1>4
    <2>2. \A q \in Slot : calls[q].pc = "answered" => calls'[q].kind = calls[q].kind
      BY <1>2, <1>4
    <2> QED
      BY <2>1, <2>2 DEF Stored
  <1>6. \A q \in Stored("archive") \cup Stored("restore") : calls'[q].ids = calls[q].ids
    BY <1>2, <1>4 DEF Stored
  <1>7. Apart'
    <2>1. /\ "history" \notin torn =>
               \A t \in Range(history) \cap Range(shelf) : \E q \in Stored("archive") : t \in calls'[q].ids
          /\ "archived" \notin torn =>
               \A t \in Range(archived) \ Range(shelf) : \E q \in Stored("restore") : t \in calls'[q].ids
      BY <1>6 DEF RowsInv, Apart
    <2>2. torn = {} =>
               /\ \A q \in Stored("archive") : calls'[q].ids \subseteq Range(shelf)
               /\ \A q \in Stored("restore") : calls'[q].ids \cap Range(shelf) = {}
      BY <1>6 DEF RowsInv, Apart
    <2>3. torn = {} =>
               \A q \in Slot :
                 /\ calls'[q].kind = "archive" => calls'[q].ids \subseteq Range(history)
                 /\ calls'[q].kind = "restore" => calls'[q].ids \subseteq Range(archived)
      <3> SUFFICES ASSUME torn = {}, NEW q \in Slot
                   PROVE  /\ calls'[q].kind = "archive" => calls'[q].ids \subseteq Range(history)
                          /\ calls'[q].kind = "restore" => calls'[q].ids \subseteq Range(archived)
        OBVIOUS
      <3>1. CASE q = r
        BY <1>2, <3>1 DEF Asking
      <3>2. CASE q # r
        BY <1>2, <3>2 DEF RowsInv, Apart
      <3> QED
        BY <3>1, <3>2
    <2> QED
      BY <1>5, <2>1, <2>2, <2>3 DEF RowsInv, Apart
  <1>8. Rows("history")' = Rows("history")
    BY DEF Rows
  <1>9. Known'
    <2>1. \A q \in Slot : calls[q].kind \in Fetch => calls'[q].kind \in Fetch
      BY <1>2, <1>4 DEF Fetch
    <2>2. news' = news \/ calls'[r].kind \in Fetch
      BY <1>2
    <2> QED
      BY <1>5, <1>8, <2>1, <2>2 DEF RowsInv, Known
  <1>10. (\A q \in Slot : Alone(calls[q]))'
    <2> SUFFICES ASSUME NEW q \in Slot, q = r PROVE Alone(calls[q])'
      BY <1>2 DEF Alone
    <2>1. MoreAlone(calls[q])' \/ calls'[q].kind # "more"
      <3>1. calls'[r].kind = "more" => calls'[r].list \in Both
        BY <1>1, <1>2 DEF Asks
      <3> QED
        BY <1>2, <3>1 DEF Asking, MoreAlone, Both
    <2>2. BatchAlone(calls[q])' \/ calls'[q].kind \notin {"archive", "restore"}
      BY <1>2 DEF Asking, BatchAlone
    <2> QED
      BY <1>2, <2>1, <2>2 DEF Alone
  <1> QED
    BY <1>2, <1>3, <1>7, <1>9, <1>10 DEF RowsInv

(* A page is a list of completed tasks of the kind it was asked for.       *)
LEMMA PageRows ==
    ASSUME HistoryAssumption, RowsShape, NEW list \in Both, NEW offset \in Nat
    PROVE  Page(list, offset) \in Seq(Task)
PROOF
  <1> DEFINE rows == Rows(list)
             page == Page(list, offset)
  <1>1. page \in {UpTo(PageSize, SubSeq(rows, offset + 1, Len(rows)))}
    BY DEF Page
  <1>2. rows \in Seq(Task) /\ PageSize \in Nat
    BY RowsAreDone DEF HistoryAssumption
  <1> HIDE DEF rows, page
  <1>3. page \in Seq(Task)
    BY <1>1, <1>2, PageIsNext, ZenonT(30)
  <1> QED
    BY <1>3 DEF page

(* The daemon answers a fetch with what its list is at that moment.        *)
LEMMA PageAnswered ==
    ASSUME HistoryAssumption, RowsInv, NEW r \in Slot, NEW call \in Request,
           calls[r].kind \in Fetch \cup {"open", "more"},
           call.kind = calls[r].kind, call.pc = "answered", call.list = calls[r].list,
           call.ids = calls[r].ids, call.offset = calls[r].offset, call.alone = calls[r].alone,
           call.answer = Page(call.list, call.offset),
           calls' = [calls EXCEPT ![r] = call],
           UNCHANGED <<done, shelf, news, torn, history, historyRef, archived, archivedRef,
                       archivedLoaded>>
    PROVE  RowsInv'
PROOF
  <1> DEFINE list == call.list
             offset == call.offset
             rows == Rows(list)
             page == Page(list, offset)
  <1>1. calls \in [Slot -> Request] /\ calls[r] \in Request /\ Asks(calls[r])
    BY DEF RowsInv, CallsShape
  <1>2. calls[r].kind \in Fetch \cup {"open", "more"}
    OBVIOUS
  <1>3. list \in Both /\ offset \in Nat /\ PageSize \in Nat
    BY <1>1, <1>2, HistoryAssumption DEF Asks, Both, Request, HistoryAssumption
  <1>4. rows \in Seq(Task) /\ Range(rows) \subseteq Range(done)
    BY <1>3, RowsAreDone DEF RowsInv
  <1>5. page \in {UpTo(PageSize, SubSeq(rows, offset + 1, Len(rows)))}
    BY DEF Page
  <1> HIDE DEF list, offset, rows, page
  <1>6. page \in Seq(Task) /\ Len(page) <= PageSize /\ Range(page) \subseteq Range(rows)
    BY <1>3, <1>4, <1>5, PageIsNext, ZenonT(30)
  <1>7. offset = 0 => page = UpTo(PageSize, rows) /\ IsPrefix(page, rows)
    <2> SUFFICES ASSUME offset = 0 PROVE page = UpTo(PageSize, rows) /\ IsPrefix(page, rows)
      OBVIOUS
    <2>1. page = UpTo(PageSize, SubSeq(rows, 1, Len(rows)))
      BY <1>5
    <2>2. SubSeq(rows, 1, Len(rows)) = rows
      BY <1>4, FirstElements
    <2>3. IsPrefix(UpTo(PageSize, rows), rows)
      BY <1>3, <1>4, FirstPage
    <2> QED
      BY <2>1, <2>2, <2>3
  <1>8. /\ call.kind = calls[r].kind /\ call.pc = "answered" /\ call.list = list
        /\ call.offset = offset /\ call.ids = calls[r].ids /\ call.answer = page
        /\ call.alone = calls[r].alone
    BY DEF list, offset, page
  <1>9. calls' = [calls EXCEPT ![r] = call]
    OBVIOUS
  <1>10. Becomes(r, call)
    <2>1. Asks(call)
      BY <1>1, <1>2, <1>6, <1>8 DEF Asks, Fetch, list, offset
    <2>2. Range(call.answer) \cup call.ids \subseteq Range(done)
      BY <1>4, <1>6, <1>8 DEF RowsInv, CallsShape
    <2>3. calls[r].kind # "none"
      BY <1>2 DEF Fetch
    <2> QED
      BY <1>8, <1>9, <2>1, <2>2, <2>3 DEF Becomes
  <1>11. /\ CallsShape' /\ calls'[r] = call
         /\ \A q \in Slot : q # r => calls'[q] = calls[q] /\ ~ calls[q].alone
    BY <1>10, CallsBecome DEF RowsInv
  <1>12. RowsShape' /\ ListsShape'
    BY DEF RowsInv, RowsShape, ListsShape
  <1>13. calls[r].kind \notin {"archive", "restore"} /\ calls'[r].kind = calls[r].kind
    BY <1>2, <1>8, <1>11 DEF Fetch
  <1>14. \A q \in Slot : calls'[q].kind = calls[q].kind /\ (q # r => calls'[q] = calls[q])
    BY <1>11, <1>13
  <1>15. \A k \in {"archive", "restore"} : Stored(k)' = Stored(k)
    BY <1>13, <1>14 DEF Stored
  <1>16. Apart'
    <2>1. \A q \in Slot : calls[q].kind \in {"archive", "restore"} => calls'[q] = calls[q]
      BY <1>13, <1>14
    <2>2. \A q \in Stored("archive") \cup Stored("restore") : calls'[q] = calls[q]
      BY <2>1 DEF Stored
    <2>3. Stored("archive")' = Stored("archive") /\ Stored("restore")' = Stored("restore")
      BY <1>15
    <2>4. "history" \notin torn =>
              \A t \in Range(history) \cap Range(shelf) : \E q \in Stored("archive") : t \in calls'[q].ids
      BY <2>2 DEF RowsInv, Apart
    <2>5. "archived" \notin torn =>
              \A t \in Range(archived) \ Range(shelf) : \E q \in Stored("restore") : t \in calls'[q].ids
      BY <2>2 DEF RowsInv, Apart
    <2>6. torn = {} =>
              /\ Range(history) \cap Range(archived) = {}
              /\ \A q \in Stored("archive") : calls'[q].ids \subseteq Range(shelf)
              /\ \A q \in Stored("restore") : calls'[q].ids \cap Range(shelf) = {}
      BY <2>2 DEF RowsInv, Apart
    <2>7. torn = {} =>
              \A q \in Slot :
                 /\ calls'[q].kind = "archive" => calls'[q].ids \subseteq Range(history)
                 /\ calls'[q].kind = "restore" => calls'[q].ids \subseteq Range(archived)
      BY <1>14, <2>1 DEF RowsInv, Apart
    <2>8. torn' = torn /\ history' = history /\ archived' = archived /\ shelf' = shelf
      OBVIOUS
    <2> QED
      BY <2>3, <2>4, <2>5, <2>6, <2>7, <2>8 DEF Apart
  <1>17. Rows("history")' = Rows("history")
    BY DEF Rows
  <1>18. Known'
    BY <1>14, <1>15, <1>17 DEF RowsInv, Known
  <1>19. (\A q \in Slot : Alone(calls[q]))'
    <2> SUFFICES ASSUME call.alone PROVE Alone(calls[r])'
      BY <1>11 DEF Alone
    <2>1. Alone(calls[r]) /\ calls[r].alone
      BY <1>8 DEF RowsInv
    <2>2. call.kind \in Fetch => FetchedAlone(calls[r])'
      <3> SUFFICES ASSUME call.kind \in Fetch PROVE FetchedAlone(calls[r])'
        OBVIOUS
      <3>1. list = "history" /\ offset = 0
        BY <1>1, <1>8 DEF Asks, list, offset
      <3>2. call.answer = UpTo(PageSize, Rows("history")) /\ IsPrefix(call.answer, Rows("history"))
        BY <1>7, <1>8, <3>1 DEF rows
      <3>3. Range(call.answer) \cap Range(shelf) = {}
        BY <1>6, <1>8, <3>1, RowsAreDone DEF RowsInv, rows
      <3>4. ASSUME NEW t \in Range(history) \ Range(call.answer), t \notin Range(shelf)
            PROVE  t \in Range(SubSeq(done, PageSize + 1, Len(done)))
        <4>1. done \in Seq(Task) /\ t \in Range(done)
          BY DEF RowsInv, RowsShape, ListsShape
        <4>2. Rows("history") = Without(done, Range(shelf))
                /\ Range(Rows("history")) = Range(done) \ Range(shelf)
          BY RowsAreDone DEF RowsInv
        <4>3. t \in Range(Without(done, Range(shelf)))
                      \ Range(UpTo(PageSize, Without(done, Range(shelf))))
          BY <3>2, <3>4, <4>1, <4>2
        <4> QED
          BY <1>3, <4>1, <4>3, PushedOut
      <3> QED
        BY <1>11, <1>17, <3>2, <3>3, <3>4 DEF FetchedAlone
    <2>3. call.kind = "open" => IsPrefix(call.answer, shelf)
      <3> SUFFICES ASSUME call.kind = "open" PROVE IsPrefix(call.answer, shelf)
        OBVIOUS
      <3>1. list = "archived" /\ offset = 0
        BY <1>1, <1>8 DEF Asks, list, offset
      <3> QED
        BY <1>7, <1>8, <3>1 DEF Rows, rows
    <2>4. call.kind = "more" => MoreAlone(calls[r])'
      <3> SUFFICES ASSUME call.kind = "more" PROVE MoreAlone(calls[r])'
        OBVIOUS
      <3>1. MoreAlone(calls[r])
        BY <1>8, <2>1 DEF Alone
      <3>2. /\ list = "archived" => offset = Len(archived)
            /\ list = "history" => offset = Len(history)
        BY <3>1 DEF MoreAlone, list, offset
      <3>3. list = "history" => Range(call.answer) \cap Range(shelf) = {}
        BY <1>6, <1>8, RowsAreDone DEF RowsInv, rows
      <3>4. call.answer = Page(call.list, call.offset) /\ call.list = list /\ call.offset = offset
        BY <1>8 DEF page
      <3>5. \A l, o : Page(l, o)' = Page(l, o)
        BY DEF Page, Rows, UpTo
      <3> QED
        BY <1>11, <3>2, <3>3, <3>4, <3>5 DEF MoreAlone
    <2>5. call.kind \notin {"archive", "restore"}
      BY <1>2, <1>8 DEF Fetch
    <2> QED
      BY <1>11, <2>2, <2>3, <2>4, <2>5 DEF Alone
  <1> QED
    BY <1>11, <1>12, <1>16, <1>18, <1>19 DEF RowsInv

(* The daemon stores a batch.                                              *)
BatchStored(r, call) ==
    /\ calls[r].pc = "asked" /\ call \in Request /\ call.pc = "answered"
    /\ call.kind = calls[r].kind /\ call.list = calls[r].list /\ call.ids = calls[r].ids
    /\ call.offset = calls[r].offset /\ call.answer = calls[r].answer /\ call.alone = calls[r].alone
    /\ calls' = [calls EXCEPT ![r] = call]

(* What was stored, and what is stored with it.                            *)
LEMMA BatchCalls ==
    ASSUME CallsShape, NEW r \in Slot, NEW call, calls[r].kind \in {"archive", "restore"},
           BatchStored(r, call), UNCHANGED done
    PROVE  /\ CallsShape' /\ calls[r].ids \subseteq Range(done)
           /\ \A q \in Slot : /\ calls'[q].kind = calls[q].kind /\ calls'[q].ids = calls[q].ids
                              /\ q # r => calls'[q] = calls[q] /\ ~ calls[q].alone
           /\ calls'[r].alone = calls[r].alone /\ calls'[r].pc = "answered"
           /\ calls[r].alone => \A q \in Slot : q # r => calls[q].kind = "none"
           /\ r \notin Stored("archive") \cup Stored("restore")
           /\ \A k \in {"archive", "restore"} :
                Stored(k)' = IF calls[r].kind = k THEN Stored(k) \cup {r} ELSE Stored(k)
PROOF
  <1>1. Asks(call) /\ Range(call.answer) \cup call.ids \subseteq Range(done)
    BY DEF BatchStored, CallsShape, Asks, Fetch
  <1>2. Becomes(r, call)
    BY <1>1 DEF BatchStored, Becomes
  <1>3. /\ CallsShape' /\ calls'[r] = call
        /\ \A q \in Slot : q # r => calls'[q] = calls[q] /\ ~ calls[q].alone
        /\ calls[r].alone => \A q \in Slot : q # r => calls[q].kind = "none"
    BY <1>2, CallsBecome
  <1>4. \A q \in Slot : calls'[q].kind = calls[q].kind /\ calls'[q].ids = calls[q].ids
    BY <1>3 DEF BatchStored
  <1>5. calls[r].pc = "asked" /\ calls'[r].pc = "answered" /\ calls'[r].alone = calls[r].alone
    BY <1>3 DEF BatchStored
  <1>6. \A k \in {"archive", "restore"} :
            Stored(k)' = IF calls[r].kind = k THEN Stored(k) \cup {r} ELSE Stored(k)
    <2> SUFFICES ASSUME NEW k \in {"archive", "restore"}, NEW q \in Slot
                 PROVE  q \in Stored(k)' <=>
                          q \in (IF calls[r].kind = k THEN Stored(k) \cup {r} ELSE Stored(k))
      BY DEF Stored
    <2>1. CASE q = r
      BY <1>4, <1>5, <2>1 DEF Stored
    <2>2. CASE q # r
      BY <1>3, <2>2 DEF Stored
    <2> QED
      BY <2>1, <2>2
  <1>7. r \notin Stored("archive") \cup Stored("restore")
    BY <1>5 DEF Stored
  <1>8. calls[r].ids \subseteq Range(done)
    BY <1>1 DEF BatchStored
  <1> QED
    BY <1>3, <1>4, <1>5, <1>6, <1>7, <1>8

(* The rows of a batch are off the main list for the daemon before they    *)
(* are for the tab; so its answer, on the way, is what makes up for it     *)
(* (service.go:293, App.tsx:400).                                          *)
LEMMA ArchiveStored ==
    ASSUME RowsInv, NEW r \in Slot, NEW call, calls[r].kind = "archive", BatchStored(r, call),
           Shelve(calls[r].ids),
           UNCHANGED <<done, news, torn, history, historyRef, archived, archivedRef, archivedLoaded>>
    PROVE  RowsInv'
PROOF
  <1> DEFINE ids == calls[r].ids
  <1>1. /\ CallsShape' /\ ids \subseteq Range(done)
        /\ \A q \in Slot : /\ calls'[q].kind = calls[q].kind /\ calls'[q].ids = calls[q].ids
                           /\ q # r => calls'[q] = calls[q] /\ ~ calls[q].alone
        /\ calls'[r].alone = calls[r].alone
        /\ calls[r].alone => \A q \in Slot : q # r => calls[q].kind = "none"
        /\ r \notin Stored("archive") \cup Stored("restore")
        /\ Stored("archive")' = Stored("archive") \cup {r} /\ Stored("restore")' = Stored("restore")
    BY BatchCalls DEF RowsInv
  <1>2. /\ shelf' \in Seq(Task) /\ IsInjective(shelf') /\ Range(shelf') = Range(shelf) \cup ids
        /\ Rows("history")' = Without(Rows("history"), ids)
    BY <1>1, ShelveMovesRows DEF RowsInv
  <1>3. RowsShape' /\ ListsShape'
    BY <1>1, <1>2 DEF RowsInv, RowsShape, ListsShape
  <1>4. Apart'
    <2>1. "history" \notin torn =>
              \A t \in Range(history) \cap Range(shelf') :
                  \E q \in Stored("archive")' : t \in calls'[q].ids
      <3> SUFFICES ASSUME "history" \notin torn, NEW t \in Range(history) \cap Range(shelf')
                   PROVE  \E q \in Stored("archive")' : t \in calls'[q].ids
        OBVIOUS
      <3>1. CASE t \in ids
        BY <1>1, <3>1
      <3>2. CASE t \notin ids
        <4>1. t \in Range(history) \cap Range(shelf)
          BY <1>2, <3>2
        <4>2. PICK q \in Stored("archive") : t \in calls[q].ids
          BY <4>1 DEF RowsInv, Apart
        <4>3. q \in Stored("archive")' /\ calls'[q].ids = calls[q].ids
          BY <1>1 DEF Stored
        <4> QED
          BY <4>2, <4>3
      <3> QED
        BY <3>1, <3>2
    <2>2. "archived" \notin torn =>
              \A t \in Range(archived) \ Range(shelf') :
                  \E q \in Stored("restore")' : t \in calls'[q].ids
      <3>1. \A q \in Stored("restore") : calls'[q].ids = calls[q].ids
        BY <1>1 DEF Stored
      <3> QED
        BY <1>1, <1>2, <3>1 DEF RowsInv, Apart
    <2>3. ASSUME torn = {}
          PROVE  /\ Range(history) \cap Range(archived) = {}
                 /\ \A q \in Slot :
                     /\ calls'[q].kind = "archive" => calls'[q].ids \subseteq Range(history)
                     /\ calls'[q].kind = "restore" => calls'[q].ids \subseteq Range(archived)
                 /\ \A q \in Stored("archive")' : calls'[q].ids \subseteq Range(shelf')
                 /\ \A q \in Stored("restore")' : calls'[q].ids \cap Range(shelf') = {}
      <3>1. /\ Range(history) \cap Range(archived) = {}
            /\ \A q \in Slot :
                 /\ calls[q].kind = "archive" => calls[q].ids \subseteq Range(history)
                 /\ calls[q].kind = "restore" => calls[q].ids \subseteq Range(archived)
            /\ \A q \in Stored("archive") : calls[q].ids \subseteq Range(shelf)
            /\ \A q \in Stored("restore") : calls[q].ids \cap Range(shelf) = {}
        BY <2>3 DEF RowsInv, Apart
      <3>2. ids \subseteq Range(history)
        BY <3>1
      <3>3. \A q \in Stored("restore") : q \in Slot /\ calls[q].ids \subseteq Range(archived)
        BY <3>1 DEF Stored
      <3>4. \A q \in Stored("restore") : calls[q].ids \cap ids = {}
        BY <3>1, <3>2, <3>3
      <3>5. \A q \in Stored("restore")' : calls'[q].ids \cap Range(shelf') = {}
        BY <1>1, <1>2, <3>1, <3>3, <3>4
      <3>6. \A q \in Stored("archive")' : calls'[q].ids \subseteq Range(shelf')
        <4>1. \A q \in Stored("archive") : q \in Slot
          BY DEF Stored
        <4> QED
          BY <1>1, <1>2, <3>1, <4>1
      <3> QED
        BY <1>1, <3>1, <3>5, <3>6
    <2>4. torn' = torn /\ history' = history /\ archived' = archived
      OBVIOUS
    <2> HIDE DEF ids
    <2> QED
      BY <2>1, <2>2, <2>3, <2>4 DEF Apart
  <1>5. r \in Stored("archive")'
    BY <1>1
  <1>6. Known'
    BY <1>5 DEF Known
  <1>7. (\A q \in Slot : Alone(calls[q]))'
    <2> SUFFICES ASSUME calls[r].alone PROVE BatchAlone(calls[r])'
      BY <1>1 DEF Alone, Fetch
    <2>1. BatchAlone(calls[r])
      BY DEF RowsInv, Alone
    <2>2. ASSUME news = 0, "history" \notin torn
          PROVE  IsPrefix(Without(history, ids), Rows("history")')
      <3>1. \A q \in Slot : calls[q].kind \notin Fetch
        BY <1>1 DEF Fetch
      <3>2. Stored("archive") \cup Stored("restore") = {}
        BY <1>1 DEF Stored
      <3>3. IsPrefix(history, Rows("history"))
        BY <2>2, <3>1, <3>2 DEF RowsInv, Known
      <3>4. history \in Seq(Task) /\ Rows("history") \in Seq(Task)
        BY RowsAreDone DEF RowsInv, ListsShape, Both
      <3> QED
        BY <1>2, <3>3, <3>4, WithoutPrefix
    <2>3. historyRef' = history' /\ archivedRef' = archived'
      BY <2>1 DEF BatchAlone
    <2>4. calls'[r].kind = "archive" /\ calls'[r].ids = ids
      BY <1>1
    <2> HIDE DEF ids
    <2> QED
      BY <2>2, <2>3, <2>4 DEF BatchAlone
  <1> QED
    BY <1>1, <1>3, <1>4, <1>6, <1>7 DEF RowsInv

(* The same of a batch that is restored.                                   *)
LEMMA RestoreStored ==
    ASSUME RowsInv, NEW r \in Slot, NEW call, calls[r].kind = "restore", BatchStored(r, call),
           Unshelve(calls[r].ids),
           UNCHANGED <<done, news, torn, history, historyRef, archived, archivedRef, archivedLoaded>>
    PROVE  RowsInv'
PROOF
  <1> DEFINE ids == calls[r].ids
  <1>1. /\ CallsShape' /\ ids \subseteq Range(done)
        /\ \A q \in Slot : /\ calls'[q].kind = calls[q].kind /\ calls'[q].ids = calls[q].ids
                           /\ q # r => calls'[q] = calls[q] /\ ~ calls[q].alone
        /\ calls'[r].alone = calls[r].alone
        /\ calls[r].alone => \A q \in Slot : q # r => calls[q].kind = "none"
        /\ r \notin Stored("archive") \cup Stored("restore")
        /\ Stored("archive")' = Stored("archive") /\ Stored("restore")' = Stored("restore") \cup {r}
    BY BatchCalls DEF RowsInv
  <1>2. /\ shelf' \in Seq(Task) /\ IsInjective(shelf') /\ Range(shelf') = Range(shelf) \ ids
        /\ shelf' = Without(shelf, ids)
    BY UnshelveMovesRows DEF RowsInv
  <1>3. RowsShape' /\ ListsShape'
    BY <1>1, <1>2 DEF RowsInv, RowsShape, ListsShape
  <1>4. Apart'
    <2>1. "history" \notin torn =>
              \A t \in Range(history) \cap Range(shelf') :
                  \E q \in Stored("archive")' : t \in calls'[q].ids
      <3>1. \A q \in Stored("archive") : calls'[q].ids = calls[q].ids
        BY <1>1 DEF Stored
      <3> QED
        BY <1>1, <1>2, <3>1 DEF RowsInv, Apart
    <2>2. "archived" \notin torn =>
              \A t \in Range(archived) \ Range(shelf') :
                  \E q \in Stored("restore")' : t \in calls'[q].ids
      <3> SUFFICES ASSUME "archived" \notin torn, NEW t \in Range(archived) \ Range(shelf')
                   PROVE  \E q \in Stored("restore")' : t \in calls'[q].ids
        OBVIOUS
      <3>1. CASE t \in ids
        BY <1>1, <3>1
      <3>2. CASE t \notin ids
        <4>1. t \in Range(archived) \ Range(shelf)
          BY <1>2, <3>2
        <4>2. PICK q \in Stored("restore") : t \in calls[q].ids
          BY <4>1 DEF RowsInv, Apart
        <4>3. q \in Stored("restore")' /\ calls'[q].ids = calls[q].ids
          BY <1>1 DEF Stored
        <4> QED
          BY <4>2, <4>3
      <3> QED
        BY <3>1, <3>2
    <2>3. ASSUME torn = {}
          PROVE  /\ Range(history) \cap Range(archived) = {}
                 /\ \A q \in Slot :
                     /\ calls'[q].kind = "archive" => calls'[q].ids \subseteq Range(history)
                     /\ calls'[q].kind = "restore" => calls'[q].ids \subseteq Range(archived)
                 /\ \A q \in Stored("archive")' : calls'[q].ids \subseteq Range(shelf')
                 /\ \A q \in Stored("restore")' : calls'[q].ids \cap Range(shelf') = {}
      <3>1. /\ Range(history) \cap Range(archived) = {}
            /\ \A q \in Slot :
                 /\ calls[q].kind = "archive" => calls[q].ids \subseteq Range(history)
                 /\ calls[q].kind = "restore" => calls[q].ids \subseteq Range(archived)
            /\ \A q \in Stored("archive") : calls[q].ids \subseteq Range(shelf)
            /\ \A q \in Stored("restore") : calls[q].ids \cap Range(shelf) = {}
        BY <2>3 DEF RowsInv, Apart
      <3>2. ids \subseteq Range(archived)
        BY <3>1
      <3>3. \A q \in Stored("archive") : q \in Slot /\ calls[q].ids \subseteq Range(history)
        BY <3>1 DEF Stored
      <3>4. \A q \in Stored("archive") : calls[q].ids \cap ids = {}
        BY <3>1, <3>2, <3>3
      <3>5. \A q \in Stored("archive")' : calls'[q].ids \subseteq Range(shelf')
        BY <1>1, <1>2, <3>1, <3>3, <3>4
      <3>6. \A q \in Stored("restore")' : calls'[q].ids \cap Range(shelf') = {}
        <4>1. \A q \in Stored("restore") : q \in Slot
          BY DEF Stored
        <4> QED
          BY <1>1, <1>2, <3>1, <4>1
      <3> QED
        BY <1>1, <3>1, <3>5, <3>6
    <2>4. torn' = torn /\ history' = history /\ archived' = archived
      OBVIOUS
    <2> HIDE DEF ids
    <2> QED
      BY <2>1, <2>2, <2>3, <2>4 DEF Apart
  <1>5. r \in Stored("restore")'
    BY <1>1
  <1>6. Known'
    BY <1>5 DEF Known
  <1>7. (\A q \in Slot : Alone(calls[q]))'
    <2> SUFFICES ASSUME calls[r].alone PROVE BatchAlone(calls[r])'
      BY <1>1 DEF Alone, Fetch
    <2>1. BatchAlone(calls[r])
      BY DEF RowsInv, Alone
    <2>2. ASSUME archivedLoaded, "archived" \notin torn
          PROVE  IsPrefix(Without(archived, ids), shelf')
      <3>1. Stored("archive") \cup Stored("restore") = {}
        BY <1>1 DEF Stored
      <3>2. IsPrefix(archived, shelf)
        BY <2>2, <3>1 DEF RowsInv, Known
      <3>3. archived \in Seq(Task) /\ shelf \in Seq(Task)
        BY DEF RowsInv, ListsShape, RowsShape
      <3> QED
        BY <1>2, <3>2, <3>3, WithoutPrefix
    <2>3. historyRef' = history' /\ archivedRef' = archived'
      BY <2>1 DEF BatchAlone
    <2>4. calls'[r].kind = "restore" /\ calls'[r].ids = ids
      BY <1>1
    <2> HIDE DEF ids
    <2> QED
      BY <2>2, <2>3, <2>4 DEF BatchAlone
  <1> QED
    BY <1>1, <1>3, <1>4, <1>6, <1>7 DEF RowsInv

-----------------------------------------------------------------------------
(* What happens elsewhere.                                                 *)

(* A completed task that the tab will hear of: until then the main list    *)
(* may lack it.                                                            *)
LEMMA HeardKeeps ==
    ASSUME HistoryAssumption, RowsInv, NEW t \in Task, t \notin Range(done), done' = <<t>> \o done,
           news' = news + 1,
           UNCHANGED <<shelf, torn, calls, history, historyRef, archived, archivedRef, archivedLoaded>>
    PROVE  RowsInv'
PROOF
  <1>1. /\ done' \in Seq(Task) /\ IsInjective(done') /\ Range(done') = {t} \cup Range(done)
        /\ Range(SubSeq(done, PageSize + 1, Len(done)))
             \subseteq Range(SubSeq(done', PageSize + 1, Len(done')))
    BY CompletePushesRows DEF RowsInv
  <1> DEFINE more == done'
  <1> HIDE DEF more
  <1>2. news' \in Nat /\ news' # 0
    BY DEF RowsInv, RowsShape
  <1>3. RowsShape' /\ ListsShape'
    BY <1>1, <1>2 DEF RowsInv, RowsShape, ListsShape
  <1>4. CallsShape'
    BY <1>1 DEF RowsInv, CallsShape, Asks
  <1>5. Apart'
    BY DEF RowsInv, Apart, Stored
  <1>6. Known'
    BY <1>2 DEF RowsInv, Known, Stored
  <1>7. (\A q \in Slot : Alone(calls[q]))'
    <2> SUFFICES ASSUME NEW q \in Slot PROVE Alone(calls[q])'
      OBVIOUS
    <2>1. Alone(calls[q])
      BY DEF RowsInv
    <2>2. FetchedAlone(calls[q]) => FetchedAlone(calls[q])'
      BY <1>1, <1>2 DEF FetchedAlone
    <2>3. \A o : Page("archived", o)' = Page("archived", o)
      BY DEF Page, Rows, UpTo
    <2>4. MoreAlone(calls[q]) => MoreAlone(calls[q])'
      BY <1>2, <2>3 DEF MoreAlone
    <2>5. BatchAlone(calls[q]) => BatchAlone(calls[q])'
      BY <1>2 DEF BatchAlone
    <2> QED
      BY <2>1, <2>2, <2>4, <2>5 DEF Alone
  <1> QED
    BY <1>3, <1>4, <1>5, <1>6, <1>7 DEF RowsInv

(* Something the tab does not hear of: nothing is claimed any more.        *)
LEMMA UnheardKeeps ==
    ASSUME RowsInv, Unheard, RowsShape', Range(done) \subseteq Range(done'),
           UNCHANGED <<history, historyRef, archived, archivedRef, archivedLoaded>>
    PROVE  RowsInv'
PROOF
  <1> DEFINE passed(q) == [calls[q] EXCEPT !.alone = FALSE]
  <1>1. calls \in [Slot -> Request]
    BY DEF RowsInv, CallsShape
  <1>2. ASSUME NEW q \in Slot
        PROVE  /\ passed(q) \in Request /\ ~ passed(q).alone /\ passed(q).ids = calls[q].ids
               /\ passed(q).answer = calls[q].answer /\ Asks(passed(q))
    <2> DEFINE p == passed(q)
    <2> PICK no \in BOOLEAN : no = FALSE
      OBVIOUS
    <2>1. p = [calls[q] EXCEPT !.alone = no] /\ calls[q] \in Request
      BY <1>1
    <2> HIDE DEF p
    <2>2. /\ p \in Request /\ p.alone = no /\ p.kind = calls[q].kind /\ p.pc = calls[q].pc
          /\ p.list = calls[q].list /\ p.ids = calls[q].ids /\ p.offset = calls[q].offset
          /\ p.answer = calls[q].answer
      BY <2>1, MarkedCall
    <2>3. calls[q] = NoCall => p = NoCall
      <3>1. [NoCall EXCEPT !.alone = FALSE] = NoCall
        BY <2>1, MarkedCall
      <3>2. calls[q] = NoCall => passed(q) = NoCall
        BY <3>1
      <3> QED
        BY <3>2 DEF p
    <2>4. Asks(p)
      BY <2>2, <2>3 DEF RowsInv, CallsShape, Asks
    <2> QED
      BY <2>2, <2>4 DEF p
  <1>3. torn' = Both /\ calls' = [q \in Slot |-> passed(q)]
    BY DEF Unheard
  <1> HIDE DEF passed
  <1>4. calls' \in [Slot -> Request] /\ \A q \in Slot : calls'[q] = passed(q)
    BY <1>2, <1>3
  <1>5. \A q \in Slot : /\ Asks(calls'[q]) /\ ~ calls'[q].alone
                        /\ Range(calls'[q].answer) \cup calls'[q].ids \subseteq Range(done')
    BY <1>2, <1>4 DEF RowsInv, CallsShape
  <1>6. CallsShape'
    BY <1>4, <1>5 DEF CallsShape, Asks
  <1>7. ListsShape'
    BY DEF RowsInv, ListsShape
  <1>8. Apart' /\ (\A q \in Slot : Alone(calls[q]))' /\ Known'
    BY <1>3, <1>5, TornSaysNothing
  <1> QED
    BY <1>6, <1>7, <1>8 DEF RowsInv

(* A task that is answered, heard of or not.                               *)
LEMMA CompleteKeeps ==
    ASSUME HistoryAssumption, RowsInv, NEW t \in Task, Complete(t)
    PROVE  RowsInv'
PROOF
  <1>1. /\ t \notin Range(done) /\ done' = <<t>> \o done
        /\ UNCHANGED <<shelf, history, historyRef, archived, archivedRef, archivedLoaded>>
    BY DEF Complete, pageVars, historyVars, archivedVars
  <1>2. done' \in Seq(Task) /\ IsInjective(done') /\ Range(done') = {t} \cup Range(done)
    BY <1>1, CompletePushesRows DEF RowsInv
  <1>3. CASE news' = news + 1 /\ UNCHANGED <<faultVars, calls>>
    BY <1>1, <1>3, HeardKeeps DEF faultVars
  <1>4. CASE Unheard /\ UNCHANGED news
    <2>1. torn' \subseteq Both
      BY <1>4 DEF Unheard
    <2>2. RowsShape'
      BY <1>1, <1>2, <1>4, <2>1 DEF RowsInv, RowsShape
    <2>3. Range(done) \subseteq Range(done')
      BY <1>2
    <2> QED
      BY <1>1, <1>4, <2>2, <2>3, UnheardKeeps
  <1> QED
    BY <1>3, <1>4 DEF Complete

(* A batch of another tab.                                                 *)
LEMMA ElsewhereKeeps ==
    ASSUME RowsInv, NEW t \in Task, BatchElsewhere(t)
    PROVE  RowsInv'
PROOF
  <1>1. /\ t \in Range(done) /\ Unheard
        /\ UNCHANGED <<done, news, history, historyRef, archived, archivedRef, archivedLoaded>>
    BY DEF BatchElsewhere, pageVars, historyVars, archivedVars
  <1>2. shelf' \in Seq(Task) /\ IsInjective(shelf') /\ Range(shelf') \subseteq Range(done)
    <2>1. CASE t \in Range(shelf)
      <3>1. Unshelve({t})
        BY <2>1 DEF BatchElsewhere
      <3> QED
        BY <3>1, UnshelveMovesRows DEF RowsInv, RowsShape
    <2>2. CASE t \notin Range(shelf)
      <3>1. Shelve({t}) /\ {t} \subseteq Range(done)
        BY <1>1, <2>2 DEF BatchElsewhere
      <3>2. RowsShape /\ Range(shelf) \subseteq Range(done)
        BY DEF RowsInv, RowsShape
      <3>3. UNCHANGED done
        BY <1>1
      <3>4. shelf' \in Seq(Task) /\ IsInjective(shelf') /\ Range(shelf') = Range(shelf) \cup {t}
        BY <3>1, <3>2, <3>3, ShelveMovesRows
      <3> QED
        BY <3>1, <3>2, <3>4
    <2> QED
      BY <2>1, <2>2
  <1>3. torn' \subseteq Both
    BY <1>1 DEF Unheard
  <1>4. RowsShape'
    BY <1>1, <1>2, <1>3 DEF RowsInv, RowsShape
  <1>5. Range(done) \subseteq Range(done')
    BY <1>1
  <1> QED
    BY <1>1, <1>4, <1>5, UnheardKeeps

-----------------------------------------------------------------------------
(* Every step keeps the lists and the requests.                            *)

(* What the tab asks for.                                                  *)
LEMMA CallFields ==
    ASSUME NEW kind \in Fetch \cup {"open", "more", "copy", "archive", "restore"}, NEW list \in Both
    PROVE  /\ Call(kind, list) \in Request
           /\ Call(kind, list).kind = kind /\ Call(kind, list).pc = "asked"
           /\ Call(kind, list).list = list /\ Call(kind, list).ids = {}
           /\ Call(kind, list).offset = 0 /\ Call(kind, list).answer = <<>>
PROOF
  <1>1. /\ Call(kind, list).kind = kind /\ Call(kind, list).pc = "asked"
        /\ Call(kind, list).list = list /\ Call(kind, list).ids = {}
        /\ Call(kind, list).offset = 0 /\ Call(kind, list).answer = <<>>
    BY DEF Call, NoCall
  <1>2. Call(kind, list) \in Request
    BY NoCallShape DEF Call, Request, Fetch, Both
  <1> QED
    BY <1>1, <1>2

(* A refresh, an opening and a copy are asked for as they are.             *)
LEMMA PlainCallAsks ==
    ASSUME HistoryAssumption, NEW call \in Request, call.pc = "asked", call.answer = <<>>, call.ids = {},
           \/ call.kind \in Fetch /\ call.list = "history" /\ call.offset = 0
           \/ call.kind = "open" /\ call.list = "archived" /\ call.offset = 0
           \/ call.kind = "copy"
    PROVE  Asking(call)
PROOF
  <1>1. Len(call.answer) = 0 /\ 0 <= PageSize
    BY DEF HistoryAssumption
  <1> QED
    BY <1>1 DEF Asking, Asks, Fetch

(* The next page of a list.                                                *)
LEMMA MoreAsks ==
    ASSUME HistoryAssumption, ListsShape, NEW list \in Both, NEW offset,
           offset = Len(IF list = "archived" THEN archived ELSE history)
    PROVE  Asking([Call("more", list) EXCEPT !.offset = offset])
PROOF
  <1> DEFINE plain == Call("more", list)
             call == [plain EXCEPT !.offset = offset]
  <1>1. plain \in Request /\ plain.kind = "more" /\ plain.pc = "asked" /\ plain.list = list
          /\ plain.ids = {} /\ plain.answer = <<>>
    BY CallFields
  <1>2. offset \in Nat
    BY DEF ListsShape
  <1> HIDE DEF plain
  <1>3. call \in Request /\ call.kind = "more" /\ call.pc = "asked" /\ call.list = list
          /\ call.ids = {} /\ call.answer = <<>> /\ call.offset = offset
    BY <1>1, <1>2 DEF Request
  <1>4. Len(call.answer) = 0 /\ 0 <= PageSize
    BY <1>3 DEF HistoryAssumption
  <1> HIDE DEF call
  <1>5. Asks(call)
    BY <1>3, <1>4 DEF Asks, Fetch
  <1>6. Asking(call)
    BY <1>3, <1>5 DEF Asking
  <1> QED
    BY <1>6 DEF call, plain

(* A batch of rows of the list in view.                                    *)
LEMMA BatchAsks ==
    ASSUME HistoryAssumption, ListsShape, Rendered, view \in Both, NEW ids, ids \subseteq Range(Visible)
    PROVE  Asking([Call(IF view = "archived" THEN "restore" ELSE "archive", view) EXCEPT !.ids = ids])
PROOF
  <1> DEFINE kind == IF view = "archived" THEN "restore" ELSE "archive"
             plain == Call(kind, view)
             call == [plain EXCEPT !.ids = ids]
  <1>1. /\ Range(Visible) \subseteq Range(done) /\ Range(Visible) \subseteq Task
        /\ kind = "restore" => ids \subseteq Range(archived)
        /\ kind = "archive" => ids \subseteq Range(history)
    <2>1. archived \in Seq(Task) /\ history \in Seq(Task)
            /\ Range(archived) \subseteq Range(done) /\ Range(history) \subseteq Range(done)
      BY DEF ListsShape
    <2>2. Range(archived) \subseteq Task /\ Range(history) \subseteq Task
      BY <2>1 DEF Range
    <2> QED
      BY <2>1, <2>2 DEF Visible
  <1>2. kind \in {"restore", "archive"}
    OBVIOUS
  <1> HIDE DEF kind
  <1>3. plain \in Request /\ plain.kind = kind /\ plain.pc = "asked" /\ plain.list = view
          /\ plain.answer = <<>> /\ plain.offset = 0
    BY <1>2, CallFields, SMTT(30)
  <1> HIDE DEF plain
  <1>4. call \in Request /\ call.kind = kind /\ call.pc = "asked" /\ call.list = view
          /\ call.ids = ids /\ call.answer = <<>>
    BY <1>1, <1>3 DEF Request
  <1>5. Len(call.answer) = 0 /\ 0 <= PageSize
    BY <1>4 DEF HistoryAssumption
  <1> HIDE DEF call
  <1>6. Asks(call)
    BY <1>2, <1>4, <1>5 DEF Asks, Fetch
  <1>7. Asking(call)
    BY <1>1, <1>2, <1>4, <1>6 DEF Asking, Rendered
  <1> QED
    BY <1>7 DEF call, plain, kind

(* The daemon answers any request.                                         *)
LEMMA ServeKeeps ==
    ASSUME HistoryAssumption, RowsInv, NEW r \in Slot, Serve(r)
    PROVE  RowsInv'
PROOF
  <1>1. /\ calls[r].pc = "asked" /\ calls[r].kind # "copy"
        /\ UNCHANGED <<done, news, torn, history, historyRef, archived, archivedRef, archivedLoaded>>
    BY DEF Serve, faultVars, pageVars, historyVars, archivedVars
  <1>2. calls \in [Slot -> Request] /\ calls[r] \in Request /\ Asks(calls[r])
    BY DEF RowsInv, CallsShape
  <1>3. CASE calls[r].kind \in {"archive", "restore"}
    <2> DEFINE call == [calls[r] EXCEPT !.pc = "answered"]
    <2>1. /\ call \in Request /\ call.pc = "answered" /\ call.kind = calls[r].kind
          /\ call.list = calls[r].list /\ call.ids = calls[r].ids /\ call.offset = calls[r].offset
          /\ call.answer = calls[r].answer /\ call.alone = calls[r].alone
      BY <1>2 DEF Request
    <2>2. /\ calls' = [calls EXCEPT ![r].pc = "answered"]
          /\ calls[r].kind = "archive" => Shelve(calls[r].ids)
          /\ calls[r].kind = "restore" => Unshelve(calls[r].ids)
      BY <1>3 DEF Serve
    <2>3. calls' = [calls EXCEPT ![r] = call]
      BY <2>2
    <2> HIDE DEF call
    <2>4. BatchStored(r, call)
      BY <1>1, <2>1, <2>3 DEF BatchStored
    <2>5. CASE calls[r].kind = "archive"
      BY <1>1, <2>2, <2>4, <2>5, ArchiveStored
    <2>6. CASE calls[r].kind = "restore"
      BY <1>1, <2>2, <2>4, <2>6, RestoreStored
    <2> QED
      BY <1>3, <2>5, <2>6
  <1>4. CASE calls[r].kind \notin {"archive", "restore"}
    <2> DEFINE page == Page(calls[r].list, calls[r].offset)
               call == [calls[r] EXCEPT !.pc = "answered", !.answer = page]
    <2>1. calls' = [calls EXCEPT ![r].pc = "answered", ![r].answer = page] /\ UNCHANGED shelf
      BY <1>4 DEF Serve
    <2>2. calls' = [calls EXCEPT ![r] = call]
      BY <2>1
    <2>3. calls[r].kind \in Fetch \cup {"open", "more"}
      BY <1>1, <1>2, <1>4, NoCallShape DEF Request, Asks
    <2>4. calls[r].list \in Both /\ calls[r].offset \in Nat
      BY <1>2, <2>3 DEF Asks, Both, Request
    <2>5. page \in Seq(Task)
      BY <2>4, PageRows DEF RowsInv
    <2> HIDE DEF page
    <2>6. /\ call \in Request /\ call.pc = "answered" /\ call.kind = calls[r].kind
          /\ call.list = calls[r].list /\ call.ids = calls[r].ids /\ call.offset = calls[r].offset
          /\ call.alone = calls[r].alone /\ call.answer = page
      BY <1>2, <2>5 DEF Request
    <2> HIDE DEF call
    <2>7. call.answer = Page(call.list, call.offset)
      BY <2>6 DEF page
    <2>8. UNCHANGED <<done, shelf, news, torn, history, historyRef, archived, archivedRef, archivedLoaded>>
      BY <1>1, <2>1
    <2> QED
      BY <2>2, <2>3, <2>6, <2>7, <2>8, PageAnswered
  <1> QED
    BY <1>3, <1>4

(* The steps that set no list, start no request and end none.              *)
LookOrEffect == LookStep \/ Effect \/ UNCHANGED viewVars

(* A click, or an effect, changes no row and no request; an effect brings  *)
(* both refs up to their lists.                                            *)
LEMMA LookKeeps ==
    ASSUME LookOrEffect
    PROVE  /\ UNCHANGED <<done, shelf, news, torn, calls, history, archived, archivedLoaded>>
           /\ \/ UNCHANGED <<historyRef, archivedRef>>
              \/ historyRef' = history /\ archivedRef' = archived
PROOF
  <1>1. CASE LookStep
    BY <1>1 DEF LookStep, ChangeTab, OpenReplacement, backToMainHistory, Select, SelectQuestion,
         enterHistorySelectionMode, exitHistorySelectionMode, toggleTaskSelection,
         selectAllHistory, invertHistorySelection, toggleGroupSelection,
         daemonVars, faultVars, historyVars, archivedVars
  <1>2. CASE Effect
    BY <1>2 DEF Effect, daemonVars, faultVars
  <1>3. CASE UNCHANGED viewVars
    BY <1>3 DEF viewVars, daemonVars, faultVars, pageVars, historyVars, archivedVars
  <1> QED
    BY <1>1, <1>2, <1>3 DEF LookOrEffect

(* Every step of a request.                                                *)
LEMMA TabKeeps ==
    ASSUME HistoryAssumption, RowsInv, NEW r \in Slot, TabStep(r)
    PROVE  RowsInv'
PROOF
  <1> USE DEF daemonVars, faultVars, pageVars, historyVars, archivedVars
  <1>1. CASE Serve(r)
    BY <1>1, ServeKeeps
  <1>2. CASE Refuse(r)
    <2>1. Harmless(calls[r]) /\ calls[r].kind # "none"
      BY <1>2 DEF Refuse, Harmless
    <2> QED
      BY <1>2, <2>1, EndKeeps DEF Refuse
  <1>3. CASE Fails(r)
    <2>1. calls[r].kind # "none"
      BY <1>3 DEF Fails, RowsInv, CallsShape, Asks
    <2> QED
      BY <1>3, <2>1, EndKeeps DEF Fails
  <1>4. CASE Loaded(r)
    BY <1>4, FetchSets DEF Loaded, Answered, Fetch
  <1>5. CASE Refreshed(r)
    BY <1>5, FetchSets DEF Refreshed, Answered, Fetch
  <1>6. CASE Reloaded(r)
    BY <1>6, FetchSets DEF Reloaded, Answered, Fetch
  <1>7. CASE ArchivedOpened(r)
    BY <1>7, OpenSets DEF ArchivedOpened, Answered
  <1>8. CASE MoreLoaded(r)
    BY <1>8, MoreAdds DEF MoreLoaded, Answered
  <1>9. CASE Copied(r)
    <2>1. Harmless(calls[r]) /\ calls[r].kind # "none"
      BY <1>9 DEF Copied, Harmless
    <2> QED
      BY <1>9, <2>1, EndKeeps DEF Copied
  <1>10. CASE Archived(r)
    BY <1>10, ArchiveApplied DEF Archived, Answered
  <1>11. CASE Restored(r)
    BY <1>11, RestoreApplied DEF Restored, Answered
  <1>12. Call("refresh", "history") \in Request /\ Asking(Call("refresh", "history"))
           /\ Call("refresh", "history").kind \in Fetch
    <2> DEFINE call == Call("refresh", "history")
    <2>1. "refresh" \in Fetch /\ "history" \in Both
      BY DEF Fetch, Both
    <2>2. call \in Request /\ call.kind = "refresh" /\ call.pc = "asked" /\ call.list = "history"
            /\ call.ids = {} /\ call.offset = 0 /\ call.answer = <<>>
      BY <2>1, CallFields
    <2> HIDE DEF call
    <2>3. Asking(call)
      BY <2>1, <2>2, PlainCallAsks
    <2> QED
      BY <2>1, <2>2, <2>3 DEF call
  <1>13. CASE Hear(r)
    <2>1. news' \in Nat
      BY <1>13 DEF Hear, RowsInv, RowsShape
    <2> QED
      BY <1>12, <1>13, <2>1, StartKeeps DEF Hear
  <1>14. CASE Refresh(r)
    <2>1. news' \in Nat /\ news' = news
      BY <1>14 DEF Refresh, RowsInv, RowsShape
    <2> QED
      BY <1>12, <1>14, <2>1, StartKeeps DEF Refresh
  <1> QED
    BY <1>1, <1>2, <1>3, <1>4, <1>5, <1>6, <1>7, <1>8, <1>9, <1>10, <1>11, <1>13, <1>14 DEF TabStep

(* Every request of the user.                                              *)
LEMMA RequestKeeps ==
    ASSUME HistoryAssumption, RowsInv, NEW r \in Slot, RequestStep(r)
    PROVE  RowsInv'
PROOF
  <1> USE DEF daemonVars, faultVars, pageVars, historyVars, archivedVars
  <1>1. ListsShape /\ news \in Nat
    BY DEF RowsInv, RowsShape
  <1>2. "history" \in Both /\ "archived" \in Both
    BY DEF Both
  <1>3. CASE openArchivedHistory(r)
    <2>1. CASE archivedLoaded
      BY <1>3, <2>1, QuietKeeps DEF openArchivedHistory
    <2>2. CASE ~ archivedLoaded
      <3> DEFINE call == Call("open", "archived")
      <3>1. call \in Request /\ call.kind = "open" /\ call.pc = "asked" /\ call.list = "archived"
              /\ call.ids = {} /\ call.offset = 0 /\ call.answer = <<>>
        BY <1>2, CallFields
      <3>2. Start(r, call)
        BY <1>3, <2>2 DEF openArchivedHistory
      <3> HIDE DEF call
      <3>3. Asking(call)
        BY <3>1, PlainCallAsks
      <3> QED
        BY <1>1, <1>3, <3>2, <3>3, StartKeeps DEF openArchivedHistory
    <2> QED
      BY <2>1, <2>2
  <1>4. CASE loadMoreHistory(r)
    <2> DEFINE call == [Call("more", view) EXCEPT !.offset = Len(Visible)]
    <2>1. Start(r, call) /\ view \in Both
      BY <1>4 DEF loadMoreHistory
    <2>2. Len(Visible) = Len(IF view = "archived" THEN archived ELSE history)
      BY DEF Visible
    <2>3. Asking(call)
      BY <1>1, <2>1, <2>2, MoreAsks
    <2> HIDE DEF call
    <2> QED
      BY <1>1, <1>4, <2>1, <2>3, StartKeeps DEF loadMoreHistory
  <1>5. CASE exportSelected(r)
    <2> DEFINE call == Call("copy", "history")
    <2>1. call \in Request /\ call.kind = "copy" /\ call.pc = "asked" /\ call.ids = {} /\ call.answer = <<>>
      BY <1>2, CallFields
    <2>2. Start(r, call)
      BY <1>5 DEF exportSelected
    <2> HIDE DEF call
    <2>3. Asking(call)
      BY <2>1, PlainCallAsks
    <2> QED
      BY <1>1, <1>5, <2>2, <2>3, StartKeeps DEF exportSelected
  <1>6. ASSUME NEW ids, ids \subseteq Range(Visible), view \in Both, Batch(r, ids)
        PROVE  RowsInv'
    <2> DEFINE call == [Call(IF view = "archived" THEN "restore" ELSE "archive", view) EXCEPT !.ids = ids]
    <2>1. Start(r, call) /\ Rendered
      BY <1>6 DEF Batch
    <2>2. Asking(call)
      BY <1>1, <1>6, <2>1, BatchAsks
    <2> HIDE DEF call
    <2> QED
      BY <1>1, <1>6, <2>1, <2>2, StartKeeps DEF Batch
  <1>7. CASE BatchSelected(r)
    BY <1>6, <1>7 DEF BatchSelected, Chosen
  <1>8. CASE \E group \in Groups : BatchGroup(r, group)
    <2>1. PICK group \in Groups : BatchGroup(r, group)
      BY <1>8
    <2>2. group \subseteq Range(Visible) /\ view \in Both
      BY DEF Groups
    <2> QED
      BY <1>6, <2>1, <2>2 DEF BatchGroup
  <1> QED
    BY <1>3, <1>4, <1>5, <1>7, <1>8 DEF RequestStep

(* Every step keeps what is known of the lists.                            *)
LEMMA RowsStep ==
    ASSUME HistoryAssumption, RowsInv, [HistoryNext]_viewVars
    PROVE  RowsInv'
PROOF
  <1>1. CASE LookOrEffect
    BY <1>1, LookKeeps, QuietKeeps
  <1>2. CASE WorldStep
    BY <1>2, CompleteKeeps, ElsewhereKeeps DEF WorldStep
  <1>3. CASE \E r \in Slot : TabStep(r) \/ RequestStep(r)
    BY <1>3, TabKeeps, RequestKeeps
  <1> QED
    BY <1>1, <1>2, <1>3 DEF HistoryNext, LookOrEffect

-----------------------------------------------------------------------------
(* What the user looks at.                                                 *)

(* The focus functions return a focus; changing the surface leaves the     *)
(* task in focus alone.                                                    *)
LEMMA FocusFunctions ==
    ASSUME HistoryAssumption, ViewShape
    PROVE  /\ \A s \in Surface : /\ changeSurface(focus, s) \in [surface : Surface, history : SurfaceFocus]
                                 /\ changeSurface(focus, s).history = focus.history
           /\ \A t \in Task : Open(t) \in [surface : Surface, history : SurfaceFocus]
           /\ \A ids : applyArchiveResult(focus, ids) \in [surface : Surface, history : SurfaceFocus]
           /\ \A pending : \A list \in Seq(Task) :
                HistoryPane(initializeFocus(pending, list)) \in [surface : Surface, history : SurfaceFocus]
PROOF
  <1> DEFINE Pane == [surface : Surface, history : SurfaceFocus]
  <1>1. focus \in Pane /\ view \in Surface /\ "history" \in Surface /\ "pending" \in Surface
    BY DEF ViewShape, Surface
  <1>2. \A s \in Surface : changeSurface(focus, s) \in Pane /\ changeSurface(focus, s).history = focus.history
    BY <1>1 DEF changeSurface
  <1>3. \A t \in Task : focusTask(t) \in SurfaceFocus /\ staleFocus(t, "archived", None) \in SurfaceFocus
    BY DEF focusTask, staleFocus, SurfaceFocus, StaleReason
  <1>4. \A t \in Task : selectTask(focus, "history", t) \in Pane
    BY <1>1, <1>3 DEF selectTask
  <1>5. \A t \in Task : Open(t) \in Pane
    BY <1>1, <1>2, <1>4 DEF Open
  <1>6. ASSUME NEW ids PROVE applyArchiveResult(focus, ids) \in Pane
    <2>1. CASE focus.history.kind = "task"
      <3>1. focus.history \in SurfaceFocus
        BY <1>1
      <3>2. focus.history.task \in Task
        BY <2>1, <3>1 DEF SurfaceFocus
      <3> QED
        BY <1>1, <1>3, <3>2 DEF applyArchiveResult
    <2> QED
      BY <1>1, <2>1 DEF applyArchiveResult
  <1>7. ASSUME NEW pending, NEW list \in Seq(Task)
        PROVE  HistoryPane(initializeFocus(pending, list)) \in Pane
    <2>1. none \in SurfaceFocus
      BY DEF none, SurfaceFocus
    <2>2. list # <<>> => Head(list) \in Task
      OBVIOUS
    <2>3. FirstOf(list) \in SurfaceFocus
      BY <1>3, <2>1, <2>2 DEF FirstOf
    <2> QED
      BY <1>1, <2>3 DEF HistoryPane, initializeFocus
  <1> QED
    BY <1>2, <1>5, <1>6, <1>7

(* Completed tasks stay completed.                                         *)
LEMMA DoneGrows ==
    ASSUME HistoryAssumption, RowsInv, [HistoryNext]_viewVars
    PROVE  Range(done) \subseteq Range(done')
PROOF
  <1>1. ASSUME NEW t \in Task, Complete(t) PROVE Range(done) \subseteq Range(done')
    BY <1>1, CompletePushesRows DEF Complete, RowsInv
  <1>2. CASE LookOrEffect
    BY <1>2, LookKeeps
  <1>3. ASSUME NEW t \in Task, BatchElsewhere(t) PROVE UNCHANGED done
    BY <1>3 DEF BatchElsewhere
  <1>4. ASSUME NEW r \in Slot, TabStep(r) PROVE UNCHANGED done
    BY <1>4 DEF TabStep, Serve, Refuse, Fails, Loaded, Hear, Refresh, Refreshed, ArchivedOpened,
         MoreLoaded, Copied, Archived, Restored, Reloaded, daemonVars
  <1>5. ASSUME NEW r \in Slot, RequestStep(r) PROVE UNCHANGED done
    BY <1>5 DEF RequestStep, openArchivedHistory, loadMoreHistory, exportSelected, BatchSelected,
         BatchGroup, Batch, daemonVars
  <1> QED
    BY <1>1, <1>2, <1>3, <1>4, <1>5 DEF HistoryNext, WorldStep, LookOrEffect

(* Choosing rows of the list in view.                                      *)
LEMMA ChoiceShape ==
    ASSUME RowsInv, ViewShape, view \in Both, NEW ids, Choose(ids),
           ids \subseteq selected[view] \cup Range(Visible)
    PROVE  /\ selected' \in [Both -> SUBSET Range(done)]
           /\ view = "archived" => selected'["history"] = {}
PROOF
  <1>1. Range(Visible) \subseteq Range(done)
    BY DEF Visible, RowsInv, ListsShape
  <1>2. selected \in [Both -> SUBSET Range(done)] /\ (view = "archived" => selected["history"] = {})
    BY DEF ViewShape
  <1>3. ids \in SUBSET Range(done)
    BY <1>1, <1>2
  <1>4. selected' = [selected EXCEPT ![view] = ids]
    BY DEF Choose
  <1> QED
    BY <1>2, <1>3, <1>4 DEF Both

(* The user's steps keep the shape of what is looked at and chosen.        *)
LEMMA LookShape ==
    ASSUME HistoryAssumption, RowsInv, ViewShape, LookOrEffect
    PROVE  ViewShape'
PROOF
  <1> DEFINE Pane == [surface : Surface, history : SurfaceFocus]
  <1>1. /\ view \in Surface /\ mode \in BOOLEAN /\ selected \in [Both -> SUBSET Range(done)]
        /\ (view = "archived" => selected["history"] = {}) /\ focus \in Pane
    BY DEF ViewShape
  <1>2. UNCHANGED done
    BY LookKeeps
  <1>3. \A s \in Surface : changeSurface(focus, s) \in Pane
    BY FocusFunctions
  <1>4. \A t \in Task : Open(t) \in Pane
    BY FocusFunctions
  <1>5. Nothing \in [Both -> SUBSET Range(done)] /\ Nothing["history"] = {}
    BY DEF Nothing, Both
  <1>6. "pending" \in Surface /\ "history" \in Surface /\ "archived" \in Surface
    BY DEF Surface
  <1>7. Range(Visible) \subseteq Range(done)
    BY DEF Visible, RowsInv, ListsShape
  <1> HIDE DEF Pane
  <1>8. SUFFICES /\ view' \in Surface /\ mode' \in BOOLEAN /\ selected' \in [Both -> SUBSET Range(done)]
                 /\ (view' = "archived" => selected'["history"] = {}) /\ focus' \in Pane
    BY <1>2 DEF ViewShape, Pane
  <1>9. CASE Effect \/ UNCHANGED viewVars
    BY <1>1, <1>9 DEF Effect, viewVars, pageVars, choiceVars
  <1>10. ASSUME NEW value \in {"pending", "history"}, ChangeTab(value)
         PROVE  /\ view' \in Surface /\ mode' \in BOOLEAN /\ selected' = Nothing /\ focus' \in Pane
    BY <1>3, <1>6, <1>10 DEF ChangeTab
  <1>11. CASE OpenReplacement
    BY <1>1, <1>6, <1>11 DEF OpenReplacement, choiceVars
  <1>12. CASE backToMainHistory
    <2>1. selected' = [selected EXCEPT !["archived"] = {}]
      BY <1>12 DEF backToMainHistory
    <2>2. selected' \in [Both -> SUBSET Range(done)]
      BY <1>1, <2>1
    <2>3. view' = "history" /\ mode' = mode /\ focus' \in Pane
      BY <1>3, <1>6, <1>12 DEF backToMainHistory
    <2> QED
      BY <1>1, <1>6, <2>2, <2>3
  <1>13. ASSUME NEW t \in Task, Select(t) PROVE focus' \in Pane /\ UNCHANGED <<view, mode, selected>>
    BY <1>4, <1>13 DEF Select, choiceVars
  <1>14. ASSUME NEW t \in Task, toggleTaskSelection(t)
         PROVE  /\ focus' \in Pane /\ UNCHANGED <<view, mode>>
                /\ selected' \in [Both -> SUBSET Range(done)]
                /\ view = "archived" => selected'["history"] = {}
    <2> DEFINE ids == IF t \in selected[view] THEN selected[view] \ {t} ELSE selected[view] \cup {t}
    <2>1. Choose(ids) /\ view \in Both /\ ids \subseteq selected[view] \cup Range(Visible)
      BY <1>14 DEF toggleTaskSelection
    <2> HIDE DEF ids
    <2> QED
      BY <1>4, <1>14, <2>1, ChoiceShape DEF toggleTaskSelection
  <1>15. CASE SelectQuestion
    BY <1>1, <1>3, <1>6, <1>15 DEF SelectQuestion, choiceVars
  <1>16. CASE enterHistorySelectionMode
    <2>1. Choose({}) /\ view \in Both
      BY <1>16 DEF enterHistorySelectionMode
    <2> QED
      BY <1>1, <1>16, <2>1, ChoiceShape DEF enterHistorySelectionMode
  <1>17. CASE exitHistorySelectionMode
    BY <1>1, <1>5, <1>17 DEF exitHistorySelectionMode
  <1>18. CASE selectAllHistory
    <2>1. Choose(Range(Visible)) /\ view \in Both
      BY <1>18 DEF selectAllHistory
    <2> QED
      BY <1>1, <1>18, <2>1, ChoiceShape DEF selectAllHistory
  <1>19. CASE invertHistorySelection
    <2> DEFINE ids == Range(Visible) \ selected[view]
    <2>1. Choose(ids) /\ view \in Both /\ ids \subseteq selected[view] \cup Range(Visible)
      BY <1>19 DEF invertHistorySelection
    <2> HIDE DEF ids
    <2> QED
      BY <1>1, <1>19, <2>1, ChoiceShape DEF invertHistorySelection
  <1>20. ASSUME NEW group \in Groups, toggleGroupSelection(group)
         PROVE  /\ mode' = TRUE /\ UNCHANGED <<view, focus>>
                /\ selected' \in [Both -> SUBSET Range(done)]
                /\ view = "archived" => selected'["history"] = {}
    <2> DEFINE ids == IF group \subseteq selected[view] THEN selected[view] \ group
                                                        ELSE selected[view] \cup group
    <2>1. group \subseteq Range(Visible) /\ view \in Both
      BY DEF Groups
    <2>2. Choose(ids) /\ ids \subseteq selected[view] \cup Range(Visible)
      BY <1>20, <2>1 DEF toggleGroupSelection
    <2> HIDE DEF ids
    <2> QED
      BY <1>20, <2>1, <2>2, ChoiceShape DEF toggleGroupSelection
  <1>21. CASE LookStep
    BY <1>1, <1>5, <1>10, <1>11, <1>12, <1>13, <1>14, <1>15, <1>16, <1>17, <1>18, <1>19, <1>20, <1>21
       DEF LookStep
  <1> QED
    BY <1>9, <1>21 DEF LookOrEffect

(* What the requests, and the world, do to it.                             *)
LEMMA AnswerShape ==
    ASSUME HistoryAssumption, RowsInv, ViewShape, Range(done) \subseteq Range(done'),
           WorldStep \/ \E r \in Slot : TabStep(r) \/ RequestStep(r)
    PROVE  ViewShape'
PROOF
  <1> DEFINE Pane == [surface : Surface, history : SurfaceFocus]
  <1>1. /\ view \in Surface /\ mode \in BOOLEAN /\ selected \in [Both -> SUBSET Range(done)]
        /\ (view = "archived" => selected["history"] = {}) /\ focus \in Pane
    BY DEF ViewShape
  <1>2. selected \in [Both -> SUBSET Range(done')]
    BY <1>1
  <1> HIDE DEF Pane
  <1>3. SUFFICES /\ view' \in Surface /\ mode' \in BOOLEAN /\ selected' \in [Both -> SUBSET Range(done')]
                 /\ (view' = "archived" => selected'["history"] = {}) /\ focus' \in Pane
    BY DEF ViewShape, Pane
  <1>4. CASE UNCHANGED <<view, mode, selected, focus>>
    BY <1>1, <1>2, <1>4
  <1>5. ASSUME NEW list \in Both, selected' = [selected EXCEPT ![list] = {}], view' = view,
               mode' = FALSE, focus' \in Pane
        PROVE  /\ view' \in Surface /\ mode' \in BOOLEAN /\ selected' \in [Both -> SUBSET Range(done')]
               /\ (view' = "archived" => selected'["history"] = {}) /\ focus' \in Pane
    <2>1. selected' \in [Both -> SUBSET Range(done')]
      BY <1>2, <1>5
    <2>2. selected["history"] = {} => selected'["history"] = {}
      BY <1>2, <1>5 DEF Both
    <2> QED
      BY <1>1, <1>5, <2>1, <2>2
  <1>6. "history" \in Both /\ "archived" \in Both
    BY DEF Both
  <1>7. CASE WorldStep
    BY <1>4, <1>7 DEF WorldStep, Complete, BatchElsewhere, pageVars, choiceVars
  <1>8. ASSUME NEW r \in Slot, TabStep(r)
        PROVE  \/ UNCHANGED <<view, mode, selected, focus>>
               \/ Loaded(r) \/ Copied(r) \/ Archived(r) \/ Restored(r)
    BY <1>8 DEF TabStep, Serve, Refuse, Fails, Hear, Refresh, Refreshed, ArchivedOpened,
         MoreLoaded, Reloaded, pageVars, choiceVars
  <1>9. ASSUME NEW r \in Slot, Loaded(r)
        PROVE  UNCHANGED <<view, mode, selected>> /\ focus' \in Pane
    <2>1. calls[r].answer \in Seq(Task)
      BY DEF RowsInv, CallsShape, Request
    <2>2. PICK pending \in {<<>>} \cup {<<t>> : t \in Task} :
              focus' = HistoryPane(initializeFocus(pending, calls[r].answer))
      BY <1>9 DEF Loaded
    <2>3. focus' \in Pane
      BY <2>1, <2>2, FocusFunctions DEF Pane
    <2> QED
      BY <1>9, <2>3 DEF Loaded, choiceVars
  <1>10. ASSUME NEW r \in Slot, Copied(r)
         PROVE  selected' = [selected EXCEPT !["history"] = {}] /\ view' = view /\ mode' = FALSE
                /\ focus' \in Pane
    BY <1>1, <1>10 DEF Copied
  <1>11. ASSUME NEW r \in Slot, Archived(r)
         PROVE  selected' = [selected EXCEPT !["history"] = {}] /\ view' = view /\ mode' = FALSE
                /\ focus' \in Pane
    <2>1. focus' = applyArchiveResult(focus, calls[r].ids)
      BY <1>11 DEF Archived
    <2>2. focus' \in Pane
      BY <2>1, FocusFunctions DEF Pane
    <2> QED
      BY <1>11, <2>2 DEF Archived
  <1>12. ASSUME NEW r \in Slot, Restored(r)
         PROVE  selected' = [selected EXCEPT !["archived"] = {}] /\ view' = view /\ mode' = FALSE
                /\ focus' \in Pane
    BY <1>1, <1>12 DEF Restored
  <1>13. ASSUME NEW r \in Slot, RequestStep(r)
         PROVE  UNCHANGED <<view, mode, selected, focus>> \/ openArchivedHistory(r)
    BY <1>13 DEF RequestStep, loadMoreHistory, exportSelected, BatchSelected, BatchGroup, Batch,
         pageVars, choiceVars
  <1>14. ASSUME NEW r \in Slot, openArchivedHistory(r)
         PROVE  view' = "archived" /\ selected' = Nothing /\ mode' = mode /\ focus' \in Pane
    <2>1. focus' = changeSurface(focus, "archived") /\ "archived" \in Surface
      BY <1>14 DEF openArchivedHistory, Surface
    <2>2. focus' \in Pane
      BY <2>1, FocusFunctions DEF Pane
    <2> QED
      BY <1>14, <2>2 DEF openArchivedHistory
  <1>15. Nothing \in [Both -> SUBSET Range(done')] /\ Nothing["history"] = {} /\ "archived" \in Surface
    BY DEF Nothing, Both, Surface
  <1>16. CASE \E r \in Slot : TabStep(r)
    <2>1. PICK r \in Slot : TabStep(r)
      BY <1>16
    <2>2. CASE Loaded(r)
      BY <1>1, <1>2, <1>9, <2>2
    <2>3. CASE Copied(r)
      BY <1>5, <1>6, <1>10, <2>3
    <2>4. CASE Archived(r)
      BY <1>5, <1>6, <1>11, <2>4
    <2>5. CASE Restored(r)
      BY <1>5, <1>6, <1>12, <2>5
    <2> QED
      BY <1>4, <1>8, <2>1, <2>2, <2>3, <2>4, <2>5
  <1>17. CASE \E r \in Slot : RequestStep(r)
    BY <1>1, <1>4, <1>13, <1>14, <1>15, <1>17
  <1> QED
    BY <1>7, <1>16, <1>17

(* The invariant holds at first: nothing is loaded, and the first load is  *)
(* on its way.                                                             *)
LEMMA HistoryInvInitially ==
    ASSUME HistoryAssumption, HistoryInit
    PROVE  HistoryInv
PROOF
  <1>1. PICK r \in Slot :
            calls = [q \in Slot |-> IF q = r THEN [Call("load", "history") EXCEPT !.alone = TRUE]
                                             ELSE NoCall]
    BY DEF HistoryInit
  <1> DEFINE load == [Call("load", "history") EXCEPT !.alone = TRUE]
  <1>2. /\ load \in Request /\ load.kind = "load" /\ load.pc = "asked" /\ load.list = "history"
        /\ load.ids = {} /\ load.offset = 0 /\ load.answer = <<>>
    <2> DEFINE plain == Call("load", "history")
    <2>1. "load" \in Fetch /\ "history" \in Both
      BY DEF Fetch, Both
    <2>2. /\ plain \in Request /\ plain.kind = "load" /\ plain.pc = "asked" /\ plain.list = "history"
          /\ plain.ids = {} /\ plain.offset = 0 /\ plain.answer = <<>>
      BY <2>1, CallFields
    <2> HIDE DEF plain
    <2>3. PICK yes \in BOOLEAN : yes = TRUE
      OBVIOUS
    <2>4. load = [plain EXCEPT !.alone = yes]
      BY <2>3 DEF plain
    <2> HIDE DEF load
    <2> QED
      BY <2>2, <2>4, MarkedCall
  <1>3. calls = [q \in Slot |-> IF q = r THEN load ELSE NoCall]
    BY <1>1
  <1>4. Len(load.answer) = 0 /\ 0 <= PageSize /\ Range(load.answer) = {}
    BY <1>2 DEF HistoryAssumption, Range
  <1> HIDE DEF load
  <1>5. Asks(load)
    BY <1>2, <1>4 DEF Asks, Fetch
  <1>6. calls \in [Slot -> Request] /\ calls[r] = load /\ \A q \in Slot : q # r => calls[q] = NoCall
    BY <1>2, <1>3, NoCallShape
  <1>7. /\ shelf = <<>> /\ news = 0 /\ torn = {} /\ history = <<>> /\ historyRef = <<>>
        /\ archived = <<>> /\ archivedRef = <<>> /\ archivedLoaded = FALSE /\ view = "pending"
        /\ mode = FALSE /\ selected = Nothing /\ focus = HistoryPane(emptyFocusState)
    BY DEF HistoryInit
  <1>8. done \in Seq(Task) /\ IsInjective(done)
    <2>1. PICK n \in 0..2 : done \in [1..n -> Task] /\ \A i, j \in DOMAIN done : done[i] = done[j] => i = j
      BY DEF HistoryInit
    <2> QED
      BY <2>1 DEF IsInjective
  <1>9. <<>> \in Seq(Task) /\ IsInjective(<<>>) /\ Range(<<>>) = {}
    BY DEF IsInjective, Range
  <1>10. RowsShape
    BY <1>7, <1>8, <1>9 DEF RowsShape
  <1>11. ListsShape
    BY <1>7, <1>9 DEF ListsShape
  <1>12. CallsShape
    <2>1. ASSUME NEW q \in Slot
          PROVE  /\ Asks(calls[q]) /\ Range(calls[q].answer) \cup calls[q].ids \subseteq Range(done)
                 /\ calls[q].alone => \A p \in Slot : p # q => calls[p] = NoCall
      BY <1>2, <1>4, <1>5, <1>6, NoCallShape
    <2> QED
      BY <1>6, <2>1 DEF CallsShape
  <1>13. \A q \in Slot : calls[q].kind \in {"none", "load"} /\ calls[q].pc # "answered"
    BY <1>2, <1>6, NoCallShape
  <1>14. \A k \in {"archive", "restore"} : Stored(k) = {}
    BY <1>13 DEF Stored
  <1>15. Apart
    BY <1>7, <1>9, <1>13, <1>14 DEF Apart
  <1>16. \A q \in Slot : Alone(calls[q])
    BY <1>13 DEF Alone
  <1>17. Known
    BY <1>2, <1>6, <1>7 DEF Known, Fetch
  <1>18. ViewShape
    <2>1. Nothing \in [Both -> SUBSET Range(done)]
      BY DEF Nothing
    <2>2. focus \in [surface : Surface, history : SurfaceFocus]
      BY <1>7 DEF HistoryPane, emptyFocusState, initializeFocus, FirstOf, none, SurfaceFocus, Surface
    <2> QED
      BY <1>7, <2>1, <2>2 DEF ViewShape, Surface
  <1> QED
    BY <1>10, <1>11, <1>12, <1>15, <1>16, <1>17, <1>18 DEF HistoryInv, RowsInv

(* The invariant is one.                                                   *)
LEMMA HistoryInvariance == HistorySpec => []HistoryInv
PROOF
  <1>1. HistoryInit => HistoryInv
    BY HistoryAssumption, HistoryInvInitially
  <1>2. HistoryInv /\ [HistoryNext]_viewVars => HistoryInv'
    <2> SUFFICES ASSUME HistoryInv, [HistoryNext]_viewVars PROVE HistoryInv'
      OBVIOUS
    <2>1. RowsInv /\ ViewShape /\ HistoryAssumption
      BY HistoryAssumption DEF HistoryInv
    <2>2. RowsInv'
      BY <2>1, RowsStep
    <2>3. Range(done) \subseteq Range(done')
      BY <2>1, DoneGrows
    <2>4. CASE LookOrEffect
      BY <2>1, <2>2, <2>4, LookShape DEF HistoryInv
    <2>5. CASE WorldStep \/ \E r \in Slot : TabStep(r) \/ RequestStep(r)
      <3>1. ViewShape'
        BY <2>1, <2>3, <2>5, AnswerShape
      <3> QED
        BY <2>2, <3>1 DEF HistoryInv
    <2> QED
      BY <2>4, <2>5 DEF HistoryNext, LookOrEffect
  <1> QED
    BY <1>1, <1>2, PTL DEF HistorySpec

-----------------------------------------------------------------------------
(* The properties.                                                         *)

(* What is listed, selected, answered or asked for is completed, no row is *)
(* twice on the daemon's lists, and no page is longer than its limit       *)
(* (App.tsx, ListHistory and ListArchivedHistory of the store).            *)
THEOREM HistoryTypeCorrect == HistorySpec => []HistoryTypeOK
PROOF
  <1>1. HistoryInv => HistoryTypeOK
    <2> SUFFICES ASSUME HistoryInv PROVE HistoryTypeOK
      OBVIOUS
    <2>1. RowsShape /\ ListsShape /\ CallsShape /\ ViewShape
      BY DEF HistoryInv, RowsInv
    <2>2. Range(done) \subseteq Task
      BY <2>1 DEF RowsShape, Range
    <2>3. \A r \in Slot : Len(calls[r].answer) <= PageSize
      BY <2>1 DEF CallsShape, Asks
    <2> QED
      BY <2>1, <2>2, <2>3 DEF HistoryTypeOK, RowsShape, ListsShape, CallsShape, ViewShape
  <1> QED
    BY <1>1, HistoryInvariance, PTL

(* Once nothing is on its way, each loaded list is a prefix of the         *)
(* daemon's, unless requests in flight together or a fault spoiled it: no  *)
(* row is missing between two pages, twice, or in both lists, whatever was *)
(* loaded, archived, restored and completed (App.tsx, the state of its     *)
(* history lists; session-grouping-and-archive-design.md:98, :123).        *)
THEOREM QuietListsCorrect == HistorySpec => []QuietListsAreTrue
PROOF
  <1>1. HistoryInv => QuietListsAreTrue
    <2> SUFFICES ASSUME HistoryInv, news = 0, Idle
                 PROVE  /\ "history" \notin torn => IsPrefix(history, Rows("history"))
                        /\ "archived" \notin torn /\ archivedLoaded => IsPrefix(archived, Rows("archived"))
      BY DEF QuietListsAreTrue
    <2>1. RowsShape /\ Known
      BY DEF HistoryInv, RowsInv
    <2>2. \A r \in Slot : calls[r].kind = "none"
      BY NoCallShape DEF Idle
    <2>3. Stored("archive") = {} /\ Stored("restore") = {} /\ \A r \in Slot : calls[r].kind \notin Fetch
      BY <2>2 DEF Stored, Fetch
    <2> QED
      BY <2>1, <2>3, RowsAreDone DEF Known
  <1> QED
    BY <1>1, HistoryInvariance, PTL

(* A history list is opened with nothing selected, whatever answers came   *)
(* late (App.tsx, ChangeTab, openArchivedHistory and backToMainHistory;    *)
(* session-grouping-and-archive-design.md:519).                            *)
THEOREM NothingHiddenCorrect == HistorySpec => NothingHiddenIsSelected
PROOF
  <1> DEFINE Step == view' # view /\ view' # "pending" => selected' = Nothing
  <1>1. HistoryInv /\ [HistoryNext]_viewVars => Step
    <2> SUFFICES ASSUME HistoryInv, [HistoryNext]_viewVars, view' # view, view' # "pending"
                 PROVE  selected' = Nothing
      OBVIOUS
    <2>1. selected \in [Both -> SUBSET Range(done)] /\ (view = "archived" => selected["history"] = {})
      BY DEF HistoryInv, ViewShape
    <2>2. CASE backToMainHistory
      <3>1. selected["history"] = {} /\ selected' = [selected EXCEPT !["archived"] = {}]
        BY <2>1, <2>2 DEF backToMainHistory
      <3> QED
        BY <2>1, <3>1 DEF Nothing, Both
    <2>3. CASE LookStep
      BY <2>2, <2>3 DEF LookStep, ChangeTab, Select, toggleTaskSelection, OpenReplacement,
           SelectQuestion, enterHistorySelectionMode, exitHistorySelectionMode, selectAllHistory,
           invertHistorySelection, toggleGroupSelection
    <2>4. CASE WorldStep \/ Effect \/ UNCHANGED viewVars
      BY <2>4 DEF WorldStep, Complete, BatchElsewhere, Effect, viewVars, pageVars
    <2>5. ASSUME NEW r \in Slot, TabStep(r) PROVE FALSE
      BY <2>5 DEF TabStep, Serve, Refuse, Fails, Loaded, Hear, Refresh, Refreshed, ArchivedOpened,
           MoreLoaded, Copied, Archived, Restored, Reloaded, pageVars
    <2>6. ASSUME NEW r \in Slot, RequestStep(r) PROVE selected' = Nothing
      BY <2>6 DEF RequestStep, openArchivedHistory, loadMoreHistory, exportSelected, BatchSelected,
           BatchGroup, Batch, pageVars
    <2> QED
      BY <2>3, <2>4, <2>5, <2>6 DEF HistoryNext
  <1> QED
    BY <1>1, HistoryInvariance, PTL DEF HistorySpec, NothingHiddenIsSelected

(* A row leaves the main list only because the daemon has archived it, or  *)
(* by a refresh that is down to the first page, as long as nothing has     *)
(* spoiled a list (App.tsx, archiveTasks and refreshHistory;               *)
(* session-grouping-and-archive-design.md:584).                            *)
THEOREM RowsLeaveCorrect == HistorySpec => RowsLeaveForAReason
PROOF
  <1> DEFINE Old == Range(shelf) \cup Range(SubSeq(done, PageSize + 1, Len(done)))
             Step == torn = {} /\ torn' = {} => \A t \in Range(history) \ Range(history') : t \in Old
  <1>1. HistoryInv /\ [HistoryNext]_viewVars => Step
    <2> SUFFICES ASSUME HistoryInv, [HistoryNext]_viewVars, torn = {}, torn' = {}
                 PROVE  \A t \in Range(history) \ Range(history') : t \in Old
      OBVIOUS
    <2>1. ListsShape /\ CallsShape /\ Apart /\ \A r \in Slot : Alone(calls[r])
      BY DEF HistoryInv, RowsInv
    <2>2. ASSUME NEW r \in Slot, Loaded(r) \/ Refreshed(r) \/ Reloaded(r)
          PROVE  \A t \in Range(history) \ Range(history') : t \in Old
      <3>1. /\ calls[r].kind \in Fetch /\ calls[r].pc = "answered" /\ history' = calls[r].answer
            /\ Sets(r, {"history"})
        BY <2>2 DEF Loaded, Refreshed, Reloaded, Answered, Fetch
      <3>2. calls[r].alone
        BY <3>1 DEF Sets, Both
      <3>3. FetchedAlone(calls[r])
        BY <2>1, <3>1, <3>2 DEF Alone
      <3> QED
        BY <3>1, <3>3 DEF FetchedAlone
    <2>3. ASSUME NEW r \in Slot, Archived(r)
          PROVE  \A t \in Range(history) \ Range(history') : t \in Old
      <3>1. /\ calls[r].kind = "archive" /\ calls[r].pc = "answered"
            /\ history' = Without(historyRef, calls[r].ids) /\ Sets(r, {"archived"})
        BY <2>3 DEF Archived, Answered
      <3>2. calls[r].alone
        BY <3>1 DEF Sets, Both
      <3>3. historyRef = history
        BY <2>1, <3>1, <3>2 DEF Alone, BatchAlone
      <3>4. calls[r].ids \subseteq Range(shelf)
        BY <2>1, <3>1 DEF Apart, Stored
      <3>5. Range(history') = Range(history) \ calls[r].ids
        BY <2>1, <3>1, <3>3, WithoutKeeps DEF ListsShape
      <3> QED
        BY <3>4, <3>5
    <2>4. ASSUME NEW r \in Slot, MoreLoaded(r) PROVE Range(history) \subseteq Range(history')
      <3>1. history \in Seq(Task) /\ calls[r].answer \in Seq(Task)
        BY <2>1 DEF ListsShape, CallsShape, Request
      <3>2. history' = history \/ history' = history \o calls[r].answer
        BY <2>4 DEF MoreLoaded
      <3>3. Range(history \o calls[r].answer) = Range(history) \cup Range(calls[r].answer)
        BY <3>1, ConcatElements
      <3> QED
        BY <3>2, <3>3
    <2>5. ASSUME NEW r \in Slot, TabStep(r)
          PROVE  \A t \in Range(history) \ Range(history') : t \in Old
      <3>1. \/ UNCHANGED history \/ Loaded(r) \/ Refreshed(r) \/ Reloaded(r) \/ Archived(r)
            \/ MoreLoaded(r)
        BY <2>5 DEF TabStep, Serve, Refuse, Fails, Hear, Refresh, ArchivedOpened, Copied, Restored,
             pageVars, historyVars
      <3> QED
        BY <2>2, <2>3, <2>4, <3>1
    <2>6. ASSUME NEW r \in Slot, RequestStep(r) PROVE UNCHANGED history
      BY <2>6 DEF RequestStep, openArchivedHistory, loadMoreHistory, exportSelected, BatchSelected,
           BatchGroup, Batch, pageVars, historyVars
    <2>7. CASE LookStep
      BY <2>7 DEF LookStep, ChangeTab, Select, toggleTaskSelection, OpenReplacement, backToMainHistory,
           SelectQuestion, enterHistorySelectionMode, exitHistorySelectionMode, selectAllHistory,
           invertHistorySelection, toggleGroupSelection, historyVars
    <2>8. CASE WorldStep \/ Effect \/ UNCHANGED viewVars
      BY <2>8 DEF WorldStep, Complete, BatchElsewhere, Effect, viewVars, pageVars, historyVars
    <2> QED
      BY <2>5, <2>6, <2>7, <2>8 DEF HistoryNext
  <1> QED
    BY <1>1, HistoryInvariance, PTL DEF HistorySpec, RowsLeaveForAReason

(* The reader of the main list stays with its row: it leaves by the user's *)
(* hand, by the first load, or because this tab's batch has archived it    *)
(* (App.tsx and focus.ts, selectTask, changeSurface, applyArchiveResult).  *)
THEOREM ReaderKeepsCorrect == HistorySpec => ReaderKeepsItsRow
PROOF
  <1> DEFINE Reason(t) ==
               \/ t \in Range(shelf) \/ torn # {}
               \/ focus'.surface = "history" /\ focus'.history.kind = "task" /\ UNCHANGED history
               \/ \E r \in Slot : Loaded(r)
             Step == \A t \in Task :
                       focus.history = focusTask(t) /\ focus'.history # focus.history => Reason(t)
  <1>1. HistoryInv /\ [HistoryNext]_viewVars => Step
    <2> SUFFICES ASSUME HistoryInv, [HistoryNext]_viewVars, NEW t \in Task,
                        focus.history = focusTask(t), focus'.history # focus.history
                 PROVE  Reason(t)
      OBVIOUS
    <2>1. HistoryAssumption /\ ViewShape /\ Apart
      BY HistoryAssumption DEF HistoryInv, RowsInv
    <2>2. focus \in [surface : Surface, history : SurfaceFocus]
      BY <2>1 DEF ViewShape
    <2>3. \A s : changeSurface(focus, s).history = focus.history
      BY <2>2 DEF changeSurface
    <2>4. ASSUME NEW u \in Task, focus' = Open(u), UNCHANGED history PROVE Reason(t)
      <3>1. view = "history"
        BY <2>3, <2>4 DEF Open
      <3>2. focus' = selectTask(focus, "history", u)
        BY <2>4, <3>1 DEF Open
      <3>3. focus'.surface = "history" /\ focus'.history = focusTask(u)
        BY <2>2, <3>2 DEF selectTask
      <3>4. focus'.history.kind = "task"
        BY <3>3 DEF focusTask
      <3> QED
        BY <2>4, <3>3, <3>4
    <2>5. ASSUME NEW r \in Slot, Archived(r), torn = {} PROVE t \in Range(shelf)
      <3>1. /\ calls[r].kind = "archive" /\ calls[r].pc = "answered"
            /\ focus' = applyArchiveResult(focus, calls[r].ids)
        BY <2>5 DEF Archived, Answered
      <3>2. focus.history.task \in calls[r].ids
        BY <3>1 DEF applyArchiveResult
      <3>3. focus.history.task = t
        BY DEF focusTask
      <3> QED
        BY <2>1, <2>5, <3>1, <3>2, <3>3 DEF Apart, Stored
    <2>6. CASE LookStep
      <3>1. \/ UNCHANGED focus
            \/ \E s : focus' = changeSurface(focus, s)
            \/ \E u \in Task : focus' = Open(u) /\ UNCHANGED history
        BY <2>6 DEF LookStep, ChangeTab, Select, toggleTaskSelection, OpenReplacement,
             backToMainHistory, SelectQuestion, enterHistorySelectionMode,
             exitHistorySelectionMode, selectAllHistory, invertHistorySelection,
             toggleGroupSelection, historyVars
      <3> QED
        BY <2>3, <2>4, <3>1
    <2>7. CASE WorldStep \/ Effect \/ UNCHANGED viewVars
      BY <2>7 DEF WorldStep, Complete, BatchElsewhere, Effect, viewVars, pageVars
    <2>8. ASSUME NEW r \in Slot, TabStep(r) PROVE Reason(t)
      <3>1. UNCHANGED focus \/ Loaded(r) \/ Archived(r)
        BY <2>8 DEF TabStep, Serve, Refuse, Fails, Hear, Refresh, Refreshed, ArchivedOpened,
             MoreLoaded, Copied, Restored, Reloaded, pageVars
      <3> QED
        BY <2>5, <3>1
    <2>9. ASSUME NEW r \in Slot, RequestStep(r) PROVE UNCHANGED focus \/ focus' = changeSurface(focus, "archived")
      BY <2>9 DEF RequestStep, openArchivedHistory, loadMoreHistory, exportSelected, BatchSelected,
           BatchGroup, Batch, pageVars
    <2> QED
      BY <2>3, <2>6, <2>7, <2>8, <2>9 DEF HistoryNext
  <1> QED
    BY <1>1, HistoryInvariance, PTL DEF HistorySpec, ReaderKeepsItsRow
=============================================================================
