----------------------------- MODULE ListProofs -----------------------------
(***************************************************************************)
(* What filtering and sorting a list return, preserve and bound, for every *)
(* list.                                                                   *)
(* Within is defined by recursion; a fact that failed for some number of   *)
(* elements would fail for a least one, and each step of the recursion     *)
(* rules that out.                                                         *)
(***************************************************************************)
EXTENDS Lists, SequencesExt, FiniteSetTheorems, WellFoundedInduction, TLAPS

(* A set of numbers that is not empty has a least element.                 *)
LEMMA LeastNumber ==
    ASSUME NEW T, T \subseteq Nat, T # {}
    PROVE  \E n \in T : \A m \in T : n <= m
PROOF
  <1>1. PICK n \in T : \A m \in T : ~ (<<m, n>> \in OpToRel(<, Nat))
    BY WFMin, NatLessThanWellFounded
  <1>2. \A m \in T : ~ (m < n)
    BY <1>1 DEF OpToRel
  <1> QED
    BY <1>2

(* A set that contains 0 and, with i, i + 1 contains every number up to n. *)
LEMMA EveryNumber ==
    ASSUME NEW n \in Nat, NEW T, 0 \in T, \A i \in 0..n : i # n /\ i \in T => i + 1 \in T
    PROVE  \A i \in 0..n : i \in T
PROOF
  <1> DEFINE Wrong == (0..n) \ T
  <1>1. SUFFICES ASSUME Wrong # {} PROVE FALSE
    OBVIOUS
  <1>2. Wrong \subseteq Nat
    OBVIOUS
  <1>3. PICK m \in Wrong : \A i \in Wrong : m <= i
    BY <1>1, <1>2, LeastNumber
  <1>4. m # 0 /\ m \in 0..n
    OBVIOUS
  <1>5. m - 1 \in 0..n /\ m - 1 # n /\ ~ (m <= m - 1) /\ (m - 1) + 1 = m
    BY <1>4
  <1>6. m - 1 \in T
    BY <1>3, <1>5
  <1> QED
    BY <1>5, <1>6

(* What Within has kept of the first n elements, for every n up to a last. *)
Partial(kept, list, S, i) ==
    IF i = 0 THEN <<>>
    ELSE IF list[i] \in S THEN Append(kept[i - 1], list[i]) ELSE kept[i - 1]

(* The recursive function a fold is defined by, here on all beginnings of  *)
(* the list.                                                               *)
Unfolds(kept, list, S, last) == kept = [i \in 0..last |-> Partial(kept, list, S, i)]

(* The recursion has a solution, built up element by element.              *)
LEMMA SolutionExists ==
    ASSUME NEW X, NEW list \in Seq(X), NEW S
    PROVE  \E kept : Unfolds(kept, list, S, Len(list))
PROOF
  <1> DEFINE T == {i \in 0..Len(list) : \E kept : Unfolds(kept, list, S, i)}
  <1>1. 0 \in T
    <2>1. Unfolds([i \in 0..0 |-> <<>>], list, S, 0)
      BY DEF Unfolds, Partial
    <2> QED
      BY <2>1
  <1>2. ASSUME NEW i \in 0..Len(list), i # Len(list), i \in T
        PROVE  i + 1 \in T
    <2>1. PICK kept : Unfolds(kept, list, S, i)
      BY <1>2
    <2> DEFINE next == Partial(kept, list, S, i + 1)
               more == [j \in 0..(i + 1) |-> IF j = i + 1 THEN next ELSE kept[j]]
    <2>2. \A j \in 0..(i + 1) : j # i + 1 => j \in 0..i /\ (j # 0 => j - 1 \in 0..i /\ j - 1 # i + 1)
      OBVIOUS
    <2>3. i + 1 # 0 /\ i \in 0..i /\ (i + 1) - 1 = i /\ i # i + 1 /\ 0..i \subseteq 0..(i + 1)
      OBVIOUS
    <2>4. \A j \in 0..i : more[j] = kept[j]
      BY <2>3
    <2>5. \A j \in 0..i : kept[j] = Partial(kept, list, S, j)
      BY <2>1 DEF Unfolds
    <2>6. \A j \in 0..i : Partial(more, list, S, j) = Partial(kept, list, S, j)
      BY <2>2, <2>3, <2>4 DEF Partial
    <2>7. Partial(more, list, S, i + 1) = next
      BY <2>3, <2>4 DEF Partial
    <2>8. \A j \in 0..(i + 1) : more[j] = Partial(more, list, S, j)
      BY <2>2, <2>4, <2>5, <2>6, <2>7
    <2> HIDE DEF next
    <2>9. Unfolds(more, list, S, i + 1)
      BY <2>8 DEF Unfolds
    <2> HIDE DEF more
    <2>10. i + 1 \in 0..Len(list)
      BY <1>2
    <2> QED
      BY <2>9, <2>10
  <1>3. Len(list) \in Nat /\ Len(list) \in 0..Len(list)
    OBVIOUS
  <1> HIDE DEF T
  <1>4. Len(list) \in T
    BY <1>1, <1>2, <1>3, EveryNumber
  <1> QED
    BY <1>4 DEF T

(* Within returns the last of its partial results.                         *)
LEMMA WithinUnfolds ==
    ASSUME NEW X, NEW list \in Seq(X), NEW S
    PROVE  \E kept : Unfolds(kept, list, S, Len(list)) /\ Within(list, S) = kept[Len(list)]
PROOF
  <1> DEFINE solution == CHOOSE kept : Unfolds(kept, list, S, Len(list))
  <1>1. Unfolds(solution, list, S, Len(list))
    BY SolutionExists
  <1>2. Within(list, S) = solution[Len(list)]
    BY Zenon DEF Within, Unfolds, Partial
  <1> QED
    BY <1>1, <1>2

(* Append adds an element, and keeps distinct elements distinct.           *)
LEMMA AppendElements ==
    ASSUME NEW X, NEW s \in Seq(X), NEW x \in X
    PROVE  /\ Range(Append(s, x)) = Range(s) \cup {x}
           /\ IsInjective(s) /\ x \notin Range(s) => IsInjective(Append(s, x))
PROOF
  <1>1. DOMAIN Append(s, x) = 1..(Len(s) + 1) /\ DOMAIN s = 1..Len(s) /\ Len(s) \in Nat
    OBVIOUS
  <1>2. \A j \in 1..Len(s) : Append(s, x)[j] = s[j]
    OBVIOUS
  <1>3. Append(s, x)[Len(s) + 1] = x
    OBVIOUS
  <1>4. \A j \in 1..(Len(s) + 1) : j = Len(s) + 1 \/ j \in 1..Len(s)
    BY <1>1
  <1>5. 1..Len(s) \subseteq 1..(Len(s) + 1) /\ Len(s) + 1 \in 1..(Len(s) + 1)
    BY <1>1
  <1>6. Range(Append(s, x)) = Range(s) \cup {x}
    BY <1>1, <1>2, <1>3, <1>4, <1>5 DEF Range
  <1>7. IsInjective(s) /\ x \notin Range(s) => IsInjective(Append(s, x))
    BY <1>1, <1>2, <1>3, <1>4 DEF Range, IsInjective
  <1> QED
    BY <1>6, <1>7

(* What the filter has kept of the first i elements.                       *)
Keeps(s, list, S, X, i) ==
    /\ s \in Seq(X) /\ Len(s) <= i
    /\ Range(s) = {list[j] : j \in 1..i} \cap S
    /\ IsInjective(list) => IsInjective(s)

(* The filter returns a list of the elements in S, each as often as before *)
(* at most, and no longer than before.                                     *)
LEMMA WithinKeeps ==
    ASSUME NEW X, NEW list \in Seq(X), NEW S
    PROVE  /\ Within(list, S) \in Seq(X)
           /\ Range(Within(list, S)) = Range(list) \cap S
           /\ Len(Within(list, S)) <= Len(list)
           /\ IsInjective(list) => IsInjective(Within(list, S))
PROOF
  <1>1. PICK kept : Unfolds(kept, list, S, Len(list)) /\ Within(list, S) = kept[Len(list)]
    BY WithinUnfolds
  <1> DEFINE T == {i \in 0..Len(list) : Keeps(kept[i], list, S, X, i)}
  <1> HIDE DEF T
  <1>2. Len(list) \in Nat /\ DOMAIN list = 1..Len(list) /\ Len(list) \in 0..Len(list)
    OBVIOUS
  <1>3. 0 \in T
    <2>1. kept[0] = <<>>
      BY <1>1, <1>2 DEF Unfolds, Partial
    <2>2. Keeps(<<>>, list, S, X, 0)
      BY DEF Keeps, Range, IsInjective
    <2> QED
      BY <1>2, <2>1, <2>2 DEF T
  <1>4. ASSUME NEW i \in 0..Len(list), i # Len(list), i \in T
        PROVE  i + 1 \in T
    <2> DEFINE s == kept[i]
               x == list[i + 1]
    <2>1. i + 1 \in 0..Len(list) /\ i + 1 \in DOMAIN list /\ i + 1 # 0 /\ (i + 1) - 1 = i
                /\ i \in Nat
      <3>1. \A k \in Nat : i \in 0..k /\ i # k =>
                i + 1 \in 0..k /\ i + 1 \in 1..k /\ i + 1 # 0 /\ (i + 1) - 1 = i /\ i \in Nat
        OBVIOUS
      <3> QED
        BY <1>2, <1>4, <3>1
    <2>2. x \in X
      BY <2>1
    <2>3. kept[i + 1] = IF x \in S THEN Append(s, x) ELSE s
      BY <1>1, <2>1 DEF Unfolds, Partial
    <2>4. Keeps(s, list, S, X, i)
      BY <1>4 DEF T
    <2>5. {list[j] : j \in 1..(i + 1)} = {list[j] : j \in 1..i} \cup {x}
      <3>1. \A j \in 1..(i + 1) : j = i + 1 \/ j \in 1..i
        OBVIOUS
      <3>2. 1..i \subseteq 1..(i + 1) /\ i + 1 \in 1..(i + 1)
        OBVIOUS
      <3> QED
        BY <3>1, <3>2
    <2>6. IsInjective(list) => x \notin {list[j] : j \in 1..i}
      <3>1. \A j \in 1..i : j \in DOMAIN list /\ j # i + 1
        BY <1>2
      <3> QED
        BY <2>1, <3>1 DEF IsInjective
    <2> HIDE DEF s, x
    <2>7. CASE x \in S
      <3>1. Append(s, x) \in Seq(X) /\ Len(Append(s, x)) <= i + 1
        BY <2>2, <2>4 DEF Keeps
      <3>2. Range(Append(s, x)) = Range(s) \cup {x}
        BY <2>2, <2>4, AppendElements DEF Keeps
      <3>3. IsInjective(list) => IsInjective(Append(s, x))
        BY <2>2, <2>4, <2>6, AppendElements DEF Keeps
      <3>4. Keeps(Append(s, x), list, S, X, i + 1)
        BY <2>4, <2>5, <2>7, <3>1, <3>2, <3>3 DEF Keeps
      <3> QED
        BY <2>1, <2>3, <2>7, <3>4 DEF T
    <2>8. CASE x \notin S
      <3>1. Len(s) <= i + 1
        BY <2>1, <2>4 DEF Keeps
      <3>2. {list[j] : j \in 1..(i + 1)} \cap S = {list[j] : j \in 1..i} \cap S
        BY <2>5, <2>8
      <3>3. Keeps(s, list, S, X, i + 1)
        BY <2>4, <3>1, <3>2 DEF Keeps
      <3> QED
        BY <2>1, <2>3, <2>8, <3>3 DEF T
    <2> QED
      BY <2>7, <2>8
  <1>5. Len(list) \in T
    BY <1>2, <1>3, <1>4, EveryNumber
  <1>6. Keeps(Within(list, S), list, S, X, Len(list))
    BY <1>1, <1>5 DEF T
  <1> QED
    BY <1>2, <1>6 DEF Keeps, Range

(* The same of the elements that are not in S.                             *)
LEMMA WithoutKeeps ==
    ASSUME NEW X, NEW list \in Seq(X), NEW S
    PROVE  /\ Without(list, S) \in Seq(X)
           /\ Range(Without(list, S)) = Range(list) \ S
           /\ Len(Without(list, S)) <= Len(list)
           /\ IsInjective(list) => IsInjective(Without(list, S))
  BY WithinKeeps DEF Without

(* One more element at the front.                                          *)
LEMMA PrependElements ==
    ASSUME NEW X, NEW list \in Seq(X), NEW x \in X
    PROVE  /\ <<x>> \o list \in Seq(X)
           /\ Range(<<x>> \o list) = {x} \cup Range(list)
           /\ IsInjective(list) /\ x \notin Range(list) => IsInjective(<<x>> \o list)
PROOF
  <1> DEFINE more == <<x>> \o list
  <1>1. more \in Seq(X) /\ Len(more) = Len(list) + 1 /\ Len(list) \in Nat
    OBVIOUS
  <1>2. DOMAIN more = 1..(Len(list) + 1) /\ DOMAIN list = 1..Len(list)
    BY <1>1
  <1>3. more[1] = x /\ \A i \in 1..Len(list) : more[i + 1] = list[i]
    OBVIOUS
  <1>4. \A i \in 1..(Len(list) + 1) : i = 1 \/ (i - 1 \in 1..Len(list) /\ (i - 1) + 1 = i)
    BY <1>1
  <1>5. 1 \in 1..(Len(list) + 1) /\ \A i \in 1..Len(list) : i + 1 \in 1..(Len(list) + 1)
    BY <1>1
  <1> HIDE DEF more
  <1>6. \A i \in DOMAIN more : i = 1 \/ (i - 1 \in DOMAIN list /\ more[i] = list[i - 1])
    BY <1>2, <1>3, <1>4
  <1>7. Range(more) = {x} \cup Range(list)
    <2>1. Range(more) \subseteq {x} \cup Range(list)
      BY <1>3, <1>6 DEF Range
    <2>2. {x} \cup Range(list) \subseteq Range(more)
      BY <1>2, <1>3, <1>5 DEF Range
    <2> QED
      BY <2>1, <2>2
  <1>8. IsInjective(list) /\ x \notin Range(list) => IsInjective(more)
    <2> SUFFICES ASSUME IsInjective(list), x \notin Range(list),
                        NEW i \in DOMAIN more, NEW j \in DOMAIN more, more[i] = more[j]
                 PROVE  i = j
      BY DEF IsInjective
    <2>1. CASE i = 1 \/ j = 1
      BY <1>3, <1>6, <2>1 DEF Range
    <2>2. CASE i # 1 /\ j # 1
      <3>1. i - 1 = j - 1
        BY <1>6, <2>2 DEF IsInjective
      <3> QED
        BY <1>2, <3>1
    <2> QED
      BY <2>1, <2>2
  <1> QED
    BY <1>1, <1>7, <1>8 DEF more

(* A concatenation has the elements of both its parts.                     *)
LEMMA ConcatElements ==
    ASSUME NEW X, NEW s \in Seq(X), NEW u \in Seq(X)
    PROVE  s \o u \in Seq(X) /\ Range(s \o u) = Range(s) \cup Range(u)
PROOF
  <1> DEFINE both == s \o u
  <1>1. both \in Seq(X) /\ Len(both) = Len(s) + Len(u) /\ Len(s) \in Nat /\ Len(u) \in Nat
    OBVIOUS
  <1>2. DOMAIN both = 1..(Len(s) + Len(u)) /\ DOMAIN s = 1..Len(s) /\ DOMAIN u = 1..Len(u)
    BY <1>1
  <1>3. /\ \A i \in 1..Len(s) : both[i] = s[i]
        /\ \A i \in 1..Len(u) : both[Len(s) + i] = u[i]
    OBVIOUS
  <1> HIDE DEF both
  <1>4. \A i \in DOMAIN both :
            i \in DOMAIN s \/ (i - Len(s) \in DOMAIN u /\ Len(s) + (i - Len(s)) = i)
    BY <1>1, <1>2
  <1>5. DOMAIN s \subseteq DOMAIN both /\ \A i \in DOMAIN u : Len(s) + i \in DOMAIN both
    BY <1>1, <1>2
  <1>6. Range(both) \subseteq Range(s) \cup Range(u)
    <2> SUFFICES ASSUME NEW i \in DOMAIN both PROVE both[i] \in Range(s) \cup Range(u)
      BY DEF Range
    <2> QED
      BY <1>2, <1>3, <1>4 DEF Range
  <1>7. Range(s) \cup Range(u) \subseteq Range(both)
    BY <1>2, <1>3, <1>5 DEF Range
  <1> QED
    BY <1>1, <1>6, <1>7 DEF both

(* Two lists of distinct elements without a common one, joined.            *)
LEMMA ConcatDistinct ==
    ASSUME NEW X, NEW s \in Seq(X), NEW u \in Seq(X), IsInjective(s), IsInjective(u),
           Range(s) \cap Range(u) = {}
    PROVE  IsInjective(s \o u)
PROOF
  <1> DEFINE both == s \o u
  <1>1. both \in Seq(X) /\ Len(both) = Len(s) + Len(u) /\ Len(s) \in Nat /\ Len(u) \in Nat
    OBVIOUS
  <1>2. DOMAIN both = 1..(Len(s) + Len(u)) /\ DOMAIN s = 1..Len(s) /\ DOMAIN u = 1..Len(u)
    BY <1>1
  <1>3. /\ \A i \in 1..Len(s) : both[i] = s[i]
        /\ \A i \in 1..Len(u) : both[Len(s) + i] = u[i]
    OBVIOUS
  <1> HIDE DEF both
  <1>4. \A i \in DOMAIN both :
            i \in DOMAIN s \/ \E j \in DOMAIN u : i = Len(s) + j
    <2>1. \A i \in DOMAIN both :
            i \in DOMAIN s \/ (i - Len(s) \in DOMAIN u /\ Len(s) + (i - Len(s)) = i)
      BY <1>1, <1>2
    <2> QED
      BY <2>1
  <1>5. SUFFICES ASSUME NEW i \in DOMAIN both, NEW j \in DOMAIN both, both[i] = both[j]
                 PROVE  i = j
    BY DEF IsInjective, both
  <1>6. CASE i \in DOMAIN s /\ j \in DOMAIN s
    BY <1>2, <1>3, <1>5, <1>6 DEF IsInjective
  <1>7. ASSUME i \notin DOMAIN s, j \notin DOMAIN s PROVE i = j
    <2>1. PICK k \in DOMAIN u : i = Len(s) + k
      BY <1>4, <1>7
    <2>2. PICK l \in DOMAIN u : j = Len(s) + l
      BY <1>4, <1>7
    <2>3. u[k] = u[l]
      BY <1>2, <1>3, <1>5, <2>1, <2>2
    <2> QED
      BY <2>1, <2>2, <2>3 DEF IsInjective
  <1>8. \A k \in DOMAIN both, l \in DOMAIN both :
            k \in DOMAIN s /\ l \notin DOMAIN s => both[k] # both[l]
    <2> SUFFICES ASSUME NEW k \in DOMAIN both, NEW l \in DOMAIN both,
                        k \in DOMAIN s, l \notin DOMAIN s
                 PROVE  both[k] # both[l]
      OBVIOUS
    <2>1. PICK m \in DOMAIN u : l = Len(s) + m
      BY <1>4
    <2>2. both[k] = s[k] /\ both[l] = u[m]
      BY <1>2, <1>3, <2>1
    <2> QED
      BY <2>2 DEF Range
  <1> QED
    BY <1>5, <1>6, <1>7, <1>8

(* The first elements of a list, and all but its first, are elements of it. *)
LEMMA PartElements ==
    ASSUME NEW X, NEW s \in Seq(X)
    PROVE  /\ s # <<>> => Tail(s) \in Seq(X) /\ Len(Tail(s)) = Len(s) - 1
                          /\ Head(s) \in X /\ Range(s) = {Head(s)} \cup Range(Tail(s))
           /\ \A n \in 0..Len(s) : /\ SubSeq(s, 1, n) \in Seq(X) /\ Len(SubSeq(s, 1, n)) = n
                                   /\ Range(SubSeq(s, 1, n)) \subseteq Range(s)
PROOF
  <1>1. ASSUME s # <<>>
        PROVE  Tail(s) \in Seq(X) /\ Len(Tail(s)) = Len(s) - 1
                          /\ Head(s) \in X /\ Range(s) = {Head(s)} \cup Range(Tail(s))
    <2>1. Tail(s) \in Seq(X) /\ Head(s) \in X /\ s = <<Head(s)>> \o Tail(s) /\ Len(Tail(s)) = Len(s) - 1
      BY <1>1
    <2>2. Range(<<Head(s)>> \o Tail(s)) = {Head(s)} \cup Range(Tail(s))
      BY <2>1, PrependElements
    <2> QED
      BY <2>1, <2>2
  <1>2. ASSUME NEW n \in 0..Len(s)
        PROVE  /\ SubSeq(s, 1, n) \in Seq(X) /\ Len(SubSeq(s, 1, n)) = n
               /\ Range(SubSeq(s, 1, n)) \subseteq Range(s)
    <2> DEFINE first == SubSeq(s, 1, n)
    <2>1. first \in Seq(X) /\ Len(first) = n /\ \A i \in 1..n : first[i] = s[i]
      OBVIOUS
    <2>2. DOMAIN first = 1..n /\ 1..n \subseteq DOMAIN s
      BY <2>1
    <2> HIDE DEF first
    <2>3. Range(first) \subseteq Range(s)
      BY <2>1, <2>2 DEF Range
    <2> QED
      BY <2>1, <2>3 DEF first
  <1> QED
    BY <1>1, <1>2

-----------------------------------------------------------------------------
(* Filters of filters and of the first elements.                           *)

(* There is nothing in an empty list.                                      *)
LEMMA WithinNothing == \A S : Within(<<>>, S) = <<>>
PROOF
  <1> TAKE S
  <1>1. <<>> \in Seq({}) /\ Len(<<>>) = 0
    OBVIOUS
  <1>2. PICK kept : Unfolds(kept, <<>>, S, 0) /\ Within(<<>>, S) = kept[0]
    BY <1>1, WithinUnfolds
  <1> QED
    BY <1>2 DEF Unfolds, Partial

(* The filter decides on each element by itself.                           *)
LEMMA WithinAppend ==
    ASSUME NEW X, NEW list \in Seq(X), NEW x \in X, NEW S
    PROVE  Within(Append(list, x), S) =
                IF x \in S THEN Append(Within(list, S), x) ELSE Within(list, S)
PROOF
  <1> DEFINE more == Append(list, x)
             n == Len(list)
  <1>1. /\ more \in Seq(X) /\ n \in Nat /\ Len(more) = n + 1 /\ more[n + 1] = x
        /\ \A i \in 1..n : more[i] = list[i]
    OBVIOUS
  <1> HIDE DEF more
  <1>2. PICK kept : Unfolds(kept, list, S, n) /\ Within(list, S) = kept[n]
    BY WithinUnfolds
  <1>3. PICK long : Unfolds(long, more, S, n + 1) /\ Within(more, S) = long[n + 1]
    BY <1>1, WithinUnfolds
  <1> HIDE DEF n
  <1> DEFINE T == {i \in 0..n : long[i] = kept[i]}
  <1>4. 0 \in T
    BY <1>1, <1>2, <1>3 DEF Unfolds, Partial
  <1>5. ASSUME NEW i \in 0..n, i # n, i \in T
        PROVE  i + 1 \in T
    <2>1. i + 1 \in 0..n /\ i + 1 \in 0..(n + 1) /\ i + 1 # 0 /\ (i + 1) - 1 = i /\ i + 1 \in 1..n
      <3>1. n \in Nat /\ i \in 0..n /\ i # n
        BY <1>1, <1>5
      <3> QED
        BY <3>1
    <2>2. long[i + 1] = Partial(long, more, S, i + 1) /\ kept[i + 1] = Partial(kept, list, S, i + 1)
      BY <1>2, <1>3, <2>1 DEF Unfolds
    <2> QED
      BY <1>1, <1>5, <2>1, <2>2 DEF Partial
  <1>6. \A i \in 0..n : i \in T
    <2> HIDE DEF T
    <2> QED
      BY <1>1, <1>4, <1>5, EveryNumber
  <1>7. long[n] = kept[n]
    BY <1>1, <1>6
  <1>8. n + 1 \in 0..(n + 1) /\ n + 1 # 0 /\ (n + 1) - 1 = n
    BY <1>1
  <1>9. long[n + 1] = IF x \in S THEN Append(kept[n], x) ELSE kept[n]
    BY <1>1, <1>3, <1>7, <1>8 DEF Unfolds, Partial
  <1> QED
    BY <1>2, <1>3, <1>9 DEF more

(* The first elements of a list, one by one.                               *)
LEMMA FirstElements ==
    ASSUME NEW X, NEW list \in Seq(X)
    PROVE  /\ SubSeq(list, 1, 0) = <<>> /\ SubSeq(list, 1, Len(list)) = list
           /\ \A i \in 0..Len(list) : i # Len(list) =>
                /\ SubSeq(list, 1, i) \in Seq(X) /\ list[i + 1] \in X /\ i + 1 \in DOMAIN list
                /\ SubSeq(list, 1, i + 1) = Append(SubSeq(list, 1, i), list[i + 1])
PROOF
  <1>1. SubSeq(list, 1, 0) = <<>> /\ SubSeq(list, 1, Len(list)) = list
    OBVIOUS
  <1>2. ASSUME NEW i \in 0..Len(list), i # Len(list)
        PROVE  /\ SubSeq(list, 1, i) \in Seq(X) /\ list[i + 1] \in X /\ i + 1 \in DOMAIN list
               /\ SubSeq(list, 1, i + 1) = Append(SubSeq(list, 1, i), list[i + 1])
    <2>1. i \in Nat /\ i + 1 \in 1..Len(list) /\ i + 1 <= Len(list)
      BY <1>2
    <2>2. SubSeq(list, 1, i) \in Seq(X) /\ Len(SubSeq(list, 1, i)) = i
            /\ SubSeq(list, 1, i + 1) \in Seq(X) /\ Len(SubSeq(list, 1, i + 1)) = i + 1
      BY <2>1
    <2>3. list[i + 1] \in X
      BY <2>1
    <2> QED
      BY <2>1, <2>2, <2>3
  <1> QED
    BY <1>1, <1>2

(* Two sets with the same elements of the list are the same to the filter. *)
LEMMA WithinSame ==
    ASSUME NEW X, NEW list \in Seq(X), NEW S, NEW T, S \cap Range(list) = T \cap Range(list)
    PROVE  Within(list, S) = Within(list, T)
PROOF
  <1> DEFINE Same == {i \in 0..Len(list) :
                        Within(SubSeq(list, 1, i), S) = Within(SubSeq(list, 1, i), T)}
  <1>1. 0 \in Same
    <2>1. SubSeq(list, 1, 0) = <<>> /\ 0 \in 0..Len(list)
      BY FirstElements
    <2> QED
      BY <2>1, WithinNothing
  <1>2. ASSUME NEW i \in 0..Len(list), i # Len(list), i \in Same
        PROVE  i + 1 \in Same
    <2> DEFINE first == SubSeq(list, 1, i)
               x == list[i + 1]
    <2>1. first \in Seq(X) /\ x \in X /\ i + 1 \in DOMAIN list
            /\ SubSeq(list, 1, i + 1) = Append(first, x)
      BY <1>2, FirstElements
    <2>2. Within(first, S) = Within(first, T) /\ i + 1 \in 0..Len(list)
      <3>1. i \in Same
        BY <1>2
      <3> QED
        BY <2>1, <3>1
    <2>3. x \in S <=> x \in T
      BY <2>1 DEF Range
    <2> HIDE DEF first, x
    <2>4. /\ Within(Append(first, x), S) = IF x \in S THEN Append(Within(first, S), x) ELSE Within(first, S)
          /\ Within(Append(first, x), T) = IF x \in T THEN Append(Within(first, T), x) ELSE Within(first, T)
      BY <2>1, WithinAppend
    <2> QED
      BY <2>1, <2>2, <2>3, <2>4
  <1>3. Len(list) \in Nat /\ Len(list) \in 0..Len(list)
    OBVIOUS
  <1> HIDE DEF Same
  <1>4. Len(list) \in Same
    BY <1>1, <1>2, <1>3, EveryNumber
  <1> QED
    BY <1>4, FirstElements DEF Same

(* What is left keeps its order.                                           *)
LEMMA WithinOrdered ==
    ASSUME NEW X, NEW list \in Seq(X), NEW S, NEW R,
           \A j, k \in DOMAIN list : j < k => <<list[j], list[k]>> \in R
    PROVE  \A j, k \in DOMAIN Within(list, S) : j < k => <<Within(list, S)[j], Within(list, S)[k]>> \in R
PROOF
  <1> DEFINE Ordered(s) == \A j, k \in DOMAIN s : j < k => <<s[j], s[k]>> \in R
             T == {i \in 0..Len(list) : Ordered(Within(SubSeq(list, 1, i), S))}
  <1>1. 0 \in T
    <2>1. Ordered(<<>>) /\ 0 \in 0..Len(list)
      OBVIOUS
    <2> HIDE DEF Ordered
    <2> QED
      BY <2>1, FirstElements, WithinNothing
  <1>2. ASSUME NEW i \in 0..Len(list), i # Len(list), i \in T
        PROVE  i + 1 \in T
    <2> DEFINE first == SubSeq(list, 1, i)
               x == list[i + 1]
               kept == Within(first, S)
    <2>1. first \in Seq(X) /\ x \in X /\ SubSeq(list, 1, i + 1) = Append(first, x)
      BY <1>2, FirstElements
    <2>2. kept \in Seq(X) /\ Range(kept) \subseteq Range(first)
      <3> HIDE DEF first
      <3>1. Within(first, S) \in Seq(X) /\ Range(Within(first, S)) = Range(first) \cap S
        BY <2>1, WithinKeeps
      <3> QED
        BY <3>1
    <2>3. Within(Append(first, x), S) = IF x \in S THEN Append(kept, x) ELSE kept
      BY <2>1, WithinAppend, ZenonT(30)
    <2>4. Ordered(kept) /\ i + 1 \in 0..Len(list)
      <3>1. i \in T /\ i + 1 \in 0..Len(list)
        BY <1>2, FirstElements
      <3> QED
        BY <3>1
    <2>5. \A y \in Range(first) : <<y, x>> \in R
      <3>1. /\ i \in Nat /\ Len(first) = i /\ DOMAIN first = 1..i /\ i + 1 \in DOMAIN list
            /\ \A j \in 1..i : first[j] = list[j] /\ j \in DOMAIN list /\ j < i + 1
        BY <1>2
      <3> QED
        BY <3>1 DEF Range
    <2>6. Ordered(Append(kept, x))
      <3> HIDE DEF kept, x, first
      <3> DEFINE more == Append(kept, x)
                 n == Len(kept)
      <3>1. /\ n \in Nat /\ DOMAIN kept = 1..n /\ DOMAIN more = 1..(n + 1) /\ more[n + 1] = x
            /\ \A j \in 1..n : more[j] = kept[j]
        BY <2>1, <2>2
      <3>2. \A j \in 1..n : kept[j] \in Range(first)
        BY <2>2, <3>1 DEF Range
      <3> HIDE DEF more, n
      <3>3. \A j, k \in 1..(n + 1) : j < k => <<more[j], more[k]>> \in R
        <4>1. SUFFICES ASSUME NEW j \in 1..(n + 1), NEW k \in 1..(n + 1), j < k
                       PROVE  <<more[j], more[k]>> \in R
          OBVIOUS
        <4>2. j \in 1..n
          BY <3>1, <4>1
        <4>3. CASE k \in 1..n
          BY <2>4, <3>1, <4>1, <4>2, <4>3
        <4>4. CASE k \notin 1..n
          <5>1. k = n + 1
            BY <3>1, <4>4
          <5> QED
            BY <2>5, <3>1, <3>2, <4>2, <5>1
        <4> QED
          BY <4>3, <4>4
      <3> QED
        BY <3>1, <3>3 DEF more
    <2> HIDE DEF Ordered, kept, first
    <2>7. Ordered(Within(SubSeq(list, 1, i + 1), S))
      BY <2>1, <2>3, <2>4, <2>6
    <2> QED
      BY <2>4, <2>7
  <1>3. Len(list) \in Nat /\ Len(list) \in 0..Len(list)
    OBVIOUS
  <1> HIDE DEF T, Ordered
  <1>4. Len(list) \in T
    BY <1>1, <1>2, <1>3, EveryNumber
  <1>5. Ordered(Within(list, S))
    BY <1>4, FirstElements DEF T
  <1> QED
    BY <1>5 DEF Ordered

(* A filter of what a filter returned is one filter.                       *)
LEMMA WithinWithin ==
    ASSUME NEW X, NEW list \in Seq(X), NEW S, NEW T
    PROVE  Within(Within(list, S), T) = Within(list, S \cap T)
PROOF
  <1> DEFINE Same == {i \in 0..Len(list) :
                        Within(Within(SubSeq(list, 1, i), S), T) = Within(SubSeq(list, 1, i), S \cap T)}
  <1>1. 0 \in Same
    <2>1. SubSeq(list, 1, 0) = <<>> /\ 0 \in 0..Len(list)
      BY FirstElements
    <2> QED
      BY <2>1, WithinNothing
  <1>2. ASSUME NEW i \in 0..Len(list), i # Len(list), i \in Same
        PROVE  i + 1 \in Same
    <2> DEFINE first == SubSeq(list, 1, i)
               x == list[i + 1]
               kept == Within(first, S)
    <2>1. first \in Seq(X) /\ x \in X /\ SubSeq(list, 1, i + 1) = Append(first, x)
      BY <1>2, FirstElements
    <2>2. Within(kept, T) = Within(first, S \cap T) /\ i + 1 \in 0..Len(list)
      <3>1. i \in Same /\ i + 1 \in 0..Len(list)
        BY <1>2, FirstElements
      <3> QED
        BY <3>1
    <2> HIDE DEF first, x
    <2>3. kept \in Seq(X)
      BY <2>1, WithinKeeps
    <2>4. /\ Within(Append(first, x), S) = IF x \in S THEN Append(kept, x) ELSE kept
          /\ Within(Append(first, x), S \cap T) =
               IF x \in S \cap T THEN Append(Within(first, S \cap T), x) ELSE Within(first, S \cap T)
      BY <2>1, WithinAppend
    <2> HIDE DEF kept
    <2>5. Within(Append(kept, x), T) = IF x \in T THEN Append(Within(kept, T), x) ELSE Within(kept, T)
      BY <2>1, <2>3, WithinAppend
    <2> QED
      BY <2>1, <2>2, <2>4, <2>5
  <1>3. Len(list) \in Nat /\ Len(list) \in 0..Len(list)
    OBVIOUS
  <1> HIDE DEF Same
  <1>4. Len(list) \in Same
    BY <1>1, <1>2, <1>3, EveryNumber
  <1> QED
    BY <1>4, FirstElements DEF Same

(* What is filtered out twice may be filtered out at once.                 *)
LEMMA WithoutWithout ==
    ASSUME NEW X, NEW list \in Seq(X), NEW S, NEW T, NEW U, U \cap Range(list) = (S \cup T) \cap Range(list)
    PROVE  Without(Without(list, S), T) = Without(list, U)
PROOF
  <1> DEFINE left == Without(list, S)
             A == Range(list) \ S
             B == Range(left) \ T
  <1>1. left \in Seq(X) /\ Range(left) = Range(list) \ S
    BY WithoutKeeps
  <1>2. left = Within(list, A) /\ Without(left, T) = Within(left, B)
    BY DEF Without
  <1>3. Within(Within(list, A), B) = Within(list, A \cap B)
    BY WithinWithin
  <1>4. (A \cap B) \cap Range(list) = (Range(list) \ U) \cap Range(list)
    BY <1>1
  <1>5. Within(list, A \cap B) = Within(list, Range(list) \ U)
    BY <1>4, WithinSame
  <1> HIDE DEF A, B, left
  <1> QED
    BY <1>2, <1>3, <1>5 DEF Without, left

(* A prefix of a list has the same elements in the same places.            *)
LEMMA PrefixElements ==
    ASSUME NEW X, NEW s \in Seq(X), NEW t \in Seq(X)
    PROVE  IsPrefix(s, t) <=> Len(s) <= Len(t) /\ \A i \in 1..Len(s) : s[i] = t[i]
PROOF
  <1>1. ASSUME Len(s) <= Len(t)
        PROVE  SubSeq(s, 1, Len(s)) = SubSeq(t, 1, Len(s)) <=> \A i \in 1..Len(s) : s[i] = t[i]
    <2>1. SubSeq(s, 1, Len(s)) = s
      OBVIOUS
    <2>2. /\ SubSeq(t, 1, Len(s)) \in Seq(X) /\ Len(SubSeq(t, 1, Len(s))) = Len(s)
          /\ \A i \in 1..Len(s) : SubSeq(t, 1, Len(s))[i] = t[i]
      BY <1>1
    <2> QED
      BY <2>1, <2>2
  <1> QED
    BY <1>1 DEF IsPrefix

(* A prefix has elements of the list only.                                 *)
LEMMA PrefixRange ==
    ASSUME NEW X, NEW s \in Seq(X), NEW t \in Seq(X), IsPrefix(s, t)
    PROVE  Range(s) \subseteq Range(t)
PROOF
  <1>1. Len(s) <= Len(t) /\ (\A i \in 1..Len(s) : s[i] = t[i]) /\ Len(s) \in Nat /\ Len(t) \in Nat
    BY PrefixElements
  <1>2. DOMAIN s = 1..Len(s) /\ DOMAIN t = 1..Len(t) /\ 1..Len(s) \subseteq 1..Len(t)
    BY <1>1
  <1> QED
    BY <1>1, <1>2 DEF Range

(* A prefix of a prefix is a prefix.                                       *)
LEMMA PrefixIsTransitive ==
    ASSUME NEW X, NEW s \in Seq(X), NEW t \in Seq(X), NEW u \in Seq(X), IsPrefix(s, t), IsPrefix(t, u)
    PROVE  IsPrefix(s, u)
PROOF
  <1>1. Len(s) <= Len(t) /\ \A i \in 1..Len(s) : s[i] = t[i]
    BY PrefixElements
  <1>2. Len(t) <= Len(u) /\ \A i \in 1..Len(t) : t[i] = u[i]
    BY PrefixElements
  <1>3. Len(s) <= Len(u) /\ \A i \in 1..Len(s) : s[i] = u[i]
    BY <1>1, <1>2
  <1> QED
    BY <1>3, PrefixElements

(* What the filter keeps of the first elements comes first.                *)
LEMMA WithinFirst ==
    ASSUME NEW X, NEW list \in Seq(X), NEW S, NEW n \in 0..Len(list)
    PROVE  IsPrefix(Within(SubSeq(list, 1, n), S), Within(list, S))
PROOF
  <1> DEFINE kept(i) == Within(SubSeq(list, 1, i), S)
             T == {i \in 0..Len(list) : i < n \/ IsPrefix(kept(n), kept(i))}
  <1>1. \A i \in 0..Len(list) : SubSeq(list, 1, i) \in Seq(X)
    OBVIOUS
  <1>2. \A i \in 0..Len(list) : kept(i) \in Seq(X)
    BY <1>1, WithinKeeps
  <1>3. \A s \in Seq(X) : IsPrefix(s, s)
    BY PrefixElements
  <1>4. ASSUME NEW i \in 0..Len(list), i # Len(list), IsPrefix(kept(n), kept(i))
        PROVE  IsPrefix(kept(n), kept(i + 1))
    <2> DEFINE first == SubSeq(list, 1, i)
               x == list[i + 1]
    <2>1. first \in Seq(X) /\ x \in X /\ SubSeq(list, 1, i + 1) = Append(first, x)
      BY <1>4, FirstElements
    <2> HIDE DEF first, x
    <2>2. kept(i + 1) = IF x \in S THEN Append(Within(first, S), x) ELSE Within(first, S)
      BY <2>1, WithinAppend
    <2>3. Within(first, S) = kept(i)
      BY DEF first
    <2>4. kept(n) \in Seq(X) /\ kept(i) \in Seq(X)
      BY <1>2
    <2> HIDE DEF kept
    <2>5. Append(kept(i), x) \in Seq(X) /\ IsPrefix(kept(i), Append(kept(i), x))
      <3>1. \A s \in Seq(X) : Append(s, x) \in Seq(X) /\ Len(s) <= Len(Append(s, x))
                                /\ \A j \in 1..Len(s) : s[j] = Append(s, x)[j]
        BY <2>1
      <3> QED
        BY <2>4, <3>1, PrefixElements
    <2> QED
      BY <1>4, <2>2, <2>3, <2>4, <2>5, PrefixIsTransitive
  <1>5. Len(list) \in Nat /\ 0 \in 0..Len(list) /\ Len(list) \in 0..Len(list) /\ n \in Nat
          /\ (n = 0 \/ 0 < n) /\ ~ (Len(list) < n)
    OBVIOUS
  <1>6. IsPrefix(kept(n), kept(n))
    BY <1>2, <1>3
  <1> HIDE DEF kept
  <1>7. 0 \in T
    BY <1>5, <1>6
  <1>8. ASSUME NEW i \in 0..Len(list), i # Len(list), i \in T
        PROVE  i + 1 \in T
    <2>1. i + 1 \in 0..Len(list) /\ (i < n => i + 1 < n \/ i + 1 = n)
      BY <1>5, <1>8
    <2> QED
      BY <1>4, <1>6, <1>8, <2>1
  <1> HIDE DEF T
  <1>9. Len(list) \in T
    BY <1>5, <1>7, <1>8, EveryNumber
  <1>10. IsPrefix(kept(n), kept(Len(list)))
    BY <1>5, <1>9 DEF T
  <1> QED
    BY <1>10, FirstElements DEF kept

(* A prefix stays one when the same elements are filtered out.             *)
LEMMA WithoutPrefix ==
    ASSUME NEW X, NEW s \in Seq(X), NEW t \in Seq(X), NEW S, IsPrefix(s, t)
    PROVE  IsPrefix(Without(s, S), Without(t, S))
PROOF
  <1>1. Len(s) \in 0..Len(t) /\ s = SubSeq(t, 1, Len(s))
    BY DEF IsPrefix
  <1>2. Range(s) \subseteq Range(t)
    BY <1>1, PartElements
  <1>3. IsPrefix(Within(s, Range(t) \ S), Within(t, Range(t) \ S))
    BY <1>1, WithinFirst
  <1>4. Within(s, Range(t) \ S) = Within(s, Range(s) \ S)
    <2>1. (Range(t) \ S) \cap Range(s) = (Range(s) \ S) \cap Range(s)
      BY <1>2
    <2> QED
      BY <2>1, WithinSame
  <1> QED
    BY <1>3, <1>4 DEF Without

-----------------------------------------------------------------------------
(* Sorting.                                                                *)

(* A strict total order on a set, and what it is to be sorted by it.       *)
Orders(before, S) ==
    /\ \A x, y \in S : <<x, y>> \in before => <<y, x>> \notin before
    /\ \A x, y \in S : x # y => <<x, y>> \in before \/ <<y, x>> \in before
    /\ \A x, y, z \in S : <<x, y>> \in before /\ <<y, z>> \in before => <<x, z>> \in before

(* The list is S, once each, in the order before.                          *)
Arranges(list, S, before) ==
    /\ list \in [1..Cardinality(S) -> S]
    /\ \A i, j \in 1..Cardinality(S) : i < j => <<list[i], list[j]>> \in before

(* One element of a finite set comes after all others.                     *)
LEMMA LastElement ==
    ASSUME NEW S, IsFiniteSet(S), S # {}, NEW before, Orders(before, S)
    PROVE  \E x \in S : \A y \in S \ {x} : <<y, x>> \in before
PROOF
  <1> DEFINE HasLast(A) == \E x \in A : \A y \in A \ {x} : <<y, x>> \in before
             T == {n \in Nat : \A A \in SUBSET S : Cardinality(A) = n /\ A # {} => HasLast(A)}
  <1>1. Cardinality(S) \in Nat
    BY FS_CardinalityType
  <1>2. 0 \in T
    <2>1. \A A \in SUBSET S : Cardinality(A) = 0 => A = {}
      BY FS_Subset, FS_EmptySet
    <2> QED
      BY <2>1
  <1>3. ASSUME NEW i \in 0..Cardinality(S), i # Cardinality(S), i \in T
        PROVE  i + 1 \in T
    <2>1. SUFFICES ASSUME NEW A \in SUBSET S, Cardinality(A) = i + 1, A # {} PROVE HasLast(A)
      BY <1>3
    <2>2. PICK a \in A : TRUE
      BY <2>1
    <2>3. A \ {a} \in SUBSET S /\ Cardinality(A \ {a}) = i
      <3>1. IsFiniteSet(A) /\ Cardinality(A) \in Nat
        BY FS_Subset, FS_CardinalityType
      <3>2. Cardinality(A \ {a}) = Cardinality(A) - 1
        BY <3>1, FS_RemoveElement
      <3> QED
        BY <2>1, <3>1, <3>2
    <2>4. CASE A \ {a} = {}
      BY <2>2, <2>4
    <2>5. CASE A \ {a} # {}
      <3>1. HasLast(A \ {a})
        BY <1>3, <2>3, <2>5
      <3>2. PICK x \in A \ {a} : \A y \in (A \ {a}) \ {x} : <<y, x>> \in before
        BY <3>1
      <3>3. CASE <<a, x>> \in before
        BY <3>2, <3>3
      <3>4. CASE <<x, a>> \in before
        <4>1. \A y \in A \ {a} : <<y, a>> \in before
          BY <3>2, <3>4, <2>1 DEF Orders
        <4> QED
          BY <4>1
      <3> QED
        BY <3>2, <3>3, <3>4 DEF Orders
    <2> QED
      BY <2>4, <2>5
  <1> HIDE DEF T
  <1>4. Cardinality(S) \in T
    BY <1>1, <1>2, <1>3, EveryNumber
  <1> QED
    BY <1>4 DEF T

(* Every finite set can be sorted.                                         *)
LEMMA SortExists ==
    ASSUME NEW S, IsFiniteSet(S), NEW before, Orders(before, S)
    PROVE  \E list : Arranges(list, S, before)
PROOF
  <1> DEFINE T == {n \in Nat : \A A \in SUBSET S : Cardinality(A) = n => \E list : Arranges(list, A, before)}
  <1>1. Cardinality(S) \in Nat
    BY FS_CardinalityType
  <1>2. 0 \in T
    <2>1. SUFFICES ASSUME NEW A \in SUBSET S, Cardinality(A) = 0 PROVE \E list : Arranges(list, A, before)
      OBVIOUS
    <2>2. Arranges([i \in 1..0 |-> 0], A, before)
      BY <2>1 DEF Arranges
    <2> QED
      BY <2>2
  <1>3. ASSUME NEW i \in 0..Cardinality(S), i # Cardinality(S), i \in T
        PROVE  i + 1 \in T
    <2>1. SUFFICES ASSUME NEW A \in SUBSET S, Cardinality(A) = i + 1
                   PROVE  \E list : Arranges(list, A, before)
      BY <1>3
    <2>2. IsFiniteSet(A) /\ A # {} /\ i \in Nat
      BY <1>1, <2>1, FS_Subset, FS_EmptySet
    <2>3. PICK x \in A : \A y \in A \ {x} : <<y, x>> \in before
      <3>1. Orders(before, A)
        BY DEF Orders
      <3> QED
        BY <2>2, <3>1, LastElement
    <2>4. A \ {x} \in SUBSET S /\ Cardinality(A \ {x}) = i
      <3>1. Cardinality(A \ {x}) = Cardinality(A) - 1
        BY <2>1, <2>2, FS_RemoveElement, Zenon
      <3> QED
        BY <2>1, <3>1
    <2>5. PICK list : Arranges(list, A \ {x}, before)
      BY <1>3, <2>4
    <2>6. /\ list \in [1..i -> A \ {x}]
          /\ \A j, k \in 1..i : j < k => <<list[j], list[k]>> \in before
      BY <2>4, <2>5 DEF Arranges
    <2> DEFINE longer == [j \in 1..(i + 1) |-> IF j = i + 1 THEN x ELSE list[j]]
    <2>7. longer \in [1..(i + 1) -> A]
      BY <2>2, <2>6
    <2>8. ASSUME NEW j \in 1..(i + 1), NEW k \in 1..(i + 1), j < k
          PROVE  <<longer[j], longer[k]>> \in before
      <3>1. j \in 1..i /\ longer[j] = list[j] /\ longer[j] \in A \ {x}
        BY <2>2, <2>6, <2>8
      <3>2. CASE k = i + 1
        BY <2>2, <2>3, <3>1, <3>2
      <3>3. CASE k # i + 1
        BY <2>2, <2>6, <2>8, <3>1, <3>3
      <3> QED
        BY <3>2, <3>3
    <2> HIDE DEF longer
    <2>9. Arranges(longer, A, before)
      BY <2>1, <2>7, <2>8 DEF Arranges
    <2> QED
      BY <2>9
  <1> HIDE DEF T
  <1>4. Cardinality(S) \in T
    BY <1>1, <1>2, <1>3, EveryNumber
  <1> QED
    BY <1>4 DEF T

(* A sorted list has each element once.                                    *)
LEMMA SortedElements ==
    ASSUME NEW S, IsFiniteSet(S), NEW before, Orders(before, S), NEW list, Arranges(list, S, before)
    PROVE  /\ list \in Seq(S) /\ Len(list) = Cardinality(S) /\ DOMAIN list = 1..Cardinality(S)
           /\ IsInjective(list) /\ Range(list) = S
PROOF
  <1> DEFINE n == Cardinality(S)
  <1>1. n \in Nat /\ list \in [1..n -> S]
    BY FS_CardinalityType DEF Arranges
  <1>2. \A i, j \in 1..n : i < j => list[i] # list[j]
    BY <1>1 DEF Arranges, Orders
  <1>3. IsInjective(list)
    BY <1>1, <1>2 DEF IsInjective
  <1>4. Range(list) = S
    <2>1. list \in Injection(1..n, S) /\ 1 \in Int /\ n \in Int
      BY <1>1, <1>3 DEF Injection
    <2>2. Cardinality(1..n) = n
      BY <1>1, <2>1, FS_Interval
    <2>3. list \in Surjection(1..n, S)
      BY <2>1, <2>2, FS_Injection
    <2> QED
      BY <1>1, <2>3 DEF Surjection, Range
  <1> QED
    BY <1>1, <1>3, <1>4

(* There is one way only to sort a set.                                    *)
LEMMA SortIsUnique ==
    ASSUME NEW S, IsFiniteSet(S), NEW before, Orders(before, S),
           NEW s, Arranges(s, S, before), NEW t, Arranges(t, S, before)
    PROVE  s = t
PROOF
  <1> DEFINE n == Cardinality(S)
             Differ == {i \in 1..n : s[i] # t[i]}
  <1>1. n \in Nat /\ s \in [1..n -> S] /\ t \in [1..n -> S]
    BY FS_CardinalityType DEF Arranges
  <1>2. SUFFICES ASSUME Differ # {} PROVE FALSE
    BY <1>1
  <1>3. Differ \subseteq Nat
    BY <1>1
  <1>4. PICK i \in Differ : \A m \in Differ : i <= m
    BY <1>2, <1>3, LeastNumber
  <1>5. i \in 1..n /\ s[i] # t[i] /\ \A j \in 1..n : j < i => s[j] = t[j]
    BY <1>1, <1>4
  <1> HIDE DEF Differ
  <1>6. Range(s) = S /\ IsInjective(s) /\ Range(t) = S /\ IsInjective(t)
    BY SortedElements
  <1>7. PICK j \in 1..n : t[j] = s[i]
    BY <1>1, <1>5, <1>6 DEF Range
  <1>8. PICK k \in 1..n : s[k] = t[i]
    BY <1>1, <1>5, <1>6 DEF Range
  <1>9. i < j
    BY <1>1, <1>5, <1>6, <1>7 DEF IsInjective
  <1>10. i < k
    BY <1>1, <1>5, <1>6, <1>8 DEF IsInjective
  <1>11. <<t[i], s[i]>> \in before /\ <<s[i], t[i]>> \in before
    BY <1>5, <1>7, <1>8, <1>9, <1>10 DEF Arranges
  <1> QED
    BY <1>1, <1>5, <1>11 DEF Orders

(* What Sorted returns.                                                    *)
LEMMA SortedSorts ==
    ASSUME NEW S, IsFiniteSet(S), NEW before, Orders(before, S)
    PROVE  /\ Arranges(Sorted(S, before), S, before)
           /\ \A list : Arranges(list, S, before) => list = Sorted(S, before)
PROOF
  <1> DEFINE Good(list) == \A i, j \in DOMAIN list : i < j => <<list[i], list[j]>> \in before
  <1>1. PICK list : Arranges(list, S, before)
    BY SortExists
  <1>2. \A l \in [1..Cardinality(S) -> S] : Good(l) <=> Arranges(l, S, before)
    BY DEF Arranges
  <1>3. list \in [1..Cardinality(S) -> S] /\ Good(list)
    BY <1>1, <1>2 DEF Arranges
  <1>4. Sorted(S, before) = CHOOSE l \in [1..Cardinality(S) -> S] : Good(l)
    BY DEF Sorted
  <1>5. Arranges(Sorted(S, before), S, before)
    <2> HIDE DEF Good
    <2>1. Sorted(S, before) \in [1..Cardinality(S) -> S] /\ Good(Sorted(S, before))
      BY <1>3, <1>4
    <2> QED
      BY <1>2, <2>1
  <1> QED
    BY <1>5, SortIsUnique

(* A strict weak order: what it leaves unordered is alike to it.           *)
WeaklyOrders(before, S) ==
    /\ \A x, y \in S : <<x, y>> \in before => <<y, x>> \notin before
    /\ \A x, y, z \in S : <<x, z>> \in before => <<x, y>> \in before \/ <<y, z>> \in before

(* The places of a list in the order in which a stable sort takes them.    *)
Earlier(list, before) ==
    LET places == DOMAIN list
    IN {p \in places \X places :
          \/ <<list[p[1]], list[p[2]]>> \in before
          \/ <<list[p[2]], list[p[1]]>> \notin before /\ p[1] < p[2]}

(* Positions of a list in the order of their elements, and equal ones by   *)
(* position, are totally ordered: a stable sort is a sort of positions.    *)
LEMMA EarlierOrders ==
    ASSUME NEW X, NEW list \in Seq(X), NEW before, WeaklyOrders(before, Range(list))
    PROVE  /\ Orders(Earlier(list, before), DOMAIN list)
           /\ IsFiniteSet(DOMAIN list) /\ Cardinality(DOMAIN list) = Len(list)
           /\ Stably(list, before) =
                [k \in DOMAIN list |-> list[Sorted(DOMAIN list, Earlier(list, before))[k]]]
PROOF
  <1> DEFINE n == Len(list)
             Is(i, j) == <<list[i], list[j]>> \in before
  <1>1. n \in Nat /\ DOMAIN list = 1..n /\ 1 \in Int /\ n \in Int
    OBVIOUS
  <1>2. \A i \in 1..n : list[i] \in Range(list)
    BY <1>1 DEF Range
  <1>3. \A i, j \in 1..n : <<i, j>> \in Earlier(list, before) <=> Is(i, j) \/ (~ Is(j, i) /\ i < j)
    BY <1>1 DEF Earlier
  <1>4. /\ \A i, j \in 1..n : Is(i, j) => ~ Is(j, i)
        /\ \A i, j, k \in 1..n : Is(i, k) => Is(i, j) \/ Is(j, k)
    BY <1>2 DEF WeaklyOrders
  <1> HIDE DEF Is
  <1>5. Orders(Earlier(list, before), 1..n)
    <2>1. \A i, j \in 1..n : <<i, j>> \in Earlier(list, before) => <<j, i>> \notin Earlier(list, before)
      BY <1>1, <1>3, <1>4
    <2>2. \A i, j \in 1..n :
            i # j => <<i, j>> \in Earlier(list, before) \/ <<j, i>> \in Earlier(list, before)
      BY <1>1, <1>3, <1>4
    <2>3. ASSUME NEW i \in 1..n, NEW j \in 1..n, NEW k \in 1..n,
                 <<i, j>> \in Earlier(list, before), <<j, k>> \in Earlier(list, before)
          PROVE  <<i, k>> \in Earlier(list, before)
      <3>1. (Is(i, j) \/ (~ Is(j, i) /\ i < j)) /\ (Is(j, k) \/ (~ Is(k, j) /\ j < k))
        BY <1>3, <2>3
      <3>2. Is(i, k) \/ (~ Is(k, i) /\ i < k)
        BY <1>1, <1>4, <3>1
      <3> QED
        BY <1>3, <3>2
    <2> QED
      BY <2>1, <2>2, <2>3 DEF Orders
  <1>6. IsFiniteSet(1..n) /\ Cardinality(1..n) = n
    BY <1>1, FS_Interval
  <1>7. Stably(list, before) =
          [k \in DOMAIN list |-> list[Sorted(DOMAIN list, Earlier(list, before))[k]]]
    BY DEF Stably, Earlier
  <1> QED
    BY <1>1, <1>5, <1>6, <1>7

(* A stable sort returns the elements it was given, none after one that    *)
(* the pairs have before it.                                               *)
LEMMA StablyKeeps ==
    ASSUME NEW X, NEW list \in Seq(X), NEW before, WeaklyOrders(before, Range(list))
    PROVE  /\ Stably(list, before) \in Seq(X) /\ Len(Stably(list, before)) = Len(list)
           /\ Range(Stably(list, before)) = Range(list)
PROOF
  <1> DEFINE n == Len(list)
             order == Sorted(DOMAIN list, Earlier(list, before))
  <1>1. n \in Nat /\ DOMAIN list = 1..n
    OBVIOUS
  <1>2. /\ Orders(Earlier(list, before), DOMAIN list)
        /\ IsFiniteSet(DOMAIN list) /\ Cardinality(DOMAIN list) = n
        /\ Stably(list, before) = [k \in DOMAIN list |-> list[order[k]]]
    BY EarlierOrders
  <1>3. Arranges(order, DOMAIN list, Earlier(list, before))
    BY <1>2, SortedSorts
  <1>4. order \in [1..n -> 1..n] /\ Range(order) = 1..n
    BY <1>1, <1>2, <1>3, SortedElements
  <1> HIDE DEF order
  <1>5. Stably(list, before) = [k \in 1..n |-> list[order[k]]]
    BY <1>1, <1>2
  <1>6. Stably(list, before) \in Seq(X) /\ Len(Stably(list, before)) = n
    BY <1>1, <1>4, <1>5
  <1>7. Range(Stably(list, before)) = {list[order[k]] : k \in 1..n}
    BY <1>5 DEF Range
  <1>8. {list[order[k]] : k \in 1..n} = {list[k] : k \in 1..n}
    BY <1>4 DEF Range
  <1> QED
    BY <1>1, <1>6, <1>7, <1>8 DEF Range

(* It leaves a list that is in order as it is, and turns one around that   *)
(* is in the opposite order.                                               *)
LEMMA StablyOrdered ==
    ASSUME NEW X, NEW list \in Seq(X), NEW before, WeaklyOrders(before, Range(list))
    PROVE  /\ (\A i, j \in DOMAIN list : i < j => <<list[i], list[j]>> \in before)
                => Stably(list, before) = list
           /\ (\A i, j \in DOMAIN list : i < j => <<list[j], list[i]>> \in before)
                => Stably(list, before) = Reverse(list)
PROOF
  <1> DEFINE n == Len(list)
             order == Sorted(DOMAIN list, Earlier(list, before))
  <1>1. n \in Nat /\ DOMAIN list = 1..n
    OBVIOUS
  <1>2. /\ Orders(Earlier(list, before), 1..n)
        /\ IsFiniteSet(1..n) /\ Cardinality(1..n) = n
        /\ Stably(list, before) = [k \in 1..n |-> list[order[k]]]
    BY <1>1, EarlierOrders
  <1>3. \A l : Arranges(l, 1..n, Earlier(list, before)) => l = order
    BY <1>1, <1>2, SortedSorts
  <1>4. \A i, j \in 1..n : <<i, j>> \in Earlier(list, before) <=>
            <<list[i], list[j]>> \in before \/ (<<list[j], list[i]>> \notin before /\ i < j)
    BY <1>1 DEF Earlier
  <1>5. ASSUME \A i, j \in 1..n : i < j => <<list[i], list[j]>> \in before
        PROVE  Stably(list, before) = list
    <2> DEFINE same == [k \in 1..n |-> k]
    <2>1. \A i, j \in 1..n : i < j => <<same[i], same[j]>> \in Earlier(list, before)
      BY <1>4, <1>5
    <2>2. Arranges(same, 1..n, Earlier(list, before))
      BY <1>2, <2>1 DEF Arranges
    <2>3. same = order
      BY <1>3, <2>2
    <2>4. Stably(list, before) = [k \in 1..n |-> list[same[k]]]
      BY <1>2, <2>3
    <2> QED
      BY <1>1, <2>4
  <1>6. ASSUME \A i, j \in 1..n : i < j => <<list[j], list[i]>> \in before
        PROVE  Stably(list, before) = Reverse(list)
    <2> DEFINE back == [k \in 1..n |-> (n - k) + 1]
    <2>1. \A i \in 1..n : back[i] \in 1..n
      BY <1>1
    <2>2. \A i, j \in 1..n : i < j => back[j] < back[i]
      BY <1>1
    <2>3. back \in [1..n -> 1..n]
      BY <2>1
    <2> HIDE DEF back
    <2>4. \A i, j \in 1..n : i < j => <<back[i], back[j]>> \in Earlier(list, before)
      BY <1>4, <1>6, <2>1, <2>2
    <2>5. Arranges(back, 1..n, Earlier(list, before))
      BY <1>2, <2>3, <2>4 DEF Arranges
    <2>6. back = order
      BY <1>3, <2>5
    <2>7. Stably(list, before) = [k \in 1..n |-> list[(n - k) + 1]]
      BY <1>2, <2>6 DEF back
    <2> QED
      BY <2>7 DEF Reverse
  <1> QED
    BY <1>1, <1>5, <1>6
=============================================================================
