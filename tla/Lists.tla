------------------------------- MODULE Lists -------------------------------
(***************************************************************************)
(* What the page, and the daemon, do with lists of tasks: Array.filter by  *)
(* membership in a set, Array.sort and ORDER BY by a set of pairs.  They   *)
(* are SelectSeq and SortSeq, written so that they can be reasoned about:  *)
(* see ListProofs.                                                         *)
(***************************************************************************)
EXTENDS Sequences, Functions, FiniteSets, Naturals

(* The elements of a list that are in S, in their order.                   *)
Within(list, S) ==
    LET kept[i \in 0..Len(list)] ==
            IF i = 0 THEN <<>>
            ELSE IF list[i] \in S THEN Append(kept[i - 1], list[i]) ELSE kept[i - 1]
    IN kept[Len(list)]

(* The elements of a list that are not in S, in their order.               *)
Without(list, S) == Within(list, Range(list) \ S)

(* The elements of a set, each before the others as the pairs say, which   *)
(* order any two of them.                                                  *)
Sorted(S, before) ==
    CHOOSE list \in [1..Cardinality(S) -> S] :
        \A i, j \in DOMAIN list : i < j => <<list[i], list[j]>> \in before

(* The elements of a list in that order; what the pairs do not order stays *)
(* in the order of the list.                                               *)
Stably(list, before) ==
    LET places == DOMAIN list
        earlier == {p \in places \X places :
                      \/ <<list[p[1]], list[p[2]]>> \in before
                      \/ <<list[p[2]], list[p[1]]>> \notin before /\ p[1] < p[2]}
        order == Sorted(places, earlier)
    IN [k \in places |-> list[order[k]]]
=============================================================================
