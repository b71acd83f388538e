-------------------------- MODULE MCSessionGroups --------------------------
(* Two questions of one session and one of another; the session of two is  *)
(* renamed.  The instants are the ones whose texts are out of order.       *)
EXTENDS SessionGroups

CONSTANTS t1, t2, t3, s1, s2, auto, named

Sessions == t1 :> s1 @@ t2 :> s1 @@ t3 :> s2

TenthsAndHundredths == {5, 10, 11}

(* Which of the two of one session is which does not matter.               *)
Times == {h \in [{t1, t2, t3} -> TenthsAndHundredths] : IsInjective(h) /\ h[t1] < h[t2]}

(* A rename can give the first session the name of the second.             *)
AutoAndNamed == s1 :> auto @@ s2 :> named

(* Which request has which slot does not matter.                           *)
SlotSymmetry == Permutations(Slot)
=============================================================================
