--------------------------- MODULE MCHistoryView ---------------------------
(* A tab and a few tasks; which is which, and which request has which      *)
(* slot, does not matter.                                                  *)
EXTENDS HistoryView

HistorySymmetry == Permutations(Task) \cup Permutations(Slot)
=============================================================================
