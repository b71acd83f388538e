---------------------------- MODULE MCWorkbench ----------------------------
(* A tab that sees two questions; which is which does not matter.          *)
EXTENDS Workbench, TLC

WorkbenchSymmetry == Permutations(Task)
=============================================================================
