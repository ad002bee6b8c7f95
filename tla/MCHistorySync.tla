--------------------------- MODULE MCHistorySync ---------------------------
(***************************************************************************)
(* HistorySync on small instances.  No step tells the two machines apart,  *)
(* nor one line from another.                                              *)
(***************************************************************************)
EXTENDS HistorySync

CONSTANTS la, lb

MachineSymmetry == Permutations(Machine)
Symmetry == MachineSymmetry \cup Permutations(Line)
=============================================================================
