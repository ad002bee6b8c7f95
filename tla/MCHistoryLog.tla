---------------------------- MODULE MCHistoryLog ----------------------------
(***************************************************************************)
(* HistoryLog on small instances: the lists of lines a rule may keep, and  *)
(* the symmetry of the shells, which no step tells apart.                  *)
(***************************************************************************)
EXTENDS HistoryLog, TLC

CONSTANTS la, lb

MCKept == {<<lb>>}
MCKeptTwo == {<<lb, la>>}
ShellSymmetry == Permutations(Shell)
=============================================================================
