------------------------------ MODULE MCConsole ------------------------------
(* Interchangeable readers. *)
EXTENDS Console, TLC

TaskSymmetry == Permutations(Tasks)
===============================================================================
