------------------------------ MODULE MCLocks ------------------------------
(* Instances of Locks for TLC: two transactions that run any of the commands. *)
EXTENDS Locks, TLC

CONSTANTS t1, t2

Symmetry == Permutations(Tx)
=============================================================================
