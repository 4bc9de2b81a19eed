------------------------------- MODULE MCUfs -------------------------------
(* Instances of Ufs for TLC. *)
EXTENDS UfsInv, TLC

\* Uninitialised inodes: bytes that look like a directory with the root's block.
MCGarbage ==
  {[type |-> "dir", size |-> BS, direct |-> [d \in 0..(DP - 1) |-> FirstData]]}

Symm == Permutations(Name)
=============================================================================
