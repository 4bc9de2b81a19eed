------------------------------ MODULE MCUfsNet ------------------------------
(* Instances of UfsNet for TLC. *)
EXTENDS UfsNet

\* Uninitialised inodes: zero bytes.
MCGarbage ==
  {[type |-> "dir", size |-> 0, direct |-> [d \in 0..(DP - 1) |-> 0]]}
=============================================================================
