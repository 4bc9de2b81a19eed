---------------------------- MODULE MCMergeSort ----------------------------
(***************************************************************************)
(* Instance of MergeSort for TLC: every array of five keys out of three, a *)
(* limit of one element in place of 16, two processors.                    *)
(***************************************************************************)
EXTENDS MergeSort

MCInputs == [1 .. 5 -> 0 .. 2]
=============================================================================
