----------------------------- MODULE MCFilePipe -----------------------------
(* FilePipe for TLC.  A buffer fills the ring, so that a second write blocks   *)
(* until somebody reads, part way when one byte is left; the bytes differ.    *)
EXTENDS PipeInv

Marked == {<<1, 2>>}
=============================================================================
