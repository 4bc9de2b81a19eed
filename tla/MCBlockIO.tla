----------------------------- MODULE MCBlockIO -----------------------------
EXTENDS BlockInv
=============================================================================
