----------------------------- MODULE MCConsole -----------------------------
(***************************************************************************)
(* Instance of Console for TLC: two readers, a buffer of three characters, *)
(* a screen of two rows of two.                                            *)
(***************************************************************************)
EXTENDS Console

Key(code, ext) == [code |-> code, ext |-> ext]

MCReaders == 1 .. 2
MCCounts == <<{2}, {4}>>
MCKeys == {Key("ctl", TRUE), Key("d", FALSE)}
MCReceived == {"a", "\r", "^D", "DEL", "^U", "^P"}
MCTexts == {<<"x">>}
=============================================================================
