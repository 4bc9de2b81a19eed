------------------------------ MODULE MCMemory ------------------------------
(***************************************************************************)
(* Instance of Memory for TLC.  Pages of 8 words, tables of 2 entries, a   *)
(* user part of two tables: an address space of 4 pages.                   *)
(***************************************************************************)
EXTENDS Memory

Segment(vaddr, filesz, memsz) ==
    [load |-> TRUE, vaddr |-> vaddr, filesz |-> filesz, memsz |-> memsz, whole |-> TRUE]
Program(name, segs, args) == [name |-> name, elf |-> TRUE, segs |-> segs, args |-> args]

Good == Program("good", <<Segment(0, 5, 6)>>, <<2>>)
\* Its arguments need more than the stack's page.
Wordy == Program("wordy", <<Segment(0, 5, 6)>>, <<4>>)
\* A note, then a segment whose file is cut short.
Short == Program("short", <<[Segment(0, 8, 8) EXCEPT !.load = FALSE],
                            [Segment(0, 8, 8) EXCEPT !.whole = FALSE]>>, <<>>)
\* Two segments, the second with no data; with the stack it fills the user part.
Large == Program("large", <<Segment(0, 8, 8), Segment(8, 0, 4)>>, <<>>)
Unaligned == Program("unaligned", <<Segment(4, 4, 4)>>, <<>>)
Script == [name |-> "script", elf |-> FALSE, segs |-> <<>>, args |-> <<>>]

\* Process 1 forks, waits and tries the odd arguments; its child, process 2, the
\* calls that take most pages while process 1 goes on.
MCPrograms == <<{Large, Wordy, Short, Unaligned, Script}, {Good, Wordy}>>
MCDeltas == <<{17, -16, -8, 40}, {9, -3}>>
MCValues == <<{"v"}, {"w"}>>
MCCalls == <<3, 2>>
=============================================================================
