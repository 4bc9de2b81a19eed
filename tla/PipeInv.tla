------------------------------ MODULE PipeInv ------------------------------
(***************************************************************************)
(* The inductive invariant of FilePipe: who keeps an end of a pipe open,   *)
(* who is inside piperead and pipewrite, and why they wait.                *)
(***************************************************************************)
EXTENDS FilePipe

\* A file in use refers to a pipe, an unused process slot has no descriptors, and a
\* process inside pipe.c has a pipe.
FilesHavePipes == \A f \in File : ref[f] > 0 => target[f] \in Page
SlotsEmpty == \A p \in Process : at[p] = "none" => \A d \in Fd : ofile[p][d] = 0
CallsHavePipes == \A p \in Process : at[p] \notin {"none", "run", "exit"} => arg[p].pipe \in Page

\* An end has one file, or one process that closes it: pipealloc makes one file
\* for each end, and fileclose passes on what it takes from the file.
OneOwner ==
  \A x \in Page, e \in {"r", "w"} :
    /\ \A f, g \in File : Refers(f, x, e) /\ Refers(g, x, e) => f = g
    /\ \A p, q \in Process : Closes(p, x, e) /\ Closes(q, x, e) => p = q
    /\ \A f \in File, p \in Process : ~(Refers(f, x, e) /\ Closes(p, x, e))

\* A process reads and writes through a descriptor, which it keeps meanwhile.
Through(p, e) == \E d \in Fd : ofile[p][d] \in File /\ Refers(ofile[p][d], arg[p].pipe, e)
CallersHold ==
  \A p \in Process : (Reading(p) => Through(p, "r")) /\ (Writing(p) => Through(p, "w"))

\* Files: counted, and what keeps the ends of pipes open.
FilesInv ==
  /\ FileTypes /\ RefCounts /\ FilesHavePipes /\ SlotsEmpty /\ CallsHavePipes
  /\ OneOwner /\ EndsOpen /\ Allocated /\ CallersHold

\* The lock of a pipe is held between a test and sleep, and what was tested holds.
Blocked(p) == at[p] \in {"rblock", "wblock"}
LockHeld == \A x \in Page : lock[x] # Null => Blocked(lock[x]) /\ arg[lock[x]].pipe = x
HasLock == \A p \in Process : Blocked(p) => lock[arg[p].pipe] = p
TestHolds ==
  \A p \in Process :
    LET x == arg[p].pipe IN
      /\ at[p] = "wblock" => Full(x) /\ "r" \in open[x]
      /\ at[p] = "rblock" => Empty(x) /\ "w" \in open[x]

\* A reader has asked for some bytes.
Asked == \A p \in Process : Reading(p) => arg[p].n \in Lengths

\* What a writer still has to write is the end of what it was called with.
Remaining ==
  \A p \in Process : Writing(p) =>
    \E buf \in Bufs : \E i \in 1..Len(buf) : arg[p].buf = SubSeq(buf, i, Len(buf))

\* Waiting: who holds the locks, and why processes sleep.
WaitInv == LockHeld /\ HasLock /\ TestHolds /\ SleepJustified /\ Asked /\ Remaining

\* The inductive invariant: reference counts of file.c are exact, every open end of a
\* pipe has one owner, nobody inside piperead or pipewrite works on a freed page, and
\* whoever sleeps there or is about to has a reason.
FInv == PipeTypes /\ ProcTypes /\ FilesInv /\ WaitInv

\* What pipeclose on end e of pipe x does to each process.
PipeClosed(p, x, e) ==
  /\ at[p] = "close" /\ lock[x] = Null
  /\ open' \in [Page -> SUBSET {"r", "w"}]
  /\ \A y \in Page : open'[y] = IF y = x THEN open[x] \ {e} ELSE open[y]
  /\ page' = IF open[x] \ {e} = {} THEN page \ {x} ELSE page
  /\ at' \in [Process -> Places] /\ at'[p] \in {"run", "exit"}
  /\ arg' \in [Process -> Args] /\ (\A q \in Process : q # p => arg'[q] = arg[q])
  /\ \A q \in Process : q # p =>
       at'[q] = IF e = "w" /\ at[q] = "rsleep" /\ arg[q].pipe = x THEN "read"
                ELSE IF e = "r" /\ at[q] = "wsleep" /\ arg[q].pipe = x THEN "write"
                ELSE at[q]
  /\ cut' = IF e = "w" THEN cut \ {x} ELSE cut
  /\ UNCHANGED <<files, ring, nread, nwrite, lock, killed, out>>
=============================================================================
