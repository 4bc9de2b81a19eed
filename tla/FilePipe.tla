------------------------------ MODULE FilePipe ------------------------------
(***************************************************************************)
(* Open files and pipes of xv6: descriptors (sysfile.c), the file table    *)
(* (file.c) and pipes (pipe.c), shared by processes that fork, exit and    *)
(* kill each other.  A section under ftable.lock or p->lock is one step.   *)
(* Sleep and wakeup are what Proc shows them to be.                        *)
(***************************************************************************)
EXTENDS Naturals, Sequences, FiniteSets, FiniteSetsExt

CONSTANTS
  Process,   \* process slots
  NFILE,     \* param.h: entries of the file table
  NOFILE,    \* param.h: descriptors of a process
  Page,      \* pages that can hold a pipe
  PIPESIZE,
  UINT,      \* 2^32: nread and nwrite wrap around there
  Bufs,      \* what processes write
  Lengths,   \* how many bytes they ask to read
  Mortal,    \* processes that may be killed
  Null

ASSUME PipeConstants ==
  /\ NFILE \in Nat /\ NOFILE \in Nat /\ PIPESIZE \in Nat /\ UINT \in Nat
  /\ PIPESIZE > 0 /\ UINT > PIPESIZE /\ UINT % PIPESIZE = 0
  /\ Lengths \subseteq Nat \ {0} /\ Bufs \subseteq Seq(Nat) \ {<<>>}
  /\ IsFiniteSet(Process) /\ Null \notin Process \cup Page

File == 1..NFILE
Fd == 0..(NOFILE - 1)

VARIABLES
  ref,       \* f->ref
  target,    \* f->pipe; Null for FD_NONE
  writable,  \* f->writable; a pipe's file is readable when it is not writable
  ofile,     \* p->ofile
  page,      \* pages allocated to pipes
  ring,      \* p->data
  nread, nwrite,
  open,      \* "r" for readopen, "w" for writeopen
  lock,      \* holder of p->lock across steps: between a test and sleep
  at,        \* what a process is doing
  arg,       \* the pipe, and the bytes or the number of bytes of its call
  killed,    \* p->killed
  out,       \* what the last call of piperead to return has read
  cut        \* auxiliary: pipes a failing write has left without waking readers

files == <<ref, target, writable, ofile>>
pipes == <<page, ring, nread, nwrite, open, lock>>
procs == <<at, arg, killed, out>>
vars == <<files, pipes, procs, cut>>

None == [pipe |-> Null, buf |-> <<>>, n |-> 0, mode |-> "run"]
Args == [pipe : Page \cup {Null}, buf : Seq(Nat), n : Nat, mode : {"run", "exit"}]

\* The bytes in a pipe.
Length(x) == (nwrite[x] + UINT - nread[x]) % UINT
Queue(x) == [i \in 1..Length(x) |-> ring[x][(nread[x] + i - 1) % PIPESIZE]]
Queues == [x \in Page |-> Queue(x)]
Full(x) == nwrite[x] = (nread[x] + PIPESIZE) % UINT
Empty(x) == nread[x] = nwrite[x]

Places == {"none", "run", "exit", "close", "read", "rblock", "rsleep", "write", "wblock", "wsleep"}

FileTypes ==
  /\ ref \in [File -> 0..(Cardinality(Process) * NOFILE)]
  /\ target \in [File -> Page \cup {Null}] /\ writable \in [File -> BOOLEAN]
  /\ ofile \in [Process -> [Fd -> File \cup {0}]]
PipeTypes ==
  /\ page \subseteq Page /\ cut \subseteq Page /\ lock \in [Page -> Process \cup {Null}]
  /\ ring \in [Page -> [0..(PIPESIZE - 1) -> Nat]]
  /\ nread \in [Page -> 0..(UINT - 1)] /\ nwrite \in [Page -> 0..(UINT - 1)]
  /\ \A x \in Page : Length(x) <= PIPESIZE
  /\ open \in [Page -> SUBSET {"r", "w"}]
ProcTypes ==
  /\ at \in [Process -> Places] /\ arg \in [Process -> Args] /\ killed \in [Process -> BOOLEAN]
TypeOK == FileTypes /\ PipeTypes /\ ProcTypes

\* One process runs and has no files open.
Init ==
  /\ ref = [f \in File |-> 0] /\ target = [f \in File |-> Null]
  /\ writable = [f \in File |-> FALSE]
  /\ ofile = [p \in Process |-> [d \in Fd |-> 0]]
  /\ page = {} /\ ring = [x \in Page |-> [i \in 0..(PIPESIZE - 1) |-> 0]]
  /\ nread = [x \in Page |-> 0] /\ nwrite = [x \in Page |-> 0]
  /\ open = [x \in Page |-> {}] /\ lock = [x \in Page |-> Null]
  /\ \E p \in Process : at = [q \in Process |-> IF q = p THEN "run" ELSE "none"]
  /\ arg = [p \in Process |-> None]
  /\ killed = [p \in Process |-> FALSE]
  /\ out = <<>> /\ cut = {}

-----------------------------------------------------------------------------
(* Processes *)

\* p makes a system call; trap first tests p->killed.
Enters(p) == at[p] = "run" /\ ~killed[p]

\* wakeup(&x->nread) and wakeup(&x->nwrite), on the places f.
WakeReaders(f, x) ==
  [q \in Process |-> IF f[q] = "rsleep" /\ arg[q].pipe = x THEN "read" ELSE f[q]]
WakeWriters(f, x) ==
  [q \in Process |-> IF f[q] = "wsleep" /\ arg[q].pipe = x THEN "write" ELSE f[q]]

\* fork: the child shares every open file (filedup).
Fork(p) ==
  /\ Enters(p)
  /\ \E q \in Process :
       /\ at[q] = "none"
       /\ ofile' = [ofile EXCEPT ![q] = ofile[p]]
       /\ ref' = [f \in File |-> ref[f] + Cardinality({d \in Fd : ofile[p][d] = f})]
       /\ at' = [at EXCEPT ![q] = "run"]
  /\ UNCHANGED <<target, writable, pipes, arg, killed, out, cut>>

\* kill marks a process and makes it runnable if it sleeps.
Kill(q) ==
  /\ at[q] # "none" /\ ~killed[q] /\ q \in Mortal
  /\ killed' = [killed EXCEPT ![q] = TRUE]
  /\ at' = [at EXCEPT ![q] = CASE @ = "rsleep" -> "read"
                               [] @ = "wsleep" -> "write"
                               [] OTHER -> @]
  /\ UNCHANGED <<files, pipes, arg, out, cut>>

\* exit, called by the process or by trap because it was killed.
Exit(p) ==
  /\ at[p] = "run"
  /\ at' = [at EXCEPT ![p] = "exit"]
  /\ arg' = [arg EXCEPT ![p].mode = "exit"]
  /\ UNCHANGED <<files, pipes, killed, out, cut>>

\* Every file is closed; the parent reaps the process.
ExitDone(p) ==
  /\ at[p] = "exit" /\ \A d \in Fd : ofile[p][d] = 0
  /\ at' = [at EXCEPT ![p] = "none"]
  /\ arg' = [arg EXCEPT ![p] = None]
  /\ killed' = [killed EXCEPT ![p] = FALSE]
  /\ UNCHANGED <<files, pipes, out, cut>>

-----------------------------------------------------------------------------
(* Descriptors and files *)

FreeFds(p) == {d \in Fd : ofile[p][d] = 0}
FreeFiles == {f \in File : ref[f] = 0}

\* pipealloc when it finds page x and files f0 and f1.
PipeAlloc(x, f0, f1) ==
  /\ page' = page \cup {x}
  /\ ref' = [ref EXCEPT ![f0] = 1, ![f1] = 1]
  /\ target' = [target EXCEPT ![f0] = x, ![f1] = x]
  /\ writable' = [writable EXCEPT ![f0] = FALSE, ![f1] = TRUE]
  /\ open' = [open EXCEPT ![x] = {"r", "w"}]
  /\ nread' = [nread EXCEPT ![x] = 0] /\ nwrite' = [nwrite EXCEPT ![x] = 0]
  /\ cut' = cut \ {x}

\* sys_pipe: pipealloc and two descriptors.  When a file, the page or a descriptor
\* is missing it gives back what it took, and nothing has changed.
SysPipe(p) ==
  /\ Enters(p)
  /\ Cardinality(FreeFds(p)) >= 2 /\ Cardinality(FreeFiles) >= 2
  /\ LET d0 == Min(FreeFds(p))
         d1 == Min(FreeFds(p) \ {d0})
         f0 == Min(FreeFiles)
         f1 == Min(FreeFiles \ {f0})
     IN /\ \E x \in Page \ page : PipeAlloc(x, f0, f1)
        /\ ofile' = [ofile EXCEPT ![p][d0] = f0, ![p][d1] = f1]
  /\ UNCHANGED <<ring, lock, procs>>

\* sys_dup
Dup(p) ==
  /\ Enters(p) /\ FreeFds(p) # {}
  /\ \E d \in Fd \ FreeFds(p) :
       /\ ofile' = [ofile EXCEPT ![p][Min(FreeFds(p))] = ofile[p][d]]
       /\ ref' = [ref EXCEPT ![ofile[p][d]] = @ + 1]
  /\ UNCHANGED <<target, writable, pipes, procs, cut>>

\* fileclose up to the release of ftable.lock: the last reference goes on to
\* pipeclose with its copy of the file.  (exit clears the descriptor after the
\* call instead of before it; only the process itself reads it.)
FileClose(p, d) ==
  LET f == ofile[p][d] IN
    /\ ofile' = [ofile EXCEPT ![p][d] = 0]
    /\ ref' = [ref EXCEPT ![f] = @ - 1]
    /\ IF ref[f] > 1
       THEN UNCHANGED <<target, at, arg>>
       ELSE /\ target' = [target EXCEPT ![f] = Null]
            /\ at' = [at EXCEPT ![p] = "close"]
            /\ arg' = [arg EXCEPT ![p].pipe = target[f], ![p].n = IF writable[f] THEN 1 ELSE 0]
    /\ UNCHANGED <<writable, pipes, killed, out, cut>>

\* sys_close
Close(p) == Enters(p) /\ \E d \in Fd \ FreeFds(p) : FileClose(p, d)

\* exit closes the descriptors in order.
CloseAll(p) ==
  /\ at[p] = "exit" /\ FreeFds(p) # Fd
  /\ FileClose(p, Min(Fd \ FreeFds(p)))

\* Mutant: pipeclose frees the pipe when the reader is gone.
FreedByReader(ends) == "r" \notin ends

\* The test of pipeclose for kfree.
Freed(ends) == ends = {}

\* The end a process closes: pipeclose's parameter writable.
ClosedEnd(p) == IF arg[p].n = 1 THEN "w" ELSE "r"

\* Mutant: pipeclose wakes nobody.
PipeCloseQuietly(p) ==
  LET x == arg[p].pipe
      end == ClosedEnd(p)
  IN /\ at[p] = "close" /\ lock[x] = Null
     /\ open' = [open EXCEPT ![x] = @ \ {end}]
     /\ page' = IF Freed(open[x] \ {end}) THEN page \ {x} ELSE page
     /\ at' = [at EXCEPT ![p] = arg[p].mode]
     /\ arg' = [arg EXCEPT ![p].pipe = Null, ![p].n = 0]
     /\ UNCHANGED <<files, ring, nread, nwrite, lock, killed, out, cut>>

\* pipeclose
PipeClose(p) ==
  LET x == arg[p].pipe
      end == ClosedEnd(p)
      woken == IF end = "w" THEN WakeReaders(at, x) ELSE WakeWriters(at, x)
  IN /\ at[p] = "close" /\ lock[x] = Null
     /\ open' = [open EXCEPT ![x] = @ \ {end}]
     /\ page' = IF Freed(open[x] \ {end}) THEN page \ {x} ELSE page
     /\ at' = [woken EXCEPT ![p] = arg[p].mode]
     /\ arg' = [arg EXCEPT ![p].pipe = Null, ![p].n = 0]
     /\ cut' = IF end = "w" THEN cut \ {x} ELSE cut
     /\ UNCHANGED <<files, ring, nread, nwrite, lock, killed, out>>

-----------------------------------------------------------------------------
(* Reading and writing *)

\* sys_read up to piperead: argfd and fileread's tests.
CallRead(p) ==
  /\ Enters(p)
  /\ \E d \in Fd \ FreeFds(p), n \in Lengths :
       LET f == ofile[p][d] IN
         /\ ~writable[f]
         /\ arg' = [arg EXCEPT ![p].pipe = target[f], ![p].n = n]
  /\ at' = [at EXCEPT ![p] = "read"]
  /\ UNCHANGED <<files, pipes, killed, out, cut>>

\* sys_write up to pipewrite.
CallWrite(p) ==
  /\ Enters(p)
  /\ \E d \in Fd \ FreeFds(p), buf \in Bufs :
       LET f == ofile[p][d] IN
         /\ writable[f]
         /\ arg' = [arg EXCEPT ![p].pipe = target[f], ![p].buf = buf]
  /\ at' = [at EXCEPT ![p] = "write"]
  /\ UNCHANGED <<files, pipes, killed, out, cut>>

\* piperead's loop: nothing to read and a writer is left.  A killed process gives
\* up; another goes to sleep and holds the lock until it does.
ReadBlocks(p) ==
  LET x == arg[p].pipe IN
    /\ at[p] = "read" /\ lock[x] = Null
    /\ Empty(x) /\ "w" \in open[x]
    /\ IF killed[p]
       THEN /\ at' = [at EXCEPT ![p] = "run"] /\ arg' = [arg EXCEPT ![p] = None]
            /\ UNCHANGED lock
       ELSE /\ at' = [at EXCEPT ![p] = "rblock"] /\ lock' = [lock EXCEPT ![x] = p]
            /\ UNCHANGED arg
    /\ UNCHANGED <<files, page, ring, nread, nwrite, open, killed, out, cut>>

\* Mutant: the reader wakes nobody.
ReadCopiesQuietly(p) ==
  LET x == arg[p].pipe
      k == Min({arg[p].n, Length(x)})
  IN /\ at[p] = "read" /\ lock[x] = Null
     /\ ~(Empty(x) /\ "w" \in open[x])
     /\ out' = SubSeq(Queue(x), 1, k)
     /\ nread' = [nread EXCEPT ![x] = (@ + k) % UINT]
     /\ at' = [at EXCEPT ![p] = "run"]
     /\ arg' = [arg EXCEPT ![p] = None]
     /\ UNCHANGED <<files, page, ring, nwrite, open, lock, killed, cut>>

\* piperead after the loop.
ReadCopies(p) ==
  LET x == arg[p].pipe
      k == Min({arg[p].n, Length(x)})
  IN /\ at[p] = "read" /\ lock[x] = Null
     /\ ~(Empty(x) /\ "w" \in open[x])
     /\ out' = SubSeq(Queue(x), 1, k)
     /\ nread' = [nread EXCEPT ![x] = (@ + k) % UINT]
     /\ at' = [WakeWriters(at, x) EXCEPT ![p] = "run"]
     /\ arg' = [arg EXCEPT ![p] = None]
     /\ UNCHANGED <<files, page, ring, nwrite, open, lock, killed, cut>>

\* sleep in piperead and pipewrite: it takes ptable.lock before it releases the
\* pipe's, so that no wakeup comes in between.
Sleep(p) ==
  /\ at[p] \in {"rblock", "wblock"}
  /\ at' = [at EXCEPT ![p] = IF @ = "rblock" THEN "rsleep" ELSE "wsleep"]
  /\ lock' = [lock EXCEPT ![arg[p].pipe] = Null]
  /\ UNCHANGED <<files, page, ring, nread, nwrite, open, arg, killed, out, cut>>

\* Bytes that fit: `nwrite == nread + PIPESIZE' stops the writer.
Room(x) == PIPESIZE - Length(x)

\* Mutant: the index is incremented before it is used.
StoredAfter(x, buf, k) ==
  [i \in 0..(PIPESIZE - 1) |->
     LET hits == {j \in 1..k : (nwrite[x] + j) % PIPESIZE = i}
     IN IF hits = {} THEN ring[x][i] ELSE buf[Max(hits)]]

\* The bytes of buf that fit go into the ring.
Stored(x, buf, k) ==
  [i \in 0..(PIPESIZE - 1) |->
     LET hits == {j \in 1..k : (nwrite[x] + j - 1) % PIPESIZE = i}
     IN IF hits = {} THEN ring[x][i] ELSE buf[Max(hits)]]

\* pipewrite from where it holds the lock until it returns or sleeps.  What was
\* written stays when the call fails, and then no reader is woken.
Write(p) ==
  LET x == arg[p].pipe
      k == Min({Len(arg[p].buf), Room(x)})
      rest == SubSeq(arg[p].buf, k + 1, Len(arg[p].buf))
      fails == rest # <<>> /\ ("r" \notin open[x] \/ killed[p])
  IN /\ at[p] = "write" /\ lock[x] = Null
     /\ ring' = [ring EXCEPT ![x] = Stored(x, arg[p].buf, k)]
     /\ nwrite' = [nwrite EXCEPT ![x] = (@ + k) % UINT]
     /\ \/ /\ rest = <<>>
           /\ at' = [WakeReaders(at, x) EXCEPT ![p] = "run"]
           /\ arg' = [arg EXCEPT ![p] = None]
           /\ cut' = cut \ {x} /\ UNCHANGED lock
        \/ /\ fails
           /\ at' = [at EXCEPT ![p] = "run"]
           /\ arg' = [arg EXCEPT ![p] = None]
           /\ cut' = cut \cup {x} /\ UNCHANGED lock
        \/ /\ rest # <<>> /\ ~fails
           /\ at' = [WakeReaders(at, x) EXCEPT ![p] = "wblock"]
           /\ arg' = [arg EXCEPT ![p].buf = rest]
           /\ cut' = cut \ {x} /\ lock' = [lock EXCEPT ![x] = p]
     /\ UNCHANGED <<files, page, nread, open, killed, out>>

Next ==
  \E p \in Process :
    \/ Fork(p) \/ Kill(p) \/ Exit(p) \/ ExitDone(p)
    \/ SysPipe(p) \/ Dup(p) \/ Close(p) \/ CloseAll(p) \/ PipeClose(p)
    \/ CallRead(p) \/ ReadBlocks(p) \/ ReadCopies(p)
    \/ CallWrite(p) \/ Write(p) \/ Sleep(p)

\* A process inside the kernel goes on: the scheduler runs it, and it gets a lock
\* that becomes free.
Fairness ==
  \A p \in Process :
    WF_<<pipes, at>>(PipeClose(p) \/ ReadBlocks(p) \/ ReadCopies(p) \/ Write(p) \/ Sleep(p))

Spec == Init /\ [][Next]_vars
FairSpec == Spec /\ Fairness

-----------------------------------------------------------------------------
(* Properties *)

Reading(p) == at[p] \in {"read", "rblock", "rsleep"}
Writing(p) == at[p] \in {"write", "wblock", "wsleep"}

\* The descriptors that name a file.
Holders(f) == {h \in Process \X Fd : ofile[h[1]][h[2]] = f}

\* A file's reference count is the number of descriptors that name it, whatever
\* processes dup, fork, close and exit (filedup and fileclose in file.c).
RefCounts ==
  \A f \in File :
    ref[f] = Cardinality(Holders(f))

\* File f refers to end e of pipe x; process p closes it for the last time.
Refers(f, x, e) == ref[f] > 0 /\ target[f] = x /\ e = IF writable[f] THEN "w" ELSE "r"
Closes(p, x, e) == at[p] = "close" /\ arg[p].pipe = x /\ e = ClosedEnd(p)

EndsOpen ==
  \A x \in Page, e \in {"r", "w"} :
    e \in open[x] <=> (\E f \in File : Refers(f, x, e)) \/ (\E p \in Process : Closes(p, x, e))

Allocated == page = {x \in Page : open[x] # {}}

\* A pipe's page is allocated as long as somebody can still reach it: an end is
\* open exactly while a file refers to it or its last close is under way, and a
\* process inside piperead, pipewrite or pipeclose works on a page nobody has
\* freed (pipeclose in pipe.c).
PipesLive ==
  /\ EndsOpen /\ Allocated
  /\ \A p \in Process : Reading(p) => "r" \in open[arg[p].pipe]
  /\ \A p \in Process : Writing(p) => "w" \in open[arg[p].pipe]

\* A writer sleeps only while the ring is full and a reader is left.  A reader
\* sleeps only while the ring is empty and a writer is left, or after a write that
\* failed: a killed writer returns without waking readers (pipe.c:86).
SleepJustified ==
  \A p \in Process :
    LET x == arg[p].pipe IN
      /\ at[p] = "wsleep" => Full(x) /\ "r" \in open[x]
      /\ at[p] = "rsleep" => (Empty(x) /\ "w" \in open[x]) \/ x \in cut

\* The ring with its wrapping counters is a bounded first-in-first-out queue:
\* reads return what was written, in order, and no bytes only at the end.
Stream == INSTANCE ByteStream WITH
  Pipe <- Page, Capacity <- PIPESIZE, queue <- Queues, ends <- open
IsStream == Stream!Spec

\* When the last writer closes its end every reader returns, and when the last
\* reader does every writer returns.
HangupSeen ==
  \A p \in Process :
    /\ (Reading(p) /\ "w" \notin open[arg[p].pipe]) ~> at[p] = "run"
    /\ (Writing(p) /\ "r" \notin open[arg[p].pipe]) ~> at[p] = "run"

\* Files and pipes are counted exactly and live as long as they are used.
FilesSound == TypeOK /\ RefCounts /\ PipesLive
=============================================================================
