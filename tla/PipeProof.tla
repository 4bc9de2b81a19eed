----------------------------- MODULE PipeProof ------------------------------
(***************************************************************************)
(* FilePipe keeps its inductive invariant, and its pipes are byte streams. *)
(* PipeSteps has what the proof needs of files and descriptors, PipeWaits  *)
(* what it needs of waiting and of the ring.                               *)
(***************************************************************************)
EXTENDS PipeWaits, PipeSteps

-----------------------------------------------------------------------------
(* The byte stream *)

\* sys_pipe opens a stream.
LEMMA PipeStarts ==
  ASSUME FInv, FInv', NEW p \in Process, SysPipe(p)
  PROVE  \E x \in Page : Stream!Open(x)
<1>1. PICK x \in Page : x \notin page /\ \E f0, f1 : PipeAlloc(x, f0, f1)
  BY DEF SysPipe
<1>2. ring' = ring /\ out' = out
  BY DEF SysPipe, procs
<1>3. /\ open' = [open EXCEPT ![x] = {"r", "w"}]
      /\ nread' = [nread EXCEPT ![x] = 0] /\ nwrite' = [nwrite EXCEPT ![x] = 0]
  BY <1>1 DEF PipeAlloc
<1>4. open[x] = {}
  BY Zenon, <1>1 DEF FInv, FilesInv, Allocated
<1>5. nread'[x] = 0 /\ nwrite'[x] = 0 /\ \A y \in Page : y # x => nread'[y] = nread[y] /\ nwrite'[y] = nwrite[y]
  BY <1>3 DEF FInv, PipeTypes
<1>6. Queue(x)' = <<>>
  <2>1. (0 + UINT - 0) % UINT = 0
    BY RingSize
  <2>2. Length(x)' = 0
    BY <1>5, <2>1 DEF Length
  <2>3. PipeTypes'
    BY DEF FInv
  <2>4. Queue(x)' \in Seq(Nat) /\ Len(Queue(x)') = 0
    BY <2>2, <2>3, QueueIsPrimed
  <2>5. QED
    BY <2>4
<1>7. \A y \in Page : y # x => Queue(y)' = Queue(y)
  BY <1>2, <1>5, QueueFrame
<1>8. Queues' = [Queues EXCEPT ![x] = <<>>]
  BY <1>6, <1>7, QueuesOne
<1>9. QED
  BY Zenon, <1>2, <1>3, <1>4, <1>8 DEF Stream!Open

\* pipeclose shuts one end of a stream.
LEMMA PipeEnds ==
  ASSUME FInv, NEW p \in Process, PipeClose(p)
  PROVE  \E x \in Page : \E e \in {"r", "w"} : Stream!Shut(x, e)
<1>1. PICK x \in Page : x = arg[p].pipe
  BY DEF PipeClose, FInv, FilesInv, CallsHavePipes
<1>2. PICK e \in {"r", "w"} : e = ClosedEnd(p)
  BY DEF ClosedEnd
<1>3. /\ at[p] = "close" /\ open' = [open EXCEPT ![x] = @ \ {e}]
      /\ ring' = ring /\ nread' = nread /\ nwrite' = nwrite /\ out' = out
  BY Zenon, <1>1, <1>2 DEF PipeClose
<1>4. Closes(p, x, e)
  BY Zenon, <1>1, <1>2, <1>3 DEF Closes
<1>5. e \in open[x]
  BY Zenon, <1>4 DEF FInv, FilesInv, EndsOpen
<1>6. \A y \in Page : Queue(y)' = Queue(y)
  BY <1>3, QueueFrame
<1>7. Queues' = Queues
  <2>1. Queues' = [y \in Page |-> Queue(y)']
    BY DEF Queues
  <2>2. QED
    BY <1>6, <2>1 DEF Queues
<1>8. Stream!Shut(x, e)
  BY <1>3, <1>5, <1>7 DEF Stream!Shut
<1>9. QED
  BY <1>8

\* piperead takes bytes from the front of the queue.
LEMMA PipeTakes ==
  ASSUME FInv, FInv', NEW p \in Process, ReadCopies(p)
  PROVE  \E x \in Page : Stream!Take(x)
<1>1. PICK x \in Page : x = arg[p].pipe
  BY Zenon DEF ReadCopies, FInv, FilesInv, CallsHavePipes
<1>2. arg[p].n \in Nat /\ arg[p].n # 0 /\ Length(x) \in Nat
  <2>1. arg[p].n \in Lengths
    BY Zenon DEF ReadCopies, Reading, FInv, WaitInv, Asked
  <2>2. QED
    BY Zenon, <2>1, PipeConstants, LengthFacts DEF FInv
<1>3. PICK k \in Nat : k = Min({arg[p].n, Length(x)}) /\ k <= Length(x) /\ (k = 0 => Length(x) = 0)
  BY SMTT(30), <1>2, MinTwo
<1>4. /\ nread' = [nread EXCEPT ![x] = (@ + k) % UINT] /\ out' = SubSeq(Queue(x), 1, k)
      /\ at[p] = "read" /\ ~(Empty(x) /\ "w" \in open[x])
      /\ ring' = ring /\ nwrite' = nwrite /\ open' = open
  BY Zenon, <1>1, <1>3 DEF ReadCopies
<1>5. "r" \in open[x]
  BY Zenon, <1>1, <1>4, CallerEnds DEF FInv, Reading
<1>6. PipeTypes /\ PipeTypes'
  BY Zenon DEF FInv
<1>7. Queue(x)' = SubSeq(Queue(x), k + 1, Len(Queue(x)))
  BY Zenon, <1>3, <1>4, <1>6, QueueTaken
<1>8. \A y \in Page : y # x => Queue(y)' = Queue(y)
  <2>1. \A y \in Page : y # x => nread'[y] = nread[y]
    BY <1>4, <1>6 DEF PipeTypes
  <2>2. QED
    BY <1>4, <2>1, QueueFrame
<1>9. Queues' = [Queues EXCEPT ![x] = SubSeq(Queue(x), k + 1, Len(Queue(x)))]
  BY <1>7, <1>8, QueuesOne
<1>10. Len(Queue(x)) = Length(x) /\ (Queue(x) = <<>> <=> Length(x) = 0) /\ (Empty(x) <=> Length(x) = 0)
  BY <1>6, QueueIs, LengthFacts
<1>11. /\ "r" \in open[x] /\ (Queue(x) = <<>> => "w" \notin open[x])
       /\ k \in 0..Len(Queue(x)) /\ (k = 0 => Queue(x) = <<>>)
  BY <1>2, <1>3, <1>4, <1>5, <1>10
<1>12. Stream!Take(x)
  <2>1. Queues[x] = Queue(x)
    BY QueuesAt
  <2>2. Queues' = [Queues EXCEPT ![x] = SubSeq(@, k + 1, Len(@))]
    BY <1>9, <2>1
  <2>3. QED
    BY Zenon, <1>4, <1>11, <2>1, <2>2 DEF Stream!Take
<1>13. QED
  BY Zenon, <1>12

\* pipewrite appends a section of a buffer, or nothing.
LEMMA PipePuts ==
  ASSUME FInv, FInv', NEW p \in Process, Write(p)
  PROVE  (\E x \in Page : Stream!Put(x)) \/ UNCHANGED Stream!vars
<1>1. PICK x \in Page : x = arg[p].pipe
  BY DEF Write, FInv, FilesInv, CallsHavePipes
<1>2. PICK k \in Nat : Wrote(p, x, k)
  BY Zenon, <1>1, WriteDoes
<1>3. PipeTypes /\ PipeTypes' /\ Rings' /\ cut' \subseteq Page /\ lock' \in [Page -> Process \cup {Null}]
  BY DEF FInv, PipeTypes, Rings
<1>4. PICK s \in Seq(Nat) : s = arg[p].buf
  BY Zenon DEF FInv, ProcTypes, Args
<1>5. /\ at[p] = "write" /\ k <= Len(s) /\ Length(x) + k <= PIPESIZE
      /\ ring' = [ring EXCEPT ![x] = Stored(x, s, k)] /\ nread' = nread /\ open' = open /\ out' = out
  BY Zenon, <1>2, <1>4 DEF Wrote
<1>6. /\ Length(x)' = Length(x) + k /\ (\A y \in Page : y # x => nwrite'[y] = nwrite[y])
      /\ k = 0 => nwrite'[x] = nwrite[x]
  BY Zenon, <1>2, <1>3, WrotePipes
<1>7. ring'[x] = Stored(x, s, k) /\ \A y \in Page : y # x => ring'[y] = ring[y]
  BY <1>3, <1>5 DEF PipeTypes
<1>8. CASE k = 0
  <2>1. ring'[x] = ring[x]
    BY <1>3, <1>7, <1>8, NothingStored
  <2>2. ring' = ring /\ nwrite' = nwrite
    BY <1>3, <1>6, <1>7, <1>8, <2>1 DEF PipeTypes
  <2>3. QED
    BY Zenon, <1>5, <2>2, Stutters
<1>9. CASE k > 0
  <2>1. Queue(x)' = Queue(x) \o SubSeq(s, 1, k)
    BY Zenon, <1>3, <1>5, <1>6, <1>7, QueuePut
  <2>2. \A y \in Page : y # x => Queue(y)' = Queue(y)
    BY Zenon, <1>5, <1>6, <1>7, QueueFrame
  <2>3. Queues' = [Queues EXCEPT ![x] = Queue(x) \o SubSeq(s, 1, k)]
    BY ZenonT(30), <2>1, <2>2, QueuesOne
  <2>4. PICK buf \in Bufs : \E i \in 1..Len(buf) : s = SubSeq(buf, i, Len(buf))
    BY Zenon, <1>4, <1>5 DEF FInv, WaitInv, Remaining, Writing
  <2>5. PICK i \in 1..Len(buf) : s = SubSeq(buf, i, Len(buf))
    BY <2>4
  <2>6. buf \in Seq(Nat)
    BY PipeConstants
  <2>7. PICK j \in 1..Len(buf) : j + 1 - i = k /\ SubSeq(s, 1, k) = SubSeq(buf, i, j)
    BY <1>5, <1>9, <2>5, <2>6, PrefixOfRest
  <2>8. "w" \in open[x]
    BY Zenon, <1>1, <1>5, CallerEnds DEF FInv, Writing
  <2>9. Len(Queue(x)) = Length(x)
    BY Zenon, <1>3, QueueIs
  <2>10. Stream!Put(x)
    <3>1. Queues[x] = Queue(x)
      BY QueuesAt
    <3>2. Len(Queues[x]) + (j + 1 - i) <= PIPESIZE
      BY Zenon, <1>5, <2>7, <2>9, <3>1
    <3>3. Queues' = [Queues EXCEPT ![x] = @ \o SubSeq(buf, i, j)]
      BY Zenon, <2>3, <2>7, <3>1
    <3>4. QED
      BY <1>5, <2>8, <3>2, <3>3, Zenon DEF Stream!Put
  <2>11. QED
    BY Zenon, <2>10
<1>10. QED
  BY SMTT(30), <1>8, <1>9

\* Every step is a step of the stream or changes nothing in it.
LEMMA StreamStep == FInv /\ FInv' /\ [Next]_vars => [Stream!Next]_Stream!vars
<1> SUFFICES ASSUME FInv, FInv', [Next]_vars PROVE Stream!Next \/ UNCHANGED Stream!vars
  OBVIOUS
<1>1. ASSUME NEW p \in Process, Fork(p) \/ Kill(p) \/ Exit(p) \/ ExitDone(p) PROVE UNCHANGED Stream!vars
  BY Zenon, <1>1, Stutters DEF Fork, Kill, Exit, ExitDone, pipes
<1>2. ASSUME NEW p \in Process, Dup(p) \/ Close(p) \/ CloseAll(p) PROVE UNCHANGED Stream!vars
  BY Zenon, <1>2, Stutters DEF Dup, Close, CloseAll, FileClose, pipes, procs
<1>3. ASSUME NEW p \in Process, CallRead(p) \/ CallWrite(p) \/ ReadBlocks(p) \/ Sleep(p) PROVE UNCHANGED Stream!vars
  BY <1>3, Stutters DEF CallRead, CallWrite, ReadBlocks, Sleep, pipes
<1>4. ASSUME NEW p \in Process, SysPipe(p) PROVE Stream!Next
  BY <1>4, PipeStarts DEF Stream!Next
<1>5. ASSUME NEW p \in Process, PipeClose(p) PROVE Stream!Next
  BY <1>5, PipeEnds DEF Stream!Next
<1>6. ASSUME NEW p \in Process, ReadCopies(p) PROVE Stream!Next
  BY <1>6, PipeTakes DEF Stream!Next
<1>7. ASSUME NEW p \in Process, Write(p) PROVE Stream!Next \/ UNCHANGED Stream!vars
  BY <1>7, PipePuts DEF Stream!Next
<1>8. CASE UNCHANGED vars
  BY <1>8, Stutters DEF vars, pipes, procs
<1>9. QED
  BY <1>1, <1>2, <1>3, <1>4, <1>5, <1>6, <1>7, <1>8 DEF Next

-----------------------------------------------------------------------------
(* The invariant *)

\* A descriptor names a file in use.
LEMMA CountedInv == FInv => Counted
<1> SUFFICES ASSUME FInv, NEW q \in Process, NEW d \in Fd, ofile[q][d] # 0 PROVE ref[ofile[q][d]] > 0
  BY Zenon DEF Counted
<1>1. PICK f \in File : f = ofile[q][d]
  BY DEF FInv, FilesInv, FileTypes
<1>2. QED
  BY <1>1, HeldIsUsed DEF FInv, FilesInv

\* The first process, without files.
LEMMA InitInv == Init => FInv
BY Zenon, InitFiles, InitWaits DEF FInv

\* fork and sys_dup.
LEMMA CopiesInv ==
  ASSUME FInv, NEW p \in Process, Fork(p) \/ Dup(p)
  PROVE  FInv'
BY Zenon, ForkFiles, ForkInv, DupFiles, DupInv DEF FInv

\* sys_close, and exit closing a descriptor.
LEMMA ClosesInv ==
  ASSUME FInv, NEW p \in Process, Close(p) \/ CloseAll(p)
  PROVE  FInv'
<1>1. PICK d \in Fd : ofile[p][d] # 0 /\ FileClose(p, d)
  BY Zenon, CloseAllFinds DEF Close, FreeFds
<1>2. at[p] \in {"run", "exit"}
  BY DEF Close, Enters, CloseAll
<1>3. QED
  BY Zenon, <1>1, <1>2, FileCloseFiles, FileCloseInv DEF FInv

\* pipeclose.
LEMMA EndClosedInv ==
  ASSUME FInv, NEW p \in Process, PipeClose(p)
  PROVE  FInv'
<1>1. PICK x \in Page : x = arg[p].pipe
  BY Zenon DEF PipeClose, FInv, FilesInv, CallsHavePipes
<1>2. PICK e \in {"r", "w"} : e = ClosedEnd(p)
  BY DEF ClosedEnd
<1>3. PipeClosed(p, x, e)
  BY Zenon, <1>1, <1>2, PipeCloseDoes DEF FInv
<1>4. QED
  BY Zenon, <1>1, <1>2, <1>3, PipeCloseFiles, PipeCloseInv DEF FInv

\* pipewrite stores bytes.
LEMMA RingsInv ==
  ASSUME FInv, NEW p \in Process, Write(p)
  PROVE  Rings'
<1>1. PICK x \in Page : x = arg[p].pipe
  BY Zenon DEF Write, FInv, FilesInv, CallsHavePipes
<1>2. PICK k \in Nat : Wrote(p, x, k)
  BY Zenon, <1>1, WriteDoes
<1>3. PICK s \in Seq(Nat) : s = arg[p].buf
  BY DEF FInv, ProcTypes, Args
<1>4. k <= Len(s) /\ ring' = [ring EXCEPT ![x] = Stored(x, s, k)]
  BY Zenon, <1>2, <1>3 DEF Wrote
<1>5. Stored(x, s, k) \in [0..(PIPESIZE - 1) -> Nat]
  BY Zenon, <1>4, StoredTyped DEF FInv
<1>6. QED
  BY <1>4, <1>5 DEF FInv, PipeTypes, Rings

\* Every step of every process.
LEMMA NextInv == FInv /\ [Next]_vars => FInv'
<1> SUFFICES ASSUME FInv, [Next]_vars PROVE FInv'
  OBVIOUS
<1>1. ASSUME NEW p \in Process, Kill(p) \/ Exit(p) \/ ExitDone(p) PROVE FInv'
  BY Zenon, <1>1, KillInv, ExitInv, ExitDoneInv
<1>2. ASSUME NEW p \in Process, SysPipe(p) PROVE FInv'
  BY Zenon, <1>2, SysPipeFiles, SysPipeInv DEF FInv
<1>3. ASSUME NEW p \in Process, ReadBlocks(p) \/ ReadCopies(p) \/ Sleep(p) PROVE FInv'
  BY Zenon, <1>3, ReadBlocksInv, ReadCopiesInv, SleepInv
<1>4. ASSUME NEW p \in Process, CallRead(p) \/ CallWrite(p) PROVE FInv'
  BY Zenon, <1>4, CountedInv, CallReadInv, CallWriteInv
<1>5. ASSUME NEW p \in Process, Write(p) PROVE FInv'
  BY Zenon, <1>5, RingsInv, WriteInv
<1>6. QED
  BY <1>1, <1>2, <1>3, <1>4, <1>5, CopiesInv, ClosesInv, EndClosedInv, StutterInv, Zenon DEF Next

-----------------------------------------------------------------------------
(* Theorems *)

\* Descriptors, files and pipes keep the inductive invariant under everything that
\* fork, exit, kill and the system calls of file.c and pipe.c do.
THEOREM Invariance == Spec => []FInv
BY InitInv, NextInv, PTL DEF Spec

\* What the invariant says of files and pipes.
LEMMA FilesSoundInv == FInv => FilesSound
<1> SUFFICES ASSUME FInv PROVE FilesSound
  OBVIOUS
<1>1. \A p \in Process : /\ Reading(p) => "r" \in open[arg[p].pipe]
                         /\ Writing(p) => "w" \in open[arg[p].pipe]
  BY Zenon, CallerEnds DEF FInv
<1>2. QED
  BY Zenon, <1>1 DEF FInv, FilesInv, FilesSound, TypeOK, PipesLive

\* A reference count of file.c is the number of descriptors, an end of a pipe is open
\* exactly while a file or a closing process owns it, and a process inside piperead or
\* pipewrite works on a page that pipeclose has not freed.
THEOREM FilesAreSound == Spec => []FilesSound
BY Invariance, FilesSoundInv, PTL

\* A reader or writer never sleeps on a pipe that is ready for it, unless a failing
\* write has left it there (sleep and wakeup in pipe.c): no wakeup is lost.
THEOREM SleepersJustified == Spec => []SleepJustified
<1>1. FInv => SleepJustified
  BY DEF FInv, WaitInv
<1>2. QED
  BY Invariance, <1>1, PTL

\* The pipe implements the byte stream: pipe.c's ring with its wrapping counters gives
\* every reader what was written, in order, none lost or repeated, and the end of the
\* stream only when the writers are gone, for every ring size and any number of processes.
THEOREM Refinement == Spec => IsStream
<1>1. Init => Stream!Init
  <2> SUFFICES ASSUME Init PROVE Stream!Init
    OBVIOUS
  <2>1. FInv
    BY InitInv
  <2>2. \A x \in Page : Queue(x) = <<>>
    <3>1. ASSUME NEW x \in Page PROVE Queue(x) = <<>>
      <4>1. Empty(x) /\ PipeTypes
        BY <2>1 DEF Init, Empty, FInv
      <4>2. QED
        BY <4>1, LengthFacts, QueueIs
    <3>2. QED
      BY <3>1, Zenon
  <2>3. QED
    BY <2>2 DEF Init, Stream!Init, Queues
<1>2. FInv /\ FInv' /\ [Next]_vars => [Stream!Next]_Stream!vars
  BY StreamStep
<1>3. QED
  BY Invariance, <1>1, <1>2, PTL DEF Spec, IsStream, Stream!Spec
=============================================================================
