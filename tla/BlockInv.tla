------------------------------ MODULE BlockInv ------------------------------
(***************************************************************************)
(* The inductive invariant of BlockIO: who holds which buffer, what is in  *)
(* line for the disk, and where the latest contents of a block are.        *)
(***************************************************************************)
EXTENDS BlockIO

\* Where a process has its buffer locked.
Holding == {"bread", "reading", "read", "holds", "writing", "written", "done"}

\* A process has a buffer from bget to the end of brelse.
HasBuffer == \A p \in Process : pc[p] = "idle" <=> mine[p] = None

\* From acquiresleep to releasesleep it holds the lock of its buffer.
HasLock == \A p \in Process : pc[p] \in Holding => lock[mine[p]] = p

\* A lock is held only there.
LockHeld == \A b \in Buffer : lock[b] # None => mine[lock[b]] = b /\ pc[lock[b]] \in Holding

\* Locks: the above, and nobody sleeps on a free lock.
LockInv == HasBuffer /\ HasLock /\ LockHeld /\ SleepersBlocked

\* The cache: one buffer for a block, counted references, and a buffer in use has
\* a block.
CacheInv ==
    /\ OneCopy
    /\ RefcntExact
    /\ \A p \in Process : mine[p] # None => buf[mine[p]].blockno # None

\* The queue: the disk works on its first buffer, and its buffers are those of the
\* processes that sleep in iderw, each once.
QueueInv ==
    /\ QueueSound
    /\ \A b \in Queued : lock[b] # None /\ pc[lock[b]] \in DOMAIN Woken

\* Data: a buffer that is dirty has the latest contents of its block; one that is
\* valid has them, and the disk has them unless the buffer is dirty or there is none,
\* but for failed transfers.
DataInv ==
    /\ NothingLost
    /\ \A b \in Buffer :
         /\ buf[b].dirty => buf[b].valid /\ buf[b].blockno # None
         /\ buf[b].blockno # None =>
              /\ buf[b].dirty \/ (buf[b].valid /\ b \notin spoilt /\ buf[b].blockno \notin lost)
                   => buf[b].data = last[buf[b].blockno]
              /\ ~buf[b].dirty => OnDisk(buf[b].blockno)

\* Requests: what the disk was given of a write is in the buffer; once it is on the
\* disk the disk has the latest contents.
RequestInv ==
    hw # None =>
        /\ hw.write => buf[hw.b].dirty /\ hw.data = buf[hw.b].data
        /\ ~hw.write /\ buf[hw.b].dirty => OnDisk(hw.block)

\* Flags: what a process may assume of its buffer at each point of bread and bwrite.
Flags(p) ==
    /\ pc[p] = "reading" => ~buf[mine[p]].valid
    /\ pc[p] = "writing" => buf[mine[p]].dirty
    /\ pc[p] \in {"read", "written", "holds", "done"} => buf[mine[p]].valid
    /\ pc[p] \in {"read", "written"} => ~buf[mine[p]].dirty

FlagsInv == \A p \in Process : Flags(p)

\* Buffers to be found: no more are pinned outside the queue than the log may pin.
PinnedInv == PanicJustified /\ Cardinality(Pinned \ Queued) =< MaxPinned

\* The inductive invariant: a block has one counted buffer, a lock one holder, the disk
\* works on the first request of its queue, and the latest contents of a block are in
\* its buffer or on the disk (bget, brelse, iderw and ideintr).
BInv ==
    TypeOK /\ LockInv /\ CacheInv /\ QueueInv /\ DataInv /\ RequestInv /\ FlagsInv /\ PinnedInv
=============================================================================
