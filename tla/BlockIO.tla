------------------------------ MODULE BlockIO ------------------------------
(***************************************************************************)
(* The buffer cache of xv6 (bio.c), the sleep locks on its buffers         *)
(* (sleeplock.c) and the disk drivers below it (ide.c, memide.c).          *)
(*                                                                         *)
(* A step of a process is a section under one spin lock: bcache.lock in    *)
(* bget and brelse, the lock inside a sleep lock, idelock in iderw.  The   *)
(* disk and its interrupt run beside the processes.  A process of the      *)
(* model has one buffer at a time: one that holds two at once, as bmap and *)
(* write_log do, is two of them.                                           *)
(***************************************************************************)
EXTENDS Integers, Sequences, FiniteSets

CONSTANTS Process,
          NBUF,       \* buffers of the cache
          NBLOCK,     \* blocks of the disk
          Drivers,    \* "ide" and "memide", as the kernel was linked
          MaxCalls,   \* bound on the blocks a process reads
          MaxPinned,  \* blocks the log keeps dirty in the cache
          MaxErrors,  \* bound on failed transfers
          None

ASSUME BuffersAssumption == IsFiniteSet(Process) /\ {NBUF, NBLOCK, MaxPinned} \subseteq Nat

Buffer == 1 .. NBUF
Block == 1 .. NBLOCK
Bufs == [blockno : Block \cup {None}, refcnt : Nat, valid : BOOLEAN, dirty : BOOLEAN, data : Nat]
Commands == [b : Buffer, write : BOOLEAN, block : Block, data : Nat]

ASSUME NoneAssumption == None \notin Process /\ None \notin Nat /\ None \notin Commands

VARIABLES driver,
          lru,     \* bcache.head: the buffers, most recently used first
          buf,     \* struct buf of each buffer
          lock,    \* the holder of b->lock
          queue,   \* idequeue
          hw,      \* what the disk is doing, a member of Commands, or None
          disk,    \* the contents of the disk
          pc,      \* where each process is
          mine,    \* the buffer it works on
          panic,
          calls, errors,
          asked,   \* the blocks 1 .. asked were read at least once
          last,    \* what was last put in each block, by whoever held its buffer
          spoilt,  \* buffers whose read from the disk failed
          lost     \* blocks whose write failed and that were not changed since

vars == <<driver, lru, buf, lock, queue, hw, disk, pc, mine, panic, calls, errors, asked, last, spoilt, lost>>

\* binit and ideinit.
Init ==
    /\ driver \in Drivers
    /\ lru = [k \in Buffer |-> NBUF + 1 - k]
    /\ buf = [b \in Buffer |-> [blockno |-> None, refcnt |-> 0, valid |-> FALSE,
                                dirty |-> FALSE, data |-> 0]]
    /\ lock = [b \in Buffer |-> None]
    /\ queue = <<>>
    /\ hw = None
    /\ disk = [k \in Block |-> 0]
    /\ pc = [p \in Process |-> "idle"]
    /\ mine = [p \in Process |-> None]
    /\ panic = FALSE
    /\ calls = [p \in Process |-> 0]
    /\ errors = 0
    /\ asked = 0
    /\ last = disk
    /\ spoilt = {}
    /\ lost = {}

Goto(p, label) == pc' = [pc EXCEPT ![p] = label]
At(p, label) == ~panic /\ pc[p] = label

(***************************************************************************)
(* bget and brelse.                                                        *)
(***************************************************************************)

Cached(k) == {b \in Buffer : buf[b].blockno = k}

\* Mutant: bget does not look at B_DIRTY.
RecyclableDirty == {b \in Buffer : buf[b].refcnt = 0}

Recyclable == {b \in Buffer : buf[b].refcnt = 0 /\ ~buf[b].dirty}

\* The recyclable buffer nearest the tail of the list.
LeastRecent(b) ==
    \E n \in Buffer : /\ lru[n] = b /\ b \in Recyclable
                      /\ \A m \in n + 1 .. NBUF : lru[m] \notin Recyclable

\* bget: the buffer of the block, or the least recently used one that is free
\* and clean; then acquiresleep.
BGet(p, k) ==
    /\ At(p, "idle") /\ calls[p] < MaxCalls
    /\ calls' = [calls EXCEPT ![p] = @ + 1]
    /\ asked' = IF k > asked THEN k ELSE asked
    /\ IF Cached(k) # {}
       THEN \E b \in Cached(k) :
              /\ buf' = [buf EXCEPT ![b].refcnt = @ + 1]
              /\ mine' = [mine EXCEPT ![p] = b]
              /\ Goto(p, "acquire")
              /\ UNCHANGED <<panic, spoilt>>
       ELSE IF Recyclable # {}
       THEN \E b \in Buffer :
              /\ LeastRecent(b)
              /\ buf' = [buf EXCEPT ![b] = [blockno |-> k, refcnt |-> 1, valid |-> FALSE,
                                            dirty |-> FALSE, data |-> @.data]]
              /\ mine' = [mine EXCEPT ![p] = b]
              /\ spoilt' = spoilt \ {b}
              /\ Goto(p, "acquire")
              /\ UNCHANGED panic
       ELSE /\ panic' = TRUE
            /\ UNCHANGED <<buf, mine, pc, spoilt>>
    /\ UNCHANGED <<driver, lru, lock, queue, hw, disk, errors, last, lost>>

\* Mutant: acquiresleep does not look whether the lock is taken.
AcquireAnyway(p) ==
    /\ At(p, "acquire")
    /\ lock' = [lock EXCEPT ![mine[p]] = p]
    /\ Goto(p, "bread")
    /\ UNCHANGED <<driver, lru, buf, queue, hw, disk, mine, panic, calls, errors, asked, last, spoilt, lost>>

\* acquiresleep: the lock is taken, or the process sleeps on it.
AcquireSleep(p) ==
    /\ At(p, "acquire")
    /\ IF lock[mine[p]] = None
       THEN /\ lock' = [lock EXCEPT ![mine[p]] = p]
            /\ Goto(p, "bread")
       ELSE /\ Goto(p, "asleep on lock")
            /\ UNCHANGED lock
    /\ UNCHANGED <<driver, lru, buf, queue, hw, disk, mine, panic, calls, errors, asked, last, spoilt, lost>>

\* Mutant: releasesleep wakes nobody.
ReleaseSilent(p) ==
    /\ At(p, "holds") \/ At(p, "done")
    /\ lock' = [lock EXCEPT ![mine[p]] = None]
    /\ Goto(p, "brelse")
    /\ UNCHANGED <<driver, lru, buf, queue, hw, disk, mine, panic, calls, errors, asked, last, spoilt, lost>>

\* releasesleep, the first half of brelse: whoever sleeps on the lock is woken.
\* brelse panics when the lock is not held; what it does then no longer matters.
ReleaseSleep(p) ==
    /\ At(p, "holds") \/ At(p, "done")
    /\ lock' = [lock EXCEPT ![mine[p]] = None]
    /\ pc' = [q \in Process |-> IF q = p THEN "brelse"
                                ELSE IF pc[q] = "asleep on lock" /\ mine[q] = mine[p]
                                THEN "acquire" ELSE pc[q]]
    /\ panic' = (lock[mine[p]] # p)
    /\ UNCHANGED <<driver, lru, buf, queue, hw, disk, mine, calls, errors, asked, last, spoilt, lost>>

\* The list with b at its head.
MovedToFront(b) ==
    [n \in Buffer |-> IF n = 1 THEN b
                      ELSE IF \E m \in n .. NBUF : lru[m] = b THEN lru[n - 1] ELSE lru[n]]

\* The rest of brelse: a buffer nobody waits for goes to the head of the list.
BRelse(p) ==
    /\ At(p, "brelse")
    /\ LET b == mine[p]
       IN /\ buf' = [buf EXCEPT ![b].refcnt = @ - 1]
          /\ lru' = IF buf[b].refcnt = 1 THEN MovedToFront(b) ELSE lru
    /\ mine' = [mine EXCEPT ![p] = None]
    /\ Goto(p, "idle")
    /\ UNCHANGED <<driver, lock, queue, hw, disk, panic, calls, errors, asked, last, spoilt, lost>>

(***************************************************************************)
(* The disk drivers.                                                       *)
(***************************************************************************)

\* The labels of a process that sleeps in iderw, and of one that was woken, by
\* what it goes on with.
Asleep == [holds |-> "reading", done |-> "writing"]
Woken == [reading |-> "read", writing |-> "written"]

\* idestart: the command, and the data of a write, are given to the disk.
Command(b) == [b |-> b, write |-> buf'[b].dirty, block |-> buf'[b].blockno, data |-> buf'[b].data]

\* Mutant: iderw starts the disk though it is busy.
IdeRwStarts(p, b, next) ==
    /\ driver = "ide"
    /\ queue' = Append(queue, b)
    /\ hw' = Command(b)
    /\ Goto(p, Asleep[next])
    /\ UNCHANGED <<disk, panic>>

\* bwrite and iderw panic for a buffer the process has not locked, and iderw for
\* one that is valid and clean: there is nothing to do.
Improper(p, b, flags) == lock[b] # p \/ (flags.valid /\ ~flags.dirty)

\* ide.c's iderw: the buffer is queued, the disk started if it was idle, and
\* the process sleeps until the buffer is valid and clean.
IdeRw(p, b, next) ==
    /\ driver = "ide"
    /\ queue' = Append(queue, b)
    /\ hw' = IF queue = <<>> THEN Command(b) ELSE hw
    /\ Goto(p, Asleep[next])
    /\ panic' = Improper(p, b, buf'[b])
    /\ UNCHANGED disk

\* memide.c's iderw: the block is copied at once.
MemRw(p, b, before, next) ==
    /\ driver = "memide"
    /\ IF before.dirty
       THEN /\ disk' = [disk EXCEPT ![before.blockno] = before.data]
            /\ buf' = [buf EXCEPT ![b] = [before EXCEPT !.dirty = FALSE, !.valid = TRUE]]
       ELSE /\ disk' = disk
            /\ buf' = [buf EXCEPT ![b] = [before EXCEPT !.data = disk[before.blockno], !.valid = TRUE]]
    /\ Goto(p, next)
    /\ panic' = Improper(p, b, before)
    /\ UNCHANGED <<queue, hw>>

\* bread, with the buffer locked: a buffer that is not valid is read.
BRead(p) ==
    /\ At(p, "bread")
    /\ LET b == mine[p]
       IN \/ /\ buf[b].valid
             /\ Goto(p, "holds")
             /\ UNCHANGED <<buf, queue, hw, disk, panic>>
          \/ /\ ~buf[b].valid
             /\ UNCHANGED buf
             /\ IdeRw(p, b, "holds")
          \/ /\ ~buf[b].valid
             /\ MemRw(p, b, buf[b], "holds")
    /\ UNCHANGED <<driver, lru, lock, mine, calls, errors, asked, last, spoilt, lost>>

\* The contents of a block are the number of times it was changed.
New(p) == last[buf[mine[p]].blockno] + 1

Pinned == {b \in Buffer : buf[b].dirty}
Queued == {queue[n] : n \in 1 .. Len(queue)}

\* The holder changes the block and leaves it to the log: log_write pins it.
LogWrite(p) ==
    /\ At(p, "holds")
    /\ Cardinality((Pinned \ Queued) \cup {mine[p]}) =< MaxPinned
    /\ buf' = [buf EXCEPT ![mine[p]].data = New(p), ![mine[p]].dirty = TRUE]
    /\ last' = [last EXCEPT ![buf[mine[p]].blockno] = New(p)]
    /\ spoilt' = spoilt \ {mine[p]}
    /\ lost' = lost \ {buf[mine[p]].blockno}
    /\ Goto(p, "done")
    /\ UNCHANGED <<driver, lru, lock, queue, hw, disk, mine, panic, calls, errors, asked>>

\* The holder changes the block and writes it: bwrite.
BWrite(p) ==
    /\ At(p, "holds")
    /\ LET b == mine[p]
           after == [buf[b] EXCEPT !.data = New(p), !.dirty = TRUE]
       IN /\ last' = [last EXCEPT ![after.blockno] = New(p)]
          /\ spoilt' = spoilt \ {b}
          /\ lost' = lost \ {after.blockno}
          /\ \/ /\ buf' = [buf EXCEPT ![b] = after]
                /\ IdeRw(p, b, "done")
             \/ MemRw(p, b, after, "done")
    /\ UNCHANGED <<driver, lru, lock, mine, calls, errors, asked>>

\* The disk finishes a write: it has the data it was given, or the write failed and
\* it has the old ones.
DiskWrites(failed) ==
    /\ ~panic /\ hw # None /\ hw.write
    /\ failed => errors < MaxErrors
    /\ errors' = IF failed THEN errors + 1 ELSE errors
    /\ disk' = IF failed THEN disk ELSE [disk EXCEPT ![hw.block] = hw.data]
    /\ lost' = IF failed THEN lost \cup {hw.block} ELSE lost
    /\ hw' = [hw EXCEPT !.write = FALSE]
    /\ UNCHANGED <<driver, lru, buf, lock, queue, pc, mine, panic, calls, asked, last, spoilt>>

\* ideintr: the first queued buffer is done.  A read whose status is bad leaves
\* the data as it was; the buffer becomes valid all the same.  The status of a write
\* is not looked at.
IdeIntr(failed) ==
    /\ ~panic /\ hw # None /\ ~hw.write /\ queue # <<>>
    /\ LET b == Head(queue)
           read == ~buf[b].dirty
       IN /\ failed => read /\ errors < MaxErrors
          /\ errors' = IF failed THEN errors + 1 ELSE errors
          /\ spoilt' = IF failed THEN spoilt \cup {b} ELSE spoilt
          /\ buf' = [buf EXCEPT ![b].data = IF read /\ ~failed THEN disk[hw.block] ELSE @,
                                ![b].valid = TRUE, ![b].dirty = FALSE]
          /\ pc' = [p \in Process |-> IF pc[p] \in DOMAIN Woken /\ mine[p] = b
                                      THEN Woken[pc[p]] ELSE pc[p]]
    /\ queue' = Tail(queue)
    /\ hw' = IF queue' = <<>> THEN None ELSE Command(Head(queue'))
    /\ UNCHANGED <<driver, lru, lock, disk, mine, panic, calls, asked, last, lost>>

Done(b) == buf[b].valid /\ ~buf[b].dirty

\* iderw wakes up, and looks at the flags again.
IoWoken(p) ==
    /\ \/ At(p, "read") /\ Goto(p, IF Done(mine[p]) THEN "holds" ELSE "reading")
       \/ At(p, "written") /\ Goto(p, IF Done(mine[p]) THEN "done" ELSE "writing")
    /\ UNCHANGED <<driver, lru, buf, lock, queue, hw, disk, mine, panic, calls, errors, asked, last, spoilt, lost>>

ProcessStep(p) ==
    \/ AcquireSleep(p) \/ BRead(p) \/ ReleaseSleep(p) \/ BRelse(p) \/ IoWoken(p)

Disk == \E failed \in BOOLEAN : DiskWrites(failed) \/ IdeIntr(failed)

\* Blocks are alike, so that those never read are asked for in their order.
Next ==
    \/ Disk
    \/ \E p \in Process :
         \/ ProcessStep(p)
         \/ \E k \in Block : k =< asked + 1 /\ BGet(p, k)
         \/ LogWrite(p) \/ BWrite(p)

\* The disk answers and interrupts; processes run, and give back their buffers.
Fairness ==
    /\ WF_vars(Disk)
    /\ \A p \in Process : WF_vars(ProcessStep(p))

Spec == Init /\ [][Next]_vars /\ Fairness

(***************************************************************************)
(* Properties.                                                             *)
(***************************************************************************)

Labels == {"idle", "acquire", "asleep on lock", "bread", "reading", "read", "holds",
           "writing", "written", "done", "brelse"}

\* Every variable has its type.
TypeOK ==
    /\ lru \in [Buffer -> Buffer]
    /\ \A b \in Buffer : \E n \in Buffer : lru[n] = b
    /\ buf \in [Buffer -> Bufs]
    /\ lock \in [Buffer -> Process \cup {None}]
    /\ pc \in [Process -> Labels]
    /\ mine \in [Process -> Buffer \cup {None}]
    /\ queue \in Seq(Buffer)
    /\ hw \in Commands \cup {None}
    /\ disk \in [Block -> Nat]
    /\ last \in [Block -> Nat]
    /\ spoilt \subseteq Buffer
    /\ lost \subseteq Block
    /\ panic \in BOOLEAN

\* A block has at most one buffer, however many processes ask for it at once:
\* bget looks and recycles under one hold of bcache.lock.
OneCopy == \A b, c \in Buffer : buf[b].blockno = buf[c].blockno /\ b # c => buf[b].blockno = None

Users(b) == {p \in Process : mine[p] = b}

\* refcnt is the number of processes that hold the buffer or wait for it, so a
\* buffer in use is never recycled under them.
RefcntExact == \A b \in Buffer : buf[b].refcnt = Cardinality(Users(b))

\* The disk has the latest contents of the block, or lost them in a failed write.
OnDisk(k) == k \in lost \/ disk[k] = last[k]

\* A process that holds a buffer sees what was last put in the block, by itself or
\* by another, whether it went through the log, through bwrite or was evicted and
\* read again; only a failed transfer, that nobody is told of, makes an exception.
ReadsLatest ==
    \A p \in Process : pc[p] \in {"holds", "done"} =>
        LET b == mine[p] IN
        /\ lock[b] = p
        /\ \/ buf[b].data = last[buf[b].blockno]
           \/ b \in spoilt \/ buf[b].blockno \in lost

\* A block leaves the cache only when the disk has its latest contents.
NothingLost == \A k \in Block : Cached(k) = {} => OnDisk(k)

\* The disk works on the first queued buffer and is idle only when none is queued;
\* a queued buffer is locked by the process that sleeps for it, once in the queue.
QueueSound ==
    /\ hw = None <=> queue = <<>>
    /\ hw # None => hw.b = Head(queue) /\ hw.block = buf[hw.b].blockno
    /\ \A m, n \in 1 .. Len(queue) : queue[m] = queue[n] => m = n
    /\ \A p \in Process : pc[p] \in DOMAIN Woken =>
          mine[p] \in Queued /\ lock[mine[p]] = p

\* No process sleeps on a lock that is free: releasesleep wakes all who sleep on it.
SleepersBlocked == \A p \in Process : pc[p] = "asleep on lock" => lock[mine[p]] # None

InCall == {p \in Process : mine[p] # None}

\* The only panic is that of bget, and only when the processes in bread and brelse
\* and the blocks of the log take up every buffer: nobody releases, writes or reads a
\* buffer without its lock, and iderw always has something to do.
PanicJustified == panic => NBUF =< Cardinality(InCall) + MaxPinned

\* The cache: one buffer for a block, recycled only when nobody uses it and its
\* contents are on disk, and one to be found unless all are in use.
CacheSound == TypeOK /\ OneCopy /\ RefcntExact /\ NothingLost /\ PanicJustified

\* Who sleeps is in line: for the disk, in its queue, or for a lock that is held.
SleepersQueued == QueueSound /\ SleepersBlocked

\* Every bread returns, and every buffer is given back, unless the machine panics.
BreadReturns == \A p \in Process : pc[p] # "idle" ~> pc[p] = "idle" \/ panic
=============================================================================
