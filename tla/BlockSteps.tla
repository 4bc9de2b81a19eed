----------------------------- MODULE BlockSteps -----------------------------
(***************************************************************************)
(* Facts about BInv, and the steps of the sleep locks, of brelse, bget and *)
(* bread: bget finds a buffer unless all are in use, and they preserve     *)
(* BInv.                                                                   *)
(***************************************************************************)
EXTENDS BlockInv, FiniteSetTheorems, TLAPS

-----------------------------------------------------------------------------
(* Facts *)

\* The labels of a process that sleeps in iderw.
LEMMA Sleeping == DOMAIN Woken = {"reading", "writing"}
  BY DEF Woken

\* A process in a call has a buffer, with a block; one that holds its lock is the
\* only one.
LEMMA HolderFacts ==
  ASSUME BInv, NEW p \in Process, pc[p] # "idle"
  PROVE  /\ mine[p] \in Buffer
         /\ buf[mine[p]].blockno \in Block
         /\ pc[p] \in Holding => \A q \in Process : pc[q] \in Holding /\ mine[q] = mine[p] => q = p
<1>1. mine[p] # None
  BY DEF BInv, LockInv, HasBuffer
<1>2. mine[p] \in Buffer
  BY <1>1 DEF BInv, TypeOK
<1>3. buf[mine[p]].blockno \in Block
  BY <1>1, <1>2 DEF BInv, TypeOK, CacheInv, Bufs
<1>4. QED
  BY <1>2, <1>3 DEF BInv, LockInv, HasLock

\* A queued buffer is locked by a process that sleeps for it.
LEMMA QueueFacts ==
  ASSUME BInv, NEW b \in Queued
  PROVE  /\ b \in Buffer /\ lock[b] \in Process
         /\ mine[lock[b]] = b /\ pc[lock[b]] \in {"reading", "writing"}
<1>0. \A n \in 1 .. Len(queue) : queue[n] \in Buffer
  BY DEF BInv, TypeOK
<1>1. b \in Buffer
  BY <1>0 DEF Queued
<1>2. lock[b] \in Process
  BY <1>1 DEF BInv, TypeOK, QueueInv
<1>3. QED
  BY <1>1, <1>2, Sleeping, NoneAssumption DEF BInv, QueueInv, LockInv, LockHeld

\* The disk works on a queued buffer.
LEMMA DiskFacts ==
  ASSUME BInv, hw # None
  PROVE  /\ queue # <<>> /\ hw \in Commands
         /\ hw.b = Head(queue) /\ hw.b \in Queued /\ hw.b = queue[1]
         /\ hw.block = buf[hw.b].blockno
<1>1. queue # <<>> /\ hw.b = Head(queue) /\ hw.block = buf[hw.b].blockno
  BY DEF BInv, QueueInv, QueueSound
<1>2. queue \in Seq(Buffer) /\ hw \in Commands
  BY DEF BInv, TypeOK
<1>3. Len(queue) \in Nat /\ Len(queue) # 0 /\ Head(queue) = queue[1]
  BY <1>1, <1>2
<1>4. QED
  BY <1>1, <1>2, <1>3 DEF Queued

\* Steps that leave the buffers and their users alone.
LEMMA CacheFrame ==
  ASSUME CacheInv, UNCHANGED <<buf, mine>>
  PROVE  CacheInv'
  BY DEF CacheInv, OneCopy, RefcntExact, Users

\* Steps that leave contents alone.
LEMMA DataFrame ==
  ASSUME DataInv, UNCHANGED <<disk, last, spoilt, lost>>,
         \A c \in Buffer : /\ buf'[c].blockno = buf[c].blockno /\ buf'[c].valid = buf[c].valid
                           /\ buf'[c].dirty = buf[c].dirty /\ buf'[c].data = buf[c].data
  PROVE  DataInv'
<1>1. \A k \in Block : Cached(k)' = Cached(k)
  BY DEF Cached
<1>2. QED
  BY <1>1 DEF DataInv, NothingLost, OnDisk

\* Steps that leave what the disk works on alone.
LEMMA RequestFrame ==
  ASSUME RequestInv, hw' = hw,
         hw # None => /\ buf'[hw.b].dirty = buf[hw.b].dirty /\ buf'[hw.b].data = buf[hw.b].data
                      /\ disk'[hw.block] = disk[hw.block] /\ last'[hw.block] = last[hw.block]
                      /\ hw.block \in lost' <=> hw.block \in lost
  PROVE  RequestInv'
  BY DEF RequestInv, OnDisk

\* Steps that leave flags and the queue alone.
LEMMA PinnedFrame ==
  ASSUME PinnedInv, UNCHANGED queue, Pinned' = Pinned, PanicJustified'
  PROVE  PinnedInv'
<1>1. Queued' = Queued
  BY DEF Queued
<1>2. QED
  BY <1>1 DEF PinnedInv

\* The machine runs.
LEMMA Running ==
  ASSUME BInv, ~panic, UNCHANGED panic
  PROVE  panic' = FALSE
  BY Zenon DEF BInv, TypeOK

\* A step that does not panic.
LEMMA NoNewPanic ==
  ASSUME panic' = FALSE
  PROVE  PanicJustified'
  BY DEF PanicJustified

\* Steps that leave locks alone, and move processes only from where they hold one
\* to where they hold it still.
LEMMA LockFrame ==
  ASSUME LockInv, UNCHANGED <<lock, mine>>,
         \A q \in Process : pc'[q] = pc[q] \/ (pc[q] \in Holding /\ pc'[q] \in Holding),
         lock \in [Buffer -> Process \cup {None}]
  PROVE  LockInv'
<1>1. HasBuffer'
  BY DEF LockInv, HasBuffer, Holding
<1>2. HasLock'
  BY DEF LockInv, HasLock
<1>3. LockHeld'
  <2>1. SUFFICES ASSUME NEW c \in Buffer, lock[c] # None
                 PROVE  mine[lock[c]] = c /\ pc'[lock[c]] \in Holding
    BY DEF LockHeld
  <2>2. lock[c] \in Process /\ mine[lock[c]] = c /\ pc[lock[c]] \in Holding
    BY <2>1 DEF LockInv, LockHeld
  <2>3. QED
    BY <2>2
<1>4. SleepersBlocked'
  BY DEF LockInv, SleepersBlocked, Holding
<1>5. QED
  BY <1>1, <1>2, <1>3, <1>4 DEF LockInv

\* Steps that leave the queue and who sleeps for it alone.
LEMMA QueueFrame ==
  ASSUME BInv, UNCHANGED <<queue, hw>>,
         \A q \in Process : pc'[q] \in {"reading", "writing"} =>
            pc[q] \in {"reading", "writing"} /\ mine'[q] = mine[q],
         \A c \in Queued : /\ lock'[c] = lock[c] /\ pc'[lock[c]] = pc[lock[c]]
                           /\ buf'[c].blockno = buf[c].blockno
  PROVE  QueueInv'
<1>1. Queued' = Queued
  BY DEF Queued
<1>2. \A q \in Process : pc'[q] \in {"reading", "writing"} => mine'[q] \in Queued /\ lock'[mine'[q]] = q
  <2>1. TAKE q \in Process
  <2>2. HAVE pc'[q] \in {"reading", "writing"}
  <2>3. mine[q] \in Queued /\ lock[mine[q]] = q
    BY <2>2, Sleeping DEF BInv, QueueInv, QueueSound
  <2>4. QED
    BY <2>2, <2>3
<1>3. \A c \in Queued : lock'[c] # None /\ pc'[lock'[c]] \in {"reading", "writing"}
  BY QueueFacts, NoneAssumption
<1>4. hw # None => hw.b \in Queued
  BY DiskFacts
<1>5. /\ hw = None <=> queue = <<>>
      /\ hw # None => hw.b = Head(queue) /\ hw.block = buf[hw.b].blockno
      /\ \A m, n \in 1 .. Len(queue) : queue[m] = queue[n] => m = n
  BY DEF BInv, QueueInv, QueueSound
<1>6. QueueSound'
  BY <1>1, <1>2, <1>4, <1>5, Sleeping DEF QueueSound
<1>7. QED
  BY <1>1, <1>3, <1>6, Sleeping DEF QueueInv

\* Steps that leave a process alone, or move it to where it assumes nothing.
LEMMA FlagsFrame ==
  ASSUME FlagsInv, NEW q \in Process,
         \/ pc'[q] \in {"idle", "acquire", "asleep on lock", "bread", "brelse"}
         \/ /\ pc'[q] = pc[q] /\ mine'[q] = mine[q]
            /\ buf'[mine[q]].valid = buf[mine[q]].valid /\ buf'[mine[q]].dirty = buf[mine[q]].dirty
  PROVE  Flags(q)'
<1>1. Flags(q)
  BY DEF FlagsInv
<1>2. CASE pc'[q] \in {"idle", "acquire", "asleep on lock", "bread", "brelse"}
  BY <1>2 DEF Flags
<1>3. CASE ~(pc'[q] \in {"idle", "acquire", "asleep on lock", "bread", "brelse"})
  BY <1>1, <1>3 DEF Flags
<1>4. QED
  BY <1>2, <1>3

-----------------------------------------------------------------------------
(* The sleep locks and brelse *)

\* acquiresleep takes the lock or goes to sleep on it.
LEMMA AcquireStep ==
  ASSUME BInv, NEW p \in Process, AcquireSleep(p)
  PROVE  BInv'
<1> DEFINE b == mine[p]
<1>0. /\ TypeOK /\ LockInv /\ QueueInv /\ FlagsInv
      /\ b \in Buffer /\ pc[p] = "acquire"
      /\ UNCHANGED <<lru, buf, queue, hw, disk, mine, panic, last, spoilt, lost>> /\ panic' = FALSE
  BY HolderFacts, Running DEF BInv, AcquireSleep, At
<1>T. /\ lock \in [Buffer -> Process \cup {None}] /\ pc \in [Process -> Labels]
      /\ mine \in [Process -> Buffer \cup {None}]
  BY <1>0 DEF TypeOK
<1>1. /\ lock' \in [Buffer -> Process \cup {None}] /\ pc' \in [Process -> Labels]
      /\ \A q \in Process : q # p => pc'[q] = pc[q]
      /\ \A c \in Buffer : c # b => lock'[c] = lock[c]
      /\ \/ lock[b] = None /\ lock'[b] = p /\ pc'[p] = "bread"
         \/ lock[b] # None /\ lock'[b] = lock[b] /\ pc'[p] = "asleep on lock"
  BY <1>0, <1>T, ZenonT(30) DEF AcquireSleep, Goto, Labels
<1>2. TypeOK'
  BY <1>0, <1>1 DEF TypeOK
<1>3. LockInv'
  <2>1. HasBuffer'
    BY <1>0, <1>1 DEF LockInv, HasBuffer
  <2>2. HasLock'
    <3>1. SUFFICES ASSUME NEW q \in Process, pc'[q] \in Holding
                   PROVE  lock'[mine'[q]] = q
      BY DEF HasLock
    <3>2. CASE q = p
      BY <1>0, <1>1, <3>1, <3>2 DEF Holding
    <3>3. CASE q # p
      <4>1. mine[q] \in Buffer /\ lock[mine[q]] = q
        BY <1>0, <1>1, <3>1, <3>3, HolderFacts DEF LockInv, HasLock, Holding
      <4>2. QED
        BY <1>0, <1>1, <3>3, <4>1, NoneAssumption
    <3>4. QED
      BY <3>2, <3>3
  <2>3. LockHeld'
    <3>1. SUFFICES ASSUME NEW c \in Buffer, lock'[c] # None
                   PROVE  mine[lock'[c]] = c /\ pc'[lock'[c]] \in Holding
      BY <1>0 DEF LockHeld
    <3>2. CASE lock'[c] = lock[c]
      <4>1. lock[c] \in Process /\ mine[lock[c]] = c /\ pc[lock[c]] \in Holding
        BY <1>0, <1>T, <3>1, <3>2 DEF LockInv, LockHeld
      <4>2. lock[c] # p
        BY <1>0, <4>1 DEF Holding
      <4>3. QED
        BY <1>1, <3>2, <4>1, <4>2
    <3>3. CASE lock'[c] # lock[c]
      BY <1>1, <3>1, <3>3 DEF Holding
    <3>4. QED
      BY <3>2, <3>3
  <2>4. SleepersBlocked'
    <3>1. SUFFICES ASSUME NEW q \in Process, pc'[q] = "asleep on lock"
                   PROVE  lock'[mine[q]] # None
      BY <1>0 DEF SleepersBlocked
    <3>2. CASE q = p
      BY <1>1, <3>1, <3>2
    <3>3. CASE q # p
      <4>1. mine[q] \in Buffer /\ lock[mine[q]] # None
        BY <1>0, <1>1, <3>1, <3>3, HolderFacts DEF LockInv, SleepersBlocked
      <4>2. QED
        BY <1>0, <1>1, <4>1, NoneAssumption
    <3>4. QED
      BY <3>2, <3>3
  <2>5. QED
    BY <2>1, <2>2, <2>3, <2>4 DEF LockInv
<1>4. \A c \in Queued : lock'[c] = lock[c] /\ pc'[lock[c]] = pc[lock[c]]
  <2>1. TAKE c \in Queued
  <2>2. c \in Buffer /\ lock[c] \in Process /\ pc[lock[c]] \in {"reading", "writing"}
    BY QueueFacts
  <2>3. lock[c] # p /\ lock[c] # None
    BY <1>0, <2>2, NoneAssumption
  <2>4. QED
    BY <1>1, <2>2, <2>3
<1>5. QueueInv'
  BY <1>0, <1>1, <1>4, QueueFrame
<1>6. FlagsInv'
  <2>1. SUFFICES ASSUME NEW q \in Process PROVE Flags(q)'
    BY DEF FlagsInv
  <2>2. \/ pc'[q] \in {"idle", "acquire", "asleep on lock", "bread", "brelse"}
        \/ pc'[q] = pc[q] /\ mine'[q] = mine[q]
    BY <1>0, <1>1
  <2>3. QED
    BY <1>0, <2>2, FlagsFrame
<1>7. Pinned' = Pinned
  BY <1>0 DEF Pinned
<1>8. QED
  BY <1>0, <1>2, <1>3, <1>5, <1>6, <1>7, CacheFrame, DataFrame, RequestFrame, NoNewPanic, PinnedFrame DEF BInv

\* releasesleep frees the lock and wakes those who sleep on it.
LEMMA ReleaseStep ==
  ASSUME BInv, NEW p \in Process, ReleaseSleep(p)
  PROVE  BInv'
<1> DEFINE b == mine[p]
<1>0. /\ TypeOK /\ LockInv /\ QueueInv /\ FlagsInv
      /\ b \in Buffer /\ pc[p] \in {"holds", "done"} /\ lock[b] = p
      /\ UNCHANGED <<lru, buf, queue, hw, disk, mine, last, spoilt, lost>> /\ panic' = FALSE
  BY HolderFacts DEF BInv, LockInv, HasLock, Holding, ReleaseSleep, At
<1>T. /\ lock \in [Buffer -> Process \cup {None}] /\ pc \in [Process -> Labels]
      /\ mine \in [Process -> Buffer \cup {None}]
  BY <1>0 DEF TypeOK
<1>1. /\ lock' \in [Buffer -> Process \cup {None}] /\ pc' \in [Process -> Labels]
      /\ pc'[p] = "brelse" /\ lock'[b] = None
      /\ \A q \in Process : q # p => IF pc[q] = "asleep on lock" /\ mine[q] = b
                                     THEN pc'[q] = "acquire" ELSE pc'[q] = pc[q]
      /\ \A c \in Buffer : c # b => lock'[c] = lock[c]
  BY <1>0, <1>T DEF ReleaseSleep, Labels
<1>2. TypeOK'
  BY <1>0, <1>1 DEF TypeOK
<1>3. LockInv'
  <2>1. HasBuffer'
    BY <1>0, <1>1, ZenonT(30) DEF LockInv, HasBuffer
  <2>2. HasLock'
    <3>1. SUFFICES ASSUME NEW q \in Process, pc'[q] \in Holding
                   PROVE  lock'[mine[q]] = q
      BY <1>0 DEF HasLock
    <3>2. q # p /\ pc[q] = pc'[q]
      BY <1>1, <3>1 DEF Holding
    <3>3. mine[q] \in Buffer /\ lock[mine[q]] = q
      BY <1>0, <3>1, <3>2, HolderFacts DEF LockInv, HasLock, Holding
    <3>4. QED
      BY <1>0, <1>1, <3>2, <3>3
  <2>3. LockHeld'
    <3>1. SUFFICES ASSUME NEW c \in Buffer, lock'[c] # None
                   PROVE  mine[lock'[c]] = c /\ pc'[lock'[c]] \in Holding
      BY <1>0 DEF LockHeld
    <3>2. c # b /\ lock'[c] = lock[c]
      BY <1>1, <3>1
    <3>3. lock[c] \in Process /\ mine[lock[c]] = c /\ pc[lock[c]] \in Holding
      BY <1>0, <1>T, <3>1, <3>2 DEF LockInv, LockHeld
    <3>4. lock[c] # p /\ pc[lock[c]] # "asleep on lock"
      BY <3>2, <3>3 DEF Holding
    <3>5. QED
      BY <1>1, <3>2, <3>3, <3>4
  <2>4. SleepersBlocked'
    <3>1. SUFFICES ASSUME NEW q \in Process, pc'[q] = "asleep on lock"
                   PROVE  lock'[mine[q]] # None
      BY <1>0 DEF SleepersBlocked
    <3>2. q # p /\ pc[q] = "asleep on lock" /\ mine[q] # b
      BY <1>1, <3>1
    <3>3. mine[q] \in Buffer /\ lock[mine[q]] # None
      BY <1>0, <3>2, HolderFacts DEF LockInv, SleepersBlocked
    <3>4. QED
      BY <1>1, <3>2, <3>3
  <2>5. QED
    BY <2>1, <2>2, <2>3, <2>4 DEF LockInv
<1>4. \A c \in Queued : lock'[c] = lock[c] /\ pc'[lock[c]] = pc[lock[c]]
  <2>1. TAKE c \in Queued
  <2>2. c \in Buffer /\ lock[c] \in Process /\ pc[lock[c]] \in {"reading", "writing"}
    BY QueueFacts
  <2>3. lock[c] # p /\ c # b
    BY <1>0, <2>2
  <2>4. QED
    BY <1>1, <2>2, <2>3
<1>5. QueueInv'
  BY <1>0, <1>1, <1>4, QueueFrame
<1>6. FlagsInv'
  <2>1. SUFFICES ASSUME NEW q \in Process PROVE Flags(q)'
    BY DEF FlagsInv
  <2>2. \/ pc'[q] \in {"idle", "acquire", "asleep on lock", "bread", "brelse"}
        \/ pc'[q] = pc[q] /\ mine'[q] = mine[q]
    BY <1>0, <1>1
  <2>3. QED
    BY <1>0, <2>2, FlagsFrame
<1>7. Pinned' = Pinned
  BY <1>0 DEF Pinned
<1>8. QED
  BY <1>0, <1>2, <1>3, <1>5, <1>6, <1>7, CacheFrame, DataFrame, RequestFrame, NoNewPanic, PinnedFrame DEF BInv

\* The list keeps every buffer when one is moved to its head.
LEMMA MovedList ==
  ASSUME TypeOK, NEW b \in Buffer
  PROVE  /\ MovedToFront(b) \in [Buffer -> Buffer]
         /\ \A c \in Buffer : \E n \in Buffer : MovedToFront(b)[n] = c
<1> DEFINE new == MovedToFront(b)
<1>0. NBUF \in Nat /\ Buffer = 1 .. NBUF
  BY BuffersAssumption DEF Buffer
<1>T. lru \in [Buffer -> Buffer] /\ \A c \in Buffer : \E n \in Buffer : lru[n] = c
  BY DEF TypeOK
<1>1. new = [n \in Buffer |-> IF n = 1 THEN b
                              ELSE IF \E m \in n .. NBUF : lru[m] = b THEN lru[n - 1] ELSE lru[n]]
  BY DEF MovedToFront
<1>2. \A n \in Buffer : n # 1 => n - 1 \in Buffer
  BY <1>0
<1>3. new \in [Buffer -> Buffer]
  BY <1>1, <1>2, <1>T
<1>4. ASSUME NEW c \in Buffer PROVE \E n \in Buffer : new[n] = c
  <2>1. CASE c = b
    BY <1>0, <1>1, <2>1
  <2>2. CASE c # b
    <3>1. PICK n \in Buffer : lru[n] = c
      BY <1>T
    <3>2. CASE \E m \in n .. NBUF : lru[m] = b
      <4>1. PICK m \in n .. NBUF : lru[m] = b
        BY <3>2
      <4>2. m # n /\ n + 1 \in Buffer /\ m \in n + 1 .. NBUF /\ n + 1 # 1 /\ (n + 1) - 1 = n
        BY <1>0, <2>2, <3>1, <4>1
      <4>3. new[n + 1] = lru[n]
        BY <1>1, <4>1, <4>2
      <4>4. QED
        BY <3>1, <4>2, <4>3
    <3>3. CASE ~ \E m \in n .. NBUF : lru[m] = b
      <4>1. PICK m \in Buffer : lru[m] = b
        BY <1>T
      <4>2. n # 1
        BY <1>0, <3>3, <4>1
      <4>3. new[n] = lru[n]
        BY <1>1, <3>3, <4>2
      <4>4. QED
        BY <3>1, <4>3
    <3>4. QED
      BY <3>2, <3>3
  <2>3. QED
    BY <2>1, <2>2
<1>5. QED
  BY <1>3, <1>4

\* refcnt counts the users of a buffer.
LEMMA UsersFacts ==
  ASSUME BInv, NEW b \in Buffer
  PROVE  /\ IsFiniteSet(Users(b)) /\ Cardinality(Users(b)) \in Nat
         /\ buf[b].refcnt = Cardinality(Users(b))
         /\ buf[b].refcnt = 0 => \A q \in Process : mine[q] # b
<1>1. Users(b) \subseteq Process /\ IsFiniteSet(Process)
  BY BuffersAssumption DEF Users
<1>2. IsFiniteSet(Users(b)) /\ Cardinality(Users(b)) \in Nat
  BY <1>1, FS_Subset, FS_CardinalityType
<1>3. buf[b].refcnt = Cardinality(Users(b))
  BY DEF BInv, CacheInv, RefcntExact
<1>4. buf[b].refcnt = 0 => Users(b) = {}
  BY <1>2, <1>3, FS_EmptySet, ZenonT(30)
<1>5. QED
  BY <1>2, <1>3, <1>4 DEF Users

\* brelse drops the reference of the process.
LEMMA BRelseStep ==
  ASSUME BInv, NEW p \in Process, BRelse(p)
  PROVE  BInv'
<1>b. PICK b \in Buffer : b = mine[p]
  BY HolderFacts DEF BRelse, At
<1>0. /\ TypeOK /\ LockInv /\ CacheInv /\ QueueInv /\ DataInv /\ RequestInv /\ FlagsInv /\ PinnedInv
      /\ b = mine[p] /\ b # None /\ pc[p] = "brelse"
      /\ UNCHANGED <<lock, queue, hw, disk, panic, last, spoilt, lost>> /\ panic' = FALSE
  BY <1>b, Running DEF BInv, BRelse, At, LockInv, HasBuffer
<1>T. /\ lock \in [Buffer -> Process \cup {None}] /\ pc \in [Process -> Labels]
      /\ mine \in [Process -> Buffer \cup {None}] /\ buf \in [Buffer -> Bufs]
      /\ \A c \in Buffer : buf[c].refcnt \in Nat
  BY Zenon, <1>0 DEF TypeOK, Bufs
<1>1. /\ pc' \in [Process -> Labels] /\ mine' \in [Process -> Buffer \cup {None}]
      /\ \A q \in Process : q # p => pc'[q] = pc[q] /\ mine'[q] = mine[q]
      /\ pc'[p] = "idle" /\ mine'[p] = None
  BY <1>0, <1>T DEF BRelse, Goto, Labels
<1>2. /\ \A c \in Buffer : /\ buf'[c].blockno = buf[c].blockno /\ buf'[c].valid = buf[c].valid
                           /\ buf'[c].dirty = buf[c].dirty /\ buf'[c].data = buf[c].data
      /\ \A c \in Buffer : c # b => buf'[c].refcnt = buf[c].refcnt
      /\ buf'[b].refcnt = buf[b].refcnt - 1
  BY <1>0, <1>T DEF BRelse, Bufs
<1>3. /\ Users(b)' = Users(b) \ {p} /\ p \in Users(b)
      /\ \A c \in Buffer : c # b => Users(c)' = Users(c)
  <2>1. \A c \in Buffer : c # None
    BY NoneAssumption DEF Buffer
  <2>2. QED
    BY <1>0, <1>1, <2>1 DEF Users
<1>4. RefcntExact'
  <2>1. Cardinality(Users(b)') = Cardinality(Users(b)) - 1
    BY <1>0, <1>3, UsersFacts, FS_RemoveElement, ZenonT(30)
  <2>2. buf'[b].refcnt = Cardinality(Users(b)')
    BY <1>0, <1>2, <2>1, UsersFacts
  <2>3. \A c \in Buffer : c # b => buf'[c].refcnt = Cardinality(Users(c)')
    BY <1>2, <1>3, UsersFacts
  <2>4. QED
    BY <2>2, <2>3 DEF RefcntExact
<1>5. TypeOK'
  <2>1. buf[b].refcnt # 0
    BY <1>0, UsersFacts
  <2>2. buf' \in [Buffer -> Bufs]
    BY <1>0, <1>T, <2>1 DEF BRelse, Bufs
  <2>3. lru' \in [Buffer -> Buffer] /\ \A c \in Buffer : \E n \in Buffer : lru'[n] = c
    <3>1. CASE lru' = MovedToFront(b)
      BY <1>0, <3>1, MovedList, ZenonT(30)
    <3>2. CASE lru' = lru
      BY <1>0, <3>2 DEF TypeOK
    <3>3. QED
      BY <1>0, <3>1, <3>2 DEF BRelse
  <2>4. QED
    BY <1>0, <1>1, <2>2, <2>3 DEF TypeOK
<1>6. LockInv'
  <2>1. HasBuffer'
    BY <1>0, <1>1 DEF LockInv, HasBuffer
  <2>2. HasLock'
    BY <1>0, <1>1 DEF LockInv, HasLock, Holding
  <2>3. LockHeld'
    <3>1. SUFFICES ASSUME NEW c \in Buffer, lock[c] # None
                   PROVE  mine'[lock[c]] = c /\ pc'[lock[c]] \in Holding
      BY <1>0 DEF LockHeld
    <3>2. lock[c] \in Process /\ mine[lock[c]] = c /\ pc[lock[c]] \in Holding
      BY <1>0, <1>T, <3>1 DEF LockInv, LockHeld
    <3>3. lock[c] # p
      BY <1>0, <3>2 DEF Holding
    <3>4. QED
      BY <1>1, <3>2, <3>3
  <2>4. SleepersBlocked'
    BY <1>0, <1>1 DEF LockInv, SleepersBlocked
  <2>5. QED
    BY <2>1, <2>2, <2>3, <2>4 DEF LockInv
<1>7. CacheInv'
  <2>0. OneCopy /\ \A q \in Process : mine[q] # None => buf[mine[q]].blockno # None
    BY <1>0 DEF CacheInv
  <2>1. OneCopy'
    BY <1>2, <2>0 DEF OneCopy
  <2>2. \A q \in Process : mine'[q] # None => buf'[mine'[q]].blockno # None
    <3>1. TAKE q \in Process
    <3>2. HAVE mine'[q] # None
    <3>3. q # p /\ mine'[q] = mine[q] /\ mine[q] \in Buffer
      BY <1>1, <1>T, <3>2
    <3>4. QED
      BY <1>2, <2>0, <3>2, <3>3
  <2>3. QED
    BY <1>4, <2>1, <2>2 DEF CacheInv
<1>8. QueueInv'
  <2>1. \A c \in Queued : pc'[lock[c]] = pc[lock[c]] /\ buf'[c].blockno = buf[c].blockno
    <3>1. TAKE c \in Queued
    <3>2. c \in Buffer /\ lock[c] \in Process /\ pc[lock[c]] \in {"reading", "writing"}
      BY QueueFacts
    <3>3. lock[c] # p
      BY <1>0, <3>2
    <3>4. QED
      BY <1>1, <1>2, <3>2, <3>3, SMTT(30)
  <2>2. QED
    BY <1>0, <1>1, <2>1, QueueFrame
<1>9. DataInv'
  BY <1>0, <1>2, DataFrame
<1>10. RequestInv'
  <2>1. hw # None => hw.b \in Buffer
    BY DiskFacts, QueueFacts
  <2>2. QED
    BY <1>0, <1>2, <2>1, RequestFrame
<1>11. FlagsInv'
  <2>1. SUFFICES ASSUME NEW q \in Process PROVE Flags(q)'
    BY DEF FlagsInv
  <2>2. CASE q = p
    BY <1>0, <1>1, <2>2, FlagsFrame, ZenonT(30)
  <2>3. CASE pc[q] = "idle"
    BY <1>0, <1>1, <2>3, FlagsFrame, ZenonT(30)
  <2>4. CASE q # p /\ pc[q] # "idle"
    BY Zenon, <1>0, <1>1, <1>2, <2>4, HolderFacts, FlagsFrame
  <2>5. QED
    BY <2>2, <2>3, <2>4
<1>12. PinnedInv'
  <2>1. Pinned' = Pinned
    BY <1>2 DEF Pinned
  <2>2. QED
    BY <1>0, <2>1, NoNewPanic, PinnedFrame
<1>13. QED
  BY <1>5, <1>6, <1>7, <1>8, <1>9, <1>10, <1>11, <1>12 DEF BInv

-----------------------------------------------------------------------------
(* bget *)

\* When bget finds no buffer, those in use and those the log has pinned are all there
\* are: a process in a call has one at most, and those in line for the disk are
\* among them.
LEMMA BuffersUsedUp ==
  ASSUME BInv, Recyclable = {}
  PROVE  NBUF =< Cardinality(InCall) + MaxPinned
<1> DEFINE InUse == {c \in Buffer : buf[c].refcnt # 0}
           Out == Pinned \ Queued
<1>0. /\ NBUF \in Nat /\ MaxPinned \in Nat /\ IsFiniteSet(InCall) /\ Cardinality(InCall) \in Nat
  <2>1. IsFiniteSet(Process) /\ InCall \in SUBSET Process
    BY BuffersAssumption DEF InCall
  <2>2. QED
    BY <2>1, BuffersAssumption, FS_Subset, FS_CardinalityType
<1>2. \A c \in Buffer : c # None
  BY NoneAssumption DEF Buffer
<1>3. \A c \in InUse : \E q \in InCall : mine[q] = c
  <2>1. TAKE c \in InUse
  <2>2. Users(c) # {}
    BY UsersFacts, FS_EmptySet
  <2>3. QED
    BY <1>2, <2>2 DEF Users, InCall
<1>5. IsFiniteSet(Buffer) /\ Cardinality(Buffer) = NBUF
  <2>1. /\ IsFiniteSet(1 .. NBUF)
        /\ Cardinality(1 .. NBUF) = IF 1 > NBUF THEN 0 ELSE NBUF - 1 + 1
    BY <1>0, FS_Interval
  <2>2. QED
    BY <1>0, <2>1 DEF Buffer
<1>6. IsFiniteSet(InUse) /\ IsFiniteSet(Out) /\ Cardinality(InUse) \in Nat /\ Cardinality(Out) \in Nat
  <2>1. InUse \subseteq Buffer /\ Out \subseteq Buffer
    BY DEF Pinned
  <2>2. IsFiniteSet(InUse) /\ IsFiniteSet(Out)
    BY <1>5, <2>1, FS_Subset
  <2>3. QED
    BY <2>2, FS_CardinalityType
<1>7. Cardinality(InUse) =< Cardinality(InCall)
  <2> DEFINE Having == {q \in InCall : mine[q] \in InUse}
             f == [q \in Having |-> mine[q]]
  <2>1. IsFiniteSet(Having) /\ Cardinality(Having) =< Cardinality(InCall)
    BY <1>0, FS_Subset
  <2>2. f \in Surjection(Having, InUse)
    <3>1. f \in [Having -> InUse]
      OBVIOUS
    <3>2. \A c \in InUse : \E q \in Having : f[q] = c
      BY <1>3
    <3>3. QED
      BY <3>1, <3>2 DEF Surjection
  <2>3. Cardinality(InUse) =< Cardinality(Having)
    BY <2>1, <2>2, FS_Surjection
  <2>4. Cardinality(Having) \in Nat
    BY <2>1, FS_CardinalityType
  <2>5. QED
    BY <1>0, <1>6, <2>1, <2>3, <2>4
<1>8. Cardinality(Out) =< MaxPinned
  BY DEF BInv, PinnedInv
<1>9. Queued \subseteq InUse
  <2>1. SUFFICES ASSUME NEW c \in Queued PROVE c \in InUse
    OBVIOUS
  <2>2. c \in Buffer /\ lock[c] \in Process /\ mine[lock[c]] = c
    BY QueueFacts
  <2>3. QED
    BY <2>2, UsersFacts
<1>10. InUse \cup Out = Buffer
  BY <1>9 DEF Recyclable, Pinned
<1>11. Cardinality(InUse \cup Out) = Cardinality(InUse) + Cardinality(Out) - Cardinality(InUse \cap Out)
  BY <1>6, FS_Union
<1>12. IsFiniteSet(InUse \cap Out)
  BY <1>6, FS_Subset, InUse \cap Out \in SUBSET InUse
<1>13. Cardinality(InUse \cap Out) \in Nat
  BY <1>12, FS_CardinalityType
<1>14. NBUF = Cardinality(InUse) + Cardinality(Out) - Cardinality(InUse \cap Out)
  BY <1>5, <1>10, <1>11, ZenonT(30)
<1> HIDE DEF InUse, Out
<1>15. QED
  BY <1>0, <1>6, <1>7, <1>8, <1>13, <1>14

\* A step that changes nothing but panic.
LEMMA OnlyPanics ==
  ASSUME BInv, UNCHANGED <<lru, buf, lock, queue, hw, disk, pc, mine, last, spoilt, lost>>,
         panic' \in BOOLEAN, PanicJustified'
  PROVE  BInv'
<1>1. TypeOK' /\ FlagsInv'
  BY DEF BInv, TypeOK, FlagsInv, Flags
<1>2. LockInv'
  BY ZenonT(30) DEF BInv, LockInv, HasBuffer, HasLock, LockHeld, SleepersBlocked
<1>3. QueueInv'
  BY DEF BInv, QueueInv, QueueSound, Queued
<1>4. Pinned' = Pinned
  BY DEF Pinned
<1>5. QED
  BY Zenon, <1>1, <1>2, <1>3, <1>4, CacheFrame, DataFrame, RequestFrame, PinnedFrame DEF BInv

\* bget gives an idle process a buffer: locks are as before.
LEMMA GetLocks ==
  ASSUME BInv, NEW p \in Process, pc[p] = "idle", NEW b \in Buffer, UNCHANGED lock,
         pc' = [pc EXCEPT ![p] = "acquire"], mine' = [mine EXCEPT ![p] = b]
  PROVE  /\ pc' \in [Process -> Labels] /\ mine' \in [Process -> Buffer \cup {None}]
         /\ \A q \in Process : q # p => pc'[q] = pc[q] /\ mine'[q] = mine[q]
         /\ pc'[p] = "acquire" /\ mine'[p] = b /\ mine[p] = None
         /\ LockInv'
<1>T. /\ lock \in [Buffer -> Process \cup {None}] /\ pc \in [Process -> Labels]
      /\ mine \in [Process -> Buffer \cup {None}]
  BY DEF BInv, TypeOK
<1>1. /\ pc' \in [Process -> Labels] /\ mine' \in [Process -> Buffer \cup {None}]
      /\ \A q \in Process : q # p => pc'[q] = pc[q] /\ mine'[q] = mine[q]
      /\ pc'[p] = "acquire" /\ mine'[p] = b
  BY <1>T DEF Labels
<1>2. LockInv /\ mine[p] = None /\ b # None
  BY NoneAssumption DEF BInv, LockInv, HasBuffer, Buffer
<1>3. HasBuffer'
  BY <1>1, <1>2 DEF LockInv, HasBuffer
<1>4. HasLock'
  BY <1>1, <1>2 DEF LockInv, HasLock, Holding
<1>5. LockHeld'
  <2>1. SUFFICES ASSUME NEW c \in Buffer, lock[c] # None
                 PROVE  mine'[lock[c]] = c /\ pc'[lock[c]] \in Holding
    BY DEF LockHeld
  <2>2. lock[c] \in Process /\ mine[lock[c]] = c /\ pc[lock[c]] \in Holding
    BY <1>2, <1>T, <2>1 DEF LockInv, LockHeld
  <2>3. lock[c] # p
    BY <2>2 DEF Holding
  <2>4. QED
    BY <1>1, <2>2, <2>3
<1>6. SleepersBlocked'
  BY <1>1, <1>2 DEF LockInv, SleepersBlocked
<1>7. QED
  BY <1>1, <1>2, <1>3, <1>4, <1>5, <1>6 DEF LockInv

\* The references once the process has the buffer, if bget counted it.
LEMMA GetUsers ==
  ASSUME BInv, NEW p \in Process, mine[p] = None, NEW b \in Buffer,
         \A q \in Process : q # p => mine'[q] = mine[q], mine'[p] = b,
         \A c \in Buffer : c # b => buf'[c].refcnt = buf[c].refcnt,
         buf'[b].refcnt = buf[b].refcnt + 1
  PROVE  RefcntExact'
<1>1. \A c \in Buffer : c # None
  BY NoneAssumption DEF Buffer
<1>2. /\ Users(b)' = Users(b) \cup {p} /\ p \notin Users(b)
      /\ \A c \in Buffer : c # b => Users(c)' = Users(c)
  BY <1>1 DEF Users
<1>3. Cardinality(Users(b)') = Cardinality(Users(b)) + 1
  <2>1. IsFiniteSet(Users(b))
    BY UsersFacts
  <2>2. Cardinality(Users(b) \cup {p}) = Cardinality(Users(b)) + 1
    BY <1>2, <2>1, FS_AddElement, ZenonT(30)
  <2>3. QED
    BY <1>2, <2>2
<1>4. buf'[b].refcnt = Cardinality(Users(b)')
  BY <1>3, UsersFacts
<1>5. \A c \in Buffer : c # b => buf'[c].refcnt = Cardinality(Users(c)')
  BY <1>2, UsersFacts
<1>6. QED
  BY <1>4, <1>5 DEF RefcntExact

\* bget finds the block in the cache.
LEMMA GetCached ==
  ASSUME BInv, NEW p \in Process, pc[p] = "idle",
         NEW b \in Buffer, buf[b].blockno \in Block,
         buf' = [buf EXCEPT ![b].refcnt = @ + 1],
         pc' = [pc EXCEPT ![p] = "acquire"], mine' = [mine EXCEPT ![p] = b],
         UNCHANGED <<lru, lock, queue, hw, disk, last, spoilt, lost>>, panic' = FALSE
  PROVE  BInv'
<1>0. TypeOK /\ CacheInv /\ DataInv /\ RequestInv /\ FlagsInv /\ PinnedInv
  BY DEF BInv
<1>1. /\ pc' \in [Process -> Labels] /\ mine' \in [Process -> Buffer \cup {None}]
      /\ \A q \in Process : q # p => pc'[q] = pc[q] /\ mine'[q] = mine[q]
      /\ pc'[p] = "acquire" /\ mine'[p] = b /\ mine[p] = None
      /\ LockInv'
  BY GetLocks, ZenonT(30)
<1>T. buf \in [Buffer -> Bufs] /\ mine \in [Process -> Buffer \cup {None}]
  BY <1>0 DEF TypeOK
<1>2. /\ \A c \in Buffer : /\ buf'[c].blockno = buf[c].blockno /\ buf'[c].valid = buf[c].valid
                           /\ buf'[c].dirty = buf[c].dirty /\ buf'[c].data = buf[c].data
      /\ \A c \in Buffer : c # b => buf'[c].refcnt = buf[c].refcnt
      /\ buf'[b].refcnt = buf[b].refcnt + 1
      /\ buf' \in [Buffer -> Bufs]
  BY <1>T DEF Bufs
<1>3. TypeOK'
  <2>1. /\ lock' \in [Buffer -> Process \cup {None}] /\ queue' \in Seq(Buffer)
        /\ hw' \in Commands \cup {None} /\ disk' \in [Block -> Nat] /\ last' \in [Block -> Nat]
        /\ spoilt' \subseteq Buffer /\ lost' \subseteq Block /\ panic' \in BOOLEAN
    BY Zenon, <1>0 DEF TypeOK
  <2>2. lru' \in [Buffer -> Buffer] /\ \A c \in Buffer : \E n \in Buffer : lru'[n] = c
    BY Zenon, <1>0 DEF TypeOK
  <2>3. QED
    BY Zenon, <1>1, <1>2, <2>1, <2>2 DEF TypeOK
<1>4. CacheInv'
  <2>1. OneCopy /\ \A q \in Process : mine[q] # None => buf[mine[q]].blockno # None
    BY <1>0 DEF CacheInv
  <2>2. OneCopy'
    BY <1>2, <2>1 DEF OneCopy
  <2>3. \A q \in Process : mine'[q] # None => buf'[mine'[q]].blockno # None
    <3>1. TAKE q \in Process
    <3>2. HAVE mine'[q] # None
    <3>3. CASE q = p
      BY <1>1, <1>2, <3>3, NoneAssumption DEF Block
    <3>4. CASE q # p
      BY <1>1, <1>2, <1>T, <2>1, <3>2, <3>4
    <3>5. QED
      BY <3>3, <3>4
  <2>4. RefcntExact'
    BY <1>1, <1>2, GetUsers
  <2>5. QED
    BY <2>2, <2>3, <2>4 DEF CacheInv
<1>5. QueueInv'
  <2>1. \A c \in Queued : pc'[lock[c]] = pc[lock[c]] /\ buf'[c].blockno = buf[c].blockno
    <3>1. TAKE c \in Queued
    <3>2. c \in Buffer /\ lock[c] \in Process /\ pc[lock[c]] \in {"reading", "writing"}
      BY QueueFacts
    <3>3. QED
      BY <1>1, <1>2, <3>2
  <2>2. QED
    BY <1>1, <2>1, QueueFrame
<1>6. DataInv'
  BY <1>0, <1>2, DataFrame
<1>7. RequestInv'
  <2>1. hw # None => hw.b \in Buffer
    BY DiskFacts, QueueFacts
  <2>2. QED
    BY <1>0, <1>2, <2>1, RequestFrame
<1>8. FlagsInv'
  <2>1. SUFFICES ASSUME NEW q \in Process PROVE Flags(q)'
    BY DEF FlagsInv
  <2>2. CASE q = p
    BY <1>0, <1>1, <2>2, FlagsFrame
  <2>3. CASE q # p /\ pc[q] = "idle"
    BY <1>0, <1>1, <2>3, FlagsFrame
  <2>4. CASE q # p /\ pc[q] # "idle"
    BY <1>0, <1>1, <1>2, <2>4, HolderFacts, FlagsFrame
  <2>5. QED
    BY <2>2, <2>3, <2>4
<1>9. PinnedInv'
  <2>1. Pinned' = Pinned
    BY <1>2 DEF Pinned
  <2>2. QED
    BY <1>0, <2>1, NoNewPanic, PinnedFrame
<1>10. QED
  BY <1>1, <1>3, <1>4, <1>5, <1>6, <1>7, <1>8, <1>9 DEF BInv

\* bget recycles a buffer that nobody uses and that is clean.
LEMMA GetRecycled ==
  ASSUME BInv, NEW p \in Process, pc[p] = "idle",
         NEW k \in Block, Cached(k) = {}, NEW b \in Recyclable,
         buf' = [buf EXCEPT ![b] = [blockno |-> k, refcnt |-> 1, valid |-> FALSE,
                                    dirty |-> FALSE, data |-> @.data]],
         pc' = [pc EXCEPT ![p] = "acquire"], mine' = [mine EXCEPT ![p] = b],
         spoilt' = spoilt \ {b},
         UNCHANGED <<lru, lock, queue, hw, disk, last, lost>>, panic' = FALSE
  PROVE  BInv'
<1>0. TypeOK /\ CacheInv /\ DataInv /\ RequestInv /\ FlagsInv /\ PinnedInv
  BY DEF BInv
<1>b. b \in Buffer /\ buf[b].refcnt = 0 /\ ~buf[b].dirty /\ \A q \in Process : mine[q] # b
  BY UsersFacts DEF Recyclable
<1>1. /\ pc' \in [Process -> Labels] /\ mine' \in [Process -> Buffer \cup {None}]
      /\ \A q \in Process : q # p => pc'[q] = pc[q] /\ mine'[q] = mine[q]
      /\ pc'[p] = "acquire" /\ mine'[p] = b /\ mine[p] = None
      /\ LockInv'
  BY <1>b, GetLocks, ZenonT(30)
<1>T. buf \in [Buffer -> Bufs] /\ mine \in [Process -> Buffer \cup {None}]
  BY <1>0 DEF TypeOK
<1>2. /\ \A c \in Buffer : c # b => buf'[c] = buf[c]
      /\ buf'[b].blockno = k /\ buf'[b].refcnt = 1 /\ ~buf'[b].valid /\ ~buf'[b].dirty
      /\ buf' \in [Buffer -> Bufs]
  BY <1>b, <1>T DEF Bufs
<1>3. TypeOK'
  BY <1>0, <1>1, <1>2 DEF TypeOK
<1>Q. \A c \in Queued : c \in Buffer /\ c # b /\ lock[c] \in Process /\ pc[lock[c]] \in {"reading", "writing"}
  BY <1>b, QueueFacts
<1>4. CacheInv'
  <2>1. OneCopy /\ \A q \in Process : mine[q] # None => buf[mine[q]].blockno # None
    BY <1>0 DEF CacheInv
  <2>2. \A c \in Buffer : buf[c].blockno # k
    BY DEF Cached
  <2>3. OneCopy'
    BY <1>2, <2>1, <2>2 DEF OneCopy
  <2>4. \A q \in Process : mine'[q] # None => buf'[mine'[q]].blockno # None
    <3>1. TAKE q \in Process
    <3>2. HAVE mine'[q] # None
    <3>3. CASE q = p
      BY <1>1, <1>2, <3>3, NoneAssumption DEF Block
    <3>4. CASE q # p
      <4>1. mine'[q] = mine[q] /\ mine[q] \in Buffer /\ mine[q] # b
        BY <1>1, <1>b, <1>T, <3>2, <3>4
      <4>2. QED
        BY <1>2, <2>1, <3>2, <4>1
    <3>5. QED
      BY <3>3, <3>4
  <2>5. RefcntExact'
    BY <1>1, <1>2, <1>b, GetUsers
  <2>6. QED
    BY <2>3, <2>4, <2>5 DEF CacheInv
<1>5. QueueInv'
  <2>1. \A c \in Queued : pc'[lock[c]] = pc[lock[c]] /\ buf'[c].blockno = buf[c].blockno
    BY <1>1, <1>2, <1>Q
  <2>2. QED
    BY <1>1, <2>1, QueueFrame
<1>6. DataInv'
  <2>0. NothingLost /\ OnDisk(k) /\ \A j \in Block : OnDisk(j)' <=> OnDisk(j)
    BY <1>0 DEF DataInv, NothingLost, OnDisk
  <2>1. NothingLost'
    <3>1. SUFFICES ASSUME NEW j \in Block, Cached(j)' = {}
                   PROVE  OnDisk(j)
      BY <2>0 DEF NothingLost
    <3>2. CASE buf[b].blockno = j
      BY <1>0, <1>b, <3>2, NoneAssumption DEF DataInv, Block
    <3>3. CASE buf[b].blockno # j
      <4>1. Cached(j) = {}
        BY <1>2, <3>1, <3>3 DEF Cached
      <4>2. QED
        BY <2>0, <4>1 DEF NothingLost
    <3>4. QED
      BY <3>2, <3>3
  <2>2. ASSUME NEW c \in Buffer
        PROVE  /\ buf'[c].dirty => buf'[c].valid /\ buf'[c].blockno # None
               /\ buf'[c].blockno # None =>
                    /\ buf'[c].dirty \/ (buf'[c].valid /\ c \notin spoilt' /\ buf'[c].blockno \notin lost')
                         => buf'[c].data = last'[buf'[c].blockno]
                    /\ ~buf'[c].dirty => OnDisk(buf[c].blockno)'
    <3>1. CASE c = b
      BY <1>2, <2>0, <3>1 DEF OnDisk
    <3>2. CASE c # b
      <4>1. buf'[c] = buf[c] /\ (c \in spoilt' <=> c \in spoilt)
        BY <1>2, <3>2
      <4>2. QED
        BY <1>0, <4>1 DEF DataInv, OnDisk
    <3>3. QED
      BY Zenon, <3>1, <3>2
  <2>3. QED
    BY <2>1, <2>2 DEF DataInv
<1>7. RequestInv'
  <2>1. hw # None => hw.b \in Queued
    BY DiskFacts
  <2>2. QED
    BY <1>0, <1>2, <1>Q, <2>1, RequestFrame, ZenonT(30)
<1>8. FlagsInv'
  <2>1. SUFFICES ASSUME NEW q \in Process PROVE Flags(q)'
    BY DEF FlagsInv
  <2>2. CASE q = p
    BY <1>0, <1>1, <2>2, FlagsFrame
  <2>3. CASE q # p /\ pc[q] = "idle"
    BY <1>0, <1>1, <2>3, FlagsFrame
  <2>4. CASE q # p /\ pc[q] # "idle"
    BY Zenon, <1>0, <1>1, <1>2, <1>b, <2>4, HolderFacts, FlagsFrame
  <2>5. QED
    BY <2>2, <2>3, <2>4
<1>9. PinnedInv'
  <2>1. Pinned' = Pinned
    BY <1>2, <1>b DEF Pinned
  <2>2. QED
    BY <1>0, <2>1, NoNewPanic, PinnedFrame
<1>10. QED
  BY <1>1, <1>3, <1>4, <1>5, <1>6, <1>7, <1>8, <1>9 DEF BInv

\* bget.
LEMMA BGetStep ==
  ASSUME BInv, NEW p \in Process, NEW k \in Block, BGet(p, k)
  PROVE  BInv'
<1>0. pc[p] = "idle" /\ ~panic /\ UNCHANGED <<lru, lock, queue, hw, disk, last, lost>>
  BY DEF BGet, At
<1>1. CASE Cached(k) # {}
  <2>1. PICK b \in Cached(k) : /\ buf' = [buf EXCEPT ![b].refcnt = @ + 1]
                               /\ mine' = [mine EXCEPT ![p] = b]
                               /\ Goto(p, "acquire")
                               /\ UNCHANGED <<panic, spoilt>>
    BY <1>1 DEF BGet
  <2>2. b \in Buffer /\ buf[b].blockno \in Block
    BY DEF Cached
  <2>3. QED
    BY <1>0, <2>1, <2>2, Running, GetCached, ZenonT(30) DEF Goto
<1>2. CASE Cached(k) = {} /\ Recyclable # {}
  <2>1. PICK b \in Buffer :
           /\ LeastRecent(b)
           /\ buf' = [buf EXCEPT ![b] = [blockno |-> k, refcnt |-> 1, valid |-> FALSE,
                                         dirty |-> FALSE, data |-> @.data]]
           /\ mine' = [mine EXCEPT ![p] = b]
           /\ spoilt' = spoilt \ {b}
           /\ Goto(p, "acquire")
           /\ UNCHANGED panic
    BY <1>2 DEF BGet
  <2>2. b \in Recyclable
    BY <2>1 DEF LeastRecent
  <2>3. QED
    BY <1>0, <1>2, <2>1, <2>2, Running, GetRecycled, ZenonT(30) DEF Goto
<1>3. CASE Cached(k) = {} /\ Recyclable = {}
  <2>1. panic' = TRUE /\ UNCHANGED <<buf, mine, pc, spoilt>>
    BY <1>3 DEF BGet
  <2>2. PanicJustified'
    <3>1. NBUF =< Cardinality(InCall) + MaxPinned /\ InCall' = InCall
      BY <1>3, <2>1, BuffersUsedUp DEF InCall
    <3>2. QED
      BY <3>1 DEF PanicJustified
  <2>3. QED
    BY <1>0, <2>1, <2>2, OnlyPanics, ZenonT(30)
<1>4. QED
  BY <1>1, <1>2, <1>3

-----------------------------------------------------------------------------
(* What the steps of a process that holds a buffer have in common *)

\* A process goes on with the buffer it holds: the buffer is not in line for the disk, and locks are as before.
LEMMA HolderMoves ==
  ASSUME BInv, NEW p \in Process, pc[p] \in {"bread", "holds"},
         NEW label \in Holding, pc' = [pc EXCEPT ![p] = label], UNCHANGED <<lock, mine>>
  PROVE  /\ pc' \in [Process -> Labels] /\ LockInv'
         /\ pc'[p] = label /\ \A q \in Process : q # p => pc'[q] = pc[q]
         /\ mine[p] \in Buffer /\ lock[mine[p]] = p /\ buf[mine[p]].blockno \in Block
         /\ \A c \in Queued : /\ c \in Buffer /\ c # mine[p]
                              /\ lock[c] \in Process /\ lock[c] # p
<1>T. pc \in [Process -> Labels] /\ lock \in [Buffer -> Process \cup {None}]
  BY DEF BInv, TypeOK
<1>1. pc' \in [Process -> Labels] /\ pc'[p] = label /\ \A q \in Process : q # p => pc'[q] = pc[q]
  BY <1>T DEF Holding, Labels
<1>2. mine[p] \in Buffer /\ lock[mine[p]] = p /\ buf[mine[p]].blockno \in Block
  BY HolderFacts DEF BInv, LockInv, HasLock, Holding
<1>3. \A c \in Queued : c \in Buffer /\ c # mine[p] /\ lock[c] \in Process /\ lock[c] # p
  <2>1. TAKE c \in Queued
  <2>2. c \in Buffer /\ lock[c] \in Process /\ pc[lock[c]] \in {"reading", "writing"}
    BY QueueFacts
  <2>3. lock[c] # p
    BY <2>2
  <2>4. QED
    BY <1>2, <2>2, <2>3
<1>4. LockInv'
  <2>1. \A q \in Process : pc'[q] = pc[q] \/ (pc[q] \in Holding /\ pc'[q] \in Holding)
    BY <1>1 DEF Holding
  <2>2. QED
    BY <1>T, <2>1, LockFrame DEF BInv
<1>5. QED
  BY Zenon, <1>1, <1>2, <1>3, <1>4

\* What the others assume of their buffers is as before.
LEMMA OthersFlags ==
  ASSUME BInv, NEW p \in Process, pc[p] \in Holding, UNCHANGED mine,
         \A q \in Process : q # p => pc'[q] = pc[q],
         \A c \in Buffer : c # mine[p] => buf'[c] = buf[c],
         Flags(p)'
  PROVE  FlagsInv'
<1>1. SUFFICES ASSUME NEW q \in Process, q # p PROVE Flags(q)'
  BY DEF FlagsInv
<1>2. FlagsInv
  BY DEF BInv
<1>T. pc[q] \in Labels
  BY DEF BInv, TypeOK
<1>3. CASE pc[q] \in {"idle", "acquire", "asleep on lock", "bread", "brelse"}
  BY <1>1, <1>2, <1>3, FlagsFrame, ZenonT(30)
<1>4. CASE pc[q] \notin {"idle", "acquire", "asleep on lock", "bread", "brelse"}
  <2>1. pc[q] \in Holding /\ pc[q] # "idle" /\ pc[p] # "idle"
    BY <1>T, <1>4 DEF Labels, Holding
  <2>2. mine[q] \in Buffer /\ mine[q] # mine[p]
    BY <1>1, <2>1, HolderFacts
  <2>3. QED
    BY <1>1, <1>2, <2>2, FlagsFrame, ZenonT(30)
<1>5. QED
  BY <1>3, <1>4

\* The references are as before, and blocks have the buffers they had.
LEMMA CacheKept ==
  ASSUME BInv, UNCHANGED mine,
         \A c \in Buffer : buf'[c].blockno = buf[c].blockno /\ buf'[c].refcnt = buf[c].refcnt
  PROVE  CacheInv' /\ \A k \in Block : Cached(k)' = Cached(k)
<1>1. \A c \in Buffer : Users(c)' = Users(c)
  BY DEF Users
<1>2. OneCopy'
  BY DEF BInv, CacheInv, OneCopy
<1>3. RefcntExact'
  BY <1>1 DEF BInv, CacheInv, RefcntExact
<1>4. \A q \in Process : mine[q] # None => mine[q] \in Buffer /\ buf[mine[q]].blockno # None
  BY DEF BInv, TypeOK, CacheInv
<1>5. \A k \in Block : Cached(k)' = Cached(k)
  BY DEF Cached
<1>6. QED
  BY <1>2, <1>3, <1>4, <1>5 DEF CacheInv

\* Steps that change one buffer and its block keep the latest contents if that
\* buffer has them.
LEMMA DataOne ==
  ASSUME BInv, NEW b \in Buffer, NEW k \in Block, buf[b].blockno = k,
         buf'[b].blockno = k, \A c \in Buffer : c # b => buf'[c] = buf[c],
         \A j \in Block : j # k => /\ disk'[j] = disk[j] /\ last'[j] = last[j]
                                   /\ j \in lost' <=> j \in lost,
         \A c \in Buffer : c # b => (c \in spoilt' <=> c \in spoilt),
         buf'[b].dirty => buf'[b].valid,
         buf'[b].dirty \/ (buf'[b].valid /\ b \notin spoilt' /\ k \notin lost') => buf'[b].data = last'[k],
         ~buf'[b].dirty => OnDisk(k)'
  PROVE  DataInv'
<1>0. DataInv /\ OneCopy /\ k # None
  BY NoneAssumption DEF BInv, CacheInv, Block
<1>T. \A c \in Buffer : buf[c].blockno \in Block \cup {None}
  BY DEF BInv, TypeOK, Bufs
<1>D. \A j \in Block : j # k => (OnDisk(j)' <=> OnDisk(j))
  BY DEF OnDisk
<1>1. NothingLost'
  <2>1. SUFFICES ASSUME NEW j \in Block, Cached(j)' = {} PROVE OnDisk(j)'
    BY DEF NothingLost
  <2>2. j # k
    BY <2>1 DEF Cached
  <2>3. Cached(j) = {}
    BY <2>1, <2>2 DEF Cached
  <2>4. QED
    BY <1>0, <1>D, <2>2, <2>3 DEF DataInv, NothingLost
<1>2. ASSUME NEW c \in Buffer
      PROVE  /\ buf'[c].dirty => buf'[c].valid /\ buf'[c].blockno # None
             /\ buf'[c].blockno # None =>
                  /\ buf'[c].dirty \/ (buf'[c].valid /\ c \notin spoilt' /\ buf'[c].blockno \notin lost')
                       => buf'[c].data = last'[buf'[c].blockno]
                  /\ ~buf'[c].dirty => OnDisk(buf[c].blockno)'
  <2>1. CASE c = b
    BY <1>0, <2>1
  <2>2. CASE c # b
    <3>1. buf'[c] = buf[c] /\ (c \in spoilt' <=> c \in spoilt)
      BY <2>2
    <3>2. buf[c].blockno # None => buf[c].blockno \in Block /\ buf[c].blockno # k
      BY <1>0, <1>T, <2>2 DEF OneCopy
    <3>3. buf[c].blockno # None =>
             /\ disk'[buf[c].blockno] = disk[buf[c].blockno]
             /\ buf[c].blockno \in lost' <=> buf[c].blockno \in lost
             /\ last'[buf[c].blockno] = last[buf[c].blockno]
      BY <3>2
    <3>4. QED
      BY <1>0, <3>1, <3>3 DEF DataInv, OnDisk
  <2>3. QED
    BY Zenon, <2>1, <2>2
<1>3. QED
  BY <1>1, <1>2 DEF DataInv

\* Such a step is not about what the disk works on, if its buffer is not in line.
LEMMA RequestKept ==
  ASSUME BInv, NEW b \in Buffer, b \notin Queued, NEW k \in Block, buf[b].blockno = k,
         \A c \in Buffer : c # b => buf'[c] = buf[c],
         \A j \in Block : j # k => /\ disk'[j] = disk[j] /\ last'[j] = last[j]
                                   /\ j \in lost' <=> j \in lost,
         hw' = hw
  PROVE  RequestInv'
<1>1. ASSUME hw # None
      PROVE  /\ buf'[hw.b] = buf[hw.b]
             /\ disk'[hw.block] = disk[hw.block] /\ last'[hw.block] = last[hw.block]
             /\ hw.block \in lost' <=> hw.block \in lost
  <2>1. hw \in Commands /\ hw.b \in Queued /\ hw.block = buf[hw.b].blockno
    BY <1>1, DiskFacts
  <2>2. hw.b \in Buffer /\ hw.b # b /\ hw.block \in Block
    BY <2>1 DEF Commands
  <2>3. hw.block # k
    BY <2>1, <2>2, NoneAssumption, SMTT(30) DEF BInv, CacheInv, OneCopy, Block
  <2>4. QED
    BY <2>2, <2>3
<1>2. QED
  BY <1>1, RequestFrame DEF BInv

\* iderw puts the buffer in line.
LEMMA Enqueued ==
  ASSUME BInv, NEW p \in Process, NEW b \in Buffer, b = mine[p], b \notin Queued, lock[b] = p,
         queue' = Append(queue, b), hw' = IF queue = <<>> THEN Command(b) ELSE hw,
         UNCHANGED <<lock, mine>>,
         pc'[p] \in {"reading", "writing"}, \A q \in Process : q # p => pc'[q] = pc[q],
         \A c \in Buffer : buf'[c].blockno = buf[c].blockno,
         buf'[b] \in Bufs, buf'[b].blockno \in Block
  PROVE  QueueInv' /\ Queued' = Queued \cup {b} /\ queue' \in Seq(Buffer) /\ hw' \in Commands \cup {None}
<1>T. queue \in Seq(Buffer) /\ hw \in Commands \cup {None}
  BY DEF BInv, TypeOK
<1>1. /\ queue' \in Seq(Buffer) /\ Len(queue') = Len(queue) + 1 /\ Len(queue) \in Nat
      /\ \A n \in 1 .. Len(queue) : queue'[n] = queue[n]
      /\ queue'[Len(queue) + 1] = b /\ queue' # <<>>
  BY <1>T
<1>2. Queued' = Queued \cup {b}
  <2>1. \A x : x \in Queued' <=> x \in Queued \/ x = b
    BY <1>1 DEF Queued
  <2>2. QED
    BY Zenon, <2>1
<1>3. Command(b) \in Commands /\ Command(b).b = b /\ Command(b).block = buf'[b].blockno
  BY Zenon DEF Command, Commands, Bufs
<1>4. QueueInv /\ QueueSound
  BY Zenon DEF BInv, QueueInv
<1>5. hw' \in Commands /\ hw' # None /\ hw'.b = Head(queue') /\ hw'.block = buf'[hw'.b].blockno
  <2>1. CASE queue = <<>>
    BY <1>1, <1>3, <1>T, <2>1, NoneAssumption
  <2>2. CASE queue # <<>>
    <3>1. hw # None /\ hw' = hw
      BY <1>4, <2>2 DEF QueueSound
    <3>2. hw \in Commands /\ hw.b = queue[1] /\ hw.block = buf[hw.b].blockno /\ hw.b \in Buffer
      BY <3>1, DiskFacts, QueueFacts
    <3>3. Head(queue') = queue[1]
      BY <1>1, <1>T, <2>2
    <3>4. QED
      BY <3>1, <3>2, <3>3
  <2>3. QED
    BY Zenon, <2>1, <2>2
<1>6. \A m, n \in 1 .. Len(queue') : queue'[m] = queue'[n] => m = n
  <2>1. \A m, n \in 1 .. Len(queue) : queue[m] = queue[n] => m = n
    BY Zenon, <1>4 DEF QueueSound
  <2>2. \A n \in 1 .. Len(queue) : queue[n] # b
    BY Zenon DEF Queued
  <2>3. QED
    BY <1>1, <2>1, <2>2
<1>7. \A q \in Process : pc'[q] \in {"reading", "writing"} => mine'[q] \in Queued' /\ lock'[mine'[q]] = q
  BY <1>2, <1>4, Sleeping DEF QueueSound
<1>8. \A c \in Queued' : lock'[c] # None /\ pc'[lock'[c]] \in {"reading", "writing"}
  <2>1. TAKE c \in Queued'
  <2>2. CASE c = b
    BY <2>2, NoneAssumption
  <2>3. CASE c \in Queued
    <3>1. lock[c] \in Process /\ mine[lock[c]] = c /\ pc[lock[c]] \in {"reading", "writing"}
      BY Zenon, <2>3, QueueFacts
    <3>2. lock[c] # p
      BY Zenon, <2>3, <3>1
    <3>3. QED
      BY <3>1, <3>2, NoneAssumption
  <2>4. QED
    BY Zenon, <1>2, <2>2, <2>3
<1>9. QueueSound'
  BY Zenon, <1>1, <1>5, <1>6, <1>7, Sleeping DEF QueueSound
<1>10. QED
  BY <1>1, <1>2, <1>5, <1>8, <1>9, Sleeping, SMTT(30) DEF QueueInv

\* No more buffers are pinned outside the queue.
LEMMA PinnedKept ==
  ASSUME BInv, panic' = FALSE, (Pinned \ Queued)' \subseteq Pinned \ Queued
  PROVE  PinnedInv'
<1> DEFINE S == Pinned \ Queued
           T == (Pinned \ Queued)'
<1>1. IsFiniteSet(Buffer) /\ NBUF \in Nat /\ MaxPinned \in Nat
  BY BuffersAssumption, FS_Interval DEF Buffer
<1>2. S \in SUBSET Buffer
  BY DEF Pinned
<1>3. IsFiniteSet(S) /\ Cardinality(S) =< MaxPinned
  BY <1>1, <1>2, FS_Subset DEF BInv, PinnedInv
<1>4. Cardinality(T) =< Cardinality(S) /\ IsFiniteSet(T)
  BY <1>3, FS_Subset, T \in SUBSET S
<1>5. Cardinality(T) \in Nat /\ Cardinality(S) \in Nat
  BY <1>3, <1>4, FS_CardinalityType
<1> HIDE DEF S, T
<1>6. Cardinality(T) =< MaxPinned
  BY <1>1, <1>3, <1>4, <1>5
<1>7. QED
  BY <1>6, NoNewPanic DEF BInv, PinnedInv, T

\* A read fills a buffer with its block and makes it valid.
LEMMA Filled ==
  ASSUME NEW r \in Bufs, NEW d \in Nat
  PROVE  LET s == [r EXCEPT !.data = d, !.valid = TRUE]
         IN /\ s \in Bufs /\ s.blockno = r.blockno /\ s.refcnt = r.refcnt
            /\ s.valid = TRUE /\ s.dirty = r.dirty /\ s.data = d
  BY ZenonT(30) DEF Bufs

\* A writer changes the contents of a buffer, which is dirty until the disk has them.
LEMMA Changed ==
  ASSUME NEW r \in Bufs, NEW d \in Nat
  PROVE  LET s == [r EXCEPT !.data = d, !.dirty = TRUE]
         IN /\ s \in Bufs /\ s.blockno = r.blockno /\ s.refcnt = r.refcnt
            /\ s.valid = r.valid /\ s.dirty = TRUE /\ s.data = d
  BY ZenonT(30) DEF Bufs

\* A write leaves the buffer clean and valid.
LEMMA Cleaned ==
  ASSUME NEW r \in Bufs
  PROVE  LET s == [r EXCEPT !.dirty = FALSE, !.valid = TRUE]
         IN /\ s \in Bufs /\ s.blockno = r.blockno /\ s.refcnt = r.refcnt
            /\ s.valid = TRUE /\ s.dirty = FALSE /\ s.data = r.data
  BY ZenonT(30) DEF Bufs

-----------------------------------------------------------------------------
(* bread *)

\* bread finds the buffer valid.
LEMMA ReadValid ==
  ASSUME BInv, NEW p \in Process, pc[p] = "bread", buf[mine[p]].valid,
         pc' = [pc EXCEPT ![p] = "holds"],
         UNCHANGED <<lru, buf, lock, queue, hw, disk, mine, last, spoilt, lost>>, panic' = FALSE
  PROVE  BInv'
<1>1. "holds" \in Holding
  BY DEF Holding
<1>2. /\ pc' \in [Process -> Labels] /\ LockInv' /\ pc'[p] = "holds"
      /\ \A q \in Process : q # p => pc'[q] = pc[q]
      /\ \A c \in Queued : lock[c] \in Process /\ lock[c] # p
  BY <1>1, HolderMoves, ZenonT(30)
<1>3. TypeOK'
  BY Zenon, <1>2 DEF BInv, TypeOK
<1>4. QueueInv'
  BY Zenon, <1>2, QueueFrame
<1>5. FlagsInv'
  <2>1. Flags(p)'
    BY <1>2 DEF Flags
  <2>2. QED
    BY <1>2, <2>1, OthersFlags DEF Holding
<1>6. Pinned' = Pinned
  BY DEF Pinned
<1>7. QED
  BY Zenon, <1>2, <1>3, <1>4, <1>5, <1>6, CacheFrame, DataFrame, RequestFrame, NoNewPanic, PinnedFrame DEF BInv

\* bread asks the disk.
LEMMA ReadIde ==
  ASSUME BInv, NEW p \in Process, pc[p] = "bread", ~buf[mine[p]].valid,
         IdeRw(p, mine[p], "holds"),
         UNCHANGED <<lru, buf, lock, mine, last, spoilt, lost>>
  PROVE  BInv'
<1>b. PICK b \in Buffer : b = mine[p]
  BY Zenon, HolderFacts
<1>0. /\ queue' = Append(queue, b) /\ hw' = IF queue = <<>> THEN Command(b) ELSE hw
      /\ pc' = [pc EXCEPT ![p] = "reading"] /\ UNCHANGED disk
  BY Zenon, <1>b DEF IdeRw, Goto, Asleep
<1>p. panic' = FALSE
  BY <1>b DEF IdeRw, Improper, BInv, LockInv, HasLock, Holding
<1>1. "reading" \in Holding
  BY DEF Holding
<1>2. /\ pc' \in [Process -> Labels] /\ LockInv' /\ pc'[p] = "reading"
      /\ \A q \in Process : q # p => pc'[q] = pc[q]
      /\ lock[b] = p /\ buf[b].blockno \in Block /\ b \notin Queued
  BY <1>0, <1>1, <1>b, HolderMoves, ZenonT(30)
<1>T. buf[b] \in Bufs
  BY DEF BInv, TypeOK
<1>3. QueueInv' /\ Queued' = Queued \cup {b} /\ queue' \in Seq(Buffer) /\ hw' \in Commands \cup {None}
  BY Zenon, <1>0, <1>2, <1>b, <1>T, Enqueued
<1>4. TypeOK'
  BY Zenon, <1>0, <1>p, <1>2, <1>3 DEF BInv, TypeOK
<1>5. RequestInv'
  <2>1. CASE queue = <<>>
    BY Zenon, <1>0, <2>1 DEF RequestInv, Command
  <2>2. CASE queue # <<>>
    BY Zenon, <1>0, <2>2, RequestFrame DEF BInv
  <2>3. QED
    BY <2>1, <2>2
<1>6. FlagsInv'
  <2>1. Flags(p)'
    BY Zenon, <1>2 DEF Flags
  <2>2. QED
    BY <1>2, <2>1, OthersFlags DEF Holding
<1>7. PinnedInv'
  <2>1. (Pinned \ Queued)' \subseteq Pinned \ Queued
    BY <1>3 DEF Pinned
  <2>2. QED
    BY <1>p, <2>1, PinnedKept
<1>8. QED
  BY Zenon, <1>0, <1>2, <1>3, <1>4, <1>5, <1>6, <1>7, CacheFrame, DataFrame DEF BInv

\* bread copies the block from memory.
LEMMA ReadMem ==
  ASSUME BInv, NEW p \in Process, pc[p] = "bread", ~buf[mine[p]].valid,
         MemRw(p, mine[p], buf[mine[p]], "holds"),
         UNCHANGED <<lru, lock, mine, last, spoilt, lost>>
  PROVE  BInv'
<1>b. PICK b \in Buffer : b = mine[p]
  BY Zenon, HolderFacts
<1>c. ~buf[b].dirty
  BY Zenon, <1>b DEF BInv, DataInv
<1>0. /\ buf' = [buf EXCEPT ![b] = [buf[b] EXCEPT !.data = disk[buf[b].blockno], !.valid = TRUE]]
      /\ pc' = [pc EXCEPT ![p] = "holds"] /\ UNCHANGED <<queue, hw, disk>>
  BY <1>b, <1>c DEF MemRw, Goto
<1>p. panic' = FALSE
  BY <1>b DEF MemRw, Improper, BInv, LockInv, HasLock, Holding
<1>1. "holds" \in Holding
  BY DEF Holding
<1>2. /\ pc' \in [Process -> Labels] /\ LockInv' /\ pc'[p] = "holds"
      /\ \A q \in Process : q # p => pc'[q] = pc[q]
      /\ \A c \in Queued : c \in Buffer /\ c # b /\ lock[c] \in Process /\ lock[c] # p
      /\ buf[b].blockno \in Block
  BY <1>0, <1>1, <1>b, HolderMoves, ZenonT(30)
<1>T. buf \in [Buffer -> Bufs] /\ disk \in [Block -> Nat]
  BY DEF BInv, TypeOK
<1>3. /\ \A c \in Buffer : c # b => buf'[c] = buf[c]
      /\ buf'[b].blockno = buf[b].blockno /\ buf'[b].refcnt = buf[b].refcnt
      /\ buf'[b].valid /\ ~buf'[b].dirty /\ buf'[b].data = disk[buf[b].blockno]
      /\ buf' \in [Buffer -> Bufs]
  <2> DEFINE s == [buf[b] EXCEPT !.data = disk[buf[b].blockno], !.valid = TRUE]
  <2>1. /\ s \in Bufs /\ s.blockno = buf[b].blockno /\ s.refcnt = buf[b].refcnt
        /\ s.valid = TRUE /\ s.dirty = buf[b].dirty /\ s.data = disk[buf[b].blockno]
    <3>1. buf[b] \in Bufs /\ disk[buf[b].blockno] \in Nat
      BY Zenon, <1>2, <1>T
    <3>2. QED
      BY <3>1, Filled, ZenonT(30)
  <2> HIDE DEF s
  <2>2. buf' = [buf EXCEPT ![b] = s]
    BY <1>0 DEF s
  <2>3. QED
    BY Zenon, <1>c, <1>T, <2>1, <2>2
<1>4. TypeOK'
  BY Zenon, <1>0, <1>p, <1>2, <1>3 DEF BInv, TypeOK
<1>5. CacheInv'
  BY Zenon, <1>3, CacheKept
<1>6. QueueInv'
  <2>1. \A c \in Queued : pc'[lock[c]] = pc[lock[c]] /\ buf'[c].blockno = buf[c].blockno
    BY Zenon, <1>2, <1>3
  <2>2. \A q \in Process : pc'[q] \in {"reading", "writing"} => pc[q] \in {"reading", "writing"}
    BY <1>2, SMTT(30)
  <2>3. QED
    BY <1>0, <2>1, <2>2, QueueFrame, SMTT(30)
<1>7. OnDisk(buf[b].blockno)
  BY <1>2, <1>c, NoneAssumption, SMTT(30) DEF BInv, DataInv, Block
<1>8. DataInv'
  BY <1>0, <1>2, <1>3, <1>7, DataOne DEF OnDisk
<1>9. RequestInv'
  BY <1>0, <1>2, <1>3, RequestKept, SMTT(30)
<1>10. FlagsInv'
  <2>1. Flags(p)'
    BY Zenon, <1>2, <1>3, <1>b DEF Flags
  <2>2. QED
    BY Zenon, <1>2, <1>3, <1>b, <2>1, OthersFlags DEF Holding
<1>11. PinnedInv'
  <2>1. Pinned' = Pinned
    BY Zenon, <1>3, <1>c DEF Pinned
  <2>2. QED
    BY <1>0, <1>p, <2>1, NoNewPanic, PinnedFrame DEF BInv
<1>12. QED
  BY Zenon, <1>2, <1>4, <1>5, <1>6, <1>8, <1>9, <1>10, <1>11 DEF BInv

\* bread.
LEMMA BReadStep ==
  ASSUME BInv, NEW p \in Process, BRead(p)
  PROVE  BInv'
<1>0. pc[p] = "bread" /\ ~panic /\ UNCHANGED <<lru, lock, mine, last, spoilt, lost>>
  BY Zenon DEF BRead, At
<1>1. \/ /\ buf[mine[p]].valid
         /\ Goto(p, "holds")
         /\ UNCHANGED <<buf, queue, hw, disk, panic>>
      \/ /\ ~buf[mine[p]].valid
         /\ UNCHANGED buf
         /\ IdeRw(p, mine[p], "holds")
      \/ /\ ~buf[mine[p]].valid
         /\ MemRw(p, mine[p], buf[mine[p]], "holds")
  BY Zenon DEF BRead
<1>2. QED
  BY Zenon, <1>0, <1>1, Running, ReadValid, ReadIde, ReadMem DEF Goto
=============================================================================
