----------------------------- MODULE BlockProof -----------------------------
(***************************************************************************)
(* Proofs about BlockIO, for every number of processes, buffers and        *)
(* blocks: the steps of log_write, of bwrite and of the disk preserve      *)
(* BInv, so that BInv is invariant, and what follows from it.              *)
(***************************************************************************)
EXTENDS BlockSteps

-----------------------------------------------------------------------------
(* log_write and bwrite *)

\* log_write changes the block and pins its buffer.
LEMMA LogWriteStep ==
  ASSUME BInv, NEW p \in Process, LogWrite(p)
  PROVE  BInv'
<1>b. PICK b \in Buffer : b = mine[p]
  BY HolderFacts DEF LogWrite, At
<1> DEFINE k == buf[b].blockno
           new == last[k] + 1
<1>0. /\ buf' = [buf EXCEPT ![b] = [buf[b] EXCEPT !.data = new, !.dirty = TRUE]]
      /\ last' = [last EXCEPT ![k] = new] /\ spoilt' = spoilt \ {b}
      /\ lost' = lost \ {k} /\ ~panic
      /\ pc[p] = "holds" /\ pc' = [pc EXCEPT ![p] = "done"]
      /\ UNCHANGED <<lru, lock, queue, hw, disk, mine, panic>>
      /\ Cardinality((Pinned \ Queued) \cup {b}) =< MaxPinned
  BY <1>b, ZenonT(30) DEF LogWrite, At, Goto, New
<1>p. panic' = FALSE
  BY Zenon, <1>0, Running
<1>1. "done" \in Holding
  BY DEF Holding
<1>2. /\ pc' \in [Process -> Labels] /\ LockInv' /\ pc'[p] = "done"
      /\ \A q \in Process : q # p => pc'[q] = pc[q]
      /\ \A c \in Queued : c \in Buffer /\ c # b /\ lock[c] \in Process /\ lock[c] # p
      /\ k \in Block
  BY <1>0, <1>1, <1>b, HolderMoves, ZenonT(30)
<1>T. buf \in [Buffer -> Bufs] /\ last \in [Block -> Nat] /\ buf[b].valid
  BY <1>0, <1>b DEF BInv, TypeOK, FlagsInv, Flags
<1>3. /\ \A c \in Buffer : c # b => buf'[c] = buf[c]
      /\ buf'[b].blockno = k /\ buf'[b].refcnt = buf[b].refcnt
      /\ buf'[b].valid /\ buf'[b].dirty /\ buf'[b].data = new
      /\ buf' \in [Buffer -> Bufs]
  <2> DEFINE s == [buf[b] EXCEPT !.data = new, !.dirty = TRUE]
  <2>1. /\ s \in Bufs /\ s.blockno = buf[b].blockno /\ s.refcnt = buf[b].refcnt
        /\ s.valid = buf[b].valid /\ s.dirty = TRUE /\ s.data = new
    <3>1. buf[b] \in Bufs /\ new \in Nat
      BY <1>2, <1>T
    <3> HIDE DEF new
    <3>2. QED
      BY <3>1, Changed, ZenonT(30)
  <2> HIDE DEF s
  <2>2. buf' = [buf EXCEPT ![b] = s]
    BY <1>0 DEF s
  <2>3. QED
    BY <1>T, <2>1, <2>2, ZenonT(30)
<1>4. /\ last' \in [Block -> Nat] /\ last'[k] = new
      /\ \A j \in Block : j # k => last'[j] = last[j]
  BY <1>0, <1>2, <1>T
<1>5. TypeOK'
  BY <1>0, <1>2, <1>3, <1>4 DEF BInv, TypeOK
<1>l. \A j \in Block : j # k => (j \in lost' <=> j \in lost)
  BY <1>0
<1>6. CacheInv'
  BY <1>0, <1>3, CacheKept
<1>7. QueueInv'
  <2>1. \A c \in Queued : pc'[lock[c]] = pc[lock[c]] /\ buf'[c].blockno = buf[c].blockno
    BY <1>2, <1>3
  <2>2. \A q \in Process : pc'[q] \in {"reading", "writing"} => pc[q] \in {"reading", "writing"}
    BY <1>2
  <2>3. QED
    BY <1>0, <2>1, <2>2, QueueFrame
<1>8. DataInv'
  BY <1>0, <1>l, <1>2, <1>3, <1>4, DataOne
<1>9. RequestInv'
  BY <1>0, <1>l, <1>2, <1>3, <1>4, RequestKept, SMTT(30)
<1>10. FlagsInv'
  <2>1. Flags(p)'
    BY <1>0, <1>2, <1>3, <1>b DEF Flags
  <2>2. QED
    BY <1>0, <1>2, <1>3, <1>b, <2>1, OthersFlags, SMTT(30) DEF Holding
<1>11. PinnedInv'
  <2>1. Pinned' = Pinned \cup {b}
    BY <1>3 DEF Pinned
  <2>2. Queued' = Queued /\ b \notin Queued
    BY <1>0, <1>2 DEF Queued
  <2>3. (Pinned \ Queued)' = (Pinned \ Queued) \cup {b}
    BY <2>1, <2>2
  <2>4. QED
    BY Zenon, <1>0, <1>p, <2>3, NoNewPanic DEF BInv, PinnedInv
<1>12. QED
  BY <1>2, <1>5, <1>6, <1>7, <1>8, <1>9, <1>10, <1>11, SMTT(30) DEF BInv

\* What both ways of writing have in common: p holds b, a buffer of block k, and
\* changes its contents to new, which makes it s.
Changing(p, b, k, new, s) ==
  /\ ~panic /\ lost' = lost \ {k}
  /\ b = mine[p] /\ pc[p] = "holds" /\ spoilt' = spoilt \ {b} /\ UNCHANGED <<lru, lock, mine>>
  /\ buf[b].blockno = k /\ b \notin Queued /\ lock[b] = p
  /\ \A c \in Queued : c \in Buffer /\ c # b
  /\ buf \in [Buffer -> Bufs] /\ disk \in [Block -> Nat] /\ new \in Nat
  /\ s \in Bufs /\ s.blockno = k /\ s.refcnt = buf[b].refcnt
  /\ s.valid /\ s.dirty /\ s.data = new
  /\ last' \in [Block -> Nat] /\ last'[k] = new
  /\ \A j \in Block : j # k => last'[j] = last[j]

\* bwrite gives the changed block to the disk.
LEMMA WriteIde ==
  ASSUME BInv, NEW p \in Process, NEW b \in Buffer, NEW k \in Block, NEW new, NEW after,
         Changing(p, b, k, new, after),
         buf' = [buf EXCEPT ![b] = after], IdeRw(p, b, "done")
  PROVE  BInv'
<1>a. /\ b = mine[p] /\ pc[p] = "holds" /\ spoilt' = spoilt \ {b} /\ UNCHANGED <<lru, lock, mine>>
      /\ buf[b].blockno = k /\ b \notin Queued /\ lock[b] = p
      /\ \A c \in Queued : c \in Buffer /\ c # b
  BY Zenon DEF Changing
<1>t. buf \in [Buffer -> Bufs] /\ disk \in [Block -> Nat] /\ new \in Nat
  BY Zenon DEF Changing
<1>d. /\ after \in Bufs /\ after.blockno = k /\ after.refcnt = buf[b].refcnt
      /\ after.valid /\ after.dirty /\ after.data = new
  BY Zenon DEF Changing
<1>e. /\ last' \in [Block -> Nat] /\ last'[k] = new
      /\ \A j \in Block : j # k => last'[j] = last[j]
  BY Zenon DEF Changing
<1>l. lost' = lost \ {k} /\ \A j \in Block : j # k => (j \in lost' <=> j \in lost)
  BY Zenon DEF Changing
<1>0. /\ queue' = Append(queue, b) /\ hw' = IF queue = <<>> THEN Command(b) ELSE hw
      /\ pc' = [pc EXCEPT ![p] = "writing"] /\ UNCHANGED disk
  BY DEF IdeRw, Goto, Asleep
<1>p. panic' = FALSE
  BY <1>a, <1>d, <1>t DEF IdeRw, Improper
<1>1. "writing" \in Holding
  BY DEF Holding
<1>2. /\ pc' \in [Process -> Labels] /\ LockInv' /\ pc'[p] = "writing"
      /\ \A q \in Process : q # p => pc'[q] = pc[q]
  BY <1>a, <1>0, <1>1, HolderMoves, ZenonT(30)
<1>3. /\ \A c \in Buffer : c # b => buf'[c] = buf[c]
      /\ buf'[b] = after /\ buf' \in [Buffer -> Bufs]
  BY <1>d, <1>t
<1>4. \A c \in Buffer : buf'[c].blockno = buf[c].blockno /\ buf'[c].refcnt = buf[c].refcnt
  BY <1>a, <1>d, <1>3, SMTT(30)
<1>5. QueueInv' /\ Queued' = Queued \cup {b} /\ queue' \in Seq(Buffer) /\ hw' \in Commands \cup {None}
  BY <1>a, <1>d, <1>0, <1>2, <1>3, <1>4, Enqueued, SMTT(30)
<1>6. TypeOK'
  BY Zenon, <1>a, <1>e, <1>l, <1>p, <1>0, <1>2, <1>3, <1>5 DEF BInv, TypeOK
<1>7. CacheInv'
  BY <1>a, <1>4, CacheKept, SMTT(30)
<1>8. DataInv'
  BY <1>a, <1>d, <1>e, <1>l, <1>0, <1>3, DataOne
<1>9. RequestInv'
  <2>1. CASE queue = <<>>
    BY <1>0, <2>1, SMTT(30) DEF RequestInv, Command
  <2>2. CASE queue # <<>>
    <3>1. \A j \in Block : j # k => /\ disk'[j] = disk[j] /\ last'[j] = last[j]
                                    /\ j \in lost' <=> j \in lost
      BY Zenon, <1>e, <1>l, <1>0
    <3>2. hw' = hw
      BY Zenon, <1>0, <2>2
    <3>3. QED
      BY <1>a, <1>3, <3>1, <3>2, RequestKept
  <2>3. QED
    BY <2>1, <2>2, SMTT(30)
<1>10. FlagsInv'
  <2>1. Flags(p)'
    BY <1>a, <1>d, <1>2, <1>3, ZenonT(30) DEF Flags
  <2>2. QED
    BY <1>a, <1>2, <1>3, <2>1, OthersFlags, SMTT(30) DEF Holding
<1>11. PinnedInv'
  <2>1. (Pinned \ Queued)' \subseteq Pinned \ Queued
    BY <1>3, <1>5 DEF Pinned
  <2>2. QED
    BY <1>p, <2>1, PinnedKept
<1>12. QED
  BY Zenon, <1>2, <1>5, <1>6, <1>7, <1>8, <1>9, <1>10, <1>11 DEF BInv

\* bwrite copies the changed block to the memory disk.
LEMMA WriteMem ==
  ASSUME BInv, NEW p \in Process, NEW b \in Buffer, NEW k \in Block, NEW new, NEW after,
         Changing(p, b, k, new, after), MemRw(p, b, after, "done")
  PROVE  BInv'
<1>a. /\ b = mine[p] /\ pc[p] = "holds" /\ spoilt' = spoilt \ {b} /\ UNCHANGED <<lru, lock, mine>>
      /\ buf[b].blockno = k /\ b \notin Queued /\ lock[b] = p
      /\ \A c \in Queued : c \in Buffer /\ c # b
  BY Zenon DEF Changing
<1>t. buf \in [Buffer -> Bufs] /\ disk \in [Block -> Nat] /\ new \in Nat
  BY Zenon DEF Changing
<1>d. /\ after \in Bufs /\ after.blockno = k /\ after.refcnt = buf[b].refcnt
      /\ after.valid /\ after.dirty /\ after.data = new
  BY Zenon DEF Changing
<1>e. /\ last' \in [Block -> Nat] /\ last'[k] = new
      /\ \A j \in Block : j # k => last'[j] = last[j]
  BY Zenon DEF Changing
<1>l. lost' = lost \ {k} /\ \A j \in Block : j # k => (j \in lost' <=> j \in lost)
  BY Zenon DEF Changing
<1> DEFINE s == [after EXCEPT !.dirty = FALSE, !.valid = TRUE]
<1>0. /\ buf' = [buf EXCEPT ![b] = s] /\ disk' = [disk EXCEPT ![k] = new]
      /\ pc' = [pc EXCEPT ![p] = "done"] /\ UNCHANGED <<queue, hw>>
  BY <1>d DEF MemRw, Goto
<1>p. panic' = FALSE
  BY <1>a, <1>d DEF MemRw, Improper
<1>1. "done" \in Holding
  BY DEF Holding
<1>2. /\ pc' \in [Process -> Labels] /\ LockInv' /\ pc'[p] = "done"
      /\ \A q \in Process : q # p => pc'[q] = pc[q]
      /\ \A c \in Queued : lock[c] \in Process /\ lock[c] # p
  BY <1>a, <1>0, <1>1, HolderMoves, ZenonT(30)
<1>s. /\ s \in Bufs /\ s.blockno = k /\ s.refcnt = buf[b].refcnt
      /\ s.valid = TRUE /\ s.dirty = FALSE /\ s.data = new
  BY <1>d, Cleaned, ZenonT(30)
<1> HIDE DEF s
<1>3. /\ \A c \in Buffer : c # b => buf'[c] = buf[c]
      /\ buf'[b] = s /\ buf' \in [Buffer -> Bufs]
  BY <1>t, <1>0, <1>s, SMTT(30)
<1>4. \A c \in Buffer : buf'[c].blockno = buf[c].blockno /\ buf'[c].refcnt = buf[c].refcnt
  BY <1>a, <1>3, <1>s, SMTT(30)
<1>5. /\ disk' \in [Block -> Nat] /\ disk'[k] = new
      /\ \A j \in Block : j # k => disk'[j] = disk[j]
  BY <1>a, <1>d, <1>t, <1>0, SMTT(30) DEF Bufs
<1>6. TypeOK'
  BY Zenon, <1>a, <1>e, <1>l, <1>p, <1>0, <1>2, <1>3, <1>5 DEF BInv, TypeOK
<1>7. CacheInv'
  BY <1>a, <1>4, CacheKept
<1>8. DataInv'
  BY <1>a, <1>e, <1>l, <1>s, <1>3, <1>5, DataOne, SMTT(30) DEF OnDisk
<1>9. RequestInv'
  <2>1. \A j \in Block : j # k => /\ disk'[j] = disk[j] /\ last'[j] = last[j]
                                  /\ j \in lost' <=> j \in lost
    BY Zenon, <1>e, <1>l, <1>5
  <2>2. QED
    BY <1>a, <1>0, <1>3, <2>1, RequestKept
<1>10. FlagsInv'
  <2>1. Flags(p)'
    BY <1>a, <1>s, <1>2, <1>3 DEF Flags
  <2>2. QED
    BY <1>a, <1>2, <1>3, <2>1, OthersFlags, SMTT(30) DEF Holding
<1>11. PinnedInv'
  <2>1. Queued' = Queued
    BY <1>0 DEF Queued
  <2>2. Pinned' \subseteq Pinned
    BY <1>s, <1>3, SMTT(30) DEF Pinned
  <2>3. QED
    BY <1>p, <2>1, <2>2, PinnedKept
<1>12. QueueInv'
  <2>1. \A c \in Queued : pc'[lock[c]] = pc[lock[c]] /\ buf'[c].blockno = buf[c].blockno
    BY <1>a, <1>2, <1>4, SMTT(30)
  <2>2. \A q \in Process : pc'[q] \in {"reading", "writing"} => pc[q] \in {"reading", "writing"}
    BY <1>2
  <2>3. QED
    BY <1>a, <1>0, <2>1, <2>2, QueueFrame, SMTT(30)
<1>13. QED
  BY Zenon, <1>2, <1>6, <1>7, <1>8, <1>9, <1>10, <1>11, <1>12 DEF BInv

\* bwrite gives the changed block to the disk, or copies it to memory.
LEMMA BWriteStep ==
  ASSUME BInv, NEW p \in Process, BWrite(p)
  PROVE  BInv'
<1>b. PICK b \in Buffer : b = mine[p]
  BY HolderFacts DEF BWrite, At
<1> DEFINE k == buf[b].blockno
           new == last[k] + 1
           after == [buf[b] EXCEPT !.data = new, !.dirty = TRUE]
<1>c. /\ pc[p] = "holds" /\ spoilt' = spoilt \ {b} /\ ~panic /\ UNCHANGED <<lru, lock, mine>>
      /\ k \in Block /\ b \notin Queued /\ lock[b] = p
      /\ \A c \in Queued : c \in Buffer /\ c # b
  <2>1. pc[p] = "holds" /\ spoilt' = spoilt \ {b} /\ ~panic /\ UNCHANGED <<lru, lock, mine>>
    BY <1>b DEF BWrite, At
  <2>2. k \in Block /\ lock[b] = p
    BY <1>b, <2>1, HolderFacts DEF BInv, LockInv, HasLock, Holding
  <2>3. \A c \in Queued : c \in Buffer /\ c # b
    BY <2>1, <2>2, QueueFacts, SMTT(30)
  <2>4. QED
    BY <2>1, <2>2, <2>3
<1>T. buf \in [Buffer -> Bufs] /\ last \in [Block -> Nat] /\ disk \in [Block -> Nat] /\ buf[b].valid
  BY <1>b, <1>c, SMTT(30) DEF BInv, TypeOK, FlagsInv, Flags
<1>d. /\ after \in Bufs /\ after.blockno = k /\ after.refcnt = buf[b].refcnt
      /\ after.valid /\ after.dirty /\ after.data = new
  <2>1. buf[b] \in Bufs /\ new \in Nat /\ buf[b].valid
    BY <1>c, <1>T
  <2> HIDE DEF new
  <2>2. QED
    BY <2>1, Changed, ZenonT(30)
<1>e. last' = [last EXCEPT ![k] = new] /\ lost' = lost \ {k}
  BY <1>b, <1>d DEF BWrite, New
<1>4. /\ last' \in [Block -> Nat] /\ last'[k] = new
      /\ \A j \in Block : j # k => last'[j] = last[j]
  BY <1>c, <1>e, <1>T
<1>f. \/ buf' = [buf EXCEPT ![b] = after] /\ IdeRw(p, b, "done")
      \/ MemRw(p, b, after, "done")
  BY <1>b DEF BWrite, New
<1>g. buf[b].blockno = k /\ new \in Nat
  BY <1>c, <1>T
<1> HIDE DEF k, new, after
<1>h. Changing(p, b, k, new, after)
  BY <1>b, <1>c, <1>d, <1>e, <1>g, <1>T, <1>4, Zenon DEF Changing
<1>5. CASE buf' = [buf EXCEPT ![b] = after] /\ IdeRw(p, b, "done")
  BY Zenon, <1>c, <1>h, <1>5, WriteIde
<1>6. CASE MemRw(p, b, after, "done")
  BY Zenon, <1>c, <1>h, <1>6, WriteMem
<1>7. QED
  BY <1>f, <1>5, <1>6

-----------------------------------------------------------------------------
(* The disk *)

\* The disk finishes a write, or fails to.
LEMMA DiskWritesStep ==
  ASSUME BInv, NEW failed \in BOOLEAN, DiskWrites(failed)
  PROVE  BInv'
<1>0. /\ hw # None /\ hw.write
      /\ disk' = IF failed THEN disk ELSE [disk EXCEPT ![hw.block] = hw.data]
      /\ lost' = IF failed THEN lost \cup {hw.block} ELSE lost
      /\ hw' = [hw EXCEPT !.write = FALSE]
      /\ UNCHANGED <<lru, buf, lock, queue, pc, mine, panic, last, spoilt>>
  BY DEF DiskWrites
<1>p. panic' = FALSE
  BY Zenon, Running DEF DiskWrites
<1>1. /\ queue # <<>> /\ hw \in Commands /\ hw.b = Head(queue) /\ hw.b \in Queued
      /\ hw.block = buf[hw.b].blockno
  BY <1>0, DiskFacts
<1>b. PICK b \in Buffer : b = hw.b
  BY <1>1, QueueFacts
<1>k. PICK k \in Block : k = hw.block
  BY <1>1 DEF Commands
<1>2. buf[b].dirty /\ hw.data = buf[b].data /\ buf[b].blockno = k /\ k # None
  BY <1>0, <1>1, <1>b, <1>k, NoneAssumption DEF BInv, RequestInv, Block
<1>3. buf[b].data = last[k] /\ buf[b].valid
  BY <1>2 DEF BInv, DataInv
<1>T. disk \in [Block -> Nat] /\ hw.data \in Nat
  BY <1>1 DEF BInv, TypeOK, Commands
<1>4. /\ disk' \in [Block -> Nat] /\ lost' \subseteq Block /\ OnDisk(k)'
      /\ \A j \in Block : j # k => disk'[j] = disk[j] /\ (j \in lost' <=> j \in lost)
  <2>1. lost \subseteq Block
    BY DEF BInv, TypeOK
  <2>2. CASE failed
    BY <1>0, <1>k, <1>T, <2>1, <2>2 DEF OnDisk
  <2>3. CASE ~failed
    BY <1>0, <1>k, <1>2, <1>3, <1>T, <2>1, <2>3 DEF OnDisk
  <2>4. QED
    BY <2>2, <2>3
<1>5. /\ hw' \in Commands /\ hw' # None /\ ~hw'.write
      /\ hw'.b = b /\ hw'.block = k /\ hw'.data = hw.data
  BY <1>0, <1>1, <1>b, <1>k, NoneAssumption, ZenonT(30) DEF Commands
<1>6. TypeOK'
  BY <1>0, <1>4, <1>5 DEF BInv, TypeOK
<1>7. LockInv' /\ FlagsInv'
  BY <1>0 DEF BInv, LockInv, HasBuffer, HasLock, LockHeld, SleepersBlocked, FlagsInv, Flags
<1>8. QueueInv'
  <2>1. Queued' = Queued
    BY <1>0 DEF Queued
  <2>2. QueueInv /\ QueueSound
    BY DEF BInv, QueueInv
  <2>3. QueueSound'
    BY <1>0, <1>1, <1>b, <1>2, <1>5, <2>1, <2>2 DEF QueueSound
  <2>4. QED
    BY <1>0, <2>1, <2>2, <2>3 DEF QueueInv
<1>9. DataInv'
  BY <1>0, <1>2, <1>3, <1>4, DataOne
<1>10. RequestInv'
  <2>1. hw' # None /\ ~hw'.write /\ hw'.block = k
    BY <1>5
  <2>2. OnDisk(hw.block)'
    BY <1>4, <2>1 DEF OnDisk
  <2>3. QED
    BY <2>1, <2>2 DEF RequestInv
<1>11. PinnedInv'
  <2>1. Pinned' = Pinned
    BY <1>0 DEF Pinned
  <2>2. QED
    BY <1>0, <1>p, <2>1, NoNewPanic, PinnedFrame DEF BInv
<1>12. QED
  BY <1>0, <1>6, <1>7, <1>8, <1>9, <1>10, <1>11, CacheFrame DEF BInv

\* The first buffer leaves the queue, and the disk goes on with the next.
LEMMA Dequeued ==
  ASSUME BInv, NEW b \in Buffer, queue # <<>>, b = Head(queue),
         queue' = Tail(queue), hw' = IF queue' = <<>> THEN None ELSE Command(Head(queue')),
         UNCHANGED <<lock, mine>>, buf' \in [Buffer -> Bufs],
         \A c \in Buffer : buf'[c].blockno = buf[c].blockno,
         \A q \in Process : pc'[q] \in {"reading", "writing"} =>
             pc'[q] = pc[q] /\ mine[q] # b,
         \A q \in Process : mine[q] # b => pc'[q] = pc[q]
  PROVE  /\ QueueInv' /\ Queued' = Queued \ {b}
         /\ queue' \in Seq(Buffer) /\ hw' \in Commands \cup {None}
<1>T. queue \in Seq(Buffer)
  BY DEF BInv, TypeOK
<1>1. /\ queue' \in Seq(Buffer) /\ Len(queue) \in Nat /\ Len(queue) # 0 /\ Len(queue') = Len(queue) - 1
      /\ \A n \in 1 .. Len(queue') : queue'[n] = queue[n + 1]
      /\ b = queue[1]
  BY <1>T
<1>2. \A m, n \in 1 .. Len(queue) : queue[m] = queue[n] => m = n
  BY DEF BInv, QueueInv, QueueSound
<1>3. Queued' = Queued \ {b}
  <2>1. ASSUME NEW x \in Queued' PROVE x \in Queued /\ x # b
    <3>1. PICK n \in 1 .. Len(queue') : x = queue'[n]
      BY DEF Queued
    <3>2. n + 1 \in 1 .. Len(queue) /\ 1 \in 1 .. Len(queue) /\ n + 1 # 1 /\ x = queue[n + 1]
      BY <1>1, <3>1
    <3>3. QED
      BY <1>1, <1>2, <3>2 DEF Queued
  <2>2. ASSUME NEW x \in Queued, x # b PROVE x \in Queued'
    <3>1. PICK n \in 1 .. Len(queue) : x = queue[n]
      BY DEF Queued
    <3>2. n - 1 \in 1 .. Len(queue') /\ x = queue'[n - 1]
      BY <1>1, <2>2, <3>1
    <3>3. QED
      BY <3>2 DEF Queued
  <2>3. QED
    BY <2>1, <2>2
<1>4. \A m, n \in 1 .. Len(queue') : queue'[m] = queue'[n] => m = n
  <2>1. \A n \in 1 .. Len(queue') : n + 1 \in 1 .. Len(queue)
    BY <1>1
  <2>2. QED
    BY <1>1, <1>2, <2>1
<1>5. \A q \in Process : pc'[q] \in {"reading", "writing"} => mine'[q] \in Queued' /\ lock'[mine'[q]] = q
  <2>1. TAKE q \in Process
  <2>2. HAVE pc'[q] \in {"reading", "writing"}
  <2>3. pc[q] \in {"reading", "writing"} /\ mine[q] # b
    BY <2>2
  <2>4. mine[q] \in Queued /\ lock[mine[q]] = q
    BY <2>3, Sleeping DEF BInv, QueueInv, QueueSound
  <2>5. QED
    BY <1>3, <2>3, <2>4
<1>6. \A c \in Queued' : lock'[c] # None /\ pc'[lock'[c]] \in {"reading", "writing"}
  <2>1. TAKE c \in Queued'
  <2>2. c \in Queued /\ c # b
    BY <1>3
  <2>3. lock[c] \in Process /\ mine[lock[c]] = c /\ pc[lock[c]] \in {"reading", "writing"}
    BY <2>2, QueueFacts
  <2>4. QED
    BY <2>2, <2>3, NoneAssumption
<1>7. /\ hw' \in Commands \cup {None} /\ (hw' = None <=> queue' = <<>>)
      /\ hw' # None => hw'.b = Head(queue') /\ hw'.block = buf'[hw'.b].blockno
  <2>1. CASE queue' = <<>>
    BY <2>1
  <2>2. CASE queue' # <<>>
    <3>1. PICK c \in Buffer : c = Head(queue')
      BY <1>1, <2>2
    <3>2. c \in Queued
      BY <1>1, <1>3, <2>2, <3>1 DEF Queued
    <3>3. buf'[c] \in Bufs /\ buf'[c].blockno \in Block
      <4>1. lock[c] \in Process /\ mine[lock[c]] = c /\ pc[lock[c]] # "idle"
        BY Zenon, <3>2, QueueFacts
      <4>2. QED
        BY <4>1, HolderFacts
    <3>4. Command(c) \in Commands /\ Command(c).b = c /\ Command(c).block = buf'[c].blockno
      BY <3>3 DEF Command, Commands, Bufs
    <3>5. hw' = Command(c)
      BY <2>2, <3>1
    <3>6. QED
      BY <2>2, <3>1, <3>4, <3>5, NoneAssumption, ZenonT(30)
  <2>3. QED
    BY <2>1, <2>2, ZenonT(30)
<1>8. QueueSound'
  BY <1>4, <1>5, <1>7, Sleeping, ZenonT(30) DEF QueueSound
<1>9. QED
  BY <1>1, <1>3, <1>6, <1>7, <1>8, Sleeping, ZenonT(30) DEF QueueInv

\* What ideintr makes of a buffer.
LEMMA Finished ==
  ASSUME NEW r \in Bufs, NEW d \in Nat
  PROVE  LET s == [r EXCEPT !.data = d, !.valid = TRUE, !.dirty = FALSE]
         IN /\ s \in Bufs /\ s.blockno = r.blockno /\ s.refcnt = r.refcnt
            /\ s.valid = TRUE /\ s.dirty = FALSE /\ s.data = d
  BY ZenonT(30) DEF Bufs

\* ideintr: the buffer is valid and clean, its process is woken.
LEMMA IdeIntrStep ==
  ASSUME BInv, NEW failed \in BOOLEAN, IdeIntr(failed)
  PROVE  BInv'
<1>h. hw # None /\ ~hw.write
  BY DEF IdeIntr
<1>1. /\ queue # <<>> /\ hw \in Commands /\ hw.b = Head(queue) /\ hw.b \in Queued
      /\ hw.block = buf[hw.b].blockno
  BY <1>h, DiskFacts
<1>b. PICK b \in Buffer : b = hw.b
  BY <1>1, QueueFacts
<1>k. PICK k \in Block : k = hw.block
  BY <1>1, SMTT(30) DEF Commands
<1> DEFINE d == IF ~buf[b].dirty /\ ~failed THEN disk[k] ELSE buf[b].data
           s == [buf[b] EXCEPT !.data = d, !.valid = TRUE, !.dirty = FALSE]
<1>0. /\ failed => ~buf[b].dirty
      /\ spoilt' = IF failed THEN spoilt \cup {b} ELSE spoilt
      /\ buf' = [buf EXCEPT ![b] = s]
      /\ pc' = [q \in Process |-> IF pc[q] \in DOMAIN Woken /\ mine[q] = b THEN Woken[pc[q]] ELSE pc[q]]
      /\ queue' = Tail(queue) /\ hw' = IF queue' = <<>> THEN None ELSE Command(Head(queue'))
      /\ UNCHANGED <<lru, lock, disk, mine, panic, last, lost>>
  BY <1>1, <1>b, <1>k, ZenonT(30) DEF IdeIntr
<1>p. panic' = FALSE
  BY Zenon, Running DEF IdeIntr
<1>2. buf[b].blockno = k /\ k # None
  BY <1>1, <1>b, <1>k, NoneAssumption DEF Block
<1>3. OnDisk(k)
  <2>1. CASE buf[b].dirty
    BY <1>h, <1>b, <1>k, <2>1 DEF BInv, RequestInv
  <2>2. CASE ~buf[b].dirty
    BY <1>2, <2>2 DEF BInv, DataInv
  <2>3. QED
    BY <2>1, <2>2
<1>4. buf[b].dirty => buf[b].data = last[k]
  BY <1>2 DEF BInv, DataInv
<1>T. /\ buf \in [Buffer -> Bufs] /\ disk \in [Block -> Nat] /\ pc \in [Process -> Labels]
      /\ buf[b].data \in Nat /\ spoilt \subseteq Buffer /\ lock \in [Buffer -> Process \cup {None}]
  BY ZenonT(30) DEF BInv, TypeOK, Bufs
<1>5. /\ s \in Bufs /\ s.blockno = k /\ s.refcnt = buf[b].refcnt
      /\ s.valid = TRUE /\ s.dirty = FALSE /\ s.data = d
  <2>1. buf[b] \in Bufs /\ d \in Nat
    BY <1>T
  <2> HIDE DEF d
  <2>2. QED
    BY <1>2, <2>1, Finished, ZenonT(30)
<1>6. d = last[k] \/ failed \/ k \in lost
  BY <1>3, <1>4 DEF OnDisk
<1> HIDE DEF d, s
<1>7. /\ \A c \in Buffer : c # b => buf'[c] = buf[c]
      /\ buf'[b] = s /\ buf' \in [Buffer -> Bufs]
  BY <1>0, <1>5, <1>T
<1>8. \A c \in Buffer : buf'[c].blockno = buf[c].blockno /\ buf'[c].refcnt = buf[c].refcnt
  BY <1>2, <1>5, <1>7
<1>9. PICK p \in Process : p = lock[b] /\ mine[p] = b /\ pc[p] \in {"reading", "writing"}
  BY <1>1, <1>b, QueueFacts
<1>10. /\ pc' \in [Process -> Labels]
       /\ \A q \in Process : q # p => pc'[q] = pc[q]
       /\ pc'[p] \in {"read", "written"}
  <2>1. \A q \in Process : pc[q] \in {"reading", "writing"} /\ mine[q] = b => q = p
    BY <1>9, HolderFacts DEF Holding
  <2>2. \A q \in Process : q # p => pc'[q] = pc[q]
    BY <1>0, <2>1, Sleeping
  <2>3. pc'[p] \in {"read", "written"}
    BY <1>0, <1>9 DEF Woken
  <2>4. DOMAIN pc' = Process /\ \A q \in Process : pc'[q] \in Labels
    BY <1>0, <1>T, <2>2, <2>3, ZenonT(30) DEF Labels
  <2>5. QED
    BY <1>0, <2>2, <2>3, <2>4
<1>11. /\ QueueInv' /\ Queued' = Queued \ {b}
       /\ queue' \in Seq(Buffer) /\ hw' \in Commands \cup {None}
  <2>1. \A q \in Process : pc'[q] \in {"reading", "writing"} => pc'[q] = pc[q] /\ mine[q] # b
    <3>1. TAKE q \in Process
    <3>2. HAVE pc'[q] \in {"reading", "writing"}
    <3>3. q # p /\ pc'[q] = pc[q]
      BY <1>10, <3>2
    <3>4. QED
      BY <1>9, <3>2, <3>3, HolderFacts DEF Holding
  <2>2. \A q \in Process : mine[q] # b => pc'[q] = pc[q]
    BY <1>9, <1>10
  <2>3. QED
    BY <1>0, <1>1, <1>b, <1>7, <1>8, <2>1, <2>2, Dequeued
<1>12. TypeOK'
  <2>1. spoilt' \subseteq Buffer
    BY <1>0, <1>T
  <2>2. QED
    BY Zenon, <1>0, <1>7, <1>10, <1>11, <2>1 DEF BInv, TypeOK
<1>13. LockInv'
  <2>1. \A q \in Process : pc'[q] = pc[q] \/ (pc[q] \in Holding /\ pc'[q] \in Holding)
    BY <1>9, <1>10 DEF Holding
  <2>2. QED
    BY Zenon, <1>0, <1>T, <2>1, LockFrame DEF BInv
<1>14. CacheInv'
  BY <1>0, <1>8, CacheKept
<1>15. DataInv'
  <2>1. \A c \in Buffer : c # b => (c \in spoilt' <=> c \in spoilt)
    BY <1>0
  <2>2. failed => b \in spoilt'
    BY <1>0, SMTT(30)
  <2>3. QED
    BY <1>0, <1>2, <1>3, <1>5, <1>6, <1>7, <2>1, <2>2, DataOne, SMTT(30) DEF OnDisk
<1>16. RequestInv'
  BY <1>0, ZenonT(30) DEF RequestInv, Command
<1>17. FlagsInv'
  <2>1. Flags(p)'
    BY <1>0, <1>5, <1>7, <1>9, <1>10 DEF Flags
  <2>2. QED
    BY <1>0, <1>7, <1>9, <1>10, <2>1, OthersFlags DEF Holding
<1>18. PinnedInv'
  <2>1. Pinned' \subseteq Pinned \ {b}
    BY <1>5, <1>7 DEF Pinned
  <2>2. QED
    BY <1>p, <1>11, <2>1, PinnedKept
<1>19. QED
  BY <1>11, <1>12, <1>13, <1>14, <1>15, <1>16, <1>17, <1>18 DEF BInv

\* iderw wakes up and finds the buffer done.
LEMMA IoWokenStep ==
  ASSUME BInv, NEW p \in Process, IoWoken(p)
  PROVE  BInv'
<1>0. /\ pc[p] \in {"read", "written"}
      /\ UNCHANGED <<lru, buf, lock, queue, hw, disk, mine, panic, last, spoilt, lost>>
  BY Zenon DEF IoWoken, At
<1>p. panic' = FALSE
  BY Zenon, Running DEF IoWoken, At
<1>1. buf[mine[p]].valid /\ ~buf[mine[p]].dirty
  BY Zenon, <1>0 DEF BInv, FlagsInv, Flags
<1>T. pc \in [Process -> Labels] /\ lock \in [Buffer -> Process \cup {None}]
  BY DEF BInv, TypeOK
<1>2. /\ pc' \in [Process -> Labels] /\ pc'[p] \in {"holds", "done"}
      /\ \A q \in Process : q # p => pc'[q] = pc[q]
  BY <1>1, <1>T DEF IoWoken, Done, Goto, Labels
<1>3. TypeOK'
  BY <1>0, <1>2 DEF BInv, TypeOK
<1>4. LockInv'
  <2>1. \A q \in Process : pc'[q] = pc[q] \/ (pc[q] \in Holding /\ pc'[q] \in Holding)
    BY <1>0, <1>2 DEF Holding
  <2>2. QED
    BY <1>0, <1>T, <2>1, LockFrame DEF BInv
<1>5. QueueInv'
  <2>1. \A c \in Queued : pc'[lock[c]] = pc[lock[c]]
    <3>1. TAKE c \in Queued
    <3>2. lock[c] \in Process /\ pc[lock[c]] \in {"reading", "writing"}
      BY QueueFacts
    <3>3. QED
      BY <1>0, <1>2, <3>2
  <2>2. \A q \in Process : pc'[q] \in {"reading", "writing"} => pc[q] \in {"reading", "writing"}
    BY <1>2
  <2>3. QED
    BY <1>0, <2>1, <2>2, QueueFrame
<1>6. FlagsInv'
  <2>1. Flags(p)'
    BY <1>0, <1>1, <1>2 DEF Flags
  <2>2. QED
    BY <1>0, <1>2, <2>1, OthersFlags, SMTT(30) DEF Holding
<1>7. Pinned' = Pinned
  BY <1>0 DEF Pinned
<1>8. QED
  BY Zenon, <1>0, <1>p, <1>3, <1>4, <1>5, <1>6, <1>7, CacheFrame, DataFrame, RequestFrame, NoNewPanic, PinnedFrame DEF BInv

-----------------------------------------------------------------------------
(* The theorems *)

\* binit and ideinit establish BInv.
LEMMA InitInv ==
  ASSUME Init
  PROVE  BInv
<1>0. NBUF \in Nat /\ MaxPinned \in Nat
  BY BuffersAssumption
<1>1. /\ lru = [n \in Buffer |-> NBUF + 1 - n] /\ lock = [b \in Buffer |-> None]
      /\ queue = <<>> /\ hw = None /\ disk = [j \in Block |-> 0] /\ last = disk
      /\ pc = [p \in Process |-> "idle"] /\ mine = [p \in Process |-> None]
      /\ panic = FALSE /\ spoilt = {} /\ lost = {}
  BY DEF Init
<1>2. \A b \in Buffer : buf[b] = [blockno |-> None, refcnt |-> 0, valid |-> FALSE,
                                  dirty |-> FALSE, data |-> 0]
  BY DEF Init
<1>3. /\ \A b \in Buffer : /\ buf[b] \in Bufs /\ buf[b].blockno = None /\ buf[b].refcnt = 0
                           /\ ~buf[b].valid /\ ~buf[b].dirty
      /\ buf \in [Buffer -> Bufs]
  BY <1>2 DEF Init, Bufs
<1>4. Queued = {} /\ Pinned = {}
  BY <1>1, <1>3 DEF Queued, Pinned
<1>5. TypeOK
  <2>1. lru \in [Buffer -> Buffer]
    BY <1>0, <1>1 DEF Buffer
  <2>2. ASSUME NEW b \in Buffer PROVE \E n \in Buffer : lru[n] = b
    <3>1. NBUF + 1 - b \in Buffer /\ NBUF + 1 - (NBUF + 1 - b) = b
      BY <1>0 DEF Buffer
    <3>2. QED
      BY <1>1, <3>1
  <2>3. lock \in [Buffer -> Process \cup {None}] /\ mine \in [Process -> Buffer \cup {None}]
    BY <1>1
  <2>4. pc \in [Process -> Labels]
    BY <1>1 DEF Labels
  <2>5. disk \in [Block -> Nat] /\ last \in [Block -> Nat] /\ queue \in Seq(Buffer)
    BY <1>1
  <2>6. spoilt \subseteq Buffer /\ lost \subseteq Block /\ panic \in BOOLEAN /\ hw \in Commands \cup {None}
    BY <1>1, ZenonT(30)
  <2>7. QED
    BY <1>3, <2>1, <2>2, <2>3, <2>4, <2>5, <2>6 DEF TypeOK
<1>6. LockInv
  BY <1>1 DEF LockInv, HasBuffer, HasLock, LockHeld, SleepersBlocked, Holding
<1>7. CacheInv
  <2>1. \A b \in Buffer : Users(b) = {}
    BY <1>1, NoneAssumption DEF Users, Buffer
  <2>2. RefcntExact
    <3>1. Cardinality({}) = 0
      BY FS_EmptySet
    <3>2. QED
      BY <1>3, <2>1, <3>1 DEF RefcntExact
  <2>3. QED
    BY <1>1, <1>3, <2>2 DEF CacheInv, OneCopy
<1>8. QueueInv
  BY <1>1, <1>4, Sleeping DEF QueueInv, QueueSound
<1>9. DataInv
  BY <1>1, <1>3 DEF DataInv, NothingLost, OnDisk
<1>10. RequestInv /\ FlagsInv
  BY <1>1 DEF RequestInv, FlagsInv, Flags
<1>11. PinnedInv
  <2>1. Cardinality({}) = 0 /\ Pinned \ Queued = {}
    BY <1>4, FS_EmptySet
  <2>2. ~panic
    BY <1>1
  <2>3. Cardinality(Pinned \ Queued) =< MaxPinned
    BY <1>0, <2>1, SMTT(30)
  <2>4. QED
    BY <2>2, <2>3 DEF PinnedInv, PanicJustified
<1>12. QED
  BY <1>5, <1>6, <1>7, <1>8, <1>9, <1>10, <1>11, SMTT(30) DEF BInv

\* A step that changes nothing changes no part of BInv.
LEMMA Stutter ==
  ASSUME BInv, UNCHANGED vars
  PROVE  BInv'
<1>0. UNCHANGED <<lru, buf, lock, queue, hw, disk, pc, mine, panic, last, spoilt, lost>>
  BY DEF vars
<1>1. panic' \in BOOLEAN /\ PanicJustified'
  BY Zenon, <1>0 DEF BInv, TypeOK, PinnedInv, PanicJustified, InCall
<1>2. QED
  BY Zenon, <1>0, <1>1, OnlyPanics

\* Every step of the buffer cache and of the disk preserves BInv.
LEMMA NextInv ==
  ASSUME BInv, [Next]_vars
  PROVE  BInv'
<1>1. CASE Disk
  BY <1>1, DiskWritesStep, IdeIntrStep DEF Disk
<1>2. ASSUME NEW p \in Process, ProcessStep(p) PROVE BInv'
  BY <1>2, AcquireStep, BReadStep, ReleaseStep, BRelseStep, IoWokenStep DEF ProcessStep
<1>3. ASSUME NEW p \in Process, NEW k \in Block, BGet(p, k) PROVE BInv'
  BY <1>3, BGetStep
<1>4. ASSUME NEW p \in Process, LogWrite(p) \/ BWrite(p) PROVE BInv'
  BY <1>4, LogWriteStep, BWriteStep
<1>5. CASE UNCHANGED vars
  BY <1>5, Stutter
<1>6. QED
  BY <1>1, <1>2, <1>3, <1>4, <1>5 DEF Next

\* The buffer cache, its locks, its queue and its disk are always consistent, with
\* however many processes, buffers and blocks.
THEOREM Invariance == Spec => []BInv
<1>1. Init => BInv
  BY InitInv
<1>2. BInv /\ [Next]_vars => BInv'
  BY NextInv
<1>3. QED
  BY <1>1, <1>2, PTL DEF Spec

\* A block has one buffer, its references are counted, it is recycled only when
\* the disk has its contents, and the only panic is that of bget when the buffers are
\* used up, whatever their number.
THEOREM CacheIsSound == Spec => []CacheSound
<1>1. BInv => CacheSound
  BY Zenon DEF BInv, CacheInv, DataInv, PinnedInv, CacheSound
<1>2. QED
  BY <1>1, Invariance, PTL

\* Whoever holds a buffer sees the latest contents of the block, unless a transfer
\* failed.
THEOREM LatestIsRead == Spec => []ReadsLatest
<1>1. ASSUME BInv PROVE ReadsLatest
  <2>1. SUFFICES ASSUME NEW p \in Process, pc[p] \in {"holds", "done"}
                 PROVE  /\ lock[mine[p]] = p
                        /\ \/ buf[mine[p]].data = last[buf[mine[p]].blockno]
                           \/ mine[p] \in spoilt \/ buf[mine[p]].blockno \in lost
    BY Zenon DEF ReadsLatest
  <2>2. mine[p] \in Buffer /\ buf[mine[p]].blockno \in Block
    BY <1>1, <2>1, HolderFacts
  <2>3. buf[mine[p]].valid
    BY <1>1, <2>1 DEF BInv, FlagsInv, Flags
  <2>4. buf[mine[p]].blockno # None
    BY <2>2, NoneAssumption, SMTT(30) DEF Block
  <2>5. \/ buf[mine[p]].data = last[buf[mine[p]].blockno]
        \/ mine[p] \in spoilt \/ buf[mine[p]].blockno \in lost
    BY Zenon, <1>1, <2>1, <2>2, <2>3, <2>4 DEF BInv, DataInv
  <2>6. QED
    BY <1>1, <2>1, <2>5 DEF BInv, LockInv, HasLock, Holding
<1>2. QED
  BY <1>1, Invariance, PTL

\* Whoever sleeps is in the disk's queue, once, or behind a lock that is held.
THEOREM SleepersAreQueued == Spec => []SleepersQueued
<1>1. BInv => SleepersQueued
  BY DEF BInv, QueueInv, LockInv, SleepersQueued
<1>2. QED
  BY <1>1, Invariance, PTL
=============================================================================
