-------------------------------- MODULE Log --------------------------------
(***************************************************************************)
(* The redo log of xv6 (xv6/base/log.c) over the buffer cache (bio.c) and  *)
(* a disk that may stop at any instant.  A section of code under log.lock  *)
(* is one step.  A disk write is one step: BSIZE is one 512-byte sector.   *)
(***************************************************************************)
EXTENDS Naturals, Sequences, FiniteSets

CONSTANTS
  Proc,         \* processes that make file system calls
  Block,        \* home blocks of the file system
  Val,          \* contents of a block
  Zero,         \* contents of a block mkfs has zeroed
  NoProc,       \* owner of a buffer nobody has locked
  NoVal,        \* contents of a block that is not in the cache
  LOGSIZE,      \* param.h: capacity of the in-memory header
  MAXOPBLOCKS,  \* param.h: blocks begin_op reserves for an operation
  NLOG,         \* sb.nlog: blocks of the on-disk log, its header included
  MaxWrites     \* most distinct blocks an operation really writes

ASSUME ConstantTypes ==
  /\ IsFiniteSet(Proc) /\ NoProc \notin Proc
  /\ Zero \in Val /\ NoVal \notin Val
  /\ LOGSIZE \in Nat /\ MAXOPBLOCKS \in Nat /\ NLOG \in Nat /\ MaxWrites \in Nat
  /\ NLOG > 0 /\ MaxWrites <= MAXOPBLOCKS

VARIABLES
  home,         \* disk: the home blocks
  logd,         \* disk: data blocks of the log
  head,         \* disk: header of the log, the block numbers it lists
  cache,        \* bio.c: b->data of the cached home blocks
  dirty,        \* bio.c: blocks whose buffer has B_DIRTY
  owner,        \* bio.c: holder of b->lock
  outstanding,  \* log.outstanding
  committing,   \* log.committing
  lh,           \* log.lh, the block numbers logged so far
  pc,           \* what each process does
  wrote,        \* blocks each process has logged in its operation
  stage,        \* where commit() or recover_from_log() has got to
  tail,         \* loop variable of write_log and install_trans
  booting,      \* recovery is not finished
  panicked      \* panic() has stopped the machine

disk == <<home, logd, head>>
bufs == <<cache, dirty, owner>>
log == <<outstanding, committing, lh>>
procs == <<pc, wrote>>
boot == <<stage, tail, booting>>
vars == <<disk, bufs, log, procs, boot, panicked>>

Elems(s) == {s[i] : i \in 1..Len(s)}

\* The machine is up: recovery is over, so processes run.
Up == ~booting

\* wakeup(&log)
WakeLog(f) == [p \in Proc |-> IF f[p] = "sleep" THEN "begin" ELSE f[p]]

TypeOK ==
  /\ home \in [Block -> Val]
  /\ logd \in [1..(NLOG - 1) -> Val]
  /\ head \in Seq(Block)
  /\ cache \in [Block -> Val \cup {NoVal}]
  /\ dirty \subseteq Block
  /\ owner \in [Block -> Proc \cup {NoProc}]
  /\ outstanding \in Nat
  /\ committing \in BOOLEAN
  /\ lh \in Seq(Block)
  /\ pc \in [Proc -> {"idle", "begin", "sleep", "op", "commit"}]
  /\ wrote \in [Proc -> SUBSET Block]
  /\ stage \in {"run", "write_log", "install", "done", "read_head"}
  /\ tail \in Nat
  /\ booting \in BOOLEAN
  /\ panicked \in BOOLEAN

\* The first boot: mkfs wrote the file system and zeroed the log.
Init ==
  /\ home \in [Block -> Val]
  /\ logd = [i \in 1..(NLOG - 1) |-> Zero]
  /\ head = <<>>
  /\ cache = [b \in Block |-> NoVal]
  /\ dirty = {}
  /\ owner = [b \in Block |-> NoProc]
  /\ outstanding = 0
  /\ committing = FALSE
  /\ lh = <<>>
  /\ pc = [p \in Proc |-> "idle"]
  /\ wrote = [p \in Proc |-> {}]
  /\ stage = "read_head"
  /\ tail = 0
  /\ booting = TRUE
  /\ panicked = FALSE

-----------------------------------------------------------------------------
(* bio.c *)

\* bread: lock the buffer of b, and read the disk if b is not cached.
Bread(p, b) ==
  /\ Up /\ pc[p] \in {"idle", "op"}
  /\ owner[b] = NoProc
  /\ owner' = [owner EXCEPT ![b] = p]
  /\ cache' = [cache EXCEPT ![b] = IF @ = NoVal THEN home[b] ELSE @]
  /\ UNCHANGED <<disk, dirty, log, procs, boot, panicked>>

\* brelse: unlock the buffer.
Brelse(p, b) ==
  /\ owner[b] = p
  /\ owner' = [owner EXCEPT ![b] = NoProc]
  /\ UNCHANGED <<disk, cache, dirty, log, procs, boot, panicked>>

\* bget recycles an unused buffer without B_DIRTY for some other block.
Recycle(b) ==
  /\ cache[b] # NoVal /\ owner[b] = NoProc /\ b \notin dirty
  /\ cache' = [cache EXCEPT ![b] = NoVal]
  /\ UNCHANGED <<disk, dirty, owner, log, procs, boot, panicked>>

-----------------------------------------------------------------------------
(* log.c *)

\* A system call of p that modifies the file system reaches begin_op.
Call(p) ==
  /\ Up /\ pc[p] = "idle" /\ \A b \in Block : owner[b] # p
  /\ pc' = [pc EXCEPT ![p] = "begin"]
  /\ UNCHANGED <<disk, bufs, log, wrote, boot, panicked>>

\* Mutant: begin_op forgets the blocks that ended operations have logged.
LogSpaceUnlogged == ~committing /\ (outstanding + 1) * MAXOPBLOCKS <= LOGSIZE

\* Condition under which begin_op lets an operation in.
LogSpace == ~committing /\ Len(lh) + (outstanding + 1) * MAXOPBLOCKS <= LOGSIZE

BeginOp(p) ==
  /\ pc[p] = "begin"
  /\ IF LogSpace
     THEN /\ outstanding' = outstanding + 1
          /\ pc' = [pc EXCEPT ![p] = "op"]
     ELSE /\ pc' = [pc EXCEPT ![p] = "sleep"]
          /\ UNCHANGED outstanding
  /\ UNCHANGED <<disk, bufs, committing, lh, wrote, boot, panicked>>

\* Conditions of the two panics of log_write.
LogFull == Len(lh) >= LOGSIZE \/ Len(lh) >= NLOG - 1
OutsideTrans == outstanding < 1

\* A caller modifies the buffer it has locked and passes it to log_write.
LogWrite(p, b, v) ==
  /\ pc[p] = "op" /\ owner[b] = p
  /\ b \in wrote[p] \/ Cardinality(wrote[p]) < MaxWrites
  /\ IF LogFull \/ OutsideTrans
     THEN panicked' = TRUE /\ UNCHANGED <<cache, dirty, lh, wrote>>
     ELSE /\ cache' = [cache EXCEPT ![b] = v]
          /\ dirty' = dirty \cup {b}
          /\ lh' = IF b \in Elems(lh) THEN lh ELSE Append(lh, b)
          /\ wrote' = [wrote EXCEPT ![p] = @ \cup {b}]
          /\ UNCHANGED panicked
  /\ UNCHANGED <<disk, owner, outstanding, committing, pc, boot>>

\* end_op: the last operation commits, any other one wakes begin_op.
EndOp(p) ==
  /\ pc[p] = "op" /\ \A b \in Block : owner[b] # p
  /\ outstanding' = outstanding - 1
  /\ wrote' = [wrote EXCEPT ![p] = {}]
  /\ panicked' = committing
  /\ IF outstanding' = 0
     THEN /\ committing' = TRUE
          /\ pc' = [pc EXCEPT ![p] = "commit"]
          /\ stage' = IF lh # <<>> THEN "write_log" ELSE "done"
          /\ tail' = 0
     ELSE /\ pc' = WakeLog([pc EXCEPT ![p] = "idle"])
          /\ UNCHANGED <<committing, stage, tail>>
  /\ UNCHANGED <<disk, bufs, lh, booting>>

\* One iteration of write_log: copy a cached block to the log on disk.
WriteLog ==
  /\ stage = "write_log" /\ tail < Len(lh)
  /\ LET b == lh[tail + 1] IN
       /\ owner[b] = NoProc
       /\ logd' = [logd EXCEPT ![tail + 1] = IF cache[b] = NoVal THEN home[b] ELSE cache[b]]
       /\ cache' = [cache EXCEPT ![b] = IF @ = NoVal THEN home[b] ELSE @]
  /\ tail' = tail + 1
  /\ UNCHANGED <<home, head, dirty, owner, log, procs, stage, booting, panicked>>

\* Mutant: commit writes the header before the blocks it lists.
WriteHeadFirst ==
  /\ stage = "write_log" /\ tail = 0
  /\ head' = lh
  /\ stage' = "install" /\ tail' = 0
  /\ UNCHANGED <<home, logd, bufs, log, procs, booting, panicked>>

\* write_head in commit: the transaction is committed from here on.
WriteHead ==
  /\ stage = "write_log" /\ tail = Len(lh)
  /\ head' = lh
  /\ stage' = "install" /\ tail' = 0
  /\ UNCHANGED <<home, logd, bufs, log, procs, booting, panicked>>

\* One iteration of install_trans, in commit or in recovery.  The write
\* completes in ideintr, which clears B_DIRTY.
InstallTrans ==
  /\ stage = "install" /\ tail < Len(lh)
  /\ LET b == lh[tail + 1] IN
       /\ owner[b] = NoProc
       /\ home' = [home EXCEPT ![b] = logd[tail + 1]]
       /\ cache' = [cache EXCEPT ![b] = logd[tail + 1]]
       /\ dirty' = dirty \ {b}
  /\ tail' = tail + 1
  /\ UNCHANGED <<logd, head, owner, log, procs, stage, booting, panicked>>

\* log.lh.n = 0 and write_head, the end of commit and of recovery.
ClearLog ==
  /\ stage = "install" /\ tail = Len(lh)
  /\ lh' = <<>> /\ head' = <<>>
  /\ stage' = IF booting THEN "run" ELSE "done"
  /\ tail' = 0 /\ booting' = FALSE
  /\ UNCHANGED <<home, logd, bufs, outstanding, committing, procs, panicked>>

\* Mutant: end_op wakes nobody after the commit.
CommitDoneSilently(p) ==
  /\ stage = "done" /\ pc[p] = "commit"
  /\ committing' = FALSE
  /\ pc' = [pc EXCEPT ![p] = "idle"]
  /\ stage' = "run"
  /\ UNCHANGED <<disk, bufs, outstanding, lh, wrote, tail, booting, panicked>>

\* The end of end_op in the process that committed.
CommitDone(p) ==
  /\ stage = "done" /\ pc[p] = "commit"
  /\ committing' = FALSE
  /\ pc' = WakeLog([pc EXCEPT ![p] = "idle"])
  /\ stage' = "run"
  /\ UNCHANGED <<disk, bufs, outstanding, lh, wrote, tail, booting, panicked>>

\* Mutant: recovery installs the empty header it has in memory.
ReadHeadSkipped ==
  /\ stage = "read_head"
  /\ stage' = "install" /\ tail' = 0
  /\ UNCHANGED <<disk, bufs, log, procs, booting, panicked>>

\* read_head, the first step of recover_from_log.
ReadHead ==
  /\ stage = "read_head"
  /\ lh' = head
  /\ stage' = "install" /\ tail' = 0
  /\ UNCHANGED <<disk, bufs, outstanding, committing, procs, booting, panicked>>

\* The machine stops and starts again with nothing but its disk.
Crash ==
  /\ cache' = [b \in Block |-> NoVal]
  /\ dirty' = {}
  /\ owner' = [b \in Block |-> NoProc]
  /\ outstanding' = 0
  /\ committing' = FALSE
  /\ lh' = <<>>
  /\ pc' = [p \in Proc |-> "idle"]
  /\ wrote' = [p \in Proc |-> {}]
  /\ stage' = "read_head"
  /\ tail' = 0
  /\ booting' = TRUE
  /\ UNCHANGED <<disk, panicked>>

ProcStep(p) ==
  \/ Call(p) \/ BeginOp(p) \/ EndOp(p) \/ CommitDone(p)
  \/ \E b \in Block : Bread(p, b) \/ Brelse(p, b)
  \/ \E b \in Block, v \in Val : LogWrite(p, b, v)

LogStep == WriteLog \/ WriteHead \/ InstallTrans \/ ClearLog \/ ReadHead

Next ==
  /\ ~panicked
  /\ \/ \E p \in Proc : ProcStep(p)
     \/ \E b \in Block : Recycle(b)
     \/ LogStep
     \/ Crash

Spec == Init /\ [][Next]_vars

-----------------------------------------------------------------------------
(* Refinement of the abstract store *)

\* The home blocks as recovery would leave them: a committed log wins.
Recovered ==
  [b \in Block |-> IF \E i \in 1..Len(head) : head[i] = b
                   THEN logd[CHOOSE i \in 1..Len(head) : head[i] = b]
                   ELSE home[b]]

\* The blocks as bread shows them.
View ==
  IF booting THEN Recovered
  ELSE [b \in Block |-> IF cache[b] = NoVal THEN home[b] ELSE cache[b]]

Active == {p \in Proc : pc[p] = "op"}

Store == INSTANCE DurableStore
         WITH mem <- View, durable <- Recovered, active <- Active

(* The log implements the atomic, durable store: begin_op, log_write, end_op,
   commit, recovery and any crash in between amount to steps of DurableStore,
   so a restart never shows part of an operation.  *)
CrashAtomic == Store!Spec

-----------------------------------------------------------------------------
(* Safety *)

(* No panic of log_write or end_op is reached: what begin_op admits always
   fits the header in memory and the log on disk.  *)
NoPanic == ~panicked

(* A buffer that bget may recycle holds what its block on disk holds, so
   recycling never loses an update and never resurrects an old one.  *)
CleanIsOnDisk ==
  \A b \in Block : Up /\ b \notin dirty /\ cache[b] # NoVal => cache[b] = home[b]

(* When end_op has returned everywhere, all updates are on disk in their home
   blocks and the header on disk is empty.  *)
QuiescentIsDurable ==
  Up /\ outstanding = 0 /\ ~committing => dirty = {} /\ head = <<>> /\ Recovered = View
=============================================================================
