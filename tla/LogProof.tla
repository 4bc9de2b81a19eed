------------------------------ MODULE LogProof ------------------------------
(***************************************************************************)
(* Proofs about Log, for every number of processes, blocks and values and  *)
(* every size of the log: IInv is inductive when an operation writes few   *)
(* enough blocks (LogFits), what follows from it, and Log implements       *)
(* DurableStore.                                                           *)
(***************************************************************************)
EXTENDS LogInv, FiniteSetTheorems, TLAPS

-----------------------------------------------------------------------------
(* Facts about sequences of block numbers *)

(* log_write's append adds one block number to the header and keeps it free of
   duplicates when log absorption found no entry.  *)
LEMMA AppendFacts ==
  ASSUME NEW s \in Seq(Block), NEW b \in Block
  PROVE  /\ Append(s, b) \in Seq(Block)
         /\ Len(Append(s, b)) = Len(s) + 1
         /\ Elems(Append(s, b)) = Elems(s) \cup {b}
         /\ Distinct(s) /\ b \notin Elems(s) => Distinct(Append(s, b))
<1>1. /\ Append(s, b) \in Seq(Block)
      /\ Len(Append(s, b)) = Len(s) + 1
      /\ \A i \in 1..Len(s) : Append(s, b)[i] = s[i]
      /\ Append(s, b)[Len(s) + 1] = b
      /\ Len(s) \in Nat
  OBVIOUS
<1>2. Elems(Append(s, b)) = Elems(s) \cup {b}
  <2>1. \A i \in 1..(Len(s) + 1) : i \in 1..Len(s) \/ i = Len(s) + 1
    BY <1>1
  <2>2. QED
    BY <1>1, <2>1 DEF Elems
<1>3. ASSUME Distinct(s), b \notin Elems(s)
      PROVE  Distinct(Append(s, b))
  BY <1>1, <1>3 DEF Distinct, Elems
<1>4. QED
  BY <1>1, <1>2, <1>3

(* The empty header.  *)
LEMMA EmptyFacts ==
  /\ <<>> \in Seq(Block) /\ Len(<<>>) = 0
  /\ Elems(<<>>) = {} /\ Distinct(<<>>)
BY DEF Elems, Distinct

-----------------------------------------------------------------------------
(* Facts about the reserved log space *)

(* The credits are finite, and no more than begin_op reserved.  *)
LEMMA CreditsBound ==
  ASSUME NEW A \in SUBSET Proc, NEW C \in SUBSET (A \X (1..MAXOPBLOCKS))
  PROVE  /\ IsFiniteSet(A) /\ Cardinality(A) \in Nat
         /\ IsFiniteSet(C) /\ Cardinality(C) \in Nat
         /\ Cardinality(C) <= Cardinality(A) * MAXOPBLOCKS
<1>1. IsFiniteSet(A) /\ Cardinality(A) \in Nat
  BY ConstantTypes, FS_Subset, FS_CardinalityType
<1>2. IsFiniteSet(1..MAXOPBLOCKS) /\ Cardinality(1..MAXOPBLOCKS) = MAXOPBLOCKS
  <2>1. 1 \in Int /\ MAXOPBLOCKS \in Int
    BY ConstantTypes
  <2>2. /\ IsFiniteSet(1..MAXOPBLOCKS)
        /\ Cardinality(1..MAXOPBLOCKS) = IF 1 > MAXOPBLOCKS THEN 0 ELSE MAXOPBLOCKS - 1 + 1
    BY <2>1, FS_Interval
  <2>3. QED
    BY <2>2, ConstantTypes
<1>3. /\ IsFiniteSet(A \X (1..MAXOPBLOCKS))
      /\ Cardinality(A \X (1..MAXOPBLOCKS)) = Cardinality(A) * MAXOPBLOCKS
  BY Zenon, <1>1, <1>2, FS_Product
<1>4. QED
  BY <1>1, <1>3, FS_Subset, FS_CardinalityType

(* A process inside an operation is counted in log.outstanding, and has logged
   what its credits do not cover.  *)
LEMMA InOp ==
  ASSUME IInv, NEW p \in Proc, pc[p] = "op"
  PROVE  /\ outstanding >= 1 /\ ~committing /\ Up
         /\ Cardinality(wrote[p]) \in 0..MaxWrites
         /\ Len(lh) + (MAXOPBLOCKS - Cardinality(wrote[p])) <= LOGSIZE
<1> DEFINE k == Cardinality(wrote[p])
           C == {<<p, i>> : i \in (k + 1)..MAXOPBLOCKS}
<1>1. p \in Active /\ Active \subseteq Proc /\ Credits \subseteq Active \X (1..MAXOPBLOCKS)
  BY DEF Active, Credits
<1>2. /\ IsFiniteSet(Active) /\ Cardinality(Active) \in Nat
      /\ IsFiniteSet(Credits) /\ Cardinality(Credits) \in Nat
  BY <1>1, CreditsBound
<1>3. outstanding >= 1
  BY <1>1, <1>2, FS_EmptySet DEF IInv, SpaceInv
<1>4. ~committing /\ Up
  BY <1>1 DEF IInv, ControlInv, Up, TypeOK
<1>5. k \in 0..MaxWrites
  BY FS_CardinalityType DEF IInv, SpaceInv
<1>6. Cardinality(Credits) >= MAXOPBLOCKS - k
  <2>1. {p} \X ((k + 1)..MAXOPBLOCKS) \subseteq Credits
    BY <1>1, <1>5 DEF Credits
  <2>2. /\ IsFiniteSet((k + 1)..MAXOPBLOCKS)
        /\ Cardinality((k + 1)..MAXOPBLOCKS) = MAXOPBLOCKS - k
    <3>1. k + 1 \in Int /\ MAXOPBLOCKS \in Int /\ k <= MAXOPBLOCKS
      BY <1>5, ConstantTypes
    <3>2. /\ IsFiniteSet((k + 1)..MAXOPBLOCKS)
          /\ Cardinality((k + 1)..MAXOPBLOCKS) =
               IF k + 1 > MAXOPBLOCKS THEN 0 ELSE MAXOPBLOCKS - (k + 1) + 1
      BY <3>1, FS_Interval
    <3>3. QED
      BY <3>1, <3>2, <1>5
  <2>3. IsFiniteSet({p}) /\ Cardinality({p}) = 1
    BY Zenon, FS_Singleton
  <2>4. Cardinality({p} \X ((k + 1)..MAXOPBLOCKS))
          = Cardinality({p}) * Cardinality((k + 1)..MAXOPBLOCKS)
    BY Zenon, <2>2, <2>3, FS_Product
  <2>5. Cardinality({p} \X ((k + 1)..MAXOPBLOCKS)) <= Cardinality(Credits)
    BY <1>2, <2>1, FS_Subset
  <2>6. QED
    BY <2>2, <2>3, <2>4, <2>5, <1>2, <1>5, ConstantTypes
<1>7. Len(lh) \in Nat /\ Len(lh) + Cardinality(Credits) <= LOGSIZE
  BY DEF IInv, TypeOK, SpaceInv
<1>8. QED
  BY <1>2, <1>3, <1>4, <1>5, <1>6, <1>7, ConstantTypes

(* log_write never panics: its two tests, and end_op's, are false.  *)
LEMMA LogWriteFits ==
  ASSUME LogFits, IInv, NEW p \in Proc, pc[p] = "op"
  PROVE  ~LogFull /\ ~OutsideTrans
<1>1. Len(lh) \in Nat /\ outstanding \in Nat
  BY DEF IInv, TypeOK
<1>2. QED
  BY <1>1, InOp, ConstantTypes DEF LogFits, LogFull, OutsideTrans

(* What log_write does when it does not panic.  *)
LEMMA LogWriteEffect ==
  ASSUME LogFits, IInv, NEW p \in Proc, NEW b \in Block, NEW v \in Val, LogWrite(p, b, v)
  PROVE  /\ cache' = [cache EXCEPT ![b] = v]
         /\ dirty' = dirty \cup {b}
         /\ \/ b \in Elems(lh) /\ lh' = lh
            \/ b \notin Elems(lh) /\ lh' = Append(lh, b)
         /\ wrote' = [wrote EXCEPT ![p] = @ \cup {b}]
         /\ panicked' = panicked
<1>1. ~(LogFull \/ OutsideTrans)
  BY SMTT(30), LogWriteFits DEF LogWrite
<1>2. QED
  BY <1>1 DEF LogWrite

-----------------------------------------------------------------------------
(* Types *)

(* Every step of the log, of the cache and of a crash keeps the types.  *)
LEMMA TypeStep ==
  ASSUME LogFits, IInv, [Next]_vars
  PROVE  TypeOK'
<1> USE DEF TypeOK, disk, bufs, log, procs, boot
<1> TypeOK
  BY DEF IInv
<1>1. ASSUME NEW p \in Proc, Call(p) PROVE TypeOK'
  BY <1>1 DEF Call
<1>2. ASSUME NEW p \in Proc, BeginOp(p) PROVE TypeOK'
  BY <1>2 DEF BeginOp
<1>3. ASSUME NEW p \in Proc, EndOp(p) PROVE TypeOK'
  <2>1. outstanding >= 1
    BY <1>3, InOp DEF EndOp
  <2>2. /\ outstanding' \in Nat /\ wrote' \in [Proc -> SUBSET Block] /\ tail' \in Nat
        /\ stage' \in {"run", "write_log", "install", "done", "read_head"}
    BY <1>3, <2>1 DEF EndOp
  <2>5. committing' \in BOOLEAN /\ panicked' \in BOOLEAN
    BY <1>3, Zenon DEF EndOp
  <2>3. pc' \in [Proc -> {"idle", "begin", "sleep", "op", "commit"}]
    BY <1>3 DEF EndOp, WakeLog
  <2>4. QED
    BY <1>3, <2>2, <2>3, <2>5 DEF EndOp
<1>4. ASSUME NEW p \in Proc, CommitDone(p) PROVE TypeOK'
  BY Zenon, <1>4 DEF CommitDone, WakeLog
<1>5. ASSUME NEW p \in Proc, NEW b \in Block, Bread(p, b) PROVE TypeOK'
  BY <1>5 DEF Bread
<1>6. ASSUME NEW p \in Proc, NEW b \in Block, Brelse(p, b) PROVE TypeOK'
  BY <1>6 DEF Brelse
<1>7. ASSUME NEW p \in Proc, NEW b \in Block, NEW v \in Val, LogWrite(p, b, v)
      PROVE TypeOK'
  <2>1. /\ cache' = [cache EXCEPT ![b] = v] /\ dirty' = dirty \cup {b}
        /\ lh' = lh \/ lh' = Append(lh, b)
        /\ wrote' = [wrote EXCEPT ![p] = @ \cup {b}] /\ panicked' = panicked
    BY <1>7, LogWriteEffect
  <2>2. lh' \in Seq(Block)
    BY ZenonT(30), <2>1, AppendFacts
  <2>3. QED
    BY <1>7, <2>1, <2>2 DEF LogWrite
<1>8. ASSUME NEW b \in Block, Recycle(b) PROVE TypeOK'
  BY <1>8 DEF Recycle
<1>9. CASE WriteLog
  <2>1. lh[tail + 1] \in Block
    BY <1>9 DEF WriteLog
  <2>2. logd' \in [1..(NLOG - 1) -> Val] /\ cache' \in [Block -> Val \cup {NoVal}]
    BY Zenon, <1>9, <2>1 DEF WriteLog
  <2>3. QED
    BY <1>9, <2>2 DEF WriteLog
<1>10. CASE WriteHead
  BY <1>10 DEF WriteHead
<1>11. CASE InstallTrans
  <2>1. lh[tail + 1] \in Block /\ tail + 1 \in 1..(NLOG - 1)
    BY <1>11, ConstantTypes DEF InstallTrans, IInv, SpaceInv
  <2>2. QED
    BY <1>11, <2>1 DEF InstallTrans
<1>12. CASE ClearLog
  BY Zenon, <1>12, EmptyFacts DEF ClearLog
<1>13. CASE ReadHead
  BY <1>13 DEF ReadHead
<1>14. CASE Crash
  BY Zenon, <1>14, EmptyFacts DEF Crash
<1>15. CASE UNCHANGED vars
  BY <1>15 DEF vars
<1>16. QED
  BY Zenon, <1>1, <1>2, <1>3, <1>4, <1>5, <1>6, <1>7, <1>8, <1>9, <1>10, <1>11, <1>12,
     <1>13, <1>14, <1>15 DEF Next, ProcStep, LogStep

-----------------------------------------------------------------------------
(* Space *)

(* The steps that change which processes are inside an operation.  *)
LEMMA ActiveStep ==
  ASSUME IInv, NEW p \in Proc
  PROVE  /\ Call(p) \/ CommitDone(p) => Active' = Active
         /\ BeginOp(p) /\ ~LogSpace => Active' = Active
         /\ BeginOp(p) /\ LogSpace => p \notin Active /\ Active' = Active \cup {p}
         /\ EndOp(p) => p \in Active /\ Active' = Active \ {p}
         /\ Crash => Active' = {}
<1>0. pc \in [Proc -> {"idle", "begin", "sleep", "op", "commit"}]
  BY DEF IInv, TypeOK
<1>1. Call(p) \/ CommitDone(p) => Active' = Active
  BY <1>0 DEF Call, CommitDone, WakeLog, Active
<1>2. BeginOp(p) /\ ~LogSpace => Active' = Active
  BY <1>0 DEF BeginOp, Active
<1>3. BeginOp(p) /\ LogSpace => p \notin Active /\ Active' = Active \cup {p}
  BY <1>0 DEF BeginOp, Active
<1>4. ASSUME EndOp(p) PROVE p \in Active /\ Active' = Active \ {p}
  <2>1. \A q \in Proc : pc'[q] = "op" <=> pc[q] = "op" /\ q # p
    BY <1>0, <1>4 DEF EndOp, WakeLog
  <2>2. QED
    BY <1>4, <2>1 DEF EndOp, Active
<1>5. Crash => Active' = {}
  BY DEF Crash, Active
<1>6. QED
  BY <1>1, <1>2, <1>3, <1>4, <1>5

(* A step that leaves the operations and the header in memory alone, and writes
   at most that header to disk, keeps SpaceInv.  *)
LEMMA SpaceFrame ==
  ASSUME IInv, Active' = Active, UNCHANGED <<outstanding, wrote, lh>>,
         head' = head \/ head' = lh
  PROVE  SpaceInv'
<1>1. Credits' = Credits
  BY DEF Credits
<1>2. \A p \in Proc : pc'[p] # "op" => wrote'[p] = {}
  BY DEF IInv, SpaceInv, Active
<1>3. Elems(lh)' = Elems(lh) /\ Len(lh)' = Len(lh)
  OBVIOUS
<1>4. Len(lh) <= LOGSIZE
  <2>1. Cardinality(Credits) \in Nat
    BY CreditsBound DEF Credits, Active
  <2>2. QED
    BY <2>1, ConstantTypes DEF IInv, TypeOK, SpaceInv
<1>5. Len(head') <= NLOG - 1 /\ Len(head') <= LOGSIZE
  BY <1>4 DEF IInv, SpaceInv
<1>6. QED
  BY <1>1, <1>2, <1>3, <1>5 DEF IInv, SpaceInv

(* A step after which no operation runs and the header in memory is one that
   fits keeps SpaceInv.  *)
LEMMA SpaceReset ==
  ASSUME IInv, Active' = {}, outstanding' = 0, wrote' = [p \in Proc |-> {}],
         lh' \in {<<>>, head}, head' \in {<<>>, head}
  PROVE  SpaceInv'
<1>1. Credits' = {}
  BY DEF Credits
<1>2. /\ outstanding' = Cardinality(Active')
      /\ Cardinality(Credits') = 0
  BY <1>1, FS_EmptySet
<1>3. /\ Len(lh') <= LOGSIZE /\ Len(lh') <= NLOG - 1
      /\ Len(head') <= LOGSIZE /\ Len(head') <= NLOG - 1
      /\ Len(lh') \in Nat
  BY EmptyFacts, ConstantTypes DEF IInv, SpaceInv, TypeOK
<1>4. \A p \in Proc : /\ wrote'[p] = {} /\ IsFiniteSet(wrote'[p])
                      /\ Cardinality(wrote'[p]) <= MaxWrites
  BY FS_EmptySet, ConstantTypes
<1>5. QED
  BY <1>2, <1>3, <1>4, ConstantTypes DEF SpaceInv

(* Outside operations the counters of the log are zero.  *)
LEMMA NoOps ==
  ASSUME IInv, Active = {}
  PROVE  outstanding = 0 /\ wrote = [p \in Proc |-> {}]
<1>1. outstanding = 0
  BY FS_EmptySet DEF IInv, SpaceInv
<1>2. \A p \in Proc : wrote[p] = {}
  BY DEF IInv, SpaceInv, Active
<1>3. QED
  BY <1>1, <1>2 DEF IInv, TypeOK

(* Commit and recovery run outside operations.  *)
LEMMA StagesExclude ==
  ASSUME IInv, stage # "run"
  PROVE  Active = {}
BY DEF IInv, ControlInv, TypeOK, Active, Up

\* begin_op reserves space for one operation, or waits.
LEMMA BeginOpSpace ==
  ASSUME LogFits, IInv, NEW p \in Proc, BeginOp(p)
  PROVE  SpaceInv'
<1> USE DEF disk, bufs, log, procs, boot
<1>0. /\ Active \subseteq Proc /\ IsFiniteSet(Active) /\ Cardinality(Active) \in Nat
      /\ IsFiniteSet(Credits) /\ Cardinality(Credits) \in Nat
      /\ outstanding = Cardinality(Active)
      /\ Len(lh) \in Nat /\ lh \in Seq(Block)
  <2>1. Active \in SUBSET Proc /\ Credits \in SUBSET (Active \X (1..MAXOPBLOCKS))
    BY DEF Active, Credits
  <2>2. QED
    BY <2>1, CreditsBound DEF IInv, TypeOK, SpaceInv
<1>1. CASE ~LogSpace
  BY <1>1, ActiveStep, SpaceFrame DEF BeginOp
<1>2. CASE LogSpace
  <2>1. /\ outstanding' = outstanding + 1 /\ lh' = lh /\ wrote' = wrote /\ head' = head
        /\ Len(lh) + (outstanding + 1) * MAXOPBLOCKS <= LOGSIZE
    BY <1>2 DEF BeginOp, LogSpace
  <2>2. p \notin Active /\ Active' = Active \cup {p}
    BY <1>2, ActiveStep
  <2>3. outstanding' = Cardinality(Active')
    BY Zenon, <1>0, <2>1, <2>2, FS_AddElement
  <2>4. Active' \in SUBSET Proc /\ Credits' \in SUBSET (Active' \X (1..MAXOPBLOCKS))
    BY DEF Active, Credits
  <2>5. Cardinality(Credits') \in Nat /\ Cardinality(Credits') <= (outstanding + 1) * MAXOPBLOCKS
    BY <2>1, <2>3, <2>4, CreditsBound
  <2>6. (outstanding + 1) * MAXOPBLOCKS \in Nat
    BY <1>0, ConstantTypes
  <2>7. Len(lh) + Cardinality(Credits') <= LOGSIZE
    BY <1>0, <2>1, <2>5, <2>6, ConstantTypes
  <2>8. \A q \in Proc : pc'[q] # "op" => wrote'[q] = {}
    BY <2>1, <2>2 DEF IInv, SpaceInv, Active
  <2>9. QED
    BY <2>1, <2>3, <2>7, <2>8 DEF IInv, SpaceInv, Elems
<1>3. QED
  BY <1>1, <1>2

\* end_op gives back what was not used.
LEMMA EndOpSpace ==
  ASSUME LogFits, IInv, NEW p \in Proc, EndOp(p)
  PROVE  SpaceInv'
<1> USE DEF disk, bufs, log, procs, boot
<1>0. /\ Active \subseteq Proc /\ IsFiniteSet(Active) /\ Cardinality(Active) \in Nat
      /\ IsFiniteSet(Credits) /\ Cardinality(Credits) \in Nat
      /\ outstanding = Cardinality(Active)
      /\ Len(lh) \in Nat /\ lh \in Seq(Block)
  <2>1. Active \in SUBSET Proc /\ Credits \in SUBSET (Active \X (1..MAXOPBLOCKS))
    BY DEF Active, Credits
  <2>2. QED
    BY <2>1, CreditsBound DEF IInv, TypeOK, SpaceInv
<1>1. p \in Active /\ Active' = Active \ {p}
  BY ActiveStep
<1>2. /\ outstanding' = outstanding - 1 /\ lh' = lh /\ head' = head
      /\ wrote' = [wrote EXCEPT ![p] = {}] /\ wrote \in [Proc -> SUBSET Block]
  BY DEF EndOp, IInv, TypeOK
<1>3. outstanding' = Cardinality(Active')
  BY Zenon, <1>0, <1>1, <1>2, FS_RemoveElement
<1>4. Credits' \subseteq Credits
  BY <1>1, <1>2 DEF Credits
<1>5. Cardinality(Credits') \in Nat /\ Cardinality(Credits') <= Cardinality(Credits)
  BY <1>0, <1>4, FS_Subset, FS_CardinalityType
<1>6. Len(lh') + Cardinality(Credits') <= LOGSIZE
  BY <1>0, <1>2, <1>5, ConstantTypes DEF IInv, SpaceInv
<1>7. \A q \in Proc : pc'[q] # "op" => wrote'[q] = {}
  BY <1>1, <1>2 DEF IInv, SpaceInv, Active
<1>8. \A q \in Proc : /\ wrote'[q] \subseteq Elems(lh')
                      /\ IsFiniteSet(wrote'[q]) /\ Cardinality(wrote'[q]) <= MaxWrites
  BY <1>2, FS_EmptySet, ConstantTypes DEF IInv, SpaceInv
<1>9. QED
  BY <1>2, <1>3, <1>6, <1>7, <1>8 DEF IInv, SpaceInv

\* log_write uses one of the reserved blocks, or none if the block is logged.
LEMMA LogWriteSpace ==
  ASSUME LogFits, IInv, NEW p \in Proc, NEW b \in Block, NEW v \in Val, LogWrite(p, b, v)
  PROVE  SpaceInv'
<1> USE DEF disk, bufs, log, procs, boot
<1>0. /\ Active \subseteq Proc /\ IsFiniteSet(Active) /\ Cardinality(Active) \in Nat
      /\ IsFiniteSet(Credits) /\ Cardinality(Credits) \in Nat
      /\ outstanding = Cardinality(Active)
      /\ Len(lh) \in Nat /\ lh \in Seq(Block)
  <2>1. Active \in SUBSET Proc /\ Credits \in SUBSET (Active \X (1..MAXOPBLOCKS))
    BY DEF Active, Credits
  <2>2. QED
    BY <2>1, CreditsBound DEF IInv, TypeOK, SpaceInv
<1> DEFINE k == Cardinality(wrote[p])
<1>1. /\ \/ b \in Elems(lh) /\ lh' = lh
         \/ b \notin Elems(lh) /\ lh' = Append(lh, b)
      /\ wrote' = [wrote EXCEPT ![p] = @ \cup {b}]
  BY LogWriteEffect
<1>2. /\ b \in wrote[p] \/ k < MaxWrites
      /\ pc[p] = "op" /\ pc' = pc /\ outstanding' = outstanding /\ head' = head
      /\ wrote \in [Proc -> SUBSET Block]
  BY DEF LogWrite, IInv, TypeOK
<1>3. Active' = Active /\ p \in Active
  BY <1>2 DEF Active
<1>4. /\ k \in 0..MaxWrites /\ wrote[p] \subseteq Elems(lh) /\ IsFiniteSet(wrote[p])
      /\ Len(lh) + (MAXOPBLOCKS - k) <= LOGSIZE
  BY <1>2, InOp DEF IInv, SpaceInv
<1>5. /\ IsFiniteSet(wrote'[p])
      /\ Cardinality(wrote'[p]) = IF b \in wrote[p] THEN k ELSE k + 1
  BY <1>1, <1>2, <1>4, FS_AddElement
<1>6. Elems(lh') = Elems(lh) \cup {b} /\ Len(lh') \in Nat
  <2>1. CASE b \in Elems(lh) /\ lh' = lh
    <3>1. Elems(lh) = Elems(lh) \cup {b}
      BY <2>1
    <3>2. QED
      BY <1>0, <2>1, <3>1
  <2>2. CASE lh' = Append(lh, b)
    BY <1>0, <2>2, AppendFacts
  <2>3. QED
    BY <1>1, <2>1, <2>2
<1>7. \A q \in Proc : /\ wrote'[q] \subseteq Elems(lh')
                      /\ IsFiniteSet(wrote'[q]) /\ Cardinality(wrote'[q]) <= MaxWrites
                      /\ pc'[q] # "op" => wrote'[q] = {}
  <2>1. TAKE q \in Proc
  <2>2. CASE q = p
    BY <1>1, <1>2, <1>4, <1>5, <1>6, <2>2, ConstantTypes
  <2>3. CASE q # p
    BY <1>1, <1>2, <1>6, <2>3 DEF IInv, SpaceInv
  <2>4. QED
    BY <2>2, <2>3
<1>8. Credits' \subseteq Credits
  <2>1. \A q \in Proc : Cardinality(wrote[q]) <= Cardinality(wrote'[q])
    <3>1. \A q \in Proc : Cardinality(wrote[q]) \in Nat
      BY FS_CardinalityType DEF IInv, SpaceInv
    <3>2. QED
      BY <1>1, <1>2, <1>4, <1>5, <3>1
  <2>2. \A q \in Proc : Cardinality(wrote[q]) \in Nat /\ Cardinality(wrote'[q]) \in Nat
    BY Zenon, <1>7, FS_CardinalityType DEF IInv, SpaceInv
  <2>3. QED
    BY <1>3, <2>1, <2>2, ConstantTypes DEF Credits
<1>9. Cardinality(Credits') \in Nat /\ Cardinality(Credits') <= Cardinality(Credits)
  BY <1>0, <1>8, FS_Subset, FS_CardinalityType
<1>10. Len(lh') + Cardinality(Credits') <= LOGSIZE /\ Len(lh') <= NLOG - 1
  <2>1. CASE b \in Elems(lh)
    BY <1>0, <1>1, <1>9, <2>1, ConstantTypes DEF IInv, SpaceInv
  <2>2. CASE b \notin Elems(lh)
    <3>1. b \notin wrote[p] /\ k + 1 <= MaxWrites
      BY <1>2, <1>4, <2>2, ConstantTypes
    <3>2. Len(lh') = Len(lh) + 1
      BY <1>0, <1>1, <2>2, AppendFacts
    <3>3. <<p, k + 1>> \in Credits /\ <<p, k + 1>> \notin Credits'
      BY <1>3, <1>4, <1>5, <3>1, ConstantTypes DEF Credits
    <3>4. Credits' \in SUBSET (Credits \ {<<p, k + 1>>})
      BY <1>8, <3>3
    <3>5. /\ IsFiniteSet(Credits \ {<<p, k + 1>>})
          /\ Cardinality(Credits \ {<<p, k + 1>>}) = Cardinality(Credits) - 1
      BY <1>0, <3>3, FS_RemoveElement
    <3>6. Cardinality(Credits') <= Cardinality(Credits) - 1
      BY <3>4, <3>5, FS_Subset
    <3>7. ~LogFull
      BY <1>2, LogWriteFits
    <3>8. QED
      BY <1>0, <1>9, <3>2, <3>6, <3>7, ConstantTypes DEF IInv, SpaceInv, LogFull
  <2>3. QED
    BY <2>1, <2>2
<1>11. QED
  BY Zenon, <1>2, <1>3, <1>7, <1>10 DEF IInv, SpaceInv

(* begin_op, log_write, end_op, commit, recovery and a crash keep the space
   accounts: what is logged and what is promised fits the log.  *)
LEMMA SpaceStep ==
  ASSUME LogFits, IInv, [Next]_vars
  PROVE  SpaceInv'
<1> USE DEF disk, bufs, log, procs, boot
<1>0. /\ Active \subseteq Proc /\ IsFiniteSet(Active) /\ Cardinality(Active) \in Nat
      /\ IsFiniteSet(Credits) /\ Cardinality(Credits) \in Nat
      /\ outstanding = Cardinality(Active)
      /\ Len(lh) \in Nat /\ lh \in Seq(Block)
  <2>1. Active \in SUBSET Proc /\ Credits \in SUBSET (Active \X (1..MAXOPBLOCKS))
    BY DEF Active, Credits
  <2>2. QED
    BY <2>1, CreditsBound DEF IInv, TypeOK, SpaceInv
<1>1. ASSUME NEW p \in Proc, Call(p) PROVE SpaceInv'
  BY Zenon, <1>1, ActiveStep, SpaceFrame DEF Call
<1>2. ASSUME NEW p \in Proc, BeginOp(p) PROVE SpaceInv'
  BY Zenon, <1>2, BeginOpSpace
<1>3. ASSUME NEW p \in Proc, EndOp(p) PROVE SpaceInv'
  BY Zenon, <1>3, EndOpSpace
<1>4. ASSUME NEW p \in Proc, CommitDone(p) PROVE SpaceInv'
  BY ZenonT(30), <1>4, ActiveStep, SpaceFrame DEF CommitDone
<1>5. ASSUME NEW p \in Proc, NEW b \in Block, Bread(p, b) \/ Brelse(p, b)
      PROVE SpaceInv'
  BY Zenon, <1>5, SpaceFrame DEF Bread, Brelse, Active
<1>6. ASSUME NEW b \in Block, Recycle(b) PROVE SpaceInv'
  BY <1>6, SpaceFrame DEF Recycle, Active
<1>7. ASSUME NEW p \in Proc, NEW b \in Block, NEW v \in Val, LogWrite(p, b, v)
      PROVE SpaceInv'
  BY Zenon, <1>7, LogWriteSpace
<1>9. CASE WriteLog \/ WriteHead \/ InstallTrans
  BY <1>9, SpaceFrame DEF WriteLog, WriteHead, InstallTrans, Active
<1>12. CASE ClearLog \/ ReadHead
  <2>1. Active = {} /\ Active' = {}
    BY <1>12, StagesExclude DEF ClearLog, ReadHead, Active
  <2>2. outstanding' = 0 /\ wrote' = [p \in Proc |-> {}]
    BY <1>12, <2>1, NoOps DEF ClearLog, ReadHead
  <2>3. lh' \in {<<>>, head} /\ head' \in {<<>>, head}
    BY <1>12 DEF ClearLog, ReadHead
  <2>4. QED
    BY <2>1, <2>2, <2>3, SpaceReset
<1>14. CASE Crash
  BY <1>14, SpaceReset DEF Crash, Active
<1>15. CASE UNCHANGED vars
  BY <1>15, SpaceFrame DEF vars, Active
<1>16. QED
  BY <1>1, <1>2, <1>3, <1>4, <1>5, <1>6, <1>7, <1>9, <1>12, <1>14, <1>15
     DEF Next, ProcStep, LogStep

-----------------------------------------------------------------------------
(* Control *)

\* begin_op enters only when nothing is committed.
LEMMA BeginOpControl ==
  ASSUME LogFits, IInv, NEW p \in Proc, BeginOp(p)
  PROVE  ControlInv'
<1> USE DEF ControlInv, Up, disk, bufs, log, procs, boot
<1> ControlInv /\ TypeOK
  BY DEF IInv
<1>1. Up /\ UNCHANGED <<committing, stage, tail, booting, lh, dirty, panicked>>
  BY DEF BeginOp
<1>2. CASE LogSpace
  <2>1. Active' # {} /\ ~committing
    BY <1>2, ActiveStep DEF LogSpace
  <2>2. QED
    BY <1>1, <2>1
<1>3. CASE ~LogSpace
  BY <1>1, <1>3, ActiveStep
<1>4. QED
  BY <1>2, <1>3

\* The last end_op starts the commit.
LEMMA EndOpControl ==
  ASSUME LogFits, IInv, NEW p \in Proc, EndOp(p)
  PROVE  ControlInv'
<1> USE DEF ControlInv, Up, disk, bufs, log, procs, boot
<1> ControlInv /\ TypeOK
  BY DEF IInv
<1>1. Up /\ ~committing
  BY InOp DEF EndOp
<1>2. outstanding' = 0 <=> Active' = {}
  <2>1. Active' \subseteq Proc /\ IsFiniteSet(Active')
    BY ConstantTypes, FS_Subset DEF Active
  <2>2. outstanding' = Cardinality(Active')
    BY Zenon, EndOpSpace DEF SpaceInv
  <2>3. QED
    BY <2>1, <2>2, FS_EmptySet
<1>3. ~panicked' /\ booting' = booting /\ lh' = lh
  BY <1>1 DEF EndOp
<1>4. CASE outstanding' = 0
  <2>1. committing' /\ stage' \in {"write_log", "done"} /\ tail' = 0
    BY ZenonT(30), <1>4 DEF EndOp
  <2>2. QED
    BY <1>1, <1>2, <1>3, <1>4, <2>1 DEF TypeOK
<1>5. CASE outstanding' # 0
  <2>1. UNCHANGED <<committing, stage, tail>>
    BY <1>5 DEF EndOp
  <2>2. QED
    BY <1>1, <1>2, <1>3, <1>5, <2>1
<1>6. QED
  BY <1>4, <1>5

\* log_write is inside an operation and does not panic.
LEMMA LogWriteControl ==
  ASSUME LogFits, IInv, NEW p \in Proc, NEW b \in Block, NEW v \in Val, LogWrite(p, b, v)
  PROVE  ControlInv'
<1> USE DEF ControlInv, Up, disk, bufs, log, procs, boot
<1> ControlInv /\ TypeOK
  BY DEF IInv
<1>1. /\ Active' = Active /\ p \in Active /\ Up
      /\ UNCHANGED <<committing, stage, tail, booting>>
  BY InOp DEF LogWrite, Active
<1>2. Len(lh') >= Len(lh) /\ panicked' = panicked
  BY LogWriteEffect, AppendFacts DEF TypeOK
<1>3. tail' <= Len(lh')
  <2>1. Len(lh) \in Nat /\ Len(lh') \in Nat
    BY TypeStep DEF TypeOK
  <2>2. QED
    BY <1>1, <1>2, <2>1 DEF TypeOK
<1>4. QED
  BY <1>1, <1>2, <1>3

(* Every step keeps commit and recovery apart from operations, and from panic.  *)
LEMMA ControlStep ==
  ASSUME LogFits, IInv, [Next]_vars
  PROVE  ControlInv'
<1> USE DEF ControlInv, Up, disk, bufs, log, procs, boot
<1> ControlInv /\ TypeOK
  BY DEF IInv
<1>1. ASSUME NEW p \in Proc, Call(p) PROVE ControlInv'
  BY Zenon, <1>1, ActiveStep DEF Call
<1>2. ASSUME NEW p \in Proc, BeginOp(p) PROVE ControlInv'
  BY Zenon, <1>2, BeginOpControl
<1>3. ASSUME NEW p \in Proc, EndOp(p) PROVE ControlInv'
  BY Zenon, <1>3, EndOpControl
<1>4. ASSUME NEW p \in Proc, CommitDone(p) PROVE ControlInv'
  <2>1. lh = <<>>
    BY Zenon, <1>4 DEF CommitDone, IInv, DataInv
  <2>2. QED
    BY <1>4, <2>1, ActiveStep DEF CommitDone
<1>5. ASSUME NEW p \in Proc, NEW b \in Block, Bread(p, b) \/ Brelse(p, b)
      PROVE ControlInv'
  <2>1. UNCHANGED <<panicked, committing, stage, tail, booting, lh, dirty, pc>>
    BY <1>5 DEF Bread, Brelse
  <2>2. Active' = Active
    BY <2>1 DEF Active
  <2>3. QED
    BY <2>1, <2>2
<1>6. ASSUME NEW b \in Block, Recycle(b) PROVE ControlInv'
  <2>1. UNCHANGED <<panicked, committing, stage, tail, booting, lh, dirty, pc>>
    BY <1>6 DEF Recycle
  <2>2. Active' = Active
    BY <2>1 DEF Active
  <2>3. QED
    BY <2>1, <2>2
<1>7. ASSUME NEW p \in Proc, NEW b \in Block, NEW v \in Val, LogWrite(p, b, v)
      PROVE ControlInv'
  BY Zenon, <1>7, LogWriteControl
<1>9. CASE WriteLog
  BY <1>9 DEF WriteLog, TypeOK, Active
<1>10. CASE WriteHead
  BY <1>10 DEF WriteHead, TypeOK, Active
<1>11. CASE InstallTrans
  BY <1>11 DEF InstallTrans, TypeOK, Active
<1>12. CASE ClearLog
  <2>1. Active = {} /\ Active' = {}
    BY <1>12, StagesExclude DEF ClearLog, Active
  <2>2. QED
    BY <1>12, <2>1, EmptyFacts DEF ClearLog
<1>13. CASE ReadHead
  BY <1>13 DEF ReadHead, TypeOK, Active
<1>14. CASE Crash
  BY <1>14, EmptyFacts DEF Crash, Active
<1>15. CASE UNCHANGED vars
  BY <1>15 DEF vars, Active
<1>16. QED
  BY ZenonT(30), <1>1, <1>2, <1>3, <1>4, <1>5, <1>6, <1>7, <1>9, <1>10, <1>11, <1>12, <1>13, <1>14,
     <1>15 DEF Next, ProcStep, LogStep

-----------------------------------------------------------------------------
(* Data *)

\* end_op changes no block, and starts the commit of the last operation.
LEMMA EndOpData ==
  ASSUME LogFits, IInv, NEW p \in Proc, EndOp(p)
  PROVE  DataInv'
<1> USE DEF disk, bufs, log, procs, boot
<1> DataInv /\ TypeOK /\ ControlInv
  BY DEF IInv
<1>1. stage = "run" /\ Up
  BY InOp DEF EndOp, ControlInv, TypeOK, Up
<1>2. UNCHANGED <<home, logd, head, cache, dirty, lh, booting>>
  BY DEF EndOp
<1>3. stage' \in {"run", "write_log", "done"} /\ (stage' = "write_log" => tail' = 0)
      /\ (stage' = "done" => lh = <<>>)
  BY <1>1 DEF EndOp
<1>4. QED
  BY <1>1, <1>2, <1>3, EmptyFacts DEF DataInv

\* bread reads a block that has no buffer from its home.
LEMMA BreadData ==
  ASSUME LogFits, IInv, NEW p \in Proc, NEW b \in Block, Bread(p, b)
  PROVE  DataInv'
<1> USE DEF disk, bufs, log, procs, boot
<1> DataInv /\ TypeOK /\ ControlInv
  BY DEF IInv
<1>1. /\ UNCHANGED <<home, logd, head, dirty, lh, stage, tail, booting>>
      /\ \A c \in Block : cache[c] # NoVal => cache'[c] = cache[c]
      /\ \A c \in Block : cache[c] = NoVal => cache'[c] = NoVal \/ cache'[c] = home[c]
  BY DEF Bread, TypeOK
<1>2. \A c \in dirty : c \in Block /\ cache[c] # NoVal
  BY DEF DataInv, TypeOK
<1>3. /\ stage = "write_log" => \A i \in 1..tail : lh[i] \in dirty
      /\ stage = "install" /\ Up => \A i \in (tail + 1)..Len(lh) : lh[i] \in dirty
  BY SMTT(30) DEF DataInv, TypeOK, ControlInv, Elems, Rest
<1>4. \A c \in dirty : cache'[c] = cache[c]
  BY <1>1, <1>2
<1>5. \A c \in Block : c \notin dirty /\ cache'[c] # NoVal => cache'[c] = home[c]
  BY <1>1 DEF DataInv
<1>6. stage = "write_log" => \A i \in 1..tail : logd[i] = cache'[lh[i]]
  BY Zenon, <1>3, <1>4 DEF DataInv
<1>7. stage = "install" /\ Up => \A i \in (tail + 1)..Len(lh) : cache'[lh[i]] = logd[i]
  BY <1>3, <1>4 DEF DataInv
<1>8. QED
  BY Zenon, <1>1, <1>2, <1>4, <1>5, <1>6, <1>7 DEF DataInv, Up

\* log_write marks the buffer dirty and lists its block in the header.
LEMMA LogWriteData ==
  ASSUME LogFits, IInv, NEW p \in Proc, NEW b \in Block, NEW v \in Val, LogWrite(p, b, v)
  PROVE  DataInv'
<1> USE DEF disk, bufs, log, procs, boot
<1> DataInv /\ TypeOK /\ ControlInv
  BY DEF IInv
<1>1. stage = "run" /\ Up
  BY InOp DEF LogWrite, ControlInv, TypeOK, Up
<1>2. /\ cache' = [cache EXCEPT ![b] = v] /\ dirty' = dirty \cup {b}
      /\ \/ b \in Elems(lh) /\ lh' = lh
         \/ b \notin Elems(lh) /\ lh' = Append(lh, b)
  BY LogWriteEffect
<1>3. UNCHANGED <<home, logd, head, stage, tail, booting>>
  BY DEF LogWrite
<1>4. Distinct(lh') /\ Elems(lh') = Elems(lh) \cup {b}
  <2>1. CASE b \in Elems(lh) /\ lh' = lh
    <3>1. Elems(lh) = Elems(lh) \cup {b}
      BY <2>1
    <3>2. QED
      BY Zenon, <2>1, <3>1 DEF DataInv
  <2>2. CASE b \notin Elems(lh) /\ lh' = Append(lh, b)
    BY Zenon, <2>2, AppendFacts DEF DataInv, TypeOK
  <2>3. QED
    BY <1>2, <2>1, <2>2
<1>5. \A c \in dirty' : cache'[c] # NoVal
  BY <1>2, ConstantTypes DEF DataInv, TypeOK
<1>6. \A c \in Block : c \notin dirty' /\ cache'[c] # NoVal => cache'[c] = home'[c]
  BY SMTT(30), <1>2, <1>3 DEF DataInv, TypeOK
<1>7. dirty' = Elems(lh')
  BY Zenon, <1>1, <1>2, <1>4 DEF DataInv
<1>8. stage' = "run" /\ head' = <<>> /\ Distinct(head')
  BY Zenon, <1>1, <1>3 DEF DataInv
<1>9. QED
  BY Zenon, <1>4, <1>5, <1>6, <1>7, <1>8 DEF DataInv

\* A buffer that is not dirty may be dropped.
LEMMA RecycleData ==
  ASSUME LogFits, IInv, NEW b \in Block, Recycle(b)
  PROVE  DataInv'
<1> USE DEF disk, bufs, log, procs, boot
<1> DataInv /\ TypeOK /\ ControlInv
  BY DEF IInv
<1>1. /\ UNCHANGED <<home, logd, head, dirty, lh, stage, tail, booting>>
      /\ \A c \in dirty : cache'[c] = cache[c]
      /\ \A c \in Block : cache'[c] = NoVal \/ cache'[c] = cache[c]
  BY DEF Recycle, TypeOK
<1>2. /\ stage = "write_log" => \A i \in 1..tail : lh[i] \in dirty
      /\ stage = "install" /\ Up => \A i \in (tail + 1)..Len(lh) : lh[i] \in dirty
  BY SMTT(30) DEF DataInv, TypeOK, ControlInv, Elems, Rest
<1>3. QED
  BY ZenonT(30), <1>1, <1>2 DEF DataInv, Up

\* write_log copies the next buffer to the log.
LEMMA WriteLogData ==
  ASSUME LogFits, IInv, WriteLog
  PROVE  DataInv'
<1> USE DEF disk, bufs, log, procs, boot
<1> DataInv /\ TypeOK /\ ControlInv
  BY DEF IInv
<1> DEFINE b == lh[tail + 1]
<1>1. b \in dirty /\ b \in Block /\ tail + 1 \in 1..(NLOG - 1)
  <2>1. stage = "write_log" /\ tail < Len(lh)
    BY Zenon DEF WriteLog
  <2>2. dirty = Elems(lh) /\ Len(lh) <= NLOG - 1
    BY Zenon, <2>1 DEF DataInv, IInv, SpaceInv
  <2>3. tail \in Nat /\ lh \in Seq(Block)
    BY Zenon DEF TypeOK
  <2>4. QED
    BY <2>1, <2>2, <2>3, ConstantTypes DEF Elems
<1>2. cache[b] # NoVal
  BY <1>1 DEF DataInv
<1>3. /\ UNCHANGED <<home, head, dirty, lh, stage, booting>> /\ tail' = tail + 1
      /\ cache' = cache /\ logd' = [logd EXCEPT ![tail + 1] = cache[b]]
      /\ stage = "write_log"
  BY Zenon, <1>2 DEF WriteLog, TypeOK
<1>4. \A i \in 1..tail' : logd'[i] = cache'[lh'[i]]
  BY SMTT(30), <1>1, <1>3 DEF DataInv, TypeOK
<1>5. QED
  BY Zenon, <1>3, <1>4 DEF DataInv

\* Once all are copied, write_head makes the log the place of the latest contents.
LEMMA WriteHeadData ==
  ASSUME LogFits, IInv, WriteHead
  PROVE  DataInv'
<1> USE DEF disk, bufs, log, procs, boot
<1> DataInv /\ TypeOK /\ ControlInv
  BY DEF IInv
<1>1. /\ UNCHANGED <<home, logd, cache, dirty, lh, booting>>
      /\ head' = lh /\ stage' = "install" /\ tail' = 0
      /\ stage = "write_log" /\ tail = Len(lh)
  BY SMTT(30) DEF WriteHead
<1>2. \A i \in 1..Len(lh) : cache[lh[i]] = logd[i]
  BY Zenon, <1>1 DEF DataInv
<1>3. dirty = Elems(lh)
  BY Zenon, <1>1 DEF DataInv
<1>4. dirty' = Rest(lh', tail')
  BY <1>1, <1>3 DEF Elems, Rest
<1>5. /\ \A i \in 1..tail' : home'[lh'[i]] = logd'[i]
      /\ \A i \in (tail' + 1)..Len(lh') : cache'[lh'[i]] = logd'[i]
  BY <1>1, <1>2
<1>6. QED
  BY Zenon, <1>1, <1>4, <1>5 DEF DataInv

\* install_trans copies the next block home.
LEMMA InstallData ==
  ASSUME LogFits, IInv, InstallTrans
  PROVE  DataInv'
<1> USE DEF disk, bufs, log, procs, boot
<1> DataInv /\ TypeOK /\ ControlInv
  BY DEF IInv
<1> DEFINE b == lh[tail + 1]
<1>1. b \in Block /\ tail + 1 \in 1..Len(lh) /\ logd[tail + 1] \in Val
  <2>1. tail < Len(lh) /\ Len(lh) <= NLOG - 1
    BY Zenon DEF InstallTrans, IInv, SpaceInv
  <2>2. tail \in Nat /\ lh \in Seq(Block) /\ logd \in [1..(NLOG - 1) -> Val]
    BY Zenon DEF TypeOK
  <2>3. QED
    BY <2>1, <2>2, ConstantTypes
<1>2. /\ UNCHANGED <<logd, head, lh, stage, booting>> /\ tail' = tail + 1
      /\ home' = [home EXCEPT ![b] = logd[tail + 1]]
      /\ cache' = [cache EXCEPT ![b] = logd[tail + 1]]
      /\ dirty' = dirty \ {b} /\ stage = "install" /\ head = lh
  BY Zenon DEF InstallTrans, DataInv
<1>3. \A i \in 1..Len(lh) : i # tail + 1 => lh[i] # b /\ lh[i] \in Block
  BY <1>1 DEF DataInv, Distinct, TypeOK
<1>4. \A i \in 1..tail' : home'[lh'[i]] = logd'[i]
  <2>1. ASSUME NEW i \in 1..tail' PROVE home'[lh'[i]] = logd'[i]
    <3>1. i \in 1..tail \/ i = tail + 1
      BY <1>2 DEF TypeOK
    <3>2. i \in 1..Len(lh)
      BY <1>1, <3>1 DEF TypeOK
    <3>3. QED
      BY Zenon, <1>1, <1>2, <1>3, <3>1, <3>2 DEF DataInv, TypeOK
  <2>2. QED
    BY Zenon, <2>1
<1>5. \A c \in dirty' : cache'[c] # NoVal
  BY Zenon, <1>2 DEF DataInv, TypeOK
<1>6. \A c \in Block : c \notin dirty' /\ cache'[c] # NoVal => cache'[c] = home'[c]
  BY <1>1, <1>2 DEF DataInv, TypeOK
<1>7. ASSUME Up
      PROVE  /\ dirty' = {lh[i] : i \in (tail + 1 + 1)..Len(lh)}
             /\ \A i \in (tail + 1 + 1)..Len(lh) : cache'[lh[i]] = logd[i]
  <2>1. dirty = {lh[i] : i \in (tail + 1)..Len(lh)}
    BY <1>2, <1>7 DEF DataInv, Rest
  <2>2. \A i \in (tail + 1)..Len(lh) : i = tail + 1 \/ i \in (tail + 1 + 1)..Len(lh)
    BY DEF TypeOK
  <2>3. \A i \in (tail + 1 + 1)..Len(lh) :
          i \in (tail + 1)..Len(lh) /\ i \in 1..Len(lh) /\ i # tail + 1
    BY DEF TypeOK
  <2>4. dirty' = {lh[i] : i \in (tail + 1 + 1)..Len(lh)}
    BY SMTT(30), <1>2, <1>3, <2>1, <2>2, <2>3
  <2>5. \A i \in (tail + 1 + 1)..Len(lh) : cache'[lh[i]] = logd[i]
    BY SMTT(30), <1>2, <1>3, <1>7, <2>3 DEF DataInv, TypeOK
  <2>6. QED
    BY <2>4, <2>5
<1>8. QED
  BY SMTT(30), <1>2, <1>4, <1>5, <1>6, <1>7 DEF DataInv, Up, Rest

\* Once all are home the header is erased.
LEMMA ClearData ==
  ASSUME LogFits, IInv, ClearLog
  PROVE  DataInv'
<1> USE DEF disk, bufs, log, procs, boot
<1> DataInv /\ TypeOK /\ ControlInv
  BY DEF IInv
<1>1. dirty = {}
  BY SMTT(30) DEF ClearLog, DataInv, ControlInv, Up, TypeOK, Rest
<1>2. QED
  BY Zenon, <1>1, EmptyFacts DEF ClearLog, DataInv

(* Every step keeps the account of where the latest contents of a block are:
   in its buffer, in the log on disk or in its home block.  *)
LEMMA DataStep ==
  ASSUME LogFits, IInv, [Next]_vars
  PROVE  DataInv'
<1> USE DEF disk, bufs, log, procs, boot
<1> DataInv /\ TypeOK /\ ControlInv
  BY DEF IInv
<1>1. ASSUME NEW p \in Proc, Call(p) \/ BeginOp(p) PROVE DataInv'
  BY ZenonT(30), <1>1 DEF Call, BeginOp, DataInv, Up
<1>3. ASSUME NEW p \in Proc, EndOp(p) PROVE DataInv'
  BY Zenon, <1>3, EndOpData
<1>4. ASSUME NEW p \in Proc, CommitDone(p) PROVE DataInv'
  BY Zenon, <1>4, EmptyFacts DEF CommitDone, DataInv
<1>5. ASSUME NEW p \in Proc, NEW b \in Block, Bread(p, b) PROVE DataInv'
  BY Zenon, <1>5, BreadData
<1>6. ASSUME NEW p \in Proc, NEW b \in Block, Brelse(p, b) PROVE DataInv'
  BY Zenon, <1>6 DEF Brelse, DataInv, Up
<1>7. ASSUME NEW p \in Proc, NEW b \in Block, NEW v \in Val, LogWrite(p, b, v)
      PROVE DataInv'
  BY Zenon, <1>7, LogWriteData
<1>8. ASSUME NEW b \in Block, Recycle(b) PROVE DataInv'
  BY Zenon, <1>8, RecycleData
<1>9. CASE WriteLog
  BY Zenon, <1>9, WriteLogData
<1>10. CASE WriteHead
  BY Zenon, <1>10, WriteHeadData
<1>11. CASE InstallTrans
  BY Zenon, <1>11, InstallData
<1>12. CASE ClearLog
  BY Zenon, <1>12, ClearData
<1>13. CASE ReadHead
  BY SMTT(30), <1>13 DEF ReadHead, DataInv, ControlInv, Up
<1>14. CASE Crash
  BY Zenon, <1>14, EmptyFacts DEF Crash, DataInv
<1>15. CASE UNCHANGED vars
  BY Zenon, <1>15 DEF vars, DataInv, Up
<1>16. QED
  BY SMTT(30), <1>1, <1>3, <1>4, <1>5, <1>6, <1>7, <1>8, <1>9, <1>10, <1>11, <1>12, <1>13, <1>14,
     <1>15 DEF Next, ProcStep, LogStep

-----------------------------------------------------------------------------
(* Invariance *)

(* The first boot from what mkfs wrote satisfies the invariant.  *)
LEMMA InitInv == Init => IInv
<1> SUFFICES ASSUME Init PROVE IInv
  OBVIOUS
<1>1. TypeOK
  BY ZenonT(30), EmptyFacts, ConstantTypes DEF Init, TypeOK
<1>2. Active = {} /\ Credits = {}
  BY DEF Init, Active, Credits
<1>3. SpaceInv
  BY <1>2, FS_EmptySet, EmptyFacts, ConstantTypes DEF Init, SpaceInv
<1>4. ControlInv
  BY EmptyFacts DEF Init, ControlInv, Up
<1>5. DataInv
  BY EmptyFacts DEF Init, DataInv
<1>6. QED
  BY <1>1, <1>3, <1>4, <1>5 DEF IInv

(* IInv holds in every reachable state of log.c, for every number of processes
   and blocks, when operations write few enough blocks.  *)
THEOREM Invariance ==
  ASSUME LogFits
  PROVE  Spec => []IInv
<1>1. IInv /\ [Next]_vars => IInv'
  BY TypeStep, SpaceStep, ControlStep, DataStep DEF IInv
<1>2. QED
  BY InitInv, <1>1, PTL DEF Spec

(* log_write and end_op never panic: begin_op's admission test suffices.  *)
THEOREM NeverPanics ==
  ASSUME LogFits
  PROVE  Spec => []NoPanic
<1>1. IInv => NoPanic
  BY DEF IInv, ControlInv, NoPanic
<1>2. QED
  BY Invariance, <1>1, PTL

(* Recycling a buffer in bget never loses an update.  *)
THEOREM RecyclingIsSafe ==
  ASSUME LogFits
  PROVE  Spec => []CleanIsOnDisk
<1>1. IInv => CleanIsOnDisk
  BY DEF IInv, DataInv, CleanIsOnDisk
<1>2. QED
  BY Invariance, <1>1, PTL

(* Once no operation runs and none is being committed, the disk is up to date
   and the log on it is empty.  *)
THEOREM QuiescenceIsDurable ==
  ASSUME LogFits
  PROVE  Spec => []QuiescentIsDurable
<1>1. IInv => QuiescentIsDurable
  <2> SUFFICES ASSUME IInv, Up, outstanding = 0, ~committing
               PROVE  dirty = {} /\ head = <<>> /\ Recovered = View
    BY DEF QuiescentIsDurable
  <2>1. stage = "run"
    BY DEF IInv, ControlInv, TypeOK
  <2>2. Active = {}
    <3>1. Active \subseteq Proc /\ IsFiniteSet(Active)
      BY ConstantTypes, FS_Subset DEF Active
    <3>2. QED
      BY ZenonT(30), <3>1, FS_EmptySet DEF IInv, SpaceInv
  <2>3. dirty = {} /\ head = <<>>
    BY Zenon, <2>1, <2>2, EmptyFacts DEF IInv, ControlInv, DataInv
  <2>4. Recovered = [b \in Block |-> home[b]]
    BY SMTT(30), <2>3 DEF Recovered
  <2>5. View = [b \in Block |-> home[b]]
    BY <2>3 DEF View, Up, IInv, DataInv
  <2>6. QED
    BY <2>3, <2>4, <2>5
<1>2. QED
  BY Invariance, <1>1, PTL

-----------------------------------------------------------------------------
(* Refinement *)

(* The header lists a block once, so its entry tells where its contents are.  *)
LEMMA EntryOf ==
  ASSUME NEW s \in Seq(Block), Distinct(s), NEW i \in 1..Len(s)
  PROVE  (CHOOSE j \in 1..Len(s) : s[j] = s[i]) = i
<1>1. \A j \in 1..Len(s) : s[j] = s[i] => j = i
  BY DEF Distinct
<1>2. QED
  BY <1>1

(* What recovery makes of a block, by whether the header lists it.  *)
LEMMA RecoveredFacts ==
  ASSUME IInv
  PROVE  /\ \A i \in 1..Len(head) : head[i] \in Block /\ Recovered[head[i]] = logd[i]
         /\ \A b \in Block : b \notin Elems(head) => Recovered[b] = home[b]
<1>1. head \in Seq(Block) /\ Distinct(head)
  BY Zenon DEF IInv, TypeOK, DataInv
<1>2. ASSUME NEW i \in 1..Len(head)
      PROVE  head[i] \in Block /\ Recovered[head[i]] = logd[i]
  <2>1. head[i] \in Block /\ \E j \in 1..Len(head) : head[j] = head[i]
    BY <1>1
  <2>2. Recovered[head[i]] = logd[CHOOSE j \in 1..Len(head) : head[j] = head[i]]
    BY <2>1, Zenon DEF Recovered
  <2>3. (CHOOSE j \in 1..Len(head) : head[j] = head[i]) = i
    BY <1>1, EntryOf, Zenon
  <2>4. QED
    BY <2>1, <2>2, <2>3, Zenon
<1>3. ASSUME NEW b \in Block, b \notin Elems(head)
      PROVE  Recovered[b] = home[b]
  BY ZenonT(30), <1>3 DEF Recovered, Elems
<1>4. QED
  BY Zenon, <1>2, <1>3

(* In a running system a block that is not dirty is read from its home.  *)
LEMMA ViewFacts ==
  ASSUME IInv, Up, NEW b \in Block
  PROVE  /\ View[b] = IF b \in dirty THEN cache[b] ELSE home[b]
         /\ View[b] \in Val
<1>1. View[b] = IF cache[b] = NoVal THEN home[b] ELSE cache[b]
  BY Zenon DEF View, Up
<1>2. QED
  BY <1>1 DEF IInv, TypeOK, DataInv

(* A step that leaves the cache and the disk alone leaves the abstract blocks
   alone.  *)
LEMMA StoreFrame ==
  ASSUME UNCHANGED <<home, logd, head, cache, booting>>
  PROVE  Recovered' = Recovered /\ View' = View
<1>1. Recovered' = Recovered
  BY Zenon DEF Recovered
<1>2. QED
  BY <1>1 DEF View

\* bread shows what was there.
LEMMA BreadStore ==
  ASSUME LogFits, IInv, NEW p \in Proc, NEW b \in Block, Bread(p, b)
  PROVE  UNCHANGED Store!vars
<1> USE DEF disk, bufs, log, procs, boot
<1> TypeOK /\ DataInv /\ ControlInv
  BY DEF IInv
<1>a. (Recovered' = Recovered /\ View' = View /\ Active' = Active)
        => UNCHANGED Store!vars
  BY DEF Store!vars
<1>1. UNCHANGED <<home, logd, head, booting, pc>> /\ Up
  BY ZenonT(30) DEF Bread
<1>2. Recovered' = Recovered /\ Active' = Active
  BY ZenonT(30), <1>1 DEF Recovered, Active
<1>3. \A c \in Block : (IF cache'[c] = NoVal THEN home[c] ELSE cache'[c])
                        = (IF cache[c] = NoVal THEN home[c] ELSE cache[c])
  BY Zenon, SMTT(30) DEF Bread, TypeOK
<1>4. View' = View
  BY Zenon, <1>1, <1>3 DEF View, Up
<1>5. QED
  BY <1>a, <1>2, <1>4

\* log_write is a write of the store.
LEMMA LogWriteStore ==
  ASSUME LogFits, IInv, NEW p \in Proc, NEW b \in Block, NEW v \in Val, LogWrite(p, b, v)
  PROVE  Store!Write(p, b, v)
<1> USE DEF disk, bufs, log, procs, boot
<1> TypeOK /\ DataInv /\ ControlInv
  BY DEF IInv
<1>a. (Recovered' = Recovered /\ View' = View /\ Active' = Active)
        => UNCHANGED Store!vars
  BY DEF Store!vars
<1>1. UNCHANGED <<home, logd, head, booting, pc>> /\ Up /\ p \in Active
  BY Zenon, InOp DEF LogWrite, Active
<1>2. Recovered' = Recovered /\ Active' = Active
  BY <1>1 DEF Recovered, Active
<1>3. cache' = [cache EXCEPT ![b] = v]
  BY LogWriteEffect
<1>4. View' = [View EXCEPT ![b] = v]
  <2>1. View = [c \in Block |-> IF cache[c] = NoVal THEN home[c] ELSE cache[c]]
    BY Zenon, <1>1 DEF View, Up
  <2>2. View' = [c \in Block |-> IF cache'[c] = NoVal THEN home[c] ELSE cache'[c]]
    BY Zenon, <1>1 DEF View, Up
  <2>3. \A c \in Block : (IF cache'[c] = NoVal THEN home[c] ELSE cache'[c])
                          = IF c = b THEN v ELSE IF cache[c] = NoVal THEN home[c] ELSE cache[c]
    BY <1>3, ConstantTypes DEF TypeOK
  <2>4. QED
    BY Zenon, <2>1, <2>2, <2>3
<1>5. QED
  BY SMTT(30), <1>1, <1>2, <1>4 DEF Store!Write

\* Dropping a clean buffer changes nothing that can be read.
LEMMA RecycleStore ==
  ASSUME LogFits, IInv, NEW b \in Block, Recycle(b)
  PROVE  UNCHANGED Store!vars
<1> USE DEF disk, bufs, log, procs, boot
<1> TypeOK /\ DataInv /\ ControlInv
  BY DEF IInv
<1>a. (Recovered' = Recovered /\ View' = View /\ Active' = Active)
        => UNCHANGED Store!vars
  BY DEF Store!vars
<1>1. UNCHANGED <<home, logd, head, booting, pc>>
  BY DEF Recycle
<1>2. Recovered' = Recovered /\ Active' = Active
  BY Zenon, <1>1 DEF Recovered, Active
<1>3. \A c \in Block : (IF cache'[c] = NoVal THEN home[c] ELSE cache'[c])
                        = (IF cache[c] = NoVal THEN home[c] ELSE cache[c])
  BY Zenon, SMTT(30) DEF Recycle, TypeOK, DataInv
<1>4. View' = View
  BY Zenon, <1>1, <1>2, <1>3 DEF View
<1>5. QED
  BY SMTT(30), <1>a, <1>2, <1>4

\* What write_log writes is not read before the header is.
LEMMA WriteLogStore ==
  ASSUME LogFits, IInv, WriteLog
  PROVE  UNCHANGED Store!vars
<1> USE DEF disk, bufs, log, procs, boot
<1> TypeOK /\ DataInv /\ ControlInv
  BY DEF IInv
<1>a. (Recovered' = Recovered /\ View' = View /\ Active' = Active)
        => UNCHANGED Store!vars
  BY DEF Store!vars
<1>1. UNCHANGED <<home, head, booting, pc>> /\ head = <<>> /\ ~booting
  BY Zenon DEF WriteLog, DataInv, ControlInv
<1>2. Recovered' = Recovered
  <2>1. 1..Len(head) = {} /\ 1..Len(head') = {}
    BY <1>1, EmptyFacts
  <2>2. Recovered = [c \in Block |-> home[c]]
    BY <2>1 DEF Recovered
  <2>3. Recovered' = [c \in Block |-> home[c]]
    BY <1>1, <2>1 DEF Recovered
  <2>4. QED
    BY <2>2, <2>3
<1>3. lh[tail + 1] \in Block
  BY SMTT(30) DEF WriteLog, TypeOK
<1>4. \A c \in Block : (IF cache'[c] = NoVal THEN home[c] ELSE cache'[c])
                        = (IF cache[c] = NoVal THEN home[c] ELSE cache[c])
  BY Zenon, <1>3 DEF WriteLog, TypeOK
<1>5. View' = View
  BY <1>1, <1>4 DEF View
<1>6. QED
  BY <1>a, <1>1, <1>2, <1>5 DEF Active

\* write_head is the commit of the store.
LEMMA WriteHeadStore ==
  ASSUME LogFits, IInv, WriteHead
  PROVE  Store!Commit
<1> USE DEF disk, bufs, log, procs, boot
<1> TypeOK /\ DataInv /\ ControlInv
  BY DEF IInv
<1>a. (Recovered' = Recovered /\ View' = View /\ Active' = Active)
        => UNCHANGED Store!vars
  BY DEF Store!vars
<1>1. /\ UNCHANGED <<home, logd, cache, booting, pc>> /\ head' = lh /\ head = <<>>
      /\ stage = "write_log" /\ tail = Len(lh) /\ Up
  BY Zenon DEF WriteHead, DataInv, ControlInv, Up
<1>2. Active = {} /\ Active' = Active
  BY <1>1, StagesExclude DEF Active
<1>3. View' = View
  BY <1>1 DEF View, Up
<1>4. ASSUME NEW b \in Block PROVE Recovered'[b] = View[b]
  <2>1. CASE b \in Elems(lh)
    <3>1. PICK i \in 1..Len(lh) : lh[i] = b
      BY SMTT(30), <2>1 DEF Elems
    <3>2. (CHOOSE j \in 1..Len(lh) : lh[j] = lh[i]) = i
      BY EntryOf DEF TypeOK, DataInv
    <3>3. Recovered'[b] = logd[CHOOSE j \in 1..Len(lh) : lh[j] = b]
      BY <1>1, <3>1, Zenon DEF Recovered
    <3>4. Recovered'[b] = logd[i]
      BY <3>1, <3>2, <3>3, Zenon
    <3>5. logd[i] = cache[b] /\ b \in dirty
      BY ZenonT(30), <1>1, <2>1, <3>1 DEF DataInv
    <3>6. QED
      BY ZenonT(30), <1>1, <3>4, <3>5, ViewFacts
  <2>2. CASE b \notin Elems(lh)
    <3>1. Recovered'[b] = home[b]
      BY SMTT(30), <1>1, <2>2 DEF Recovered, Elems
    <3>2. b \notin dirty
      BY Zenon, <1>1, <2>2 DEF DataInv
    <3>3. QED
      BY <1>1, <3>1, <3>2, ViewFacts
  <2>3. QED
    BY <2>1, <2>2
<1>5. Recovered' = View
  <2>1. Recovered' = [b \in Block |-> Recovered'[b]] /\ View = [b \in Block |-> View[b]]
    BY Zenon, <1>1 DEF Recovered, View, Up
  <2>2. QED
    BY SMTT(30), <1>4, <2>1
<1>6. QED
  BY <1>2, <1>3, <1>5 DEF Store!Commit

\* install_trans copies home what recovery would.
LEMMA InstallStore ==
  ASSUME LogFits, IInv, InstallTrans
  PROVE  UNCHANGED Store!vars
<1> USE DEF disk, bufs, log, procs, boot
<1> TypeOK /\ DataInv /\ ControlInv
  BY DEF IInv
<1>a. (Recovered' = Recovered /\ View' = View /\ Active' = Active)
        => UNCHANGED Store!vars
  BY DEF Store!vars
<1> DEFINE b == lh[tail + 1]
<1>1. /\ UNCHANGED <<logd, head, booting, pc>> /\ head = lh /\ stage = "install"
      /\ home' = [home EXCEPT ![b] = logd[tail + 1]]
      /\ cache' = [cache EXCEPT ![b] = logd[tail + 1]]
      /\ tail + 1 \in 1..Len(lh) /\ tail + 1 \in (tail + 1)..Len(lh)
  BY DEF InstallTrans, DataInv, TypeOK
<1>2. \A c \in Block : c # b => home'[c] = home[c]
  BY <1>1 DEF TypeOK
<1>3. Recovered' = Recovered
  BY <1>1, <1>2 DEF Recovered
<1>4. View' = View
  <2>1. CASE booting
    BY <1>1, <1>3, <2>1 DEF View
  <2>2. CASE Up
    <3>1. cache[b] = logd[tail + 1] /\ b \in dirty /\ b \in Block /\ cache[b] # NoVal
      BY <1>1, <2>2 DEF DataInv, TypeOK, Rest
    <3>2. cache' = cache
      BY Zenon, <1>1, <3>1 DEF TypeOK
    <3>3. \A c \in Block : (IF cache'[c] = NoVal THEN home'[c] ELSE cache'[c])
                            = (IF cache[c] = NoVal THEN home[c] ELSE cache[c])
      BY Zenon, <1>2, <3>1, <3>2
    <3>4. QED
      BY SMTT(30), <1>1, <2>2, <3>3 DEF View, Up
  <2>3. QED
    BY <2>1, <2>2 DEF TypeOK, Up
<1>5. QED
  BY SMTT(30), <1>a, <1>1, <1>3, <1>4 DEF Active

\* Erasing the header when all is home changes nothing that can be read.
LEMMA ClearStore ==
  ASSUME LogFits, IInv, ClearLog
  PROVE  UNCHANGED Store!vars
<1> USE DEF disk, bufs, log, procs, boot
<1> TypeOK /\ DataInv /\ ControlInv
  BY DEF IInv
<1>a. (Recovered' = Recovered /\ View' = View /\ Active' = Active)
        => UNCHANGED Store!vars
  BY DEF Store!vars
<1>1. /\ UNCHANGED <<home, logd, cache, dirty, pc>> /\ head' = <<>> /\ ~booting'
      /\ head = lh /\ stage = "install" /\ tail = Len(lh)
  BY Zenon, SMTT(30) DEF ClearLog, DataInv
<1>2. dirty = {}
  BY SMTT(30) DEF ClearLog, DataInv, ControlInv, Up, TypeOK, Rest
<1>3. \A b \in Block : Recovered[b] = home[b]
  <2>1. \A i \in 1..Len(lh) : home[lh[i]] = logd[i]
    BY Zenon, <1>1 DEF DataInv
  <2>2. QED
    BY <1>1, <2>1, RecoveredFacts DEF Elems
<1>4. Recovered = [b \in Block |-> home[b]] /\ Recovered' = [b \in Block |-> home[b]]
  <2>1. Recovered = [b \in Block |-> Recovered[b]]
    BY Zenon DEF Recovered
  <2>2. Recovered' = [b \in Block |-> home[b]]
    BY SMTT(30), <1>1, EmptyFacts DEF Recovered
  <2>3. QED
    BY SMTT(30), <1>3, <2>1, <2>2
<1>5. \A b \in Block : (IF cache[b] = NoVal THEN home[b] ELSE cache[b]) = home[b]
  BY Zenon, <1>2 DEF DataInv
<1>6. View = [b \in Block |-> home[b]] /\ View' = [b \in Block |-> home[b]]
  BY <1>1, <1>4, <1>5 DEF View
<1>7. QED
  BY SMTT(30), <1>a, <1>1, <1>4, <1>6 DEF Active

(* Every step of log.c is a step of the abstract store or leaves it alone.  *)
LEMMA StoreStep ==
  ASSUME LogFits, IInv, [Next]_vars
  PROVE  [Store!Next]_Store!vars
<1> USE DEF disk, bufs, log, procs, boot
<1> TypeOK /\ DataInv /\ ControlInv
  BY DEF IInv
<1>a. (Recovered' = Recovered /\ View' = View /\ Active' = Active)
        => UNCHANGED Store!vars
  BY DEF Store!vars
<1>1. ASSUME NEW p \in Proc, Call(p) \/ CommitDone(p) PROVE UNCHANGED Store!vars
  BY ZenonT(30), <1>1, <1>a, ActiveStep, StoreFrame DEF Call, CommitDone
<1>2. ASSUME NEW p \in Proc, BeginOp(p) PROVE Store!Begin(p) \/ UNCHANGED Store!vars
  <2>1. Recovered' = Recovered /\ View' = View
    BY <1>2, StoreFrame DEF BeginOp
  <2>2. QED
    BY <1>2, <1>a, <2>1, ActiveStep DEF Store!Begin
<1>3. ASSUME NEW p \in Proc, EndOp(p) PROVE Store!End(p)
  <2>1. Recovered' = Recovered /\ View' = View
    BY <1>3, StoreFrame DEF EndOp
  <2>2. QED
    BY <1>3, <2>1, ActiveStep DEF Store!End
<1>5. ASSUME NEW p \in Proc, NEW b \in Block, Bread(p, b) PROVE UNCHANGED Store!vars
  BY Zenon, <1>5, BreadStore
<1>6. ASSUME NEW p \in Proc, NEW b \in Block, Brelse(p, b) PROVE UNCHANGED Store!vars
  BY <1>6, <1>a, StoreFrame DEF Brelse, Active
<1>7. ASSUME NEW p \in Proc, NEW b \in Block, NEW v \in Val, LogWrite(p, b, v)
      PROVE Store!Write(p, b, v)
  BY Zenon, <1>7, LogWriteStore
<1>8. ASSUME NEW b \in Block, Recycle(b) PROVE UNCHANGED Store!vars
  BY Zenon, <1>8, RecycleStore
<1>9. CASE WriteLog
  BY Zenon, <1>9, WriteLogStore
<1>10. CASE WriteHead
  BY Zenon, <1>10, WriteHeadStore DEF Store!Next
<1>11. CASE InstallTrans
  BY Zenon, <1>11, InstallStore
<1>12. CASE ClearLog
  BY Zenon, <1>12, ClearStore
<1>13. CASE ReadHead
  BY <1>13, <1>a, StoreFrame DEF ReadHead, Active
<1>14. CASE Crash
  <2>1. Recovered' = Recovered /\ View' = Recovered'
    BY Zenon, <1>14 DEF Crash, Recovered, View
  <2>2. Store!Crash
    BY <1>14, <2>1 DEF Crash, Active, Store!Crash
  <2>3. QED
    BY SMTT(30), <2>2 DEF Store!Next
<1>15. CASE UNCHANGED vars
  BY <1>15, <1>a, StoreFrame DEF vars, Active
<1>16. QED
  BY Zenon, <1>1, <1>2, <1>3, <1>5, <1>6, <1>7, <1>8, <1>9, <1>10, <1>11, <1>12, <1>13, <1>14,
     <1>15 DEF Next, ProcStep, LogStep, Store!Next

(* log.c implements the atomic durable store: crashes, recovery and interleaved
   operations never show a state that DurableStore does not allow.  *)
THEOREM Refinement ==
  ASSUME LogFits
  PROVE  Spec => CrashAtomic
<1>1. Init => Store!Init
  <2> SUFFICES ASSUME Init PROVE Store!Init
    OBVIOUS
  <2>1. Recovered = [b \in Block |-> home[b]] /\ View = Recovered /\ Active = {}
    BY EmptyFacts DEF Init, Recovered, View, Active
  <2>2. QED
    BY <2>1 DEF Init, Store!Init
<1>2. IInv /\ [Next]_vars => [Store!Next]_Store!vars
  BY StoreStep
<1>3. QED
  BY Invariance, <1>1, <1>2, PTL DEF Spec, CrashAtomic, Store!Spec
=============================================================================
