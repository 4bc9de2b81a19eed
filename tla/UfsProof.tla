------------------------------ MODULE UfsProof ------------------------------
(***************************************************************************)
(* Proofs on UfsServer, for every number of inodes, blocks, pointers and   *)
(* requests: UInv is an invariant, a request changes one file only, and    *)
(* what was written is what is read.                                       *)
(***************************************************************************)
EXTENDS UfsInv, FiniteSetTheorems, TLAPS

(***************************************************************************)
(* Arithmetic.                                                             *)
(***************************************************************************)

\* The sizes of the image.
LEMMA Sizes ==
  /\ NI \in Nat /\ ND \in Nat /\ BS \in Nat /\ DP \in Nat
  /\ NI > 0 /\ ND > 0 /\ BS > 2 /\ DP > 0
BY UfsConstants, Zenon

\* The position of n in blocks of b.
LEMMA DivMod ==
  ASSUME NEW b \in Nat, b > 0, NEW n \in Nat
  PROVE  /\ n \div b \in Nat /\ n % b \in 0..(b - 1)
         /\ n = b * (n \div b) + (n % b)
OBVIOUS

\* Its block and its place there are numbers.
LEMMA DivModNumbers ==
  ASSUME NEW n \in Nat
  PROVE  n \div BS \in Nat /\ n % BS \in 0..(BS - 1)
BY Sizes, DivMod

\* A product of natural numbers is monotonic.
LEMMA Times ==
  ASSUME NEW b \in Nat, b > 0, NEW x \in Nat, NEW y \in Nat
  PROVE  x * b \in Nat /\ (x < y => x * b + b =< y * b) /\ (x =< y => x * b =< y * b)
OBVIOUS

\* The block of n is q if n is between its bounds.
LEMMA DivIs ==
  ASSUME NEW b \in Nat, b > 0, NEW n \in Nat, NEW q \in Nat, NEW r \in 0..(b - 1),
         n = q * b + r
  PROVE  n \div b = q /\ n % b = r
OBVIOUS

\* Between the last block that was handed out and the k next ones.
LEMMA NextOnes ==
  ASSUME NEW h \in Nat, NEW k \in Nat, NEW x \in Int, h + 2 =< x, x =< h + k + 1
  PROVE  h + 1 < x /\ x =< (h + k) + 1
OBVIOUS

(***************************************************************************)
(* Sets of numbers.                                                        *)
(***************************************************************************)

\* A set of natural numbers that is not empty has a least element: the sets of the
\* numbers below its elements have a minimal one.
LEMMA LeastOf ==
  ASSUME NEW S, S \subseteq Nat, S # {}
  PROVE  Min(S) \in S
<1> DEFINE Below == {0..(x - 1) : x \in S}
<1>1. Below \subseteq FiniteSubsetsOf(Nat)
  <2>1. ASSUME NEW x \in S PROVE 0..(x - 1) \subseteq Nat /\ IsFiniteSet(0..(x - 1))
    BY FS_Interval
  <2>2. QED
    BY <2>1, Zenon DEF FiniteSubsetsOf
<1>2. PICK i \in Below : \A j \in Below : <<j, i>> \notin StrictSubsetOrdering(Nat)
  <2>1. Below # {}
    BY Zenon
  <2>2. QED
    BY Zenon, <1>1, <2>1, WFMin, FS_StrictSubsetOrderingWellFounded
<1>3. PICK x \in S : i = 0..(x - 1)
  OBVIOUS
<1>4. ASSUME NEW y \in S, y < x PROVE FALSE
  <2>1. 0..(y - 1) \in Below
    OBVIOUS
  <2>2. /\ 0..(y - 1) \subseteq 0..(x - 1) /\ y \in 0..(x - 1) /\ y \notin 0..(y - 1)
        /\ 0..(x - 1) \subseteq Nat
    BY <1>4
  <2>3. <<0..(y - 1), 0..(x - 1)>> \in StrictSubsetOrdering(Nat)
    BY <2>2, Zenon DEF StrictSubsetOrdering
  <2>4. QED
    BY Zenon, <1>2, <1>3, <2>1, <2>3
<1>5. \A y \in S : x =< y
  BY <1>4
<1>6. QED
  BY Zenon, <1>5 DEF Min

(***************************************************************************)
(* Images.                                                                 *)
(***************************************************************************)

\* What a request on inode i may do to an image: it takes blocks that were not
\* handed out, points i at them or at blocks i had, and writes to these blocks.
Grown(s, t, i) ==
  /\ t \in Image
  /\ t.hi = s.hi /\ t.ibm = s.ibm
  /\ s.hd =< t.hd /\ t.dbm = 0..t.hd
  /\ \A j \in Inum \ {i} : t.inode[j] = s.inode[j]
  /\ \A d \in 0..(DP - 1) :
       \/ \E e \in 0..(DP - 1) : Direct(t, i, d) = Direct(s, i, e)
       \/ s.hd + FirstData < Direct(t, i, d) /\ Direct(t, i, d) =< t.hd + FirstData
  /\ \A d \in 0..(DP - 1) :
       /\ Direct(t, i, d) # -1 => \A e \in 0..(DP - 1) : e < d => Direct(t, i, e) # -1
       /\ d * BS < t.inode[i].size => Direct(t, i, d) # -1
  /\ \A a \in Addr :
       a =< s.hd + FirstData /\ (\A d \in 0..(DP - 1) : Direct(s, i, d) # a)
         => t.blk[a] = s.blk[a]
  /\ EntriesKnown(t)

\* Entries that name known inodes go on doing so.
LEMMA KnownStays ==
  ASSUME NEW s \in Image, NEW t \in Image, EntriesKnown(s), t.blk = s.blk, s.hi =< t.hi
  PROVE  EntriesKnown(t)
<1>1. s.hi \in Int /\ t.hi \in Int
  BY DEF Image, Inum
<1>2. -1..s.hi \subseteq -1..t.hi
  BY <1>1
<1>3. QED
  BY Zenon, <1>2 DEF EntriesKnown, Known

\* The parts of an image.
LEMMA ImageFields ==
  ASSUME NEW s \in Image
  PROVE  /\ s.inode \in [Inum -> Inode] /\ s.blk \in [Addr -> [0..(BS - 1) -> Slot]]
         /\ s.hi \in Nat /\ s.hi < NI /\ s.hi \in Inum
         /\ s.hd \in Nat /\ s.hd < ND /\ s.hd \in 0..(ND - 1)
<1>1. /\ s.inode \in [Inum -> Inode] /\ s.blk \in [Addr -> [0..(BS - 1) -> Slot]]
      /\ s.hi \in Inum /\ s.hd \in 0..(ND - 1)
  BY DEF Image
<1>2. s.hi \in Nat /\ s.hi < NI /\ s.hd \in Nat /\ s.hd < ND
  BY <1>1, Sizes DEF Inum
<1>3. QED
  BY <1>1, <1>2, Zenon

\* The parts of an inode.
LEMMA InodeFields ==
  ASSUME NEW s \in Image, NEW i \in Inum
  PROVE  /\ s.inode[i] \in Inode /\ s.inode[i].type \in {"dir", "reg"}
         /\ s.inode[i].size \in 0..(DP * BS) /\ s.inode[i].size \in Nat
         /\ s.inode[i].direct \in [0..(DP - 1) -> Addr \cup {-1}]
<1>1. s.inode[i] \in Inode
  BY ImageFields
<1>2. /\ s.inode[i].type \in {"dir", "reg"} /\ s.inode[i].size \in 0..(DP * BS)
      /\ s.inode[i].direct \in [0..(DP - 1) -> Addr \cup {-1}]
  BY <1>1 DEF Inode
<1>3. DP * BS \in Nat
  BY Sizes
<1>4. s.inode[i].size \in Nat
  BY <1>2, <1>3
<1>5. QED
  BY <1>1, <1>2, <1>4, Zenon

\* An inode that is allocated is an inode.
LEMMA Allocated ==
  ASSUME NEW s \in Image, NEW i \in 0..s.hi
  PROVE  i \in Inum
<1>1. s.hi \in Nat /\ s.hi < NI
  BY Zenon, ImageFields
<1>2. QED
  BY <1>1, Sizes DEF Inum

\* A pointer is -1 or the address of a block.
LEMMA DirectType ==
  ASSUME NEW s \in Image, NEW i \in Inum, NEW d \in 0..(DP - 1)
  PROVE  Direct(s, i, d) \in Addr \cup {-1} /\ Direct(s, i, d) \in Int
<1>1. Direct(s, i, d) \in Addr \cup {-1}
  BY Zenon, InodeFields DEF Direct
<1>2. Addr \cup {-1} \subseteq Int
  BY Sizes DEF Addr
<1>3. QED
  BY <1>1, <1>2, Zenon

\* Such a change keeps the image sound.
LEMMA GrownSound ==
  ASSUME NEW s, SoundImage(s), NEW i \in Inum, i \in 0..s.hi, NEW t, Grown(s, t, i)
  PROVE  SoundImage(t)
<1>1. s \in Image /\ t \in Image /\ s.hd \in Nat /\ t.hd \in Nat /\ s.hi \in Nat /\ t.hi = s.hi
      /\ s.hd =< t.hd
  BY Zenon, ImageFields DEF SoundImage, Grown
<1>2. CountersExact(t)
  BY Zenon DEF SoundImage, Grown, CountersExact
<1>3. \A j \in Inum \ {i} : \A d \in 0..(DP - 1) : Direct(t, j, d) = Direct(s, j, d)
  BY Zenon DEF Grown, Direct
<1>4. \A j \in Inum : \A d \in 0..(DP - 1) :
        Direct(s, j, d) \in Int /\ Direct(t, j, d) \in Int
  BY <1>1, DirectType
<1>5. ASSUME NEW d \in 0..(DP - 1)
      PROVE  \/ \E e \in 0..(DP - 1) : Direct(t, i, d) = Direct(s, i, e)
             \/ s.hd + 1 < Direct(t, i, d) /\ Direct(t, i, d) =< t.hd + 1
  BY Zenon DEF Grown, FirstData
<1>6. PointersAllocated(t)
  <2>1. ASSUME NEW j \in 0..s.hi, NEW d \in 0..(DP - 1)
        PROVE  Direct(t, j, d) =< t.hd + 1 /\ Direct(t, j, d) # 0
    <3>0. j \in Inum
      BY Zenon, <1>1, Allocated
    <3>1. \A e \in 0..(DP - 1) : Direct(s, j, e) =< s.hd + 1 /\ Direct(s, j, e) # 0
      BY Zenon DEF SoundImage, PointersAllocated, FirstData
    <3>2. CASE j # i
      BY <3>0, <3>1, <3>2, <1>1, <1>3, <1>4
    <3>3. CASE j = i
      BY <3>0, <3>1, <3>3, <1>1, <1>4, <1>5
    <3>4. QED
      BY <3>2, <3>3
  <2>2. QED
    BY <2>1, <1>1, Zenon DEF PointersAllocated, FirstData
<1>7. PointersDisjoint(t)
  <2>0. \A j \in 0..s.hi : j \in Inum
    BY Zenon, <1>1, Allocated
  <2>1. ASSUME NEW j \in 0..s.hi, j # i, NEW d \in 0..(DP - 1), NEW e \in 0..(DP - 1),
               Direct(t, i, d) = Direct(t, j, e)
        PROVE  Direct(t, i, d) < 1
    <3>1. Direct(t, j, e) = Direct(s, j, e) /\ Direct(s, j, e) =< s.hd + 1
      BY Zenon, <1>3, <2>0, <2>1 DEF SoundImage, PointersAllocated, FirstData
    <3>2. ~(s.hd + 1 < Direct(t, i, d))
      BY <3>1, <2>0, <2>1, <1>1, <1>4
    <3>3. PICK f \in 0..(DP - 1) : Direct(t, i, d) = Direct(s, i, f)
      BY <3>2, <1>5
    <3>4. QED
      BY Zenon, <3>1, <3>3, <2>1 DEF SoundImage, PointersDisjoint, FirstData
  <2>2. ASSUME NEW j \in 0..s.hi, NEW k \in 0..s.hi, NEW d \in 0..(DP - 1), NEW e \in 0..(DP - 1),
               j # k, Direct(t, j, d) = Direct(t, k, e)
        PROVE  Direct(t, j, d) < 1
    <3>1. CASE j = i
      BY Zenon, <3>1, <2>1, <2>2
    <3>2. CASE k = i
      BY Zenon, <3>2, <2>1, <2>2
    <3>3. CASE j # i /\ k # i
      <4>1. Direct(t, j, d) = Direct(s, j, d) /\ Direct(t, k, e) = Direct(s, k, e)
        BY Zenon, <3>3, <2>0, <1>3
      <4>2. QED
        BY Zenon, <4>1, <2>2 DEF SoundImage, PointersDisjoint, FirstData
    <3>4. QED
      BY <3>1, <3>2, <3>3
  <2>3. QED
    BY <2>2, <1>1, Zenon DEF PointersDisjoint, FirstData
<1>8. NoHoles(t) /\ SizeMapped(t)
  <2>1. ASSUME NEW j \in 0..s.hi, NEW d \in 0..(DP - 1)
        PROVE  /\ Direct(t, j, d) # -1 => \A e \in 0..(DP - 1) : e < d => Direct(t, j, e) # -1
               /\ d * BS < t.inode[j].size => Direct(t, j, d) # -1
    <3>1. j \in Inum /\ j =< s.hi
      <4>1. s.hi < NI
        BY <1>1, ImageFields
      <4>2. QED
        BY <4>1, <1>1, Sizes DEF Inum
    <3>2. CASE j = i
      BY Zenon, <3>1, <3>2 DEF Grown
    <3>3. CASE j # i
      <4>1. t.inode[j] = s.inode[j]
        BY Zenon, <3>1, <3>3 DEF Grown
      <4>2. QED
        BY Zenon, <4>1, <3>1, <3>3, <1>3 DEF SoundImage, NoHoles, SizeMapped
    <3>4. QED
      BY <3>2, <3>3
  <2>2. QED
    BY <2>1, <1>1, Zenon DEF NoHoles, SizeMapped
<1>9. QED
  BY Zenon, <1>1, <1>2, <1>6, <1>7, <1>8 DEF SoundImage, Grown

(***************************************************************************)
(* Isolation.                                                              *)
(***************************************************************************)

\* t has the inodes that are allocated in s, but i, as they are in s, blocks included.
Untouched(s, t, i) ==
  \A j \in s.ibm \ {i} :
    /\ j \in t.ibm
    /\ t.inode[j] = s.inode[j]
    /\ \A d \in 0..(DP - 1) : Direct(s, j, d) # -1 => t.blk[Direct(s, j, d)] = s.blk[Direct(s, j, d)]

\* One change after another, the second one to the same inode or to a new one.
LEMMA UntouchedThen ==
  ASSUME NEW s, NEW t, NEW u, NEW i, NEW k, Untouched(s, t, i), Untouched(t, u, k),
         k = i \/ k \notin s.ibm
  PROVE  Untouched(s, u, i)
<1>1. ASSUME NEW j \in s.ibm \ {i}
      PROVE  /\ j \in u.ibm
             /\ u.inode[j] = s.inode[j]
             /\ \A d \in 0..(DP - 1) :
                  Direct(s, j, d) # -1 => u.blk[Direct(s, j, d)] = s.blk[Direct(s, j, d)]
  <2>1. j \in t.ibm \ {k} /\ t.inode[j] = s.inode[j]
    BY Zenon DEF Untouched
  <2>2. \A d \in 0..(DP - 1) : Direct(t, j, d) = Direct(s, j, d)
    BY Zenon, <2>1 DEF Direct
  <2>3. j \in u.ibm /\ u.inode[j] = t.inode[j]
    BY Zenon, <2>1 DEF Untouched
  <2>4. ASSUME NEW d \in 0..(DP - 1), Direct(s, j, d) # -1
        PROVE  u.blk[Direct(s, j, d)] = s.blk[Direct(s, j, d)]
    <3>1. t.blk[Direct(s, j, d)] = s.blk[Direct(s, j, d)]
      BY Zenon, <2>4 DEF Untouched
    <3>2. u.blk[Direct(t, j, d)] = t.blk[Direct(t, j, d)]
      <4>1. Direct(t, j, d) # -1
        BY Zenon, <2>2, <2>4
      <4>2. QED
        BY Zenon, <2>1, <4>1 DEF Untouched
    <3>3. QED
      BY Zenon, <3>1, <3>2, <2>2
  <2>5. QED
    BY Zenon, <2>1, <2>3, <2>4
<1>2. QED
  BY Zenon, <1>1 DEF Untouched

\* Two changes to the same inode are one change to it.
LEMMA UntouchedTrans ==
  ASSUME NEW s, NEW t, NEW u, NEW i, Untouched(s, t, i), Untouched(t, u, i)
  PROVE  Untouched(s, u, i)
BY Zenon, UntouchedThen

\* What a request on i does is seen in i only.
LEMMA GrownUntouched ==
  ASSUME NEW s, SoundImage(s), NEW i \in Inum, i \in 0..s.hi, NEW t, Grown(s, t, i)
  PROVE  Untouched(s, t, i)
<1>1. s \in Image /\ s.hi \in Nat /\ s.hd \in Nat /\ s.hd < ND /\ s.hi < NI
  BY Zenon, ImageFields DEF SoundImage
<1>2. ASSUME NEW j \in s.ibm \ {i}
      PROVE  /\ j \in t.ibm
             /\ t.inode[j] = s.inode[j]
             /\ \A d \in 0..(DP - 1) :
                  Direct(s, j, d) # -1 => t.blk[Direct(s, j, d)] = s.blk[Direct(s, j, d)]
  <2>1. j \in 0..s.hi /\ j # i
    BY Zenon DEF SoundImage, CountersExact
  <2>2. j \in Inum /\ j =< s.hi
    BY <2>1, <1>1, Sizes DEF Inum
  <2>3. j \in t.ibm /\ t.inode[j] = s.inode[j]
    BY Zenon, <2>1, <2>2 DEF Grown
  <2>4. ASSUME NEW d \in 0..(DP - 1), Direct(s, j, d) # -1
        PROVE  t.blk[Direct(s, j, d)] = s.blk[Direct(s, j, d)]
    <3>1. Direct(s, j, d) =< s.hd + 1 /\ Direct(s, j, d) # 0
      BY Zenon, <2>1 DEF SoundImage, PointersAllocated, FirstData
    <3>2. Direct(s, j, d) \in Addr
      BY Zenon, <1>1, <2>2, <2>4, DirectType
    <3>3. ~(Direct(s, j, d) < 1)
      BY <3>1, <3>2, Sizes DEF Addr
    <3>4. \A e \in 0..(DP - 1) : Direct(s, i, e) # Direct(s, j, d)
      BY Zenon, <2>1, <3>3 DEF SoundImage, PointersDisjoint, FirstData
    <3>5. QED
      BY Zenon, <3>1, <3>2, <3>4 DEF Grown, FirstData
  <2>5. QED
    BY Zenon, <2>3, <2>4
<1>3. QED
  BY Zenon, <1>2 DEF Untouched

\* A slot is in the block of its number.
LEMMA SlotPlace ==
  ASSUME NEW k \in 0..(DP * BS - 1)
  PROVE  k \div BS \in 0..(DP - 1) /\ k % BS \in 0..(BS - 1)
<1>1. k \in Nat /\ k < DP * BS
  BY Sizes
<1>2. k \div BS \in Nat /\ k % BS \in 0..(BS - 1) /\ k = BS * (k \div BS) + (k % BS)
  BY <1>1, Sizes, DivMod
<1>3. ~(DP =< k \div BS)
  <2>1. ASSUME DP =< k \div BS PROVE FALSE
    <3>1. DP * BS =< (k \div BS) * BS
      BY <2>1, <1>2, Sizes, Times
    <3>2. QED
      BY <3>1, <1>1, <1>2, Sizes
  <2>2. QED
    BY <2>1
<1>4. QED
  BY <1>2, <1>3, Sizes

\* So what Read returns of the other inodes is the same.
SameContents(s, t, j) == Contents(t, j) = Contents(s, j)

\* Contents of an inode are read through its pointers, in blocks that only it has.
LEMMA UntouchedContents ==
  ASSUME NEW s \in Image, NEW t, NEW i, Untouched(s, t, i), NEW j \in s.ibm \ {i}
  PROVE  SameContents(s, t, j)
<1>1. t.inode[j] = s.inode[j]
  BY Zenon DEF Untouched
<1>2. ASSUME NEW k \in 0..(DP * BS - 1)
      PROVE  ReadFile(t, j, k, 1) = ReadFile(s, j, k, 1)
  <2> DEFINE dir == s.inode[j].direct
  <2>1. k \div BS \in 0..(DP - 1)
    BY SlotPlace
  <2>2. k + 1 - 1 = k
    BY Sizes
  <2>3. (k \div BS)..((k + 1 - 1) \div BS) = {k \div BS}
    BY <2>1, <2>2, Sizes
  <2>4. CASE dir[k \div BS] = -1
    <3>1. \E d \in (k \div BS)..((k + 1 - 1) \div BS) : d > DP - 1 \/ dir[d] = -1
      BY Zenon, <2>3, <2>4
    <3>2. QED
      BY Zenon, <3>1, <1>1 DEF ReadFile
  <2>5. CASE dir[k \div BS] # -1
    <3>1. t.blk[dir[k \div BS]] = s.blk[dir[k \div BS]]
      BY Zenon, <2>1, <2>5 DEF Untouched, Direct
    <3>2. \A x \in 1..1 : k + x - 1 = k
      BY Sizes
    <3>3. [x \in 1..1 |-> t.blk[dir[(k + x - 1) \div BS]][(k + x - 1) % BS]] =
          [x \in 1..1 |-> s.blk[dir[(k + x - 1) \div BS]][(k + x - 1) % BS]]
      BY Zenon, <3>1, <3>2
    <3>4. QED
      BY Zenon, <3>3, <1>1 DEF ReadFile
  <2>6. QED
    BY Zenon, <2>4, <2>5
<1>3. QED
  BY Zenon, <1>2 DEF Contents, SameContents

(***************************************************************************)
(* The parts of a request.                                                 *)
(***************************************************************************)

\* t is s with the blocks up to number n handed out.
HandedOut(s, t, n) ==
  /\ t \in Image /\ CountersExact(t) /\ t.hd = n
  /\ t.inode = s.inode /\ t.blk = s.blk /\ t.hi = s.hi /\ t.ibm = s.ibm

\* alloc_dblk: blocks are handed out as far as there are any.
LEMMA AllocFacts ==
  ASSUME NEW s \in Image, CountersExact(s), NEW k \in Nat
  PROVE  HandedOut(s, AllocDblk(s, k), IF s.hd + k > LastBlock THEN LastBlock ELSE s.hd + k)
<1> DEFINE last == IF s.hd + k > LastBlock THEN LastBlock ELSE s.hd + k
<1>0. PICK t : t = AllocDblk(s, k)
  BY Zenon
<1>1. s.hd \in Nat /\ s.hd < ND /\ s.dbm = 0..s.hd /\ s.ibm = 0..s.hi
  BY Zenon, ImageFields DEF CountersExact
<1>2. last \in 0..(ND - 1) /\ s.hd =< last /\ last \in Int
  BY <1>1, Sizes DEF LastBlock
<1>3. (0..s.hd) \cup ((s.hd + 1)..last) = 0..last
  BY <1>1, <1>2, Sizes
<1>4. 0..last \subseteq 0..(ND - 1)
  BY <1>2, Sizes
<1>5. t = [s EXCEPT !.hd = last, !.dbm = 0..last]
  BY <1>0, <1>1, <1>3, Zenon DEF AllocDblk
<1>6. /\ t.hd = last /\ t.dbm = 0..last
      /\ t.inode = s.inode /\ t.blk = s.blk /\ t.hi = s.hi /\ t.ibm = s.ibm
  BY <1>5 DEF Image
<1>7. t \in Image
  BY Zenon, <1>2, <1>4, <1>5 DEF Image
<1>8. CountersExact(t)
  BY Zenon, <1>1, <1>6 DEF CountersExact
<1>9. HandedOut(s, t, last)
  BY Zenon, <1>6, <1>7, <1>8 DEF HandedOut
<1>10. QED
  BY Zenon, <1>0, <1>9

\* An image with other pointers in inode i.
Remapped(s, i, F) == [s EXCEPT !.inode[i].direct = F]

\* t is s but for the pointers F and the size z of inode i and the blocks B.
Changed(s, t, i, F, z, B) ==
  /\ t \in Image
  /\ t.hd = s.hd /\ t.dbm = s.dbm /\ t.blk = B /\ t.hi = s.hi /\ t.ibm = s.ibm
  /\ \A j \in Inum \ {i} : t.inode[j] = s.inode[j]
  /\ t.inode[i].direct = F /\ t.inode[i].size = z /\ t.inode[i].type = s.inode[i].type

\* Remapping changes the pointers of inode i and nothing else.
LEMMA SetDirect ==
  ASSUME NEW s \in Image, NEW i \in Inum, NEW F \in [0..(DP - 1) -> Addr \cup {-1}]
  PROVE  Changed(s, Remapped(s, i, F), i, F, s.inode[i].size, s.blk)
<1>0. PICK t : t = Remapped(s, i, F)
  BY Zenon
<1>1. s.inode \in [Inum -> Inode] /\ s.inode[i] \in Inode
  BY ImageFields
<1> DEFINE n == [s.inode[i] EXCEPT !.direct = F]
<1>2. n \in Inode /\ n.direct = F /\ n.size = s.inode[i].size /\ n.type = s.inode[i].type
  BY <1>1 DEF Inode
<1>3. t = [s EXCEPT !.inode = [s.inode EXCEPT ![i] = n]]
  BY Zenon, <1>0 DEF Remapped
<1> HIDE DEF n
<1>4. [s.inode EXCEPT ![i] = n] \in [Inum -> Inode]
  BY <1>1, <1>2
<1>5. /\ t \in Image /\ t.inode = [s.inode EXCEPT ![i] = n]
      /\ t.hd = s.hd /\ t.dbm = s.dbm /\ t.blk = s.blk /\ t.hi = s.hi /\ t.ibm = s.ibm
  BY <1>3, <1>4 DEF Image
<1>6. t.inode[i] = n /\ \A j \in Inum \ {i} : t.inode[j] = s.inode[j]
  BY <1>1, <1>5
<1>7. Changed(s, t, i, F, s.inode[i].size, s.blk)
  BY Zenon, <1>2, <1>5, <1>6 DEF Changed
<1>8. QED
  BY Zenon, <1>0, <1>7

\* An image with other blocks and a new size of inode i.
Refilled(s, i, z, B) == [s EXCEPT !.blk = B, !.inode[i].size = z]

\* Refilling changes the blocks and the size of inode i and nothing else.
LEMMA SetData ==
  ASSUME NEW s \in Image, NEW i \in Inum, NEW z \in 0..(DP * BS),
         NEW B \in [Addr -> [0..(BS - 1) -> Slot]]
  PROVE  Changed(s, Refilled(s, i, z, B), i, s.inode[i].direct, z, B)
<1>0. PICK t : t = Refilled(s, i, z, B)
  BY Zenon
<1>1. s.inode \in [Inum -> Inode] /\ s.inode[i] \in Inode
  BY ImageFields
<1> DEFINE n == [s.inode[i] EXCEPT !.size = z]
<1>2. n \in Inode /\ n.direct = s.inode[i].direct /\ n.size = z /\ n.type = s.inode[i].type
  BY <1>1 DEF Inode
<1>3. t = [s EXCEPT !.blk = B, !.inode = [s.inode EXCEPT ![i] = n]]
  BY <1>0 DEF Image, Refilled
<1> HIDE DEF n
<1>4. [s.inode EXCEPT ![i] = n] \in [Inum -> Inode]
  BY <1>1, <1>2
<1>5. /\ t \in Image /\ t.inode = [s.inode EXCEPT ![i] = n]
      /\ t.hd = s.hd /\ t.dbm = s.dbm /\ t.blk = B /\ t.hi = s.hi /\ t.ibm = s.ibm
  BY Zenon, <1>3, <1>4 DEF Image
<1>6. t.inode[i] = n /\ \A j \in Inum \ {i} : t.inode[j] = s.inode[j]
  BY <1>1, <1>5
<1>7. Changed(s, t, i, s.inode[i].direct, z, B)
  BY Zenon, <1>2, <1>5, <1>6 DEF Changed
<1>8. QED
  BY Zenon, <1>0, <1>7

\* The blocks write_file finds missing are the last ones up to ofd, as many as their
\* distance from it says.
LEMMA MissingCount ==
  ASSUME NEW ofd \in Nat, NEW F,
         NEW missing, missing = {d \in 0..ofd : \A e \in d..ofd : F[e] = -1}
  PROVE  /\ Cardinality(missing) \in Nat
         /\ \A d \in missing : ofd - d + 1 =< Cardinality(missing)
<1>1. IsFiniteSet(0..ofd) /\ missing \subseteq 0..ofd
  BY FS_Interval
<1>2. IsFiniteSet(missing) /\ Cardinality(missing) \in Nat
  BY Zenon, <1>1, FS_Subset, FS_CardinalityType
<1>3. ASSUME NEW d \in missing PROVE ofd - d + 1 =< Cardinality(missing)
  <2>1. d \in 0..ofd /\ \A e \in d..ofd : F[e] = -1
    OBVIOUS
  <2>2. ASSUME NEW c \in d..ofd PROVE c \in missing
    <3>1. c \in 0..ofd /\ c..ofd \subseteq d..ofd
      BY <2>1
    <3>2. QED
      BY <3>1, <2>1, Zenon
  <2>3. d..ofd \in SUBSET missing
    BY <2>2, Zenon
  <2>4. Cardinality(d..ofd) =< Cardinality(missing)
    BY Zenon, <1>2, <2>3, FS_Subset
  <2>5. Cardinality(d..ofd) = ofd - d + 1
    BY <2>1, FS_Interval
  <2>6. QED
    BY <2>4, <2>5
<1>4. QED
  BY Zenon, <1>2, <1>3

\* The pointers of inode i once write_file has mapped the blocks up to ofd.
MappedTo(s, i, ofd, missing) ==
  [d \in 0..(DP - 1) |-> IF d \in missing THEN NewAddr(s) + ofd - d ELSE s.inode[i].direct[d]]

\* t is s with the blocks of inode i up to ofd mapped.
MapsUpTo(s, t, i, ofd) ==
  /\ Grown(s, t, i)
  /\ t.inode[i].size = s.inode[i].size
  /\ Direct(t, i, ofd) # -1
  /\ \A d \in 0..ofd : Direct(t, i, d) # -1

\* write_file maps what is missing.
LEMMA MapMissing ==
  ASSUME NEW s, SoundImage(s), NEW i \in Inum, i \in 0..s.hi, NEW ofd \in 0..(DP - 1),
         NEW missing, missing = {d \in 0..ofd : \A e \in d..ofd : s.inode[i].direct[e] = -1},
         NEW k, k = Cardinality(missing), s.hd + k =< LastBlock,
         NEW t, t = Remapped(AllocDblk(s, k), i, MappedTo(s, i, ofd, missing))
  PROVE  MapsUpTo(s, t, i, ofd)
<1>1. s \in Image /\ CountersExact(s)
  BY Zenon DEF SoundImage
<1>2. s.hd \in Nat /\ s.hd < ND /\ ofd \in Nat /\ s.hi \in Nat
  BY <1>1, ImageFields, Sizes
<1>3. k \in Nat /\ \A d \in missing : ofd - d + 1 =< k
  <2>1. PICK F : F = s.inode[i].direct
    BY Zenon
  <2>2. missing = {d \in 0..ofd : \A e \in d..ofd : F[e] = -1}
    BY Zenon, <2>1
  <2>3. QED
    BY ZenonT(30), <1>2, <2>2, MissingCount
<1>4. PICK u : u = AllocDblk(s, k)
  BY Zenon
<1>5. /\ u \in Image /\ CountersExact(u) /\ u.hd = s.hd + k
      /\ u.inode = s.inode /\ u.blk = s.blk /\ u.hi = s.hi /\ u.ibm = s.ibm
  <2>1. ~(s.hd + k > LastBlock)
    BY <1>2, <1>3, Sizes DEF LastBlock
  <2>2. HandedOut(s, u, IF s.hd + k > LastBlock THEN LastBlock ELSE s.hd + k)
    BY Zenon, <1>1, <1>3, <1>4, AllocFacts
  <2>3. HandedOut(s, u, s.hd + k)
    BY Zenon, <2>1, <2>2
  <2>4. QED
    BY Zenon, <2>3 DEF HandedOut
<1>6. PICK G : G = MappedTo(s, i, ofd, missing)
  BY Zenon
<1>7. \A d \in 0..(DP - 1) :
        /\ d \in missing => G[d] = s.hd + 2 + ofd - d
        /\ d \notin missing => G[d] = Direct(s, i, d)
  BY <1>2, <1>6 DEF MappedTo, NewAddr, Direct, FirstData
<1>8. missing \subseteq 0..ofd
  OBVIOUS
<1>9. \A d \in missing : s.hd + 2 =< s.hd + 2 + ofd - d /\ s.hd + 2 + ofd - d =< s.hd + k + 1
  BY <1>2, <1>3, <1>8
<1>10. s.hd + k =< ND - 1
  BY <1>3 DEF LastBlock
<1>11. G \in [0..(DP - 1) -> Addr \cup {-1}]
  <2>1. ASSUME NEW d \in 0..(DP - 1) PROVE G[d] \in Addr \cup {-1}
    <3>1. CASE d \in missing
      BY <3>1, <1>2, <1>3, <1>7, <1>9, <1>10, Sizes DEF Addr
    <3>2. CASE d \notin missing
      BY ZenonT(30), <3>2, <1>1, <1>7, DirectType
    <3>3. QED
      BY <3>1, <3>2
  <2>2. G = [d \in 0..(DP - 1) |-> G[d]]
    BY <1>6 DEF MappedTo
  <2>3. QED
    BY <2>1, <2>2, Zenon
<1>12. /\ t \in Image
       /\ t.hd = u.hd /\ t.dbm = u.dbm /\ t.blk = u.blk /\ t.hi = u.hi /\ t.ibm = u.ibm
       /\ \A j \in Inum \ {i} : t.inode[j] = u.inode[j]
       /\ t.inode[i].direct = G /\ t.inode[i].size = u.inode[i].size
  <2>1. t = Remapped(u, i, G)
    BY Zenon, <1>4, <1>6
  <2>2. Changed(u, t, i, G, u.inode[i].size, u.blk)
    BY Zenon, <2>1, <1>5, <1>11, SetDirect
  <2>3. QED
    BY Zenon, <2>2 DEF Changed
<1>13. \A d \in 0..(DP - 1) : Direct(t, i, d) = G[d]
  BY Zenon, <1>12 DEF Direct
<1>14. ASSUME NEW d \in 0..(DP - 1)
       PROVE  \/ \E e \in 0..(DP - 1) : Direct(t, i, d) = Direct(s, i, e)
              \/ s.hd + 1 < Direct(t, i, d) /\ Direct(t, i, d) =< t.hd + 1
  <2>1. CASE d \in missing
    <3>1. Direct(t, i, d) = s.hd + 2 + ofd - d
      BY Zenon, <1>7, <1>13, <2>1
    <3>2. t.hd = s.hd + k
      BY Zenon, <1>5, <1>12
    <3>3. s.hd + 2 =< Direct(t, i, d) /\ Direct(t, i, d) =< s.hd + k + 1
      BY Zenon, <3>1, <2>1, <1>9
    <3>4. Direct(t, i, d) \in Int
      BY Zenon, <1>12, DirectType
    <3>5. QED
      BY Zenon, <3>2, <3>3, <3>4, <1>2, <1>3, NextOnes
  <2>2. CASE d \notin missing
    BY Zenon, <2>2, <1>7, <1>13
  <2>3. QED
    BY Zenon, <2>1, <2>2
<1>15. ASSUME NEW d \in missing PROVE Direct(t, i, d) # -1
  <2>1. d \in 0..ofd /\ d \in 0..(DP - 1)
    BY <1>8, Sizes
  <2>2. Direct(t, i, d) = s.hd + 2 + ofd - d
    BY Zenon, <1>7, <1>13, <2>1
  <2>3. QED
    BY <2>1, <2>2, <1>2
<1>16. Direct(t, i, ofd) # -1
  <2>1. CASE s.inode[i].direct[ofd] = -1
    <3>1. \A e \in ofd..ofd : e = ofd
      BY <1>2
    <3>2. ofd \in 0..ofd
      BY <1>2
    <3>3. ofd \in missing
      BY Zenon, <2>1, <3>1, <3>2
    <3>4. QED
      BY Zenon, <3>3, <1>15
  <2>2. CASE s.inode[i].direct[ofd] # -1
    <3>1. ofd \in ofd..ofd
      BY <1>2
    <3>2. ofd \notin missing
      BY Zenon, <2>2, <3>1
    <3>3. QED
      BY Zenon, <3>2, <2>2, <1>7, <1>13 DEF Direct
  <2>3. QED
    BY <2>1, <2>2
<1>17. ASSUME NEW d \in 0..ofd PROVE Direct(t, i, d) # -1
  <2>1. d \in 0..(DP - 1) /\ i \in 0..s.hi
    BY <1>2, Sizes
  <2>2. CASE d \in missing
    BY Zenon, <2>2, <1>15
  <2>3. CASE d \notin missing
    <3>1. PICK e \in d..ofd : Direct(s, i, e) # -1
      BY Zenon, <2>3 DEF Direct
    <3>2. e \in 0..(DP - 1) /\ (d < e \/ d = e)
      BY <2>1, <1>2, Sizes
    <3>3. Direct(s, i, d) # -1
      BY Zenon, <2>1, <3>1, <3>2 DEF SoundImage, NoHoles
    <3>4. QED
      BY Zenon, <2>1, <2>3, <3>3, <1>7, <1>13
  <2>4. QED
    BY <2>2, <2>3
<1>18. ASSUME NEW d \in 0..(DP - 1)
       PROVE  /\ Direct(t, i, d) # -1 => \A e \in 0..(DP - 1) : e < d => Direct(t, i, e) # -1
              /\ d * BS < t.inode[i].size => Direct(t, i, d) # -1
  <2>1. i \in 0..s.hi
    OBVIOUS
  <2>2. CASE d \in 0..ofd
    <3>1. \A e \in 0..(DP - 1) : e < d => e \in 0..ofd
      BY <2>2, <1>2, Sizes
    <3>2. QED
      BY Zenon, <2>2, <3>1, <1>17
  <2>3. CASE d \notin 0..ofd
    <3>1. d \notin missing
      BY Zenon, <1>8, <2>3
    <3>2. Direct(t, i, d) = Direct(s, i, d)
      BY Zenon, <3>1, <1>7, <1>13
    <3>3. ASSUME NEW e \in 0..(DP - 1), e < d, Direct(t, i, d) # -1 PROVE Direct(t, i, e) # -1
      <4>1. Direct(s, i, e) # -1
        BY Zenon, <2>1, <3>2, <3>3 DEF SoundImage, NoHoles
      <4>2. QED
        BY Zenon, <4>1, <1>7, <1>13, <1>15
    <3>4. t.inode[i].size = s.inode[i].size
      BY Zenon, <1>5, <1>12
    <3>5. QED
      BY Zenon, <2>1, <3>2, <3>3, <3>4 DEF SoundImage, SizeMapped
  <2>4. QED
    BY Zenon, <2>2, <2>3
<1>19. s.hd =< t.hd /\ t.dbm = 0..t.hd /\ t.hi = s.hi /\ t.ibm = s.ibm /\ t.hd = s.hd + k
  <2>1. t.hd = s.hd + k /\ u.dbm = 0..u.hd
    BY Zenon, <1>5, <1>12 DEF CountersExact
  <2>2. s.hd =< s.hd + k
    BY <1>2, <1>3
  <2>3. QED
    BY Zenon, <2>1, <2>2, <1>5, <1>12
<1>k. EntriesKnown(t)
  <2>0. t.hi = s.hi /\ t.blk = s.blk
    BY Zenon, <1>5, <1>12, <1>19
  <2>1. s.hi =< s.hi
    <3>1. s.hi \in Nat
      BY Zenon, <1>1, ImageFields
    <3>2. QED
      BY <3>1
  <2>2. s.hi =< t.hi
    BY Zenon, <2>0, <2>1
  <2>3. QED
    BY Zenon, <2>0, <2>2, <1>1, <1>12, KnownStays DEF SoundImage
<1>20. Grown(s, t, i)
  BY ZenonT(30), <1>k, <1>5, <1>12, <1>14, <1>18, <1>19 DEF Grown, FirstData
<1>21. QED
  BY Zenon, <1>5, <1>12, <1>16, <1>17, <1>20 DEF MapsUpTo

\* t is s with one more block of inode i.
MapsNext(s, t, i, ofd) ==
  /\ MapsUpTo(s, t, i, ofd + 1)
  /\ Direct(t, i, ofd + 1) = s.hd + 2
  /\ Direct(t, i, ofd) = Direct(s, i, ofd)

\* write_file takes one more block for data that goes on in the next one.
LEMMA MapSecond ==
  ASSUME NEW s, SoundImage(s), NEW i \in Inum, i \in 0..s.hi, NEW ofd \in 0..(DP - 1), ofd + 1 =< DP - 1,
         s.hd < LastBlock, \A d \in 0..ofd : Direct(s, i, d) # -1,
         NEW F, F = [s.inode[i].direct EXCEPT ![ofd + 1] = NewAddr(s)],
         NEW t, t = Remapped(AllocDblk(s, 1), i, F)
  PROVE  MapsNext(s, t, i, ofd)
<1>1. s \in Image /\ CountersExact(s)
  BY Zenon DEF SoundImage
<1>2. s.hd \in Nat /\ s.hd < ND /\ ofd \in Nat /\ ofd + 1 \in 0..(DP - 1)
  BY <1>1, ImageFields, Sizes
<1>3. s.hd + 1 =< ND - 1 /\ ~(s.hd + 1 > LastBlock) /\ 1 \in Nat
  BY <1>2, Sizes DEF LastBlock
<1>4. PICK u : u = AllocDblk(s, 1)
  BY Zenon
<1>5. HandedOut(s, u, s.hd + 1)
  <2>1. HandedOut(s, u, IF s.hd + 1 > LastBlock THEN LastBlock ELSE s.hd + 1)
    BY Zenon, <1>1, <1>3, <1>4, AllocFacts
  <2>2. QED
    BY Zenon, <1>3, <2>1
<1>6. NewAddr(s) = s.hd + 2 /\ s.hd + 2 \in Addr
  BY <1>2, <1>3, Sizes DEF NewAddr, FirstData, Addr
<1>7. s.inode[i].direct \in [0..(DP - 1) -> Addr \cup {-1}]
  BY Zenon, <1>1, InodeFields
<1>8. F \in [0..(DP - 1) -> Addr \cup {-1}]
  BY <1>6, <1>7
<1>9. F[ofd + 1] = s.hd + 2 /\ \A d \in 0..(DP - 1) : d # ofd + 1 => F[d] = Direct(s, i, d)
  BY Zenon, <1>2, <1>6, <1>7 DEF Direct
<1>10. Changed(u, t, i, F, u.inode[i].size, u.blk)
  <2>1. u \in Image
    BY Zenon, <1>5 DEF HandedOut
  <2>2. QED
    BY Zenon, <2>1, <1>4, <1>8, SetDirect
<1>11. /\ t \in Image /\ t.hd = s.hd + 1 /\ t.dbm = 0..t.hd /\ t.hi = s.hi /\ t.ibm = s.ibm
       /\ t.blk = s.blk /\ t.inode[i].size = s.inode[i].size
       /\ \A j \in Inum \ {i} : t.inode[j] = s.inode[j]
  BY Zenon, <1>5, <1>10 DEF HandedOut, Changed, CountersExact
<1>12. \A d \in 0..(DP - 1) : Direct(t, i, d) = F[d]
  BY Zenon, <1>10 DEF Changed, Direct
<1>13. Direct(t, i, ofd + 1) = s.hd + 2
  BY Zenon, <1>2, <1>9, <1>12
<1>14. \A d \in 0..(DP - 1) : d # ofd + 1 => Direct(t, i, d) = Direct(s, i, d)
  BY Zenon, <1>9, <1>12
<1>15. s.hd + 2 # -1 /\ s.hd + 1 < s.hd + 2 /\ s.hd + 2 =< (s.hd + 1) + 1 /\ s.hd =< s.hd + 1
  BY <1>2
<1>16. ofd # ofd + 1 /\ \A d \in 0..(ofd + 1) : d \in 0..ofd \/ d = ofd + 1
  BY <1>2
<1>17. 0..ofd \subseteq 0..(DP - 1) /\ ofd + 1 \notin 0..ofd
  BY <1>2, Sizes
<1>18. \A d \in 0..(ofd + 1) : Direct(t, i, d) # -1
  <2>1. ASSUME NEW d \in 0..ofd PROVE Direct(t, i, d) # -1
    BY Zenon, <1>14, <1>17
  <2>2. Direct(t, i, ofd + 1) # -1
    BY Zenon, <1>13, <1>15
  <2>3. QED
    BY Zenon, <2>1, <2>2, <1>16
<1>19. ASSUME NEW d \in 0..(DP - 1)
       PROVE  /\ Direct(t, i, d) # -1 => \A e \in 0..(DP - 1) : e < d => Direct(t, i, e) # -1
              /\ d * BS < t.inode[i].size => Direct(t, i, d) # -1
  <2>1. i \in 0..s.hi
    OBVIOUS
  <2>2. CASE d \in 0..(ofd + 1)
    <3>1. \A e \in 0..(DP - 1) : e < d => e \in 0..(ofd + 1)
      BY <2>2, <1>2, Sizes
    <3>2. QED
      BY Zenon, <2>2, <3>1, <1>18
  <2>3. CASE d \notin 0..(ofd + 1)
    <3>1. d # ofd + 1
      BY <2>3, <1>2
    <3>2. Direct(t, i, d) = Direct(s, i, d)
      BY Zenon, <3>1, <1>14
    <3>3. ASSUME NEW e \in 0..(DP - 1), e < d, Direct(t, i, d) # -1 PROVE Direct(t, i, e) # -1
      <4>1. Direct(s, i, e) # -1
        BY Zenon, <2>1, <3>2, <3>3 DEF SoundImage, NoHoles
      <4>2. QED
        BY Zenon, <4>1, <1>13, <1>14, <1>15
    <3>4. QED
      BY Zenon, <2>1, <3>2, <3>3, <1>11 DEF SoundImage, SizeMapped
  <2>4. QED
    BY <2>2, <2>3
<1>20. ASSUME NEW d \in 0..(DP - 1)
       PROVE  \/ \E e \in 0..(DP - 1) : Direct(t, i, d) = Direct(s, i, e)
              \/ s.hd + 1 < Direct(t, i, d) /\ Direct(t, i, d) =< t.hd + 1
  BY Zenon, <1>11, <1>13, <1>14, <1>15
<1>21. s.hd =< t.hd
  BY Zenon, <1>11, <1>15
<1>k. EntriesKnown(t)
  <2>1. s.hi =< t.hi
    BY <1>1, <1>11, ImageFields
  <2>2. QED
    BY Zenon, <2>1, <1>1, <1>11, KnownStays DEF SoundImage
<1>22. Grown(s, t, i)
  BY Zenon, <1>k, <1>11, <1>19, <1>20, <1>21 DEF Grown, FirstData
<1>23. MapsUpTo(s, t, i, ofd + 1)
  BY Zenon, <1>11, <1>13, <1>15, <1>18, <1>22 DEF MapsUpTo
<1>24. QED
  <2>1. ofd \in 0..(DP - 1)
    OBVIOUS
  <2>2. QED
    BY Zenon, <2>1, <1>13, <1>14, <1>16, <1>23 DEF MapsNext

\* The blocks after the data was written.
StoredBlocks(s, i, buf, offset) ==
  LET direct == s.inode[i].direct
      ofd == offset \div BS
      ofr == offset % BS
      fits == BS - ofr
      first(j) == ofr <= j /\ j < ofr + Len(buf)
      slot(a, j) == IF a = direct[ofd] /\ first(j) THEN buf[j - ofr + 1]
                    ELSE IF j < Len(buf) - fits /\ a = direct[ofd + 1] THEN buf[fits + j + 1]
                    ELSE s.blk[a][j]
  IN [a \in Addr |-> [j \in 0..(BS - 1) |-> slot(a, j)]]

StoredSize(s, i, buf, offset) ==
  IF offset + Len(buf) > s.inode[i].size THEN offset + Len(buf) ELSE s.inode[i].size

\* The last part of write_file changes the blocks and the size of the inode only.
LEMMA StoredIs ==
  ASSUME NEW s \in Image, NEW i \in Inum, NEW buf, NEW offset
  PROVE  Stored(s, i, buf, offset) =
           Refilled(s, i, StoredSize(s, i, buf, offset), StoredBlocks(s, i, buf, offset))
<1>1. PICK B : B = StoredBlocks(s, i, buf, offset)
  BY Zenon
<1>2. Stored(s, i, buf, offset) =
        [s EXCEPT !.blk = B,
                  !.inode[i].size = IF offset + Len(buf) > @ THEN offset + Len(buf) ELSE @]
  BY Zenon, <1>1 DEF Stored, StoredBlocks
<1>3. PICK e : e = offset + Len(buf)
  BY Zenon
<1>4. Stored(s, i, buf, offset) = [s EXCEPT !.blk = B, !.inode[i].size = IF e > @ THEN e ELSE @]
  BY Zenon, <1>2, <1>3
<1>5. PICK z : z = IF e > s.inode[i].size THEN e ELSE s.inode[i].size
  BY Zenon
<1>6. [s EXCEPT !.blk = B, !.inode[i].size = IF e > @ THEN e ELSE @] =
        [s EXCEPT !.blk = B, !.inode[i].size = z]
  BY <1>5 DEF Image
<1>7. QED
  BY Zenon, <1>1, <1>3, <1>4, <1>5, <1>6 DEF Refilled, StoredSize

\* A slot is in the buffer, in the first or the second block, or as it was.
SlotStored(s, i, n, buf, ofd, ofr, B, a, j) ==
  /\ a = s.inode[i].direct[ofd] /\ ofr =< j /\ j < ofr + n => B[a][j] = buf[j - ofr + 1]
  /\ a # s.inode[i].direct[ofd] /\ j < n - (BS - ofr) /\ a = s.inode[i].direct[ofd + 1]
       => B[a][j] = buf[BS - ofr + j + 1]
  /\ a # s.inode[i].direct[ofd] /\ ~(j < n - (BS - ofr) /\ a = s.inode[i].direct[ofd + 1])
       => B[a][j] = s.blk[a][j]
  /\ B[a][j] \in Slot

\* What each slot of each block holds afterwards: data or what it held.
LEMMA StoredSlots ==
  ASSUME NEW s \in Image, NEW i \in Inum, NEW n \in 1..BS, NEW buf \in [1..n -> Slot],
         NEW offset \in Nat, NEW a \in Addr, NEW j \in 0..(BS - 1)
  PROVE  SlotStored(s, i, n, buf, offset \div BS, offset % BS,
                    StoredBlocks(s, i, buf, offset), a, j)
<1> DEFINE D == s.inode[i].direct
<1>0. PICK ofd, ofr, B :
        ofd = offset \div BS /\ ofr = offset % BS /\ B = StoredBlocks(s, i, buf, offset)
  BY Zenon
<1>1. n \in Nat /\ n >= 1 /\ n =< BS /\ Len(buf) = n
  BY Sizes
<1>2. ofd \in Nat /\ ofr \in 0..(BS - 1)
  BY Zenon, <1>0, Sizes, DivModNumbers
<1>3. B[a][j] = IF a = D[ofd] /\ (ofr <= j /\ j < ofr + n) THEN buf[j - ofr + 1]
                ELSE IF j < n - (BS - ofr) /\ a = D[ofd + 1] THEN buf[(BS - ofr) + j + 1]
                ELSE s.blk[a][j]
  <2>1. B = [b \in Addr |-> [k \in 0..(BS - 1) |->
              IF b = D[ofd] /\ (ofr <= k /\ k < ofr + n) THEN buf[k - ofr + 1]
              ELSE IF k < n - (BS - ofr) /\ b = D[ofd + 1] THEN buf[(BS - ofr) + k + 1]
              ELSE s.blk[b][k]]]
    BY Zenon, <1>0, <1>1 DEF StoredBlocks
  <2>2. B[a] = [k \in 0..(BS - 1) |->
              IF a = D[ofd] /\ (ofr <= k /\ k < ofr + n) THEN buf[k - ofr + 1]
              ELSE IF k < n - (BS - ofr) /\ a = D[ofd + 1] THEN buf[(BS - ofr) + k + 1]
              ELSE s.blk[a][k]]
    BY Zenon, <2>1
  <2>3. QED
    BY Zenon, <2>2
<1> HIDE DEF D
<1>4. ofr <= j /\ j < ofr + n => j - ofr + 1 \in 1..n
  BY <1>1, <1>2, Sizes
<1>5. j < n - (BS - ofr) => (BS - ofr) + j + 1 \in 1..n
  BY <1>1, <1>2, Sizes
<1>6. s.blk[a][j] \in Slot
  <2>1. s.blk \in [Addr -> [0..(BS - 1) -> Slot]]
    BY Zenon, ImageFields
  <2>2. QED
    BY Zenon, <2>1
<1>7. \A x \in 1..n : buf[x] \in Slot
  BY Zenon
<1>8. B[a][j] \in Slot
  BY Zenon, <1>3, <1>4, <1>5, <1>6, <1>7
<1>9. SlotStored(s, i, n, buf, ofd, ofr, B, a, j)
  BY Zenon, <1>3, <1>8 DEF D, SlotStored
<1>10. QED
  BY Zenon, <1>0, <1>9

\* A slot is left alone or comes from the buffer.
CameFrom(s, n, buf, B, a, j) == B[a][j] = s.blk[a][j] \/ \E x \in 1..n : B[a][j] = buf[x]

\* write_file leaves no other slot.
LEMMA SlotFrom ==
  ASSUME NEW s, NEW i, NEW n \in 1..BS, NEW buf \in [1..n -> Slot],
         NEW offset \in Nat, NEW a \in Addr, NEW j \in 0..(BS - 1),
         NEW B, B = StoredBlocks(s, i, buf, offset)
  PROVE  CameFrom(s, n, buf, B, a, j)
<1> DEFINE D == s.inode[i].direct
<1>1. PICK ofd, ofr : ofd = offset \div BS /\ ofr = offset % BS
  BY Zenon
<1>2. n \in Nat /\ n =< BS /\ Len(buf) = n /\ ofr \in 0..(BS - 1)
  <2>1. ofr \in 0..(BS - 1)
    BY Zenon, <1>1, Sizes, DivModNumbers
  <2>2. QED
    BY <2>1, Sizes
<1>3. B = [b \in Addr |-> [k \in 0..(BS - 1) |->
            IF b = D[ofd] /\ (ofr <= k /\ k < ofr + n) THEN buf[k - ofr + 1]
            ELSE IF k < n - (BS - ofr) /\ b = D[ofd + 1] THEN buf[(BS - ofr) + k + 1]
            ELSE s.blk[b][k]]]
  BY Zenon, <1>1, <1>2 DEF StoredBlocks
<1>4. B[a][j] = IF a = D[ofd] /\ (ofr <= j /\ j < ofr + n) THEN buf[j - ofr + 1]
                ELSE IF j < n - (BS - ofr) /\ a = D[ofd + 1] THEN buf[(BS - ofr) + j + 1]
                ELSE s.blk[a][j]
  <2>1. B[a] = [k \in 0..(BS - 1) |->
            IF a = D[ofd] /\ (ofr <= k /\ k < ofr + n) THEN buf[k - ofr + 1]
            ELSE IF k < n - (BS - ofr) /\ a = D[ofd + 1] THEN buf[(BS - ofr) + k + 1]
            ELSE s.blk[a][k]]
    BY Zenon, <1>3
  <2>2. QED
    BY Zenon, <2>1
<1> HIDE DEF D
<1>5. ofr <= j /\ j < ofr + n => j - ofr + 1 \in 1..n
  BY <1>2, Sizes
<1>6. j < n - (BS - ofr) => (BS - ofr) + j + 1 \in 1..n
  BY <1>2, Sizes
<1>7. QED
  BY Zenon, <1>4, <1>5, <1>6 DEF CameFrom

\* A function of two arguments, one after the other.
LEMMA Curried ==
  ASSUME NEW X, NEW Y, NEW S, NEW f, \A a \in X : \A j \in Y : f[a][j] \in S
  PROVE  [a \in X |-> [j \in Y |-> f[a][j]]] \in [X -> [Y -> S]]
OBVIOUS

\* Blocks that agree in every slot are equal.
IsBlock(f) == f \in [0..(BS - 1) -> Slot]
Same(f, g) == f = g

\* Extensionality, for the slots of a block.
LEMMA SameBlock ==
  ASSUME NEW f, NEW g, IsBlock(f), IsBlock(g), \A j \in 0..(BS - 1) : f[j] = g[j]
  PROVE  Same(f, g)
<1>1. PICK X, S : X = 0..(BS - 1) /\ S = Slot
  BY Zenon
<1>2. f \in [X -> S] /\ g \in [X -> S] /\ \A j \in X : f[j] = g[j]
  BY Zenon, <1>1 DEF IsBlock
<1>3. f = g
  BY <1>2
<1>4. QED
  BY <1>3, Zenon DEF Same

\* The slots of a block.
LEMMA BlocksTyped ==
  ASSUME NEW s, NEW i, NEW buf, NEW offset, NEW B, B = StoredBlocks(s, i, buf, offset),
         \A a \in Addr : \A j \in 0..(BS - 1) : B[a][j] \in Slot
  PROVE  B \in [Addr -> [0..(BS - 1) -> Slot]]
<1>1. B = [a \in Addr |-> [j \in 0..(BS - 1) |-> B[a][j]]]
  BY DEF StoredBlocks
<1>2. [a \in Addr |-> [j \in 0..(BS - 1) |-> B[a][j]]] \in [Addr -> [0..(BS - 1) -> Slot]]
  <2>1. PICK f : f = B
    BY Zenon
  <2>2. [a \in Addr |-> [j \in 0..(BS - 1) |-> f[a][j]]] \in [Addr -> [0..(BS - 1) -> Slot]]
    BY Zenon, <2>1, Curried
  <2>3. QED
    BY Zenon, <2>1, <2>2
<1>3. QED
  BY Zenon, <1>1, <1>2

\* t is s with the data in the blocks of inode i.
StoresData(s, t, i, buf, offset) ==
  /\ Grown(s, t, i)
  /\ Changed(s, t, i, s.inode[i].direct, StoredSize(s, i, buf, offset),
             StoredBlocks(s, i, buf, offset))

\* write_file, once the blocks of the data are mapped.
LEMMA StoreData ==
  ASSUME NEW s, SoundImage(s), NEW i \in Inum, i \in 0..s.hi, NEW n \in 1..BS,
         NEW buf \in [1..n -> Slot], \A x \in 1..n : Known(buf[x], s.hi),
         NEW offset \in Nat, NEW ofd, ofd = offset \div BS, NEW ofr, ofr = offset % BS,
         NEW last \in 0..(DP - 1), (last = ofd /\ n =< BS - ofr) \/ last = ofd + 1,
         \A d \in 0..last : Direct(s, i, d) # -1,
         NEW t, t = Stored(s, i, buf, offset)
  PROVE  StoresData(s, t, i, buf, offset)
<1>1. s \in Image /\ s.hi \in Nat /\ CountersExact(s)
  BY Zenon, ImageFields DEF SoundImage
<1>2. ofd \in Nat /\ ofr \in 0..(BS - 1) /\ offset = BS * ofd + ofr
  BY Sizes, DivMod
<1>3. n \in Nat /\ n =< BS /\ Len(buf) = n
  BY Sizes
<1>4. PICK z : z = StoredSize(s, i, buf, offset)
  BY Zenon
<1>5. PICK B : B = StoredBlocks(s, i, buf, offset)
  BY Zenon
<1>6. s.inode[i].size \in 0..(DP * BS) /\ s.inode[i].size \in Nat
  BY Zenon, <1>1, InodeFields
<1>7. z = IF offset + n > s.inode[i].size THEN offset + n ELSE s.inode[i].size
  BY Zenon, <1>3, <1>4 DEF StoredSize
<1>8. last \in Nat /\ offset + n =< last * BS + BS /\ last * BS \in Nat
  <2>1. last \in Nat /\ last * BS \in Nat
    BY Sizes
  <2>2. CASE last = ofd /\ n =< BS - ofr
    BY <2>1, <2>2, <1>2, <1>3, Sizes
  <2>3. CASE last = ofd + 1
    BY <2>1, <2>3, <1>2, <1>3, Sizes
  <2>4. QED
    BY <2>1, <2>2, <2>3
<1>9. last * BS + BS =< DP * BS
  BY <1>8, Sizes, Times
<1>10. z \in 0..(DP * BS)
  BY <1>3, <1>6, <1>7, <1>8, <1>9, Sizes
<1>11. ASSUME NEW a \in Addr, NEW j \in 0..(BS - 1)
       PROVE  /\ B[a][j] \in Slot
              /\ (\A d \in 0..(DP - 1) : Direct(s, i, d) # a) => B[a][j] = s.blk[a][j]
  <2>0. SlotStored(s, i, n, buf, ofd, ofr, B, a, j)
    BY Zenon, <1>1, <1>5, StoredSlots
  <2>1. B[a][j] \in Slot
    BY Zenon, <2>0 DEF SlotStored
  <2>2. ASSUME \A d \in 0..(DP - 1) : Direct(s, i, d) # a PROVE B[a][j] = s.blk[a][j]
    <3>1. ofd \in 0..(DP - 1)
      BY <1>2, Sizes
    <3>2. a # s.inode[i].direct[ofd]
      BY Zenon, <2>2, <3>1 DEF Direct
    <3>3. ~(j < n - (BS - ofr) /\ a = s.inode[i].direct[ofd + 1])
      <4>1. CASE last = ofd /\ n =< BS - ofr
        BY <4>1, <1>2, <1>3, Sizes
      <4>2. CASE last = ofd + 1
        BY Zenon, <4>2, <2>2 DEF Direct
      <4>3. QED
        BY <4>1, <4>2
    <3>4. QED
      BY Zenon, <3>2, <3>3, <2>0 DEF SlotStored
  <2>3. QED
    BY Zenon, <2>1, <2>2
<1>12. B \in [Addr -> [0..(BS - 1) -> Slot]]
  BY Zenon, <1>5, <1>11, BlocksTyped
<1>13. Changed(s, t, i, s.inode[i].direct, z, B)
  <2>1. t = Refilled(s, i, z, B)
    BY Zenon, <1>1, <1>4, <1>5, StoredIs
  <2>2. QED
    BY Zenon, <2>1, <1>1, <1>10, <1>12, SetData
<1>14. \A d \in 0..(DP - 1) : Direct(t, i, d) = Direct(s, i, d)
  BY Zenon, <1>13 DEF Changed, Direct
<1>15. ASSUME NEW a \in Addr, \A d \in 0..(DP - 1) : Direct(s, i, d) # a
       PROVE  t.blk[a] = s.blk[a]
  <2>1. s.blk[a] \in [0..(BS - 1) -> Slot] /\ B[a] \in [0..(BS - 1) -> Slot]
    <3>1. s.blk \in [Addr -> [0..(BS - 1) -> Slot]]
      BY Zenon, <1>1, ImageFields
    <3>2. QED
      BY Zenon, <3>1, <1>12
  <2>2. \A j \in 0..(BS - 1) : B[a][j] = s.blk[a][j]
    BY Zenon, <1>11, <1>15
  <2>3. B[a] = s.blk[a]
    <3>1. IsBlock(B[a]) /\ IsBlock(s.blk[a])
      BY Zenon, <2>1 DEF IsBlock
    <3>2. Same(B[a], s.blk[a])
      BY Zenon, <3>1, <2>2, SameBlock
    <3>3. QED
      BY Zenon, <3>2 DEF Same
  <2>4. QED
    BY Zenon, <2>3, <1>13 DEF Changed
<1>16. ASSUME NEW d \in 0..(DP - 1)
       PROVE  /\ Direct(t, i, d) # -1 => \A e \in 0..(DP - 1) : e < d => Direct(t, i, e) # -1
              /\ d * BS < t.inode[i].size => Direct(t, i, d) # -1
  <2>1. i \in 0..s.hi
    OBVIOUS
  <2>2. Direct(t, i, d) # -1 => \A e \in 0..(DP - 1) : e < d => Direct(t, i, e) # -1
    BY Zenon, <2>1, <1>14 DEF SoundImage, NoHoles
  <2>3. ASSUME d * BS < t.inode[i].size PROVE Direct(t, i, d) # -1
    <3>1. t.inode[i].size = z
      BY Zenon, <1>13 DEF Changed
    <3>2. CASE d * BS < s.inode[i].size
      BY Zenon, <2>1, <3>2, <1>14 DEF SoundImage, SizeMapped
    <3>3. CASE ~(d * BS < s.inode[i].size)
      <4>1. d * BS < offset + n /\ d \in Nat
        <5>1. d \in Nat /\ d * BS \in Nat
          BY Sizes
        <5>2. QED
          BY <5>1, <2>3, <3>1, <3>3, <1>3, <1>6, <1>7
      <4>2. ~(last < d)
        <5>1. ASSUME last < d PROVE FALSE
          <6>1. last * BS + BS =< d * BS /\ d * BS \in Nat
            BY <5>1, <4>1, <1>8, Sizes, Times
          <6>2. QED
            BY <6>1, <4>1, <1>8, <1>3, Sizes
        <5>2. QED
          BY <5>1
      <4>3. d \in 0..last
        BY <4>1, <4>2, <1>8
      <4>4. QED
        BY Zenon, <4>3, <1>14
    <3>4. QED
      BY <3>2, <3>3
  <2>4. QED
    BY Zenon, <2>2, <2>3
<1>17. t.hd = s.hd /\ s.hd =< s.hd /\ t.dbm = 0..t.hd
  <2>1. s.hd =< s.hd
    BY <1>1, ImageFields
  <2>2. QED
    BY Zenon, <2>1, <1>1, <1>13 DEF Changed, CountersExact
<1>k. EntriesKnown(t)
  <2>1. ASSUME NEW a \in Addr, NEW j \in 0..(BS - 1) PROVE Known(B[a][j], s.hi)
    <3>1. Known(s.blk[a][j], s.hi)
      BY Zenon DEF SoundImage, EntriesKnown
    <3>2. CameFrom(s, n, buf, B, a, j)
      BY Zenon, <1>1, <1>5, SlotFrom
    <3>3. QED
      BY Zenon, <3>1, <3>2 DEF CameFrom
  <2>2. QED
    BY Zenon, <2>1, <1>13 DEF EntriesKnown, Changed
<1>18. Grown(s, t, i)
  BY Zenon, <1>k, <1>13, <1>14, <1>15, <1>16, <1>17 DEF Grown, Changed
<1>19. QED
  BY Zenon, <1>4, <1>5, <1>13, <1>18 DEF StoresData

\* What write_file leaves when it has written the data: the block of offset is mapped
\* and, if the data goes on in the next one, that is another block.
Wrote(t, i, n, buf, offset) ==
  \E u \in Image :
    /\ t.inode[i].direct = u.inode[i].direct
    /\ t.blk = StoredBlocks(u, i, buf, offset)
    /\ offset \div BS \in 0..(DP - 1)
    /\ Direct(u, i, offset \div BS) # -1
    /\ \/ n =< BS - (offset % BS)
       \/ /\ offset \div BS + 1 \in 0..(DP - 1)
          /\ Direct(u, i, offset \div BS + 1) # -1
          /\ Direct(u, i, offset \div BS + 1) # Direct(u, i, offset \div BS)

\* What any write_file on inode i does.
Writes(s, r, i, n, buf, offset) ==
  /\ SoundImage(r.fs) /\ Untouched(s, r.fs, i)
  /\ r.rc = 0 => Wrote(r.fs, i, n, buf, offset)

\* The pointers write_file finds missing, and the image once it has mapped them.
Missing(s, i, ofd) == {d \in 0..ofd : \A e \in d..ofd : s.inode[i].direct[e] = -1}
FirstMapped(s, i, ofd) ==
  Remapped(AllocDblk(s, Cardinality(Missing(s, i, ofd))), i, MappedTo(s, i, ofd, Missing(s, i, ofd)))
\* The image once the block after that of the offset is mapped too.
SecondMapped(s, i, ofd) ==
  Remapped(AllocDblk(s, 1), i, [s.inode[i].direct EXCEPT ![ofd + 1] = NewAddr(s)])

\* The same, one pointer being set.
SecondSet(s, i, ofd) == [AllocDblk(s, 1) EXCEPT !.inode[i].direct[ofd + 1] = NewAddr(s)]

\* Setting one pointer of the inode is remapping it.
LEMMA OnePointer ==
  ASSUME NEW s \in Image, CountersExact(s), NEW i, NEW ofd
  PROVE  SecondSet(s, i, ofd) = SecondMapped(s, i, ofd)
<1>1. PICK u : u = AllocDblk(s, 1)
  BY Zenon
<1>2. u.inode = s.inode
  <2>1. 1 \in Nat
    OBVIOUS
  <2>2. HandedOut(s, u, IF s.hd + 1 > LastBlock THEN LastBlock ELSE s.hd + 1)
    BY Zenon, <2>1, <1>1, AllocFacts
  <2>3. QED
    BY Zenon, <2>2 DEF HandedOut
<1>3. PICK v : v = NewAddr(s)
  BY Zenon
<1>4. SecondSet(s, i, ofd) = [u EXCEPT !.inode[i].direct[ofd + 1] = v]
  BY Zenon, <1>1, <1>3 DEF SecondSet
<1>5. [u EXCEPT !.inode[i].direct[ofd + 1] = v] =
        Remapped(u, i, [u.inode[i].direct EXCEPT ![ofd + 1] = v])
  BY Zenon DEF Remapped
<1>6. QED
  BY Zenon, <1>1, <1>2, <1>3, <1>4, <1>5 DEF SecondMapped

\* write_file by its cases.
LEMMA WriteUnfolded ==
  ASSUME NEW s, NEW i, NEW buf, NEW offset, NEW type
  PROVE  WriteFile(s, i, buf, offset, type) =
    IF s.inode[i].type # type \/ offset \div BS > DP - 1 THEN Result(s, -1)
    ELSE IF s.hd + Cardinality(Missing(s, i, offset \div BS)) > LastBlock
      THEN Result(AllocDblk(s, Cardinality(Missing(s, i, offset \div BS))), -1)
    ELSE IF Fits(buf, offset)
      THEN Result(Stored(FirstMapped(s, i, offset \div BS), i, buf, offset), 0)
    ELSE IF offset \div BS = DP - 1 \/ FirstMapped(s, i, offset \div BS).hd = LastBlock
      THEN Result(FirstMapped(s, i, offset \div BS), -1)
    ELSE Result(Stored(SecondSet(FirstMapped(s, i, offset \div BS), i, offset \div BS), i, buf, offset), 0)
BY Zenon DEF WriteFile, Missing, FirstMapped, Remapped, MappedTo, SecondSet

WriteCase(s, r, i, buf, offset, ofd, k, m) ==
  \/ r = Result(s, -1)
  \/ ofd =< DP - 1 /\ s.hd + k > LastBlock /\ r = Result(AllocDblk(s, k), -1)
  \/ /\ ofd =< DP - 1 /\ ~(s.hd + k > LastBlock)
     /\ \/ Fits(buf, offset) /\ r = Result(Stored(m, i, buf, offset), 0)
        \/ r = Result(m, -1)
        \/ /\ ofd # DP - 1 /\ m.hd # LastBlock
           /\ r = Result(Stored(SecondSet(m, i, ofd), i, buf, offset), 0)

\* Every result of write_file is one of these cases.
LEMMA WriteCases ==
  ASSUME NEW s, NEW i, NEW buf, NEW offset \in Nat, NEW type,
         NEW ofd, ofd = offset \div BS,
         NEW k, k = Cardinality(Missing(s, i, ofd)),
         NEW m, m = FirstMapped(s, i, ofd)
  PROVE  WriteCase(s, WriteFile(s, i, buf, offset, type), i, buf, offset, ofd, k, m)
<1>1. PICK r : r = WriteFile(s, i, buf, offset, type)
  BY Zenon
<1>2. ofd > DP - 1 \/ ofd =< DP - 1
  BY Sizes, DivModNumbers
<1>3. r = IF s.inode[i].type # type \/ ofd > DP - 1 THEN Result(s, -1)
          ELSE IF s.hd + k > LastBlock THEN Result(AllocDblk(s, k), -1)
          ELSE IF Fits(buf, offset) THEN Result(Stored(m, i, buf, offset), 0)
          ELSE IF ofd = DP - 1 \/ m.hd = LastBlock THEN Result(m, -1)
          ELSE Result(Stored(SecondSet(m, i, ofd), i, buf, offset), 0)
  BY Zenon, <1>1, WriteUnfolded
<1>4. WriteCase(s, r, i, buf, offset, ofd, k, m)
  BY Zenon, <1>2, <1>3 DEF WriteCase
<1>5. QED
  BY Zenon, <1>1, <1>4

\* The number of missing blocks is a number.
LEMMA MissingNat ==
  ASSUME NEW s, NEW i, NEW ofd \in Nat
  PROVE  Cardinality(Missing(s, i, ofd)) \in Nat
<1>1. PICK F, M : F = s.inode[i].direct /\ M = Missing(s, i, ofd)
  BY Zenon
<1>2. M = {d \in 0..ofd : \A e \in d..ofd : F[e] = -1}
  BY Zenon, <1>1 DEF Missing
<1>3. Cardinality(M) \in Nat
  BY Zenon, <1>2, MissingCount
<1>4. QED
  BY Zenon, <1>1, <1>3

\* The first part of write_file: as many blocks as are missing are handed out.
LEMMA FirstMaps ==
  ASSUME NEW s, SoundImage(s), NEW i \in Inum, i \in 0..s.hi, NEW ofd \in 0..(DP - 1),
         ~(s.hd + Cardinality(Missing(s, i, ofd)) > LastBlock)
  PROVE  MapsUpTo(s, FirstMapped(s, i, ofd), i, ofd)
<1>1. PICK k, M, m : k = Cardinality(M) /\ M = Missing(s, i, ofd) /\ m = FirstMapped(s, i, ofd)
  BY Zenon
<1>2. M = {d \in 0..ofd : \A e \in d..ofd : s.inode[i].direct[e] = -1}
  BY Zenon, <1>1 DEF Missing
<1>3. k \in Nat
  <2>1. ofd \in Nat
    BY Sizes
  <2>2. QED
    BY Zenon, <1>1, <2>1, MissingNat
<1>4. s.hd + k =< LastBlock
  <2>1. s.hd \in Nat
    BY Zenon, ImageFields DEF SoundImage
  <2>2. ~(s.hd + k > LastBlock)
    BY Zenon, <1>1
  <2>3. QED
    BY <1>3, <2>1, <2>2, Sizes DEF LastBlock
<1>5. m = Remapped(AllocDblk(s, k), i, MappedTo(s, i, ofd, M))
  BY Zenon, <1>1 DEF FirstMapped
<1>6. MapsUpTo(s, m, i, ofd)
  BY Zenon, <1>1, <1>2, <1>4, <1>5, MapMissing
<1>7. QED
  BY Zenon, <1>1, <1>6

\* The second part: one more block.
LEMMA SecondMaps ==
  ASSUME NEW s, SoundImage(s), NEW i \in Inum, i \in 0..s.hi, NEW ofd \in 0..(DP - 1), ofd # DP - 1,
         s.hd # LastBlock, \A d \in 0..ofd : Direct(s, i, d) # -1,
         Direct(s, i, ofd) # -1
  PROVE  /\ ofd + 1 \in 0..(DP - 1)
         /\ MapsUpTo(s, SecondSet(s, i, ofd), i, ofd + 1)
         /\ Direct(SecondSet(s, i, ofd), i, ofd) = Direct(s, i, ofd)
         /\ Direct(SecondSet(s, i, ofd), i, ofd + 1) # Direct(s, i, ofd)
<1>1. s \in Image /\ CountersExact(s)
  BY Zenon DEF SoundImage
<1>2. ofd + 1 =< DP - 1 /\ s.hd < LastBlock /\ s.hd \in Nat
  <2>1. s.hd \in Nat /\ s.hd < ND
    BY Zenon, <1>1, ImageFields
  <2>2. QED
    BY <2>1, Sizes DEF LastBlock
<1>3. PICK t, F : t = Remapped(AllocDblk(s, 1), i, F)
                  /\ F = [s.inode[i].direct EXCEPT ![ofd + 1] = NewAddr(s)]
  BY Zenon
<1>4. t = SecondSet(s, i, ofd)
  BY Zenon, <1>1, <1>3, OnePointer DEF SecondMapped
<1>5. /\ MapsUpTo(s, t, i, ofd + 1)
      /\ Direct(t, i, ofd + 1) = s.hd + 2
      /\ Direct(t, i, ofd) = Direct(s, i, ofd)
  <2>1. MapsNext(s, t, i, ofd)
    BY Zenon, <1>2, <1>3, MapSecond
  <2>2. QED
    BY Zenon, <2>1 DEF MapsNext
<1>6. Direct(s, i, ofd) =< s.hd + 1
  BY Zenon DEF SoundImage, PointersAllocated, FirstData
<1>7. Direct(s, i, ofd) \in Int
  BY Zenon, <1>1, DirectType
<1>8. Direct(t, i, ofd + 1) # Direct(s, i, ofd)
  BY <1>2, <1>5, <1>6, <1>7
<1>9. ofd + 1 \in 0..(DP - 1)
  BY <1>2, Sizes
<1>10. QED
  BY Zenon, <1>4, <1>5, <1>8, <1>9

\* Handing out blocks is such a change.
LEMMA AllocGrown ==
  ASSUME NEW s, SoundImage(s), NEW i \in Inum, i \in 0..s.hi, NEW k \in Nat
  PROVE  Grown(s, AllocDblk(s, k), i)
<1> DEFINE last == IF s.hd + k > LastBlock THEN LastBlock ELSE s.hd + k
<1>1. s \in Image /\ CountersExact(s) /\ s.hd \in Nat /\ s.hd < ND /\ s.hi \in Nat
  BY Zenon, ImageFields DEF SoundImage
<1>2. s.hd =< last
  BY <1>1, Sizes DEF LastBlock
<1>3. PICK u : u = AllocDblk(s, k)
  BY Zenon
<1>4. HandedOut(s, u, last)
  BY Zenon, <1>1, <1>3, AllocFacts
<1> HIDE DEF last
<1>5. \A d \in 0..(DP - 1) : Direct(u, i, d) = Direct(s, i, d)
  BY Zenon, <1>4 DEF HandedOut, Direct
<1>6. EntriesKnown(u)
  <2>1. s.hi =< u.hi /\ u.blk = s.blk /\ u \in Image
    BY <1>1, <1>4 DEF HandedOut
  <2>2. QED
    BY Zenon, <2>1, <1>1, KnownStays DEF SoundImage
<1>7. \A d \in 0..(DP - 1) :
        /\ Direct(u, i, d) # -1 => \A e \in 0..(DP - 1) : e < d => Direct(u, i, e) # -1
        /\ d * BS < u.inode[i].size => Direct(u, i, d) # -1
  BY Zenon, <1>4, <1>5 DEF HandedOut, SoundImage, NoHoles, SizeMapped
<1>8. s.hd =< u.hd /\ u.dbm = 0..u.hd
  BY Zenon, <1>2, <1>4 DEF HandedOut, CountersExact
<1>9. Grown(s, u, i)
  BY Zenon, <1>4, <1>5, <1>6, <1>7, <1>8 DEF Grown, HandedOut
<1>10. QED
  BY Zenon, <1>3, <1>9

\* write_file leaves a sound image in which only inode i and its blocks are others.
LEMMA WriteDoes ==
  ASSUME NEW s, SoundImage(s), NEW i \in Inum, i \in 0..s.hi, NEW n \in 1..BS,
         NEW buf \in [1..n -> Slot], \A x \in 1..n : Known(buf[x], s.hi),
         NEW offset \in Nat, NEW type
  PROVE  Writes(s, WriteFile(s, i, buf, offset, type), i, n, buf, offset)
<1>1. PICK ofd, k, m : /\ ofd = offset \div BS /\ k = Cardinality(Missing(s, i, ofd))
                       /\ m = FirstMapped(s, i, ofd)
  BY Zenon
<1>2. ofd \in Nat
  BY Zenon, <1>1, DivModNumbers
<1>3. PICK r : r = WriteFile(s, i, buf, offset, type)
  BY Zenon
<1>10. WriteCase(s, r, i, buf, offset, ofd, k, m)
  BY Zenon, <1>1, <1>3, WriteCases
<1>4. s \in Image /\ CountersExact(s)
  BY Zenon DEF SoundImage
<1>5. -1 # 0
  OBVIOUS
<1>6. CASE r = Result(s, -1)
  <2>1. r.fs = s /\ r.rc = -1
    BY <1>6 DEF Result
  <2>2. Untouched(s, s, i)
    BY Zenon DEF Untouched
  <2>3. QED
    BY Zenon, <1>3, <1>5, <2>1, <2>2 DEF Writes
<1>7. CASE ofd =< DP - 1 /\ s.hd + k > LastBlock /\ r = Result(AllocDblk(s, k), -1)
  <2>1. r.fs = AllocDblk(s, k) /\ r.rc = -1
    BY <1>7 DEF Result
  <2>2. k \in Nat
    BY Zenon, <1>1, <1>2, MissingNat
  <2>3. Grown(s, AllocDblk(s, k), i)
    BY Zenon, <2>2, AllocGrown
  <2>4. QED
    BY Zenon, <1>3, <1>5, <2>1, <2>3, GrownSound, GrownUntouched DEF Writes
<1>8. CASE ofd =< DP - 1 /\ ~(s.hd + k > LastBlock)
  <2>1. ofd \in 0..(DP - 1)
    BY <1>2, <1>8, Sizes
  <2>2. MapsUpTo(s, m, i, ofd)
    BY Zenon, <1>1, <1>8, <2>1, FirstMaps
  <2>3. SoundImage(m) /\ Untouched(s, m, i) /\ m.hi = s.hi /\ i \in 0..m.hi
        /\ \A x \in 1..n : Known(buf[x], m.hi)
    <3>1. Grown(s, m, i)
      BY Zenon, <2>2 DEF MapsUpTo
    <3>2. m.hi = s.hi
      BY Zenon, <3>1 DEF Grown
    <3>3. QED
      BY Zenon, <3>1, <3>2, GrownSound, GrownUntouched
  <2>4. /\ Direct(m, i, ofd) # -1
        /\ \A d \in 0..ofd : Direct(m, i, d) # -1
    BY Zenon, <2>2 DEF MapsUpTo
  <2>5. CASE r = Result(m, -1)
    <3>1. r.fs = m /\ r.rc = -1
      BY <2>5 DEF Result
    <3>2. QED
      BY Zenon, <1>3, <1>5, <2>3, <3>1 DEF Writes
  <2>6. CASE Fits(buf, offset) /\ r = Result(Stored(m, i, buf, offset), 0)
    <3>1. r.fs = Stored(m, i, buf, offset)
      BY <2>6 DEF Result
    <3>2. Len(buf) = n
      BY Sizes
    <3>3. n =< BS - (offset % BS)
      BY Zenon, <2>6, <3>2 DEF Fits
    <3>4. StoresData(m, r.fs, i, buf, offset)
      BY Zenon, <1>1, <2>1, <2>3, <2>4, <3>1, <3>3, StoreData
    <3>5. SoundImage(r.fs) /\ Untouched(s, r.fs, i)
      BY Zenon, <2>3, <3>4, GrownSound, GrownUntouched, UntouchedTrans DEF StoresData
    <3>6. Wrote(r.fs, i, n, buf, offset)
      BY Zenon, <1>1, <2>1, <2>3, <2>4, <3>3, <3>4 DEF Wrote, StoresData, Changed, SoundImage
    <3>7. QED
      BY Zenon, <1>3, <3>5, <3>6 DEF Writes
  <2>7. CASE /\ ofd # DP - 1 /\ m.hd # LastBlock
             /\ r = Result(Stored(SecondSet(m, i, ofd), i, buf, offset), 0)
    <3>1. PICK w : w = SecondSet(m, i, ofd)
      BY Zenon
    <3>2. r.fs = Stored(w, i, buf, offset)
      BY <2>7, <3>1 DEF Result
    <3>3. /\ ofd + 1 \in 0..(DP - 1)
          /\ MapsUpTo(m, w, i, ofd + 1)
          /\ Direct(w, i, ofd) = Direct(m, i, ofd)
          /\ Direct(w, i, ofd + 1) # Direct(m, i, ofd)
      BY Zenon, <2>1, <2>3, <2>4, <2>7, <3>1, SecondMaps
    <3>4. SoundImage(w) /\ Untouched(s, w, i) /\ w.hi = m.hi /\ i \in 0..w.hi
          /\ \A x \in 1..n : Known(buf[x], w.hi)
      <4>1. Grown(m, w, i)
        BY Zenon, <3>3 DEF MapsUpTo
      <4>2. Untouched(m, w, i) /\ SoundImage(w)
        BY Zenon, <2>3, <4>1, GrownUntouched, GrownSound
      <4>3. w.hi = m.hi
        BY Zenon, <4>1 DEF Grown
      <4>4. QED
        BY Zenon, <2>3, <4>2, <4>3, UntouchedTrans
    <3>5. /\ Direct(w, i, ofd + 1) # -1
          /\ \A d \in 0..(ofd + 1) : Direct(w, i, d) # -1
      BY Zenon, <3>3 DEF MapsUpTo
    <3>6. StoresData(w, r.fs, i, buf, offset)
      BY Zenon, <1>1, <3>2, <3>3, <3>4, <3>5, StoreData
    <3>7. SoundImage(r.fs) /\ Untouched(s, r.fs, i)
      BY Zenon, <3>4, <3>6, GrownSound, GrownUntouched, UntouchedTrans DEF StoresData
    <3>8. Wrote(r.fs, i, n, buf, offset)
      <4>1. w \in Image /\ r.fs.inode[i].direct = w.inode[i].direct
            /\ r.fs.blk = StoredBlocks(w, i, buf, offset)
        BY Zenon, <3>4, <3>6 DEF StoresData, Changed, SoundImage
      <4>2. Direct(w, i, ofd) # -1 /\ Direct(w, i, ofd + 1) # Direct(w, i, ofd)
        BY Zenon, <2>4, <3>3
      <4>3. QED
        BY Zenon, <1>1, <2>1, <3>3, <3>5, <4>1, <4>2 DEF Wrote
    <3>9. QED
      BY Zenon, <1>3, <3>7, <3>8 DEF Writes
  <2>8. QED
    BY Zenon, <1>10, <1>6, <1>7, <1>8, <2>5, <2>6, <2>7 DEF WriteCase
<1>9. QED
  BY Zenon, <1>10, <1>6, <1>7, <1>8 DEF WriteCase

(***************************************************************************)
(* creat_file.                                                             *)
(***************************************************************************)

\* t is s with one more allocated inode, that maps nothing.
NewInodeMade(s, t) ==
  /\ SoundImage(t) /\ t.hi \in Inum /\ t.hi \notin s.ibm
  /\ t.hi \in 0..t.hi /\ 0..s.hi \subseteq 0..t.hi
  /\ t.inode[t.hi].direct = NoBlocks
  /\ \A i : Untouched(s, t, i)

\* new_inode.
LEMMA NewInodeDoes ==
  ASSUME NEW s, SoundImage(s), s.hi # NI - 1, NEW type \in {"dir", "reg"},
         NEW t, t = NewInode(s, type)
  PROVE  NewInodeMade(s, t)
<1>1. /\ s \in Image /\ CountersExact(s) /\ s.inode \in [Inum -> Inode]
      /\ s.hi \in Nat /\ s.hi < NI /\ s.hd \in Nat
  BY Zenon, ImageFields DEF SoundImage
<1>2. s.hi + 1 \in Inum /\ s.hi + 1 \notin 0..s.hi /\ (0..s.hi) \cup {s.hi + 1} = 0..(s.hi + 1)
  BY <1>1, Sizes DEF Inum
<1>3. PICK n, h : n = [type |-> type, size |-> 0, direct |-> NoBlocks] /\ h = s.hi + 1
  BY Zenon
<1>4. NoBlocks \in [0..(DP - 1) -> Addr \cup {-1}] /\ \A d \in 0..(DP - 1) : NoBlocks[d] = -1
  BY DEF NoBlocks
<1>5. n \in Inode /\ n.type = type /\ n.direct = NoBlocks /\ n.size = 0
  <2>1. 0 \in 0..(DP * BS)
    BY Sizes
  <2>2. QED
    BY <1>3, <1>4, <2>1 DEF Inode
<1>6. t = [s EXCEPT !.hi = h, !.ibm = 0..h, !.inode = [s.inode EXCEPT ![h] = n]]
  BY Zenon, <1>1, <1>2, <1>3 DEF NewInode, Image, CountersExact
<1>7. [s.inode EXCEPT ![h] = n] \in [Inum -> Inode] /\ 0..h \subseteq Inum /\ h \in Inum
  <2>1. h \in Inum
    BY Zenon, <1>2, <1>3
  <2>2. 0..h \subseteq Inum
    BY <2>1, Sizes DEF Inum
  <2>3. QED
    BY <1>1, <1>5, <2>1, <2>2
<1>8. /\ t \in Image /\ t.hi = h /\ t.ibm = 0..h /\ t.inode = [s.inode EXCEPT ![h] = n]
      /\ t.hd = s.hd /\ t.dbm = s.dbm /\ t.blk = s.blk
  BY Zenon, <1>1, <1>6, <1>7 DEF Image
<1>9. t.inode[h] = n /\ \A j \in Inum \ {h} : t.inode[j] = s.inode[j]
  BY <1>1, <1>7, <1>8
<1>10. \A d \in 0..(DP - 1) : Direct(t, h, d) = -1
  BY Zenon, <1>4, <1>5, <1>9 DEF Direct
<1>11. \A j \in Inum \ {h} : \A d \in 0..(DP - 1) : Direct(t, j, d) = Direct(s, j, d)
  BY Zenon, <1>9 DEF Direct
<1>12. CountersExact(t)
  BY Zenon, <1>1, <1>8 DEF CountersExact
<1>13. \A j \in 0..h : j # h => j \in 0..s.hi /\ j \in Inum \ {h}
  BY <1>1, <1>3, Sizes DEF Inum
<1>14. -1 # 0 /\ -1 =< s.hd + FirstData /\ -1 < FirstData
  BY <1>1 DEF FirstData
<1>15. PointersAllocated(t)
  <2>1. ASSUME NEW j \in 0..h, NEW d \in 0..(DP - 1)
        PROVE  Direct(t, j, d) =< t.hd + FirstData /\ Direct(t, j, d) # 0
    <3>1. CASE j = h
      BY Zenon, <3>1, <1>8, <1>10, <1>14
    <3>2. CASE j # h
      <4>1. Direct(t, j, d) = Direct(s, j, d) /\ j \in 0..s.hi
        BY Zenon, <3>2, <1>11, <1>13
      <4>2. Direct(s, j, d) =< s.hd + FirstData /\ Direct(s, j, d) # 0
        BY Zenon, <4>1 DEF SoundImage, PointersAllocated
      <4>3. QED
        BY Zenon, <4>1, <4>2, <1>8
    <3>3. QED
      BY <3>1, <3>2
  <2>2. QED
    BY Zenon, <2>1, <1>8 DEF PointersAllocated
<1>16. PointersDisjoint(t)
  <2>1. ASSUME NEW i \in 0..h, NEW j \in 0..h, NEW d \in 0..(DP - 1), NEW e \in 0..(DP - 1),
               i # j, Direct(t, i, d) = Direct(t, j, e)
        PROVE  Direct(t, i, d) < FirstData
    <3>1. CASE i = h \/ j = h
      BY Zenon, <2>1, <3>1, <1>10, <1>14
    <3>2. CASE i # h /\ j # h
      <4>1. Direct(t, i, d) = Direct(s, i, d) /\ Direct(t, j, e) = Direct(s, j, e)
            /\ i \in 0..s.hi /\ j \in 0..s.hi
        BY Zenon, <3>2, <1>11, <1>13
      <4>2. QED
        BY Zenon, <2>1, <4>1 DEF SoundImage, PointersDisjoint
    <3>3. QED
      BY <3>1, <3>2
  <2>2. \A i, j \in 0..h : \A d, e \in 0..(DP - 1) :
          i # j /\ Direct(t, i, d) = Direct(t, j, e) => Direct(t, i, d) < FirstData
    BY Zenon, <2>1
  <2>3. t.hi = h
    BY Zenon, <1>8
  <2>4. QED
    BY Zenon, <2>2, <2>3 DEF PointersDisjoint
<1>17. NoHoles(t) /\ SizeMapped(t)
  <2>1. ASSUME NEW j \in 0..h, NEW d \in 0..(DP - 1)
        PROVE  /\ Direct(t, j, d) # -1 => \A e \in 0..(DP - 1) : e < d => Direct(t, j, e) # -1
               /\ d * BS < t.inode[j].size => Direct(t, j, d) # -1
    <3>1. CASE j = h
      <4>1. ~(d * BS < 0)
        BY Sizes
      <4>2. QED
        BY Zenon, <3>1, <4>1, <1>5, <1>9, <1>10
    <3>2. CASE j # h
      <4>1. j \in Inum \ {h}
        BY Zenon, <3>2, <1>13
      <4>2. j \in 0..s.hi /\ t.inode[j] = s.inode[j]
        BY Zenon, <3>2, <4>1, <1>9, <1>13
      <4>3. QED
        BY Zenon, <4>1, <4>2, <1>11 DEF SoundImage, NoHoles, SizeMapped
    <3>3. QED
      BY <3>1, <3>2
  <2>2. QED
    BY Zenon, <2>1, <1>8 DEF NoHoles, SizeMapped
<1>k. EntriesKnown(t) /\ h \in 0..h /\ 0..s.hi \subseteq 0..h
  <2>1. s.hi =< t.hi /\ h \in 0..h /\ 0..s.hi \subseteq 0..h
    BY <1>1, <1>3, <1>8
  <2>2. QED
    BY Zenon, <2>1, <1>1, <1>8, KnownStays DEF SoundImage
<1>18. SoundImage(t)
  BY Zenon, <1>k, <1>8, <1>12, <1>15, <1>16, <1>17 DEF SoundImage
<1>19. ASSUME NEW i PROVE Untouched(s, t, i)
  <2>1. ASSUME NEW j \in s.ibm PROVE j \in t.ibm /\ j \in Inum \ {h}
    <3>1. j \in 0..s.hi
      BY Zenon, <1>1 DEF CountersExact
    <3>2. QED
      BY <3>1, <1>1, <1>3, <1>7, <1>8, Sizes DEF Inum
  <2>2. QED
    BY Zenon, <2>1, <1>8, <1>9 DEF Untouched
<1>20. h \notin s.ibm
  BY Zenon, <1>1, <1>2, <1>3 DEF CountersExact
<1>21. QED
  BY Zenon, <1>k, <1>5, <1>7, <1>8, <1>9, <1>18, <1>19, <1>20 DEF NewInodeMade

\* The image once creat_file has filled the block of a new directory.
DirMade(s, p) ==
  [AllocDblk(s, 1) EXCEPT !.inode[s.hi].direct[0] = NewAddr(s), !.inode[s.hi].size = 2,
                          !.blk[NewAddr(s)] = DirBlock(s.hi, p)]

\* The block of a new directory is a block.
LEMMA DirBlockType ==
  ASSUME NEW i \in Inum, NEW p \in Inum
  PROVE  DirBlock(i, p) \in [0..(BS - 1) -> Slot]
<1>1. Entry(".", i) \in Slot /\ Entry("..", p) \in Slot /\ Unused \in Slot
  BY DEF Slot, Entry, Unused
<1>2. \A j \in 0..(BS - 1) : (CASE j = 0 -> Entry(".", i) [] j = 1 -> Entry("..", p)
                                [] OTHER -> Unused) \in Slot
  BY <1>1
<1>3. QED
  BY <1>2, Zenon DEF DirBlock

\* Its entries name the directory and its parent.
LEMMA DirBlockKnown ==
  ASSUME NEW i \in Inum, NEW p \in Inum, NEW h \in Nat, i =< h, p =< h
  PROVE  \A j \in 0..(BS - 1) : Known(DirBlock(i, p)[j], h)
<1>1. Known(Entry(".", i), h) /\ Known(Entry("..", p), h) /\ Known(Unused, h)
  <2>1. i \in -1..h /\ p \in -1..h /\ -1 \in -1..h
    BY Sizes DEF Inum
  <2>2. QED
    BY <2>1 DEF Known, Entry, Unused
<1>2. ASSUME NEW j \in 0..(BS - 1) PROVE Known(DirBlock(i, p)[j], h)
  <2>1. DirBlock(i, p)[j] = CASE j = 0 -> Entry(".", i) [] j = 1 -> Entry("..", p) [] OTHER -> Unused
    BY DEF DirBlock
  <2>2. PICK e : e = DirBlock(i, p)[j]
    BY Zenon
  <2>3. e = Entry(".", i) \/ e = Entry("..", p) \/ e = Unused
    BY <2>1, <2>2
  <2>4. QED
    BY Zenon, <1>1, <2>2, <2>3
<1>3. QED
  BY Zenon, <1>2

\* It takes the next block, which no inode has.
LEMMA DirMadeGrown ==
  ASSUME NEW s, SoundImage(s), NEW p \in Inum, p \in 0..s.hi, s.hd # LastBlock,
         s.inode[s.hi].direct = NoBlocks
  PROVE  Grown(s, DirMade(s, p), s.hi)
<1>1. s \in Image /\ CountersExact(s) /\ s.hd \in Nat /\ s.hd < ND /\ s.hi \in Inum /\ s.hi \in Nat
  BY Zenon, ImageFields DEF SoundImage
<1>2. PICK u, h, a, D : u = AllocDblk(s, 1) /\ h = s.hi /\ a = NewAddr(s) /\ D = DirBlock(h, p)
  BY Zenon
<1>3. ~(s.hd + 1 > LastBlock) /\ 1 \in Nat /\ a = s.hd + 2 /\ a \in Addr /\ 0 \in 0..(DP - 1)
  BY <1>1, <1>2, Sizes DEF LastBlock, NewAddr, FirstData, Addr
<1>4. HandedOut(s, u, s.hd + 1)
  <2>1. HandedOut(s, u, IF s.hd + 1 > LastBlock THEN LastBlock ELSE s.hd + 1)
    BY Zenon, <1>1, <1>2, <1>3, AllocFacts
  <2>2. QED
    BY Zenon, <1>3, <2>1
<1>5. /\ u \in Image /\ u.hd = s.hd + 1 /\ u.dbm = 0..u.hd /\ u.hi = s.hi /\ u.ibm = s.ibm
      /\ u.inode = s.inode /\ u.blk = s.blk /\ h \in Inum
  BY Zenon, <1>1, <1>2, <1>4 DEF HandedOut, CountersExact
<1>6. u.inode \in [Inum -> Inode] /\ u.blk \in [Addr -> [0..(BS - 1) -> Slot]]
      /\ u.inode[h] \in Inode /\ u.inode[h].direct = NoBlocks
  <2>1. u.inode \in [Inum -> Inode] /\ u.blk \in [Addr -> [0..(BS - 1) -> Slot]]
    BY Zenon, <1>5, ImageFields
  <2>2. QED
    BY Zenon, <1>2, <1>5, <2>1
<1>7. PICK n, F : n = [u.inode[h] EXCEPT !.direct = F, !.size = 2] /\ F = [NoBlocks EXCEPT ![0] = a]
  BY Zenon
<1>8. F \in [0..(DP - 1) -> Addr \cup {-1}] /\ F[0] = a
      /\ \A d \in 0..(DP - 1) : d # 0 => F[d] = -1
  BY <1>3, <1>7 DEF NoBlocks
<1>9. n \in Inode /\ n.direct = F /\ n.size = 2
  <2>1. 2 \in 0..(DP * BS)
    <3>1. BS =< DP * BS
      BY Sizes, Times, 1 \in Nat
    <3>2. QED
      BY <3>1, Sizes
  <2>2. QED
    BY Zenon, <1>6, <1>7, <1>8, <2>1 DEF Inode
<1>10. PICK t : t = DirMade(s, p)
  BY Zenon
<1>11. t = [u EXCEPT !.inode = [u.inode EXCEPT ![h] = n], !.blk = [u.blk EXCEPT ![a] = D]]
  <2>1. t = [u EXCEPT !.inode[h].direct[0] = a, !.inode[h].size = 2, !.blk[a] = D]
    BY Zenon, <1>2, <1>10 DEF DirMade
  <2>2. QED
    BY ZenonT(30), <2>1, <1>5, <1>6, <1>7 DEF Image, Inode
<1>12. D \in [0..(BS - 1) -> Slot]
  BY Zenon, <1>2, <1>5, DirBlockType
<1>13. [u.inode EXCEPT ![h] = n] \in [Inum -> Inode]
       /\ [u.blk EXCEPT ![a] = D] \in [Addr -> [0..(BS - 1) -> Slot]]
  BY <1>3, <1>6, <1>9, <1>12, Zenon
<1>14. /\ t \in Image /\ t.hd = u.hd /\ t.dbm = u.dbm /\ t.hi = u.hi /\ t.ibm = u.ibm
       /\ t.inode = [u.inode EXCEPT ![h] = n] /\ t.blk = [u.blk EXCEPT ![a] = D]
  BY Zenon, <1>5, <1>11, <1>13 DEF Image
<1>15. /\ t.inode[h] = n /\ \A j \in Inum \ {h} : t.inode[j] = s.inode[j]
       /\ \A b \in Addr : b # a => t.blk[b] = s.blk[b]
  BY Zenon, <1>5, <1>6, <1>14
<1>16. \A d \in 0..(DP - 1) : Direct(t, h, d) = F[d]
  BY Zenon, <1>9, <1>15 DEF Direct
<1>17. \A d \in 0..(DP - 1) : Direct(s, h, d) = -1
  BY Zenon, <1>2 DEF Direct, NoBlocks
<1>18. a # -1 /\ s.hd + 1 < a /\ a =< u.hd + 1 /\ s.hd =< u.hd
  BY <1>1, <1>3, <1>5
<1>19. ASSUME NEW d \in 0..(DP - 1)
       PROVE  /\ \/ \E e \in 0..(DP - 1) : Direct(t, h, d) = Direct(s, h, e)
                 \/ s.hd + 1 < Direct(t, h, d) /\ Direct(t, h, d) =< t.hd + 1
              /\ Direct(t, h, d) # -1 => \A e \in 0..(DP - 1) : e < d => Direct(t, h, e) # -1
              /\ d * BS < t.inode[h].size => Direct(t, h, d) # -1
  <2>1. CASE d = 0
    <3>1. Direct(t, h, d) = a /\ \A e \in 0..(DP - 1) : ~(e < d)
      BY <2>1, <1>3, <1>8, <1>16
    <3>2. QED
      BY Zenon, <3>1, <1>14, <1>18
  <2>2. CASE d # 0
    <3>1. Direct(t, h, d) = -1
      BY Zenon, <2>2, <1>8, <1>16
    <3>2. ~(d * BS < 2)
      <4>1. 1 * BS =< d * BS /\ d * BS \in Nat
        BY <2>2, Sizes, Times, 1 \in Nat
      <4>2. QED
        BY <4>1, Sizes
    <3>3. QED
      BY Zenon, <3>1, <3>2, <1>9, <1>15, <1>17
  <2>3. QED
    BY <2>1, <2>2
<1>20. \A b \in Addr : b =< s.hd + FirstData => b # a
  BY <1>1, <1>3, Sizes DEF FirstData, Addr
<1>k. EntriesKnown(t)
  <2>1. \A j \in 0..(BS - 1) : Known(D[j], s.hi)
    <3>1. h =< s.hi /\ p =< s.hi
      BY <1>1, <1>2
    <3>2. QED
      BY Zenon, <3>1, <1>1, <1>2, <1>5, DirBlockKnown
  <2>2. t.blk[a] = D
    BY Zenon, <1>3, <1>6, <1>14
  <2>3. ASSUME NEW b \in Addr, NEW j \in 0..(BS - 1) PROVE Known(t.blk[b][j], s.hi)
    <3>1. CASE b = a
      BY Zenon, <2>1, <2>2, <3>1
    <3>2. CASE b # a
      BY Zenon, <3>2, <1>15 DEF SoundImage, EntriesKnown
    <3>3. QED
      BY <3>1, <3>2
  <2>4. QED
    BY Zenon, <2>3, <1>5, <1>14 DEF EntriesKnown
<1>21. Grown(s, t, h)
  BY Zenon, <1>k, <1>5, <1>14, <1>15, <1>18, <1>19, <1>20 DEF Grown, FirstData
<1>22. QED
  BY Zenon, <1>2, <1>10, <1>21

\* The image in which creat_file writes the entry.
Created(s, p, type) ==
  IF type = "reg" THEN NewInode(s, type) ELSE DirMade(NewInode(s, type), p)

\* creat_file by its cases.
LEMMA CreatUnfolded ==
  ASSUME NEW s, NEW p, NEW type, NEW name
  PROVE  CreatFile(s, p, type, name) =
    IF s.inode[p].type # "dir" THEN Result(s, -1)
    ELSE IF LookupFile(s, p, name) # <<>> THEN Result(s, 0)
    ELSE IF s.hi = NI - 1 THEN Result(s, -1)
    ELSE IF type = "dir" /\ NewInode(s, type).hd = LastBlock THEN Result(NewInode(s, type), -1)
    ELSE Result(WriteFile(Created(s, p, type), p, <<Entry(name, NewInode(s, type).hi)>>,
                          Created(s, p, type).inode[p].size, "dir").fs, 0)
BY Zenon DEF CreatFile, Created, DirMade

\* What a request on inode i does.
Serves(s, t, i) == SoundImage(t) /\ Untouched(s, t, i)

\* The inode, and for a directory its block, are made before the entry is written.
LEMMA CreatedDoes ==
  ASSUME NEW s, SoundImage(s), NEW p \in Inum, p \in 0..s.hi, NEW type \in {"dir", "reg"}, s.hi # NI - 1,
         ~(type = "dir" /\ NewInode(s, type).hd = LastBlock)
  PROVE  Serves(s, Created(s, p, type), p) /\ Created(s, p, type).hi = NewInode(s, type).hi
<1>1. PICK t : t = NewInode(s, type)
  BY Zenon
<1>2. NewInodeMade(s, t)
  BY Zenon, <1>1, NewInodeDoes
<1>3. SoundImage(t) /\ t.hi \notin s.ibm /\ Untouched(s, t, p) /\ t.inode[t.hi].direct = NoBlocks
      /\ p \in 0..t.hi /\ t.hi \in 0..t.hi
  BY Zenon, <1>2 DEF NewInodeMade
<1>4. CASE type = "reg"
  BY Zenon, <1>1, <1>3, <1>4 DEF Serves, Created
<1>5. CASE type # "reg"
  <2>1. t.hd # LastBlock
    BY <1>1, <1>5
  <2>2. PICK u : u = DirMade(t, p)
    BY Zenon
  <2>3. Grown(t, u, t.hi)
    BY Zenon, <1>3, <2>1, <2>2, DirMadeGrown
  <2>4. t.hi \in Inum
    BY Zenon, <1>3, ImageFields DEF SoundImage
  <2>5. SoundImage(u) /\ Untouched(t, u, t.hi)
    BY Zenon, <1>3, <2>3, <2>4, GrownSound, GrownUntouched
  <2>6. Untouched(s, u, p)
    BY Zenon, <1>3, <2>5, UntouchedThen
  <2>7. u.hi = t.hi
    BY Zenon, <2>3 DEF Grown
  <2>8. QED
    BY Zenon, <1>1, <1>5, <2>2, <2>5, <2>6, <2>7 DEF Serves, Created
<1>6. QED
  BY <1>4, <1>5

\* creat_file leaves a sound image in which only the parent and a new inode are others.
LEMMA CreatDoes ==
  ASSUME NEW s, SoundImage(s), NEW p \in Inum, p \in 0..s.hi, NEW type \in {"dir", "reg"}, NEW name \in Name
  PROVE  Serves(s, CreatFile(s, p, type, name).fs, p)
<1>1. PICK r, t, u, buf, z :
        /\ r = CreatFile(s, p, type, name) /\ t = NewInode(s, type) /\ u = Created(s, p, type)
        /\ buf = <<Entry(name, t.hi)>> /\ z = u.inode[p].size
  BY Zenon
<1>2. r = IF s.inode[p].type # "dir" THEN Result(s, -1)
          ELSE IF LookupFile(s, p, name) # <<>> THEN Result(s, 0)
          ELSE IF s.hi = NI - 1 THEN Result(s, -1)
          ELSE IF type = "dir" /\ t.hd = LastBlock THEN Result(t, -1)
          ELSE Result(WriteFile(u, p, buf, z, "dir").fs, 0)
  BY Zenon, <1>1, CreatUnfolded
<1>3. CASE r = Result(s, -1) \/ r = Result(s, 0)
  <2>1. r.fs = s
    BY <1>3 DEF Result
  <2>2. QED
    BY Zenon, <1>1, <2>1 DEF Serves, Untouched
<1>4. CASE s.hi # NI - 1
  <2>1. NewInodeMade(s, t)
    BY Zenon, <1>1, <1>4, NewInodeDoes
  <2>2. SoundImage(t) /\ t.hi \in Inum /\ Untouched(s, t, p) /\ p \in 0..t.hi
    BY Zenon, <2>1 DEF NewInodeMade
  <2>3. CASE r = Result(t, -1)
    <3>1. r.fs = t
      BY <2>3 DEF Result
    <3>2. QED
      BY Zenon, <1>1, <2>2, <3>1 DEF Serves
  <2>4. CASE ~(type = "dir" /\ t.hd = LastBlock) /\ r = Result(WriteFile(u, p, buf, z, "dir").fs, 0)
    <3>1. r.fs = WriteFile(u, p, buf, z, "dir").fs
      BY <2>4 DEF Result
    <3>2. SoundImage(u) /\ Untouched(s, u, p) /\ u.hi = t.hi /\ p \in 0..u.hi
      BY Zenon, <1>1, <1>4, <2>2, <2>4, CreatedDoes DEF Serves
    <3>3. z \in Nat
      BY Zenon, <1>1, <3>2, InodeFields DEF SoundImage
    <3>4. buf \in [1..1 -> Slot] /\ 1 \in 1..BS /\ \A x \in 1..1 : Known(buf[x], u.hi)
      <4>1. Entry(name, t.hi) \in Slot
        BY <2>2 DEF Entry, Slot
      <4>2. Known(Entry(name, t.hi), u.hi)
        <5>1. t.hi \in -1..u.hi
          BY <2>2, <3>2, Sizes DEF Inum
        <5>2. QED
          BY <5>1 DEF Known, Entry
      <4>3. PICK e : e = Entry(name, t.hi)
        BY Zenon
      <4>4. buf = <<e>> /\ e \in Slot /\ Known(e, u.hi)
        BY Zenon, <1>1, <4>1, <4>2, <4>3
      <4>5. \A x \in 1..1 : buf[x] = e
        BY <4>4
      <4>6. buf \in [1..1 -> Slot] /\ 1 \in 1..BS
        BY <4>4, Sizes
      <4>7. QED
        BY Zenon, <4>4, <4>5, <4>6
    <3>5. Writes(u, WriteFile(u, p, buf, z, "dir"), p, 1, buf, z)
      BY Zenon, <3>2, <3>3, <3>4, WriteDoes
    <3>6. SoundImage(r.fs) /\ Untouched(u, r.fs, p)
      BY Zenon, <3>1, <3>5 DEF Writes
    <3>7. QED
      BY Zenon, <1>1, <3>2, <3>6, UntouchedTrans DEF Serves
  <2>5. QED
    BY Zenon, <1>2, <1>3, <1>4, <2>3, <2>4
<1>5. QED
  BY Zenon, <1>2, <1>3, <1>4

(***************************************************************************)
(* unlink_file.                                                            *)
(***************************************************************************)

\* The slots in which lookup_file finds the name.
Hits(s, p, name) ==
  {k \in 0..(((s.inode[p].size + BS - 1) \div BS) * BS - 1) :
     /\ s.blk[s.inode[p].direct[k \div BS]][k % BS].name = name
     /\ s.blk[s.inode[p].direct[k \div BS]][k % BS].inum # -1}

\* lookup_file returns the first of those slots.
LEMMA LookupUnfolded ==
  ASSUME NEW s, NEW p, NEW name
  PROVE  LookupFile(s, p, name) =
    IF s.inode[p].type # "dir" \/ Hits(s, p, name) = {} THEN <<>>
    ELSE <<s.inode[p].direct[Min(Hits(s, p, name)) \div BS], Min(Hits(s, p, name)) % BS>>
BY Zenon DEF LookupFile, Hits

\* A slot below the end of the last block that a size reaches is in a block that starts
\* below the size.
LEMMA BlockReached ==
  ASSUME NEW b \in Nat, b > 0, NEW D \in Nat, NEW z \in Nat, z =< D * b,
         NEW k \in 0..(((z + b - 1) \div b) * b - 1)
  PROVE  k \div b \in Nat /\ (k \div b) * b < z /\ k \div b < D /\ k % b \in 0..(b - 1)
<1>1. z + b - 1 \in Nat
  OBVIOUS
<1>2. PICK m, r : /\ m = (z + b - 1) \div b /\ r = (z + b - 1) % b
                  /\ m \in Nat /\ r \in Nat /\ z + b - 1 = b * m + r
  BY <1>1, DivMod
<1>3. m * b \in Nat /\ k \in Nat /\ k < m * b
  BY <1>2
<1>4. PICK q : q = k \div b /\ q \in Nat /\ k % b \in 0..(b - 1) /\ k = b * q + (k % b)
  BY Zenon, <1>3, DivMod
<1>5. q < m
  <2>1. ASSUME m =< q PROVE FALSE
    <3>1. m * b =< q * b
      BY <2>1, <1>2, <1>4, Times
    <3>2. QED
      BY <3>1, <1>2, <1>3, <1>4
  <2>2. QED
    BY <2>1, <1>2, <1>4
<1>6. q * b + b =< m * b /\ q * b \in Nat
  BY <1>2, <1>4, <1>5, Times
<1>7. q * b < z
  BY <1>2, <1>3, <1>6
<1>8. q < D
  <2>1. ASSUME D =< q PROVE FALSE
    <3>1. D * b =< q * b /\ D * b \in Nat
      BY <2>1, <1>4, Times
    <3>2. QED
      BY <3>1, <1>6, <1>7
  <2>2. QED
    BY <2>1, <1>4
<1>9. QED
  BY Zenon, <1>4, <1>7, <1>8

\* An entry that lookup_file returns has the name and is in a block that the size of the
\* directory reaches.
Found(s, p, name, a) ==
  \E d \in 0..(DP - 1) : \E j \in 0..(BS - 1) :
    /\ a = <<Direct(s, p, d), j>> /\ d * BS < s.inode[p].size
    /\ s.blk[Direct(s, p, d)][j].name = name /\ s.blk[Direct(s, p, d)][j].inum # -1

\* lookup_file returns nothing else.
LEMMA LookupDoes ==
  ASSUME NEW s \in Image, NEW p \in Inum, NEW name, LookupFile(s, p, name) # <<>>
  PROVE  Found(s, p, name, LookupFile(s, p, name))
<1>1. PICK a, H, k : a = LookupFile(s, p, name) /\ H = Hits(s, p, name) /\ k = Min(H)
  BY Zenon
<1>2. H # {} /\ a = <<s.inode[p].direct[k \div BS], k % BS>>
  BY Zenon, <1>1, LookupUnfolded
<1>3. PICK z : z = s.inode[p].size /\ z \in Nat /\ z =< DP * BS
  <2>1. s.inode[p].size \in 0..(DP * BS) /\ s.inode[p].size \in Nat /\ DP * BS \in Nat
    BY InodeFields, Sizes
  <2>2. QED
    BY <2>1
<1>4. H \subseteq 0..(((z + BS - 1) \div BS) * BS - 1)
  BY Zenon, <1>1, <1>3 DEF Hits
<1>5. 0..(((z + BS - 1) \div BS) * BS - 1) \subseteq Nat
  <2>1. z + BS - 1 \in Nat
    BY <1>3, Sizes
  <2>2. (z + BS - 1) \div BS \in Nat
    BY Zenon, <2>1, DivModNumbers
  <2>3. QED
    BY <2>2, Sizes
<1>6. k \in H
  BY Zenon, <1>1, <1>2, <1>4, <1>5, LeastOf
<1>7. k \in 0..(((z + BS - 1) \div BS) * BS - 1)
  BY Zenon, <1>4, <1>6
<1>8. k \div BS \in Nat /\ (k \div BS) * BS < z /\ k \div BS < DP /\ k % BS \in 0..(BS - 1)
  <2>1. BS > 0 /\ BS \in Nat /\ DP \in Nat
    BY Sizes
  <2>2. QED
    BY Zenon, <2>1, <1>3, <1>7, BlockReached
<1>9. k \div BS \in 0..(DP - 1)
  BY <1>8, Sizes
<1>h. /\ s.blk[s.inode[p].direct[k \div BS]][k % BS].name = name
      /\ s.blk[s.inode[p].direct[k \div BS]][k % BS].inum # -1
  BY Zenon, <1>1, <1>6 DEF Hits
<1>10. Found(s, p, name, a)
  BY Zenon, <1>h, <1>2, <1>3, <1>8, <1>9 DEF Found, Direct
<1>11. QED
  BY Zenon, <1>1, <1>10

\* The image unlink_file leaves when it has found the entry at slot j of block x.
Unlinked(s, p, x, j) ==
  [s EXCEPT !.blk[x][j] = Unused,
            !.inode[p].direct[0] = x,
            !.inode[p].size = IF j < @ THEN j ELSE @]

\* unlink_file refuses.
Refuses(s, a) ==
  a = <<>> \/ (s.inode[EntryAt(s, a).inum].type = "dir" /\ s.inode[EntryAt(s, a).inum].size > 2)

\* unlink_file by its cases.
UnlinkCase(s, r, p, a) ==
  r = Result(s, -1) \/ (~Refuses(s, a) /\ r = Result(Unlinked(s, p, a[1], a[2]), 0))

\* Every result of unlink_file is one of these cases.
LEMMA UnlinkUnfolded ==
  ASSUME NEW s, NEW p, NEW name
  PROVE  UnlinkCase(s, UnlinkFile(s, p, name), p, LookupFile(s, p, name))
<1>1. UnlinkFile(s, p, name) =
        IF Refuses(s, LookupFile(s, p, name)) THEN Result(s, -1)
        ELSE Result(Unlinked(s, p, LookupFile(s, p, name)[1], LookupFile(s, p, name)[2]), 0)
  BY Zenon DEF UnlinkFile, Unlinked, Refuses
<1>2. QED
  BY Zenon, <1>1 DEF UnlinkCase

\* The first pointer of the directory is overwritten by one that it has.
LEMMA UnlinkedGrown ==
  ASSUME NEW s, SoundImage(s), NEW p \in Inum, p \in 0..s.hi, NEW c \in 0..(DP - 1), NEW j \in 0..(BS - 1),
         c * BS < s.inode[p].size
  PROVE  Grown(s, Unlinked(s, p, Direct(s, p, c), j), p)
<1>1. s \in Image /\ CountersExact(s) /\ s.hd \in Nat /\ s.hi \in Nat
      /\ s.inode \in [Inum -> Inode] /\ s.blk \in [Addr -> [0..(BS - 1) -> Slot]]
  BY Zenon, ImageFields DEF SoundImage
<1>2. PICK x, t : x = Direct(s, p, c) /\ t = Unlinked(s, p, x, j)
  BY Zenon
<1>3. x \in Addr \cup {-1} /\ x \in Int
  BY Zenon, <1>1, <1>2, DirectType
<1>4. /\ s.inode[p] \in Inode /\ s.inode[p].size \in 0..(DP * BS) /\ s.inode[p].size \in Nat
      /\ s.inode[p].direct \in [0..(DP - 1) -> Addr \cup {-1}]
  BY Zenon, <1>1, InodeFields
<1>5. PICK z : z = (IF j < s.inode[p].size THEN j ELSE s.inode[p].size)
               /\ z \in 0..(DP * BS) /\ z \in Nat /\ z =< s.inode[p].size
  <2>1. j \in Nat /\ DP * BS \in Nat
    BY Sizes
  <2>2. QED
    BY <2>1, <1>4
<1>6. PICK F : F = [s.inode[p].direct EXCEPT ![0] = x]
  BY Zenon
<1>7. 0 \in 0..(DP - 1) /\ F \in [0..(DP - 1) -> Addr \cup {-1}] /\ F[0] = x
      /\ \A d \in 0..(DP - 1) : d # 0 => F[d] = Direct(s, p, d)
  <2>1. 0 \in 0..(DP - 1)
    BY Sizes
  <2>2. QED
    BY Zenon, <2>1, <1>3, <1>4, <1>6 DEF Direct
<1>8. PICK n : n = [s.inode[p] EXCEPT !.direct = F, !.size = z]
  BY Zenon
<1>9. n \in Inode /\ n.direct = F /\ n.size = z
  BY Zenon, <1>4, <1>5, <1>7, <1>8 DEF Inode
<1>10. PICK B : B = [s.blk EXCEPT ![x] = [s.blk[x] EXCEPT ![j] = Unused]]
  BY Zenon
<1>11. B \in [Addr -> [0..(BS - 1) -> Slot]] /\ \A b \in Addr : b # x => B[b] = s.blk[b]
  <2>1. Unused \in Slot
    BY DEF Slot, Entry, Unused
  <2>2. CASE x \in Addr
    <3>1. [s.blk[x] EXCEPT ![j] = Unused] \in [0..(BS - 1) -> Slot]
      BY <2>1, <2>2, <1>1
    <3>2. QED
      BY Zenon, <3>1, <2>2, <1>1, <1>10
  <2>3. CASE x \notin Addr
    <3>1. B = s.blk
      BY <2>3, <1>1, <1>10
    <3>2. QED
      BY Zenon, <3>1, <1>1
  <2>4. QED
    BY <2>2, <2>3
<1>12. t = [s EXCEPT !.blk = B, !.inode = [s.inode EXCEPT ![p] = n]]
  <2>1. PICK y : y = s.inode[p].size
    BY Zenon
  <2>2. t = [s EXCEPT !.blk[x][j] = Unused, !.inode[p].direct[0] = x,
                      !.inode[p].size = IF j < y THEN j ELSE y]
    BY <2>1, <1>1, <1>2, <1>4 DEF Unlinked, Image, Inode
  <2>3. t = [s EXCEPT !.blk[x][j] = Unused, !.inode[p].direct[0] = x, !.inode[p].size = z]
    BY Zenon, <2>1, <2>2, <1>5
  <2>4. QED
    BY ZenonT(30), <2>3, <1>1, <1>4, <1>6, <1>8, <1>10 DEF Image, Inode
<1>13. [s.inode EXCEPT ![p] = n] \in [Inum -> Inode]
  BY Zenon, <1>1, <1>9
<1>14. /\ t \in Image /\ t.hd = s.hd /\ t.dbm = s.dbm /\ t.hi = s.hi /\ t.ibm = s.ibm
       /\ t.inode = [s.inode EXCEPT ![p] = n] /\ t.blk = B
  BY Zenon, <1>1, <1>11, <1>12, <1>13 DEF Image
<1>15. t.inode[p] = n /\ \A i \in Inum \ {p} : t.inode[i] = s.inode[i]
  BY Zenon, <1>1, <1>14
<1>16. \A d \in 0..(DP - 1) : Direct(t, p, d) = F[d]
  BY Zenon, <1>9, <1>15 DEF Direct
<1>17. ASSUME NEW d \in 0..(DP - 1)
       PROVE  \E e \in 0..(DP - 1) : Direct(t, p, d) = Direct(s, p, e)
  BY Zenon, <1>2, <1>7, <1>16
<1>18. ASSUME NEW d \in 0..(DP - 1)
       PROVE  /\ Direct(t, p, d) # -1 => \A e \in 0..(DP - 1) : e < d => Direct(t, p, e) # -1
              /\ d * BS < t.inode[p].size => Direct(t, p, d) # -1
  <2>1. p \in 0..s.hi
    OBVIOUS
  <2>2. x # -1
    BY Zenon, <2>1, <1>2 DEF SoundImage, SizeMapped
  <2>3. \A e \in 0..(DP - 1) : Direct(s, p, e) # -1 => Direct(t, p, e) # -1
    BY Zenon, <2>2, <1>7, <1>16
  <2>4. CASE d = 0
    <3>1. \A e \in 0..(DP - 1) : ~(e < d)
      BY <2>4
    <3>2. QED
      BY Zenon, <2>2, <2>4, <3>1, <1>7, <1>16
  <2>5. CASE d # 0
    <3>1. Direct(t, p, d) = Direct(s, p, d)
      BY Zenon, <2>5, <1>7, <1>16
    <3>2. d * BS < t.inode[p].size => d * BS < s.inode[p].size
      <4>1. t.inode[p].size = z /\ d * BS \in Nat
        BY <1>9, <1>15, Sizes
      <4>2. QED
        BY <4>1, <1>4, <1>5
    <3>3. QED
      BY Zenon, <2>1, <2>3, <3>1, <3>2 DEF SoundImage, NoHoles, SizeMapped
  <2>6. QED
    BY <2>4, <2>5
<1>19. ASSUME NEW b \in Addr, \A d \in 0..(DP - 1) : Direct(s, p, d) # b
       PROVE  t.blk[b] = s.blk[b]
  BY Zenon, <1>2, <1>11, <1>14, <1>19
<1>20. s.hd =< t.hd /\ t.dbm = 0..t.hd
  <2>1. s.hd =< s.hd
    BY <1>1
  <2>2. QED
    BY Zenon, <2>1, <1>1, <1>14 DEF CountersExact
<1>k. EntriesKnown(t)
  <2>1. Known(Unused, s.hi)
    BY DEF Known, Unused, Entry
  <2>2. ASSUME NEW b \in Addr, NEW k \in 0..(BS - 1)
        PROVE  B[b][k] = s.blk[b][k] \/ B[b][k] = Unused
    <3>1. CASE b = x
      <4>1. B[b] = [s.blk[b] EXCEPT ![j] = Unused] /\ s.blk[b] \in [0..(BS - 1) -> Slot]
        BY Zenon, <3>1, <1>1, <1>10
      <4>2. QED
        BY Zenon, <4>1
    <3>2. CASE b # x
      BY Zenon, <3>2, <1>11
    <3>3. QED
      BY <3>1, <3>2
  <2>3. QED
    BY Zenon, <2>1, <2>2, <1>14 DEF SoundImage, EntriesKnown
<1>21. Grown(s, t, p)
  BY Zenon, <1>k, <1>14, <1>15, <1>17, <1>18, <1>19, <1>20 DEF Grown
<1>22. QED
  BY Zenon, <1>2, <1>21

\* unlink_file leaves a sound image in which only the parent is another.
LEMMA UnlinkDoes ==
  ASSUME NEW s, SoundImage(s), NEW p \in Inum, p \in 0..s.hi, NEW name
  PROVE  Serves(s, UnlinkFile(s, p, name).fs, p)
<1>1. PICK r, a : r = UnlinkFile(s, p, name) /\ a = LookupFile(s, p, name)
  BY Zenon
<1>2. r = Result(s, -1) \/ (~Refuses(s, a) /\ r = Result(Unlinked(s, p, a[1], a[2]), 0))
  BY Zenon, <1>1, UnlinkUnfolded DEF UnlinkCase
<1>3. CASE r = Result(s, -1)
  <2>1. r.fs = s
    BY <1>3 DEF Result
  <2>2. QED
    BY Zenon, <1>1, <2>1 DEF Serves, Untouched
<1>4. CASE ~Refuses(s, a) /\ r = Result(Unlinked(s, p, a[1], a[2]), 0)
  <2>1. r.fs = Unlinked(s, p, a[1], a[2])
    BY <1>4 DEF Result
  <2>2. Found(s, p, name, a)
    <3>1. a # <<>>
      BY <1>4, Zenon DEF Refuses
    <3>2. QED
      BY Zenon, <1>1, <3>1, LookupDoes DEF SoundImage
  <2>3. PICK d \in 0..(DP - 1), j \in 0..(BS - 1) :
          a = <<Direct(s, p, d), j>> /\ d * BS < s.inode[p].size
    BY Zenon, <2>2 DEF Found
  <2>4. a[1] = Direct(s, p, d) /\ a[2] = j
    BY <2>3
  <2>5. Grown(s, r.fs, p)
    BY Zenon, <2>1, <2>3, <2>4, UnlinkedGrown
  <2>6. QED
    BY Zenon, <1>1, <2>5, GrownSound, GrownUntouched DEF Serves
<1>5. QED
  BY <1>2, <1>3, <1>4

(***************************************************************************)
(* Reading back.                                                           *)
(***************************************************************************)

\* Where the k-th of n slots of data written at slot r of block q goes: slot y of block x.
Placed(x, y, b, q, r, n, k) ==
  \/ /\ x = q /\ y \in 0..(b - 1) /\ r =< y /\ y < r + n /\ y - r + 1 = k
  \/ /\ x = q + 1 /\ y \in 0..(b - 1) /\ y < n - (b - r) /\ ~(n =< b - r) /\ b - r + y + 1 = k

\* Counting from the offset, the k-th slot is there.
LEMMA PlaceOf ==
  ASSUME NEW b \in Nat, NEW q \in Nat, NEW r \in 0..(b - 1), NEW n \in 1..b, NEW k \in 1..n,
         b > 0, NEW offset \in Nat, offset = b * q + r
  PROVE  Placed((offset + k - 1) \div b, (offset + k - 1) % b, b, q, r, n, k)
<1>1. offset + k - 1 \in Nat /\ q * b \in Nat
  OBVIOUS
<1>2. CASE r + k - 1 < b
  <2>1. r + k - 1 \in 0..(b - 1) /\ offset + k - 1 = q * b + (r + k - 1)
    BY <1>2
  <2>2. (offset + k - 1) \div b = q /\ (offset + k - 1) % b = r + k - 1
    BY <2>1, <1>1, DivIs
  <2>3. r =< r + k - 1 /\ r + k - 1 < r + n /\ (r + k - 1) - r + 1 = k
    OBVIOUS
  <2>4. QED
    BY Zenon, <2>1, <2>2, <2>3 DEF Placed
<1>3. CASE ~(r + k - 1 < b)
  <2>1. r + k - 1 - b \in 0..(b - 1) /\ q + 1 \in Nat
    BY <1>3
  <2>2. (q + 1) * b = q * b + b
    OBVIOUS
  <2>3. offset + k - 1 = (q + 1) * b + (r + k - 1 - b)
    BY <1>1, <2>2
  <2>4. (offset + k - 1) \div b = q + 1 /\ (offset + k - 1) % b = r + k - 1 - b
    BY <2>1, <2>3, <1>1, DivIs
  <2>5. /\ r + k - 1 - b < n - (b - r) /\ ~(n =< b - r)
        /\ b - r + (r + k - 1 - b) + 1 = k
    BY <1>3
  <2>6. QED
    BY Zenon, <2>1, <2>4, <2>5 DEF Placed
<1>4. QED
  BY <1>2, <1>3

\* What was written is read.
LEMMA ReadsBack ==
  ASSUME NEW t, NEW i \in Inum, NEW n \in 1..BS, NEW buf \in [1..n -> Slot], NEW offset \in Nat,
         Wrote(t, i, n, buf, offset)
  PROVE  ReadFile(t, i, offset, n) = [rc |-> 0, buf |-> buf]
<1>1. PICK q, r : q = offset \div BS /\ r = offset % BS
  BY Zenon
<1>2. q \in Nat /\ r \in 0..(BS - 1) /\ offset = BS * q + r
  BY <1>1, Sizes, DivMod
<1>3. PICK u \in Image :
        /\ t.inode[i].direct = u.inode[i].direct
        /\ t.blk = StoredBlocks(u, i, buf, offset)
        /\ q \in 0..(DP - 1)
        /\ Direct(u, i, q) # -1
        /\ \/ n =< BS - r
           \/ /\ q + 1 \in 0..(DP - 1)
              /\ Direct(u, i, q + 1) # -1
              /\ Direct(u, i, q + 1) # Direct(u, i, q)
  BY Zenon, <1>1 DEF Wrote
<1>4. PICK D, B : D = u.inode[i].direct /\ B = t.blk
  BY Zenon
<1>5. \A d \in 0..(DP - 1) : Direct(u, i, d) = D[d] /\ (D[d] # -1 => D[d] \in Addr)
  <2>1. ASSUME NEW d \in 0..(DP - 1) PROVE Direct(u, i, d) = D[d] /\ (D[d] # -1 => D[d] \in Addr)
    <3>1. Direct(u, i, d) = D[d]
      BY Zenon, <1>4 DEF Direct
    <3>2. Direct(u, i, d) \in Addr \cup {-1}
      BY Zenon, DirectType
    <3>3. QED
      BY <3>1, <3>2
  <2>2. QED
    BY <2>1, Zenon
<1>6. ASSUME NEW k \in 1..n
      PROVE  /\ (offset + k - 1) \div BS \in 0..(DP - 1)
             /\ D[(offset + k - 1) \div BS] # -1
             /\ B[D[(offset + k - 1) \div BS]][(offset + k - 1) % BS] = buf[k]
  <2>1. PICK x, y : x = (offset + k - 1) \div BS /\ y = (offset + k - 1) % BS
    BY Zenon
  <2>2. Placed(x, y, BS, q, r, n, k)
    <3>1. BS \in Nat /\ BS > 0
      BY Sizes
    <3>2. QED
      BY Zenon, <3>1, <2>1, <1>2, PlaceOf
  <2>3. ASSUME NEW a \in Addr, y \in 0..(BS - 1) PROVE SlotStored(u, i, n, buf, q, r, B, a, y)
    BY Zenon, <2>3, <1>1, <1>3, <1>4, StoredSlots
  <2>4. CASE x = q /\ y \in 0..(BS - 1) /\ r =< y /\ y < r + n /\ y - r + 1 = k
    <3>1. D[q] # -1 /\ D[q] \in Addr
      BY Zenon, <1>3, <1>5
    <3>2. B[D[q]][y] = buf[k]
      BY Zenon, <2>3, <2>4, <3>1, <1>4 DEF SlotStored
    <3>3. QED
      BY Zenon, <2>1, <2>4, <3>1, <3>2, <1>3
  <2>5. CASE x = q + 1 /\ y \in 0..(BS - 1) /\ y < n - (BS - r) /\ ~(n =< BS - r) /\ BS - r + y + 1 = k
    <3>1. D[q + 1] # -1 /\ D[q + 1] \in Addr /\ D[q + 1] # D[q] /\ q + 1 \in 0..(DP - 1)
      BY Zenon, <2>5, <1>3, <1>5
    <3>2. B[D[q + 1]][y] = buf[k]
      BY Zenon, <2>3, <2>5, <3>1, <1>4 DEF SlotStored
    <3>3. QED
      BY Zenon, <2>1, <2>5, <3>1, <3>2
  <2>6. QED
    BY Zenon, <2>2, <2>4, <2>5 DEF Placed
<1>7. ASSUME NEW d \in (offset \div BS)..((offset + n - 1) \div BS)
      PROVE  ~(d > DP - 1) /\ D[d] # -1
  <2>1. n \in 1..n /\ 1 \in 1..n /\ offset + 1 - 1 = offset
    BY Sizes
  <2>2. (offset + n - 1) \div BS \in 0..(DP - 1) /\ D[(offset + n - 1) \div BS] # -1
    BY Zenon, <1>6, <2>1
  <2>3. (offset + n - 1) \div BS = q \/ (offset + n - 1) \div BS = q + 1
    <3>1. BS \in Nat /\ BS > 0
      BY Sizes
    <3>2. Placed((offset + n - 1) \div BS, (offset + n - 1) % BS, BS, q, r, n, n)
      BY Zenon, <3>1, <2>1, <1>2, PlaceOf
    <3>3. QED
      BY Zenon, <3>2 DEF Placed
  <2>4. d = q \/ d = (offset + n - 1) \div BS
    BY <2>3, <1>1, <1>2
  <2>5. D[q] # -1 /\ q \in 0..(DP - 1)
    BY Zenon, <1>3, <1>5
  <2>6. d \in 0..(DP - 1) /\ D[d] # -1
    BY Zenon, <2>2, <2>4, <2>5
  <2>7. QED
    BY <2>6, Sizes
<1>8. [k \in 1..n |-> B[D[(offset + k - 1) \div BS]][(offset + k - 1) % BS]] = buf
  <2>1. [k \in 1..n |-> B[D[(offset + k - 1) \div BS]][(offset + k - 1) % BS]] = [k \in 1..n |-> buf[k]]
    BY Zenon, <1>6
  <2>2. [k \in 1..n |-> buf[k]] = buf
    BY Zenon
  <2>3. QED
    BY Zenon, <2>1, <2>2
<1>9. t.inode[i].direct = D /\ t.blk = B
  BY Zenon, <1>3, <1>4
<1>10. ReadFile(t, i, offset, n) =
         IF \E d \in (offset \div BS)..((offset + n - 1) \div BS) : d > DP - 1 \/ D[d] = -1
         THEN [rc |-> -1, buf |-> <<>>]
         ELSE [rc |-> 0, buf |-> [k \in 1..n |->
                B[D[(offset + k - 1) \div BS]][(offset + k - 1) % BS]]]
  BY Zenon, <1>9 DEF ReadFile
<1>11. QED
  BY Zenon, <1>7, <1>8, <1>10

(***************************************************************************)
(* The invariant.                                                          *)
(***************************************************************************)

\* The buffers of the clients are buffers of slots.
LEMMA BufsType ==
  ASSUME NEW buf \in Bufs
  PROVE  \E n \in 1..BS : buf \in [1..n -> Slot] /\ \A h : \A x \in 1..n : Known(buf[x], h)
<1>1. PICK n \in 1..BS : buf \in [1..n -> {Datum(d) : d \in Data}]
  BY Zenon DEF Bufs
<1>2. \A e \in {Datum(d) : d \in Data} : e \in Slot /\ \A h : Known(e, h)
  <2>1. ASSUME NEW d \in Data PROVE Datum(d) \in Slot /\ \A h : Known(Datum(d), h)
    BY DEF Datum, Entry, Slot, Known
  <2>2. QED
    BY <2>1, Zenon
<1>3. QED
  BY Zenon, <1>1, <1>2

\* mkfs leaves a sound image: only the root directory has a block.
LEMMA MkfsSound ==
  ASSUME NEW g \in [Inum -> Garbage]
  PROVE  SoundImage(Mkfs(g))
<1>1. PICK t : t = Mkfs(g)
  BY Zenon
<1>2. 0 \in Inum /\ 0 \in 0..(ND - 1) /\ 0 \in 0..(DP - 1) /\ 1 \in Addr /\ 1 \in Nat
      /\ 0..0 = {0} /\ 2 \in 0..(DP * BS)
  <2>1. BS =< DP * BS
    BY Sizes, Times, 1 \in Nat
  <2>2. QED
    BY <2>1, Sizes DEF Inum, Addr
<1>3. PICK F : F = [NoBlocks EXCEPT ![0] = FirstData]
  BY Zenon
<1>4. F \in [0..(DP - 1) -> Addr \cup {-1}] /\ F[0] = 1 /\ \A d \in 0..(DP - 1) : d # 0 => F[d] = -1
  BY <1>2, <1>3 DEF NoBlocks, FirstData
<1>5. PICK n : n = [type |-> "dir", size |-> 2, direct |-> F]
  BY Zenon
<1>6. n \in Inode /\ n.direct = F /\ n.size = 2
  BY <1>2, <1>4, <1>5 DEF Inode
<1>7. \A i \in Inum : g[i] \in Inode
  BY Zenon, UfsConstants
<1>8. /\ t.ibm = {0} /\ t.dbm = {0} /\ t.hi = 0 /\ t.hd = 0
      /\ t.inode = [i \in Inum |-> IF i = 0 THEN n ELSE g[i]]
      /\ t.blk = [a \in Addr |-> IF a = FirstData THEN DirBlock(0, 0)
                                 ELSE [j \in 0..(BS - 1) |-> Zeroed]]
  BY <1>1, <1>3, <1>5 DEF Mkfs
<1>9. t \in Image
  <2>1. t.inode \in [Inum -> Inode]
    BY Zenon, <1>6, <1>7, <1>8
  <2>2. Zeroed \in Slot
    BY <1>2 DEF Slot, Entry, Zeroed
  <2>3. [j \in 0..(BS - 1) |-> Zeroed] \in [0..(BS - 1) -> Slot] /\ DirBlock(0, 0) \in [0..(BS - 1) -> Slot]
    BY Zenon, <2>2, <1>2, DirBlockType
  <2>4. t.blk \in [Addr -> [0..(BS - 1) -> Slot]]
    BY Zenon, <2>3, <1>8
  <2>5. t = [ibm |-> t.ibm, dbm |-> t.dbm, inode |-> t.inode, blk |-> t.blk, hi |-> t.hi, hd |-> t.hd]
    BY <1>1 DEF Mkfs
  <2>6. t.ibm \in SUBSET Inum /\ t.dbm \in SUBSET (0..(ND - 1)) /\ t.hi \in Inum /\ t.hd \in 0..(ND - 1)
    BY Zenon, <1>2, <1>8
  <2>7. QED
    BY <2>1, <2>4, <2>5, <2>6, Zenon DEF Image
<1>10. t.inode[0] = n /\ 0..t.hi = {0}
  BY Zenon, <1>2, <1>8
<1>11. ASSUME NEW d \in 0..(DP - 1) PROVE Direct(t, 0, d) = (IF d = 0 THEN 1 ELSE -1)
  BY Zenon, <1>4, <1>6, <1>10 DEF Direct
<1>12. CountersExact(t)
  BY Zenon, <1>2, <1>8 DEF CountersExact
<1>13. PointersAllocated(t)
  <2>1. \A d \in 0..(DP - 1) : Direct(t, 0, d) =< 0 + 1 /\ Direct(t, 0, d) # 0
    BY <1>11
  <2>2. QED
    BY Zenon, <2>1, <1>8, <1>10 DEF PointersAllocated, FirstData
<1>14. PointersDisjoint(t)
  BY Zenon, <1>10 DEF PointersDisjoint
<1>k. EntriesKnown(t)
  <2>1. Known(Zeroed, 0)
    BY DEF Known, Zeroed, Entry
  <2>2. \A j \in 0..(BS - 1) : Known(DirBlock(0, 0)[j], 0)
    <3>1. 0 \in Nat /\ 0 =< 0
      OBVIOUS
    <3>2. QED
      BY Zenon, <3>1, <1>2, DirBlockKnown
  <2>3. ASSUME NEW a \in Addr, NEW j \in 0..(BS - 1) PROVE Known(t.blk[a][j], 0)
    <3>1. t.blk[a] = IF a = FirstData THEN DirBlock(0, 0) ELSE [x \in 0..(BS - 1) |-> Zeroed]
      BY Zenon, <1>8
    <3>2. CASE a = FirstData
      BY Zenon, <3>1, <3>2, <2>2
    <3>3. CASE a # FirstData
      BY Zenon, <3>1, <3>3, <2>1
    <3>4. QED
      BY <3>2, <3>3
  <2>4. t.hi = 0
    BY Zenon, <1>8
  <2>5. QED
    BY Zenon, <2>3, <2>4 DEF EntriesKnown
<1>15. NoHoles(t) /\ SizeMapped(t)
  <2>1. ASSUME NEW d \in 0..(DP - 1)
        PROVE  /\ Direct(t, 0, d) # -1 => \A e \in 0..(DP - 1) : e < d => Direct(t, 0, e) # -1
               /\ d * BS < t.inode[0].size => Direct(t, 0, d) # -1
    <3>1. CASE d = 0
      <4>1. \A e \in 0..(DP - 1) : ~(e < d)
        BY <3>1
      <4>2. Direct(t, 0, d) # -1
        BY <3>1, <1>2, <1>11
      <4>3. QED
        BY Zenon, <4>1, <4>2
    <3>2. CASE d # 0
      <4>1. Direct(t, 0, d) = -1
        BY Zenon, <3>2, <1>2, <1>11
      <4>2. ~(d * BS < 2)
        <5>1. 1 * BS =< d * BS /\ d * BS \in Nat
          BY <3>2, Sizes, Times, 1 \in Nat
        <5>2. QED
          BY <5>1, Sizes
      <4>3. QED
        BY Zenon, <4>1, <4>2, <1>6, <1>10
    <3>3. QED
      BY <3>1, <3>2
  <2>2. QED
    BY Zenon, <2>1, <1>10 DEF NoHoles, SizeMapped
<1>16. QED
  BY Zenon, <1>1, <1>k, <1>9, <1>12, <1>13, <1>14, <1>15 DEF SoundImage

\* A request of a client keeps the image sound and is seen in one inode only.
LEMMA RequestServes ==
  ASSUME SoundImage(fs), Creat \/ Write \/ Unlink
  PROVE  \E i \in Inum : Serves(fs, fs', i)
<1>1. \A i \in fs.ibm : i \in Inum /\ i \in 0..fs.hi
  BY Zenon, Allocated DEF SoundImage, CountersExact
<1>2. CASE Creat
  <2>1. PICK i \in fs.ibm, type \in {"dir", "reg"}, name \in Name :
          fs' = CreatFile(fs, i, type, name).fs
    BY Zenon, <1>2 DEF Creat
  <2>2. QED
    BY Zenon, <1>1, <2>1, CreatDoes
<1>3. CASE Write
  <2>1. PICK i \in fs.ibm, offset \in Offsets, buf \in Bufs :
          fs' = WriteFile(fs, i, buf, offset, "reg").fs
    BY Zenon, <1>3 DEF Write
  <2>2. PICK n \in 1..BS : buf \in [1..n -> Slot] /\ \A h : \A x \in 1..n : Known(buf[x], h)
    BY Zenon, BufsType
  <2>3. offset \in Nat
    BY Sizes DEF Offsets
  <2>4. Writes(fs, WriteFile(fs, i, buf, offset, "reg"), i, n, buf, offset)
    BY Zenon, <1>1, <2>2, <2>3, WriteDoes
  <2>5. QED
    BY Zenon, <1>1, <2>1, <2>4 DEF Writes, Serves
<1>4. CASE Unlink
  <2>1. PICK i \in fs.ibm, name \in Name : fs' = UnlinkFile(fs, i, name).fs
    BY Zenon, <1>4 DEF Unlink
  <2>2. QED
    BY Zenon, <1>1, <2>1, UnlinkDoes
<1>5. QED
  BY <1>2, <1>3, <1>4

(* UInv is an invariant of the server: whatever requests come and in whatever order, as long
   as they name inodes that exist, and whatever mkfs left in the other inodes, server.c hands
   inode numbers and data blocks out in order and once, an inode has a block wherever its size
   says so, and the entries of a directory name inodes that exist.  *)
THEOREM Invariance == Spec => []UInv
<1>1. Init => UInv
  <2>1. ASSUME Init PROVE UInv
    <3>1. PICK g \in [Inum -> Garbage] : fs = Mkfs(g)
      BY Zenon, <2>1 DEF Init
    <3>2. SoundImage(fs)
      BY Zenon, <3>1, MkfsSound
    <3>3. ops \in 0..MaxOps
      BY <2>1, MaxOpsType DEF Init
    <3>4. stray \in BOOLEAN
      BY <2>1 DEF Init
    <3>5. QED
      BY Zenon, <3>2, <3>3, <3>4 DEF UInv
  <2>2. QED
    BY <2>1
<1>2. UInv /\ [Next]_vars => UInv'
  <2>1. ASSUME UInv, ~stray, ops < MaxOps, ops' = ops + 1, Creat \/ Write \/ Unlink,
               stray' = stray
        PROVE  UInv'
    <3>1. SoundImage(fs')
      BY Zenon, <2>1, RequestServes DEF UInv, Serves
    <3>2. ops' \in 0..MaxOps
      BY <2>1, MaxOpsType DEF UInv
    <3>3. QED
      BY Zenon, <2>1, <3>1, <3>2 DEF UInv, SoundImage, CountersExact, PointersAllocated,
         PointersDisjoint, NoHoles, SizeMapped, Direct, EntriesKnown, Known
  <2>2. ASSUME UInv, Stray PROVE UInv'
    <3>1. stray' = TRUE /\ ops' = ops
      BY <2>2 DEF Stray
    <3>2. QED
      BY Zenon, <2>2, <3>1 DEF UInv
  <2>3. ASSUME UInv, UNCHANGED vars PROVE UInv'
    <3>1. fs' = fs /\ ops' = ops /\ stray' = stray
      BY <2>3 DEF vars
    <3>2. (~stray' => SoundImage(fs')) /\ ops' \in 0..MaxOps /\ stray' \in BOOLEAN
      BY Zenon, <2>3, <3>1 DEF UInv
    <3>3. QED
      BY Zenon, <3>2 DEF UInv, SoundImage, CountersExact, PointersAllocated,
         PointersDisjoint, NoHoles, SizeMapped, Direct, EntriesKnown, Known
  <2>4. QED
    BY Zenon, <2>1, <2>2, <2>3 DEF Next, Query
<1>3. QED
  BY <1>1, <1>2, PTL DEF Spec

\* What the invariant says of the allocated inodes.
LEMMA OwnedOnce ==
  ASSUME SoundImage(fs)
  PROVE  BlocksOwned
<1>1. fs \in Image /\ fs.ibm = 0..fs.hi /\ fs.dbm = 0..fs.hd
      /\ fs.hi \in Nat /\ fs.hi < NI /\ fs.hd \in Nat
  BY Zenon, ImageFields DEF SoundImage, CountersExact
<1>2. ASSUME NEW i \in fs.ibm PROVE i \in Inum /\ i =< fs.hi /\ i \in 0..fs.hi
  BY <1>1, Sizes DEF Inum
<1>3. ASSUME NEW i \in fs.ibm, NEW a \in Mapped(fs, i)
      PROVE  /\ \E d \in 0..(DP - 1) : a = Direct(fs, i, d)
             /\ a \in Int /\ 1 =< a /\ a =< fs.hd + 1
  <2>1. PICK d \in 0..(DP - 1) : a = Direct(fs, i, d) /\ a # -1
    BY Zenon DEF Mapped, Direct
  <2>2. a =< fs.hd + 1 /\ a # 0
    BY Zenon, <1>2, <2>1 DEF SoundImage, PointersAllocated, FirstData
  <2>3. a \in Addr \cup {-1}
    BY Zenon, <1>1, <1>2, <2>1, DirectType
  <2>4. QED
    BY <2>1, <2>2, <2>3, Sizes DEF Addr
<1>4. ASSUME NEW i \in fs.ibm, NEW a \in Mapped(fs, i) PROVE a - FirstData \in fs.dbm
  <2>1. a \in Int /\ 1 =< a /\ a =< fs.hd + 1
    BY Zenon, <1>3
  <2>2. QED
    BY <2>1, <1>1 DEF FirstData
<1>5. ASSUME NEW i \in fs.ibm, NEW j \in fs.ibm \ {i}, NEW a \in Mapped(fs, i), a \in Mapped(fs, j)
      PROVE  FALSE
  <2>1. PICK d \in 0..(DP - 1) : a = Direct(fs, i, d)
    BY Zenon, <1>3
  <2>2. PICK e \in 0..(DP - 1) : a = Direct(fs, j, e)
    BY Zenon, <1>3, <1>5
  <2>3. i \in 0..fs.hi /\ j \in 0..fs.hi /\ i # j
    BY Zenon, <1>2
  <2>4. Direct(fs, i, d) < 1
    BY Zenon, <2>1, <2>2, <2>3 DEF SoundImage, PointersDisjoint, FirstData
  <2>5. a \in Int /\ 1 =< a
    BY Zenon, <1>3
  <2>6. QED
    BY <2>1, <2>4, <2>5
<1>6. ASSUME NEW i \in fs.ibm, NEW d \in 0..(DP - 1), d * BS < fs.inode[i].size
      PROVE  fs.inode[i].direct[d] # -1
  BY Zenon, <1>2, <1>6 DEF SoundImage, SizeMapped, Direct
<1>7. QED
  BY Zenon, <1>4, <1>5, <1>6 DEF BlocksOwned

\* What it says of the entries.
LEMMA LookedUpExist ==
  ASSUME SoundImage(fs)
  PROVE  LookupsExist
<1>1. fs \in Image /\ fs.ibm = 0..fs.hi /\ fs.hi \in Nat
  BY Zenon, ImageFields DEF SoundImage, CountersExact
<1>2. ASSUME NEW p \in fs.ibm, NEW n \in Name, NEW a, a = LookupFile(fs, p, n), a # <<>>
      PROVE  EntryAt(fs, a).inum \in fs.ibm
  <2>1. p \in Inum /\ p \in 0..fs.hi
    BY Zenon, <1>1, Allocated
  <2>2. Found(fs, p, n, a)
    BY Zenon, <1>1, <1>2, <2>1, LookupDoes
  <2>0. PICK d \in 0..(DP - 1), j \in 0..(BS - 1) :
          /\ a = <<Direct(fs, p, d), j>> /\ d * BS < fs.inode[p].size
          /\ fs.blk[Direct(fs, p, d)][j].name = n /\ fs.blk[Direct(fs, p, d)][j].inum # -1
    BY Zenon, <2>2 DEF Found
  <2>3. PICK x :
          /\ x = Direct(fs, p, d) /\ a = <<x, j>> /\ d * BS < fs.inode[p].size
          /\ fs.blk[x][j].name = n /\ fs.blk[x][j].inum # -1
    BY Zenon, <2>0
  <2>4. x \in Addr
    <3>1. x # -1
      BY Zenon, <2>1, <2>3 DEF SoundImage, SizeMapped
    <3>2. x \in Addr \cup {-1}
      BY Zenon, <1>1, <2>1, <2>3, DirectType
    <3>3. QED
      BY Zenon, <3>1, <3>2
  <2>5. Known(fs.blk[x][j], fs.hi)
    BY Zenon, <2>4 DEF SoundImage, EntriesKnown
  <2>6. n # ""
    BY Zenon, UfsConstants
  <2>7. PICK e : e = fs.blk[x][j]
    BY Zenon
  <2>8. e.inum \in -1..fs.hi /\ e.inum # -1
    BY Zenon, <2>3, <2>5, <2>6, <2>7 DEF Known
  <2>9. e.inum \in fs.ibm
    BY <2>8, <1>1
  <2>10. EntryAt(fs, a) = e
    <3>1. a[1] = x /\ a[2] = j
      BY <2>3
    <3>2. QED
      BY Zenon, <3>1, <2>7 DEF EntryAt
  <2>11. QED
    BY Zenon, <2>9, <2>10
<1>3. QED
  BY Zenon, <1>2 DEF LookupsExist

(* The image on disk and the counters in memory of server.c stay within their regions;
   what an allocated inode maps is marked in the data bitmap and no other inode's; and what
   MFS_Lookup returns is an inode that exists.  It holds until a request names an inode that
   does not.  *)
THEOREM ImageIsSound == Spec => []ImageSound
<1>1. UInv => ImageSound
  <2>1. ASSUME UInv, ~stray PROVE TypeOK /\ BlocksOwned /\ LookupsExist
    <3>1. SoundImage(fs) /\ ops \in 0..MaxOps /\ fs \in Image /\ stray \in BOOLEAN
      BY Zenon, <2>1 DEF UInv, SoundImage
    <3>2. TypeOK
      BY <3>1 DEF TypeOK, Image
    <3>3. QED
      BY Zenon, <3>1, <3>2, OwnedOnce, LookedUpExist
  <2>2. QED
    BY Zenon, <2>1 DEF ImageSound
<1>2. QED
  BY <1>1, Invariance, PTL

(* A request to server.c that names an inode which exists changes what one existing file or
   directory contains, never two.  *)
THEOREM RequestsIsolated == Spec => Isolation
<1>1. UInv /\ [Next]_vars =>
        [~stray' => \E i \in Inum : \A j \in fs.ibm \ {i} : Contents(fs', j) = Contents(fs, j)]_vars
  <2>1. ASSUME UInv, ~stray, Creat \/ Write \/ Unlink
        PROVE  \E i \in Inum : \A j \in fs.ibm \ {i} : Contents(fs', j) = Contents(fs, j)
    <3>1. SoundImage(fs) /\ fs \in Image
      BY Zenon, <2>1 DEF UInv, SoundImage
    <3>2. PICK i \in Inum : Untouched(fs, fs', i)
      BY Zenon, <2>1, <3>1, RequestServes DEF Serves
    <3>3. ASSUME NEW j \in fs.ibm \ {i} PROVE Contents(fs', j) = Contents(fs, j)
      BY ZenonT(30), <3>1, <3>2, UntouchedContents DEF SameContents
    <3>4. QED
      BY Zenon, <3>3
  <2>2. ASSUME Stray PROVE stray'
    BY <2>2 DEF Stray
  <2>3. QED
    BY Zenon, <2>1, <2>2 DEF Next, Query
<1>2. QED
  BY <1>1, Invariance, PTL DEF Spec, Isolation

(* What write_file reports as written is what read_file then returns, for every existing
   file, offset and length, across block boundaries.  *)
THEOREM WritesReadBack == Spec => []WriteReadBack
<1>1. UInv => WriteReadBack
  <2>1. ASSUME UInv, ~stray, NEW i \in fs.ibm, NEW offset \in Offsets, NEW buf \in Bufs,
               WriteFile(fs, i, buf, offset, "reg").rc = 0
        PROVE  ReadFile(WriteFile(fs, i, buf, offset, "reg").fs, i, offset, Len(buf)) =
                 [rc |-> 0, buf |-> buf]
    <3>1. PICK n \in 1..BS : buf \in [1..n -> Slot] /\ \A h : \A x \in 1..n : Known(buf[x], h)
      BY Zenon, BufsType
    <3>2. offset \in Nat
      BY Sizes DEF Offsets
    <3>3. Len(buf) = n
      BY <3>1, Sizes
    <3>4. i \in Inum /\ i \in 0..fs.hi /\ SoundImage(fs)
      BY Zenon, <2>1, Allocated DEF UInv, SoundImage, CountersExact
    <3>5. PICK r : r = WriteFile(fs, i, buf, offset, "reg")
      BY Zenon
    <3>6. Writes(fs, r, i, n, buf, offset)
      BY Zenon, <3>1, <3>2, <3>4, <3>5, WriteDoes
    <3>7. Wrote(r.fs, i, n, buf, offset)
      BY Zenon, <2>1, <3>5, <3>6 DEF Writes
    <3>8. ReadFile(r.fs, i, offset, n) = [rc |-> 0, buf |-> buf]
      BY Zenon, <3>1, <3>2, <3>4, <3>7, ReadsBack
    <3>9. QED
      BY Zenon, <3>3, <3>5, <3>8
  <2>2. QED
    BY Zenon, <2>1 DEF WriteReadBack
<1>2. QED
  BY <1>1, Invariance, PTL
=============================================================================
