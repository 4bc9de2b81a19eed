------------------------------- MODULE UfsInv -------------------------------
(***************************************************************************)
(* The inductive invariant of UfsServer: what every image the server       *)
(* leaves behind has, whatever mkfs left in the inodes that nobody has     *)
(* created yet.                                                            *)
(***************************************************************************)
EXTENDS UfsServer

\* An image and the two counters.
Image ==
  [ibm : SUBSET Inum, dbm : SUBSET (0..(ND - 1)), inode : [Inum -> Inode],
   blk : [Addr -> [0..(BS - 1) -> Slot]], hi : Inum, hd : 0..(ND - 1)]

\* The d-th pointer of inode i.
Direct(s, i, d) == s.inode[i].direct[d]

\* The bit maps agree with the counters: numbers are handed out in order.
CountersExact(s) == s.ibm = 0..s.hi /\ s.dbm = 0..s.hd

\* A pointer of an allocated inode is to a block of the data region that was handed
\* out.
PointersAllocated(s) ==
  \A i \in 0..s.hi : \A d \in 0..(DP - 1) :
    Direct(s, i, d) =< s.hd + FirstData /\ Direct(s, i, d) # 0

\* No data block has two inodes.
PointersDisjoint(s) ==
  \A i, j \in 0..s.hi : \A d, e \in 0..(DP - 1) :
    i # j /\ Direct(s, i, d) = Direct(s, j, e) => Direct(s, i, d) < FirstData

\* The blocks of an allocated inode are its first ones.
NoHoles(s) ==
  \A i \in 0..s.hi : \A d \in 0..(DP - 1) : Direct(s, i, d) # -1 =>
    \A e \in 0..(DP - 1) : e < d => Direct(s, i, e) # -1

\* They reach as far as its size.
SizeMapped(s) ==
  \A i \in 0..s.hi : \A d \in 0..(DP - 1) : d * BS < s.inode[i].size => Direct(s, i, d) # -1

\* An entry with a name has the number of an allocated inode, or is unused.
Known(slot, hi) == slot.name = "" \/ slot.inum \in -1..hi
EntriesKnown(s) == \A a \in Addr : \A j \in 0..(BS - 1) : Known(s.blk[a][j], s.hi)

SoundImage(s) ==
  /\ s \in Image
  /\ CountersExact(s) /\ PointersAllocated(s) /\ PointersDisjoint(s)
  /\ NoHoles(s) /\ SizeMapped(s) /\ EntriesKnown(s)

(* The inductive invariant: numbers and blocks are handed out in order and each
   once, to one inode that maps them from its first pointer on, and directories
   name inodes that exist.  Unlinking may leave an inode with two pointers to one
   block, so nothing is said of the pointers of one inode among themselves.  *)
UInv == (~stray => SoundImage(fs)) /\ stray \in BOOLEAN /\ ops \in 0..MaxOps
=============================================================================
