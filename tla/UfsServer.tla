----------------------------- MODULE UfsServer -----------------------------
(***************************************************************************)
(* The file server of Ufs under any sequence of requests.                  *)
(*                                                                         *)
(* The server rejects no inode number: read_inode tests `ibm &&            *)
(* mask(inum)`, and its callers do not see that it failed.  A request that *)
(* names an inode nobody has created is served with whatever bytes mkfs,   *)
(* or malloc, left there as the inode, and nothing is known of the image   *)
(* afterwards.                                                             *)
(***************************************************************************)
EXTENDS Ufs

CONSTANT MaxOps  \* bound on the requests that may change the image
ASSUME MaxOpsType == MaxOps \in Nat

VARIABLES
  fs,       \* the image and the server's memory
  ops,      \* requests served that may change the image
  stray     \* whether a request has named an inode that does not exist

vars == <<fs, ops, stray>>

TypeOK ==
  /\ fs.ibm \subseteq Inum           \* inode bitmap on disk
  /\ fs.dbm \subseteq 0..(ND - 1)    \* data bitmap on disk
  /\ fs.inode \in [Inum -> Inode]    \* inode table on disk
  /\ fs.blk \in [Addr -> [0..(BS - 1) -> Slot]]
  /\ fs.hi \in Inum                  \* highest_inode, in memory
  /\ fs.hd \in 0..(ND - 1)           \* hghst_alloc_dblk, in memory
  /\ ops \in 0..MaxOps /\ stray \in BOOLEAN

Init == ops = 0 /\ stray = FALSE /\ \E g \in [Inum -> Garbage] : fs = Mkfs(g)

-----------------------------------------------------------------------------
(* The server: one request after another, in any order. *)

Bufs == UNION {[1..n -> {Datum(d) : d \in Data}] : n \in 1..BS}
Offsets == 0..(DP * BS)

Creat ==
  \E pinum \in fs.ibm, type \in {"dir", "reg"}, name \in Name :
    fs' = CreatFile(fs, pinum, type, name).fs

Write ==
  \E inum \in fs.ibm, offset \in Offsets, buf \in Bufs :
    fs' = WriteFile(fs, inum, buf, offset, "reg").fs

Unlink ==
  \E pinum \in fs.ibm, name \in Name : fs' = UnlinkFile(fs, pinum, name).fs

\* Any request on an inode number that is not that of a file or directory.
Stray == stray' = TRUE /\ UNCHANGED <<fs, ops>>

\* MFS_LOOKUP, MFS_STAT and MFS_READ change nothing; the properties below ask
\* what they would return.
Query == UNCHANGED vars

Next ==
  \/ ~stray /\ ops < MaxOps /\ ops' = ops + 1 /\ (Creat \/ Write \/ Unlink) /\ UNCHANGED stray
  \/ ~stray /\ Stray
  \/ Query

Spec == Init /\ [][Next]_vars

-----------------------------------------------------------------------------
(* Safety *)

Mapped(s, i) == {s.inode[i].direct[d] : d \in 0..(DP - 1)} \ {-1}

(* What follows is about images that no stray request has touched.  *)

(* The allocator's promise.  What an allocated inode maps is allocated in the
   data bitmap, two inodes never share a block, and a file has a block wherever
   its size says it has data, so no operation follows an unmapped pointer.  *)
BlocksOwned ==
  \A i \in fs.ibm :
    /\ \A a \in Mapped(fs, i) : a - FirstData \in fs.dbm
    /\ \A j \in fs.ibm \ {i} : Mapped(fs, i) \cap Mapped(fs, j) = {}
    /\ \A d \in 0..(DP - 1) : d * BS < fs.inode[i].size => fs.inode[i].direct[d] # -1

(* Every inode number that MFS_Lookup can return is that of an inode which exists: a
   client that names only the root and what it has looked up makes no stray request.  *)
LookupsExist ==
  \A p \in fs.ibm, n \in Name :
    LET a == LookupFile(fs, p, n) IN a # <<>> => EntryAt(fs, a).inum \in fs.ibm

(* The image on disk and the counters in memory stay within their regions, the
   allocator keeps its promise on it and lookups lead to what exists.  *)
ImageSound == ~stray => TypeOK /\ BlocksOwned /\ LookupsExist

\* What Read returns of a file or directory, slot by slot.
Contents(s, i) ==
  [k \in 0..(DP * BS - 1) |-> ReadFile(s, i, k, 1)]

(* A request changes what one existing file or directory contains, never two:
   creating, writing or unlinking in one place never shows in another.  *)
Isolation ==
  [][~stray' => \E i \in Inum : \A j \in fs.ibm \ {i} : Contents(fs', j) = Contents(fs, j)]_vars

(* What MFS_Write has reported as written is what MFS_Read then returns, for
   every file, offset and length, across block boundaries.  *)
WriteReadBack ==
  ~stray => \A i \in fs.ibm, offset \in Offsets, buf \in Bufs :
    LET r == WriteFile(fs, i, buf, offset, "reg")
    IN r.rc = 0 => ReadFile(r.fs, i, offset, Len(buf)) = [rc |-> 0, buf |-> buf]

-----------------------------------------------------------------------------
(* A promise of the documentation that the server does not keep *)

\* Slots of the blocks of directory i that hold a client's entry.
Children(s, i) ==
  {k \in 0..(DP * BS - 1) :
     LET r == ReadFile(s, i, k, 1)
     IN r.rc = 0 /\ r.buf[1].inum # -1 /\ r.buf[1].name \in Name}

(* Unlinking a directory that still has entries fails.  *)
NonEmptyStays ==
  ~stray => \A p \in fs.ibm, n \in Name :
    LET a == LookupFile(fs, p, n)
        i == EntryAt(fs, a).inum
    IN a # <<>> /\ fs.inode[i].type = "dir" /\ Children(fs, i) # {}
         => UnlinkFile(fs, p, n).rc = -1
=============================================================================
