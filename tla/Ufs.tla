-------------------------------- MODULE Ufs --------------------------------
(***************************************************************************)
(* The file server's image and its operations (filesystem/server.c) as     *)
(* mkfs.c lays the image out.  The server is one thread that finishes a    *)
(* request before it reads the next one, so an operation is a function     *)
(* from the state before it to the state after it and a return code.       *)
(*                                                                         *)
(* A block has BS slots; a slot is the size of a directory entry, and      *)
(* offsets, sizes and lengths of data are counted in slots.  Address 0     *)
(* stands for the blocks in front of the data region, which starts at 1.   *)
(***************************************************************************)
EXTENDS Integers, Sequences, FiniteSets, FiniteSetsExt

CONSTANTS
  NI,       \* super.num_inodes
  ND,       \* super.data_region_len
  BS,       \* slots of a block: UFS_BLOCK_SIZE / sizeof(dir_ent_t)
  DP,       \* DIRECT_PTRS
  Name,     \* file names clients use
  Data,     \* contents of a slot of a regular file
  Garbage   \* what an inode mkfs never initialised may hold

Inum == 0..(NI - 1)
Addr == 0..ND
FirstData == 1

\* Bytes a slot holds: a directory entry, or data, which no name matches.
Entry(n, i) == [name |-> n, inum |-> i]
Unused == Entry("", -1)
Zeroed == Entry("", 0)
Datum(d) == Entry("", d)
Slot == [name : Name \cup {"", ".", ".."}, inum : (Inum \cup {-1}) \cup Data]
Inode == [type : {"dir", "reg"}, size : 0..(DP * BS), direct : [0..(DP - 1) -> Addr \cup {-1}]]

ASSUME UfsConstants ==
  /\ NI \in Nat /\ ND \in Nat /\ BS \in Nat /\ DP \in Nat
  /\ NI > 0 /\ NI <= 32 /\ ND > 0 /\ BS > 2 /\ DP > 0
  /\ Name \cap {"", ".", ".."} = {} /\ Data \subseteq Int
  /\ Garbage \subseteq Inode

\* A fresh directory block: its own and its parent's entry.
DirBlock(i, p) ==
  [j \in 0..(BS - 1) |-> CASE j = 0 -> Entry(".", i)
                           [] j = 1 -> Entry("..", p)
                           [] OTHER -> Unused]
NoBlocks == [d \in 0..(DP - 1) |-> -1]

\* The image mkfs writes; it leaves the other inodes of the first inode block
\* uninitialised.
Mkfs(g) ==
  [ibm |-> {0}, dbm |-> {0},
   inode |-> [i \in Inum |->
     IF i = 0 THEN [type |-> "dir", size |-> 2, direct |-> [NoBlocks EXCEPT ![0] = FirstData]]
     ELSE g[i]],
   blk |-> [a \in Addr |-> IF a = FirstData THEN DirBlock(0, 0)
                           ELSE [j \in 0..(BS - 1) |-> Zeroed]],
   hi |-> 0, hd |-> 0]

-----------------------------------------------------------------------------
(* Helpers of server.c *)

\* A result: the state left behind and what the client gets.
Result(s, rc) == [fs |-> s, rc |-> rc]

\* new_inode
NewInode(s, type) ==
  [s EXCEPT !.hi = @ + 1, !.ibm = @ \cup {s.hi + 1},
            !.inode[s.hi + 1] = [type |-> type, size |-> 0, direct |-> NoBlocks]]

\* hghst_alloc_dblk when no data block is left.
LastBlock == ND - 1

\* Mutant: alloc_dblk forgets to write the data bitmap.
AllocDblkUnmarked(s, k) == [s EXCEPT !.hd = IF @ + k > LastBlock THEN LastBlock ELSE @ + k]

\* alloc_dblk called k times, as long as there are blocks.  Blocks are handed
\* out in order and none is ever freed.
AllocDblk(s, k) ==
  LET last == IF s.hd + k > LastBlock THEN LastBlock ELSE s.hd + k
  IN [s EXCEPT !.hd = last, !.dbm = @ \cup ((s.hd + 1)..last)]

\* Mutant: alloc_dblk returns the block it handed out last.
NewAddrTwice(s) == FirstData + s.hd

\* Address of the block that alloc_dblk hands out next.
NewAddr(s) == FirstData + s.hd + 1

\* lookup_file: where the entry is, as <<address, slot>>; <<>> if there is none.
\* It reads every slot of every block that the size reaches.
LookupFile(s, pinum, name) ==
  LET nd == s.inode[pinum]
      at(k) == s.blk[nd.direct[k \div BS]][k % BS]
      mxb == (nd.size + BS - 1) \div BS
      hits == {k \in 0..(mxb * BS - 1) : at(k).name = name /\ at(k).inum # -1}
  IN IF nd.type # "dir" \/ hits = {} THEN <<>>
     ELSE <<nd.direct[Min(hits) \div BS], Min(hits) % BS>>

EntryAt(s, a) == s.blk[a[1]][a[2]]

\* The writes of write_file: buf, a sequence of slots, goes to the block of
\* offset and what does not fit there to the next one.
Stored(s, inum, buf, offset) ==
  LET direct == s.inode[inum].direct
      ofd == offset \div BS
      ofr == offset % BS
      fits == BS - ofr
      first(j) == ofr <= j /\ j < ofr + Len(buf)
      slot(a, j) == IF a = direct[ofd] /\ first(j) THEN buf[j - ofr + 1]
                    ELSE IF j < Len(buf) - fits /\ a = direct[ofd + 1] THEN buf[fits + j + 1]
                    ELSE s.blk[a][j]
      end == offset + Len(buf)
  IN [s EXCEPT !.blk = [a \in Addr |-> [j \in 0..(BS - 1) |-> slot(a, j)]],
               !.inode[inum].size = IF end > @ THEN end ELSE @]

\* Mutant: write_file forgets where in the block the data starts.
FitsFromStart(buf, offset) == Len(buf) <= BS

\* The data ends in the block it starts in.
Fits(buf, offset) == Len(buf) <= BS - (offset % BS)

\* write_file.  Missing blocks are allocated downwards from the block of offset;
\* the inode is written before the data, and not at all if allocation fails.
WriteFile(s, inum, buf, offset, type) ==
  LET nd == s.inode[inum]
      ofd == offset \div BS
      missing == {d \in 0..ofd : \A e \in d..ofd : nd.direct[e] = -1}
      k == Cardinality(missing)
      mapped == [AllocDblk(s, k) EXCEPT !.inode[inum].direct =
                   [d \in 0..(DP - 1) |->
                      IF d \in missing THEN NewAddr(s) + ofd - d ELSE nd.direct[d]]]
      second == [AllocDblk(mapped, 1) EXCEPT !.inode[inum].direct[ofd + 1] = NewAddr(mapped)]
  IN IF nd.type # type \/ ofd > DP - 1 THEN Result(s, -1)
     ELSE IF s.hd + k > LastBlock THEN Result(AllocDblk(s, k), -1)
     ELSE IF Fits(buf, offset) THEN Result(Stored(mapped, inum, buf, offset), 0)
     ELSE IF ofd = DP - 1 \/ mapped.hd = LastBlock THEN Result(mapped, -1)
     ELSE Result(Stored(second, inum, buf, offset), 0)

\* read_file
ReadFile(s, inum, offset, n) ==
  LET direct == s.inode[inum].direct
      blocks == (offset \div BS)..((offset + n - 1) \div BS)
  IN IF \E d \in blocks : d > DP - 1 \/ direct[d] = -1 THEN [rc |-> -1, buf |-> <<>>]
     ELSE [rc |-> 0, buf |-> [k \in 1..n |->
             s.blk[direct[(offset + k - 1) \div BS]][(offset + k - 1) % BS]]]

-----------------------------------------------------------------------------
(* Requests *)

\* Mutant: creat_file does not look for the name first.
CreatFileAgain(s, pinum, type, name) ==
  LET s1 == NewInode(s, type)
      entry == <<Entry(name, s1.hi)>>
  IN IF s.inode[pinum].type # "dir" \/ s.hi = NI - 1 THEN Result(s, -1)
     ELSE Result(WriteFile(s1, pinum, entry, s1.inode[pinum].size, "dir").fs, 0)

\* creat_file; what write_file returns for the parent is ignored.
CreatFile(s, pinum, type, name) ==
  LET s1 == NewInode(s, type)
      s2 == IF type = "reg" THEN s1
            ELSE [AllocDblk(s1, 1) EXCEPT
                    !.inode[s1.hi].direct[0] = NewAddr(s1),
                    !.inode[s1.hi].size = 2,
                    !.blk[NewAddr(s1)] = DirBlock(s1.hi, pinum)]
      entry == <<Entry(name, s1.hi)>>
  IN IF s.inode[pinum].type # "dir" THEN Result(s, -1)
     ELSE IF LookupFile(s, pinum, name) # <<>> THEN Result(s, 0)
     ELSE IF s.hi = NI - 1 THEN Result(s, -1)
     ELSE IF type = "dir" /\ s1.hd = LastBlock THEN Result(s1, -1)
     ELSE Result(WriteFile(s2, pinum, entry, s2.inode[pinum].size, "dir").fs, 0)

\* unlink_file.  The test `direct[i] = addr / UFS_BLOCK_SIZE` assigns: the loop
\* ends at i = 0 with direct[0] overwritten.
UnlinkFile(s, pinum, name) ==
  LET a == LookupFile(s, pinum, name)
      nd == s.inode[EntryAt(s, a).inum]
  IN IF a = <<>> \/ (nd.type = "dir" /\ nd.size > 2) THEN Result(s, -1)
     ELSE Result([s EXCEPT !.blk[a[1]][a[2]] = Unused,
                           !.inode[pinum].direct[0] = a[1],
                           !.inode[pinum].size = IF a[2] < @ THEN a[2] ELSE @], 0)

=============================================================================
