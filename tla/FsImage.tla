------------------------------ MODULE FsImage ------------------------------
(***************************************************************************)
(* The on-disk file system of xv6 and the in-memory inodes over it         *)
(* (fs.c, mkfs.c): blocks, inodes, the block map of a file, directories.   *)
(*                                                                         *)
(* An image is a record:                                                   *)
(*   dino   the dinodes of the inode blocks                                *)
(*   ino    the copies of them in the inode cache (struct inode)           *)
(*   blk    the data blocks, UPB units each                                *)
(*   used   the blocks whose bit is set in the free bit map                *)
(*   panic  the message of the panic() that was reached, "" if none        *)
(*                                                                         *)
(* The unit of length is a directory entry: BSIZE is UPB units, a file     *)
(* holds units, an indirect block holds one address per unit.  Block       *)
(* numbers count from the first data block; 0 is "no block".               *)
(***************************************************************************)
EXTENDS Integers, Sequences, FiniteSets, SequencesExt, FiniteSetsExt

CONSTANTS NINODES, NBLOCKS, UPB, NDIRECT, NINDIRECT

ASSUME SizesAssumption ==
    /\ {NINODES, NBLOCKS, UPB, NDIRECT, NINDIRECT} \subseteq Nat \ {0}
    /\ NINODES > 1
    /\ NINDIRECT =< UPB

ROOTINO == 1
Inum == 1 .. NINODES - 1
Block == 1 .. NBLOCKS
MAXFILE == NDIRECT + NINDIRECT

\* A directory entry, a unit of data (its name is the data) or an address.
Unit(name, num) == [name |-> name, num |-> num]
Address(b) == Unit("", b)
Zero == Address(0)
ZeroBlock == [o \in 0 .. UPB - 1 |-> Zero]

Types == {"free", "dir", "file", "dev"}
NoAddrs == [n \in 0 .. NDIRECT |-> 0]
Dinode(type, nlink) == [type |-> type, nlink |-> nlink, size |-> 0, addrs |-> NoAddrs]
Free == Dinode("free", 0)

(***************************************************************************)
(* Blocks and inodes.                                                      *)
(***************************************************************************)

Panic(s, message) == IF s.panic = "" THEN [s EXCEPT !.panic = message] ELSE s

NextFree(s) == Min(Block \ s.used)

\* balloc: the first block whose bit is clear, NextFree(s), zeroed.
Balloc(s) ==
    IF Block \subseteq s.used
    THEN Panic(s, "balloc: out of blocks")
    ELSE [s EXCEPT !.used = @ \cup {NextFree(s)}, !.blk[NextFree(s)] = ZeroBlock]

Bfree(s, b) == IF b \in s.used THEN [s EXCEPT !.used = @ \ {b}] ELSE Panic(s, "freeing free block")

IUpdate(s, i) == [s EXCEPT !.dino[i] = s.ino[i]]

FreeInodes(s) == {i \in Inum : s.dino[i].type = "free"}

IAlloc(s, type) ==
    IF FreeInodes(s) = {}
    THEN Panic(s, "ialloc: no inodes")
    ELSE [s EXCEPT !.dino[Min(FreeInodes(s))] = Dinode(type, 0)]

\* The address bmap returns for the bn-th block of an inode, 0 if it has none yet.
AddressOf(s, i, bn) ==
    LET addrs == s.ino[i].addrs
    IN IF bn < NDIRECT THEN addrs[bn]
       ELSE IF addrs[NDIRECT] = 0 THEN 0
       ELSE s.blk[addrs[NDIRECT]][bn - NDIRECT].num

\* bmap: the missing indirect block, then the missing block, are allocated.
\* The new addresses are set in the inode in memory, which is not written back.
Bmap(s, i, bn) ==
    LET Root(n) == LET t == Balloc(s)
                   IN IF s.ino[i].addrs[n] # 0 THEN s
                      ELSE IF t.panic # "" THEN t
                      ELSE [t EXCEPT !.ino[i].addrs[n] = NextFree(s)]
        Leaf(t) == LET u == Balloc(t)
                       indirect == t.ino[i].addrs[NDIRECT]
                   IN IF t.panic # "" \/ AddressOf(t, i, bn) # 0 THEN t
                      ELSE IF u.panic # "" THEN u
                      ELSE [u EXCEPT !.blk[indirect][bn - NDIRECT] = Address(NextFree(t))]
    IN IF bn < NDIRECT THEN Root(bn)
       ELSE IF bn < MAXFILE THEN Leaf(Root(NDIRECT))
       ELSE Panic(s, "bmap: out of range")

\* The blocks of an inode: those that hold data, and the indirect block.
Addresses(s, i) ==
    ({AddressOf(s, i, bn) : bn \in 0 .. MAXFILE - 1} \cup {s.ino[i].addrs[NDIRECT]}) \ {0}

\* Mutant: itrunc does not free the indirect block itself.
ITruncKeepsIndirect(s, i) ==
    LET freed == FoldSet(LAMBDA b, t : Bfree(t, b), s, Addresses(s, i) \ {s.ino[i].addrs[NDIRECT]})
    IN IUpdate([freed EXCEPT !.ino[i].size = 0, !.ino[i].addrs = NoAddrs], i)

ITrunc(s, i) ==
    LET freed == FoldSet(LAMBDA b, t : Bfree(t, b), s, Addresses(s, i))
    IN IUpdate([freed EXCEPT !.ino[i].size = 0, !.ino[i].addrs = NoAddrs], i)

(***************************************************************************)
(* Contents of an inode.                                                   *)
(***************************************************************************)

\* The image once blocks 0 .. n - 1 of the inode were looked up with bmap.
Mapped(s, i, n) == FoldLeft(LAMBDA t, bn : Bmap(t, i, bn), s, [k \in 1 .. n |-> k - 1])

UnitAt(s, i, off) ==
    LET b == AddressOf(s, i, off \div UPB)
    IN IF b = 0 THEN Zero ELSE s.blk[b][off % UPB]

\* readi: what is read at off, at most n units and none past the size.
ReadI(s, i, off, n) ==
    [k \in 1 .. Max({0, Min({n, s.ino[i].size - off})}) |-> UnitAt(s, i, off + k - 1)]

WritableAt(s, i, off, n) == off =< s.ino[i].size /\ off + n =< MAXFILE * UPB

\* writei, where WritableAt holds: a unit at a time, then the size if it grew.
WriteI(s, i, off, buf) ==
    LET Put(t, k) ==
          LET u == Bmap(t, i, (off + k - 1) \div UPB)
          IN IF u.panic # "" THEN u
             ELSE [u EXCEPT !.blk[AddressOf(u, i, (off + k - 1) \div UPB)][(off + k - 1) % UPB]
                              = buf[k]]
        done == FoldLeft(Put, s, [k \in 1 .. Len(buf) |-> k])
        end == off + Len(buf)
    IN IF buf # <<>> /\ end > s.ino[i].size
       THEN IUpdate([done EXCEPT !.ino[i].size = end], i)
       ELSE done

(***************************************************************************)
(* Directories.                                                            *)
(***************************************************************************)

Offsets(s, d) == 0 .. s.ino[d].size - 1

Matches(s, d, name) ==
    {off \in Offsets(s, d) : UnitAt(s, d, off).num # 0 /\ UnitAt(s, d, off).name = name}

Found(s, d, name) == Matches(s, d, name) # {}

\* dirlookup: the offset of the first entry with the name, where there is one.
OffsetOf(s, d, name) == Min(Matches(s, d, name))

DirLookup(s, d, name) == UnitAt(s, d, OffsetOf(s, d, name)).num

\* The image after dirlookup: it read, and so mapped, the blocks up to the entry.
LookedUp(s, d, name) ==
    LET last == IF Found(s, d, name) THEN OffsetOf(s, d, name) ELSE s.ino[d].size - 1
    IN Mapped(s, d, 1 + (last \div UPB))

\* dirlink, where the name is absent: the first empty entry, or one more.
DirLink(s, d, name, num) ==
    LET off == Min({o \in Offsets(s, d) : UnitAt(s, d, o).num = 0} \cup {s.ino[d].size})
    IN IF WritableAt(s, d, off, 1)
       THEN WriteI(LookedUp(s, d, name), d, off, <<Unit(name, num)>>)
       ELSE Panic(s, "dirlink")

IsDirEmpty(s, d) == \A off \in Offsets(s, d) : off >= 2 => UnitAt(s, d, off).num = 0

(***************************************************************************)
(* mkfs: the image the system first boots from.                            *)
(***************************************************************************)

Blank == [dino  |-> [i \in Inum |-> Free],
          ino   |-> [i \in Inum |-> Free],
          blk   |-> [b \in Block |-> ZeroBlock],
          used  |-> {},
          panic |-> ""]

\* mkfs's ialloc: the next inode, with one link.  mkfs has no inode cache; it
\* reads and writes dinodes, so the two copies are kept equal.
MkInode(s, i, type) ==
    [s EXCEPT !.dino[i] = Dinode(type, 1), !.ino[i] = Dinode(type, 1)]

\* mkfs's iappend.  Its freeblock is the first block not yet used.
IAppend(s, i, buf) == IUpdate(WriteI(s, i, s.ino[i].size, buf), i)

\* Files are sequences of <<name, units>>.  The size of the root is at last
\* rounded up to the next block boundary, strictly above it.
Mkfs(files) ==
    LET root == IAppend(MkInode(Blank, ROOTINO, "dir"), ROOTINO,
                        <<Unit(".", ROOTINO), Unit("..", ROOTINO)>>)
        Add(s, k) ==
          LET i == ROOTINO + k
              named == IAppend(MkInode(s, i, "file"), ROOTINO, <<Unit(files[k][1], i)>>)
          IN IAppend(named, i, files[k][2])
        all == FoldLeft(Add, root, [k \in 1 .. Len(files) |-> k])
    IN IUpdate([all EXCEPT !.ino[ROOTINO].size = ((@ \div UPB) + 1) * UPB], ROOTINO)

(***************************************************************************)
(* What an image must satisfy.                                             *)
(***************************************************************************)

ImageType ==
    [dino  : [Inum -> [type : Types, nlink : Nat, size : 0 .. MAXFILE * UPB,
                       addrs : [0 .. NDIRECT -> {0} \cup Block]]],
     ino   : [Inum -> [type : Types, nlink : Nat, size : 0 .. MAXFILE * UPB,
                       addrs : [0 .. NDIRECT -> {0} \cup Block]]],
     blk   : [Block -> [0 .. UPB - 1 -> [name : STRING, num : Nat]]],
     used  : SUBSET Block,
     panic : STRING]
=============================================================================
