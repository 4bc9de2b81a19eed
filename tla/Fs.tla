-------------------------------- MODULE Fs --------------------------------
(***************************************************************************)
(* The file system calls of xv6 (sysfile.c, file.c) and the inode cache    *)
(* they share (fs.c): processes that open, create, link, unlink, read and  *)
(* write the files of one image at the same time.                          *)
(*                                                                         *)
(* A step of a process runs from one acquisition of an inode's sleep lock  *)
(* to the next: between them nobody else can see the inodes it holds, and  *)
(* the buffer locks make each change of a block atomic.  What a process    *)
(* has still to do in its call is the sequence todo[p] of instructions     *)
(* [do, i]: "do" names the code that is next and i the inode it is about,  *)
(* to which the instruction holds a reference.  An empty todo[p] is a      *)
(* process that is in no call, and so in no transaction.                   *)
(***************************************************************************)
EXTENDS FsImage

CONSTANTS Process,
          NINODE,     \* entries of the inode cache
          Image,      \* the image the system boots from
          Requests,   \* the calls each process makes, see NoRequest
          Data,       \* units they write
          MAXWRITE,   \* units one transaction of filewrite may write
          MaxCalls,   \* bound on the calls of a process
          None

VARIABLES img,    \* the image, see FsImage
          ref,    \* ip->ref of the cache entry of each inode, 0 if it has none
          valid,  \* ip->valid
          lock,   \* the holder of ip->lock
          cwd,    \* proc->cwd
          ofile,  \* the open file of each process: [ip, off, writable] or None
          call,   \* the arguments and local variables of the call
          todo,   \* what is left of it
          calls   \* number of calls made

vars == <<img, ref, valid, lock, cwd, ofile, call, todo, calls>>

NoPath == [abs |-> TRUE, elems |-> <<>>]
NoRequest == [op |-> "none", path |-> NoPath, new |-> NoPath, writable |-> FALSE]
NoCall == [op |-> "none", elems |-> <<>>, parent |-> FALSE, name |-> "", new |-> NoPath,
           writable |-> FALSE, linked |-> FALSE, buf |-> <<>>]

\* iinit, and the first process: its cwd is the root, which it has referenced.
Init ==
    /\ img = [Image EXCEPT !.ino = [i \in Inum |-> Free]]
    /\ ref = [i \in Inum |-> IF i = ROOTINO THEN Cardinality(Process) ELSE 0]
    /\ valid = [i \in Inum |-> FALSE]
    /\ lock = [i \in Inum |-> None]
    /\ cwd = [p \in Process |-> ROOTINO]
    /\ ofile = [p \in Process |-> None]
    /\ call = [p \in Process |-> NoCall]
    /\ todo = [p \in Process |-> <<>>]
    /\ calls = [p \in Process |-> 0]

(***************************************************************************)
(* The inode cache.                                                        *)
(***************************************************************************)

Do(do, i) == [do |-> do, i |-> i]

\* The next instruction of p is one of the code "do".
At(p, do) == /\ img.panic = ""
             /\ todo[p] # <<>>
             /\ Head(todo[p]).do = do

Here(p) == Head(todo[p]).i

\* p has done its next instruction and goes on with these before the others.
Then(p, instructions) ==
    /\ todo' = [todo EXCEPT ![p] = instructions \o Tail(@)]
    /\ call' = [call EXCEPT ![p] = IF todo'[p] = <<>> THEN NoCall ELSE @]

\* The same, with c the local variables from now on.
ThenWith(p, c, instructions) ==
    /\ todo' = [todo EXCEPT ![p] = instructions \o Tail(@)]
    /\ call' = [call EXCEPT ![p] = c]

\* Mutant: iget always starts a new entry.
IGetNew(v, i) ==
    /\ ref' = [ref EXCEPT ![i] = 1]
    /\ valid' = [v EXCEPT ![i] = FALSE]

\* iget, and idup where the entry is known to exist: one more reference; a
\* new entry is not valid.  The valid entries are otherwise those of v.
IGet(v, i) ==
    /\ ref' = [ref EXCEPT ![i] = @ + 1]
    /\ valid' = IF ref[i] = 0 THEN [v EXCEPT ![i] = FALSE] ELSE v

\* iget on an image: it panics when every entry of the cache is in use.
Cached(s, i) ==
    IF ref[i] = 0 /\ Cardinality({j \in Inum : ref[j] > 0}) >= NINODE
    THEN Panic(s, "iget: no inodes") ELSE s

\* ilock on an image: an entry that is not valid is read from the disk.
ILock(s, i) ==
    IF valid[i] THEN s
    ELSE LET t == [s EXCEPT !.ino[i] = s.dino[i]]
         IN IF t.ino[i].type = "free" THEN Panic(t, "ilock: no type") ELSE t

Unlocked(i) == lock[i] = None

\* Mutant: iput does not look at the number of references.
IPutUnchecked(p) ==
    /\ At(p, "iput")
    /\ Unlocked(Here(p))
    /\ LET i == Here(p)
           t == ITrunc(img, i)
       IN IF valid[i] /\ img.ino[i].nlink = 0
          THEN /\ img' = IUpdate([t EXCEPT !.ino[i].type = "free"], i)
               /\ valid' = [valid EXCEPT ![i] = FALSE]
          ELSE UNCHANGED <<img, valid>>
    /\ Then(p, <<Do("drop", Here(p))>>)
    /\ UNCHANGED <<ref, lock, cwd, ofile, calls>>

\* iput, up to the release of the sleep lock: an inode without links that has
\* no other reference is truncated and freed.
IPut(p) ==
    /\ At(p, "iput")
    /\ Unlocked(Here(p))
    /\ LET i == Here(p)
           t == ITrunc(img, i)
       IN IF valid[i] /\ img.ino[i].nlink = 0 /\ ref[i] = 1
          THEN /\ img' = IUpdate([t EXCEPT !.ino[i].type = "free"], i)
               /\ valid' = [valid EXCEPT ![i] = FALSE]
          ELSE UNCHANGED <<img, valid>>
    /\ Then(p, <<Do("drop", Here(p))>>)
    /\ UNCHANGED <<ref, lock, cwd, ofile, calls>>

\* The rest of iput: the reference is given back.
IPutDrop(p) ==
    /\ At(p, "drop")
    /\ ref' = [ref EXCEPT ![Here(p)] = @ - 1]
    /\ Then(p, <<>>)
    /\ UNCHANGED <<img, valid, lock, cwd, ofile, calls>>

\* iunlock, of an inode that an earlier instruction left locked, then iput.
IUnlockPut(p) ==
    /\ At(p, "iunlockput")
    /\ lock' = [lock EXCEPT ![Here(p)] = None]
    /\ Then(p, <<Do("iput", Here(p))>>)
    /\ UNCHANGED <<img, ref, valid, cwd, ofile, calls>>

(***************************************************************************)
(* Path lookup.                                                            *)
(***************************************************************************)

\* skipelem leaves the elements of a path, without the slashes between them.
Start(p, path) == IF path.abs THEN ROOTINO ELSE cwd[p]

\* The code that goes on once namex returned an inode.
Continuation(c) == IF c.op = "link" /\ c.parent THEN "dirlink" ELSE c.op

\* namex at the end of the path.  A path of no elements has no parent.
NamexEnd(p) ==
    /\ At(p, "namex")
    /\ call[p].elems = <<>>
    /\ Then(p, IF call[p].parent THEN <<Do("iput", Here(p))>>
               ELSE <<Do(Continuation(call[p]), Here(p))>>)
    /\ UNCHANGED <<img, ref, valid, lock, cwd, ofile, calls>>

\* An iteration of namex: the inode is locked, looked up and unlocked; its
\* reference is given back unless it is the parent that was asked for.
NamexStep(p) ==
    /\ At(p, "namex")
    /\ call[p].elems # <<>>
    /\ Unlocked(Here(p))
    /\ LET i == Here(p)
           c == call[p]
           name == Head(c.elems)
           s == ILock(img, i)
           v == [valid EXCEPT ![i] = TRUE]
       IN IF s.ino[i].type # "dir"
          THEN /\ Then(p, <<Do("iput", i)>>)
               /\ img' = s /\ valid' = v /\ ref' = ref
          ELSE IF c.parent /\ Len(c.elems) = 1
          THEN /\ ThenWith(p, [c EXCEPT !.elems = <<>>, !.name = name],
                           <<Do(Continuation(c), i)>>)
               /\ img' = s /\ valid' = v /\ ref' = ref
          ELSE IF ~Found(s, i, name)
          THEN /\ Then(p, <<Do("iput", i)>>)
               /\ img' = LookedUp(s, i, name) /\ valid' = v /\ ref' = ref
          ELSE LET next == DirLookup(s, i, name)
               IN /\ ThenWith(p, [c EXCEPT !.elems = Tail(@)],
                              <<Do("iput", i), Do("namex", next)>>)
                  /\ img' = Cached(LookedUp(s, i, name), next)
                  /\ IGet(v, next)
    /\ UNCHANGED <<lock, cwd, ofile, calls>>

(***************************************************************************)
(* link.                                                                   *)
(***************************************************************************)

\* Mutant: the new link count is not written to the disk.
LinkOldUnsaved(p) ==
    /\ At(p, "link")
    /\ Unlocked(Here(p))
    /\ LET i == Here(p)
           start == Start(p, call[p].new)
           up == [ILock(img, i) EXCEPT !.ino[i].nlink = @ + 1]
       IN /\ ThenWith(p, [call[p] EXCEPT !.elems = call[p].new.elems, !.parent = TRUE],
                      <<Do("namex", start), Do("linked", i)>>)
          /\ img' = Cached(up, start)
          /\ IGet([valid EXCEPT ![i] = TRUE], start)
    /\ UNCHANGED <<lock, cwd, ofile, calls>>

\* Mutant: the inode stays locked while the new name is looked up.
LinkOldLocked(p) ==
    /\ At(p, "link")
    /\ Unlocked(Here(p))
    /\ LET i == Here(p)
           start == Start(p, call[p].new)
           up == [ILock(img, i) EXCEPT !.ino[i].nlink = @ + 1]
       IN /\ ThenWith(p, [call[p] EXCEPT !.elems = call[p].new.elems, !.parent = TRUE],
                      <<Do("namex", start), Do("linked", i)>>)
          /\ img' = Cached(IUpdate(up, i), start)
          /\ IGet([valid EXCEPT ![i] = TRUE], start)
          /\ lock' = [lock EXCEPT ![i] = p]
    /\ UNCHANGED <<cwd, ofile, calls>>

\* The old name was found: one more link, before the new name exists.
LinkOld(p) ==
    /\ At(p, "link")
    /\ Unlocked(Here(p))
    /\ LET i == Here(p)
           c == call[p]
           s == ILock(img, i)
           v == [valid EXCEPT ![i] = TRUE]
           up == [s EXCEPT !.ino[i].nlink = @ + 1]
           start == Start(p, c.new)
       IN IF s.ino[i].type = "dir"
          THEN /\ Then(p, <<Do("iput", i)>>)
               /\ img' = s /\ valid' = v /\ ref' = ref
          ELSE /\ ThenWith(p, [c EXCEPT !.elems = c.new.elems, !.parent = TRUE],
                           <<Do("namex", start), Do("linked", i)>>)
               /\ img' = Cached(IUpdate(up, i), start)
               /\ IGet(v, start)
    /\ UNCHANGED <<lock, cwd, ofile, calls>>

\* dirlink in the parent of the new name.  When the name exists, its inode is
\* put while the parent is still locked.
LinkNew(p) ==
    /\ At(p, "dirlink")
    /\ Unlocked(Here(p))
    /\ LET d == Here(p)
           c == call[p]
           s == ILock(img, d)
           v == [valid EXCEPT ![d] = TRUE]
           old == DirLookup(s, d, c.name)
       IN IF Found(s, d, c.name)
          THEN /\ Then(p, <<Do("iput", old), Do("iunlockput", d)>>)
               /\ img' = Cached(LookedUp(s, d, c.name), old)
               /\ lock' = [lock EXCEPT ![d] = p]
               /\ IGet(v, old)
          ELSE /\ ThenWith(p, [c EXCEPT !.linked = TRUE], <<Do("iput", d)>>)
               /\ img' = DirLink(s, d, c.name, todo[p][2].i)
               /\ valid' = v
               /\ UNCHANGED <<lock, ref>>
    /\ UNCHANGED <<cwd, ofile, calls>>

\* The end of sys_link: where there is no new name the link is taken back.
LinkEnd(p) ==
    /\ At(p, "linked")
    /\ call[p].linked \/ Unlocked(Here(p))
    /\ LET i == Here(p)
           down == [ILock(img, i) EXCEPT !.ino[i].nlink = @ - 1]
       IN IF call[p].linked
          THEN UNCHANGED <<img, valid>>
          ELSE img' = IUpdate(down, i) /\ valid' = [valid EXCEPT ![i] = TRUE]
    /\ Then(p, <<Do("iput", Here(p))>>)
    /\ UNCHANGED <<ref, lock, cwd, ofile, calls>>

(***************************************************************************)
(* unlink.                                                                 *)
(***************************************************************************)

\* The parent is locked and the name looked up; the parent stays locked.
UnlinkLookup(p) ==
    /\ At(p, "unlink")
    /\ Unlocked(Here(p))
    /\ LET d == Here(p)
           name == call[p].name
           s == ILock(img, d)
           v == [valid EXCEPT ![d] = TRUE]
           i == DirLookup(s, d, name)
       IN IF name \in {".", ".."} \/ ~Found(s, d, name)
          THEN /\ img' = IF name \in {".", ".."} THEN s ELSE LookedUp(s, d, name)
               /\ valid' = v
               /\ Then(p, <<Do("iput", d)>>)
               /\ UNCHANGED <<lock, ref>>
          ELSE /\ img' = Cached(LookedUp(s, d, name), i)
               /\ lock' = [lock EXCEPT ![d] = p]
               /\ IGet(v, i)
               /\ Then(p, <<Do("erase", i), Do("iunlockput", d)>>)
    /\ UNCHANGED <<cwd, ofile, calls>>

\* The inode is locked as well, and its entry erased; a directory that is not
\* empty is left alone.  The inode stays locked while the parent is put.
UnlinkErase(p) ==
    /\ At(p, "erase")
    /\ Unlocked(Here(p))
    /\ LET i == Here(p)
           d == todo[p][2].i
           s == ILock(img, i)
           dir == s.ino[i].type = "dir"
           erased == WriteI(s, d, OffsetOf(s, d, call[p].name), <<Zero>>)
           down == [erased EXCEPT !.ino[d].nlink = @ - 1]
       IN /\ valid' = [valid EXCEPT ![i] = TRUE]
          /\ IF s.ino[i].nlink >= 1 /\ dir /\ ~IsDirEmpty(s, i)
             THEN /\ img' = s
                  /\ Then(p, <<Do("iput", i)>>)
                  /\ UNCHANGED lock
             ELSE /\ img' = IF s.ino[i].nlink < 1
                            THEN Panic(s, "unlink: nlink < 1")
                            ELSE IF dir THEN IUpdate(down, d) ELSE erased
                  /\ lock' = [lock EXCEPT ![d] = None, ![i] = p]
                  /\ todo' = [todo EXCEPT ![p] = <<Do("iput", d), Do("erased", i)>>]
                  /\ UNCHANGED call
    /\ UNCHANGED <<ref, cwd, ofile, calls>>

\* The link is taken away, after the parent was put.
UnlinkEnd(p) ==
    /\ At(p, "erased")
    /\ img' = IUpdate([img EXCEPT !.ino[Here(p)].nlink = @ - 1], Here(p))
    /\ lock' = [lock EXCEPT ![Here(p)] = None]
    /\ Then(p, <<Do("iput", Here(p))>>)
    /\ UNCHANGED <<ref, valid, cwd, ofile, calls>>

(***************************************************************************)
(* create, open, mkdir, mknod and chdir.                                   *)
(***************************************************************************)

TypeMade == [create |-> "file", mkdir |-> "dir", mknod |-> "dev"]

\* The image after create made inode i of the type in directory d.
Made(s, d, name, type, i) ==
    LET new == [s EXCEPT !.ino[i] = [s.dino[i] EXCEPT !.nlink = 1]]
        up  == IUpdate([IUpdate(new, i) EXCEPT !.ino[d].nlink = @ + 1], d)
        dots == DirLink(DirLink(up, i, ".", i), i, "..", d)
    IN DirLink(IF type = "dir" THEN dots ELSE IUpdate(new, i), d, name, i)

\* create, with the parent locked.  A name that exists is opened afterwards,
\* with the parent unlocked; a new inode stays locked while the parent is put.
Create(p) ==
    \E op \in DOMAIN TypeMade :
      /\ At(p, op)
      /\ Unlocked(Here(p))
      /\ LET d == Here(p)
             name == call[p].name
             s == ILock(img, d)
             t == LookedUp(s, d, name)
             v == [valid EXCEPT ![d] = TRUE]
             old == DirLookup(s, d, name)
             i == Min(FreeInodes(s))
         IN IF Found(s, d, name)
            THEN /\ img' = Cached(t, old)
                 /\ IGet(v, old)
                 /\ Then(p, <<Do("iput", d), Do("existing", old)>>)
                 /\ UNCHANGED lock
            ELSE IF FreeInodes(s) = {}
            THEN /\ img' = IAlloc(t, TypeMade[op])
                 /\ UNCHANGED <<ref, valid, lock, todo, call>>
            ELSE /\ Unlocked(i)
                 /\ img' = Made(Cached(IAlloc(t, TypeMade[op]), i), d, name, TypeMade[op], i)
                 /\ ref' = [ref EXCEPT ![i] = @ + 1]
                 /\ valid' = [v EXCEPT ![i] = TRUE]
                 /\ lock' = [lock EXCEPT ![i] = p]
                 /\ Then(p, <<Do("iput", d), Do("opened", i)>>)
      /\ UNCHANGED <<cwd, ofile, calls>>

\* create found the name: only an existing file, and only for open, will do.
CreateExisting(p) ==
    /\ At(p, "existing")
    /\ Unlocked(Here(p))
    /\ LET i == Here(p)
           s == ILock(img, i)
       IN /\ img' = s
          /\ valid' = [valid EXCEPT ![i] = TRUE]
          /\ IF call[p].op = "create" /\ s.ino[i].type = "file"
             THEN /\ lock' = [lock EXCEPT ![i] = p]
                  /\ Then(p, <<Do("opened", i)>>)
             ELSE /\ UNCHANGED lock
                  /\ Then(p, <<Do("iput", i)>>)
    /\ UNCHANGED <<ref, cwd, ofile, calls>>

\* open without O_CREATE: a directory can only be opened for reading.
Open(p) ==
    /\ At(p, "open")
    /\ Unlocked(Here(p))
    /\ LET i == Here(p)
           s == ILock(img, i)
       IN /\ img' = s
          /\ valid' = [valid EXCEPT ![i] = TRUE]
          /\ IF s.ino[i].type = "dir" /\ call[p].writable
             THEN /\ UNCHANGED lock
                  /\ Then(p, <<Do("iput", i)>>)
             ELSE /\ lock' = [lock EXCEPT ![i] = p]
                  /\ Then(p, <<Do("opened", i)>>)
    /\ UNCHANGED <<ref, cwd, ofile, calls>>

\* The inode is at hand and locked: open puts it in a file, if the process has
\* a descriptor left, and mkdir, mknod and a failed open put it.
Opened(p) ==
    /\ At(p, "opened")
    /\ lock' = [lock EXCEPT ![Here(p)] = None]
    /\ IF call[p].op \in {"open", "create"} /\ ofile[p] = None
       THEN /\ ofile' = [ofile EXCEPT ![p] = [ip |-> Here(p), off |-> 0,
                                              writable |-> call[p].writable]]
            /\ Then(p, <<>>)
       ELSE /\ UNCHANGED ofile
            /\ Then(p, <<Do("iput", Here(p))>>)
    /\ UNCHANGED <<img, ref, valid, cwd, calls>>

ChDir(p) ==
    /\ At(p, "chdir")
    /\ Unlocked(Here(p))
    /\ LET i == Here(p)
           s == ILock(img, i)
       IN /\ img' = s
          /\ valid' = [valid EXCEPT ![i] = TRUE]
          /\ IF s.ino[i].type # "dir"
             THEN /\ Then(p, <<Do("iput", i)>>)
                  /\ UNCHANGED cwd
             ELSE /\ Then(p, <<Do("iput", cwd[p])>>)
                  /\ cwd' = [cwd EXCEPT ![p] = i]
    /\ UNCHANGED <<ref, lock, ofile, calls>>

(***************************************************************************)
(* Open files.                                                             *)
(***************************************************************************)

\* filestat: the inode is locked, read if need be, and copied.
Stat(p) ==
    /\ At(p, "fstat")
    /\ Unlocked(Here(p))
    /\ img' = ILock(img, Here(p))
    /\ valid' = [valid EXCEPT ![Here(p)] = TRUE]
    /\ Then(p, <<>>)
    /\ UNCHANGED <<ref, lock, cwd, ofile, calls>>

\* fileread.  A device reads no block, and has no use for the offset.
Read(p) ==
    /\ At(p, "read")
    /\ Unlocked(Here(p))
    /\ LET f == ofile[p]
           s == ILock(img, f.ip)
           got == IF s.ino[f.ip].type = "dev" THEN <<>> ELSE ReadI(s, f.ip, f.off, UPB)
       IN /\ img' = s
          /\ valid' = [valid EXCEPT ![f.ip] = TRUE]
          /\ ofile' = [ofile EXCEPT ![p].off = @ + Len(got)]
    /\ Then(p, <<>>)
    /\ UNCHANGED <<ref, lock, cwd, calls>>

\* An iteration of filewrite, a transaction of its own: at most MAXWRITE units.
Write(p) ==
    /\ At(p, "write")
    /\ Unlocked(Here(p))
    /\ LET f == ofile[p]
           c == call[p]
           n1 == Min({MAXWRITE, Len(c.buf)})
           s == ILock(img, f.ip)
           rest == SubSeq(c.buf, n1 + 1, Len(c.buf))
           file == s.ino[f.ip].type # "dev"
           fits == WritableAt(s, f.ip, f.off, n1)
       IN /\ img' = IF file /\ fits THEN WriteI(s, f.ip, f.off, SubSeq(c.buf, 1, n1)) ELSE s
          /\ valid' = [valid EXCEPT ![f.ip] = TRUE]
          /\ ofile' = [ofile EXCEPT ![p].off = IF file /\ fits THEN @ + n1 ELSE @]
          /\ IF file /\ fits /\ rest # <<>>
             THEN ThenWith(p, [c EXCEPT !.buf = rest], <<Do("write", f.ip)>>)
             ELSE Then(p, <<>>)
    /\ UNCHANGED <<ref, lock, cwd, calls>>

(***************************************************************************)
(* The calls.                                                              *)
(***************************************************************************)

PathOps == {"open", "create", "mkdir", "mknod", "link", "unlink", "chdir"}
Requested(p) == {r.op : r \in Requests[p]}

\* A call that takes a path: begin_op, and the first reference of namex.
CallOnPath(p) ==
    /\ img.panic = "" /\ todo[p] = <<>> /\ calls[p] < MaxCalls
    /\ \E r \in Requests[p] :
         /\ r.op \in PathOps
         /\ call' = [call EXCEPT ![p] = [NoCall EXCEPT
                       !.op = r.op, !.elems = r.path.elems, !.new = r.new, !.writable = r.writable,
                       !.parent = r.op \in {"create", "mkdir", "mknod", "unlink"}]]
         /\ todo' = [todo EXCEPT ![p] = <<Do("namex", Start(p, r.path))>>]
         /\ img' = Cached(img, Start(p, r.path))
         /\ IGet(valid, Start(p, r.path))
    /\ calls' = [calls EXCEPT ![p] = @ + 1]
    /\ UNCHANGED <<lock, cwd, ofile>>

\* A call on the open file: fstat, read, write of some units, or close.
CallOnFile(p) ==
    /\ img.panic = "" /\ todo[p] = <<>> /\ calls[p] < MaxCalls
    /\ ofile[p] # None
    /\ LET i == ofile[p].ip
       IN \/ /\ \E op \in Requested(p) \cap {"read", "fstat"} :
                   todo' = [todo EXCEPT ![p] = <<Do(op, i)>>]
             /\ UNCHANGED <<call, ofile>>
          \/ /\ "write" \in Requested(p) /\ ofile[p].writable
             /\ \E n \in 1 .. MAXWRITE + 1, d \in Data :
                  call' = [call EXCEPT ![p].buf = [k \in 1 .. n |-> Unit(d, i)]]
             /\ todo' = [todo EXCEPT ![p] = <<Do("write", i)>>]
             /\ UNCHANGED ofile
          \/ /\ "close" \in Requested(p)
             /\ todo' = [todo EXCEPT ![p] = <<Do("iput", i)>>]
             /\ ofile' = [ofile EXCEPT ![p] = None]
             /\ UNCHANGED call
    /\ calls' = [calls EXCEPT ![p] = @ + 1]
    /\ UNCHANGED <<img, ref, valid, lock, cwd>>

Next ==
    \E p \in Process :
        \/ CallOnPath(p) \/ CallOnFile(p)
        \/ IPut(p) \/ IPutDrop(p) \/ IUnlockPut(p)
        \/ NamexEnd(p) \/ NamexStep(p)
        \/ LinkOld(p) \/ LinkNew(p) \/ LinkEnd(p)
        \/ UnlinkLookup(p) \/ UnlinkErase(p) \/ UnlinkEnd(p)
        \/ Create(p) \/ CreateExisting(p) \/ Open(p) \/ Opened(p) \/ ChDir(p)
        \/ Stat(p) \/ Read(p) \/ Write(p)

Spec == Init /\ [][Next]_vars

(***************************************************************************)
(* Properties.                                                             *)
(***************************************************************************)

Instructions(p) == {todo[p][k] : k \in 1 .. Len(todo[p])}

\* Every variable has its type.
TypeOK ==
    /\ img \in ImageType
    /\ ref \in [Inum -> Nat]
    /\ valid \in [Inum -> BOOLEAN]
    /\ lock \in [Inum -> Process \cup {None}]
    /\ cwd \in [Process -> Inum]
    /\ \A p \in Process : Instructions(p) \subseteq [do : STRING, i : Inum]

\* No panic() stopped the machine in the middle of a step.
Running == img.panic = ""

Disk == [img EXCEPT !.ino = img.dino]
Allocated == {i \in Inum : img.dino[i].type # "free"}
Directories == {i \in Inum : img.dino[i].type = "dir"}

\* The entries of all directories that name an inode; the first two, . and ..,
\* are left out.
Entries ==
    UNION {{[dir |-> d, num |-> UnitAt(Disk, d, off).num, off |-> off] :
               off \in {o \in 2 .. img.dino[d].size - 1 : UnitAt(Disk, d, o).num # 0}} :
           d \in Directories}

\* Calls for which i has a link but not yet, or no longer, a name.
Unnamed(i) ==
    {p \in Process : \/ Do("linked", i) \in Instructions(p) /\ ~call[p].linked
                     \/ Do("erased", i) \in Instructions(p)}

\* The link count of an inode, on disk, is never below the number of names it
\* has, its subdirectories and half-done link and unlink calls: no name is left
\* that stands for a freed inode, whatever calls of sys_link, sys_unlink and
\* create run at once.  (It may be above: see README on removed directories.)
LinksCounted ==
  Running =>
    \A entries \in {Entries}, i \in Inum :
       LET links == {e \in entries : e.num = i \/ (e.dir = i /\ e.num \in Directories)}
       IN img.dino[i].nlink >= Cardinality(links) + Cardinality(Unnamed(i))
                                 + (IF i = ROOTINO THEN 1 ELSE 0)

\* A directory has at most one name, and its .. is the directory that name is in.
TreeShaped ==
  Running =>
    \A named \in {{e \in Entries : e.num \in Directories}} : \A e \in named :
       /\ \A other \in named : other.num = e.num => other = e
       /\ DirLookup(Disk, e.num, "..") = e.dir
       /\ DirLookup(Disk, e.num, ".") = e.num

\* The free bit map is exact: a block is marked used if and only if one inode,
\* and only one, has it, in one place of its block map.
BlocksOwned ==
  Running =>
    \A owned \in {[i \in Allocated |-> Addresses(Disk, i)]} :
       LET Places(i) == {bn \in 0 .. MAXFILE - 1 : AddressOf(Disk, i, bn) # 0}
           indirect(i) == IF img.dino[i].addrs[NDIRECT] = 0 THEN 0 ELSE 1
       IN /\ img.used = UNION Range(owned)
          /\ \A i, j \in DOMAIN owned : i # j => owned[i] \cap owned[j] = {}
          /\ \A i \in DOMAIN owned : Cardinality(owned[i]) = Cardinality(Places(i)) + indirect(i)

\* The inode cache is write-through: whenever no step is under way, a valid entry
\* equals the dinode.
WriteThrough ==
  Running =>
    \A i \in Inum : ref[i] > 0 /\ valid[i] => img.ino[i] = img.dino[i]

\* ip->ref is the number of pointers to the entry: current directories, open
\* files and those in the local variables of the calls under way.
RefsExact ==
  Running =>
    \A i \in Inum :
        ref[i] = Cardinality({p \in Process : cwd[p] = i})
               + Cardinality({p \in Process : ofile[p] # None /\ ofile[p].ip = i})
               + Cardinality({<<p, k>> \in Process \X (1 .. 5) :
                                /\ k =< Len(todo[p])
                                /\ todo[p][k].i = i
                                /\ todo[p][k].do \notin {"fstat", "read", "write"}})

\* Open files and current directories are not freed under their users: unlink
\* leaves the inode to the last iput.
OpenStaysAllocated ==
  Running =>
    \A p \in Process : /\ cwd[p] \in Directories
                       /\ ofile[p] # None => ofile[p].ip \in Allocated

\* A file holds only what was written to it: no unit within its size belongs to
\* another inode, or to an earlier use of the block.
FileData ==
  Running =>
    \A i \in Allocated : img.dino[i].type = "file" =>
        \A off \in Offsets(Disk, i) : UnitAt(Disk, i, off).num = i

\* A sleep lock is held only by a call that is about to release it.
LocksReleased ==
    \A i \in Inum : lock[i] # None =>
        \E do \in {"iunlockput", "opened", "erased"} : Do(do, i) \in Instructions(lock[i])

\* The only panics are those for want of a block, an inode or a cache entry.
OnlyFullPanics ==
    img.panic \in {"", "balloc: out of blocks", "ialloc: no inodes", "iget: no inodes"}

\* The inode whose lock p waits for.
WaitsFor(p) ==
    {i \in Inum : /\ todo[p] # <<>> /\ Here(p) = i /\ lock[i] # None
                  /\ Head(todo[p]).do \notin {"drop", "iunlockput", "opened", "erased"}}

Deadlocked(p, q) ==
    \E i \in WaitsFor(p), j \in WaitsFor(q) : lock[i] = q /\ lock[j] = p

\* Two processes wait for each other only where one of them is in iput, which
\* locks the parent again while the inode below it is still locked (fs.c:334);
\* everywhere else the parent is locked before the child.
OnlyPutDeadlocks ==
    \A p, q \in Process : Deadlocked(p, q) => \E r \in {p, q} : Head(todo[r]).do = "iput"

\* The names of all directories form a tree that the link counts agree with.
TreeSound == LinksCounted /\ TreeShaped

\* Blocks and inodes on disk: every block has one owner or is free, a file has
\* only its own data, and the inode cache agrees with the disk.
ImageSound == TypeOK /\ BlocksOwned /\ FileData /\ WriteThrough

\* What a process uses is not freed under it, neither an open file, nor a current
\* directory, nor an inode a call has looked up: ilock would panic on a freed one.
InUseStays == OpenStaysAllocated /\ OnlyFullPanics

\* Every lock is given back by the call that took it, and no two calls block each
\* other, but for the second lock of the parent that iput takes.
LocksSound == LocksReleased /\ OnlyPutDeadlocks

(***************************************************************************)
(* What the comments of fs.c promise and the code does not keep; see the   *)
(* README.                                                                 *)
(***************************************************************************)

\* The separation of iget and ilock avoids deadlock (fs.c:149).
NoDeadlock == \A p, q \in Process : ~Deadlocked(p, q)

\* The last iput of an inode without links frees it (fs.c:327).
UnusedIsFree ==
    (\A p \in Process : todo[p] = <<>>) =>
        \A i \in Allocated : img.dino[i].nlink = 0 => ref[i] > 0
=============================================================================
