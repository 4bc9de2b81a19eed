------------------------------- MODULE Memory -------------------------------
(***************************************************************************)
(* Physical pages, address spaces and the calls that build, change and     *)
(* drop them: kalloc.c, vm.c, exec.c, growproc and the parts of fork and   *)
(* wait of proc.c that allocate and free memory, the argument checks of    *)
(* syscall.c.                                                              *)
(*                                                                         *)
(* Page tables are pages of the same free list as the memory they map, so  *)
(* any call can run out at any of its pages, while the other processors    *)
(* allocate and free.  One step is one kalloc or one kfree (the section    *)
(* under kmem.lock) with what the caller does up to the next one; between  *)
(* steps a call is the stack of frames todo[p] it still has to run.        *)
(*                                                                         *)
(* The unit of length is a machine word; a page is PGSIZE words.           *)
(***************************************************************************)
EXTENDS Integers, Sequences, FiniteSets, SequencesExt, FiniteSetsExt

CONSTANTS Memories,    \* pages there may be between the end of the kernel and PHYSTOP
          PGSIZE,
          NPTE,        \* entries of a page table
          UPDE, KPDE,  \* entries of a page directory: user part, those kmap fills
          NPROC, MAXARG,
          Programs,    \* the files a process may exec
          Deltas,      \* the arguments of sbrk a process uses
          Values,      \* what it may store in a page
          MaxCalls     \* bound: system calls and stores of a process

ASSUME MemoryAssumption ==
    /\ ({PGSIZE, NPTE, UPDE, KPDE, NPROC} \cup Memories) \subseteq (Nat \ {0})
    /\ MAXARG \in Nat
    /\ \A n \in Memories : n >= 4 + KPDE    \* userinit panics with less

Process == 1 .. NPROC
initproc == 1
TABLESPAN == NPTE * PGSIZE
KERNBASE == UPDE * TABLESPAN
SPAN == 2 * KERNBASE      \* a uint is below SPAN: KERNBASE is 0x80000000
PDX(a) == a \div TABLESPAN
PTX(a) == (a \div PGSIZE) % NPTE
RoundUp(a) == ((a + PGSIZE - 1) \div PGSIZE) * PGSIZE
RoundDown(a) == (a \div PGSIZE) * PGSIZE
UserPages == {n * PGSIZE : n \in 0 .. UPDE * NPTE - 1}

VARIABLES npages,    \* the pages of this machine are 1 .. npages
          nfree,     \* the length of kmem.freelist
          content,   \* what the pages that are not on it hold
          proc,      \* ptable.proc: state, page directory, size, kernel stack, parent
          todo,      \* the frames of the system call a process is in
          x,         \* its locals: the new directory, its size, the child, the program,
                     \* whether exec holds the inode and the log, the value returned
          panic,     \* the message of the panic() that was reached, "" if none
          stored,    \* ghost: what a process should find in its pages
          calls      \* the calls a process made so far

vars == <<npages, nfree, content, proc, todo, x, panic, stored, calls>>

(***************************************************************************)
(* Contents of a page.                                                     *)
(***************************************************************************)

Entry(pg, user) == [pg |-> pg, user |-> user]
NoEntry == Entry(0, FALSE)       \* PTE_P is clear
Junk == [kind |-> "junk"]
Data(v) == [kind |-> "data", val |-> v]
EmptyDir == [kind |-> "table", ent |-> [n \in 0 .. UPDE + KPDE - 1 |-> NoEntry]]
EmptyTable == [kind |-> "table", ent |-> [n \in 0 .. NPTE - 1 |-> NoEntry]]
KernelTable == [kind |-> "kernel"]

Put(table, n, e) == [table EXCEPT !.ent[n] = e]

\* An entry of a page used as a table; a page that was freed maps nothing.
EntryOf(pg, n) == IF pg \in DOMAIN content /\ content[pg].kind = "table" THEN content[pg].ent[n] ELSE NoEntry

\* walkpgdir without alloc: the page table, and the entry, of an address.
TableOf(dir, a) == EntryOf(dir, PDX(a)).pg
Pte(dir, a) ==
    IF a >= KERNBASE \/ TableOf(dir, a) = 0 THEN NoEntry ELSE EntryOf(TableOf(dir, a), PTX(a))

Present(dir, from, to) == {a \in UserPages : from =< a /\ a < to /\ Pte(dir, a).pg # 0}

\* uva2ka: the page of a user address, 0 if user code may not touch it.
Uva2ka(dir, a) == IF Pte(dir, a).user THEN Pte(dir, a).pg ELSE 0

(***************************************************************************)
(* Frames.  dir, a, end, old, pg are the variables of the loop they stand  *)
(* for; the frame on top runs next, the caller's is below.                 *)
(***************************************************************************)

Frame(do, dir, a, end, old, pg) ==
    [do |-> do, dir |-> dir, a |-> a, end |-> end, old |-> old, pg |-> pg]
Plain(do, a) == Frame(do, 0, a, 0, 0, 0)
Free(pg) == Frame("kfree", 0, 0, 0, 0, pg)
FreeVm(dir) == Frame("freevm", dir, 0, 0, 0, 0)
Dealloc(dir, from, to) == Frame("dealloc", dir, from, to, 0, 0)
AllocFrame(dir, a, end, old) == Frame("alloc", dir, a, end, old, 0)
CopyFrame(dir, a, end) == Frame("copy", dir, a, end, 0, 0)
\* The next iteration of a loop over pages, if there is one.
Loop(f) == IF f.a < f.end THEN <<f>> ELSE <<>>

Top(p) == Head(todo[p])
At(p, do) == todo[p] # <<>> /\ Top(p).do = do
Then(p, frames) == todo' = [todo EXCEPT ![p] = frames \o Tail(@)]
NoProgram == [name |-> "", elf |-> FALSE, segs |-> <<>>, args |-> <<>>]
Locals == [dir |-> 0, sz |-> 0, np |-> 0, prog |-> NoProgram, ip |-> FALSE, ret |-> 0]
\* What is left of the locals when a call returns: what it should have let go.
Left(p) == [Locals EXCEPT !.dir = x[p].dir, !.ip = x[p].ip]

(***************************************************************************)
(* kalloc and kfree.                                                       *)
(***************************************************************************)

Empty == nfree = 0

\* A page is named after the allocation that handed it out: its process, the call
\* and a number.  (The page the code pops is the one freed last; the pages on the
\* list differ in nothing a caller could tell.)
PerCall == Max(Memories)
Names(p) ==
    LET base == (p * (Max(Range(MaxCalls)) + 1) + calls[p]) * PerCall
    IN base + 1 .. base + PerCall
Pick(p) == Min(Names(p) \ DOMAIN content)

\* kalloc where the list is not empty; the page is given its first contents.
Kalloc(p, first) ==
    /\ ~Empty
    /\ nfree' = nfree - 1
    /\ content' = (Pick(p) :> first) @@ content

Kfree(pg) ==
    /\ nfree' = nfree + 1
    /\ content' = Restrict(content, DOMAIN content \ {pg})

KfreeStep(p) ==
    /\ At(p, "kfree")
    /\ Kfree(Top(p).pg)
    /\ Then(p, <<>>)
    /\ UNCHANGED <<proc, x, panic, stored, calls>>

(***************************************************************************)
(* vm.c.                                                                   *)
(***************************************************************************)

\* setupkvm: the directory, then (KMap) the tables of the kernel part.
SetupKvm(p) ==
    /\ At(p, "setupkvm")
    /\ \/ /\ Empty
          /\ x' = [x EXCEPT ![p].dir = 0]
          /\ Then(p, <<>>)
          /\ UNCHANGED <<nfree, content>>
       \/ /\ Kalloc(p, EmptyDir)
          /\ x' = [x EXCEPT ![p].dir = Pick(p)]
          /\ Then(p, <<Plain("kmap", UPDE)>>)
    /\ UNCHANGED <<proc, panic, stored, calls>>

\* mappages for the kernel's addresses under the a-th entry of the directory.
KMap(p) ==
    LET n == Top(p).a
        dir == x[p].dir
    IN /\ At(p, "kmap")
       /\ \/ /\ Empty
             /\ x' = [x EXCEPT ![p].dir = 0]
             /\ Then(p, <<FreeVm(dir)>>)
             /\ UNCHANGED <<nfree, content>>
          \/ /\ ~Empty
             /\ content' = (Pick(p) :> KernelTable)
                              @@ [content EXCEPT ![dir] = Put(@, n, Entry(Pick(p), TRUE))]
             /\ nfree' = nfree - 1
             /\ Then(p, IF n + 1 < UPDE + KPDE THEN <<Plain("kmap", n + 1)>> ELSE <<>>)
             /\ UNCHANGED x
       /\ UNCHANGED <<proc, panic, stored, calls>>

\* mappages for one user page: walkpgdir may have to allocate the page table.
\* Where it cannot, the call in progress fails with the frames of bad.
MapPage(p, f, user, ok, bad) ==
    LET table == TableOf(f.dir, f.a)
        entry == Entry(f.pg, user)
    IN \/ /\ table # 0
          /\ panic' = IF Pte(f.dir, f.a).pg # 0 THEN "remap" ELSE panic
          /\ content' = [content EXCEPT ![table] = Put(@, PTX(f.a), entry)]
          /\ Then(p, ok)
          /\ UNCHANGED <<nfree, x>>
       \/ /\ table = 0 /\ ~Empty
          /\ content' = (Pick(p) :> Put(EmptyTable, PTX(f.a), entry))
                           @@ [content EXCEPT ![f.dir] = Put(@, PDX(f.a), Entry(Pick(p), TRUE))]
          /\ nfree' = nfree - 1
          /\ Then(p, ok)
          /\ UNCHANGED <<x, panic>>
       \/ /\ table = 0 /\ Empty
          /\ x' = [x EXCEPT ![p].ret = 0, ![p].dir = IF f.do = "copymap" THEN 0 ELSE @]
          /\ Then(p, bad)
          /\ UNCHANGED <<nfree, content, panic>>

\* allocuvm: the value it returns if memory lasts, and its loop.
AllocUvm(old, new) == IF new >= KERNBASE THEN 0 ELSE IF new < old THEN old ELSE new
AllocLoop(dir, old, new) ==
    IF new >= KERNBASE THEN <<>> ELSE Loop(AllocFrame(dir, RoundUp(old), new, old))

\* What is left to do when memory runs out before a page, or before its table.
GiveBack(f) == <<Dealloc(f.dir, f.old, f.end)>>

\* Mutant: the page that could not be mapped is not freed.
GiveBackMapped(f) == GiveBack(f)

GiveBackAll(f) == GiveBack(f) \o <<Free(f.pg)>>

AllocPage(p) ==
    LET f == Top(p)
    IN /\ At(p, "alloc")
       /\ \/ /\ Empty
             /\ x' = [x EXCEPT ![p].ret = 0]
             /\ Then(p, GiveBack(f))
             /\ UNCHANGED <<nfree, content>>
          \/ /\ Kalloc(p, Data("zero"))
             /\ Then(p, <<[f EXCEPT !.do = "map", !.pg = Pick(p)]>>)
             /\ UNCHANGED x
       /\ UNCHANGED <<proc, panic, stored, calls>>

AllocMap(p) ==
    LET f == Top(p)
    IN /\ At(p, "map")
       /\ MapPage(p, f, TRUE,
                  Loop(AllocFrame(f.dir, f.a + PGSIZE, f.end, f.old)), GiveBackAll(f))
       /\ UNCHANGED <<proc, stored, calls>>

\* deallocuvm: the value it returns, and its loop: the pages that are present.
DeallocUvm(old, new) == IF new >= old THEN old ELSE new
DeallocLoop(dir, old, new) == IF new >= old THEN <<>> ELSE <<Dealloc(dir, new, old)>>

DeallocPage(p) ==
    LET f == Top(p)
        pages == Present(f.dir, RoundUp(f.a), f.end)
        a == Min(pages)
        pg == Pte(f.dir, a).pg
    IN /\ At(p, "dealloc")
       /\ \/ /\ pages = {}
             /\ Then(p, <<>>)
             /\ UNCHANGED <<nfree, content>>
          \/ /\ pages # {}
             /\ nfree' = nfree + 1
             /\ content' = Restrict([content EXCEPT ![TableOf(f.dir, a)] = Put(@, PTX(a), NoEntry)],
                                    DOMAIN content \ {pg})
             /\ Then(p, Loop([f EXCEPT !.a = a + PGSIZE]))
       /\ UNCHANGED <<proc, x, panic, stored, calls>>

\* freevm: the user pages, the page tables, the directory.
FreeVmStart(p) ==
    LET dir == Top(p).dir
    IN /\ At(p, "freevm")
       /\ Then(p, <<Dealloc(dir, 0, KERNBASE), Frame("freetables", dir, 0, 0, 0, 0)>>)
       /\ UNCHANGED <<nfree, content, proc, x, panic, stored, calls>>

TablesFrom(f) == {n \in f.a .. UPDE + KPDE - 1 : EntryOf(f.dir, n).pg # 0}

FreeTables(p) ==
    LET f == Top(p)
    IN /\ At(p, "freetables")
       /\ \/ /\ TablesFrom(f) # {}
             /\ Kfree(EntryOf(f.dir, Min(TablesFrom(f))).pg)
             /\ Then(p, <<[f EXCEPT !.a = Min(TablesFrom(f)) + 1]>>)
          \/ /\ TablesFrom(f) = {}
             /\ Kfree(f.dir)
             /\ Then(p, <<>>)
       /\ UNCHANGED <<proc, x, panic, stored, calls>>

(***************************************************************************)
(* The system calls.  A process whose first page is gone faults at its     *)
(* next instruction and can only be killed.                                *)
(***************************************************************************)

Ready(p) == proc[p].state = "run" /\ todo[p] = <<>>
CanRun(p) == Ready(p) /\ Uva2ka(proc[p].dir, 0) # 0
Begin(p, frames) ==
    /\ calls[p] < MaxCalls[p]
    /\ calls' = [calls EXCEPT ![p] = @ + 1]
    /\ todo' = [todo EXCEPT ![p] = frames]

\* A user instruction writes into a page.
Store(p, a, v) ==
    /\ CanRun(p)
    /\ Uva2ka(proc[p].dir, a) # 0
    /\ Begin(p, <<>>)
    /\ content' = [content EXCEPT ![Uva2ka(proc[p].dir, a)] = Data(v)]
    /\ stored' = [stored EXCEPT ![p][a] = v]
    /\ UNCHANGED <<nfree, proc, x, panic>>

\* growproc: sz + n is unsigned, so a shrink by more than the size wraps.
Sbrk(p, n) ==
    LET sz == proc[p].sz
        new == (sz + n) % SPAN
    IN /\ CanRun(p)
       /\ \/ /\ n > 0
             /\ Begin(p, AllocLoop(proc[p].dir, sz, new) \o <<Plain("grown", 0)>>)
             /\ x' = [x EXCEPT ![p].ret = AllocUvm(sz, new)]
          \/ /\ n < 0
             /\ Begin(p, DeallocLoop(proc[p].dir, sz, new) \o <<Plain("grown", 0)>>)
             /\ x' = [x EXCEPT ![p].ret = DeallocUvm(sz, new)]
       /\ UNCHANGED <<nfree, content, proc, panic, stored>>

\* What a process finds in its pages once its size went from old to new.
Resized(pages, old, new) ==
    [a \in UserPages |-> IF a >= new THEN "none"
                         ELSE IF a >= RoundUp(old) THEN "zero" ELSE pages[a]]

\* The end of growproc; a returned 0 is taken for an error and sz stays.
Grown(p) ==
    /\ At(p, "grown")
    /\ IF x[p].ret = 0
       THEN UNCHANGED <<proc, stored>>
       ELSE /\ proc' = [proc EXCEPT ![p].sz = x[p].ret]
            /\ stored' = [stored EXCEPT ![p] = Resized(@, proc[p].sz, x[p].ret)]
    /\ x' = [x EXCEPT ![p] = Left(p)]
    /\ Then(p, <<>>)
    /\ UNCHANGED <<nfree, content, panic, calls>>

\* wait frees under ptable.lock, which allocproc needs to look for a slot.
Reaping == \E q \in Process : \E k \in DOMAIN todo[q] : todo[q][k].do = "reaped"
Unused == {q \in Process : proc[q].state = "unused"}

\* fork, to allocproc's choice of a slot.
Fork(p) ==
    /\ CanRun(p) /\ ~Reaping
    /\ IF Unused = {}
       THEN Begin(p, <<>>) /\ UNCHANGED <<proc, x>>
       ELSE /\ proc' = [proc EXCEPT ![Min(Unused)].state = "embryo"]
            /\ x' = [x EXCEPT ![p].np = Min(Unused)]
            /\ Begin(p, <<Plain("kstack", 0)>>)
    /\ UNCHANGED <<nfree, content, panic, stored>>

\* The rest of allocproc: the kernel stack.
KStack(p) ==
    /\ At(p, "kstack")
    /\ \/ /\ Empty
          /\ proc' = [proc EXCEPT ![x[p].np].state = "unused"]
          /\ x' = [x EXCEPT ![p] = Left(p)]
          /\ Then(p, <<>>)
          /\ UNCHANGED <<nfree, content>>
       \/ /\ Kalloc(p, Junk)
          /\ proc' = [proc EXCEPT ![x[p].np].kstack = Pick(p)]
          /\ Then(p, <<Plain("setupkvm", 0), Plain("copyuvm", 0), Plain("forked", 0)>>)
          /\ UNCHANGED x
    /\ UNCHANGED <<panic, stored, calls>>

CopyUvm(p) ==
    /\ At(p, "copyuvm")
    /\ Then(p, IF x[p].dir = 0 THEN <<>> ELSE Loop(CopyFrame(x[p].dir, 0, proc[p].sz)))
    /\ UNCHANGED <<nfree, content, proc, x, panic, stored, calls>>

CopyPage(p) ==
    LET f == Top(p)
        from == Pte(proc[p].dir, f.a)
    IN /\ At(p, "copy")
       /\ panic' = IF from.pg = 0 THEN "copyuvm: page not present" ELSE panic
       /\ \/ /\ Empty
             /\ x' = [x EXCEPT ![p].dir = 0]
             /\ Then(p, <<FreeVm(f.dir)>>)
             /\ UNCHANGED <<nfree, content>>
          \/ /\ Kalloc(p, IF from.pg = 0 THEN Junk ELSE content[from.pg])
             /\ Then(p, <<[f EXCEPT !.do = "copymap", !.pg = Pick(p)]>>)
             /\ UNCHANGED x
       /\ UNCHANGED <<proc, stored, calls>>

CopyMap(p) ==
    LET f == Top(p)
    IN /\ At(p, "copymap")
       /\ MapPage(p, f, Pte(proc[p].dir, f.a).user,
                  Loop(CopyFrame(f.dir, f.a + PGSIZE, f.end)),
                  <<Free(f.pg), FreeVm(f.dir)>>)
       /\ UNCHANGED <<proc, stored, calls>>

\* Mutant: a fork that fails leaves the slot it took.
SlotKept(np) == [proc EXCEPT ![np].kstack = 0]

SlotFreed(np) == [proc EXCEPT ![np].kstack = 0, ![np].state = "unused"]

\* The end of fork, from the test of what copyuvm returned.
Forked(p) ==
    LET np == x[p].np
    IN /\ At(p, "forked")
       /\ IF x[p].dir = 0
          THEN /\ Kfree(proc[np].kstack)
               /\ proc' = SlotFreed(np)
               /\ UNCHANGED stored
          ELSE /\ proc' = [proc EXCEPT ![np].state = "run", ![np].dir = x[p].dir,
                                       ![np].sz = proc[p].sz, ![np].parent = p]
               /\ stored' = [stored EXCEPT ![np] = stored[p]]
               /\ UNCHANGED <<nfree, content>>
       /\ x' = [x EXCEPT ![p] = [Left(p) EXCEPT !.dir = 0]]
       /\ Then(p, <<>>)
       /\ UNCHANGED <<panic, calls>>

\* exit, the part about the process table; the first process never exits.
Exit(p) ==
    /\ Ready(p) /\ p # initproc
    /\ Begin(p, <<>>)
    /\ proc' = [q \in Process |->
                  IF q = p THEN [proc[q] EXCEPT !.state = "zombie"]
                  ELSE IF proc[q].parent = p THEN [proc[q] EXCEPT !.parent = initproc]
                  ELSE proc[q]]
    /\ UNCHANGED <<nfree, content, x, panic, stored>>

\* wait, once it found a zombie: the stack, the address space, then the slot.
\* (The fields are cleared here as the pages are from now on the frames'.)
Wait(p) ==
    \E q \in Process :
       /\ CanRun(p) /\ ~Reaping
       /\ proc[q].state = "zombie" /\ proc[q].parent = p
       /\ Begin(p, <<Free(proc[q].kstack), FreeVm(proc[q].dir), Plain("reaped", 0)>>)
       /\ proc' = [proc EXCEPT ![q].kstack = 0, ![q].dir = 0, ![q].parent = 0]
       /\ x' = [x EXCEPT ![p].np = q]
       /\ UNCHANGED <<nfree, content, panic, stored>>

Reaped(p) ==
    /\ At(p, "reaped")
    /\ proc' = [proc EXCEPT ![x[p].np].state = "unused"]
    /\ x' = [x EXCEPT ![p] = Left(p)]
    /\ Then(p, <<>>)
    /\ UNCHANGED <<nfree, content, panic, stored, calls>>

(***************************************************************************)
(* exec.  A program is [name, elf, segs, args]: whether its header is read *)
(* and has the magic number, its program headers [load, vaddr, filesz,     *)
(* memsz, whole] (whole: readi returns all of the header and the segment), *)
(* and the lengths in words of the argument strings.                       *)
(***************************************************************************)

Bad(p) == Then(p, <<Plain("bad", 0)>>)
Seg(p) == x[p].prog.segs[Top(p).a]

\* begin_op, namei, ilock and the check of the header.
Exec(p, prog) ==
    /\ CanRun(p)
    /\ Begin(p, IF prog.elf THEN <<Plain("setupkvm", 0), Plain("seg", 1)>>
                ELSE <<Plain("bad", 0)>>)
    /\ x' = [x EXCEPT ![p] = [Locals EXCEPT !.prog = prog, !.ip = TRUE]]
    /\ UNCHANGED <<nfree, content, proc, panic, stored>>

\* One round of the loop over the program headers, to the call of allocuvm;
\* after the last one the inode and the log are released and the stack's two
\* pages are allocated at the next page boundary.
ExecSeg(p) ==
    LET k == Top(p).a
        sz == x[p].sz
        end == (Seg(p).vaddr + Seg(p).memsz) % SPAN
        top == RoundUp(sz)
    IN /\ At(p, "seg")
       /\ \/ /\ x[p].dir = 0
             /\ Bad(p) /\ UNCHANGED x
          \/ /\ x[p].dir # 0 /\ k > Len(x[p].prog.segs)
             /\ x' = [x EXCEPT ![p].ip = FALSE, ![p].ret = AllocUvm(top, top + 2 * PGSIZE)]
             /\ Then(p, AllocLoop(x[p].dir, top, top + 2 * PGSIZE) \o <<Plain("clearpteu", 0)>>)
          \/ /\ x[p].dir # 0 /\ k =< Len(x[p].prog.segs)
             /\ IF Seg(p).whole /\ ~Seg(p).load
                THEN Then(p, <<Plain("seg", k + 1)>>) /\ UNCHANGED x
                ELSE IF ~Seg(p).whole \/ Seg(p).memsz < Seg(p).filesz \/ end < Seg(p).vaddr
                THEN Bad(p) /\ UNCHANGED x
                ELSE /\ x' = [x EXCEPT ![p].ret = AllocUvm(sz, end)]
                     /\ Then(p, AllocLoop(x[p].dir, sz, end) \o <<Plain("load", k)>>)
       /\ UNCHANGED <<nfree, content, proc, panic, stored, calls>>

\* The pages loaduvm reads a segment into.
SegPages(seg) == {a \in UserPages : seg.vaddr =< a /\ a < seg.vaddr + seg.filesz}

\* The end of the round: loaduvm fills the segment.
ExecLoad(p) ==
    LET pages == SegPages(Seg(p))
        dir == x[p].dir
    IN /\ At(p, "load")
       /\ \/ /\ x[p].ret = 0 \/ Seg(p).vaddr % PGSIZE # 0
             /\ Bad(p) /\ UNCHANGED <<content, x, panic>>
          \/ /\ x[p].ret # 0 /\ Seg(p).vaddr % PGSIZE = 0
             /\ IF \E a \in pages : Pte(dir, a).pg = 0
                THEN panic' = "loaduvm: address should exist" /\ UNCHANGED content
                ELSE /\ content' = [pg \in DOMAIN content |->
                                      IF \E a \in pages : Pte(dir, a).pg = pg
                                      THEN Data(x[p].prog.name) ELSE content[pg]]
                     /\ UNCHANGED panic
             /\ x' = [x EXCEPT ![p].sz = x[p].ret]
             /\ Then(p, <<Plain("seg", Top(p).a + 1)>>)
       /\ UNCHANGED <<nfree, proc, stored, calls>>

\* Where the k-th string is copied to (its pointer after all of them), and the
\* length of ustack: 3 words, the pointers and a null.
Sp(top, args, k) == (top - FoldSeq(+, 0, SubSeq(args, 1, k))) % SPAN
UStack(args) == 3 + Len(args) + 1

\* Mutant: the page beneath the stack stays accessible.
UserKept(e) == e

WithoutUser(e) == Entry(e.pg, FALSE)

ClearPteu(p) ==
    LET dir == x[p].dir
        guard == x[p].ret - 2 * PGSIZE
    IN /\ At(p, "clearpteu")
       /\ IF x[p].ret = 0
          THEN Bad(p) /\ UNCHANGED content
          ELSE /\ content' = [content EXCEPT ![TableOf(dir, guard)] =
                                Put(@, PTX(guard), WithoutUser(Pte(dir, guard)))]
               /\ Then(p, <<Plain("commit", 0)>>)
       /\ x' = [x EXCEPT ![p].sz = x[p].ret]
       /\ UNCHANGED <<nfree, proc, panic, stored, calls>>

\* copyout: the pages it writes; it fails at one that user code may not touch.
Touched(sp, len) == {RoundDown((sp + k) % SPAN) : k \in 0 .. len - 1}

\* What a program finds in its memory when it starts.
Image(prog, sz) ==
    [a \in UserPages |->
       IF a >= sz THEN "none"
       ELSE IF a = sz - PGSIZE THEN "args"
       ELSE IF \E k \in DOMAIN prog.segs : prog.segs[k].load /\ a \in SegPages(prog.segs[k])
       THEN prog.name ELSE "zero"]

\* The strings and ustack are pushed, and the process switches to the new image.
ExecCommit(p) ==
    LET dir == x[p].dir
        sz == x[p].sz
        args == x[p].prog.args
        argc == Len(args)
        sp == (Sp(sz, args, argc) - UStack(args)) % SPAN
        written == UNION {Touched(Sp(sz, args, k), args[k]) : k \in 1 .. argc}
                     \cup Touched(sp, UStack(args))
    IN /\ At(p, "commit")
       /\ IF argc > MAXARG \/ \E a \in written : Uva2ka(dir, a) = 0
          THEN Bad(p) /\ UNCHANGED <<content, proc, x, stored>>
          ELSE /\ content' = [pg \in DOMAIN content |-> IF \E a \in written : Uva2ka(dir, a) = pg
                                              THEN Data("args") ELSE content[pg]]
               /\ proc' = [proc EXCEPT ![p].dir = dir, ![p].sz = sz]
               /\ stored' = [stored EXCEPT ![p] = Image(x[p].prog, sz)]
               /\ x' = [x EXCEPT ![p].dir = 0]
               /\ Then(p, <<FreeVm(proc[p].dir), Plain("return", 0)>>)
       /\ UNCHANGED <<nfree, panic, calls>>

\* bad: the new image is dropped, then (return 1) the inode and the log if held.
ExecBad(p) ==
    /\ At(p, "bad")
    /\ x' = [x EXCEPT ![p].dir = 0]
    /\ Then(p, (IF x[p].dir = 0 THEN <<>> ELSE <<FreeVm(x[p].dir)>>) \o <<Plain("return", 1)>>)
    /\ UNCHANGED <<nfree, content, proc, panic, stored, calls>>

ExecReturn(p) ==
    /\ At(p, "return")
    /\ x' = [x EXCEPT ![p] = [Left(p) EXCEPT !.ip = @ /\ Top(p).a = 0]]
    /\ Then(p, <<>>)
    /\ UNCHANGED <<nfree, content, proc, panic, stored, calls>>

(***************************************************************************)
(* The system.  kinit frees all pages; userinit takes a stack, a directory *)
(* with the kernel's tables, and one page for initcode.                    *)
(***************************************************************************)

Init ==
    LET kstack == 1  dir == 2  code == 3  table == 4
        kernel(n) == table + 1 + n - UPDE
    IN /\ npages \in Memories
       /\ nfree = npages - (4 + KPDE)
       /\ content = [pg \in 1 .. 4 + KPDE |->
            IF pg = dir
            THEN [kind |-> "table", ent |-> [n \in 0 .. UPDE + KPDE - 1 |->
                    IF n = 0 THEN Entry(table, TRUE)
                    ELSE IF n >= UPDE THEN Entry(kernel(n), TRUE) ELSE NoEntry]]
            ELSE IF pg = kstack THEN Junk
            ELSE IF pg = code THEN Data("init")
            ELSE IF pg = table THEN Put(EmptyTable, 0, Entry(code, TRUE))
            ELSE KernelTable]
       /\ proc = [q \in Process |->
            IF q = initproc
            THEN [state |-> "run", dir |-> dir, sz |-> PGSIZE, kstack |-> kstack, parent |-> 0]
            ELSE [state |-> "unused", dir |-> 0, sz |-> 0, kstack |-> 0, parent |-> 0]]
       /\ stored = [q \in Process |-> [a \in UserPages |->
            IF q = initproc /\ a = 0 THEN "init" ELSE "none"]]
       /\ todo = [q \in Process |-> <<>>]
       /\ x = [q \in Process |-> Locals]
       /\ calls = [q \in Process |-> 0]
       /\ panic = ""

\* Between two sections under kmem.lock a process touches its own memory only:
\* those steps follow the section at once.
Private(p) ==
    /\ todo[p] # <<>>
    /\ LET f == Top(p)
       IN \/ f.do \in {"freevm", "grown", "copyuvm", "seg", "load", "clearpteu", "commit",
                       "bad", "return", "reaped"}
          \/ f.do = "dealloc" /\ Present(f.dir, RoundUp(f.a), f.end) = {}
          \/ f.do \in {"map", "copymap"} /\ TableOf(f.dir, f.a) # 0

Step(p) ==
    \/ KfreeStep(p) \/ SetupKvm(p) \/ KMap(p) \/ AllocPage(p) \/ AllocMap(p)
    \/ DeallocPage(p) \/ FreeVmStart(p) \/ FreeTables(p)
    \/ Grown(p) \/ KStack(p) \/ CopyUvm(p) \/ CopyPage(p) \/ CopyMap(p) \/ Forked(p)
    \/ Reaped(p) \/ ExecSeg(p) \/ ExecLoad(p) \/ ClearPteu(p) \/ ExecCommit(p)
    \/ ExecBad(p) \/ ExecReturn(p)

Call(p) ==
    \/ \E a \in UserPages, v \in Values[p] : Store(p, a, v)
    \/ \E n \in Deltas[p] : Sbrk(p, n)
    \/ \E prog \in Programs[p] : Exec(p, prog)
    \/ Fork(p) \/ Exit(p) \/ Wait(p)

Run(p) ==
    /\ panic = ""
    /\ \A q \in Process \ {p} : ~Private(q)
    /\ Step(p) \/ Call(p)
    /\ UNCHANGED npages

\* No process is in a call.
Quiet == (\A p \in Process : todo[p] = <<>>) /\ UNCHANGED vars

Next == (\E p \in Process : Run(p)) \/ Quiet

Spec == Init /\ [][Next]_vars

(***************************************************************************)
(* syscall.c: what the kernel accepts as a pointer of the calling process. *)
(***************************************************************************)

ArgPtr(p, i, size) == i < proc[p].sz /\ (i + size) % SPAN =< proc[p].sz

\* A word of the stack.
FetchInt(p, addr) == addr < proc[p].sz /\ (addr + 1) % SPAN =< proc[p].sz

\* The words of a string that may be read before its end is found.
FetchStr(p, addr) == addr .. proc[p].sz - 1

(***************************************************************************)
(* Properties.                                                             *)
(***************************************************************************)

\* The variables have the types of their declarations in kalloc.c and proc.h.
TypeOK ==
    /\ nfree \in 0 .. npages
    /\ \A pg \in DOMAIN content : content[pg].kind \in {"junk", "data", "table", "kernel"}
    /\ \A p \in Process : /\ proc[p].state \in {"unused", "embryo", "run", "zombie"}
                          /\ {proc[p].dir, proc[p].kstack} \subseteq {0} \cup DOMAIN content
                          /\ proc[p].sz \in 0 .. KERNBASE - 1
    /\ \A p \in Process : calls[p] \in 0 .. MaxCalls[p]

\* Who holds a page that is not on the free list: a stack, a directory (of a process, of a call
\* that builds or frees it), an entry of a directory or of a table, a call that
\* has allocated it and not mapped it yet.
FramesOf(p, ops) == {k \in DOMAIN todo[p] : todo[p][k].do \in ops}
Hold(what, of, n, pg) == <<what, of, n, pg>>
Directories ==
    {Hold("pgdir", p, 0, proc[p].dir) : p \in Process}
      \cup {Hold("new", p, 0, x[p].dir) : p \in Process}
      \cup UNION {{Hold("old", p, k, todo[p][k].dir) :
                      k \in FramesOf(p, {"freevm", "freetables"})} : p \in Process}
\* The entries of a directory that freevm has not freed yet.
Live(dir, n) ==
    \A p \in Process : \A k \in FramesOf(p, {"freetables"}) :
       todo[p][k].dir = dir => n >= todo[p][k].a
Holdings ==
    LET dirs == {d[4] : d \in Directories} \ {0}
        tables == {Hold("pde", d, n, EntryOf(d, n).pg) :
                      d \in dirs, n \in 0 .. UPDE + KPDE - 1}
        live == {e \in tables : e[4] # 0 /\ Live(e[2], e[3])}
        pages == {Hold("pte", e[4], n, EntryOf(e[4], n).pg) : e \in live, n \in 0 .. NPTE - 1}
        all == {Hold("kstack", p, 0, proc[p].kstack) : p \in Process}
                 \cup UNION {{Hold("mem", p, k, todo[p][k].pg) :
                                 k \in FramesOf(p, {"map", "copymap", "kfree"})} : p \in Process}
                 \cup Directories \cup live \cup pages
    IN {h \in all : h[4] # 0}

\* Every physical page has exactly one holder: no call leaks a page or frees or
\* maps one twice, whichever of its allocations fails.
PagesAccounted ==
    LET held == Holdings
    IN Cardinality(held) + nfree = npages /\ {h[4] : h \in held} = DOMAIN content

\* Whatever the other processes allocate, copy and free, a process finds in its
\* memory what it stored last, its parent's contents after fork, the program and
\* its arguments after exec, zeroes in what sbrk added.
MemoryPrivate ==
    \A p \in Process : proc[p].state = "run" =>
       \A a \in UserPages : (a < proc[p].sz /\ Pte(proc[p].dir, a).pg # 0) =>
          LET pg == Pte(proc[p].dir, a).pg
          IN pg \in DOMAIN content /\ content[pg] = Data(stored[p][a])

\* Between calls a process that can run has exactly the pages below its size,
\* so a later copyuvm finds each and allocuvm maps none again.
MappedToSize ==
    \A p \in Process : CanRun(p) =>
       \A a \in UserPages : (Pte(proc[p].dir, a).pg # 0) <=> (a < proc[p].sz)

\* What the kernel accepts from a process, a buffer, an argument on the stack or a
\* string, lies in pages of that process: the kernel, which uses user addresses
\* as they are, does not fault on it.
BuffersPresent ==
    \A p \in Process : CanRun(p) =>
       LET present == Present(proc[p].dir, 0, KERNBASE)
       IN \A i \in 0 .. KERNBASE - 1 :
             /\ \A size \in {1, PGSIZE, KERNBASE - 1} :
                   ArgPtr(p, i, size) => Touched(i, size) \subseteq present
             /\ FetchInt(p, i) => RoundDown(i) \in present
             /\ {RoundDown(a) : a \in FetchStr(p, i)} \subseteq present

\* A call that returned, with success or not, has no half-built address space,
\* holds neither inode nor log, and no slot of the table is taken for nothing.
CleanReturn ==
    /\ \A p \in Process : todo[p] = <<>> => x[p].dir = 0 /\ ~x[p].ip
    /\ \A q \in Process : proc[q].state = "embryo" =>
          \E p \in Process : todo[p] # <<>> /\ x[p].np = q

\* The panics of vm.c are never reached.
NoPanic == panic = ""

\* Physical memory: no page is leaked, freed twice or mapped twice.
PhysicalSound == TypeOK /\ PagesAccounted

\* User memory: a process has the pages its size says, with its own contents, and
\* the kernel finds what it is passed there.
UserSound == MemoryPrivate /\ MappedToSize /\ BuffersPresent

\* Calls end as they should: no panic, and nothing half-done is left behind.
CallsEndClean == CleanReturn /\ NoPanic
=============================================================================
