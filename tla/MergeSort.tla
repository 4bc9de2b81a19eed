----------------------------- MODULE MergeSort -----------------------------
(***************************************************************************)
(* The parallel merge sort of src/parallel-sort/mergesort.c: threads that  *)
(* sort halves, merge into a buffer around a pivot and copy the buffer     *)
(* back in chunks; and the serial algorithms beside it.                    *)
(*                                                                         *)
(* An activation of a threaded function is a task, named by its path from  *)
(* the root: a task that creates a thread has the children 1 (the part it  *)
(* runs itself) and 2 (the thread), and goes on when both are done         *)
(* (pthread_join).  The serial parts of a task are one step; RaceFree is   *)
(* what makes that sound.                                                  *)
(***************************************************************************)
EXTENDS Integers, Sequences, FiniteSets, SequencesExt, FiniteSetsExt

CONSTANTS Inputs,           \* sequences of keys
          MIN_THREAD_ELEM,
          NPROC,            \* sysconf(_SC_NPROCESSORS_ONLN)
          INT_MAX

ASSUME SortAssumption ==
    /\ {MIN_THREAD_ELEM, NPROC} \subseteq Nat \ {0}
    /\ \A in \in Inputs : in # <<>>
       \* compare_elem subtracts: the difference of two keys is an int
    /\ \A in \in Inputs : \A a, b \in Range(in) : a - b \in -INT_MAX - 1 .. INT_MAX

VARIABLES arr,     \* the array: [0 .. n - 1 -> element]
          buf,     \* the buffer B of each merge_parallel in progress, by its task
          task,    \* the tasks that were started and not yet joined
          beyond   \* ghost: some find_split_point had only smaller elements

vars == <<arr, buf, task, beyond>>

\* An element is its key and its place in the input, which stands for its value.
Elem(key, id) == [key |-> key, id |-> id]
Junk == Elem(0, -1)
ArrayOf(in) == [i \in 0 .. Len(in) - 1 |-> Elem(in[i + 1], i)]
N == Cardinality(DOMAIN arr)

compare_elem(a, b) == a.key - b.key

(***************************************************************************)
(* Serial algorithms, on sequences of elements.                            *)
(***************************************************************************)

\* merge_serial and merge_serial_2: what they leave in the merged array.
RECURSIVE Merge(_, _)
Merge(s, t) ==
    IF s = <<>> THEN t
    ELSE IF t = <<>> THEN s
    ELSE IF compare_elem(Head(s), Head(t)) =< 0
    THEN <<Head(s)>> \o Merge(Tail(s), t)
    ELSE <<Head(t)>> \o Merge(s, Tail(t))

\* Mutant: the halves overlap in the middle element.
RECURSIVE MergeSortOverlap(_)
MergeSortOverlap(s) ==
    IF Len(s) =< 1 THEN s
    ELSE LET m == 1 + ((Len(s) - 1) \div 2)
         IN Merge(MergeSortOverlap(SubSeq(s, 1, m)),
                  IF m = Len(s) THEN <<>> ELSE SubSeq(s, m, Len(s)))

RECURSIVE merge_sort_serial(_)
merge_sort_serial(s) ==
    IF Len(s) =< 1 THEN s
    ELSE LET m == 1 + ((Len(s) - 1) \div 2)
         IN Merge(merge_sort_serial(SubSeq(s, 1, m)), merge_sort_serial(SubSeq(s, m + 1, Len(s))))

insertion_sort(s) ==
    LET Insert(done, e) ==
          LET j == Max({0} \cup {k \in DOMAIN done : compare_elem(done[k], e) =< 0})
          IN InsertAt(done, j + 1, e)
    IN FoldLeft(Insert, <<>>, s)

\* The inner loop of bubble_sort_elem up to the k-th pair, and the outer one.
bubble_sort_elem(s) ==
    LET Exchange(t, i) ==
          IF compare_elem(t[i], t[i + 1]) > 0
          THEN [t EXCEPT ![i] = t[i + 1], ![i + 1] = t[i]] ELSE t
        Pass(t, j) == FoldLeft(Exchange, t, [i \in 1 .. Len(t) - j |-> i])
    IN FoldLeft(Pass, s, [j \in 1 .. Len(s) - 1 |-> j])

(***************************************************************************)
(* The parallel merge.                                                     *)
(***************************************************************************)

Slice(a, l, r) == [k \in 1 .. Max({0, r - l + 1}) |-> a[l + k - 1]]
\* a with the sequence s written from index i on.
Written(a, i, s) == [k \in DOMAIN a |-> IF k \in i .. i + Len(s) - 1 THEN s[k - i + 1] ELSE a[k]]

\* Mutant: the search stops at its first probe.
SplitAtProbe(l, r, p) == l + (IF r > l THEN (r - l) \div 2 ELSE 0)

RECURSIVE BinarySearch(_, _, _)
BinarySearch(low, high, p) ==
    LET mid == low + ((high - low) \div 2)
    IN IF low >= high THEN low
       ELSE IF compare_elem(p, arr[mid]) =< 0
       THEN BinarySearch(low, mid, p)
       ELSE BinarySearch(mid + 1, high, p)

find_split_point(l, r, p) == BinarySearch(l, r, p)

(***************************************************************************)
(* Tasks.                                                                  *)
(***************************************************************************)

SortTask(l, r) == [do |-> "sort", pc |-> "start", l |-> l, r |-> r]
MergeTask(of, l1, r1, l2, r2, start) ==
    [do |-> "merge", pc |-> "start", of |-> of, l1 |-> l1, r1 |-> r1, l2 |-> l2, r2 |-> r2,
     start |-> start]
CopyTask(of, from, n) == [do |-> "copy", pc |-> "start", of |-> of, from |-> from, n |-> n]

At(t, do, pc) == task[t].do = do /\ task[t].pc = pc
Children(t) == {u \in DOMAIN task : Len(u) = Len(t) + 1 /\ IsPrefix(t, u)}

\* Mutant: a task waits for all the others, also for those that wait for it.
JoinsAll(t) == \A u \in DOMAIN task \ {t} : task[u].pc = "done"

\* pthread_join of the threads a task created, after its own part.
Joined(t) == \A u \in Children(t) : task[u].pc = "done"

\* The task goes to pc and starts the tasks of a sequence in place of the old ones.
Goes(t, pc, new) ==
    task' = [u \in (DOMAIN task \ Children(t)) \cup {Append(t, k) : k \in DOMAIN new} |->
               IF Len(u) > Len(t) /\ IsPrefix(t, u) THEN new[u[Len(u)]]
               ELSE IF u = t THEN [task[t] EXCEPT !.pc = pc] ELSE task[u]]

(***************************************************************************)
(* merge_sort_threaded with merge_parallel, merge_parallel_aux and         *)
(* copy_arr_parallel.                                                      *)
(***************************************************************************)

Middle(t) == task[t].l + ((task[t].r - task[t].l) \div 2)

SortSmall(t) ==
    LET s == task[t]
    IN /\ At(t, "sort", "start")
       /\ s.r - s.l + 1 =< MIN_THREAD_ELEM
       /\ arr' = Written(arr, s.l, insertion_sort(Slice(arr, s.l, s.r)))
       /\ Goes(t, "done", <<>>)
       /\ UNCHANGED <<buf, beyond>>

SortSplit(t) ==
    LET s == task[t]
    IN /\ At(t, "sort", "start")
       /\ s.r - s.l + 1 > MIN_THREAD_ELEM /\ s.l < s.r
       /\ Goes(t, "sorting", <<SortTask(s.l, Middle(t)), SortTask(Middle(t) + 1, s.r)>>)
       /\ UNCHANGED <<arr, buf, beyond>>

\* merge_parallel: malloc of B and the call of merge_parallel_aux.
SortMerge(t) ==
    LET s == task[t]
    IN /\ At(t, "sort", "sorting") /\ Joined(t)
       /\ buf' = (t :> [k \in 0 .. s.r - s.l |-> Junk]) @@ buf
       /\ Goes(t, "merging", <<MergeTask(t, s.l, Middle(t), Middle(t) + 1, s.r, 0)>>)
       /\ UNCHANGED <<arr, beyond>>

MergeSmall(t) ==
    LET a == task[t]
    IN /\ At(t, "merge", "start")
       /\ a.r1 - a.l1 + 1 =< MIN_THREAD_ELEM
       /\ buf' = [buf EXCEPT ![a.of] =
                    Written(@, a.start, Merge(Slice(arr, a.l1, a.r1), Slice(arr, a.l2, a.r2)))]
       /\ Goes(t, "done", <<>>)
       /\ UNCHANGED <<arr, beyond>>

\* Where the second part of a merge begins in B, after the pivot.
SecondFrom(at) == at + 1

MergeSplit(t) ==
    LET a == task[t]
        swap == a.r2 - a.l2 < a.r1 - a.l1
        l1 == IF swap THEN a.l2 ELSE a.l1
        r1 == IF swap THEN a.r2 ELSE a.r1
        l2 == IF swap THEN a.l1 ELSE a.l2
        r2 == IF swap THEN a.r1 ELSE a.r2
        pi == l2 + ((r2 - l2) \div 2)
        sp == find_split_point(l1, r1, arr[pi])
        at == a.start + (sp - l1) + (pi - l2)
    IN /\ At(t, "merge", "start")
       /\ a.r1 - a.l1 + 1 > MIN_THREAD_ELEM
       /\ buf' = [buf EXCEPT ![a.of][at] = arr[pi]]
       /\ beyond' = (beyond \/ (l1 =< r1 /\ \A i \in l1 .. r1 : compare_elem(arr[i], arr[pi]) < 0))
       /\ Goes(t, "joining", <<MergeTask(a.of, l1, sp - 1, l2, pi - 1, a.start),
                               MergeTask(a.of, sp, r1, pi + 1, r2, SecondFrom(at))>>)
       /\ UNCHANGED arr

MergeJoin(t) ==
    /\ At(t, "merge", "joining") /\ Joined(t)
    /\ Goes(t, "done", <<>>)
    /\ UNCHANGED <<arr, buf, beyond>>

\* Mutant: the sizes are rounded up.
ChunkRoundedUp(n, k) == (n + NPROC - 1) \div NPROC

\* The size of the k-th chunk of copy_arr_parallel; the caller copies the last.
Chunk(n, k) == IF k < NPROC THEN n \div NPROC ELSE n - (n \div NPROC) * (NPROC - 1)

SortCopy(t) ==
    LET n == task[t].r - task[t].l + 1
    IN /\ At(t, "sort", "merging") /\ Joined(t)
       /\ Goes(t, "copying", [k \in 1 .. NPROC |-> CopyTask(t, (k - 1) * (n \div NPROC), Chunk(n, k))])
       /\ UNCHANGED <<arr, buf, beyond>>

copy_arr_serial(t) ==
    LET c == task[t]
    IN /\ At(t, "copy", "start")
       /\ arr' = Written(arr, task[c.of].l + c.from, Slice(buf[c.of], c.from, c.from + c.n - 1))
       /\ Goes(t, "done", <<>>)
       /\ UNCHANGED <<buf, beyond>>

\* The end of merge_parallel and of the task.  B is never used again.
SortEnd(t) ==
    /\ At(t, "sort", "copying") /\ Joined(t)
    /\ buf' = Restrict(buf, DOMAIN buf \ {t})
    /\ Goes(t, "done", <<>>)
    /\ UNCHANGED <<arr, beyond>>

(***************************************************************************)
(* merge_sort_parallel on one of the inputs.                               *)
(***************************************************************************)

Root == <<>>
Finished == task[Root].pc = "done"

Init ==
    \E in \in Inputs :
       /\ arr = ArrayOf(in)
       /\ buf = <<>>
       /\ task = (Root :> SortTask(0, Len(in) - 1))
       /\ beyond = FALSE

Next ==
    \E t \in DOMAIN task :
       \/ SortSmall(t) \/ SortSplit(t) \/ SortMerge(t) \/ SortCopy(t) \/ SortEnd(t)
       \/ MergeSmall(t) \/ MergeSplit(t) \/ MergeJoin(t) \/ copy_arr_serial(t)

Spec == Init /\ [][Next]_vars
\* Some thread that can run does.
FairSpec == Spec /\ WF_vars(Next)

(***************************************************************************)
(* Properties.                                                             *)
(***************************************************************************)

SortedRange(a, l, r) == \A i, j \in l .. r : i < j => compare_elem(a[i], a[j]) =< 0

\* The variables have the types of their declarations; indexes stay in the arrays.
TypeOK ==
    /\ \A i \in DOMAIN arr : arr[i].id \in DOMAIN arr
    /\ \A t \in DOMAIN task : CASE task[t].do = "sort" -> 0 =< task[t].l /\ task[t].r < N
                                [] task[t].do = "merge" -> task[t].of \in DOMAIN buf
                                [] task[t].do = "copy" -> task[t].of \in DOMAIN buf
    /\ beyond \in BOOLEAN

\* What a task that has started and not gone on yet will read and write.
Cells(a, l, r) == {<<a, i>> : i \in l .. r}
Writes(t) ==
    LET s == task[t]
    IN CASE s.do = "sort" -> Cells(<<0>>, s.l, s.r)
         [] s.do = "merge" -> Cells(s.of, s.start, s.start + (s.r1 - s.l1 + 1) + (s.r2 - s.l2 + 1) - 1)
         [] s.do = "copy" -> Cells(<<0>>, task[s.of].l + s.from, task[s.of].l + s.from + s.n - 1)
Reads(t) ==
    LET s == task[t]
    IN CASE s.do = "sort" -> {}
         [] s.do = "merge" -> Cells(<<0>>, s.l1, s.r1) \cup Cells(<<0>>, s.l2, s.r2)
         [] s.do = "copy" -> Cells(s.of, s.from, s.from + s.n - 1)

\* No thread writes an element of the array or of a buffer that another one, which
\* runs at the same time, reads or writes.
RaceFree ==
    LET active == {t \in DOMAIN task : task[t].pc = "start"}
    IN \A t, u \in active : t # u => Writes(t) \cap (Reads(u) \cup Writes(u)) = {}

\* A sorted part of the array has the elements it had in the input, each once,
\* key and value together.
KeepsElements ==
    \A t \in DOMAIN task : (task[t].do = "sort" /\ task[t].pc = "done") =>
       {arr[i].id : i \in task[t].l .. task[t].r} = task[t].l .. task[t].r

\* A part whose task is done is sorted, unless a split point was wanted beyond the
\* end of a subarray.
SortedUnlessBeyond ==
    \A t \in DOMAIN task : (task[t].do = "sort" /\ task[t].pc = "done" /\ ~beyond) =>
       SortedRange(arr, task[t].l, task[t].r)

\* A part whose task is done has its own elements and is in order, unless a split
\* point was wanted beyond the end of a subarray.
SortsUnlessBeyond == TypeOK /\ KeepsElements /\ SortedUnlessBeyond

\* merge_sort_parallel sorts.  It does not: find_split_point never returns the index
\* after the last element; see README.
Sorted == Finished => SortedRange(arr, 0, N - 1)

\* The serial algorithms agree: each returns the stable sort of its input.
SerialSorts ==
    LET s == Slice(arr, 0, N - 1)
        stable == SetToSortSeq(Range(s), LAMBDA a, b : a.key < b.key \/ (a.key = b.key /\ a.id < b.id))
    IN task[Root].pc = "start" =>
          /\ merge_sort_serial(s) = stable
          /\ insertion_sort(s) = stable
          /\ bubble_sort_elem(s) = stable

\* Every thread is joined and the sort ends.
Terminates == <>Finished
=============================================================================
