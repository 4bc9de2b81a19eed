----------------------------- MODULE PipeSteps ------------------------------
(***************************************************************************)
(* Lemmas on FilePipe: reference counts, and who keeps an end of a pipe    *)
(* open.                                                                   *)
(***************************************************************************)
EXTENDS PipeInv, FiniteSetTheorems, TLAPS

\* A set of natural numbers that is not empty has a least element; below a bound it
\* has a greatest.
LEMMA Least ==
  ASSUME NEW S, S \subseteq Nat, S # {}
  PROVE  \E x \in S : \A y \in S : x =< y
<1> DEFINE T == {0..(x - 1) : x \in S}
<1>1. T \subseteq FiniteSubsetsOf(Nat)
  <2>1. ASSUME NEW x \in S PROVE 0..(x - 1) \subseteq Nat /\ IsFiniteSet(0..(x - 1))
    BY FS_Interval
  <2>2. QED
    BY <2>1, Zenon DEF FiniteSubsetsOf
<1>2. PICK i \in T : \A j \in T : <<j, i>> \notin StrictSubsetOrdering(Nat)
  <2>1. T # {}
    BY Zenon
  <2>2. QED
    BY Zenon, <1>1, <2>1, WFMin, FS_StrictSubsetOrderingWellFounded
<1>3. PICK x \in S : i = 0..(x - 1)
  OBVIOUS
<1>4. ASSUME NEW y \in S PROVE x =< y
  <2>1. SUFFICES ASSUME y < x PROVE FALSE
    OBVIOUS
  <2>2. 0..(y - 1) \in T
    OBVIOUS
  <2>3. /\ 0..(y - 1) \subseteq 0..(x - 1) /\ y \in 0..(x - 1) /\ y \notin 0..(y - 1)
        /\ 0..(x - 1) \subseteq Nat
    BY <2>1
  <2>4. <<0..(y - 1), 0..(x - 1)>> \in StrictSubsetOrdering(Nat)
    BY <2>3, Zenon DEF StrictSubsetOrdering
  <2>5. QED
    BY Zenon, <1>2, <1>3, <2>2, <2>4
<1>5. QED
  BY <1>4

\* The least element of a set of numbers.
LEMMA MinFacts ==
  ASSUME NEW S, S \subseteq Nat, S # {}
  PROVE  Min(S) \in S
BY Zenon, Least DEF Min

\* The greatest element of 1..k that S has.
LEMMA MaxFacts ==
  ASSUME NEW k \in Nat, NEW S, S \subseteq 1..k, S # {}
  PROVE  Max(S) \in S
<1> DEFINE T == {k - x : x \in S}
<1>1. T \subseteq Nat /\ T # {}
  <2>1. \A x \in S : k - x \in Nat
    OBVIOUS
  <2>2. QED
    BY <2>1, Zenon
<1>2. PICK t \in T : \A u \in T : t =< u
  BY Zenon, <1>1, Least
<1>3. PICK x \in S : t = k - x
  OBVIOUS
<1>4. ASSUME NEW y \in S PROVE x >= y
  <2>1. k - y \in T
    OBVIOUS
  <2>2. k - x =< k - y
    BY Zenon, <1>2, <1>3, <2>1
  <2>3. 1..k \subseteq Nat
    OBVIOUS
  <2>4. x \in Nat /\ y \in Nat
    BY Zenon, <2>3
  <2>5. QED
    BY <2>2, <2>4
<1>5. QED
  BY Zenon, <1>4 DEF Max

-----------------------------------------------------------------------------
(* Reference counts *)

\* What the constants say of descriptors and files.
LEMMA Constants ==
  /\ NFILE \in Nat /\ NOFILE \in Nat /\ IsFiniteSet(Process) /\ Null \notin Page /\ Null \notin Process
  /\ 0 \notin File /\ File \subseteq Nat /\ Fd \subseteq Nat /\ IsFiniteSet(Fd) /\ Cardinality(Fd) = NOFILE
<1>1. NOFILE \in Nat
  BY PipeConstants
<1>2. IsFiniteSet(Fd) /\ Cardinality(Fd) = NOFILE
  BY <1>1, FS_Interval DEF Fd
<1>3. QED
  BY <1>2, PipeConstants DEF File, Fd

\* An empty descriptor names no file.
LEMMA ZeroFile == 0 \notin File
BY Constants

\* Cardinalities of finite sets.
LEMMA OneMore ==
  ASSUME NEW S, IsFiniteSet(S), NEW x, x \notin S
  PROVE  Cardinality(S \cup {x}) = Cardinality(S) + 1
BY FS_AddElement

\* A set with one element less.
LEMMA OneLess ==
  ASSUME NEW S, IsFiniteSet(S), NEW x, x \in S
  PROVE  Cardinality(S \ {x}) = Cardinality(S) - 1
BY FS_RemoveElement

\* Two sets without a common element.
LEMMA Disjoint ==
  ASSUME NEW S, IsFiniteSet(S), NEW T, IsFiniteSet(T), S \cap T = {}
  PROVE  Cardinality(S \cup T) = Cardinality(S) + Cardinality(T)
<1>1. Cardinality(S \cap T) = 0
  BY FS_EmptySet
<1>2. Cardinality(S) \in Nat /\ Cardinality(T) \in Nat
  BY FS_CardinalityType
<1>3. Cardinality(S \cup T) = Cardinality(S) + Cardinality(T) - Cardinality(S \cap T)
  BY FS_Union
<1>4. QED
  BY <1>1, <1>2, <1>3

\* The descriptors of one process.
LEMMA Row ==
  ASSUME NEW q, NEW D, IsFiniteSet(D)
  PROVE  IsFiniteSet({q} \X D) /\ Cardinality({q} \X D) = Cardinality(D)
<1>1. IsFiniteSet({q}) /\ Cardinality({q}) = 1
  BY FS_Singleton
<1>2. IsFiniteSet({q} \X D) /\ Cardinality({q} \X D) = Cardinality({q}) * Cardinality(D)
  BY <1>1, FS_Product
<1>3. Cardinality(D) \in Nat
  BY FS_CardinalityType
<1>4. QED
  BY <1>1, <1>2, <1>3

\* There are finitely many descriptors.
LEMMA PairsFinite ==
  ASSUME NEW H, H \subseteq Process \X Fd
  PROVE  IsFiniteSet(H) /\ Cardinality(H) \in Nat /\ Cardinality(H) <= Cardinality(Process) * NOFILE
<1>1. IsFiniteSet(Process \X Fd) /\ Cardinality(Process \X Fd) = Cardinality(Process) * NOFILE
  BY Constants, FS_Product
<1>2. QED
  BY <1>1, FS_Subset, FS_CardinalityType

\* So a file has finitely many.
LEMMA HoldersFinite ==
  ASSUME NEW f
  PROVE  IsFiniteSet(Holders(f)) /\ Cardinality(Holders(f)) \in Nat
BY PairsFinite DEF Holders

\* A file with a descriptor is in use.
LEMMA HeldIsUsed ==
  ASSUME RefCounts, NEW p \in Process, NEW d \in Fd, NEW f \in File, ofile[p][d] = f
  PROVE  ref[f] > 0
<1>1. <<p, d>> \in Holders(f)
  BY DEF Holders
<1>2. Cardinality(Holders(f)) # 0
  BY <1>1, HoldersFinite, FS_EmptySet
<1>3. QED
  BY <1>2, HoldersFinite DEF RefCounts

\* A file with one reference has one descriptor.
LEMMA OnlyHolder ==
  ASSUME RefCounts, NEW f \in File, ref[f] <= 1,
         NEW p \in Process, NEW d \in Fd, ofile[p][d] = f,
         NEW q \in Process, NEW c \in Fd, ofile[q][c] = f
  PROVE  p = q /\ d = c
<1>1. <<p, d>> \in Holders(f) /\ <<q, c>> \in Holders(f)
  BY DEF Holders
<1>2. Cardinality(Holders(f)) = 1
  <2>1. Cardinality(Holders(f)) # 0
    BY <1>1, HoldersFinite, FS_EmptySet
  <2>2. QED
    BY <2>1, HoldersFinite DEF RefCounts
<1>3. PICK h : Holders(f) = {h}
  BY Zenon, <1>2, HoldersFinite, FS_Singleton
<1>4. <<p, d>> = <<q, c>>
  BY <1>1, <1>3
<1>5. QED
  BY <1>4

\* A descriptor is set: its file has one holder more, the others have theirs.
LEMMA HolderAdded ==
  ASSUME ofile \in [Process -> [Fd -> File \cup {0}]],
         NEW p \in Process, NEW d \in Fd, ofile[p][d] = 0, NEW g \in File,
         ofile' = [ofile EXCEPT ![p][d] = g]
  PROVE  /\ ofile' \in [Process -> [Fd -> File \cup {0}]]
         /\ Cardinality(Holders(g)') = Cardinality(Holders(g)) + 1
         /\ \A f \in File : f # g => Holders(f)' = Holders(f)
<1>1. /\ ofile' \in [Process -> [Fd -> File \cup {0}]]
      /\ \A q \in Process, c \in Fd :
           ofile'[q][c] = IF q = p /\ c = d THEN g ELSE ofile[q][c]
  OBVIOUS
<1>2. Holders(g)' = Holders(g) \cup {<<p, d>>} /\ <<p, d>> \notin Holders(g)
  BY <1>1, Constants DEF Holders
<1>3. \A f \in File : f # g => Holders(f)' = Holders(f)
  BY <1>1, Constants DEF Holders
<1>4. QED
  <2>1. Cardinality(Holders(g) \cup {<<p, d>>}) = Cardinality(Holders(g)) + 1
    BY <1>2, HoldersFinite, OneMore
  <2>2. QED
    BY <1>1, <1>2, <1>3, <2>1

\* close takes one descriptor away.
LEMMA HolderRemoved ==
  ASSUME ofile \in [Process -> [Fd -> File \cup {0}]],
         NEW p \in Process, NEW d \in Fd, NEW g \in File, ofile[p][d] = g,
         ofile' = [ofile EXCEPT ![p][d] = 0]
  PROVE  /\ ofile' \in [Process -> [Fd -> File \cup {0}]]
         /\ Cardinality(Holders(g)') = Cardinality(Holders(g)) - 1
         /\ \A f \in File : f # g => Holders(f)' = Holders(f)
<1>1. /\ ofile' \in [Process -> [Fd -> File \cup {0}]]
      /\ \A q \in Process, c \in Fd :
           ofile'[q][c] = IF q = p /\ c = d THEN 0 ELSE ofile[q][c]
  OBVIOUS
<1>2. Holders(g)' = Holders(g) \ {<<p, d>>} /\ <<p, d>> \in Holders(g)
  BY <1>1, Constants DEF Holders
<1>3. \A f \in File : f # g => Holders(f)' = Holders(f)
  BY <1>1, Constants DEF Holders
<1>4. QED
  <2>1. Cardinality(Holders(g) \ {<<p, d>>}) = Cardinality(Holders(g)) - 1
    BY <1>2, HoldersFinite, OneLess
  <2>2. QED
    BY <1>1, <1>2, <1>3, <2>1

\* fork gives the child the descriptors of its parent.
LEMMA HoldersShared ==
  ASSUME ofile \in [Process -> [Fd -> File \cup {0}]],
         NEW p \in Process, NEW q \in Process, \A d \in Fd : ofile[q][d] = 0,
         ofile' = [ofile EXCEPT ![q] = ofile[p]], NEW f \in File
  PROVE  /\ Cardinality(Holders(f)') = Cardinality(Holders(f)) + Cardinality({d \in Fd : ofile[p][d] = f})
         /\ Cardinality({d \in Fd : ofile[p][d] = f}) \in Nat
         /\ Cardinality({d \in Fd : ofile[p][d] = f}) > 0 => \E d \in Fd : ofile[p][d] = f
<1> DEFINE D == {d \in Fd : ofile[p][d] = f}
<1>1. IsFiniteSet(D) /\ Cardinality(D) \in Nat
  BY Constants, FS_Subset, FS_CardinalityType
<1>2. IsFiniteSet({q} \X D) /\ Cardinality({q} \X D) = Cardinality(D)
  BY Zenon, <1>1, Row
<1>3. Holders(f)' = Holders(f) \cup ({q} \X D) /\ Holders(f) \cap ({q} \X D) = {}
  <2>1. \A r \in Process : ofile'[r] = IF r = q THEN ofile[p] ELSE ofile[r]
    OBVIOUS
  <2>2. QED
    BY <2>1, ZeroFile DEF Holders
<1>4. Cardinality(Holders(f)') = Cardinality(Holders(f)) + Cardinality(D)
  <2>1. Cardinality(Holders(f) \cup ({q} \X D)) = Cardinality(Holders(f)) + Cardinality({q} \X D)
    BY <1>2, <1>3, HoldersFinite, Disjoint
  <2>2. QED
    BY <1>2, <1>3, <2>1
<1>5. Cardinality(D) > 0 => D # {}
  <2> HIDE DEF D
  <2>1. D = {} => Cardinality(D) = 0
    BY FS_EmptySet, Zenon
  <2>2. QED
    BY <2>1
<1>6. QED
  BY <1>1, <1>4, <1>5

-----------------------------------------------------------------------------
(* Owners of the ends of pipes *)

\* What a step leaves alone: files in use, and processes that close.
LEMMA OwnersFrame ==
  ASSUME OneOwner, EndsOpen, Allocated, open' = open, page' = page,
         \A f \in File : /\ ref'[f] > 0 <=> ref[f] > 0
                         /\ target'[f] = target[f] /\ writable'[f] = writable[f],
         \A p \in Process : /\ at'[p] = "close" <=> at[p] = "close"
                            /\ at[p] = "close" => arg'[p] = arg[p]
  PROVE  /\ OneOwner' /\ EndsOpen' /\ Allocated'
         /\ \A f \in File : \A x, e : Refers(f, x, e)' <=> Refers(f, x, e)
<1>1. ASSUME NEW f \in File, NEW x, NEW e PROVE Refers(f, x, e)' <=> Refers(f, x, e)
  BY DEF Refers
<1>2. ASSUME NEW p \in Process, NEW x, NEW e PROVE Closes(p, x, e)' <=> Closes(p, x, e)
  BY DEF Closes, ClosedEnd
<1>3. OneOwner'
  BY <1>1, <1>2, ZenonT(60) DEF OneOwner
<1>4. EndsOpen'
  BY <1>1, <1>2, Zenon DEF EndsOpen
<1>5. Allocated'
  BY DEF Allocated
<1>6. QED
  BY <1>1, <1>3, <1>4, <1>5

\* The bound on a reference count is that of the descriptors.
LEMMA RefTypes ==
  ASSUME RefCounts', ref' = [f \in File |-> ref'[f]]
  PROVE  ref' \in [File -> 0..(Cardinality(Process) * NOFILE)]
<1>1. ASSUME NEW f \in File PROVE ref'[f] \in 0..(Cardinality(Process) * NOFILE)
  <2>1. Holders(f)' \subseteq Process \X Fd
    BY DEF Holders
  <2>2. Cardinality(Holders(f)') \in Nat /\ Cardinality(Holders(f)') <= Cardinality(Process) * NOFILE
    BY <2>1, PairsFinite
  <2>3. Cardinality(Process) * NOFILE \in Nat
    BY Constants, FS_CardinalityType
  <2>4. QED
    BY <2>2, <2>3 DEF RefCounts
<1>2. QED
  BY <1>1

\* fork and dup: descriptors are added to files in use.
LEMMA FilesShared ==
  ASSUME FilesInv, ProcTypes, RefCounts',
         ref' = [f \in File |-> ref'[f]], UNCHANGED <<target, writable>>,
         ofile' \in [Process -> [Fd -> File \cup {0}]], open' = open, page' = page, arg' = arg,
         \A f \in File : ref'[f] > 0 <=> ref[f] > 0,
         \A p \in Process : \/ at'[p] = at[p] /\ (at[p] \in {"run", "exit"} \/ ofile'[p] = ofile[p])
                            \/ at[p] = "none" /\ at'[p] = "run"
  PROVE  FilesInv'
<1>1. FileTypes'
  <2>1. ref' \in [File -> 0..(Cardinality(Process) * NOFILE)]
    BY RefTypes
  <2>2. QED
    BY <2>1 DEF FileTypes, FilesInv
<1>2. FilesHavePipes' /\ CallsHavePipes'
  BY DEF FilesInv, FilesHavePipes, CallsHavePipes
<1>3. SlotsEmpty'
  BY DEF FilesInv, SlotsEmpty
<1>4. /\ OneOwner' /\ EndsOpen' /\ Allocated'
      /\ \A f \in File : \A x, e : Refers(f, x, e)' <=> Refers(f, x, e)
  BY OwnersFrame DEF FilesInv
<1>5. CallersHold'
  <2>1. \A p \in Process : Reading(p)' \/ Writing(p)' => at'[p] = at[p] /\ ofile'[p] = ofile[p]
    BY DEF Reading, Writing
  <2>2. \A p \in Process : (Reading(p)' => Reading(p)) /\ (Writing(p)' => Writing(p))
    BY <2>1 DEF Reading, Writing
  <2>3. QED
    BY <1>4, <2>1, <2>2, Zenon DEF FilesInv, CallersHold, Through
<1>6. QED
  BY <1>1, <1>2, <1>3, <1>4, <1>5 DEF FilesInv

\* fork counts the descriptors of the child.
LEMMA ForkFiles ==
  ASSUME FilesInv, ProcTypes, NEW p \in Process, Fork(p)
  PROVE  FilesInv'
<1>1. PICK q \in Process :
        /\ at[q] = "none" /\ ofile' = [ofile EXCEPT ![q] = ofile[p]]
        /\ ref' = [f \in File |-> ref[f] + Cardinality({d \in Fd : ofile[p][d] = f})]
        /\ at' = [at EXCEPT ![q] = "run"]
  BY Zenon DEF Fork
<1>2. UNCHANGED <<target, writable>> /\ open' = open /\ page' = page /\ arg' = arg
  BY DEF Fork, pipes
<1>3. ofile \in [Process -> [Fd -> File \cup {0}]] /\ (\A d \in Fd : ofile[q][d] = 0)
  BY <1>1 DEF FilesInv, FileTypes, SlotsEmpty
<1>4. ofile' \in [Process -> [Fd -> File \cup {0}]]
  BY <1>1, <1>3
<1>5. ASSUME NEW f \in File
      PROVE  ref'[f] = Cardinality(Holders(f)') /\ (ref'[f] > 0 <=> ref[f] > 0)
  <2>1. /\ Cardinality(Holders(f)') = Cardinality(Holders(f)) + Cardinality({d \in Fd : ofile[p][d] = f})
        /\ Cardinality({d \in Fd : ofile[p][d] = f}) \in Nat
        /\ Cardinality({d \in Fd : ofile[p][d] = f}) > 0 => \E d \in Fd : ofile[p][d] = f
    BY Zenon, <1>1, <1>3, HoldersShared
  <2>2. ref[f] = Cardinality(Holders(f)) /\ ref[f] \in Nat
    BY HoldersFinite DEF FilesInv, RefCounts
  <2>3. (\E d \in Fd : ofile[p][d] = f) => ref[f] > 0
    BY HeldIsUsed DEF FilesInv
  <2>4. ref'[f] = ref[f] + Cardinality({d \in Fd : ofile[p][d] = f})
    BY <1>1
  <2>5. QED
    BY <2>1, <2>2, <2>3, <2>4
<1>6. RefCounts' /\ ref' = [f \in File |-> ref'[f]]
  BY <1>1, <1>5 DEF RefCounts
<1>7. \A r \in Process : \/ at'[r] = at[r] /\ ofile'[r] = ofile[r]
                         \/ at[r] = "none" /\ at'[r] = "run"
  BY <1>1, <1>3 DEF ProcTypes
<1>8. QED
  BY <1>2, <1>4, <1>5, <1>6, <1>7, FilesShared

\* sys_dup counts the new descriptor.
LEMMA DupFiles ==
  ASSUME FilesInv, ProcTypes, NEW p \in Process, Dup(p)
  PROVE  FilesInv'
<1>1. FreeFds(p) \subseteq Nat /\ FreeFds(p) # {}
  BY Constants DEF Dup, FreeFds
<1>2. PICK c \in Fd : c = Min(FreeFds(p)) /\ ofile[p][c] = 0
  BY Zenon, <1>1, MinFacts DEF FreeFds
<1>3. PICK d \in Fd \ FreeFds(p) :
        /\ ofile' = [ofile EXCEPT ![p][c] = ofile[p][d]]
        /\ ref' = [ref EXCEPT ![ofile[p][d]] = @ + 1]
  BY Zenon, <1>2 DEF Dup
<1>4. ofile \in [Process -> [Fd -> File \cup {0}]] /\ ref \in [File -> Nat]
  BY HoldersFinite DEF FilesInv, FileTypes, RefCounts
<1>5. PICK g \in File : g = ofile[p][d]
  BY <1>4 DEF FreeFds
<1>6. /\ ofile' \in [Process -> [Fd -> File \cup {0}]]
      /\ Cardinality(Holders(g)') = Cardinality(Holders(g)) + 1
      /\ \A f \in File : f # g => Holders(f)' = Holders(f)
  BY Zenon, <1>2, <1>3, <1>4, <1>5, HolderAdded
<1>7. /\ ref' \in [File -> Nat] /\ ref'[g] = ref[g] + 1
      /\ \A f \in File : f # g => ref'[f] = ref[f]
  BY <1>3, <1>4, <1>5
<1>8. RefCounts' /\ ref' = [f \in File |-> ref'[f]]
  BY <1>6, <1>7 DEF FilesInv, RefCounts
<1>9. \A f \in File : ref'[f] > 0 <=> ref[f] > 0
  <2>1. ref[g] > 0
    BY <1>5, HeldIsUsed DEF FilesInv
  <2>2. QED
    BY <1>4, <1>7, <2>1
<1>10. /\ UNCHANGED <<target, writable>> /\ open' = open /\ page' = page /\ arg' = arg /\ at' = at
       /\ at[p] = "run"
  BY DEF Dup, Enters, pipes, procs
<1>11. \A r \in Process : r # p => ofile'[r] = ofile[r]
  BY <1>3, <1>4
<1>12. \A r \in Process : at'[r] = at[r] /\ (at[r] \in {"run", "exit"} \/ ofile'[r] = ofile[r])
  BY <1>10, <1>11
<1>13. QED
  BY <1>6, <1>8, <1>9, <1>10, <1>12, FilesShared

\* The last reference to a file passes its end on to the process that closes it.
LEMMA OwnersPassed ==
  ASSUME OneOwner, EndsOpen, open' = open, NEW p \in Process, NEW g \in File,
         \A f \in File : \A x, e : Refers(f, x, e)' <=> f # g /\ Refers(f, x, e),
         \A q \in Process : \A x, e : Closes(q, x, e)' <=> IF q = p THEN Refers(g, x, e) ELSE Closes(q, x, e),
         \A x, e : ~Closes(p, x, e)
  PROVE  OneOwner' /\ EndsOpen'
<1>1. OneOwner'
  <2>1. SUFFICES ASSUME NEW x \in Page, NEW e \in {"r", "w"}
        PROVE  /\ \A f, h \in File : Refers(f, x, e)' /\ Refers(h, x, e)' => f = h
               /\ \A q, r \in Process : Closes(q, x, e)' /\ Closes(r, x, e)' => q = r
               /\ \A f \in File, q \in Process : ~(Refers(f, x, e)' /\ Closes(q, x, e)')
    BY DEF OneOwner
  <2>2. /\ \A f, h \in File : Refers(f, x, e) /\ Refers(h, x, e) => f = h
        /\ \A q, r \in Process : Closes(q, x, e) /\ Closes(r, x, e) => q = r
        /\ \A f \in File, q \in Process : ~(Refers(f, x, e) /\ Closes(q, x, e))
    BY DEF OneOwner
  <2>3. QED
    BY <2>2, Zenon
<1>2. EndsOpen'
  <2>1. SUFFICES ASSUME NEW x \in Page, NEW e \in {"r", "w"}
        PROVE  e \in open[x] <=> (\E f \in File : Refers(f, x, e)') \/ (\E q \in Process : Closes(q, x, e)')
    BY DEF EndsOpen
  <2>2. e \in open[x] <=> (\E f \in File : Refers(f, x, e)) \/ (\E q \in Process : Closes(q, x, e))
    BY DEF EndsOpen
  <2>3. QED
    BY <2>2, Zenon
<1>3. QED
  BY <1>1, <1>2

\* fileclose counts one less, or passes the end on to pipeclose.
LEMMA FileCloseFiles ==
  ASSUME FilesInv, ProcTypes, NEW p \in Process, NEW d \in Fd, ofile[p][d] # 0,
         at[p] \in {"run", "exit"}, FileClose(p, d)
  PROVE  FilesInv'
<1>1. ofile \in [Process -> [Fd -> File \cup {0}]] /\ ref \in [File -> Nat]
  BY HoldersFinite DEF FilesInv, FileTypes, RefCounts
<1>2. PICK g \in File : g = ofile[p][d]
  BY <1>1
<1>3. /\ ofile' = [ofile EXCEPT ![p][d] = 0] /\ ref' = [ref EXCEPT ![g] = @ - 1]
      /\ UNCHANGED <<writable, pipes>>
  BY <1>2 DEF FileClose
<1>4. open' = open /\ page' = page /\ writable' = writable
  BY <1>3 DEF pipes
<1>5. /\ ofile' \in [Process -> [Fd -> File \cup {0}]]
      /\ Cardinality(Holders(g)') = Cardinality(Holders(g)) - 1
      /\ \A f \in File : f # g => Holders(f)' = Holders(f)
  BY Zenon, <1>1, <1>2, <1>3, HolderRemoved
<1>6. ref[g] > 0
  BY <1>2, HeldIsUsed DEF FilesInv
<1>7. /\ ref' \in [File -> Nat] /\ ref'[g] = ref[g] - 1
      /\ \A f \in File : f # g => ref'[f] = ref[f]
  BY <1>1, <1>3, <1>6
<1>8. RefCounts' /\ ref' = [f \in File |-> ref'[f]]
  BY <1>5, <1>7 DEF FilesInv, RefCounts
<1>9. \A r \in Process : r # p => ofile'[r] = ofile[r]
  BY <1>1, <1>3
<1>10. CASE ref[g] > 1
  <2>1. UNCHANGED <<target, writable>> /\ at' = at /\ arg' = arg
    BY <1>2, <1>4, <1>10 DEF FileClose
  <2>2. \A f \in File : ref'[f] > 0 <=> ref[f] > 0
    BY <1>1, <1>7, <1>10
  <2>3. \A r \in Process : at'[r] = at[r] /\ (at[r] \in {"run", "exit"} \/ ofile'[r] = ofile[r])
    BY <1>9, <2>1
  <2>4. QED
    BY ZenonT(30), <1>4, <1>5, <1>8, <2>1, <2>2, <2>3, FilesShared
<1>11. CASE ~(ref[g] > 1)
  <2>1. /\ target' = [target EXCEPT ![g] = Null] /\ at' = [at EXCEPT ![p] = "close"]
        /\ arg' = [arg EXCEPT ![p].pipe = target[g], ![p].n = IF writable[g] THEN 1 ELSE 0]
    BY <1>2, <1>11 DEF FileClose
  <2>2. /\ target' \in [File -> Page \cup {Null}]
        /\ \A f \in File : f # g => target'[f] = target[f]
    BY <2>1 DEF FilesInv, FileTypes
  <2>3. /\ at'[p] = "close" /\ arg'[p].pipe = target[g] /\ arg'[p].n = IF writable[g] THEN 1 ELSE 0
        /\ \A q \in Process : q # p => at'[q] = at[q] /\ arg'[q] = arg[q]
    BY <2>1 DEF ProcTypes, Args
  <2>4. ref'[g] = 0 /\ target[g] \in Page
    BY SMTT(30), <1>1, <1>6, <1>7, <1>11 DEF FilesInv, FilesHavePipes
  <2>5. FileTypes'
    BY Zenon, <1>4, <1>5, <1>8, <2>2, RefTypes DEF FilesInv, FileTypes
  <2>6. FilesHavePipes'
    BY <1>7, <2>2, <2>4 DEF FilesInv, FilesHavePipes
  <2>7. SlotsEmpty' /\ CallsHavePipes'
    BY <1>9, <2>3, <2>4 DEF FilesInv, SlotsEmpty, CallsHavePipes
  <2>8. \A f \in File : \A x, e : Refers(f, x, e)' <=> f # g /\ Refers(f, x, e)
    BY <1>4, <1>7, <2>2, <2>4 DEF Refers
  <2>9. \A q \in Process : \A x, e : Closes(q, x, e)' <=> IF q = p THEN Refers(g, x, e) ELSE Closes(q, x, e)
    BY <1>6, <2>3 DEF Refers, Closes, ClosedEnd
  <2>10. \A x, e : ~Closes(p, x, e)
    BY DEF Closes
  <2>11. OneOwner' /\ EndsOpen'
    BY Zenon, <1>4, <2>8, <2>9, <2>10, OwnersPassed DEF FilesInv
  <2>12. Allocated'
    BY <1>4 DEF FilesInv, Allocated
  <2>13. CallersHold'
    <3>1. ASSUME NEW q \in Process, NEW e, q # p, Through(q, e) PROVE Through(q, e)'
      <4>1. PICK c \in Fd : ofile[q][c] \in File /\ Refers(ofile[q][c], arg[q].pipe, e)
        BY <3>1 DEF Through
      <4>2. ofile[q][c] # g
        BY <1>2, <1>11, <1>1, <3>1, OnlyHolder DEF FilesInv
      <4>3. QED
        BY ZenonT(30), <1>9, <2>3, <2>8, <3>1, <4>1, <4>2 DEF Through
    <3>2. \A q \in Process : /\ Reading(q)' => q # p /\ Reading(q)
                             /\ Writing(q)' => q # p /\ Writing(q)
      BY <2>3 DEF Reading, Writing
    <3>3. QED
      BY Zenon, <3>1, <3>2 DEF FilesInv, CallersHold
  <2>14. QED
    BY Zenon, <1>8, <2>5, <2>6, <2>7, <2>11, <2>12, <2>13 DEF FilesInv
<1>12. QED
  BY <1>10, <1>11

\* fdalloc and filealloc twice: the two least members of a set.
LEMMA TwoLeast ==
  ASSUME NEW S, S \subseteq Nat, Cardinality(S) >= 2
  PROVE  Min(S) \in S /\ Min(S \ {Min(S)}) \in S /\ Min(S \ {Min(S)}) # Min(S)
<1>1. S # {}
  BY FS_EmptySet
<1>2. Min(S) \in S
  BY Zenon, <1>1, MinFacts
<1>3. S # {Min(S)}
  BY FS_Singleton
<1>4. S \ {Min(S)} # {} /\ S \ {Min(S)} \subseteq Nat
  BY <1>2, <1>3, Zenon
<1>5. Min(S \ {Min(S)}) \in S \ {Min(S)}
  BY <1>4, MinFacts
<1>6. QED
  BY <1>2, <1>5

\* sys_pipe, with what it finds.
LEMMA SysPipeFinds ==
  ASSUME ofile \in [Process -> [Fd -> File \cup {0}]], NEW p \in Process, SysPipe(p)
  PROVE  \E d0, d1 \in Fd, f0, f1 \in File, x \in Page :
           /\ d0 # d1 /\ ofile[p][d0] = 0 /\ ofile[p][d1] = 0
           /\ f0 # f1 /\ ref[f0] = 0 /\ ref[f1] = 0
           /\ x \notin page /\ PipeAlloc(x, f0, f1)
           /\ ofile' = [ofile EXCEPT ![p][d0] = f0, ![p][d1] = f1]
<1>1. FreeFds(p) \subseteq Nat /\ FreeFiles \subseteq Nat
  BY Zenon, Constants DEF FreeFds, FreeFiles
<1> DEFINE d0 == Min(FreeFds(p))
           d1 == Min(FreeFds(p) \ {d0})
           f0 == Min(FreeFiles)
           f1 == Min(FreeFiles \ {f0})
<1>2. /\ Cardinality(FreeFds(p)) >= 2 /\ Cardinality(FreeFiles) >= 2
      /\ \E x \in Page \ page : PipeAlloc(x, f0, f1)
      /\ ofile' = [ofile EXCEPT ![p][d0] = f0, ![p][d1] = f1]
  BY DEF SysPipe
<1>3. d0 \in FreeFds(p) /\ d1 \in FreeFds(p) /\ d1 # d0
  BY <1>1, <1>2, TwoLeast
<1>4. f0 \in FreeFiles /\ f1 \in FreeFiles /\ f1 # f0
  BY Zenon, <1>1, <1>2, TwoLeast
<1> HIDE DEF d0, d1, f0, f1
<1>5. d0 \in Fd /\ d1 \in Fd /\ ofile[p][d0] = 0 /\ ofile[p][d1] = 0
  BY <1>3 DEF FreeFds
<1>6. f0 \in File /\ f1 \in File /\ ref[f0] = 0 /\ ref[f1] = 0
  BY <1>4 DEF FreeFiles
<1>7. QED
  BY <1>2, <1>3, <1>4, <1>5, <1>6

\* The descriptors of a new pipe.
NewHolders(p, d0, d1, f0, f1) ==
  /\ d0 # d1 /\ ofile[p][d0] = 0 /\ ofile[p][d1] = 0
  /\ f0 # f1 /\ ref[f0] = 0 /\ ref[f1] = 0
  /\ ofile' = [ofile EXCEPT ![p][d0] = f0, ![p][d1] = f1]

\* The two files of a new pipe have one descriptor each.
LEMMA HoldersOfPipe ==
  ASSUME RefCounts, ofile \in [Process -> [Fd -> File \cup {0}]], NEW p \in Process,
         NEW d0 \in Fd, NEW d1 \in Fd, NEW f0 \in File, NEW f1 \in File,
         NewHolders(p, d0, d1, f0, f1)
  PROVE  /\ ofile' \in [Process -> [Fd -> File \cup {0}]]
         /\ Cardinality(Holders(f0)') = 1 /\ Cardinality(Holders(f1)') = 1
         /\ \A f \in File : f # f0 /\ f # f1 => Holders(f)' = Holders(f)
<1>1. /\ ofile' \in [Process -> [Fd -> File \cup {0}]]
      /\ \A q \in Process, c \in Fd :
           ofile'[q][c] = IF q = p /\ c = d0 THEN f0 ELSE IF q = p /\ c = d1 THEN f1 ELSE ofile[q][c]
  BY DEF NewHolders
<1>2. Holders(f0) = {} /\ Holders(f1) = {}
  BY HoldersFinite, FS_EmptySet DEF RefCounts, NewHolders
<1>3. Holders(f0)' = {<<p, d0>>}
  BY SMTT(30), <1>1, <1>2, ZeroFile DEF Holders, NewHolders
<1>4. Holders(f1)' = {<<p, d1>>}
  BY <1>1, <1>2, ZeroFile DEF Holders, NewHolders
<1>5. \A f \in File : f # f0 /\ f # f1 => Holders(f)' = Holders(f)
  BY <1>1, ZeroFile DEF Holders, NewHolders
<1>6. QED
  BY Zenon, <1>1, <1>3, <1>4, <1>5, FS_Singleton

\* The owners of the ends of a new pipe x.
NewOwners(x, f0, f1) ==
  /\ \A f \in File : \A y, e : Refers(f, y, e)' <=>
       \/ y = x /\ f = f0 /\ e = "r"
       \/ y = x /\ f = f1 /\ e = "w"
       \/ y # x /\ Refers(f, y, e)
  /\ \A q \in Process : \A y, e : Closes(q, y, e)' <=> Closes(q, y, e)

\* They own its two ends.
LEMMA OwnersOfPipe ==
  ASSUME OneOwner, EndsOpen, Allocated, NEW x \in Page, open[x] = {},
         open \in [Page -> SUBSET {"r", "w"}], open' = [open EXCEPT ![x] = {"r", "w"}],
         page' = page \cup {x}, NEW f0 \in File, NEW f1 \in File, f0 # f1, NewOwners(x, f0, f1)
  PROVE  OneOwner' /\ EndsOpen' /\ Allocated'
<1>1. \A f \in File : \A y, e : Refers(f, y, e)' <=>
        \/ y = x /\ f = f0 /\ e = "r"
        \/ y = x /\ f = f1 /\ e = "w"
        \/ y # x /\ Refers(f, y, e)
  BY DEF NewOwners
<1>2. \A q \in Process : \A y, e : Closes(q, y, e)' <=> Closes(q, y, e)
  BY DEF NewOwners
<1>3. \A q \in Process, e \in {"r", "w"} : ~Closes(q, x, e)
  BY Zenon DEF EndsOpen
<1>4. \A y \in Page : open'[y] = IF y = x THEN {"r", "w"} ELSE open[y]
  OBVIOUS
<1>5. OneOwner'
  <2>1. SUFFICES ASSUME NEW y \in Page, NEW e \in {"r", "w"}
        PROVE  /\ \A f, h \in File : Refers(f, y, e)' /\ Refers(h, y, e)' => f = h
               /\ \A q, r \in Process : Closes(q, y, e)' /\ Closes(r, y, e)' => q = r
               /\ \A f \in File, q \in Process : ~(Refers(f, y, e)' /\ Closes(q, y, e)')
    BY DEF OneOwner
  <2>2. /\ \A f, h \in File : Refers(f, y, e) /\ Refers(h, y, e) => f = h
        /\ \A q, r \in Process : Closes(q, y, e) /\ Closes(r, y, e) => q = r
        /\ \A f \in File, q \in Process : ~(Refers(f, y, e) /\ Closes(q, y, e))
    BY DEF OneOwner
  <2>3. "r" # "w"
    OBVIOUS
  <2>4. QED
    BY <1>1, <1>2, <1>3, <2>2, <2>3, ZenonT(30)
<1>6. EndsOpen'
  <2>1. SUFFICES ASSUME NEW y \in Page, NEW e \in {"r", "w"}
        PROVE  e \in open'[y] <=> (\E f \in File : Refers(f, y, e)') \/ (\E q \in Process : Closes(q, y, e)')
    BY DEF EndsOpen
  <2>2. CASE y = x
    BY Zenon, <1>1, <1>2, <1>4, <2>2
  <2>3. CASE y # x
    <3>1. e \in open[y] <=> (\E f \in File : Refers(f, y, e)) \/ (\E q \in Process : Closes(q, y, e))
      BY DEF EndsOpen
    <3>2. QED
      BY <1>1, <1>2, <1>4, <2>3, <3>1
  <2>4. QED
    BY <2>2, <2>3
<1>7. Allocated'
  BY <1>4 DEF Allocated
<1>8. QED
  BY <1>5, <1>6, <1>7

\* sys_pipe makes two files and two descriptors.
LEMMA SysPipeFiles ==
  ASSUME FilesInv, PipeTypes, ProcTypes, NEW p \in Process, SysPipe(p)
  PROVE  FilesInv'
<1>1. ofile \in [Process -> [Fd -> File \cup {0}]] /\ ref \in [File -> Nat]
  BY HoldersFinite DEF FilesInv, FileTypes, RefCounts
<1>2. PICK d0 \in Fd, d1 \in Fd, f0 \in File, f1 \in File, x \in Page :
           /\ d0 # d1 /\ ofile[p][d0] = 0 /\ ofile[p][d1] = 0
           /\ f0 # f1 /\ ref[f0] = 0 /\ ref[f1] = 0
           /\ x \notin page /\ PipeAlloc(x, f0, f1)
           /\ ofile' = [ofile EXCEPT ![p][d0] = f0, ![p][d1] = f1]
  BY Zenon, <1>1, SysPipeFinds
<1>3. /\ ofile' \in [Process -> [Fd -> File \cup {0}]]
      /\ Cardinality(Holders(f0)') = 1 /\ Cardinality(Holders(f1)') = 1
      /\ \A f \in File : f # f0 /\ f # f1 => Holders(f)' = Holders(f)
  <2>1. RefCounts
    BY DEF FilesInv
  <2>2. NewHolders(p, d0, d1, f0, f1)
    BY <1>2 DEF NewHolders
  <2>3. QED
    BY <1>1, <2>1, <2>2, HoldersOfPipe
<1>4. /\ ref' \in [File -> Nat] /\ ref'[f0] = 1 /\ ref'[f1] = 1
      /\ \A f \in File : f # f0 /\ f # f1 => ref'[f] = ref[f]
  BY <1>1, <1>2 DEF PipeAlloc
<1>5. /\ target' \in [File -> Page \cup {Null}] /\ target'[f0] = x /\ target'[f1] = x
      /\ \A f \in File : f # f0 /\ f # f1 => target'[f] = target[f]
  BY <1>2 DEF PipeAlloc, FilesInv, FileTypes
<1>6. writable' \in [File -> BOOLEAN]
  BY Zenon, <1>2 DEF PipeAlloc, FilesInv, FileTypes
<1>7. /\ ~writable'[f0] /\ writable'[f1]
      /\ \A f \in File : f # f0 /\ f # f1 => writable'[f] = writable[f]
  BY <1>2 DEF PipeAlloc, FilesInv, FileTypes
<1>8. RefCounts' /\ ref' = [f \in File |-> ref'[f]]
  BY <1>3, <1>4 DEF FilesInv, RefCounts
<1>9. FileTypes'
  BY <1>3, <1>5, <1>6, <1>8, RefTypes DEF FileTypes
<1>10. FilesHavePipes'
  BY <1>4, <1>5 DEF FilesInv, FilesHavePipes
<1>11. at' = at /\ arg' = arg /\ at[p] = "run"
  BY DEF SysPipe, procs, Enters
<1>12. \A q \in Process : q # p => ofile'[q] = ofile[q]
  BY <1>1, <1>2
<1>13. SlotsEmpty' /\ CallsHavePipes'
  BY <1>11, <1>12 DEF FilesInv, SlotsEmpty, CallsHavePipes
<1>14. open[x] = {}
  BY <1>2 DEF FilesInv, Allocated
<1>15. \A f \in File : \A e : ~Refers(f, x, e)
  BY <1>14 DEF FilesInv, EndsOpen, Refers
<1>16. \A f \in File : \A y, e : Refers(f, y, e)' <=>
           \/ y = x /\ f = f0 /\ e = "r"
           \/ y = x /\ f = f1 /\ e = "w"
           \/ y # x /\ Refers(f, y, e)
  <2>1. ASSUME NEW f \in File, f # f0, f # f1, NEW y, NEW e PROVE Refers(f, y, e)' <=> Refers(f, y, e)
    BY <1>4, <1>5, <1>7, <2>1 DEF Refers
  <2>2. ASSUME NEW y, NEW e PROVE Refers(f0, y, e)' <=> y = x /\ e = "r"
    BY <1>4, <1>5, <1>7 DEF Refers
  <2>3. ASSUME NEW y, NEW e PROVE Refers(f1, y, e)' <=> y = x /\ e = "w"
    BY <1>4, <1>5, <1>7 DEF Refers
  <2>4. ASSUME NEW y, NEW e PROVE ~Refers(f0, y, e) /\ ~Refers(f1, y, e)
    BY <1>2 DEF Refers
  <2>5. QED
    BY <1>2, <1>15, <2>1, <2>2, <2>3, <2>4, Zenon
<1>17. \A q \in Process : \A y, e : Closes(q, y, e)' <=> Closes(q, y, e)
  BY Zenon, <1>11 DEF Closes, ClosedEnd
<1>18. /\ open \in [Page -> SUBSET {"r", "w"}] /\ open' = [open EXCEPT ![x] = {"r", "w"}]
       /\ page' = page \cup {x}
  BY <1>2 DEF PipeTypes, PipeAlloc
<1>19. OneOwner' /\ EndsOpen' /\ Allocated'
  <2>1. OneOwner /\ EndsOpen /\ Allocated
    BY DEF FilesInv
  <2>2. NewOwners(x, f0, f1)
    BY <1>16, <1>17 DEF NewOwners
  <2>3. QED
    BY Zenon, <1>2, <1>14, <1>18, <2>1, <2>2, OwnersOfPipe
<1>20. CallersHold'
  <2>1. ASSUME NEW q \in Process, NEW e, q # p, Through(q, e) PROVE Through(q, e)'
    <3>1. PICK c \in Fd : ofile[q][c] \in File /\ Refers(ofile[q][c], arg[q].pipe, e)
      BY <2>1 DEF Through
    <3>2. Refers(ofile[q][c], arg[q].pipe, e)'
      BY <1>11, <1>12, <1>15, <1>16, <2>1, <3>1
    <3>3. QED
      BY <1>12, <2>1, <3>1, <3>2 DEF Through
  <2>2. \A q \in Process : /\ Reading(q)' => q # p /\ Reading(q)
                           /\ Writing(q)' => q # p /\ Writing(q)
    BY <1>11 DEF Reading, Writing
  <2>3. QED
    BY ZenonT(30), <2>1, <2>2 DEF FilesInv, CallersHold
<1>21. QED
  BY <1>8, <1>9, <1>10, <1>13, <1>19, <1>20 DEF FilesInv

\* pipeclose gives up an end nobody else owns.
LEMMA PipeCloseFiles ==
  ASSUME FilesInv, NEW p \in Process, NEW x \in Page, x = arg[p].pipe,
         NEW e \in {"r", "w"}, e = ClosedEnd(p), PipeClosed(p, x, e)
  PROVE  FilesInv'
<1>3. /\ at[p] = "close" /\ (\A y \in Page : open'[y] = IF y = x THEN open[x] \ {e} ELSE open[y])
      /\ page' = IF open[x] \ {e} = {} THEN page \ {x} ELSE page
      /\ at'[p] \in {"run", "exit"}
      /\ ref' = ref /\ target' = target /\ writable' = writable /\ ofile' = ofile
  BY Zenon DEF PipeClosed, files
<1>4. \A q \in Process : q # p =>
        /\ arg'[q] = arg[q]
        /\ at'[q] = at[q] \/ (at[q] = "rsleep" /\ at'[q] = "read") \/ (at[q] = "wsleep" /\ at'[q] = "write")
  BY Zenon DEF PipeClosed
<1>5. FileTypes' /\ FilesHavePipes'
  BY Zenon, <1>3 DEF FilesInv, FileTypes, FilesHavePipes
<1>6. RefCounts'
  BY ZenonT(30), <1>3 DEF FilesInv, RefCounts, Holders
<1>7. SlotsEmpty' /\ CallsHavePipes'
  BY <1>3, <1>4 DEF FilesInv, SlotsEmpty, CallsHavePipes
<1>8. \A f \in File : \A y, c : Refers(f, y, c)' <=> Refers(f, y, c)
  BY Zenon, <1>3 DEF Refers
<1>9. \A q \in Process : \A y, c : Closes(q, y, c)' <=> q # p /\ Closes(q, y, c)
  BY Zenon, <1>3, <1>4 DEF Closes, ClosedEnd
<1>10. Closes(p, x, e) /\ \A y, c : Closes(p, y, c) => y = x /\ c = e
  BY <1>3 DEF Closes
<1>11. OneOwner'
  <2>1. SUFFICES ASSUME NEW y \in Page, NEW c \in {"r", "w"}
        PROVE  /\ \A f, h \in File : Refers(f, y, c)' /\ Refers(h, y, c)' => f = h
               /\ \A q, r \in Process : Closes(q, y, c)' /\ Closes(r, y, c)' => q = r
               /\ \A f \in File, q \in Process : ~(Refers(f, y, c)' /\ Closes(q, y, c)')
    BY DEF OneOwner
  <2>2. /\ \A f, h \in File : Refers(f, y, c) /\ Refers(h, y, c) => f = h
        /\ \A q, r \in Process : Closes(q, y, c) /\ Closes(r, y, c) => q = r
        /\ \A f \in File, q \in Process : ~(Refers(f, y, c) /\ Closes(q, y, c))
    BY Zenon DEF FilesInv, OneOwner
  <2>3. QED
    BY <1>8, <1>9, <2>2, Zenon
<1>12. EndsOpen'
  <2>1. SUFFICES ASSUME NEW y \in Page, NEW c \in {"r", "w"}
        PROVE  c \in open'[y] <=> (\E f \in File : Refers(f, y, c)') \/ (\E q \in Process : Closes(q, y, c)')
    BY DEF EndsOpen
  <2>2. c \in open[y] <=> (\E f \in File : Refers(f, y, c)) \/ (\E q \in Process : Closes(q, y, c))
    BY Zenon DEF FilesInv, EndsOpen
  <2>3. CASE y = x /\ c = e
    <3>1. /\ \A f \in File : ~Refers(f, x, e)
          /\ \A q \in Process : Closes(q, x, e) => q = p
      BY <1>10, Zenon DEF FilesInv, OneOwner
    <3>2. QED
      BY Zenon, <1>3, <1>8, <1>9, <2>3, <3>1
  <2>4. CASE ~(y = x /\ c = e)
    <3>1. c \in open'[y] <=> c \in open[y]
      BY <1>3, <2>4
    <3>2. ~Closes(p, y, c)
      BY <1>10, <2>4
    <3>3. QED
      BY <1>8, <1>9, <2>2, <3>1, <3>2, ZenonT(30)
  <2>5. QED
    BY Zenon, <2>3, <2>4
<1>13. Allocated'
  BY <1>3 DEF FilesInv, Allocated
<1>14. CallersHold'
  <2>1. \A q \in Process : /\ Reading(q)' => Reading(q) /\ arg'[q] = arg[q]
                           /\ Writing(q)' => Writing(q) /\ arg'[q] = arg[q]
    BY <1>3, <1>4 DEF Reading, Writing
  <2>2. QED
    BY <1>3, <1>8, <2>1, ZenonT(30) DEF FilesInv, CallersHold, Through
<1>15. QED
  BY Zenon, <1>5, <1>6, <1>7, <1>11, <1>12, <1>13, <1>14 DEF FilesInv

\* The ring holds bytes.
LEMMA StoredTyped ==
  ASSUME PipeTypes, NEW x \in Page, NEW s \in Seq(Nat), NEW k \in Nat, k <= Len(s)
  PROVE  Stored(x, s, k) \in [0..(PIPESIZE - 1) -> Nat]
<1>1. ring[x] \in [0..(PIPESIZE - 1) -> Nat]
  BY DEF PipeTypes
<1>2. ASSUME NEW S, S \subseteq 1..k, S # {} PROVE s[Max(S)] \in Nat
  <2>1. Max(S) \in 1..k
    BY Zenon, <1>2, MaxFacts
  <2>2. QED
    BY <2>1
<1>3. ASSUME NEW i \in 0..(PIPESIZE - 1)
      PROVE  (IF {j \in 1..k : (nwrite[x] + j - 1) % PIPESIZE = i} = {} THEN ring[x][i]
              ELSE s[Max({j \in 1..k : (nwrite[x] + j - 1) % PIPESIZE = i})]) \in Nat
  <2>1. PICK S : S = {j \in 1..k : (nwrite[x] + j - 1) % PIPESIZE = i}
    BY Zenon
  <2>2. S \subseteq 1..k
    BY <2>1
  <2>3. QED
    BY <1>1, <1>2, <2>1, <2>2, Zenon
<1>4. QED
  BY <1>3, Zenon DEF Stored

\* exit closes the first open descriptor.
LEMMA CloseAllFinds ==
  ASSUME NEW p \in Process, CloseAll(p)
  PROVE  \E d \in Fd : ofile[p][d] # 0 /\ FileClose(p, d)
<1>1. Fd \ FreeFds(p) \subseteq Nat /\ Fd \ FreeFds(p) # {}
  BY Zenon, Constants DEF CloseAll, FreeFds
<1>2. Min(Fd \ FreeFds(p)) \in Fd \ FreeFds(p)
  BY <1>1, MinFacts
<1>3. QED
  BY <1>2 DEF CloseAll, FreeFds

\* The first process has no files.
LEMMA InitFiles == Init => FilesInv
<1> SUFFICES ASSUME Init PROVE FilesInv
  OBVIOUS
<1>2. \A q \in Process : at[q] \in {"run", "none"}
  BY DEF Init
<1>5. \A p2 \in Process, d \in Fd : ofile[p2][d] = 0
  BY DEF Init
<1>6. FileTypes
  <2>1. 0 \in 0..(Cardinality(Process) * NOFILE)
    BY SMTT(30), Constants, FS_CardinalityType
  <2>2. QED
    BY <2>1 DEF Init, FileTypes
<1>7. RefCounts
  <2>1. ASSUME NEW f \in File PROVE Holders(f) = {}
    BY <1>5, ZeroFile DEF Holders
  <2>2. QED
    BY Zenon, <2>1, FS_EmptySet DEF RefCounts, Init
<1>8. FilesHavePipes /\ SlotsEmpty /\ CallsHavePipes /\ CallersHold
  BY SMTT(30), <1>2, <1>5 DEF FilesHavePipes, SlotsEmpty, CallsHavePipes, CallersHold, Init, Reading, Writing
<1>9. OneOwner /\ EndsOpen /\ Allocated
  <2>1. \A f \in File : \A x, e : ~Refers(f, x, e)
    BY DEF Refers, Init
  <2>2. \A q \in Process : \A x, e : ~Closes(q, x, e)
    BY <1>2 DEF Closes
  <2>3. \A x \in Page : open[x] = {}
    BY DEF Init
  <2>4. Allocated
    BY <2>3 DEF Allocated, Init
  <2>5. QED
    BY <2>1, <2>2, <2>3, <2>4 DEF OneOwner, EndsOpen
<1>10. QED
  BY <1>6, <1>7, <1>8, <1>9 DEF FilesInv
=============================================================================
