----------------------------- MODULE PipeWaits ------------------------------
(***************************************************************************)
(* Lemmas on FilePipe: the wrapping counters of a pipe, why processes wait *)
(* for it and who holds its lock, and the ring as a queue of bytes.        *)
(***************************************************************************)
EXTENDS PipeInv, Integers, TLAPS

-----------------------------------------------------------------------------
(* Counters *)

\* Unsigned arithmetic: a difference and a sum of two counters.
LEMMA Minus ==
  ASSUME NEW U \in Nat, NEW a \in 0..(U - 1), NEW b \in 0..(U - 1)
  PROVE  (a + U - b) % U = IF b <= a THEN a - b ELSE a + U - b
BY SMT

\* A sum of two counters.
LEMMA Plus ==
  ASSUME NEW U \in Nat, NEW a \in 0..(U - 1), NEW k \in 0..(U - 1)
  PROVE  (a + k) % U = IF a + k < U THEN a + k ELSE a + k - U
BY SMT

-----------------------------------------------------------------------------
(* The ring *)

\* The number of bytes between two wrapping counters, and a counter after k bytes.
Apart(r, w) == (w + UINT - r) % UINT

Ahead(r, k) == (r + k) % UINT

Counter == 0..(UINT - 1)

\* What the constants say of ring and counters.
LEMMA RingSize == UINT \in Nat /\ PIPESIZE \in Nat /\ PIPESIZE > 0 /\ PIPESIZE < UINT /\ UINT % PIPESIZE = 0
BY PipeConstants

\* The distance between two counters, without %.
LEMMA ApartIs ==
  ASSUME NEW r \in Counter, NEW w \in Counter
  PROVE  Apart(r, w) = IF r <= w THEN w - r ELSE w + UINT - r
BY RingSize, Minus DEF Apart, Counter

\* A counter some bytes further on, without %.
LEMMA AheadIs ==
  ASSUME NEW r \in Counter, NEW k \in Counter
  PROVE  Ahead(r, k) = IF r + k < UINT THEN r + k ELSE r + k - UINT
BY Zenon, RingSize, Plus DEF Ahead, Counter

\* From one counter to another: the distance leads there.
LEMMA Between ==
  ASSUME NEW r \in Counter, NEW w \in Counter
  PROVE  /\ Apart(r, w) \in Counter
         /\ r = w <=> Apart(r, w) = 0
         /\ w = Ahead(r, PIPESIZE) <=> Apart(r, w) = PIPESIZE
<1>1. PIPESIZE \in Counter
  BY RingSize DEF Counter
<1>2. Apart(r, w) = IF r <= w THEN w - r ELSE w + UINT - r
  BY ApartIs
<1>3. Ahead(r, PIPESIZE) = IF r + PIPESIZE < UINT THEN r + PIPESIZE ELSE r + PIPESIZE - UINT
  BY <1>1, AheadIs
<1>4. r \in 0..(UINT - 1) /\ w \in 0..(UINT - 1) /\ UINT \in Nat /\ PIPESIZE \in Nat /\ PIPESIZE > 0 /\ PIPESIZE < UINT
  BY RingSize DEF Counter
<1>5. QED
  BY <1>2, <1>3, <1>4 DEF Counter

\* Writing k bytes lengthens the distance by k.
LEMMA Advanced ==
  ASSUME NEW r \in Counter, NEW w \in Counter, NEW k \in Nat, Apart(r, w) + k <= PIPESIZE
  PROVE  Ahead(w, k) \in Counter /\ Apart(r, Ahead(w, k)) = Apart(r, w) + k /\ (k = 0 => Ahead(w, k) = w)
<1>1. k \in Counter
  BY Between, RingSize DEF Counter
<1>2. Ahead(w, k) \in Counter
  BY <1>1, AheadIs, RingSize DEF Counter
<1>3. Apart(r, Ahead(w, k)) = IF r <= Ahead(w, k) THEN Ahead(w, k) - r ELSE Ahead(w, k) + UINT - r
  BY <1>2, ApartIs
<1>4. Apart(r, w) = IF r <= w THEN w - r ELSE w + UINT - r
  BY ApartIs
<1>5. Ahead(w, k) = IF w + k < UINT THEN w + k ELSE w + k - UINT
  BY <1>1, AheadIs
<1>6. r \in 0..(UINT - 1) /\ w \in 0..(UINT - 1) /\ UINT \in Nat /\ PIPESIZE \in Nat /\ PIPESIZE < UINT
  BY RingSize DEF Counter
<1>7. QED
  BY <1>2, <1>3, <1>4, <1>5, <1>6

\* Reading k bytes shortens it by k.
LEMMA Consumed ==
  ASSUME NEW r \in Counter, NEW w \in Counter, NEW k \in Nat, k <= Apart(r, w)
  PROVE  Ahead(r, k) \in Counter /\ Apart(Ahead(r, k), w) = Apart(r, w) - k /\ (k = 0 => Ahead(r, k) = r)
<1>1. k \in Counter
  BY Between, RingSize DEF Counter
<1>2. Ahead(r, k) \in Counter
  BY <1>1, AheadIs, RingSize DEF Counter
<1>3. Apart(Ahead(r, k), w) = IF Ahead(r, k) <= w THEN w - Ahead(r, k) ELSE w + UINT - Ahead(r, k)
  BY <1>2, ApartIs
<1>4. Apart(r, w) = IF r <= w THEN w - r ELSE w + UINT - r
  BY ApartIs
<1>5. Ahead(r, k) = IF r + k < UINT THEN r + k ELSE r + k - UINT
  BY <1>1, AheadIs
<1>6. r \in 0..(UINT - 1) /\ w \in 0..(UINT - 1) /\ UINT \in Nat /\ PIPESIZE \in Nat /\ PIPESIZE < UINT
  BY RingSize DEF Counter
<1>7. QED
  BY <1>2, <1>3, <1>4, <1>5, <1>6

\* The counters of a pipe.
LEMMA Counters ==
  ASSUME PipeTypes, NEW x \in Page
  PROVE  /\ nread[x] \in Counter /\ nwrite[x] \in Counter
         /\ Length(x) = Apart(nread[x], nwrite[x]) /\ Length(x)' = Apart(nread'[x], nwrite'[x])
         /\ Full(x) <=> nwrite[x] = Ahead(nread[x], PIPESIZE)
         /\ Length(x) <= PIPESIZE
BY DEF PipeTypes, Counter, Length, Apart, Full, Ahead

\* The tests of piperead and pipewrite say how many bytes there are.
LEMMA LengthFacts ==
  ASSUME PipeTypes, NEW x \in Page
  PROVE  /\ Length(x) \in Nat /\ Length(x) <= PIPESIZE
         /\ Empty(x) <=> Length(x) = 0
         /\ Full(x) <=> Length(x) = PIPESIZE
<1>1. Counter \subseteq Nat
  BY DEF Counter
<1>2. /\ Length(x) \in Counter
      /\ nread[x] = nwrite[x] <=> Length(x) = 0
      /\ nwrite[x] = Ahead(nread[x], PIPESIZE) <=> Length(x) = PIPESIZE
  BY Counters, Between
<1>3. QED
  BY Zenon, <1>1, <1>2, Counters DEF Empty

\* Nothing fits into a full ring.
LEMMA FullFits ==
  ASSUME PipeTypes, NEW x \in Page, NEW k \in Nat, Full(x), Length(x) + k <= PIPESIZE
  PROVE  k = 0
BY LengthFacts, RingSize

\* There is nothing in an empty one.
LEMMA EmptyGives ==
  ASSUME PipeTypes, NEW x \in Page, NEW k \in Nat, Empty(x), k <= Length(x)
  PROVE  k = 0
BY LengthFacts

\* pipewrite moves nwrite.
LEMMA LengthGrows ==
  ASSUME PipeTypes, NEW x \in Page, NEW k \in Nat, Length(x) + k <= PIPESIZE,
         nread' = nread, nwrite' = [nwrite EXCEPT ![x] = (@ + k) % UINT]
  PROVE  /\ nwrite' \in [Page -> 0..(UINT - 1)] /\ Length(x)' = Length(x) + k
         /\ \A y \in Page : Length(y)' <= PIPESIZE
         /\ \A y \in Page : y # x => nwrite'[y] = nwrite[y]
         /\ k = 0 => nwrite'[x] = nwrite[x]
<1>1. /\ nwrite' = [nwrite EXCEPT ![x] = Ahead(nwrite[x], k)]
      /\ nwrite \in [Page -> Counter] /\ nread \in [Page -> Counter]
  BY DEF Ahead, PipeTypes, Counter
<1>2. /\ Ahead(nwrite[x], k) \in Counter
      /\ Apart(nread[x], Ahead(nwrite[x], k)) = Apart(nread[x], nwrite[x]) + k
      /\ k = 0 => Ahead(nwrite[x], k) = nwrite[x]
  BY Counters, Advanced
<1>3. /\ nwrite' \in [Page -> Counter] /\ nwrite'[x] = Ahead(nwrite[x], k)
      /\ \A y \in Page : y # x => nwrite'[y] = nwrite[y]
  BY <1>1, <1>2
<1>4. Length(x)' = Length(x) + k
  BY <1>2, <1>3, Counters
<1>5. \A y \in Page : Length(y)' <= PIPESIZE
  BY <1>3, <1>4, Counters
<1>6. QED
  BY <1>2, <1>3, <1>4, <1>5 DEF Counter

\* piperead moves nread.
LEMMA LengthShrinks ==
  ASSUME PipeTypes, NEW x \in Page, NEW k \in Nat, k <= Length(x),
         nwrite' = nwrite, nread' = [nread EXCEPT ![x] = (@ + k) % UINT]
  PROVE  /\ nread' \in [Page -> 0..(UINT - 1)] /\ Length(x)' = Length(x) - k
         /\ \A y \in Page : Length(y)' <= PIPESIZE
         /\ \A y \in Page : y # x => nread'[y] = nread[y]
         /\ k = 0 => nread'[x] = nread[x]
<1>1. /\ nread' = [nread EXCEPT ![x] = Ahead(nread[x], k)]
      /\ nwrite \in [Page -> Counter] /\ nread \in [Page -> Counter]
  BY DEF Ahead, PipeTypes, Counter
<1>2. /\ Ahead(nread[x], k) \in Counter
      /\ Apart(Ahead(nread[x], k), nwrite[x]) = Apart(nread[x], nwrite[x]) - k
      /\ k = 0 => Ahead(nread[x], k) = nread[x]
  BY Counters, Consumed
<1>3. /\ nread' \in [Page -> Counter] /\ nread'[x] = Ahead(nread[x], k)
      /\ \A y \in Page : y # x => nread'[y] = nread[y]
  BY <1>1, <1>2
<1>4. Length(x)' = Length(x) - k
  BY <1>2, <1>3, Counters
<1>5. \A y \in Page : Length(y)' <= PIPESIZE
  <2>1. \A y \in Page : y # x => Length(y)' = Length(y) /\ Length(y) <= PIPESIZE
    BY <1>3, Counters
  <2>2. Length(x)' <= PIPESIZE
    BY <1>4, LengthFacts, RingSize
  <2>3. QED
    BY <2>1, <2>2
<1>6. QED
  BY <1>2, <1>3, <1>4, <1>5 DEF Counter

\* A ring of PIPESIZE bytes passes the test for a full ring.
LEMMA FullPrimed ==
  ASSUME PipeTypes', NEW x \in Page, Length(x)' = PIPESIZE
  PROVE  Full(x)'
<1>1. nread'[x] \in Counter /\ nwrite'[x] \in Counter
  BY DEF PipeTypes, Counter
<1>2. Apart(nread'[x], nwrite'[x]) = PIPESIZE
  BY DEF Length, Apart
<1>3. nwrite'[x] = Ahead(nread'[x], PIPESIZE)
  BY <1>1, <1>2, Between
<1>4. QED
  BY <1>3 DEF Full, Ahead

\* The rest of the rest of a buffer.
LEMMA RestOfRest ==
  ASSUME NEW s \in Seq(Nat), NEW i \in 1..Len(s), NEW k \in Nat, k < Len(SubSeq(s, i, Len(s)))
  PROVE  /\ i + k \in 1..Len(s)
         /\ SubSeq(SubSeq(s, i, Len(s)), k + 1, Len(SubSeq(s, i, Len(s)))) = SubSeq(s, i + k, Len(s))
<1>1. Len(s) \in Nat /\ Len(SubSeq(s, i, Len(s))) = Len(s) - i + 1
  OBVIOUS
<1>2. i + k \in 1..Len(s)
  BY <1>1
<1>3. QED
  BY <1>1, <1>2

\* What pipewrite has left to write.
LEMMA RestFacts ==
  ASSUME NEW s \in Seq(Nat), NEW k \in Nat, k <= Len(s)
  PROVE  /\ SubSeq(s, k + 1, Len(s)) \in Seq(Nat)
         /\ SubSeq(s, k + 1, Len(s)) = <<>> <=> k = Len(s)
<1>1. Len(s) \in Nat
  OBVIOUS
<1>2. SubSeq(s, k + 1, Len(s)) \in Seq(Nat) /\ Len(SubSeq(s, k + 1, Len(s))) = Len(s) - k
  BY <1>1
<1>3. PICK r \in Seq(Nat) : r = SubSeq(s, k + 1, Len(s))
  BY Zenon, <1>2
<1>4. r = <<>> <=> Len(r) = 0
  OBVIOUS
<1>5. Len(r) = 0 <=> k = Len(s)
  BY <1>1, <1>2, <1>3
<1>6. QED
  BY <1>3, <1>4, <1>5

-----------------------------------------------------------------------------
(* Readers and writers *)

\* A process inside piperead or pipewrite has its end of the pipe open.
LEMMA CallerEnds ==
  ASSUME FilesInv, NEW p \in Process
  PROVE  /\ Reading(p) => arg[p].pipe \in Page /\ "r" \in open[arg[p].pipe]
         /\ Writing(p) => arg[p].pipe \in Page /\ "w" \in open[arg[p].pipe]
<1>1. Reading(p) \/ Writing(p) => arg[p].pipe \in Page
  BY DEF FilesInv, CallsHavePipes, Reading, Writing
<1>2. ASSUME NEW e \in {"r", "w"}, Through(p, e), arg[p].pipe \in Page PROVE e \in open[arg[p].pipe]
  <2>1. PICK f \in File : Refers(f, arg[p].pipe, e)
    BY <1>2 DEF Through
  <2>2. QED
    BY <1>2, <2>1, Zenon DEF FilesInv, EndsOpen
<1>3. QED
  BY <1>1, <1>2 DEF FilesInv, CallersHold

\* The smaller of two numbers.
LEMMA MinTwo ==
  ASSUME NEW a \in Nat, NEW b \in Nat
  PROVE  Min({a, b}) = IF a <= b THEN a ELSE b
BY DEF Min

\* The rings hold bytes.
Rings == ring \in [Page -> [0..(PIPESIZE - 1) -> Nat]]

\* What pipewrite does to pipe x, when it puts k bytes there.
Wrote(p, x, k) ==
  /\ at[p] = "write" /\ lock[x] = Null
  /\ k <= Len(arg[p].buf) /\ Length(x) + k <= PIPESIZE
  /\ k < Len(arg[p].buf) => Length(x) + k = PIPESIZE
  /\ ring' = [ring EXCEPT ![x] = Stored(x, arg[p].buf, k)]
  /\ nwrite' = [nwrite EXCEPT ![x] = (@ + k) % UINT]
  /\ UNCHANGED <<files, page, nread, open, killed, out>>

\* It returns, fails or waits.
Returns(p, x) ==
  /\ at' = [WakeReaders(at, x) EXCEPT ![p] = "run"] /\ arg' = [arg EXCEPT ![p] = None]
  /\ cut' = cut \ {x} /\ lock' = lock

Fails(p, x) ==
  /\ at' = [at EXCEPT ![p] = "run"] /\ arg' = [arg EXCEPT ![p] = None]
  /\ cut' = cut \cup {x} /\ lock' = lock

Stops(p, x, k) ==
  /\ k < Len(arg[p].buf) /\ "r" \in open[x]
  /\ at' = [WakeReaders(at, x) EXCEPT ![p] = "wblock"]
  /\ arg' = [arg EXCEPT ![p].buf = SubSeq(arg[p].buf, k + 1, Len(arg[p].buf))]
  /\ cut' = cut \ {x} /\ lock' = [lock EXCEPT ![x] = p]

\* pipewrite puts some bytes into the ring, and then returns, fails or waits.
LEMMA WriteDoes ==
  ASSUME FInv, NEW p \in Process, Write(p), NEW x \in Page, x = arg[p].pipe
  PROVE  \E k \in Nat : Wrote(p, x, k) /\ (Returns(p, x) \/ Fails(p, x) \/ Stops(p, x, k))
<1>1. Length(x) \in Nat /\ Length(x) <= PIPESIZE /\ arg[p].buf \in Seq(Nat) /\ Len(arg[p].buf) \in Nat
  BY LengthFacts DEF FInv, ProcTypes, Args
<1>2. Room(x) \in Nat /\ Room(x) = PIPESIZE - Length(x)
  BY <1>1, RingSize DEF Room
<1>3. PICK k \in Nat : k = Min({Len(arg[p].buf), Room(x)})
  BY <1>1, <1>2, MinTwo
<1>4. k = IF Len(arg[p].buf) <= Room(x) THEN Len(arg[p].buf) ELSE Room(x)
  BY Zenon, <1>1, <1>2, <1>3, MinTwo
<1>5. /\ k <= Len(arg[p].buf) /\ Length(x) + k <= PIPESIZE
      /\ k < Len(arg[p].buf) => Length(x) + k = PIPESIZE
  BY SMTT(30), <1>1, <1>2, <1>4, RingSize
<1>6. Wrote(p, x, k)
  BY <1>3, <1>5 DEF Wrote, Write
<1>7. SubSeq(arg[p].buf, k + 1, Len(arg[p].buf)) # <<>> => k < Len(arg[p].buf)
  BY SMTT(30), <1>1, <1>5, RestFacts
<1>8. Returns(p, x) \/ Fails(p, x) \/ Stops(p, x, k)
  BY Zenon, <1>3, <1>7 DEF Write, Returns, Fails, Stops
<1>9. QED
  BY <1>6, <1>8

\* The types of the pipes after a write.
LEMMA WrotePipes ==
  ASSUME FInv, NEW p \in Process, NEW x \in Page, NEW k \in Nat, Wrote(p, x, k),
         cut' \subseteq Page, Rings', lock' \in [Page -> Process \cup {Null}]
  PROVE  /\ PipeTypes' /\ Length(x)' = Length(x) + k
         /\ \A y \in Page : y # x => nwrite'[y] = nwrite[y]
         /\ k = 0 => nwrite'[x] = nwrite[x]
<1>1. PipeTypes /\ arg[p].buf \in Seq(Nat)
  BY DEF FInv, ProcTypes, Args
<1>2. /\ k <= Len(arg[p].buf) /\ Length(x) + k <= PIPESIZE
      /\ nread' = nread /\ nwrite' = [nwrite EXCEPT ![x] = (@ + k) % UINT]
      /\ ring' = [ring EXCEPT ![x] = Stored(x, arg[p].buf, k)] /\ page' = page /\ open' = open
  BY DEF Wrote
<1>3. /\ nwrite' \in [Page -> 0..(UINT - 1)] /\ Length(x)' = Length(x) + k
      /\ \A y \in Page : Length(y)' <= PIPESIZE
      /\ \A y \in Page : y # x => nwrite'[y] = nwrite[y]
      /\ k = 0 => nwrite'[x] = nwrite[x]
  BY Zenon, <1>1, <1>2, LengthGrows
<1>6. PipeTypes'
  BY <1>1, <1>2, <1>3 DEF PipeTypes, Rings
<1>7. QED
  BY <1>3, <1>6

-----------------------------------------------------------------------------
(* Waiting *)

\* A process that waits after a step has waited before, for what still is the case.
Waits(q) == at[q] \in {"rblock", "wblock", "rsleep", "wsleep"}

Kept(q) ==
  Waits(q)' =>
    LET x == arg[q].pipe IN
      /\ at'[q] = at[q] /\ arg'[q].pipe = x
      /\ nread'[x] = nread[x] /\ nwrite'[x] = nwrite[x]
      /\ at[q] \in {"rblock", "rsleep"} => ("w" \in open[x] => "w" \in open'[x])
      /\ at[q] \in {"wblock", "wsleep"} => ("r" \in open[x] => "r" \in open'[x])
      /\ at[q] = "rsleep" => (x \in cut => x \in cut')

\* What a process waits for is the case.
Justified(q) ==
  LET x == arg[q].pipe IN
    /\ at[q] \in {"wblock", "wsleep"} => Full(x) /\ "r" \in open[x]
    /\ at[q] = "rblock" => Empty(x) /\ "w" \in open[x]
    /\ at[q] = "rsleep" => (Empty(x) /\ "w" \in open[x]) \/ x \in cut

\* What every process may wait for, one process at a time.
LEMMA JustifiedAll ==
  /\ TestHolds /\ SleepJustified <=> \A q \in Process : Justified(q)
  /\ (TestHolds /\ SleepJustified)' <=> \A q \in Process : Justified(q)'
BY DEF TestHolds, SleepJustified, Justified

\* A process that waited before the step still waits for good reason.
LEMMA JustifiedFrame ==
  ASSUME NEW q \in Process, Justified(q), Kept(q)
  PROVE  Justified(q)'
<1>1. CASE Waits(q)'
  <2> DEFINE x == arg[q].pipe
  <2>1. /\ at'[q] = at[q] /\ arg'[q].pipe = x
        /\ nread'[x] = nread[x] /\ nwrite'[x] = nwrite[x]
    BY <1>1 DEF Kept
  <2>2. (Full(x)' <=> Full(x)) /\ (Empty(x)' <=> Empty(x))
    BY <2>1 DEF Full, Empty
  <2>3. /\ at[q] \in {"rblock", "rsleep"} => ("w" \in open[x] => "w" \in open'[x])
        /\ at[q] \in {"wblock", "wsleep"} => ("r" \in open[x] => "r" \in open'[x])
        /\ at[q] = "rsleep" => (x \in cut => x \in cut')
    BY <1>1 DEF Kept
  <2>4. (Full(arg[q].pipe)' <=> Full(x)) /\ (Empty(arg[q].pipe)' <=> Empty(x))
    BY <2>1, <2>2 DEF Full, Empty
  <2> HIDE DEF x
  <2>5. QED
    BY <2>1, <2>3, <2>4 DEF Justified, x
<1>2. CASE ~Waits(q)'
  BY <1>2 DEF Waits, Justified
<1>3. QED
  BY <1>1, <1>2

\* A process keeps the lock, and what it reads or writes.
Steady(q) ==
  /\ Blocked(q)' <=> Blocked(q)
  /\ Writing(q)' => arg'[q].buf \in Bufs \/ (Writing(q) /\ arg'[q].buf = arg[q].buf)
  /\ Reading(q)' => arg'[q].n \in Lengths \/ (Reading(q) /\ arg'[q].n = arg[q].n)

\* Locks stay with their holders when nobody takes or releases one.
LEMMA LockFrame ==
  ASSUME LockHeld, HasLock, PipeTypes, lock' = lock,
         \A q \in Process : Blocked(q)' <=> Blocked(q),
         \A q \in Process : Blocked(q) => arg'[q].pipe = arg[q].pipe
  PROVE  LockHeld' /\ HasLock'
<1>1. \A x \in Page : lock[x] # Null => lock[x] \in Process
  BY DEF PipeTypes
<1>2. LockHeld'
  BY <1>1, Zenon DEF LockHeld
<1>3. HasLock'
  BY Zenon DEF HasLock
<1>4. QED
  BY <1>2, <1>3

\* A whole buffer is the end of itself.
LEMMA Whole ==
  ASSUME NEW buf \in Bufs
  PROVE  Len(buf) \in Nat \ {0} /\ SubSeq(buf, 1, Len(buf)) = buf
<1>1. buf \in Seq(Nat) /\ buf # <<>>
  BY PipeConstants
<1>2. Len(buf) \in Nat
  BY <1>1
<1>3. Len(buf) # 0
  BY <1>1
<1>4. SubSeq(buf, 1, Len(buf)) = buf
  BY <1>1, <1>2
<1>5. QED
  BY <1>2, <1>3, <1>4

\* Writers keep what they still have to write, or start with a whole buffer.
LEMMA RemainingFrame ==
  ASSUME Remaining, \A q \in Process : Steady(q)
  PROVE  Remaining'
<1>1. SUFFICES ASSUME NEW q \in Process, Writing(q)'
      PROVE \E buf \in Bufs : \E i \in 1..Len(buf) : arg'[q].buf = SubSeq(buf, i, Len(buf))
  BY DEF Remaining
<1>2. CASE arg'[q].buf \in Bufs
  <2>1. PICK buf \in Bufs : arg'[q].buf = buf
    BY <1>2
  <2>2. 1 \in 1..Len(buf) /\ SubSeq(buf, 1, Len(buf)) = buf
    BY Whole
  <2>3. QED
    BY <2>1, <2>2
<1>3. CASE Writing(q) /\ arg'[q].buf = arg[q].buf
  BY <1>3, Zenon DEF Remaining
<1>4. QED
  BY <1>1, <1>2, <1>3 DEF Steady

\* A step after which everybody who waits has waited before.
LEMMA WaitFrame ==
  ASSUME WaitInv, PipeTypes, lock' = lock, \A q \in Process : Kept(q) /\ Steady(q)
  PROVE  WaitInv'
<1>1. LockHeld' /\ HasLock'
  <2>1. \A q \in Process : Blocked(q)' <=> Blocked(q)
    BY DEF Steady
  <2>2. \A q \in Process : Blocked(q) => arg'[q].pipe = arg[q].pipe
    BY <2>1 DEF Kept, Blocked, Waits
  <2>3. QED
    BY <2>1, <2>2, LockFrame DEF WaitInv
<1>2. TestHolds' /\ SleepJustified'
  BY JustifiedAll, JustifiedFrame DEF WaitInv
<1>3. Remaining'
  BY RemainingFrame DEF WaitInv
<1>4. Asked'
  BY Zenon DEF WaitInv, Asked, Steady
<1>5. QED
  BY <1>1, <1>2, <1>3, <1>4 DEF WaitInv

\* A step that leaves the pipes alone.
LEMMA PipesFrame ==
  ASSUME PipeTypes, UNCHANGED <<pipes, cut>>
  PROVE  PipeTypes' /\ lock' = lock
<1>1. /\ page' = page /\ ring' = ring /\ nread' = nread /\ nwrite' = nwrite
      /\ open' = open /\ lock' = lock /\ cut' = cut
  BY DEF pipes
<1>2. QED
  BY <1>1 DEF PipeTypes, Length

\* The step of a process that does not wait.
Calm(q) ==
  \/ at'[q] = at[q] /\ arg'[q] = arg[q]
  \/ /\ ~Waits(q)' /\ ~Blocked(q)
     /\ Writing(q)' => arg'[q].buf \in Bufs \/ (Writing(q) /\ arg'[q].buf = arg[q].buf)
     /\ Reading(q)' => arg'[q].n \in Lengths \/ (Reading(q) /\ arg'[q].n = arg[q].n)

\* A step that nobody who waits notices.
LEMMA WaitCalm ==
  ASSUME PipeTypes, WaitInv, UNCHANGED <<pipes, cut>>, \A q \in Process : Calm(q)
  PROVE  PipeTypes' /\ WaitInv'
<1>1. PipeTypes' /\ lock' = lock
  BY PipesFrame
<1>2. nread' = nread /\ nwrite' = nwrite /\ open' = open /\ cut' = cut
  BY DEF pipes
<1>3. \A q \in Process : Kept(q)
  BY <1>2 DEF Calm, Kept, Waits
<1>4. \A q \in Process : Steady(q)
  BY DEF Calm, Steady, Waits, Blocked, Reading, Writing
<1>5. QED
  BY <1>1, <1>3, <1>4, WaitFrame

-----------------------------------------------------------------------------
(* Processes *)

\* A step that leaves files and ends alone.
LEMMA FilesFrame ==
  ASSUME FilesInv, UNCHANGED files, open' = open, page' = page,
         \A p \in Process : /\ at'[p] = "close" <=> at[p] = "close"
                            /\ at[p] = "close" => arg'[p] = arg[p],
         \A p \in Process : at'[p] = "none" => \A d \in Fd : ofile[p][d] = 0,
         \A p \in Process : at'[p] \notin {"none", "run", "exit"} => arg'[p].pipe \in Page,
         \A p \in Process :
           /\ Reading(p)' => Through(p, "r")' \/ (Reading(p) /\ arg'[p].pipe = arg[p].pipe)
           /\ Writing(p)' => Through(p, "w")' \/ (Writing(p) /\ arg'[p].pipe = arg[p].pipe)
  PROVE  FilesInv'
<1>1. ref' = ref /\ target' = target /\ writable' = writable /\ ofile' = ofile
  BY DEF files
<1>2. FileTypes' /\ FilesHavePipes' /\ SlotsEmpty' /\ CallsHavePipes'
  BY <1>1, Zenon DEF FilesInv, FileTypes, FilesHavePipes, SlotsEmpty, CallsHavePipes
<1>3. RefCounts'
  BY <1>1 DEF FilesInv, RefCounts, Holders
<1>4. /\ OneOwner' /\ EndsOpen' /\ Allocated'
      /\ \A f \in File : \A x, e : Refers(f, x, e)' <=> Refers(f, x, e)
  <2>1. \A f \in File : \A x, e : Refers(f, x, e)' <=> Refers(f, x, e)
    BY <1>1 DEF Refers
  <2>2. \A p \in Process : \A x, e : Closes(p, x, e)' <=> Closes(p, x, e)
    BY DEF Closes, ClosedEnd
  <2>3. OneOwner'
    BY <2>1, <2>2, ZenonT(30) DEF FilesInv, OneOwner
  <2>4. EndsOpen'
    BY <2>1, <2>2, Zenon DEF FilesInv, EndsOpen
  <2>5. Allocated'
    BY DEF FilesInv, Allocated
  <2>6. QED
    BY <2>1, <2>3, <2>4, <2>5
<1>5. CallersHold'
  BY <1>1, <1>4, Zenon DEF FilesInv, CallersHold, Through
<1>6. QED
  BY <1>2, <1>3, <1>4, <1>5 DEF FilesInv

\* A process runs or exits, and the others go on as before.
LEMMA OthersFiles ==
  ASSUME FInv, NEW p \in Process, UNCHANGED files, open' = open, page' = page,
         at[p] # "close", at'[p] \in {"none", "run", "exit"},
         at'[p] = "none" => \A d \in Fd : ofile[p][d] = 0,
         \A q \in Process : q # p =>
           /\ arg'[q] = arg[q]
           /\ \/ at'[q] = at[q]
              \/ at[q] = "rsleep" /\ at'[q] = "read"
              \/ at[q] = "wsleep" /\ at'[q] = "write"
  PROVE  FilesInv'
<1>1. \A q \in Process : /\ at'[q] = "close" <=> at[q] = "close"
                         /\ at[q] = "close" => arg'[q] = arg[q]
  OBVIOUS
<1>2. \A q \in Process : at'[q] = "none" => \A d \in Fd : ofile[q][d] = 0
  BY DEF FInv, FilesInv, SlotsEmpty
<1>3. \A q \in Process : at'[q] \notin {"none", "run", "exit"} => arg'[q].pipe \in Page
  BY DEF FInv, FilesInv, CallsHavePipes
<1>4. \A q \in Process :
        /\ Reading(q)' => Through(q, "r")' \/ (Reading(q) /\ arg'[q].pipe = arg[q].pipe)
        /\ Writing(q)' => Through(q, "w")' \/ (Writing(q) /\ arg'[q].pipe = arg[q].pipe)
  BY DEF Reading, Writing
<1>5. QED
  BY <1>1, <1>2, <1>3, <1>4, FilesFrame DEF FInv

\* fork keeps the invariant.
LEMMA ForkInv ==
  ASSUME FInv, NEW p \in Process, Fork(p), FilesInv'
  PROVE  FInv'
<1>2. /\ arg' = arg /\ killed' = killed /\ UNCHANGED <<pipes, cut>>
      /\ \E q \in Process : at[q] = "none" /\ at' = [at EXCEPT ![q] = "run"]
  BY Zenon DEF Fork
<1>3. ProcTypes'
  BY <1>2 DEF FInv, ProcTypes, Places
<1>4. \A q \in Process : Calm(q)
  BY <1>2 DEF FInv, ProcTypes, Calm, Waits, Blocked, Reading, Writing
<1>5. QED
  BY <1>2, <1>3, <1>4, WaitCalm DEF FInv

\* kill keeps the invariant.
LEMMA KillInv ==
  ASSUME FInv, NEW p \in Process, Kill(p)
  PROVE  FInv'
<1>1. /\ UNCHANGED <<files, pipes, arg, out, cut>>
      /\ at' \in [Process -> Places] /\ killed' \in [Process -> BOOLEAN]
      /\ \A q \in Process : \/ at'[q] = at[q]
                            \/ at[q] = "rsleep" /\ at'[q] = "read"
                            \/ at[q] = "wsleep" /\ at'[q] = "write"
  BY DEF Kill, FInv, ProcTypes, Places
<1>2. ProcTypes'
  BY <1>1 DEF FInv, ProcTypes
<1>3. \A q \in Process : Calm(q)
  BY <1>1 DEF Calm, Waits, Blocked, Reading, Writing
<1>4. PipeTypes' /\ WaitInv'
  BY <1>1, <1>3, WaitCalm DEF FInv
<1>5. FilesInv'
  <2>1. \A q \in Process : /\ at'[q] = "close" <=> at[q] = "close"
                           /\ at[q] = "close" => arg'[q] = arg[q]
    BY <1>1
  <2>2. \A q \in Process : at'[q] = "none" => \A d \in Fd : ofile[q][d] = 0
    BY <1>1 DEF FInv, FilesInv, SlotsEmpty
  <2>3. \A q \in Process : at'[q] \notin {"none", "run", "exit"} => arg'[q].pipe \in Page
    BY <1>1 DEF FInv, FilesInv, CallsHavePipes
  <2>4. \A q \in Process :
          /\ Reading(q)' => Through(q, "r")' \/ (Reading(q) /\ arg'[q].pipe = arg[q].pipe)
          /\ Writing(q)' => Through(q, "w")' \/ (Writing(q) /\ arg'[q].pipe = arg[q].pipe)
    BY <1>1 DEF Reading, Writing
  <2>5. UNCHANGED files /\ open' = open /\ page' = page
    BY <1>1 DEF pipes
  <2>6. QED
    BY <2>1, <2>2, <2>3, <2>4, <2>5, FilesFrame DEF FInv
<1>6. QED
  BY <1>2, <1>4, <1>5 DEF FInv

\* The first step of exit keeps the invariant.
LEMMA ExitInv ==
  ASSUME FInv, NEW p \in Process, Exit(p)
  PROVE  FInv'
<1>1. /\ at[p] = "run" /\ at' = [at EXCEPT ![p] = "exit"]
      /\ arg' = [arg EXCEPT ![p].mode = "exit"]
      /\ UNCHANGED <<files, pipes, killed, out, cut>>
  BY DEF Exit
<1>2. at' \in [Process -> Places] /\ at'[p] = "exit" /\ \A q \in Process : q # p => at'[q] = at[q]
  BY <1>1 DEF FInv, ProcTypes, Places
<1>3. arg' \in [Process -> Args] /\ \A q \in Process : q # p => arg'[q] = arg[q]
  <2>1. PICK a \in Args : a = arg[p]
    BY DEF FInv, ProcTypes
  <2>2. [a EXCEPT !.mode = "exit"] \in Args
    BY DEF Args
  <2>3. arg' = [arg EXCEPT ![p] = [a EXCEPT !.mode = "exit"]]
    BY <1>1, <2>1
  <2>4. QED
    BY <2>2, <2>3 DEF FInv, ProcTypes
<1>4. ProcTypes'
  BY <1>1, <1>2, <1>3 DEF FInv, ProcTypes
<1>5. \A q \in Process : Calm(q)
  BY <1>1, <1>2, <1>3 DEF Calm, Waits, Blocked, Reading, Writing
<1>6. PipeTypes' /\ WaitInv'
  BY <1>1, <1>5, WaitCalm DEF FInv
<1>7. FilesInv'
  BY <1>1, <1>2, <1>3, OthersFiles DEF pipes
<1>8. QED
  BY <1>4, <1>6, <1>7 DEF FInv

\* The argument of a process without a call.
LEMMA NoneTyped == None \in Args
BY DEF None, Args

\* The last step of exit keeps the invariant.
LEMMA ExitDoneInv ==
  ASSUME FInv, NEW p \in Process, ExitDone(p)
  PROVE  FInv'
<1>1. /\ at[p] = "exit" /\ \A d \in Fd : ofile[p][d] = 0
      /\ UNCHANGED <<files, pipes, out, cut>>
  BY DEF ExitDone
<1>2. at' \in [Process -> Places] /\ at'[p] = "none" /\ \A q \in Process : q # p => at'[q] = at[q]
  BY DEF ExitDone, FInv, ProcTypes, Places
<1>3. arg' \in [Process -> Args] /\ \A q \in Process : q # p => arg'[q] = arg[q]
  BY NoneTyped DEF ExitDone, FInv, ProcTypes
<1>4. killed' \in [Process -> BOOLEAN]
  BY DEF ExitDone, FInv, ProcTypes
<1>5. ProcTypes'
  BY <1>2, <1>3, <1>4 DEF ProcTypes
<1>6. \A q \in Process : Calm(q)
  BY <1>1, <1>2, <1>3 DEF Calm, Waits, Blocked, Reading, Writing
<1>7. PipeTypes' /\ WaitInv'
  BY <1>1, <1>6, WaitCalm DEF FInv
<1>8. FilesInv'
  BY <1>1, <1>2, <1>3, OthersFiles DEF pipes
<1>9. QED
  BY <1>5, <1>7, <1>8 DEF FInv

-----------------------------------------------------------------------------
(* Descriptors and files *)

\* A new pipe is nobody's who waits.
LEMMA NewPipe ==
  ASSUME FilesInv, NEW q \in Process, Waits(q), NEW x, x \notin page
  PROVE  arg[q].pipe # x /\ arg[q].pipe \in Page
<1>1. Reading(q) \/ Writing(q)
  BY DEF Waits, Reading, Writing
<1>2. arg[q].pipe \in Page /\ open[arg[q].pipe] # {}
  BY <1>1, CallerEnds
<1>3. QED
  BY <1>2 DEF FilesInv, Allocated

\* sys_dup keeps the invariant.
LEMMA DupInv ==
  ASSUME FInv, NEW p \in Process, Dup(p), FilesInv'
  PROVE  FInv'
<1>2. UNCHANGED <<pipes, procs, cut>>
  BY DEF Dup
<1>3. at' = at /\ arg' = arg /\ killed' = killed
  BY <1>2 DEF procs
<1>4. ProcTypes'
  BY <1>3 DEF FInv, ProcTypes
<1>5. \A q \in Process : Calm(q)
  BY <1>3 DEF Calm
<1>6. QED
  BY <1>2, <1>4, <1>5, WaitCalm DEF FInv

\* The arguments of a call are set or reset.
LEMMA ArgSet ==
  ASSUME arg \in [Process -> Args], NEW p \in Process, NEW x \in Page \cup {Null}, NEW n \in Nat,
         arg' = [arg EXCEPT ![p].pipe = x, ![p].n = n]
  PROVE  /\ arg' \in [Process -> Args] /\ arg'[p].pipe = x /\ arg'[p].n = n
         /\ arg'[p].buf = arg[p].buf /\ arg'[p].mode = arg[p].mode
         /\ \A q \in Process : q # p => arg'[q] = arg[q]
<1>1. PICK a \in Args : a = arg[p]
  OBVIOUS
<1>2. /\ [a EXCEPT !.pipe = x, !.n = n] \in Args
      /\ [a EXCEPT !.pipe = x, !.n = n].pipe = x /\ [a EXCEPT !.pipe = x, !.n = n].n = n
      /\ [a EXCEPT !.pipe = x, !.n = n].buf = a.buf /\ [a EXCEPT !.pipe = x, !.n = n].mode = a.mode
  BY Zenon DEF Args
<1>3. arg' = [arg EXCEPT ![p] = [a EXCEPT !.pipe = x, !.n = n]]
  BY Zenon, <1>1
<1>4. QED
  BY <1>1, <1>2, <1>3

\* fileclose keeps the invariant.
LEMMA FileCloseInv ==
  ASSUME FInv, NEW p \in Process, NEW d \in Fd, ofile[p][d] # 0,
         at[p] \in {"run", "exit"}, FileClose(p, d), FilesInv'
  PROVE  FInv'
<1>2. PICK g \in File : g = ofile[p][d]
  BY DEF FInv, FilesInv, FileTypes
<1>3. UNCHANGED <<pipes, killed, cut>>
  BY DEF FileClose
<1>4. /\ at' \in [Process -> Places] /\ arg' \in [Process -> Args]
      /\ at'[p] \in {"run", "exit", "close"}
      /\ \A q \in Process : q # p => at'[q] = at[q] /\ arg'[q] = arg[q]
  <2>1. CASE ref[g] > 1
    BY <1>2, <2>1 DEF FileClose, FInv, ProcTypes
  <2>2. CASE ~(ref[g] > 1)
    <3>1. /\ at' = [at EXCEPT ![p] = "close"]
          /\ arg' = [arg EXCEPT ![p].pipe = target[g], ![p].n = IF writable[g] THEN 1 ELSE 0]
      BY <1>2, <2>2 DEF FileClose
    <3>2. /\ target[g] \in Page \cup {Null} /\ (IF writable[g] THEN 1 ELSE 0) \in Nat
          /\ arg \in [Process -> Args] /\ at \in [Process -> Places]
      BY Zenon DEF FInv, FilesInv, FileTypes, ProcTypes
    <3>3. arg' \in [Process -> Args] /\ \A q \in Process : q # p => arg'[q] = arg[q]
      BY Zenon, <3>1, <3>2, ArgSet
    <3>4. QED
      BY <3>1, <3>2, <3>3 DEF Places
  <2>3. QED
    BY <2>1, <2>2
<1>5. ProcTypes'
  BY <1>3, <1>4 DEF FInv, ProcTypes
<1>6. \A q \in Process : Calm(q)
  BY <1>4 DEF Calm, Waits, Blocked, Reading, Writing
<1>7. QED
  BY <1>3, <1>5, <1>6, WaitCalm DEF FInv

\* sys_pipe keeps the invariant.
LEMMA SysPipeInv ==
  ASSUME FInv, NEW p \in Process, SysPipe(p), FilesInv'
  PROVE  FInv'
<1>2. PICK x \in Page : x \notin page /\ \E f0, f1 : PipeAlloc(x, f0, f1)
  BY DEF SysPipe
<1>3. at' = at /\ arg' = arg /\ killed' = killed /\ ring' = ring /\ lock' = lock
  BY DEF SysPipe, procs
<1>4. /\ page' = page \cup {x} /\ open' = [open EXCEPT ![x] = {"r", "w"}]
      /\ nread' = [nread EXCEPT ![x] = 0] /\ nwrite' = [nwrite EXCEPT ![x] = 0]
      /\ cut' = cut \ {x}
  BY <1>2 DEF PipeAlloc
<1>5. PipeTypes'
  <2>1. UINT \in Nat /\ UINT > 0 /\ PIPESIZE \in Nat
    BY PipeConstants
  <2>2. /\ page' \subseteq Page /\ cut' \subseteq Page /\ lock' \in [Page -> Process \cup {Null}]
        /\ ring' \in [Page -> [0..(PIPESIZE - 1) -> Nat]]
        /\ open' \in [Page -> SUBSET {"r", "w"}]
    BY <1>3, <1>4 DEF FInv, PipeTypes
  <2>3. nread' \in [Page -> 0..(UINT - 1)] /\ nwrite' \in [Page -> 0..(UINT - 1)]
    BY <1>4, <2>1 DEF FInv, PipeTypes
  <2>4. ASSUME NEW y \in Page PROVE Length(y)' <= PIPESIZE
    <3>1. CASE y = x
      <4>1. nread'[y] = 0 /\ nwrite'[y] = 0
        BY <1>4, <3>1 DEF FInv, PipeTypes
      <4>2. (0 + UINT - 0) % UINT = 0
        BY <2>1
      <4>3. QED
        BY <2>1, <4>1, <4>2 DEF Length
    <3>2. CASE y # x
      BY <1>4, <3>2 DEF FInv, PipeTypes, Length
    <3>3. QED
      BY <3>1, <3>2
  <2>5. QED
    BY <2>2, <2>3, <2>4 DEF PipeTypes
<1>6. ProcTypes'
  BY <1>3 DEF FInv, ProcTypes
<1>7. ASSUME NEW q \in Process PROVE Kept(q) /\ Steady(q)
  <2>1. Steady(q)
    BY <1>3 DEF Steady, Blocked, Reading, Writing
  <2>2. CASE Waits(q)
    <3>1. arg[q].pipe # x /\ arg[q].pipe \in Page
      BY Zenon, <1>2, <2>2, NewPipe DEF FInv
    <3>2. QED
      BY <1>3, <1>4, <2>1, <3>1 DEF Kept, FInv, PipeTypes
  <2>3. CASE ~Waits(q)
    BY Zenon, <1>3, <2>1, <2>3 DEF Kept, Waits
  <2>4. QED
    BY <2>2, <2>3
<1>8. QED
  BY <1>3, <1>5, <1>6, <1>7, WaitFrame DEF FInv

\* What pipeclose does, without its LETs.
LEMMA PipeCloseDoes ==
  ASSUME ProcTypes, PipeTypes, NEW p \in Process, PipeClose(p),
         NEW x \in Page, x = arg[p].pipe, NEW e \in {"r", "w"}, e = ClosedEnd(p)
  PROVE  PipeClosed(p, x, e)
<1>1. /\ at[p] = "close" /\ lock[x] = Null /\ open' = [open EXCEPT ![x] = @ \ {e}]
      /\ page' = IF open[x] \ {e} = {} THEN page \ {x} ELSE page
      /\ at' = [(IF e = "w" THEN WakeReaders(at, x) ELSE WakeWriters(at, x)) EXCEPT ![p] = arg[p].mode]
      /\ arg' = [arg EXCEPT ![p].pipe = Null, ![p].n = 0]
      /\ cut' = IF e = "w" THEN cut \ {x} ELSE cut
      /\ UNCHANGED <<files, ring, nread, nwrite, lock, killed, out>>
  BY DEF PipeClose, Freed
<1>2. /\ open' \in [Page -> SUBSET {"r", "w"}]
      /\ \A y \in Page : open'[y] = IF y = x THEN open[x] \ {e} ELSE open[y]
  BY Zenon, <1>1 DEF PipeTypes
<1>3. arg' \in [Process -> Args] /\ \A q \in Process : q # p => arg'[q] = arg[q]
  BY Zenon, <1>1, ArgSet DEF ProcTypes
<1>4. arg[p].mode \in {"run", "exit"}
  BY DEF ProcTypes, Args
<1>5. /\ at' \in [Process -> Places] /\ at'[p] \in {"run", "exit"}
      /\ \A q \in Process : q # p =>
           at'[q] = IF e = "w" /\ at[q] = "rsleep" /\ arg[q].pipe = x THEN "read"
                    ELSE IF e = "r" /\ at[q] = "wsleep" /\ arg[q].pipe = x THEN "write"
                    ELSE at[q]
  <2>1. CASE e = "w"
    <3>1. at' = [WakeReaders(at, x) EXCEPT ![p] = arg[p].mode]
      BY <1>1, <2>1
    <3>2. QED
      BY <1>4, <2>1, <3>1 DEF ProcTypes, WakeReaders, Places
  <2>2. CASE e = "r"
    <3>1. at' = [WakeWriters(at, x) EXCEPT ![p] = arg[p].mode]
      BY <1>1, <2>2
    <3>2. QED
      BY <1>4, <2>2, <3>1 DEF ProcTypes, WakeWriters, Places
  <2>3. QED
    BY <2>1, <2>2
<1>6. QED
  BY <1>1, <1>2, <1>3, <1>5 DEF PipeClosed

\* pipeclose keeps the invariant.
LEMMA PipeCloseInv ==
  ASSUME FInv, NEW p \in Process, NEW x \in Page, NEW e \in {"r", "w"}, PipeClosed(p, x, e), FilesInv'
  PROVE  FInv'
<1>3. PipeClosed(p, x, e)
  OBVIOUS
<1>5. ring' = ring /\ nread' = nread /\ nwrite' = nwrite /\ lock' = lock /\ killed' = killed
  BY <1>3 DEF PipeClosed
<1>6. PipeTypes'
  <2>1. page' \subseteq Page /\ cut' \subseteq Page /\ open' \in [Page -> SUBSET {"r", "w"}]
    BY Zenon, <1>3 DEF PipeClosed, FInv, PipeTypes
  <2>2. QED
    BY Zenon, <1>5, <2>1 DEF FInv, PipeTypes, Length
<1>7. ProcTypes'
  BY <1>3, <1>5 DEF PipeClosed, FInv, ProcTypes
<1>8. \A q \in Process : arg[q].pipe = x => ~Blocked(q)
  <2>1. lock[x] = Null
    BY Zenon, <1>3 DEF PipeClosed
  <2>2. QED
    BY Zenon, <2>1, PipeConstants DEF FInv, WaitInv, HasLock
<1>9. ASSUME NEW q \in Process PROVE Kept(q) /\ Steady(q)
  <2>1. CASE q = p
    <3>1. at[p] = "close" /\ at'[p] \in {"run", "exit"}
      BY Zenon, <1>3 DEF PipeClosed
    <3>2. QED
      BY <2>1, <3>1 DEF Kept, Waits, Steady, Blocked, Reading, Writing
  <2>2. CASE q # p
    <3>1. /\ arg'[q] = arg[q]
          /\ at'[q] = IF e = "w" /\ at[q] = "rsleep" /\ arg[q].pipe = x THEN "read"
                      ELSE IF e = "r" /\ at[q] = "wsleep" /\ arg[q].pipe = x THEN "write"
                      ELSE at[q]
          /\ cut' = IF e = "w" THEN cut \ {x} ELSE cut
          /\ \A y \in Page : open'[y] = IF y = x THEN open[x] \ {e} ELSE open[y]
      BY Zenon, <1>3, <2>2 DEF PipeClosed
    <3>2. Steady(q)
      BY <3>1 DEF Steady, Blocked, Reading, Writing
    <3>3. Waits(q) => arg[q].pipe \in Page
      BY DEF FInv, FilesInv, CallsHavePipes, Waits
    <3>4. CASE arg[q].pipe = x
      BY Zenon, <1>5, <1>8, <3>1, <3>2, <3>4 DEF Kept, Waits, Blocked
    <3>5. CASE arg[q].pipe # x
      BY Zenon, <1>5, <3>1, <3>2, <3>3, <3>5 DEF Kept, Waits
    <3>6. QED
      BY <3>4, <3>5
  <2>3. QED
    BY <2>1, <2>2
<1>10. QED
  BY <1>5, <1>6, <1>7, <1>9, WaitFrame DEF FInv

\* A process goes on inside piperead or pipewrite.
Others(p) ==
  \A q \in Process : q # p =>
    /\ arg'[q] = arg[q]
    /\ \/ at'[q] = at[q]
       \/ at[q] = "rsleep" /\ at'[q] = "read"
       \/ at[q] = "wsleep" /\ at'[q] = "write"

\* A process starts, continues or ends a call; files and ends stay.
LEMMA CallerFiles ==
  ASSUME FInv, NEW p \in Process, UNCHANGED files, open' = open, page' = page, Others(p),
         at[p] # "close", at'[p] \notin {"none", "close"}, arg'[p].pipe \in Page,
         Reading(p)' => Through(p, "r")' \/ (Reading(p) /\ arg'[p].pipe = arg[p].pipe),
         Writing(p)' => Through(p, "w")' \/ (Writing(p) /\ arg'[p].pipe = arg[p].pipe)
  PROVE  FilesInv'
<1>1. \A q \in Process : /\ at'[q] = "close" <=> at[q] = "close"
                         /\ at[q] = "close" => arg'[q] = arg[q]
  BY Zenon DEF Others
<1>2. \A q \in Process : at'[q] = "none" => \A d \in Fd : ofile[q][d] = 0
  BY DEF Others, FInv, FilesInv, SlotsEmpty
<1>3. \A q \in Process : at'[q] \notin {"none", "run", "exit"} => arg'[q].pipe \in Page
  BY DEF Others, FInv, FilesInv, CallsHavePipes
<1>4. \A q \in Process :
        /\ Reading(q)' => Through(q, "r")' \/ (Reading(q) /\ arg'[q].pipe = arg[q].pipe)
        /\ Writing(q)' => Through(q, "w")' \/ (Writing(q) /\ arg'[q].pipe = arg[q].pipe)
  BY DEF Others, Reading, Writing
<1>5. QED
  BY Zenon, <1>1, <1>2, <1>3, <1>4, FilesFrame DEF FInv

\* A file that a descriptor names is in use.
Counted == \A q \in Process, d \in Fd : ofile[q][d] # 0 => ref[ofile[q][d]] > 0

\* The file of a descriptor is the one the call goes through.
LEMMA FileOfCall ==
  ASSUME FInv, NEW p \in Process, NEW d \in Fd, ofile[p][d] # 0, Counted
  PROVE  /\ ofile[p][d] \in File /\ target[ofile[p][d]] \in Page
         /\ Refers(ofile[p][d], target[ofile[p][d]], IF writable[ofile[p][d]] THEN "w" ELSE "r")
<1>1. PICK f \in File : f = ofile[p][d]
  BY DEF FInv, FilesInv, FileTypes
<1>2. ref[f] > 0
  BY <1>1 DEF Counted
<1>3. QED
  BY <1>1, <1>2 DEF FInv, FilesInv, FilesHavePipes, Refers

\* sys_read keeps the invariant.
LEMMA CallReadInv ==
  ASSUME FInv, NEW p \in Process, CallRead(p), Counted
  PROVE  FInv'
<1>1. PICK d \in Fd, n \in Lengths :
        /\ ofile[p][d] # 0 /\ ~writable[ofile[p][d]]
        /\ arg' = [arg EXCEPT ![p].pipe = target[ofile[p][d]], ![p].n = n]
  BY Zenon DEF CallRead, FreeFds
<1>2. PICK f \in File : f = ofile[p][d]
  BY <1>1, FileOfCall
<1>3. target[f] \in Page /\ Refers(f, target[f], "r")
  BY <1>1, <1>2, FileOfCall
<1>4. /\ at[p] = "run" /\ at' = [at EXCEPT ![p] = "read"]
      /\ UNCHANGED <<files, pipes, killed, cut>>
  BY Zenon DEF CallRead, Enters
<1>5. /\ arg' \in [Process -> Args] /\ arg'[p].pipe = target[f] /\ arg'[p].n \in Lengths
      /\ \A q \in Process : q # p => arg'[q] = arg[q]
  <2>1. n \in Nat /\ target[f] \in Page \cup {Null} /\ arg \in [Process -> Args]
    BY <1>3, PipeConstants DEF FInv, ProcTypes
  <2>2. arg' = [arg EXCEPT ![p].pipe = target[f], ![p].n = n]
    BY <1>1, <1>2
  <2>3. QED
    BY Zenon, <2>1, <2>2, ArgSet
<1>6. /\ at' \in [Process -> Places] /\ at'[p] = "read"
      /\ \A q \in Process : q # p => at'[q] = at[q]
  BY <1>4 DEF FInv, ProcTypes, Places
<1>7. ProcTypes'
  BY <1>4, <1>5, <1>6 DEF FInv, ProcTypes
<1>8. \A q \in Process : Calm(q)
  BY <1>4, <1>5, <1>6 DEF Calm, Waits, Blocked, Reading, Writing
<1>9. PipeTypes' /\ WaitInv'
  BY <1>4, <1>8, WaitCalm DEF FInv
<1>10. Through(p, "r")'
  <2>1. ofile' = ofile /\ ref' = ref /\ target' = target /\ writable' = writable
    BY <1>4 DEF files
  <2>2. Refers(ofile[p][d], arg[p].pipe, "r")'
    BY <1>2, <1>3, <1>5, <2>1 DEF Refers
  <2>3. ofile'[p][d] \in File
    BY Zenon, <1>2, <2>1
  <2>4. QED
    BY <2>2, <2>3 DEF Through
<1>11. FilesInv'
  <2>1. Others(p)
    BY <1>5, <1>6 DEF Others
  <2>2. open' = open /\ page' = page /\ UNCHANGED files
    BY <1>4 DEF pipes
  <2>3. Reading(p)' /\ ~Writing(p)'
    BY <1>6 DEF Reading, Writing
  <2>4. QED
    BY Zenon, <1>3, <1>4, <1>5, <1>6, <1>10, <2>1, <2>2, <2>3, CallerFiles
<1>12. QED
  BY <1>7, <1>9, <1>11 DEF FInv

\* sys_write keeps the invariant.
LEMMA CallWriteInv ==
  ASSUME FInv, NEW p \in Process, CallWrite(p), Counted
  PROVE  FInv'
<1>1. PICK d \in Fd, buf \in Bufs :
        /\ ofile[p][d] # 0 /\ writable[ofile[p][d]]
        /\ arg' = [arg EXCEPT ![p].pipe = target[ofile[p][d]], ![p].buf = buf]
  BY Zenon DEF CallWrite, FreeFds
<1>2. PICK f \in File : f = ofile[p][d]
  BY <1>1, FileOfCall
<1>3. target[f] \in Page /\ Refers(f, target[f], "w")
  BY <1>1, <1>2, FileOfCall
<1>4. /\ at[p] = "run" /\ at' = [at EXCEPT ![p] = "write"]
      /\ UNCHANGED <<files, pipes, killed, cut>>
  BY DEF CallWrite, Enters
<1>5. /\ arg' \in [Process -> Args] /\ arg'[p].pipe = target[f] /\ arg'[p].buf = buf
      /\ \A q \in Process : q # p => arg'[q] = arg[q]
  <2>1. buf \in Seq(Nat)
    BY PipeConstants
  <2>2. PICK a \in Args : a = arg[p]
    BY DEF FInv, ProcTypes
  <2>3. /\ [a EXCEPT !.pipe = target[f], !.buf = buf] \in Args
        /\ [a EXCEPT !.pipe = target[f], !.buf = buf].pipe = target[f]
        /\ [a EXCEPT !.pipe = target[f], !.buf = buf].buf = buf
    BY Zenon, <1>3, <2>1 DEF Args
  <2>4. arg' = [arg EXCEPT ![p] = [a EXCEPT !.pipe = target[f], !.buf = buf]]
    BY Zenon, <1>1, <1>2, <2>2
  <2>5. QED
    BY <2>3, <2>4 DEF FInv, ProcTypes
<1>6. /\ at' \in [Process -> Places] /\ at'[p] = "write"
      /\ \A q \in Process : q # p => at'[q] = at[q]
  BY <1>4 DEF FInv, ProcTypes, Places
<1>7. ProcTypes'
  BY <1>4, <1>5, <1>6 DEF FInv, ProcTypes
<1>8. \A q \in Process : Calm(q)
  BY <1>4, <1>5, <1>6 DEF Calm, Waits, Blocked, Reading, Writing
<1>9. PipeTypes' /\ WaitInv'
  BY <1>4, <1>8, WaitCalm DEF FInv
<1>10. Through(p, "w")'
  <2>1. ofile' = ofile /\ ref' = ref /\ target' = target /\ writable' = writable
    BY Zenon, <1>4 DEF files
  <2>2. Refers(ofile[p][d], arg[p].pipe, "w")'
    BY Zenon, <1>2, <1>3, <1>5, <2>1 DEF Refers
  <2>3. ofile'[p][d] \in File
    BY <1>2, <2>1
  <2>4. QED
    BY <2>2, <2>3 DEF Through
<1>11. FilesInv'
  <2>1. Others(p)
    BY <1>5, <1>6 DEF Others
  <2>2. open' = open /\ page' = page /\ UNCHANGED files
    BY <1>4 DEF pipes
  <2>3. Writing(p)' /\ ~Reading(p)'
    BY <1>6 DEF Reading, Writing
  <2>4. QED
    BY Zenon, <1>3, <1>4, <1>5, <1>6, <1>10, <2>1, <2>2, <2>3, CallerFiles
<1>12. QED
  BY <1>7, <1>9, <1>11 DEF FInv

-----------------------------------------------------------------------------
(* Locks *)

\* A process takes the lock of its pipe to sleep, or releases it.
LEMMA LockTaken ==
  ASSUME LockHeld, HasLock, PipeTypes, NEW p \in Process, NEW x \in Page,
         lock[x] = Null, lock' = [lock EXCEPT ![x] = p], Blocked(p)', arg'[p].pipe = x,
         \A q \in Process : q # p => arg'[q] = arg[q] /\ (Blocked(q)' <=> Blocked(q)),
         ~Blocked(p)
  PROVE  LockHeld' /\ HasLock'
<1>1. \A y \in Page : lock[y] # Null => lock[y] \in Process
  BY DEF PipeTypes
<1>2. \A y \in Page : lock'[y] = IF y = x THEN p ELSE lock[y]
  BY DEF PipeTypes
<1>3. LockHeld'
  <2>1. SUFFICES ASSUME NEW y \in Page, lock'[y] # Null
        PROVE  Blocked(lock[y])' /\ arg'[lock'[y]].pipe = y
    BY DEF LockHeld
  <2>2. CASE y = x
    BY <1>2, <2>2
  <2>3. CASE y # x
    <3>1. PICK q \in Process : q = lock[y] /\ lock'[y] = q
      BY <1>1, <1>2, <2>1, <2>3
    <3>2. Blocked(q) /\ arg[q].pipe = y
      BY <2>1, <3>1 DEF LockHeld
    <3>3. q # p
      BY <3>2
    <3>4. Blocked(q)' /\ arg'[q].pipe = y
      BY <3>2, <3>3
    <3>5. Blocked(lock[y])' <=> Blocked(q)'
      BY <3>1 DEF Blocked
    <3>6. QED
      BY <3>1, <3>4, <3>5
  <2>4. QED
    BY <2>2, <2>3
<1>4. HasLock'
  <2>1. SUFFICES ASSUME NEW q \in Process, Blocked(q)' PROVE lock'[arg'[q].pipe] = q
    BY DEF HasLock
  <2>2. CASE q = p
    BY <1>2, <2>2
  <2>3. CASE q # p
    <3>1. Blocked(q) /\ arg'[q] = arg[q] /\ lock[arg[q].pipe] = q
      BY <2>1, <2>3 DEF HasLock
    <3>2. arg[q].pipe # x
      BY <3>1, PipeConstants
    <3>3. QED
      BY <3>1, <3>2
  <2>4. QED
    BY <2>2, <2>3
<1>5. QED
  BY Zenon, <1>3, <1>4

\* sleep releases the lock of the pipe.
LEMMA LockReleased ==
  ASSUME LockHeld, HasLock, PipeTypes, NEW p \in Process, NEW x \in Page, arg[p].pipe = x,
         Blocked(p), ~Blocked(p)', lock' = [lock EXCEPT ![x] = Null], arg' = arg,
         \A q \in Process : q # p => (Blocked(q)' <=> Blocked(q))
  PROVE  LockHeld' /\ HasLock'
<1>1. \A y \in Page : lock[y] # Null => lock[y] \in Process
  BY DEF PipeTypes
<1>2. \A y \in Page : lock'[y] = IF y = x THEN Null ELSE lock[y]
  BY DEF PipeTypes
<1>3. lock[x] = p
  BY DEF HasLock
<1>4. LockHeld'
  <2>1. SUFFICES ASSUME NEW y \in Page, lock'[y] # Null
        PROVE  Blocked(lock[y])' /\ arg'[lock'[y]].pipe = y
    BY DEF LockHeld
  <2>2. PICK q \in Process : q = lock[y] /\ lock'[y] = q /\ y # x
    BY Zenon, <1>1, <1>2, <2>1
  <2>3. Blocked(q) /\ arg[q].pipe = y
    BY <1>2, <2>1, <2>2 DEF LockHeld
  <2>4. q # p
    BY <2>2, <2>3
  <2>5. Blocked(lock[y])' <=> Blocked(q)'
    BY <2>2 DEF Blocked
  <2>6. QED
    BY <2>2, <2>3, <2>4, <2>5
<1>5. HasLock'
  <2>1. SUFFICES ASSUME NEW q \in Process, Blocked(q)' PROVE lock'[arg'[q].pipe] = q
    BY DEF HasLock
  <2>2. q # p /\ Blocked(q) /\ lock[arg[q].pipe] = q
    BY <2>1 DEF HasLock
  <2>3. arg[q].pipe # x
    BY <1>3, <2>2
  <2>4. QED
    BY <2>2, <2>3
<1>6. QED
  BY <1>4, <1>5

\* Waiting, process by process.
LEMMA WaitStep ==
  ASSUME LockHeld', HasLock', Remaining', Asked', \A q \in Process : Justified(q)'
  PROVE  WaitInv'
BY JustifiedAll DEF WaitInv

\* Nobody holds the lock of the pipe that a process works on.
LEMMA NoHolder ==
  ASSUME WaitInv, NEW x \in Page, lock[x] = Null, NEW q \in Process, Blocked(q)
  PROVE  arg[q].pipe # x
BY PipeConstants DEF WaitInv, HasLock

\* piperead, when it finds the ring empty, keeps the invariant.
LEMMA ReadBlocksInv ==
  ASSUME FInv, NEW p \in Process, ReadBlocks(p)
  PROVE  FInv'
<1>1. PICK x \in Page : x = arg[p].pipe
  BY DEF ReadBlocks, FInv, FilesInv, CallsHavePipes
<1>2. /\ at[p] = "read" /\ lock[x] = Null /\ Empty(x) /\ "w" \in open[x]
      /\ UNCHANGED <<files, page, ring, nread, nwrite, open, killed, cut>>
  BY <1>1 DEF ReadBlocks
<1>3. CASE killed[p]
  <2>1. at' = [at EXCEPT ![p] = "run"] /\ arg' = [arg EXCEPT ![p] = None] /\ lock' = lock
    BY <1>3 DEF ReadBlocks
  <2>2. /\ at' \in [Process -> Places] /\ at'[p] = "run" /\ arg' \in [Process -> Args]
        /\ \A q \in Process : q # p => at'[q] = at[q] /\ arg'[q] = arg[q]
    BY <2>1, NoneTyped DEF FInv, ProcTypes, Places
  <2>3. ProcTypes'
    BY <1>2, <2>2 DEF FInv, ProcTypes
  <2>4. \A q \in Process : Calm(q)
    BY Zenon, <1>2, <2>2 DEF Calm, Waits, Blocked, Reading, Writing
  <2>5. PipeTypes' /\ WaitInv'
    BY Zenon, <1>2, <2>1, <2>4, WaitCalm DEF FInv, pipes
  <2>6. FilesInv'
    BY <1>2, <2>2, OthersFiles
  <2>7. QED
    BY <2>3, <2>5, <2>6 DEF FInv
<1>4. CASE ~killed[p]
  <2>1. at' = [at EXCEPT ![p] = "rblock"] /\ arg' = arg /\ lock' = [lock EXCEPT ![x] = p]
    BY Zenon, <1>1, <1>4 DEF ReadBlocks
  <2>2. /\ at' \in [Process -> Places] /\ at'[p] = "rblock"
        /\ \A q \in Process : q # p => at'[q] = at[q]
    BY Zenon, <2>1 DEF FInv, ProcTypes, Places
  <2>3. ProcTypes'
    BY <1>2, <2>1, <2>2 DEF FInv, ProcTypes
  <2>4. PipeTypes'
    BY Zenon, <1>2, <2>1 DEF FInv, PipeTypes, Length
  <2>5. LockHeld' /\ HasLock'
    <3>1. Blocked(p)' /\ ~Blocked(p)
      BY <1>2, <2>2 DEF Blocked
    <3>2. \A q \in Process : q # p => arg'[q] = arg[q] /\ (Blocked(q)' <=> Blocked(q))
      BY Zenon, <2>1, <2>2 DEF Blocked
    <3>3. QED
      BY Zenon, <1>1, <1>2, <2>1, <3>1, <3>2, LockTaken DEF FInv, WaitInv
  <2>6. Remaining' /\ Asked'
    BY Zenon, <1>2, <2>1, <2>2 DEF FInv, WaitInv, Remaining, Asked, Reading, Writing
  <2>7. ASSUME NEW q \in Process PROVE Justified(q)'
    <3>1. CASE q = p
      BY <1>1, <1>2, <2>1, <2>2, <3>1 DEF Justified, Empty
    <3>2. CASE q # p
      <4>1. Kept(q)
        BY <1>2, <2>1, <2>2, <3>2 DEF Kept, Waits
      <4>2. Justified(q)
        BY JustifiedAll DEF FInv, WaitInv
      <4>3. QED
        BY Zenon, <4>1, <4>2, JustifiedFrame
    <3>3. QED
      BY Zenon, <3>1, <3>2
  <2>8. WaitInv'
    BY Zenon, <2>5, <2>6, <2>7, WaitStep
  <2>9. FilesInv'
    <3>1. Others(p)
      BY <2>1, <2>2 DEF Others
    <3>2. Reading(p) /\ ~Writing(p)'
      BY Zenon, <1>2, <2>2 DEF Reading, Writing
    <3>3. QED
      BY Zenon, <1>1, <1>2, <2>1, <2>2, <3>1, <3>2, CallerFiles
  <2>10. QED
    BY Zenon, <2>3, <2>4, <2>8, <2>9 DEF FInv
<1>5. QED
  BY <1>3, <1>4

\* sleep keeps the invariant.
LEMMA SleepInv ==
  ASSUME FInv, NEW p \in Process, Sleep(p)
  PROVE  FInv'
<1>1. PICK x \in Page : x = arg[p].pipe
  BY Zenon DEF Sleep, FInv, FilesInv, CallsHavePipes
<1>2. /\ Blocked(p) /\ arg' = arg /\ lock' = [lock EXCEPT ![x] = Null]
      /\ UNCHANGED <<files, page, ring, nread, nwrite, open, killed, cut>>
  BY <1>1 DEF Sleep, Blocked
<1>3. /\ at' \in [Process -> Places] /\ at'[p] = (IF at[p] = "rblock" THEN "rsleep" ELSE "wsleep")
      /\ \A q \in Process : q # p => at'[q] = at[q]
  BY DEF Sleep, FInv, ProcTypes, Places
<1>4. ProcTypes'
  BY <1>2, <1>3 DEF FInv, ProcTypes
<1>5. PipeTypes'
  BY <1>2 DEF FInv, PipeTypes, Length
<1>6. LockHeld' /\ HasLock'
  <2>1. ~Blocked(p)' /\ \A q \in Process : q # p => (Blocked(q)' <=> Blocked(q))
    BY <1>3 DEF Blocked
  <2>2. QED
    BY Zenon, <1>1, <1>2, <2>1, LockReleased DEF FInv, WaitInv
<1>7. Remaining' /\ Asked'
  BY Zenon, <1>2, <1>3 DEF FInv, WaitInv, Remaining, Asked, Reading, Writing, Blocked
<1>8. ASSUME NEW q \in Process PROVE Justified(q)'
  <2>1. Justified(q)
    BY JustifiedAll DEF FInv, WaitInv
  <2>2. CASE q = p
    BY Zenon, <1>1, <1>2, <1>3, <2>1, <2>2 DEF Justified, Empty, Full, Blocked
  <2>3. CASE q # p
    <3>1. Kept(q)
      BY Zenon, <1>2, <1>3, <2>3 DEF Kept, Waits
    <3>2. QED
      BY Zenon, <2>1, <3>1, JustifiedFrame
  <2>4. QED
    BY <2>2, <2>3
<1>9. WaitInv'
  BY <1>6, <1>7, <1>8, WaitStep
<1>10. FilesInv'
  <2>1. Others(p)
    BY <1>2, <1>3 DEF Others
  <2>2. /\ at[p] # "close" /\ at'[p] \notin {"none", "close"} /\ arg'[p].pipe \in Page
        /\ (Reading(p)' => Reading(p)) /\ (Writing(p)' => Writing(p))
    BY <1>1, <1>2, <1>3 DEF Reading, Writing, Blocked
  <2>3. QED
    BY Zenon, <1>2, <2>1, <2>2, CallerFiles
<1>11. QED
  BY <1>4, <1>5, <1>9, <1>10 DEF FInv

-----------------------------------------------------------------------------
(* Reading and writing *)

\* piperead, when it copies bytes or finds the end, keeps the invariant.
LEMMA ReadCopiesInv ==
  ASSUME FInv, NEW p \in Process, ReadCopies(p)
  PROVE  FInv'
<1>1. PICK x \in Page : x = arg[p].pipe
  BY Zenon DEF ReadCopies, FInv, FilesInv, CallsHavePipes
<1>2. PICK k \in Nat : k <= Length(x) /\ nread' = [nread EXCEPT ![x] = (@ + k) % UINT]
  <2>1. arg[p].n \in Nat /\ Length(x) \in Nat
    BY Zenon, LengthFacts DEF FInv, ProcTypes, Args
  <2>2. nread' = [nread EXCEPT ![x] = (@ + Min({arg[p].n, Length(x)})) % UINT]
    BY <1>1 DEF ReadCopies
  <2>3. Min({arg[p].n, Length(x)}) \in Nat /\ Min({arg[p].n, Length(x)}) <= Length(x)
    BY SMTT(30), <2>1, MinTwo
  <2>4. QED
    BY Zenon, <2>2, <2>3
<1>3. /\ at[p] = "read" /\ lock[x] = Null
      /\ UNCHANGED <<files, page, ring, nwrite, open, lock, killed, cut>>
      /\ at' = [WakeWriters(at, x) EXCEPT ![p] = "run"]
      /\ arg' = [arg EXCEPT ![p] = None]
  BY <1>1 DEF ReadCopies
<1>4. /\ nread' \in [Page -> 0..(UINT - 1)] /\ (\A y \in Page : Length(y)' <= PIPESIZE)
      /\ \A y \in Page : y # x => nread'[y] = nread[y]
      /\ k = 0 => nread'[x] = nread[x]
  BY Zenon, <1>2, <1>3, LengthShrinks DEF FInv
<1>5. /\ at' \in [Process -> Places] /\ at'[p] = "run"
      /\ \A q \in Process : q # p =>
           at'[q] = IF at[q] = "wsleep" /\ arg[q].pipe = x THEN "write" ELSE at[q]
  BY <1>3 DEF FInv, ProcTypes, Places, WakeWriters
<1>6. arg' \in [Process -> Args] /\ \A q \in Process : q # p => arg'[q] = arg[q]
  BY <1>3, NoneTyped DEF FInv, ProcTypes
<1>7. ProcTypes'
  BY Zenon, <1>3, <1>5, <1>6 DEF FInv, ProcTypes
<1>8. PipeTypes'
  BY <1>3, <1>4 DEF FInv, PipeTypes
<1>9. ASSUME NEW q \in Process PROVE Kept(q) \/ Justified(q)'
  <2>1. CASE q = p
    BY Zenon, <1>5, <2>1 DEF Kept, Waits
  <2>2. CASE q # p /\ Waits(q)' /\ arg[q].pipe # x
    <3>1. at'[q] = at[q] /\ arg'[q] = arg[q]
      BY <1>5, <1>6, <2>2
    <3>2. arg[q].pipe \in Page
      BY <2>2, <3>1 DEF FInv, FilesInv, CallsHavePipes, Waits
    <3>3. QED
      BY Zenon, <1>3, <1>4, <2>2, <3>1, <3>2 DEF Kept
  <2>3. CASE q # p /\ Waits(q)' /\ arg[q].pipe = x
    <3>1. at'[q] = at[q] /\ arg'[q] = arg[q] /\ at[q] # "wsleep"
      BY Zenon, <1>5, <1>6, <2>3 DEF Waits
    <3>2. ~Blocked(q)
      BY <1>3, <2>3, NoHolder DEF FInv
    <3>3. at[q] = "rsleep"
      BY Zenon, <2>3, <3>1, <3>2 DEF Waits, Blocked
    <3>4. (Empty(x) /\ "w" \in open[x]) \/ x \in cut
      BY ZenonT(30), <2>3, <3>3 DEF FInv, WaitInv, SleepJustified
    <3>5. CASE Empty(x) /\ "w" \in open[x]
      <4>1. k = 0
        BY Zenon, <1>2, <3>5, EmptyGives DEF FInv
      <4>2. QED
        BY Zenon, <1>3, <1>4, <2>3, <3>1, <4>1 DEF Kept
    <3>6. CASE x \in cut
      BY <1>3, <2>3, <3>1, <3>3, <3>6 DEF Justified
    <3>7. QED
      BY <3>4, <3>5, <3>6
  <2>4. CASE ~Waits(q)'
    BY Zenon, <2>4 DEF Kept
  <2>5. QED
    BY <2>1, <2>2, <2>3, <2>4
<1>10. \A q \in Process : Justified(q)'
  <2>1. \A q \in Process : Justified(q)
    BY JustifiedAll DEF FInv, WaitInv
  <2>2. QED
    BY <1>9, <2>1, JustifiedFrame
<1>11. LockHeld' /\ HasLock'
  <2>1. \A q \in Process : Blocked(q)' <=> Blocked(q)
    BY <1>3, <1>5 DEF Blocked
  <2>2. \A q \in Process : Blocked(q) => arg'[q].pipe = arg[q].pipe
    BY <1>3, <1>6 DEF Blocked
  <2>3. QED
    BY <1>3, <2>1, <2>2, LockFrame DEF FInv, WaitInv
<1>12. Remaining' /\ Asked'
  <2>1. \A q \in Process : /\ Writing(q)' => Writing(q) /\ arg'[q] = arg[q]
                           /\ Reading(q)' => Reading(q) /\ arg'[q] = arg[q]
    BY <1>5, <1>6 DEF Writing, Reading
  <2>2. QED
    BY <2>1, Zenon DEF FInv, WaitInv, Remaining, Asked
<1>13. WaitInv'
  BY Zenon, <1>10, <1>11, <1>12, WaitStep
<1>14. FilesInv'
  BY Zenon, <1>3, <1>5, <1>6, OthersFiles
<1>15. QED
  BY ZenonT(30), <1>7, <1>8, <1>13, <1>14 DEF FInv

\* A process other than the writer, when it does not wait for the pipe to be written
\* or a failing write has marked the pipe.
LEMMA WroteKept ==
  ASSUME FInv, NEW p \in Process, NEW x \in Page, x = arg[p].pipe, NEW k \in Nat, Wrote(p, x, k),
         cut \ {x} \subseteq cut', \A y \in Page : y # x => nwrite'[y] = nwrite[y],
         k = 0 => nwrite'[x] = nwrite[x],
         NEW q \in Process, q # p, Others(p),
         at[q] = "rsleep" /\ arg[q].pipe = x => at'[q] = "read" \/ x \in cut'
  PROVE  Justified(q)'
<1>1. nread' = nread /\ open' = open /\ lock[x] = Null /\ Length(x) + k <= PIPESIZE
  BY Zenon DEF Wrote
<1>2. Justified(q)
  BY Zenon, JustifiedAll DEF FInv, WaitInv
<1>3. arg'[q] = arg[q]
  BY Zenon DEF Others
<1>4. CASE ~Waits(q)'
  BY Zenon, <1>4 DEF Justified, Waits
<1>5. CASE Waits(q)'
  <2>1. at'[q] = at[q]
    BY Zenon, <1>5 DEF Others, Waits
  <2>2. arg[q].pipe \in Page
    BY Zenon, <1>5, <2>1 DEF FInv, FilesInv, CallsHavePipes, Waits
  <2>3. CASE arg[q].pipe # x
    <3>1. Kept(q)
      BY Zenon, <1>1, <1>3, <2>1, <2>2, <2>3 DEF Kept
    <3>2. QED
      BY Zenon, <1>2, <3>1, JustifiedFrame
  <2>4. CASE arg[q].pipe = x
    <3>1. ~Blocked(q)
      BY Zenon, <1>1, <2>4, NoHolder DEF FInv
    <3>2. CASE at[q] = "rsleep"
      <4>1. x \in cut'
        BY ZenonT(30), <2>1, <2>4, <3>2
      <4>2. QED
        BY Zenon, <1>3, <2>1, <2>4, <3>2, <4>1 DEF Justified
    <3>3. CASE at[q] = "wsleep"
      <4>1. Full(x)
        BY ZenonT(30), <2>4, <3>3 DEF FInv, WaitInv, SleepJustified
      <4>2. k = 0
        BY Zenon, <1>1, <4>1, FullFits DEF FInv
      <4>3. Kept(q)
        BY Zenon, <1>1, <1>3, <2>1, <2>4, <3>3, <4>2 DEF Kept
      <4>4. QED
        BY Zenon, <1>2, <4>3, JustifiedFrame
    <3>4. QED
      BY ZenonT(30), <1>5, <2>1, <3>1, <3>2, <3>3 DEF Waits, Blocked
  <2>5. QED
    BY Zenon, <2>3, <2>4
<1>6. QED
  BY Zenon, <1>4, <1>5

\* pipewrite, when it returns or fails, keeps the invariant.
LEMMA ReturnsInv ==
  ASSUME FInv, NEW p \in Process, NEW x \in Page, x = arg[p].pipe, NEW k \in Nat, Wrote(p, x, k),
         Returns(p, x) \/ Fails(p, x), Rings'
  PROVE  FInv'
<1>1. /\ lock' = lock /\ arg' = [arg EXCEPT ![p] = None] /\ cut' \subseteq Page /\ cut \ {x} \subseteq cut'
  BY Zenon DEF Returns, Fails, FInv, PipeTypes
<1>2. at[p] = "write" /\ UNCHANGED files /\ page' = page /\ open' = open /\ killed' = killed
  BY Zenon DEF Wrote
<1>3. PipeTypes' /\ (\A y \in Page : y # x => nwrite'[y] = nwrite[y]) /\ (k = 0 => nwrite'[x] = nwrite[x])
  BY Zenon, <1>1, WrotePipes DEF FInv, PipeTypes
<1>4. /\ at' \in [Process -> Places] /\ at'[p] = "run"
      /\ \A q \in Process : q # p =>
           /\ at'[q] = at[q] \/ (at[q] = "rsleep" /\ at'[q] = "read")
           /\ at[q] = "rsleep" /\ arg[q].pipe = x => at'[q] = "read" \/ x \in cut'
  <2>1. CASE Returns(p, x)
    BY <2>1 DEF Returns, WakeReaders, FInv, ProcTypes, Places
  <2>2. CASE Fails(p, x)
    BY <2>2 DEF Fails, FInv, ProcTypes, Places
  <2>3. QED
    BY Zenon, <2>1, <2>2
<1>5. arg' \in [Process -> Args] /\ \A q \in Process : q # p => arg'[q] = arg[q]
  BY Zenon, <1>1, NoneTyped DEF FInv, ProcTypes
<1>6. Others(p)
  BY <1>4, <1>5 DEF Others
<1>7. \A q \in Process : Justified(q)'
  <2>1. Justified(p)'
    BY Zenon, <1>4 DEF Justified
  <2>2. ASSUME NEW q \in Process, q # p PROVE Justified(q)'
    BY Zenon, <1>1, <1>3, <1>4, <1>6, <2>2, WroteKept
  <2>3. QED
    BY Zenon, <2>1, <2>2
<1>8. LockHeld' /\ HasLock'
  <2>1. \A q \in Process : Blocked(q)' <=> Blocked(q)
    BY Zenon, <1>2, <1>4 DEF Blocked
  <2>2. \A q \in Process : Blocked(q) => arg'[q].pipe = arg[q].pipe
    BY Zenon, <1>2, <1>5 DEF Blocked
  <2>3. QED
    BY Zenon, <1>1, <2>1, <2>2, LockFrame DEF FInv, WaitInv
<1>9. Remaining' /\ Asked'
  <2>1. \A q \in Process : /\ Writing(q)' => Writing(q) /\ arg'[q] = arg[q]
                           /\ Reading(q)' => Reading(q) /\ arg'[q] = arg[q]
    BY <1>4, <1>5 DEF Writing, Reading
  <2>2. QED
    BY <2>1, ZenonT(30) DEF FInv, WaitInv, Remaining, Asked
<1>10. WaitInv'
  BY Zenon, <1>7, <1>8, <1>9, WaitStep
<1>11. FilesInv'
  BY Zenon, <1>2, <1>4, <1>5, OthersFiles
<1>12. ProcTypes'
  BY ZenonT(30), <1>2, <1>4, <1>5 DEF FInv, ProcTypes
<1>13. QED
  BY Zenon, <1>3, <1>10, <1>11, <1>12 DEF FInv

\* pipewrite, when it finds the ring full, keeps the invariant.
LEMMA StopsInv ==
  ASSUME FInv, NEW p \in Process, NEW x \in Page, x = arg[p].pipe, NEW k \in Nat, Wrote(p, x, k),
         Stops(p, x, k), Rings'
  PROVE  FInv'
<1>1. /\ k < Len(arg[p].buf) /\ "r" \in open[x] /\ lock' = [lock EXCEPT ![x] = p]
      /\ cut' \subseteq Page /\ cut \ {x} \subseteq cut' /\ lock' \in [Page -> Process \cup {Null}]
  BY Zenon DEF Stops, FInv, PipeTypes
<1>2. /\ at[p] = "write" /\ lock[x] = Null /\ UNCHANGED files /\ page' = page /\ open' = open
      /\ killed' = killed /\ (k < Len(arg[p].buf) => Length(x) + k = PIPESIZE)
  BY ZenonT(30) DEF Wrote
<1>3. /\ PipeTypes' /\ Length(x)' = Length(x) + k
      /\ (\A y \in Page : y # x => nwrite'[y] = nwrite[y]) /\ (k = 0 => nwrite'[x] = nwrite[x])
  BY ZenonT(30), <1>1, WrotePipes
<1>4. /\ at' \in [Process -> Places] /\ at'[p] = "wblock"
      /\ \A q \in Process : q # p =>
           /\ at'[q] = at[q] \/ (at[q] = "rsleep" /\ at'[q] = "read")
           /\ at[q] = "rsleep" /\ arg[q].pipe = x => at'[q] = "read"
  BY DEF Stops, WakeReaders, FInv, ProcTypes, Places
<1>5. /\ arg' \in [Process -> Args] /\ (\A q \in Process : q # p => arg'[q] = arg[q])
      /\ arg'[p].pipe = x /\ arg'[p].buf = SubSeq(arg[p].buf, k + 1, Len(arg[p].buf))
  <2>1. PICK a \in Args : a = arg[p]
    BY DEF FInv, ProcTypes
  <2>2. PICK s \in Seq(Nat) : s = SubSeq(arg[p].buf, k + 1, Len(arg[p].buf))
    <3>1. arg[p].buf \in Seq(Nat)
      BY Zenon, <2>1 DEF Args
    <3>2. k <= Len(arg[p].buf)
      BY <1>1, <3>1
    <3>3. QED
      BY Zenon, <3>1, <3>2, RestFacts
  <2>3. /\ [a EXCEPT !.buf = s] \in Args
        /\ [a EXCEPT !.buf = s].pipe = a.pipe /\ [a EXCEPT !.buf = s].buf = s
    BY Zenon DEF Args
  <2>4. arg' = [arg EXCEPT ![p] = [a EXCEPT !.buf = s]]
    BY Zenon, <2>1, <2>2 DEF Stops
  <2>5. QED
    BY Zenon, <2>1, <2>2, <2>3, <2>4 DEF FInv, ProcTypes
<1>6. Others(p)
  BY <1>4, <1>5 DEF Others
<1>7. \A q \in Process : Justified(q)'
  <2>1. Justified(p)'
    <3>1. Length(x)' = PIPESIZE
      BY Zenon, <1>1, <1>2, <1>3
    <3>2. Full(x)'
      BY Zenon, <1>3, <3>1, FullPrimed
    <3>3. Full(arg[p].pipe)'
      BY ZenonT(30), <1>5, <3>2 DEF Full
    <3>4. QED
      BY Zenon, <1>1, <1>2, <1>4, <1>5, <3>3 DEF Justified
  <2>2. ASSUME NEW q \in Process, q # p PROVE Justified(q)'
    BY ZenonT(30), <1>1, <1>3, <1>4, <1>6, <2>2, WroteKept
  <2>3. QED
    BY Zenon, <2>1, <2>2
<1>8. LockHeld' /\ HasLock'
  <2>1. Blocked(p)' /\ ~Blocked(p)
    BY Zenon, <1>2, <1>4 DEF Blocked
  <2>2. \A q \in Process : q # p => arg'[q] = arg[q] /\ (Blocked(q)' <=> Blocked(q))
    BY Zenon, <1>4, <1>5 DEF Blocked
  <2>3. QED
    BY Zenon, <1>1, <1>2, <1>5, <2>1, <2>2, LockTaken DEF FInv, WaitInv
<1>9. Remaining'
  <2>1. \A q \in Process : q # p /\ Writing(q)' => Writing(q) /\ arg'[q] = arg[q]
    BY Zenon, <1>4, <1>5 DEF Writing
  <2>2. PICK buf \in Bufs : \E i \in 1..Len(buf) : arg[p].buf = SubSeq(buf, i, Len(buf))
    BY ZenonT(30), <1>2 DEF FInv, WaitInv, Remaining, Writing
  <2>3. buf \in Seq(Nat)
    BY PipeConstants
  <2>4. PICK i \in 1..Len(buf) : arg[p].buf = SubSeq(buf, i, Len(buf))
    BY <2>2
  <2>5. i + k \in 1..Len(buf) /\ arg'[p].buf = SubSeq(buf, i + k, Len(buf))
    BY SMTT(30), <1>1, <1>5, <2>4, <2>3, RestOfRest
  <2>6. SUFFICES ASSUME NEW q \in Process, Writing(q)'
        PROVE  \E b \in Bufs : \E j \in 1..Len(b) : arg'[q].buf = SubSeq(b, j, Len(b))
    BY Zenon DEF Remaining
  <2>7. CASE q = p
    BY Zenon, <2>5, <2>7
  <2>8. CASE q # p
    BY <2>1, <2>6, <2>8, Zenon DEF FInv, WaitInv, Remaining
  <2>9. QED
    BY Zenon, <2>7, <2>8
<1>10. Asked'
  <2>1. \A q \in Process : Reading(q)' => Reading(q) /\ arg'[q] = arg[q]
    BY <1>4, <1>5 DEF Reading
  <2>2. QED
    BY <2>1, ZenonT(30) DEF FInv, WaitInv, Asked
<1>11. WaitInv'
  BY <1>7, <1>8, <1>9, <1>10, WaitStep
<1>12. FilesInv'
  <2>1. /\ Writing(p) /\ ~Reading(p)'
    BY Zenon, <1>2, <1>4 DEF Reading, Writing
  <2>2. QED
    BY Zenon, <1>2, <1>4, <1>5, <1>6, <2>1, CallerFiles
<1>13. ProcTypes'
  BY Zenon, <1>2, <1>4, <1>5 DEF FInv, ProcTypes
<1>14. QED
  BY Zenon, <1>3, <1>11, <1>12, <1>13 DEF FInv

\* pipewrite keeps the invariant.
LEMMA WriteInv ==
  ASSUME FInv, NEW p \in Process, Write(p), Rings'
  PROVE  FInv'
<1>1. PICK x \in Page : x = arg[p].pipe
  BY DEF Write, FInv, FilesInv, CallsHavePipes
<1>2. PICK k \in Nat : Wrote(p, x, k) /\ (Returns(p, x) \/ Fails(p, x) \/ Stops(p, x, k))
  BY <1>1, WriteDoes
<1>3. QED
  BY <1>1, <1>2, ReturnsInv, StopsInv

\* The first process, without files.
LEMMA InitWaits == Init => PipeTypes /\ ProcTypes /\ WaitInv
<1> SUFFICES ASSUME Init PROVE PipeTypes /\ ProcTypes /\ WaitInv
  OBVIOUS
<1>1. PICK p \in Process : at = [q \in Process |-> IF q = p THEN "run" ELSE "none"]
  BY DEF Init
<1>2. \A q \in Process : at[q] \in {"run", "none"}
  BY <1>1
<1>3. ProcTypes
  BY <1>1, NoneTyped DEF Init, ProcTypes, Places
<1>4. PipeTypes
  <2>1. ring \in [Page -> [0..(PIPESIZE - 1) -> Nat]]
    BY DEF Init
  <2>2. nread \in [Page -> 0..(UINT - 1)] /\ nwrite \in [Page -> 0..(UINT - 1)]
    BY RingSize DEF Init
  <2>3. \A x \in Page : nwrite[x] = 0 /\ nread[x] = 0
    BY DEF Init
  <2>4. \A x \in Page : Length(x) <= PIPESIZE
    <3>1. ASSUME NEW x \in Page PROVE Length(x) = 0
      <4>1. nread[x] \in Counter /\ nwrite[x] \in Counter /\ nread[x] = nwrite[x]
        BY Zenon, <2>2, <2>3 DEF Counter
      <4>2. Apart(nread[x], nwrite[x]) = 0
        BY Zenon, <4>1, Between
      <4>3. QED
        BY <4>2 DEF Length, Apart
    <3>2. QED
      BY <3>1, RingSize
  <2>5. lock \in [Page -> Process \cup {Null}] /\ open \in [Page -> SUBSET {"r", "w"}] /\ page = {} /\ cut = {}
    BY DEF Init
  <2>6. QED
    BY <2>1, <2>2, <2>4, <2>5 DEF PipeTypes
<1>10. WaitInv
  BY <1>2 DEF WaitInv, LockHeld, HasLock, TestHolds, SleepJustified, Asked, Remaining, Blocked, Reading, Writing, Init
<1>11. QED
  BY <1>3, <1>4, <1>10

\* A step that changes nothing.
LEMMA StutterInv ==
  ASSUME FInv, UNCHANGED vars
  PROVE  FInv'
<1>1. /\ UNCHANGED files /\ UNCHANGED <<pipes, cut>> /\ at' = at /\ arg' = arg /\ killed' = killed
      /\ open' = open /\ page' = page
  BY DEF vars, procs, pipes
<1>2. \A q \in Process : Calm(q)
  BY <1>1 DEF Calm
<1>3. PipeTypes' /\ WaitInv'
  BY <1>1, <1>2, WaitCalm DEF FInv
<1>4. ProcTypes'
  BY Zenon, <1>1 DEF FInv, ProcTypes
<1>5. FilesInv'
  <2>1. \A p \in Process : at'[p] = "none" => \A d \in Fd : ofile[p][d] = 0
    BY <1>1 DEF FInv, FilesInv, SlotsEmpty
  <2>2. \A p \in Process : at'[p] \notin {"none", "run", "exit"} => arg'[p].pipe \in Page
    BY <1>1 DEF FInv, FilesInv, CallsHavePipes
  <2>3. \A p \in Process : /\ Reading(p)' => Reading(p) /\ arg'[p].pipe = arg[p].pipe
                           /\ Writing(p)' => Writing(p) /\ arg'[p].pipe = arg[p].pipe
    BY <1>1 DEF Reading, Writing
  <2>4. QED
    BY Zenon, <1>1, <2>1, <2>2, <2>3, FilesFrame DEF FInv
<1>6. QED
  BY <1>3, <1>4, <1>5 DEF FInv

-----------------------------------------------------------------------------
(* The ring as a queue *)

\* Quotient and remainder.
LEMMA ModUnique ==
  ASSUME NEW P \in Nat, P > 0, NEW a \in Int, NEW c \in Int, NEW d \in 0..(P - 1), a = c * P + d
  PROVE  a % P = d
OBVIOUS

\* Quotient and remainder exist.
LEMMA DivMod ==
  ASSUME NEW P \in Nat, P > 0, NEW a \in Int
  PROVE  \E c \in Int : a = c * P + (a % P) /\ a % P \in 0..(P - 1)
<1>1. a \div P \in Int /\ a = (a \div P) * P + (a % P) /\ a % P \in 0..(P - 1)
  OBVIOUS
<1>2. QED
  BY Zenon, <1>1

\* The counters wrap at a multiple of the ring size.
LEMMA ModShift ==
  ASSUME NEW P \in Nat, P > 0, NEW U \in Nat, U % P = 0, NEW b \in Nat
  PROVE  (b - U) % P = b % P
<1>1. PICK c \in Int : b = c * P + (b % P) /\ b % P \in 0..(P - 1)
  BY DivMod
<1>2. PICK e \in Int : U = e * P + (U % P)
  BY DivMod
<1>3. b - U = (c - e) * P + (b % P) /\ c - e \in Int /\ b - U \in Int
  BY <1>1, <1>2
<1>4. QED
  BY Zenon, <1>1, <1>3, ModUnique

\* Numbers less than P apart have different remainders.
LEMMA ModDiff ==
  ASSUME NEW P \in Nat, P > 0, NEW a \in Nat, NEW b \in Nat, a < b, b < a + P
  PROVE  a % P # b % P
<1>1. PICK c \in Int : a = c * P + (a % P) /\ a % P \in 0..(P - 1)
  BY DivMod
<1>2. PICK e \in Int : b = e * P + (b % P) /\ b % P \in 0..(P - 1)
  BY DivMod
<1>3. ASSUME a % P = b % P PROVE FALSE
  <2>1. b - a = (e - c) * P
    BY <1>1, <1>2, <1>3
  <2>2. e - c >= 1
    BY <2>1
  <2>3. (e - c) * P >= P
    BY <2>2
  <2>4. QED
    BY <2>1, <2>3
<1>4. QED
  BY <1>3

\* Slots of the ring do not depend on where the counters wrap around.
Slot(a) == a % PIPESIZE

\* The slot of a byte is the same before and after nread wraps.
LEMMA SlotAhead ==
  ASSUME NEW r \in Counter, NEW k \in Counter, NEW i \in Nat
  PROVE  Slot(Ahead(r, k) + i) = Slot(r + k + i)
<1> USE DEF Slot
<1>1. r \in Nat /\ k \in Nat
  BY RingSize DEF Counter
<1>2. CASE r + k < UINT
  BY <1>2, AheadIs
<1>3. CASE ~(r + k < UINT)
  <2>1. Ahead(r, k) = r + k - UINT
    BY <1>3, AheadIs
  <2>2. Ahead(r, k) + i = (r + k + i) - UINT
    BY <1>1, <2>1, RingSize
  <2>3. ((r + k + i) - UINT) % PIPESIZE = (r + k + i) % PIPESIZE
    <3>1. PICK b \in Nat : b = r + k + i
      BY <1>1
    <3>2. (b - UINT) % PIPESIZE = b % PIPESIZE
      BY RingSize, ModShift, Zenon
    <3>3. QED
      BY <3>1, <3>2
  <2>4. QED
    BY <2>2, <2>3
<1>4. QED
  BY <1>2, <1>3

\* nwrite is as far ahead of nread as there are bytes.
LEMMA WriteIsAhead ==
  ASSUME NEW r \in Counter, NEW w \in Counter
  PROVE  w = Ahead(r, Apart(r, w))
<1>1. Apart(r, w) \in Counter
  BY Between
<1>2. Ahead(r, Apart(r, w)) = IF r + Apart(r, w) < UINT THEN r + Apart(r, w) ELSE r + Apart(r, w) - UINT
  BY <1>1, AheadIs
<1>3. Apart(r, w) = IF r <= w THEN w - r ELSE w + UINT - r
  BY ApartIs
<1>4. r \in 0..(UINT - 1) /\ w \in 0..(UINT - 1)
  BY DEF Counter
<1>5. QED
  BY <1>2, <1>3, <1>4, RingSize

\* Sequences with the same elements.
LEMMA SeqEq ==
  ASSUME NEW s \in Seq(Nat), NEW t \in Seq(Nat), Len(s) = Len(t), \A i \in 1..Len(s) : s[i] = t[i]
  PROVE  s = t
BY SMTT(30)

\* A slot is one of the ring.
LEMMA InRing ==
  ASSUME NEW a \in Nat
  PROVE  Slot(a) \in 0..(PIPESIZE - 1)
BY RingSize DEF Slot

\* Bytes less than PIPESIZE apart have different slots.
LEMMA SlotsDiffer ==
  ASSUME NEW a \in Nat, NEW b \in Nat, a < b, b < a + PIPESIZE
  PROVE  Slot(a) # Slot(b)
BY RingSize, ModDiff, Zenon DEF Slot

\* The bytes of a queue, in the slots from nread on.
LEMMA QueueAt ==
  ASSUME NEW x, NEW i \in 1..Length(x), nread[x] \in Nat, Length(x) \in Nat
  PROVE  Queue(x)[i] = ring[x][Slot(nread[x] + (i - 1))]
<1>1. nread[x] + i - 1 = nread[x] + (i - 1)
  OBVIOUS
<1>2. Queue(x)[i] = ring[x][(nread[x] + i - 1) % PIPESIZE]
  BY DEF Queue
<1>3. QED
  BY <1>1, <1>2 DEF Slot

\* The queue of a pipe, as a sequence of bytes.
LEMMA QueueIs ==
  ASSUME PipeTypes, NEW x \in Page
  PROVE  /\ Queue(x) \in Seq(Nat) /\ Len(Queue(x)) = Length(x) /\ Length(x) \in Nat
         /\ \A i \in 1..Length(x) : Queue(x)[i] = ring[x][Slot(nread[x] + (i - 1))]
         /\ Queue(x) = <<>> <=> Length(x) = 0
<1>1. Length(x) \in Nat /\ nread[x] \in Nat /\ ring[x] \in [0..(PIPESIZE - 1) -> Nat]
  BY LengthFacts DEF PipeTypes
<1>2. ASSUME NEW i \in 1..Length(x) PROVE Queue(x)[i] = ring[x][Slot(nread[x] + (i - 1))] /\ Queue(x)[i] \in Nat
  <2>1. nread[x] + (i - 1) \in Nat
    BY <1>1
  <2>2. QED
    BY Zenon, <1>1, <2>1, InRing, QueueAt
<1>3. Queue(x) = [i \in 1..Length(x) |-> Queue(x)[i]]
  BY DEF Queue
<1>4. Queue(x) \in Seq(Nat) /\ Len(Queue(x)) = Length(x)
  BY <1>1, <1>2, <1>3
<1>5. Queue(x) = <<>> <=> Length(x) = 0
  BY <1>4
<1>6. QED
  BY <1>1, <1>2, <1>4, <1>5

\* The same after a step.
LEMMA QueueIsPrimed ==
  ASSUME PipeTypes', NEW x \in Page
  PROVE  /\ Queue(x)' \in Seq(Nat) /\ Len(Queue(x)') = Length(x)' /\ Length(x)' \in Nat
         /\ \A i \in 1..(Length(x)') : (Queue(x)')[i] = ring'[x][Slot(nread'[x] + (i - 1))]
<1>1. nread'[x] \in Counter /\ nwrite'[x] \in Counter /\ ring'[x] \in [0..(PIPESIZE - 1) -> Nat]
  BY DEF PipeTypes, Counter
<1>2. Length(x)' \in Nat /\ nread'[x] \in Nat
  <2>1. Length(x)' = Apart(nread'[x], nwrite'[x])
    BY DEF Length, Apart
  <2>2. Counter \subseteq Nat
    BY DEF Counter
  <2>3. QED
    BY Zenon, <1>1, <2>1, <2>2, Between
<1>3. ASSUME NEW i \in 1..(Length(x)')
      PROVE  (Queue(x)')[i] = ring'[x][Slot(nread'[x] + (i - 1))] /\ (Queue(x)')[i] \in Nat
  <2>1. nread'[x] + i - 1 = nread'[x] + (i - 1) /\ nread'[x] + (i - 1) \in Nat
    BY <1>2
  <2>2. (Queue(x)')[i] = ring'[x][(nread'[x] + i - 1) % PIPESIZE]
    BY DEF Queue
  <2>3. (Queue(x)')[i] = ring'[x][Slot(nread'[x] + (i - 1))]
    BY <2>1, <2>2 DEF Slot
  <2>4. QED
    BY Zenon, <1>1, <2>1, <2>3, InRing
<1>4. Queue(x)' = [i \in 1..(Length(x)') |-> (Queue(x)')[i]]
  BY DEF Queue
<1>5. Queue(x)' \in Seq(Nat) /\ Len(Queue(x)') = Length(x)'
  BY SMTT(30), <1>2, <1>3, <1>4
<1>6. QED
  BY <1>2, <1>3, <1>5

\* A queue stays as long as its ring and counters do.
LEMMA QueueFrame ==
  ASSUME NEW x \in Page, nread'[x] = nread[x], nwrite'[x] = nwrite[x], ring'[x] = ring[x]
  PROVE  Queue(x)' = Queue(x)
<1>1. Length(x)' = Length(x)
  BY DEF Length
<1>2. QED
  BY <1>1, Zenon DEF Queue

\* piperead takes k bytes from the queue.
LEMMA QueueTaken ==
  ASSUME PipeTypes, PipeTypes', NEW x \in Page, NEW k \in Nat, k <= Length(x),
         nwrite' = nwrite, ring' = ring, nread' = [nread EXCEPT ![x] = (@ + k) % UINT]
  PROVE  Queue(x)' = SubSeq(Queue(x), k + 1, Len(Queue(x)))
<1>1. Length(x)' = Length(x) - k /\ Length(x) \in Nat
  BY Zenon, LengthShrinks, LengthFacts
<1>2. nread'[x] = Ahead(nread[x], k) /\ nread[x] \in Counter /\ nread[x] \in Nat /\ k \in Counter
  <2>1. nread'[x] = Ahead(nread[x], k)
    BY DEF PipeTypes, Ahead
  <2>2. nread[x] \in Counter /\ Length(x) \in Counter
    BY Counters, Between
  <2>3. QED
    BY <2>1, <2>2, <1>1, RingSize DEF Counter
<1>3. SubSeq(Queue(x), k + 1, Len(Queue(x))) \in Seq(Nat)
  BY <1>1, QueueIs
<1>4. Len(SubSeq(Queue(x), k + 1, Len(Queue(x)))) = Length(x) - k
  BY <1>1, QueueIs
<1>5. ASSUME NEW i \in 1..(Length(x) - k)
      PROVE  (Queue(x)')[i] = SubSeq(Queue(x), k + 1, Len(Queue(x)))[i]
  <2>1. (Queue(x)')[i] = ring[x][Slot(Ahead(nread[x], k) + (i - 1))]
    BY Zenon, <1>1, <1>2, QueueIsPrimed
  <2>2. SubSeq(Queue(x), k + 1, Len(Queue(x)))[i] = Queue(x)[i + k]
    BY <1>1, QueueIs
  <2>3. i + k \in 1..Length(x)
    BY <1>1
  <2>4. Queue(x)[i + k] = ring[x][Slot(nread[x] + (i + k - 1))]
    BY <2>3, QueueIs
  <2>5. i - 1 \in Nat
    OBVIOUS
  <2>6. Slot(Ahead(nread[x], k) + (i - 1)) = Slot(nread[x] + k + (i - 1))
    BY <1>2, <2>5, SlotAhead
  <2>7. nread[x] + (i + k - 1) = nread[x] + k + (i - 1)
    BY <1>2
  <2>8. QED
    BY Zenon, <2>1, <2>2, <2>4, <2>6, <2>7
<1>6. QED
  BY Zenon, <1>1, <1>3, <1>4, <1>5, SeqEq, QueueIsPrimed

\* Sequences: the elements of v \o u and of the first k elements of s.
LEMMA ConcatFacts ==
  ASSUME NEW v \in Seq(Nat), NEW u \in Seq(Nat)
  PROVE  /\ v \o u \in Seq(Nat) /\ Len(v \o u) = Len(v) + Len(u)
         /\ \A i \in 1..Len(v) : (v \o u)[i] = v[i]
         /\ \A j \in 1..Len(u) : (v \o u)[Len(v) + j] = u[j]
OBVIOUS

\* The first k elements of a sequence.
LEMMA PrefixFacts ==
  ASSUME NEW s \in Seq(Nat), NEW k \in Nat, k <= Len(s)
  PROVE  /\ SubSeq(s, 1, k) \in Seq(Nat) /\ Len(SubSeq(s, 1, k)) = k
         /\ \A j \in 1..k : SubSeq(s, 1, k)[j] = s[j]
OBVIOUS

\* A sequence whose two parts are v and u.
LEMMA ConcatIs ==
  ASSUME NEW v \in Seq(Nat), NEW u \in Seq(Nat), NEW t \in Seq(Nat), Len(t) = Len(v) + Len(u),
         \A i \in 1..Len(v) : t[i] = v[i], \A j \in 1..Len(u) : t[Len(v) + j] = u[j]
  PROVE  t = v \o u
<1>1. /\ v \o u \in Seq(Nat) /\ Len(v \o u) = Len(v) + Len(u)
      /\ \A i \in 1..Len(v) : (v \o u)[i] = v[i]
      /\ \A j \in 1..Len(u) : (v \o u)[Len(v) + j] = u[j]
  BY ConcatFacts, Zenon
<1>2. PICK z \in Seq(Nat) : z = v \o u
  BY Zenon, <1>1
<1>3. /\ Len(z) = Len(v) + Len(u)
      /\ \A i \in 1..Len(v) : z[i] = v[i]
      /\ \A j \in 1..Len(u) : z[Len(v) + j] = u[j]
  BY <1>1, <1>2, Zenon
<1>4. Len(v) \in Nat /\ Len(u) \in Nat
  OBVIOUS
<1>5. ASSUME NEW i \in 1..Len(t) PROVE t[i] = z[i]
  <2>1. CASE i <= Len(v)
    BY <1>3, <1>4, <2>1
  <2>2. CASE i > Len(v)
    <3>1. PICK j \in 1..Len(u) : i = Len(v) + j
      <4>1. i - Len(v) \in 1..Len(u) /\ i = Len(v) + (i - Len(v))
        BY <1>4, <2>2
      <4>2. QED
        BY Zenon, <4>1
    <3>2. QED
      BY <1>3, <3>1
  <2>3. QED
    BY <1>4, <2>1, <2>2
<1>6. QED
  BY Zenon, <1>2, <1>3, <1>5, SeqEq

\* The bytes of s go to the slots behind nwrite, and the other slots stay.
Hits(x, k, i) == {j \in 1..k : (nwrite[x] + j - 1) % PIPESIZE = i}

\* What a slot holds after pipewrite.
LEMMA StoredIs ==
  ASSUME NEW x, NEW s, NEW k, NEW i \in 0..(PIPESIZE - 1)
  PROVE  Stored(x, s, k)[i] = IF Hits(x, k, i) = {} THEN ring[x][i] ELSE s[Max(Hits(x, k, i))]
BY DEF Stored, Hits

\* A slot that is written.
LEMMA StoredHit ==
  ASSUME NEW x, NEW s, NEW k, NEW i \in 0..(PIPESIZE - 1), NEW h, Hits(x, k, i) # {}, h = Max(Hits(x, k, i))
  PROVE  Stored(x, s, k)[i] = s[h]
BY StoredIs

\* The greatest element of a singleton.
LEMMA MaxOne ==
  ASSUME NEW j \in Nat
  PROVE  Max({j}) = j
BY DEF Max

\* The bytes that go to slot i.
LEMMA HitsAre ==
  ASSUME NEW x, nwrite[x] \in Nat, NEW k \in Nat, NEW i
  PROVE  Hits(x, k, i) = {j \in 1..k : Slot(nwrite[x] + (j - 1)) = i}
<1>1. \A j \in 1..k : nwrite[x] + j - 1 = nwrite[x] + (j - 1)
  OBVIOUS
<1>2. QED
  BY <1>1, Zenon DEF Hits, Slot

\* Byte j is in its slot.
LEMMA StoredAt ==
  ASSUME NEW x, nwrite[x] \in Nat, NEW s, NEW k \in Nat, k <= PIPESIZE, NEW j \in 1..k
  PROVE  Stored(x, s, k)[Slot(nwrite[x] + (j - 1))] = s[j]
<1>1. PICK a \in Nat : a = nwrite[x] + (j - 1)
  OBVIOUS
<1>2. ASSUME NEW h \in 1..k, Slot(nwrite[x] + (h - 1)) = Slot(a) PROVE h = j
  <2>1. PICK b \in Nat : b = nwrite[x] + (h - 1)
    OBVIOUS
  <2>2. Slot(b) = Slot(a)
    BY <1>2, <2>1
  <2>3. CASE h < j
    <3>1. b < a /\ a < b + PIPESIZE
      BY <1>1, <2>1, <2>3, RingSize
    <3>2. QED
      BY <2>2, <3>1, SlotsDiffer
  <2>4. CASE j < h
    <3>1. a < b /\ b < a + PIPESIZE
      BY <1>1, <2>1, <2>4, RingSize
    <3>2. QED
      BY <2>2, <3>1, SlotsDiffer
  <2>5. QED
    BY <2>3, <2>4
<1>3. Hits(x, k, Slot(a)) = {j}
  BY <1>1, <1>2, HitsAre
<1>4. PICK i \in 0..(PIPESIZE - 1) : i = Slot(a)
  BY InRing
<1>5. Stored(x, s, k)[i] = s[j]
  <2>1. Hits(x, k, i) = {j} /\ Max({j}) = j /\ {j} # {}
    BY <1>3, <1>4, MaxOne
  <2>2. Hits(x, k, i) # {} /\ j = Max(Hits(x, k, i))
    BY <2>1
  <2>3. QED
    BY <2>2, StoredHit
<1>6. QED
  BY <1>1, <1>4, <1>5

\* A slot that no byte goes to.
LEMMA StoredElsewhere ==
  ASSUME NEW x, nwrite[x] \in Nat, NEW s, NEW k \in Nat, NEW i \in 0..(PIPESIZE - 1),
         \A j \in 1..k : Slot(nwrite[x] + (j - 1)) # i
  PROVE  Stored(x, s, k)[i] = ring[x][i]
<1>1. Hits(x, k, i) = {}
  BY HitsAre
<1>2. QED
  BY <1>1, StoredIs

\* The slots behind w hold the first k bytes of s, the others are as before, and v lists
\* L bytes from r on.
Holds(new, w, k, s) == \A j \in 1..k : new[Slot(w + (j - 1))] = s[j]

Keeps(new, old, w, k) ==
  \A i \in 0..(PIPESIZE - 1) : (\A j \in 1..k : Slot(w + (j - 1)) # i) => new[i] = old[i]

Lists(v, L, r, slots) == v \in Seq(Nat) /\ Len(v) = L /\ \A i \in 1..L : v[i] = slots[Slot(r + (i - 1))]

\* There are k bytes in s, and room for them behind w.
Fits(r, w, k, s) ==
  /\ r \in Counter /\ w \in Counter /\ k \in Nat /\ Apart(r, w) + k <= PIPESIZE
  /\ s \in Seq(Nat) /\ k <= Len(s)

\* The bytes already there and the new ones have different slots.
LEMMA Behind ==
  ASSUME NEW r \in Nat, NEW L \in Nat, NEW k \in Nat, L + k <= PIPESIZE, NEW i \in 1..L, NEW j \in 1..k
  PROVE  Slot(r + (i - 1)) # Slot(r + L + (j - 1))
<1>1. PICK a \in Nat : a = r + (i - 1)
  OBVIOUS
<1>2. PICK b \in Nat : b = r + L + (j - 1)
  OBVIOUS
<1>3. a < b /\ b < a + PIPESIZE
  BY <1>1, <1>2, RingSize
<1>4. QED
  BY <1>1, <1>2, <1>3, SlotsDiffer

\* The new bytes come after the old ones.
LEMMA Appended ==
  ASSUME NEW r, NEW w, NEW k, NEW s, Fits(r, w, k, s), NEW old, NEW new,
         Holds(new, w, k, s), Keeps(new, old, w, k),
         NEW v, Lists(v, Apart(r, w), r, old), NEW t, Lists(t, Apart(r, w) + k, r, new)
  PROVE  t = v \o SubSeq(s, 1, k)
<1>0. PICK L : L = Apart(r, w)
  OBVIOUS
<1>a. /\ r \in Counter /\ w \in Counter /\ L \in Nat /\ k \in Nat /\ L + k <= PIPESIZE /\ s \in Seq(Nat)
      /\ k <= Len(s) /\ Lists(v, L, r, old) /\ Lists(t, L + k, r, new)
  BY <1>0, Between, RingSize DEF Fits, Counter
<1> USE <1>a
<1>1. PICK u \in Seq(Nat) : u = SubSeq(s, 1, k) /\ Len(u) = k /\ \A j \in 1..k : u[j] = s[j]
  BY Zenon, PrefixFacts
<1>2. L \in Counter /\ w = Ahead(r, L)
  BY <1>0, Between, WriteIsAhead
<1>3. r \in Nat
  BY RingSize DEF Counter
<1>4. ASSUME NEW j \in 1..k PROVE Slot(w + (j - 1)) = Slot(r + L + (j - 1))
  <2>1. j - 1 \in Nat
    OBVIOUS
  <2>2. QED
    BY <1>2, <2>1, SlotAhead
<1>5. ASSUME NEW i \in 1..L PROVE t[i] = v[i]
  <2>1. \A j \in 1..k : Slot(w + (j - 1)) # Slot(r + (i - 1))
    <3>1. ASSUME NEW j \in 1..k PROVE Slot(w + (j - 1)) # Slot(r + (i - 1))
      <4>1. Slot(r + (i - 1)) # Slot(r + L + (j - 1))
        BY Zenon, <1>3, Behind
      <4>2. QED
        BY <1>4, <4>1, Zenon
    <3>2. QED
      BY <3>1
  <2>2. r + (i - 1) \in Nat
    BY <1>3
  <2>3. Slot(r + (i - 1)) \in 0..(PIPESIZE - 1)
    BY <2>2, InRing
  <2>4. new[Slot(r + (i - 1))] = old[Slot(r + (i - 1))]
    BY Zenon, <2>1, <2>3 DEF Keeps
  <2>5. i \in 1..(L + k)
    OBVIOUS
  <2>6. QED
    BY Zenon, <2>4, <2>5 DEF Lists
<1>6. ASSUME NEW j \in 1..k PROVE t[L + j] = u[j]
  <2>1. PICK i \in 1..(L + k) : i = L + j
    <3>1. L + j \in 1..(L + k)
      OBVIOUS
    <3>2. QED
      BY <3>1, Zenon
  <2>2. r + (i - 1) = r + L + (j - 1)
    BY <1>3, <2>1
  <2>3. t[i] = new[Slot(r + (i - 1))]
    BY Zenon DEF Lists
  <2>4. new[Slot(w + (j - 1))] = s[j]
    BY DEF Holds
  <2>5. QED
    BY Zenon, <1>1, <1>4, <2>1, <2>2, <2>3, <2>4
<1>7. v \in Seq(Nat) /\ Len(v) = L /\ t \in Seq(Nat) /\ Len(t) = L + k
  BY Zenon DEF Lists
<1>8. QED
  <2>1. \A i \in 1..Len(v) : t[i] = v[i]
    BY <1>5, <1>7, Zenon
  <2>2. \A j \in 1..Len(u) : t[Len(v) + j] = u[j]
    BY <1>1, <1>6, <1>7, Zenon
  <2>3. Len(t) = Len(v) + Len(u)
    BY Zenon, <1>1, <1>7
  <2>4. t = v \o u
    BY <1>7, <2>1, <2>2, <2>3, ConcatIs, Zenon
  <2>5. QED
    BY <1>1, <2>4, Zenon

\* pipewrite puts k bytes at the end of the queue.
LEMMA QueuePut ==
  ASSUME PipeTypes, PipeTypes', NEW x \in Page, NEW s \in Seq(Nat), NEW k \in Nat, k <= Len(s),
         Length(x) + k <= PIPESIZE, Length(x)' = Length(x) + k, nread' = nread,
         ring'[x] = Stored(x, s, k)
  PROVE  Queue(x)' = Queue(x) \o SubSeq(s, 1, k)
<1>1. nread[x] \in Counter /\ nwrite[x] \in Counter /\ Length(x) = Apart(nread[x], nwrite[x])
  BY Zenon, Counters
<1>2. nwrite[x] \in Nat /\ Length(x) \in Nat
  BY <1>1, LengthFacts, RingSize DEF Counter
<1>3. k <= PIPESIZE
  BY <1>2, RingSize
<1>4. Holds(Stored(x, s, k), nwrite[x], k, s)
  BY <1>2, <1>3, StoredAt DEF Holds
<1>5. Keeps(Stored(x, s, k), ring[x], nwrite[x], k)
  BY Zenon, <1>2, StoredElsewhere DEF Keeps
<1>6. Lists(Queue(x), Length(x), nread[x], ring[x])
  BY QueueIs DEF Lists
<1>7. Lists(Queue(x)', Length(x) + k, nread[x], Stored(x, s, k))
  BY QueueIsPrimed DEF Lists
<1>8. QED
  <2>1. Fits(nread[x], nwrite[x], k, s)
    BY Zenon, <1>1 DEF Fits
  <2>2. /\ Lists(Queue(x), Apart(nread[x], nwrite[x]), nread[x], ring[x])
        /\ Lists(Queue(x)', Apart(nread[x], nwrite[x]) + k, nread[x], Stored(x, s, k))
    BY <1>1, <1>6, <1>7, Zenon
  <2>3. QED
    BY <1>4, <1>5, <2>1, <2>2, Appended, Zenon

\* The queue of a pipe.
LEMMA QueuesAt ==
  ASSUME NEW x \in Page
  PROVE  Queues[x] = Queue(x)
BY DEF Queues

\* A step that changes neither ring nor counters, ends or out.
LEMMA Stutters ==
  ASSUME ring' = ring, nread' = nread, nwrite' = nwrite, open' = open, out' = out
  PROVE  UNCHANGED Stream!vars
<1>1. \A x \in Page : Queue(x)' = Queue(x)
  BY QueueFrame
<1>2. Queues' = [x \in Page |-> Queue(x)']
  BY DEF Queues
<1>3. Queues' = Queues
  BY <1>1, <1>2 DEF Queues
<1>4. QED
  BY <1>3 DEF Stream!vars

\* The queue of one pipe changes.
LEMMA QueuesOne ==
  ASSUME NEW x \in Page, NEW v, Queue(x)' = v, \A y \in Page : y # x => Queue(y)' = Queue(y)
  PROVE  Queues' = [Queues EXCEPT ![x] = v]
<1>1. Queues' = [y \in Page |-> Queue(y)']
  BY DEF Queues
<1>2. [Queues EXCEPT ![x] = v] = [y \in Page |-> IF y = x THEN v ELSE Queue(y)]
  BY Zenon DEF Queues
<1>3. \A y \in Page : Queue(y)' = IF y = x THEN v ELSE Queue(y)
  OBVIOUS
<1>4. QED
  BY <1>1, <1>2, <1>3, Zenon

\* The first bytes of the rest of a buffer are a section of the buffer.
LEMMA PrefixOfRest ==
  ASSUME NEW s \in Seq(Nat), NEW i \in 1..Len(s), NEW r, r = SubSeq(s, i, Len(s)),
         NEW k \in Nat, k <= Len(r), k > 0
  PROVE  /\ i + k - 1 \in 1..Len(s) /\ (i + k - 1) + 1 - i = k
         /\ SubSeq(r, 1, k) = SubSeq(s, i, i + k - 1)
<1>1. r \in Seq(Nat) /\ Len(s) \in Nat /\ Len(r) = Len(s) - i + 1
  OBVIOUS
<1>2. i + k - 1 \in 1..Len(s) /\ (i + k - 1) + 1 - i = k
  BY <1>1
<1>3. /\ SubSeq(r, 1, k) \in Seq(Nat) /\ Len(SubSeq(r, 1, k)) = k
      /\ \A j \in 1..k : SubSeq(r, 1, k)[j] = r[j]
  BY Zenon, <1>1, PrefixFacts
<1>4. /\ SubSeq(s, i, i + k - 1) \in Seq(Nat) /\ Len(SubSeq(s, i, i + k - 1)) = k
      /\ \A j \in 1..k : SubSeq(s, i, i + k - 1)[j] = s[i + j - 1]
  BY <1>2
<1>5. \A j \in 1..k : r[j] = s[i + j - 1]
  BY <1>1
<1>6. QED
  BY <1>2, <1>3, <1>4, <1>5, SeqEq

\* Writing no bytes leaves the ring as it is.
LEMMA NothingStored ==
  ASSUME PipeTypes, NEW x \in Page, NEW s
  PROVE  Stored(x, s, 0) = ring[x]
<1>1. \A i \in 0..(PIPESIZE - 1) : Hits(x, 0, i) = {}
  BY DEF Hits
<1>2. \A i \in 0..(PIPESIZE - 1) : Stored(x, s, 0)[i] = ring[x][i]
  BY <1>1, StoredIs
<1>3. ring[x] \in [0..(PIPESIZE - 1) -> Nat]
  BY DEF PipeTypes
<1>4. Stored(x, s, 0) = [i \in 0..(PIPESIZE - 1) |-> Stored(x, s, 0)[i]]
  BY DEF Stored
<1>5. QED
  BY Zenon, <1>2, <1>3, <1>4
=============================================================================
