------------------------------- MODULE LogInv -------------------------------
(* The inductive invariant of Log. *)
EXTENDS Log

Distinct(s) == \A i, j \in 1..Len(s) : s[i] = s[j] => i = j

\* Log blocks that running operations may still claim, one pair for each.
Credits ==
  {c \in Proc \X (1..MAXOPBLOCKS) : c[1] \in Active /\ Cardinality(wrote[c[1]]) < c[2]}

(* Space: what is logged and what begin_op has promised fits the log.  *)
SpaceInv ==
  /\ outstanding = Cardinality(Active)
  /\ Len(lh) + Cardinality(Credits) <= LOGSIZE
  /\ Len(lh) <= NLOG - 1 /\ Len(head) <= NLOG - 1 /\ Len(head) <= LOGSIZE
  /\ \A p \in Proc :
       /\ wrote[p] \subseteq Elems(lh)
       /\ IsFiniteSet(wrote[p]) /\ Cardinality(wrote[p]) <= MaxWrites
       /\ pc[p] # "op" => wrote[p] = {}

(* Control: commit and recovery exclude operations and each other.  *)
ControlInv ==
  /\ ~panicked
  /\ committing <=> Up /\ stage \in {"write_log", "install", "done"}
  /\ committing => Active = {}
  /\ booting => /\ stage \in {"read_head", "install"}
                /\ pc = [p \in Proc |-> "idle"]
                /\ dirty = {}
  /\ Up => stage # "read_head"
  /\ Up /\ stage = "run" /\ Active = {} => lh = <<>>
  /\ tail <= Len(lh)

(* The elements of a sequence after its first n.  *)
Rest(s, n) == {s[i] : i \in (n + 1)..Len(s)}

(* Data: where the latest contents of a block are, at each point of commit.  *)
DataInv ==
  /\ Distinct(lh) /\ Distinct(head)
  /\ \A b \in dirty : cache[b] # NoVal
  /\ \A b \in Block : b \notin dirty /\ cache[b] # NoVal => cache[b] = home[b]
  /\ stage \in {"run", "write_log"} => dirty = Elems(lh) /\ head = <<>>
  /\ stage = "write_log" => \A i \in 1..tail : logd[i] = cache[lh[i]]
  /\ stage = "install" =>
       /\ head = lh
       /\ \A i \in 1..tail : home[lh[i]] = logd[i]
       /\ Up => /\ dirty = Rest(lh, tail)
                /\ \A i \in (tail + 1)..Len(lh) : cache[lh[i]] = logd[i]
  /\ stage = "done" => dirty = {} /\ lh = <<>> /\ head = <<>>
  /\ stage = "read_head" => lh = <<>>

(* The inductive invariant: TypeOK and the space, control and data parts, which
   together say why the log neither overflows nor loses an update.  *)
IInv == TypeOK /\ SpaceInv /\ ControlInv /\ DataInv

(* The number of log blocks an operation writes leaves begin_op's estimate
   right although it forgets the header block that sb.nlog counts.  *)
LogFits ==
  /\ MaxWrites < MAXOPBLOCKS
  /\ LOGSIZE + MaxWrites + 1 < NLOG + MAXOPBLOCKS
=============================================================================
