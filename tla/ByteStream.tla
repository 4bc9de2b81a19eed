----------------------------- MODULE ByteStream -----------------------------
(***************************************************************************)
(* What a pipe promises: bytes come out in the order they went in, none is *)
(* lost or repeated while an end is open, at most Capacity are under way,  *)
(* and a reader sees the end of the stream only when every writer is gone  *)
(* and everything has been read.                                           *)
(***************************************************************************)
EXTENDS Naturals, Sequences

CONSTANTS Pipe, Capacity, Bufs

VARIABLES
  queue,  \* bytes written and not read yet
  ends,   \* ends of the pipe that are open: "r", "w"
  out     \* what the last read has given

vars == <<queue, ends, out>>

Init ==
  /\ queue = [x \in Pipe |-> <<>>]
  /\ ends = [x \in Pipe |-> {}]
  /\ out = <<>>

Open(x) ==
  /\ ends[x] = {}
  /\ ends' = [ends EXCEPT ![x] = {"r", "w"}]
  /\ queue' = [queue EXCEPT ![x] = <<>>]
  /\ UNCHANGED out

Shut(x, e) ==
  /\ e \in ends[x]
  /\ ends' = [ends EXCEPT ![x] = @ \ {e}]
  /\ UNCHANGED <<queue, out>>

\* Some bytes in the middle of a buffer are written.
Put(x) ==
  /\ "w" \in ends[x]
  /\ \E buf \in Bufs : \E i, j \in 1..Len(buf) :
       /\ Len(queue[x]) + (j + 1 - i) <= Capacity
       /\ queue' = [queue EXCEPT ![x] = @ \o SubSeq(buf, i, j)]
  /\ UNCHANGED <<ends, out>>

Take(x) ==
  /\ "r" \in ends[x]
  /\ queue[x] = <<>> => "w" \notin ends[x]
  /\ \E k \in 0..Len(queue[x]) :
       /\ k = 0 => queue[x] = <<>>
       /\ out' = SubSeq(queue[x], 1, k)
       /\ queue' = [queue EXCEPT ![x] = SubSeq(@, k + 1, Len(@))]
  /\ UNCHANGED ends

Next ==
  \E x \in Pipe :
    \/ Open(x) \/ Put(x) \/ Take(x)
    \/ \E e \in {"r", "w"} : Shut(x, e)

Spec == Init /\ [][Next]_vars
=============================================================================
