---------------------------- MODULE DurableStore ----------------------------
(***************************************************************************)
(* What the xv6 log promises to the file system above it (log.c:9-21):     *)
(* operations update blocks, and a crash finds every block as it was at    *)
(* an instant when no operation was in progress.  Operations are           *)
(* committed as a group, all of their updates or none.                     *)
(***************************************************************************)
CONSTANTS
  Proc,    \* processes that make file system calls
  Block,   \* home blocks of the file system
  Val      \* contents of a block

VARIABLES
  mem,      \* the blocks as the running system sees them
  durable,  \* the blocks as a restart would find them
  active    \* processes between begin_op and end_op

vars == <<mem, durable, active>>

Init ==
  /\ durable \in [Block -> Val]
  /\ mem = durable
  /\ active = {}

\* A process starts an operation.
Begin(p) ==
  /\ p \notin active
  /\ active' = active \cup {p}
  /\ UNCHANGED <<mem, durable>>

\* A process updates a block, inside an operation only.
Write(p, b, v) ==
  /\ p \in active
  /\ mem' = [mem EXCEPT ![b] = v]
  /\ UNCHANGED <<durable, active>>

\* A process ends its operation.
End(p) ==
  /\ p \in active
  /\ active' = active \ {p}
  /\ UNCHANGED <<mem, durable>>

\* Everything done so far becomes durable at once, between operations.
Commit ==
  /\ active = {}
  /\ durable' = mem
  /\ UNCHANGED <<mem, active>>

\* A crash loses what is not durable, and no more.
Crash ==
  /\ mem' = durable
  /\ active' = {}
  /\ UNCHANGED durable

Next ==
  \/ \E p \in Proc : Begin(p) \/ End(p)
  \/ \E p \in Proc, b \in Block, v \in Val : Write(p, b, v)
  \/ Commit
  \/ Crash

Spec == Init /\ [][Next]_vars
=============================================================================
