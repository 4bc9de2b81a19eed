------------------------------ MODULE ProcInv ------------------------------
(* The inductive invariant of Proc. *)
EXTENDS Proc

(* Slots: which ones are in use, and what a free or new one still points to.  *)
TableInv ==
  /\ state[initproc] \in Alive /\ parent[initproc] = Null
  /\ at[initproc] = "exit" => panicked
  /\ \A s \in Slot :
       /\ parent[s] # s
       /\ state[s] \notin Alive => at[s] \in {"user", "exit"}
       /\ state[s] = "UNUSED" => parent[s] = Null
       /\ state[s] = "EMBRYO" /\ parent[s] # Null =>
            at[parent[s]] = "copied" /\ kid[parent[s]] = s

Forking(p) == at[p] \in {"alloc", "copied"}

(* fork owns the slot it fills in: no one else runs, reaps or reuses it.  *)
ForkInv ==
  \A p \in Slot : Forking(p) =>
    /\ kid[p] \in Slot /\ state[kid[p]] = "EMBRYO"
    /\ parent[kid[p]] = IF at[p] = "alloc" THEN Null ELSE p
    /\ \A q \in Slot \ {p} : Forking(q) => kid[q] # kid[p]

(* sleep: who may be asleep where, and who holds tickslock.  *)
SleepInv ==
  \A p \in Slot :
    /\ Asleep(p) => \/ chan[p] = p /\ at[p] = "wait"
                    \/ chan[p] = Ticks /\ at[p] = "woken"
    /\ at[p] \in {"test", "sleep"} => tickslock = p /\ state[p] = "RUNNING"
    /\ at[p] = "sleep" => left[p] > 0

(* The inductive invariant: what fork, exit, wait, kill, sleep and the clock
   rely on when they find the table as some other process left it.  *)
PInv == TypeOK /\ TableInv /\ ForkInv /\ SleepInv /\ ParentsLive /\ NoLostWakeup
=============================================================================
