-------------------------------- MODULE Proc --------------------------------
(***************************************************************************)
(* Processes of xv6 (xv6/base/proc.c): fork, exit, wait, kill, sleep and   *)
(* wakeup, the scheduler, and the clock with sys_sleep as the user of      *)
(* sleep with a lock of its own (trap.c, sysproc.c).  A section of code    *)
(* under ptable.lock is one step; a process takes steps while RUNNING.     *)
(***************************************************************************)
EXTENDS Naturals, FiniteSets

CONSTANTS
  NPROC,     \* param.h: slots of the process table
  NCPU,      \* processors
  KillPids,  \* pids that processes pass to kill
  MaxPid,    \* bound on nextpid: forks of the workload
  MaxSleep   \* bound on the argument of sys_sleep

ASSUME ProcConstants ==
  /\ NPROC \in Nat /\ NCPU \in Nat /\ MaxPid \in Nat /\ MaxSleep \in Nat
  /\ NPROC > 0 /\ KillPids \subseteq Nat

Slot == 1..NPROC
initproc == 1
Null == 0            \* a null pointer, and pid 0
Timer == NPROC + 1   \* the clock interrupt, as a holder of tickslock
Ticks == NPROC + 1   \* &ticks, as a channel; a process sleeps on itself in wait

VARIABLES
  state,      \* p->state
  parent,     \* p->parent
  killed,     \* p->killed
  pid,        \* p->pid
  chan,       \* p->chan
  at,         \* where in the kernel the process is
  kid,        \* np, the local variable of fork
  left,       \* n - (ticks - ticks0) of sys_sleep, at least 0
  nextpid,
  tickslock,  \* holder of tickslock
  panicked

ptable == <<state, parent, killed, pid, chan>>
clock == <<left, tickslock>>
vars == <<ptable, at, kid, clock, nextpid, panicked>>

Alive == {"RUNNABLE", "RUNNING", "SLEEPING"}
Asleep(s) == state[s] = "SLEEPING"
Children(s) == {c \in Slot : parent[c] = s}
Zombies(s) == {c \in Children(s) : state[c] = "ZOMBIE"}
\* The slot that a loop over ptable.proc meets first.
First(s, S) == s \in S /\ \A t \in S : s <= t

TypeOK ==
  /\ state \in [Slot -> Alive \cup {"UNUSED", "EMBRYO", "ZOMBIE"}]
  /\ parent \in [Slot -> Slot \cup {Null}]
  /\ killed \in [Slot -> BOOLEAN]
  /\ pid \in [Slot -> Nat]
  /\ chan \in [Slot -> Slot \cup {Null, Ticks}]
  /\ at \in [Slot -> {"user", "alloc", "copied", "failed", "wait", "test", "sleep", "woken", "exit"}]
  /\ kid \in [Slot -> Slot \cup {Null}]
  /\ left \in [Slot -> 0..MaxSleep]
  /\ nextpid \in Nat
  /\ tickslock \in Slot \cup {Null, Timer}
  /\ panicked \in BOOLEAN

\* userinit has made the first process.
Init ==
  /\ state = [s \in Slot |-> IF s = initproc THEN "RUNNABLE" ELSE "UNUSED"]
  /\ parent = [s \in Slot |-> Null]
  /\ killed = [s \in Slot |-> FALSE]
  /\ pid = [s \in Slot |-> IF s = initproc THEN 1 ELSE 0]
  /\ chan = [s \in Slot |-> Null]
  /\ at = [s \in Slot |-> "user"]
  /\ kid = [s \in Slot |-> Null]
  /\ left = [s \in Slot |-> 0]
  /\ nextpid = 2
  /\ tickslock = Null
  /\ panicked = FALSE

-----------------------------------------------------------------------------
(* Scheduling *)

\* scheduler: a processor picks a process, which tidies up after sched.
Schedule(p) ==
  /\ state[p] = "RUNNABLE" /\ Cardinality({s \in Slot : state[s] = "RUNNING"}) < NCPU
  /\ state' = [state EXCEPT ![p] = "RUNNING"]
  /\ chan' = [chan EXCEPT ![p] = Null]
  /\ UNCHANGED <<parent, killed, pid, at, kid, clock, nextpid, panicked>>

\* yield on a clock tick; interrupts are off while the process holds a lock or
\* spins for one.
Yield(p) ==
  /\ state[p] = "RUNNING" /\ tickslock # p /\ at[p] # "woken"
  /\ state' = [state EXCEPT ![p] = "RUNNABLE"]
  /\ UNCHANGED <<parent, killed, pid, chan, at, kid, clock, nextpid, panicked>>

\* wakeup1, on the states f.
Wakeup1(f, c) ==
  [s \in Slot |-> IF f[s] = "SLEEPING" /\ chan[s] = c THEN "RUNNABLE" ELSE f[s]]

\* A process in user space makes a system call; trap first tests p->killed.
Enters(p) == state[p] = "RUNNING" /\ at[p] = "user" /\ ~killed[p]

-----------------------------------------------------------------------------
(* fork *)

\* Where a process goes when fork has failed: init gives up, others try again.
AfterFailedFork(p) == IF p = initproc THEN "failed" ELSE "user"

\* allocproc finds no unused slot.
ForkRefused(p) ==
  /\ Enters(p) /\ \A s \in Slot : state[s] # "UNUSED"
  /\ at' = [at EXCEPT ![p] = AfterFailedFork(p)]
  /\ UNCHANGED <<ptable, kid, clock, nextpid, panicked>>

\* allocproc takes the first one.
ForkAlloc(p) ==
  /\ Enters(p) /\ nextpid <= MaxPid
  /\ \E np \in Slot :
       /\ First(np, {s \in Slot : state[s] = "UNUSED"})
       /\ state' = [state EXCEPT ![np] = "EMBRYO"]
       /\ pid' = [pid EXCEPT ![np] = nextpid]
       /\ kid' = [kid EXCEPT ![p] = np]
  /\ nextpid' = nextpid + 1
  /\ at' = [at EXCEPT ![p] = "alloc"]
  /\ UNCHANGED <<parent, killed, chan, clock, panicked>>

\* kalloc or copyuvm has no memory: the slot is given back, without the lock.
ForkFail(p) ==
  /\ state[p] = "RUNNING" /\ at[p] = "alloc"
  /\ state' = [state EXCEPT ![kid[p]] = "UNUSED"]
  /\ at' = [at EXCEPT ![p] = AfterFailedFork(p)]
  /\ kid' = [kid EXCEPT ![p] = Null]
  /\ UNCHANGED <<parent, killed, pid, chan, clock, nextpid, panicked>>

\* The child is filled in, without the lock.
ForkCopy(p) ==
  /\ state[p] = "RUNNING" /\ at[p] = "alloc"
  /\ parent' = [parent EXCEPT ![kid[p]] = p]
  /\ at' = [at EXCEPT ![p] = "copied", ![kid[p]] = "user"]
  /\ UNCHANGED <<state, killed, pid, chan, kid, clock, nextpid, panicked>>

ForkDone(p) ==
  /\ state[p] = "RUNNING" /\ at[p] = "copied"
  /\ state' = [state EXCEPT ![kid[p]] = "RUNNABLE"]
  /\ at' = [at EXCEPT ![p] = "user"]
  /\ kid' = [kid EXCEPT ![p] = Null]
  /\ UNCHANGED <<parent, killed, pid, chan, clock, nextpid, panicked>>

-----------------------------------------------------------------------------
(* exit, wait, kill *)

\* exit is called, by the process or by trap because it was killed, and closes
\* its files.  init leaves only when it is killed or cannot fork, and panics.
Exit(p) ==
  /\ state[p] = "RUNNING"
  /\ \/ at[p] = "user" /\ (killed[p] \/ p # initproc)
     \/ at[p] = "failed"
  /\ panicked' = (p = initproc)
  /\ at' = [at EXCEPT ![p] = "exit"]
  /\ UNCHANGED <<ptable, kid, clock, nextpid>>

\* The rest of exit, under ptable.lock until the scheduler has it.
ExitZombie(p) ==
  /\ state[p] = "RUNNING" /\ at[p] = "exit"
  /\ LET woken == Wakeup1(state, parent[p])
     IN state' = [(IF Zombies(p) # {} THEN Wakeup1(woken, initproc) ELSE woken)
                    EXCEPT ![p] = "ZOMBIE"]
  /\ parent' = [s \in Slot |-> IF parent[s] = p THEN initproc ELSE parent[s]]
  /\ UNCHANGED <<killed, pid, chan, at, kid, clock, nextpid, panicked>>

CallWait(p) ==
  /\ Enters(p)
  /\ at' = [at EXCEPT ![p] = "wait"]
  /\ UNCHANGED <<ptable, kid, clock, nextpid, panicked>>

\* Mutant: wait never looks at the last slot.
ReapButLast(p) ==
  \E c \in Slot \ {NPROC} :
    /\ First(c, Zombies(p))
    /\ state' = [state EXCEPT ![c] = "UNUSED"]
    /\ parent' = [parent EXCEPT ![c] = Null]
    /\ killed' = [killed EXCEPT ![c] = FALSE]
    /\ pid' = [pid EXCEPT ![c] = 0]
    /\ at' = [at EXCEPT ![p] = "user"]
    /\ UNCHANGED chan

\* One round of wait: reap a zombie, give up, or sleep.
Reap(p) ==
  \E c \in Slot :
    /\ First(c, Zombies(p))
    /\ state' = [state EXCEPT ![c] = "UNUSED"]
    /\ parent' = [parent EXCEPT ![c] = Null]
    /\ killed' = [killed EXCEPT ![c] = FALSE]
    /\ pid' = [pid EXCEPT ![c] = 0]
    /\ at' = [at EXCEPT ![p] = "user"]
    /\ UNCHANGED chan

\* Mutant: wait does not look at p->killed.
GiveUpChildless(p) ==
  /\ Zombies(p) = {} /\ Children(p) = {}
  /\ at' = [at EXCEPT ![p] = "user"]
  /\ UNCHANGED ptable

GiveUp(p) ==
  /\ Zombies(p) = {} /\ (Children(p) = {} \/ killed[p])
  /\ at' = [at EXCEPT ![p] = "user"]
  /\ UNCHANGED ptable

SleepInWait(p) ==
  /\ Zombies(p) = {} /\ Children(p) # {} /\ ~killed[p]
  /\ state' = [state EXCEPT ![p] = "SLEEPING"]
  /\ chan' = [chan EXCEPT ![p] = p]
  /\ UNCHANGED <<parent, killed, pid, at>>

Wait(p) ==
  /\ state[p] = "RUNNING" /\ at[p] = "wait"
  /\ Reap(p) \/ GiveUp(p) \/ SleepInWait(p)
  /\ UNCHANGED <<kid, clock, nextpid, panicked>>

\* kill: the first slot with that pid, whatever its state.
Kill(p) ==
  /\ Enters(p)
  /\ \E s \in Slot, k \in KillPids :
       /\ First(s, {t \in Slot : pid[t] = k})
       /\ killed' = [killed EXCEPT ![s] = TRUE]
       /\ state' = [state EXCEPT ![s] = IF @ = "SLEEPING" THEN "RUNNABLE" ELSE @]
  /\ UNCHANGED <<parent, pid, chan, at, kid, clock, nextpid, panicked>>

-----------------------------------------------------------------------------
(* The clock and sys_sleep *)

CallSleep(p) ==
  /\ Enters(p) /\ tickslock = Null
  /\ tickslock' = p
  /\ \E n \in 1..MaxSleep : left' = [left EXCEPT ![p] = n]
  /\ at' = [at EXCEPT ![p] = "test"]
  /\ UNCHANGED <<ptable, kid, nextpid, panicked>>

\* The loop of sys_sleep: return, or go on to sleep().
SleepTest(p) ==
  /\ state[p] = "RUNNING" /\ at[p] = "test"
  /\ IF left[p] = 0 \/ killed[p]
     THEN at' = [at EXCEPT ![p] = "user"] /\ tickslock' = Null
          /\ left' = [left EXCEPT ![p] = 0]
     ELSE at' = [at EXCEPT ![p] = "sleep"] /\ UNCHANGED <<tickslock, left>>
  /\ UNCHANGED <<ptable, kid, nextpid, panicked>>

\* Mutant: sleep releases the lock before it acquires ptable.lock.
SleepLate(p) ==
  /\ state[p] = "RUNNING" /\ at[p] = "sleep"
  /\ IF tickslock = p
     THEN tickslock' = Null /\ UNCHANGED <<state, chan, at>>
     ELSE /\ state' = [state EXCEPT ![p] = "SLEEPING"]
          /\ chan' = [chan EXCEPT ![p] = Ticks]
          /\ at' = [at EXCEPT ![p] = "woken"]
          /\ UNCHANGED tickslock
  /\ UNCHANGED <<parent, killed, pid, kid, left, nextpid, panicked>>

\* sleep(&ticks, &tickslock): tickslock is released under ptable.lock.
Sleep(p) ==
  /\ state[p] = "RUNNING" /\ at[p] = "sleep"
  /\ state' = [state EXCEPT ![p] = "SLEEPING"]
  /\ chan' = [chan EXCEPT ![p] = Ticks]
  /\ tickslock' = Null
  /\ at' = [at EXCEPT ![p] = "woken"]
  /\ UNCHANGED <<parent, killed, pid, kid, left, nextpid, panicked>>

\* sleep returns with tickslock held again.
SleepWoken(p) ==
  /\ state[p] = "RUNNING" /\ at[p] = "woken" /\ tickslock = Null
  /\ tickslock' = p
  /\ at' = [at EXCEPT ![p] = "test"]
  /\ UNCHANGED <<ptable, kid, left, nextpid, panicked>>

\* The clock interrupt counts, then wakes the sleepers.
Tick ==
  /\ tickslock = Null
  /\ tickslock' = Timer
  /\ left' = [s \in Slot |-> IF left[s] > 0 THEN left[s] - 1 ELSE 0]
  /\ UNCHANGED <<ptable, at, kid, nextpid, panicked>>

TickWake ==
  /\ tickslock = Timer
  /\ state' = Wakeup1(state, Ticks)
  /\ tickslock' = Null
  /\ UNCHANGED <<parent, killed, pid, chan, at, kid, left, nextpid, panicked>>

-----------------------------------------------------------------------------

Kernel(p) ==
  \/ ForkFail(p) \/ ForkCopy(p) \/ ForkDone(p)
  \/ ExitZombie(p) \/ Wait(p)
  \/ SleepTest(p) \/ Sleep(p) \/ SleepWoken(p)

Calls(p) == ForkAlloc(p) \/ ForkRefused(p) \/ Exit(p) \/ CallWait(p) \/ Kill(p) \/ CallSleep(p)

\* panic disables interrupts and loops.
Halted == panicked /\ UNCHANGED vars

Next ==
  \/ /\ ~panicked
     /\ \/ \E p \in Slot : Schedule(p) \/ Yield(p) \/ Kernel(p) \/ Calls(p)
        \/ Tick \/ TickWake
  \/ Halted

Spec == Init /\ [][Next]_vars

\* Every process gets its turn, the clock ticks, and init waits for children in
\* its endless loop (init.c).  A killed process leaves at its next trap, and init
\* when it cannot fork.
Fairness ==
  /\ \A p \in Slot :
       /\ SF_state(Schedule(p)) /\ WF_state(Yield(p))
       /\ SF_<<state, at>>(Kernel(p) \/ ((killed[p] \/ at[p] = "failed") /\ Exit(p)))
  /\ SF_at(CallWait(initproc))
  /\ SF_tickslock(Tick) /\ WF_tickslock(TickWake)

FairSpec == Spec /\ Fairness

-----------------------------------------------------------------------------
(* Safety *)

(* Every process that fork has finished has a parent that can still wait for
   it: exit hands children over to init before it becomes a zombie, and wait
   frees no slot that others still point to.  *)
ParentsLive ==
  \A s \in Slot \ {initproc} :
    state[s] \in Alive \cup {"ZOMBIE"} =>
      parent[s] # Null /\ state[parent[s]] \in Alive

(* No wakeup is lost.  A process asleep in wait has a child that can still
   exit, no zombie to reap, and has not been killed; a process asleep in
   sys_sleep has ticks to wait for, or the clock is about to wake it.  *)
NoLostWakeup ==
  \A p \in Slot : Asleep(p) =>
    \/ /\ chan[p] = p /\ ~killed[p]
       /\ Children(p) # {} /\ Zombies(p) = {}
    \/ chan[p] = Ticks /\ (left[p] > 0 \/ tickslock = Timer)

-----------------------------------------------------------------------------
(* Liveness *)

(* A killed process leaves, whether it runs, waits or sleeps, unless init exits and
   the kernel stops.  *)
KilledExits ==
  \A p \in Slot \ {initproc} :
    killed[p] /\ state[p] \in Alive ~> state[p] \notin Alive \/ panicked

(* init frees every zombie that is or becomes its child, unless it exits.  *)
ZombiesReaped ==
  \A s \in Slot \ {initproc} :
    state[s] = "ZOMBIE" /\ parent[s] = initproc ~> state[s] = "UNUSED" \/ panicked

-----------------------------------------------------------------------------
(* A promise of a comment that the code does not keep *)

(* Only processes are killed: a free slot is not marked as killed, so that the
   process fork makes there next starts its life unharmed.  *)
FreeSlotsUnharmed == \A s \in Slot : state[s] = "UNUSED" => ~killed[s]
=============================================================================
