----------------------------- MODULE ProcProof -----------------------------
(***************************************************************************)
(* Proofs about Proc for every number of slots, processors and forks: PInv *)
(* is inductive, one lemma for each of its parts and one step for each     *)
(* action.  Slots are never computed with, so SlotFacts is all the proofs  *)
(* know of them.                                                           *)
(***************************************************************************)
EXTENDS ProcInv, TLAPS

(* Slots, the null pointer and the clock's channel are different things.  *)
LEMMA SlotFacts ==
  /\ initproc \in Slot /\ Null \notin Slot
  /\ Ticks \notin Slot /\ Ticks # Null
  /\ Timer \notin Slot /\ Timer # Null
BY ProcConstants DEF Slot, initproc, Null, Ticks, Timer

(* Every step keeps the types.  *)
LEMMA TypeStep ==
  ASSUME PInv, [Next]_vars
  PROVE  TypeOK'
<1> USE SlotFacts DEF ptable, clock
<1>0. TypeOK /\ TableInv /\ ForkInv /\ SleepInv /\ ParentsLive /\ NoLostWakeup
  BY DEF PInv
<1>1. ASSUME NEW p \in Slot, ~panicked, Schedule(p) PROVE TypeOK'
  BY <1>0, <1>1 DEF Schedule, TypeOK, Alive
<1>2. ASSUME NEW p \in Slot, ~panicked, Yield(p) PROVE TypeOK'
  BY <1>0, <1>2 DEF Yield, TypeOK, Alive
<1>3. ASSUME NEW p \in Slot, ~panicked, ForkAlloc(p) PROVE TypeOK'
  BY <1>0, <1>3 DEF ForkAlloc, Enters, First, TypeOK, Alive, ForkInv, Forking
<1>4. ASSUME NEW p \in Slot, ~panicked, ForkFail(p) PROVE TypeOK'
  BY <1>0, <1>4 DEF ForkFail, AfterFailedFork, TypeOK, Alive
<1>5. ASSUME NEW p \in Slot, ~panicked, ForkCopy(p) PROVE TypeOK'
  BY <1>0, <1>5 DEF ForkCopy, TypeOK, Alive
<1>6. ASSUME NEW p \in Slot, ~panicked, ForkDone(p) PROVE TypeOK'
  BY <1>0, <1>6 DEF ForkDone, TypeOK, Alive
<1>7. ASSUME NEW p \in Slot, ~panicked, Exit(p) PROVE TypeOK'
  BY <1>0, <1>7 DEF Exit, TypeOK, Alive
<1>8. ASSUME NEW p \in Slot, ~panicked, ExitZombie(p) PROVE TypeOK'
  BY <1>0, <1>8 DEF ExitZombie, Wakeup1, TypeOK, Alive
<1>9. ASSUME NEW p \in Slot, ~panicked, CallWait(p) PROVE TypeOK'
  BY <1>0, <1>9 DEF CallWait, TypeOK, Alive
<1>10. ASSUME NEW p \in Slot, ~panicked, Wait(p) PROVE TypeOK'
  <2>1. UNCHANGED <<kid, clock, nextpid, panicked>>
    BY <1>10 DEF Wait
  <2>2. at' = [at EXCEPT ![p] = "user"] \/ at' = at
    BY <1>10 DEF Wait, Reap, GiveUp, SleepInWait
  <2>3. /\ state' \in [Slot -> Alive \cup {"UNUSED", "EMBRYO", "ZOMBIE"}]
        /\ parent' \in [Slot -> Slot \cup {Null}]
        /\ chan' \in [Slot -> Slot \cup {Null, Ticks}]
    BY <1>0, <1>10 DEF Wait, Reap, GiveUp, SleepInWait, TypeOK, Alive
  <2>4. killed' \in [Slot -> BOOLEAN]
    BY <1>0, <1>10 DEF Wait, Reap, GiveUp, SleepInWait, TypeOK
  <2>5. pid' \in [Slot -> Nat]
    BY <1>0, <1>10 DEF Wait, Reap, GiveUp, SleepInWait, TypeOK
  <2>6. QED
    BY <1>0, <2>1, <2>2, <2>3, <2>4, <2>5 DEF TypeOK
<1>11. ASSUME NEW p \in Slot, ~panicked, Kill(p) PROVE TypeOK'
  BY <1>0, <1>11 DEF Kill, TypeOK, Alive
<1>12. ASSUME NEW p \in Slot, ~panicked, CallSleep(p) PROVE TypeOK'
  BY <1>0, <1>12 DEF CallSleep, TypeOK, Alive
<1>13. ASSUME NEW p \in Slot, ~panicked, SleepTest(p) PROVE TypeOK'
  <2>1. left' = left \/ left' = [left EXCEPT ![p] = 0]
    BY <1>13 DEF SleepTest
  <2>2. left' \in [Slot -> 0..MaxSleep]
    BY <1>0, <2>1, ProcConstants DEF TypeOK
  <2>3. QED
    BY <1>0, <2>2, <1>13 DEF SleepTest, TypeOK
<1>14. ASSUME NEW p \in Slot, ~panicked, Sleep(p) PROVE TypeOK'
  BY <1>0, <1>14 DEF Sleep, TypeOK, Alive
<1>15. ASSUME NEW p \in Slot, ~panicked, SleepWoken(p) PROVE TypeOK'
  BY <1>0, <1>15 DEF SleepWoken, TypeOK, Alive
<1>16. CASE Tick
  <2>1. left' \in [Slot -> 0..MaxSleep]
    BY <1>0, <1>16, ProcConstants DEF Tick, TypeOK
  <2>2. QED
    BY <1>0, <2>1, <1>16 DEF Tick, TypeOK
<1>17. CASE TickWake
  BY <1>0, <1>17 DEF TickWake, Wakeup1, TypeOK, Alive
<1>18. ASSUME NEW p \in Slot, ~panicked, ForkRefused(p) PROVE TypeOK'
  BY <1>0, <1>18 DEF ForkRefused, AfterFailedFork, Enters, TypeOK, Alive
<1>19. CASE UNCHANGED vars
  BY <1>0, <1>19 DEF vars, TypeOK, Alive
<1>20. QED
  BY <1>1, <1>2, <1>3, <1>4, <1>5, <1>6, <1>7, <1>8, <1>9, <1>10, <1>11, <1>12, <1>13, <1>14,
     <1>15, <1>16, <1>17, <1>18, <1>19 DEF Next, Kernel, Calls, Halted

(* fork, exit and wait leave no slot half free: a free slot has no parent, and
   what is not alive is nowhere in the kernel but at the end of exit.  *)
LEMMA TableStep ==
  ASSUME PInv, [Next]_vars
  PROVE  TableInv'
<1> USE SlotFacts DEF ptable, clock
<1>0. TypeOK /\ TableInv /\ ForkInv /\ SleepInv /\ ParentsLive /\ NoLostWakeup
  BY DEF PInv
<1>1. ASSUME NEW p \in Slot, ~panicked, Schedule(p) PROVE TableInv'
  BY <1>0, <1>1 DEF Schedule, TypeOK, TableInv, Alive
<1>2. ASSUME NEW p \in Slot, ~panicked, Yield(p) PROVE TableInv'
  BY <1>0, <1>2 DEF Yield, TypeOK, TableInv, Alive
<1>3. ASSUME NEW p \in Slot, ~panicked, ForkAlloc(p) PROVE TableInv'
  BY <1>0, <1>3 DEF ForkAlloc, Enters, First, TypeOK, TableInv, Alive
<1>4. ASSUME NEW p \in Slot, ~panicked, ForkFail(p) PROVE TableInv'
  BY <1>0, <1>4 DEF ForkFail, AfterFailedFork, TypeOK, TableInv, ForkInv, Forking, Alive
<1>5. ASSUME NEW p \in Slot, ~panicked, ForkCopy(p) PROVE TableInv'
  BY <1>0, <1>5 DEF ForkCopy, TypeOK, TableInv, ForkInv, Forking, Alive
<1>6. ASSUME NEW p \in Slot, ~panicked, ForkDone(p) PROVE TableInv'
  BY <1>0, <1>6 DEF ForkDone, TypeOK, TableInv, Alive
<1>7. ASSUME NEW p \in Slot, ~panicked, Exit(p) PROVE TableInv'
  <2>1. /\ state[p] \in Alive /\ at[p] # "copied"
        /\ at' = [at EXCEPT ![p] = "exit"]
        /\ UNCHANGED <<state, parent, kid>>
        /\ panicked' = (p = initproc)
    BY <1>7 DEF Exit, Alive
  <2>2. (state[initproc] \in Alive /\ parent[initproc] = Null)'
    BY <1>0, <2>1 DEF TableInv
  <2>3. (at[initproc] = "exit" => panicked)'
    <3>1. CASE p = initproc
      BY <2>1, <3>1
    <3>2. CASE p # initproc
      <4>1. at'[initproc] = at[initproc]
        BY <1>0, <2>1, <3>2 DEF TypeOK
      <4>2. at[initproc] # "exit"
        BY <1>0, <1>7 DEF TableInv
      <4>3. QED
        BY <4>1, <4>2
    <3>3. QED
      BY <3>1, <3>2
  <2>4. ASSUME NEW s \in Slot
        PROVE  (/\ parent[s] # s
                /\ state[s] \notin Alive => at[s] \in {"user", "exit"}
                /\ state[s] = "UNUSED" => parent[s] = Null
                /\ state[s] = "EMBRYO" /\ parent[s] # Null
                   => at[parent[s]] = "copied" /\ kid[parent[s]] = s)'
    <3>1. \A q \in Slot \ {p} : at'[q] = at[q]
      BY <1>0, <2>1 DEF TypeOK
    <3>2. at'[p] = "exit" /\ parent[s] \in Slot \cup {Null}
      BY <1>0, <2>1 DEF TypeOK
    <3>3. QED
      BY <1>0, <2>1, <3>1, <3>2 DEF TableInv
  <2>5. QED
    BY <2>2, <2>3, <2>4 DEF TableInv
<1>8. ASSUME NEW p \in Slot, ~panicked, ExitZombie(p) PROVE TableInv'
  BY <1>0, <1>8 DEF ExitZombie, Wakeup1, TypeOK, TableInv, Alive
<1>9. ASSUME NEW p \in Slot, ~panicked, CallWait(p) PROVE TableInv'
  BY <1>0, <1>9 DEF CallWait, Enters, TypeOK, TableInv, Alive
<1>10. ASSUME NEW p \in Slot, ~panicked, Wait(p) PROVE TableInv'
  BY <1>0, <1>10 DEF Wait, Reap, GiveUp, SleepInWait, Zombies, First, TypeOK, TableInv, Alive
<1>11. ASSUME NEW p \in Slot, ~panicked, Kill(p) PROVE TableInv'
  BY <1>0, <1>11 DEF Kill, TypeOK, TableInv, Alive
<1>12. ASSUME NEW p \in Slot, ~panicked, CallSleep(p) PROVE TableInv'
  BY <1>0, <1>12 DEF CallSleep, Enters, TypeOK, TableInv, Alive
<1>13. ASSUME NEW p \in Slot, ~panicked, SleepTest(p) PROVE TableInv'
  BY <1>0, <1>13 DEF SleepTest, TypeOK, TableInv, Forking, ParentsLive, Alive
<1>14. ASSUME NEW p \in Slot, ~panicked, Sleep(p) PROVE TableInv'
  BY <1>0, <1>14 DEF Sleep, TypeOK, TableInv, ForkInv, Forking, Alive
<1>15. ASSUME NEW p \in Slot, ~panicked, SleepWoken(p) PROVE TableInv'
  BY <1>0, <1>15 DEF SleepWoken, TypeOK, TableInv, Alive
<1>16. CASE Tick
  BY <1>0, <1>16 DEF Tick, Wakeup1, TypeOK, TableInv, Alive
<1>17. CASE TickWake
  BY <1>0, <1>17 DEF TickWake, Wakeup1, TypeOK, TableInv, Alive
<1>18. ASSUME NEW p \in Slot, ~panicked, ForkRefused(p) PROVE TableInv'
  BY <1>0, <1>18 DEF ForkRefused, AfterFailedFork, Enters, TypeOK, TableInv, Alive
<1>19. CASE UNCHANGED vars
  BY <1>0, <1>19 DEF vars, TypeOK, TableInv, Alive
<1>20. QED
  BY <1>1, <1>2, <1>3, <1>4, <1>5, <1>6, <1>7, <1>8, <1>9, <1>10, <1>11, <1>12, <1>13, <1>14,
     <1>15, <1>16, <1>17, <1>18, <1>19 DEF Next, Kernel, Calls, Halted

(* The slot that fork fills in stays the caller's own until it is runnable.  *)
LEMMA ForkStep ==
  ASSUME PInv, [Next]_vars
  PROVE  ForkInv'
<1> USE SlotFacts DEF ptable, clock
<1>0. TypeOK /\ TableInv /\ ForkInv /\ SleepInv /\ ParentsLive /\ NoLostWakeup
  BY DEF PInv
<1>1. ASSUME NEW p \in Slot, ~panicked, Schedule(p) PROVE ForkInv'
  BY <1>0, <1>1 DEF Schedule, TypeOK, TableInv, ForkInv, Forking, Alive
<1>2. ASSUME NEW p \in Slot, ~panicked, Yield(p) PROVE ForkInv'
  BY <1>0, <1>2 DEF Yield, TypeOK, TableInv, ForkInv, Forking, Alive
<1>3. ASSUME NEW p \in Slot, ~panicked, ForkAlloc(p) PROVE ForkInv'
  BY <1>0, <1>3 DEF ForkAlloc, First, TypeOK, TableInv, ForkInv, Forking, Alive
<1>4. ASSUME NEW p \in Slot, ~panicked, ForkFail(p) PROVE ForkInv'
  BY <1>0, <1>4 DEF ForkFail, AfterFailedFork, TypeOK, TableInv, ForkInv, Forking, Alive
<1>5. ASSUME NEW p \in Slot, ~panicked, ForkCopy(p) PROVE ForkInv'
  BY <1>0, <1>5 DEF ForkCopy, TypeOK, TableInv, ForkInv, Forking, Alive
<1>6. ASSUME NEW p \in Slot, ~panicked, ForkDone(p) PROVE ForkInv'
  BY <1>0, <1>6 DEF ForkDone, TypeOK, TableInv, ForkInv, Forking, Alive
<1>7. ASSUME NEW p \in Slot, ~panicked, Exit(p) PROVE ForkInv'
  BY <1>0, <1>7 DEF Exit, TypeOK, TableInv, ForkInv, Forking, Alive
<1>8. ASSUME NEW p \in Slot, ~panicked, ExitZombie(p) PROVE ForkInv'
  BY <1>0, <1>8 DEF ExitZombie, Wakeup1, TypeOK, TableInv, ForkInv, Forking, Alive
<1>9. ASSUME NEW p \in Slot, ~panicked, CallWait(p) PROVE ForkInv'
  BY <1>0, <1>9 DEF CallWait, TypeOK, TableInv, ForkInv, Forking, Alive
<1>10. ASSUME NEW p \in Slot, ~panicked, Wait(p) PROVE ForkInv'
  BY <1>0, <1>10 DEF Wait, Reap, GiveUp, SleepInWait, Zombies, First, TypeOK, TableInv,
     ForkInv, Forking, Alive
<1>11. ASSUME NEW p \in Slot, ~panicked, Kill(p) PROVE ForkInv'
  BY <1>0, <1>11 DEF Kill, TypeOK, TableInv, ForkInv, Forking, Alive
<1>12. ASSUME NEW p \in Slot, ~panicked, CallSleep(p) PROVE ForkInv'
  BY <1>0, <1>12 DEF CallSleep, TypeOK, TableInv, ForkInv, Forking, Alive
<1>13. ASSUME NEW p \in Slot, ~panicked, SleepTest(p) PROVE ForkInv'
  BY <1>0, <1>13 DEF SleepTest, TypeOK, TableInv, ForkInv, Forking, Alive
<1>14. ASSUME NEW p \in Slot, ~panicked, Sleep(p) PROVE ForkInv'
  BY <1>0, <1>14 DEF Sleep, TypeOK, TableInv, ForkInv, Forking, Alive
<1>15. ASSUME NEW p \in Slot, ~panicked, SleepWoken(p) PROVE ForkInv'
  BY <1>0, <1>15 DEF SleepWoken, TypeOK, TableInv, ForkInv, Forking, Alive
<1>16. CASE Tick
  BY <1>0, <1>16 DEF Tick, Wakeup1, TypeOK, TableInv, ForkInv, Forking, Alive
<1>17. CASE TickWake
  BY <1>0, <1>17 DEF TickWake, Wakeup1, TypeOK, TableInv, ForkInv, Forking, Alive
<1>18. ASSUME NEW p \in Slot, ~panicked, ForkRefused(p) PROVE ForkInv'
  BY <1>0, <1>18 DEF ForkRefused, AfterFailedFork, Enters, TypeOK, TableInv, ForkInv, Forking, Alive
<1>19. CASE UNCHANGED vars
  BY <1>0, <1>19 DEF vars, TypeOK, TableInv, ForkInv, Forking, Alive
<1>20. QED
  BY <1>1, <1>2, <1>3, <1>4, <1>5, <1>6, <1>7, <1>8, <1>9, <1>10, <1>11, <1>12, <1>13, <1>14,
     <1>15, <1>16, <1>17, <1>18, <1>19 DEF Next, Kernel, Calls, Halted

(* sleep, wakeup, kill and the clock: a sleeper is where its channel says.  *)
LEMMA SleepStep ==
  ASSUME PInv, [Next]_vars
  PROVE  SleepInv'
<1> USE SlotFacts DEF ptable, clock
<1>0. TypeOK /\ TableInv /\ ForkInv /\ SleepInv /\ ParentsLive /\ NoLostWakeup
  BY DEF PInv
<1>1. ASSUME NEW p \in Slot, ~panicked, Schedule(p) PROVE SleepInv'
  BY <1>0, <1>1 DEF Schedule, TypeOK, SleepInv, Asleep, TableInv, Alive
<1>2. ASSUME NEW p \in Slot, ~panicked, Yield(p) PROVE SleepInv'
  BY <1>0, <1>2 DEF Yield, TypeOK, SleepInv, Asleep, TableInv, Alive
<1>3. ASSUME NEW p \in Slot, ~panicked, ForkAlloc(p) PROVE SleepInv'
  BY <1>0, <1>3 DEF ForkAlloc, Enters, First, TypeOK, SleepInv, Asleep, TableInv, Alive
<1>4. ASSUME NEW p \in Slot, ~panicked, ForkFail(p) PROVE SleepInv'
  BY <1>0, <1>4 DEF ForkFail, AfterFailedFork, TypeOK, SleepInv, Asleep, TableInv, ForkInv, Forking, Alive
<1>5. ASSUME NEW p \in Slot, ~panicked, ForkCopy(p) PROVE SleepInv'
  BY <1>0, <1>5 DEF ForkCopy, TypeOK, SleepInv, Asleep, TableInv, ForkInv, Forking, Alive
<1>6. ASSUME NEW p \in Slot, ~panicked, ForkDone(p) PROVE SleepInv'
  BY <1>0, <1>6 DEF ForkDone, TypeOK, SleepInv, Asleep, TableInv, ForkInv, Forking, Alive
<1>7. ASSUME NEW p \in Slot, ~panicked, Exit(p) PROVE SleepInv'
  BY <1>0, <1>7 DEF Exit, TypeOK, SleepInv, Asleep, TableInv, Alive
<1>8. ASSUME NEW p \in Slot, ~panicked, ExitZombie(p) PROVE SleepInv'
  BY <1>0, <1>8 DEF ExitZombie, Wakeup1, TypeOK, SleepInv, Asleep, TableInv, Alive
<1>9. ASSUME NEW p \in Slot, ~panicked, CallWait(p) PROVE SleepInv'
  BY <1>0, <1>9 DEF CallWait, Enters, TypeOK, SleepInv, Asleep, TableInv, Alive
<1>10. ASSUME NEW p \in Slot, ~panicked, Wait(p) PROVE SleepInv'
  BY <1>0, <1>10 DEF Wait, Reap, GiveUp, SleepInWait, Zombies, First, TypeOK, SleepInv,
     Asleep, TableInv, Alive
<1>11. ASSUME NEW p \in Slot, ~panicked, Kill(p) PROVE SleepInv'
  BY <1>0, <1>11 DEF Kill, TypeOK, SleepInv, Asleep, TableInv, Alive
<1>12. ASSUME NEW p \in Slot, ~panicked, CallSleep(p) PROVE SleepInv'
  BY <1>0, <1>12 DEF CallSleep, Enters, TypeOK, SleepInv, Asleep, TableInv, Alive
<1>13. ASSUME NEW p \in Slot, ~panicked, SleepTest(p) PROVE SleepInv'
  BY <1>0, <1>13 DEF SleepTest, TypeOK, SleepInv, Asleep, TableInv, Alive
<1>14. ASSUME NEW p \in Slot, ~panicked, Sleep(p) PROVE SleepInv'
  BY <1>0, <1>14 DEF Sleep, TypeOK, SleepInv, Asleep, TableInv, Alive
<1>15. ASSUME NEW p \in Slot, ~panicked, SleepWoken(p) PROVE SleepInv'
  BY <1>0, <1>15 DEF SleepWoken, TypeOK, SleepInv, Asleep, TableInv, Alive
<1>16. CASE Tick
  BY <1>0, <1>16 DEF Tick, Wakeup1, TypeOK, SleepInv, Asleep, TableInv, Alive
<1>17. CASE TickWake
  BY <1>0, <1>17 DEF TickWake, Wakeup1, TypeOK, SleepInv, Asleep, TableInv, Alive
<1>18. ASSUME NEW p \in Slot, ~panicked, ForkRefused(p) PROVE SleepInv'
  BY <1>0, <1>18 DEF ForkRefused, AfterFailedFork, Enters, TypeOK, SleepInv, Asleep, TableInv, Alive
<1>19. CASE UNCHANGED vars
  BY <1>0, <1>19 DEF vars, TypeOK, SleepInv, Asleep, TableInv, Alive
<1>20. QED
  BY <1>1, <1>2, <1>3, <1>4, <1>5, <1>6, <1>7, <1>8, <1>9, <1>10, <1>11, <1>12, <1>13, <1>14,
     <1>15, <1>16, <1>17, <1>18, <1>19 DEF Next, Kernel, Calls, Halted

(* exit hands every child over, and wait frees only what has no children.  *)
LEMMA ParentsStep ==
  ASSUME PInv, [Next]_vars
  PROVE  ParentsLive'
<1> USE SlotFacts DEF ptable, clock
<1>0. TypeOK /\ TableInv /\ ForkInv /\ SleepInv /\ ParentsLive /\ NoLostWakeup
  BY DEF PInv
<1>1. ASSUME NEW p \in Slot, ~panicked, Schedule(p) PROVE ParentsLive'
  BY <1>0, <1>1 DEF Schedule, TypeOK, ParentsLive, TableInv, Alive
<1>2. ASSUME NEW p \in Slot, ~panicked, Yield(p) PROVE ParentsLive'
  BY <1>0, <1>2 DEF Yield, TypeOK, ParentsLive, TableInv, Alive
<1>3. ASSUME NEW p \in Slot, ~panicked, ForkAlloc(p) PROVE ParentsLive'
  BY <1>0, <1>3 DEF ForkAlloc, First, TypeOK, ParentsLive, TableInv, Alive
<1>4. ASSUME NEW p \in Slot, ~panicked, ForkFail(p) PROVE ParentsLive'
  BY <1>0, <1>4 DEF ForkFail, AfterFailedFork, TypeOK, ParentsLive, TableInv, ForkInv, Forking, Alive
<1>5. ASSUME NEW p \in Slot, ~panicked, ForkCopy(p) PROVE ParentsLive'
  BY <1>0, <1>5 DEF ForkCopy, TypeOK, ParentsLive, TableInv, Alive
<1>6. ASSUME NEW p \in Slot, ~panicked, ForkDone(p) PROVE ParentsLive'
  BY <1>0, <1>6 DEF ForkDone, TypeOK, ParentsLive, TableInv, ForkInv, Forking, Alive
<1>7. ASSUME NEW p \in Slot, ~panicked, Exit(p) PROVE ParentsLive'
  BY <1>0, <1>7 DEF Exit, TypeOK, ParentsLive, TableInv, Alive
<1>8. ASSUME NEW p \in Slot, ~panicked, ExitZombie(p) PROVE ParentsLive'
  BY <1>0, <1>8 DEF ExitZombie, Wakeup1, TypeOK, ParentsLive, TableInv, ForkInv, Alive
<1>9. ASSUME NEW p \in Slot, ~panicked, CallWait(p) PROVE ParentsLive'
  BY <1>0, <1>9 DEF CallWait, TypeOK, ParentsLive, TableInv, ForkInv, Alive
<1>10. ASSUME NEW p \in Slot, ~panicked, Wait(p) PROVE ParentsLive'
  BY <1>0, <1>10 DEF Wait, Reap, GiveUp, SleepInWait, Zombies, Children, First, TypeOK,
     ParentsLive, TableInv, Alive
<1>11. ASSUME NEW p \in Slot, ~panicked, Kill(p) PROVE ParentsLive'
  BY <1>0, <1>11 DEF Kill, Enters, First, TypeOK, ParentsLive, TableInv, Alive
<1>12. ASSUME NEW p \in Slot, ~panicked, CallSleep(p) PROVE ParentsLive'
  BY <1>0, <1>12 DEF CallSleep, TypeOK, ParentsLive, TableInv, Alive
<1>13. ASSUME NEW p \in Slot, ~panicked, SleepTest(p) PROVE ParentsLive'
  BY <1>0, <1>13 DEF SleepTest, TypeOK, ParentsLive, TableInv, Alive
<1>14. ASSUME NEW p \in Slot, ~panicked, Sleep(p) PROVE ParentsLive'
  BY <1>0, <1>14 DEF Sleep, TypeOK, ParentsLive, TableInv, Alive
<1>15. ASSUME NEW p \in Slot, ~panicked, SleepWoken(p) PROVE ParentsLive'
  BY <1>0, <1>15 DEF SleepWoken, TypeOK, ParentsLive, TableInv, Alive
<1>16. CASE Tick
  BY <1>0, <1>16 DEF Tick, Wakeup1, TypeOK, ParentsLive, TableInv, Alive
<1>17. CASE TickWake
  BY <1>0, <1>17 DEF TickWake, Wakeup1, TypeOK, ParentsLive, TableInv, Alive
<1>18. ASSUME NEW p \in Slot, ~panicked, ForkRefused(p) PROVE ParentsLive'
  BY <1>0, <1>18 DEF ForkRefused, AfterFailedFork, Enters, TypeOK, ParentsLive, TableInv, ForkInv, Alive
<1>19. CASE UNCHANGED vars
  BY <1>0, <1>19 DEF vars, TypeOK, ParentsLive, TableInv, Alive
<1>20. QED
  BY <1>1, <1>2, <1>3, <1>4, <1>5, <1>6, <1>7, <1>8, <1>9, <1>10, <1>11, <1>12, <1>13, <1>14,
     <1>15, <1>16, <1>17, <1>18, <1>19 DEF Next, Kernel, Calls, Halted

(* What a sleeper waits for does not happen without waking it.  *)
LEMMA WakeupStep ==
  ASSUME PInv, [Next]_vars
  PROVE  NoLostWakeup'
<1> USE SlotFacts DEF ptable, clock
<1>0. TypeOK /\ TableInv /\ ForkInv /\ SleepInv /\ ParentsLive /\ NoLostWakeup
  BY DEF PInv
<1>1. ASSUME NEW p \in Slot, ~panicked, Schedule(p) PROVE NoLostWakeup'
  BY <1>0, <1>1 DEF Schedule, TypeOK, NoLostWakeup, SleepInv, Asleep, TableInv, Alive,
     Children, Zombies
<1>2. ASSUME NEW p \in Slot, ~panicked, Yield(p) PROVE NoLostWakeup'
  BY <1>0, <1>2 DEF Yield, TypeOK, NoLostWakeup, SleepInv, Asleep, TableInv, Alive, Children,
     Zombies
<1>3. ASSUME NEW p \in Slot, ~panicked, ForkAlloc(p) PROVE NoLostWakeup'
  BY <1>0, <1>3 DEF ForkAlloc, TypeOK, NoLostWakeup, SleepInv, Asleep, TableInv, Alive,
     Children, Zombies
<1>4. ASSUME NEW p \in Slot, ~panicked, ForkFail(p) PROVE NoLostWakeup'
  BY <1>0, <1>4 DEF ForkFail, AfterFailedFork, TypeOK, NoLostWakeup, SleepInv, Asleep, TableInv, Alive,
     Children, Zombies
<1>5. ASSUME NEW p \in Slot, ~panicked, ForkCopy(p) PROVE NoLostWakeup'
  BY <1>0, <1>5 DEF ForkCopy, TypeOK, NoLostWakeup, SleepInv, Asleep, TableInv, ForkInv,
     Forking, Alive, Children, Zombies
<1>6. ASSUME NEW p \in Slot, ~panicked, ForkDone(p) PROVE NoLostWakeup'
  BY <1>0, <1>6 DEF ForkDone, TypeOK, NoLostWakeup, SleepInv, Asleep, TableInv, Alive,
     Children, Zombies
<1>7. ASSUME NEW p \in Slot, ~panicked, Exit(p) PROVE NoLostWakeup'
  BY <1>0, <1>7 DEF Exit, TypeOK, NoLostWakeup, SleepInv, Asleep, TableInv, Alive, Children,
     Zombies
<1>8. ASSUME NEW p \in Slot, ~panicked, ExitZombie(p) PROVE NoLostWakeup'
  <2> SUFFICES ASSUME NEW q \in Slot, Asleep(q)'
               PROVE  \/ /\ chan[q] = q /\ ~killed[q]
                         /\ Children(q)' # {} /\ Zombies(q)' = {}
                      \/ chan[q] = Ticks /\ (left[q] > 0 \/ tickslock = Timer)
    BY <1>8 DEF ExitZombie, NoLostWakeup
  <2>1. UNCHANGED <<killed, chan, clock>>
    BY <1>8 DEF ExitZombie
  <2>2. /\ Asleep(q) /\ q # p /\ chan[q] # parent[p]
        /\ Zombies(p) # {} => chan[q] # initproc
    BY <1>0, <1>8 DEF ExitZombie, Wakeup1, Asleep, TypeOK
  <2>3. CASE chan[q] = Ticks
    BY <1>0, <2>2, <2>3 DEF NoLostWakeup
  <2>4. CASE chan[q] = q
    <3>1. ~killed[q] /\ Children(q) # {} /\ Zombies(q) = {}
      BY <1>0, <2>2, <2>4 DEF NoLostWakeup
    <3>2. \A c \in Slot : parent'[c] = IF parent[c] = p THEN initproc ELSE parent[c]
      BY <1>8 DEF ExitZombie
    <3>3. \A c \in Slot : state'[c] = "ZOMBIE" => c = p \/ state[c] = "ZOMBIE"
      BY <1>0, <1>8 DEF ExitZombie, Wakeup1, TypeOK
    <3>4. Children(q)' # {}
      BY <2>2, <3>1, <3>2 DEF Children
    <3>5. parent'[p] # q
      BY <1>0, <2>2, <2>4, <3>2 DEF TableInv
    <3>6. Zombies(q)' = {}
      BY <2>2, <2>4, <3>1, <3>2, <3>3, <3>5 DEF Zombies, Children
    <3>7. QED
      BY <2>4, <3>1, <3>4, <3>6
  <2>5. QED
    BY <1>0, <2>2, <2>3, <2>4 DEF SleepInv
<1>9. ASSUME NEW p \in Slot, ~panicked, CallWait(p) PROVE NoLostWakeup'
  BY <1>0, <1>9 DEF CallWait, Enters, TypeOK, NoLostWakeup, SleepInv, Asleep, TableInv,
     Forking, Alive, Children, Zombies
<1>10. ASSUME NEW p \in Slot, ~panicked, Wait(p) PROVE NoLostWakeup'
  BY <1>0, <1>10 DEF Wait, Reap, GiveUp, SleepInWait, Zombies, Children, First, TypeOK,
     NoLostWakeup, SleepInv, Asleep, TableInv, Alive
<1>11. ASSUME NEW p \in Slot, ~panicked, Kill(p) PROVE NoLostWakeup'
  BY <1>0, <1>11 DEF Kill, TypeOK, NoLostWakeup, SleepInv, Asleep, TableInv, ForkInv, Alive,
     Children, Zombies
<1>12. ASSUME NEW p \in Slot, ~panicked, CallSleep(p) PROVE NoLostWakeup'
  BY <1>0, <1>12 DEF CallSleep, TypeOK, NoLostWakeup, SleepInv, Asleep, TableInv, Alive,
     Children, Zombies
<1>13. ASSUME NEW p \in Slot, ~panicked, SleepTest(p) PROVE NoLostWakeup'
  BY <1>0, <1>13 DEF SleepTest, TypeOK, NoLostWakeup, SleepInv, Asleep, TableInv, Alive,
     Children, Zombies
<1>14. ASSUME NEW p \in Slot, ~panicked, Sleep(p) PROVE NoLostWakeup'
  BY <1>0, <1>14 DEF Sleep, TypeOK, NoLostWakeup, SleepInv, Asleep, TableInv, Alive, Children,
     Zombies
<1>15. ASSUME NEW p \in Slot, ~panicked, SleepWoken(p) PROVE NoLostWakeup'
  BY <1>0, <1>15 DEF SleepWoken, TypeOK, NoLostWakeup, SleepInv, Asleep, TableInv, Alive,
     Children, Zombies
<1>16. CASE Tick
  BY <1>0, <1>16 DEF Tick, Wakeup1, TypeOK, NoLostWakeup, SleepInv, Asleep, TableInv, Alive,
     Children, Zombies
<1>17. CASE TickWake
  BY <1>0, <1>17 DEF TickWake, Wakeup1, TypeOK, NoLostWakeup, SleepInv, Asleep, TableInv,
     Alive, Children, Zombies
<1>18. ASSUME NEW p \in Slot, ~panicked, ForkRefused(p) PROVE NoLostWakeup'
  BY <1>0, <1>18 DEF ForkRefused, AfterFailedFork, Enters, TypeOK, NoLostWakeup, SleepInv, Asleep, TableInv,
     Forking, Alive, Children, Zombies
<1>19. CASE UNCHANGED vars
  BY <1>0, <1>19 DEF vars, TypeOK, NoLostWakeup, SleepInv, Asleep, TableInv, Alive, Children,
     Zombies
<1>20. QED
  BY <1>1, <1>2, <1>3, <1>4, <1>5, <1>6, <1>7, <1>8, <1>9, <1>10, <1>11, <1>12, <1>13, <1>14,
     <1>15, <1>16, <1>17, <1>18, <1>19 DEF Next, Kernel, Calls, Halted

(* The first process starts alone.  *)
LEMMA InitInv == Init => PInv
<1> SUFFICES ASSUME Init PROVE PInv
  OBVIOUS
<1>1. TypeOK
  <2>1. /\ state \in [Slot -> Alive \cup {"UNUSED", "EMBRYO", "ZOMBIE"}]
        /\ parent \in [Slot -> Slot \cup {Null}] /\ kid \in [Slot -> Slot \cup {Null}]
        /\ chan \in [Slot -> Slot \cup {Null, Ticks}]
        /\ tickslock \in Slot \cup {Null, Timer}
    BY DEF Init, Alive
  <2>2. /\ pid \in [Slot -> Nat] /\ nextpid \in Nat
        /\ left \in [Slot -> 0..MaxSleep]
    BY ProcConstants DEF Init
  <2>3. /\ at \in [Slot -> {"user", "alloc", "copied", "failed", "wait", "test", "sleep", "woken",
                      "exit"}]
        /\ killed \in [Slot -> BOOLEAN] /\ panicked \in BOOLEAN
    BY Zenon DEF Init
  <2>4. QED
    BY <2>1, <2>2, <2>3 DEF TypeOK
<1>2. TableInv /\ ForkInv /\ SleepInv
  BY SlotFacts DEF Init, TableInv, ForkInv, Forking, SleepInv, Asleep, Alive
<1>3. ParentsLive /\ NoLostWakeup
  BY SlotFacts DEF Init, ParentsLive, NoLostWakeup, Asleep, Alive
<1>4. QED
  BY <1>1, <1>2, <1>3 DEF PInv

(* PInv is an invariant for any number of slots, processors and forks.  *)
THEOREM Invariance == Spec => []PInv
<1>1. PInv /\ [Next]_vars => PInv'
  BY TypeStep, TableStep, ForkStep, SleepStep, ParentsStep, WakeupStep DEF PInv
<1>2. QED
  BY InitInv, <1>1, PTL DEF Spec

(* A process that has not been reaped always has a living parent.  *)
THEOREM OrphansAdopted == Spec => []ParentsLive
<1>1. PInv => ParentsLive
  BY DEF PInv
<1>2. QED
  BY Invariance, <1>1, PTL

(* Neither wait nor sys_sleep sleeps through what it waits for.  *)
THEOREM WakeupsArrive == Spec => []NoLostWakeup
<1>1. PInv => NoLostWakeup
  BY DEF PInv
<1>2. QED
  BY Invariance, <1>1, PTL
=============================================================================
