------------------------------ MODULE LogLive ------------------------------
(***************************************************************************)
(* Liveness of the log.  begin_op gives no turn to the process that waits  *)
(* longest, so it may wait for ever while others keep coming: the workload *)
(* is finite here, MaxCalls system calls, block reads and crashes in all.  *)
(***************************************************************************)
EXTENDS Log

CONSTANT MaxCalls
ASSUME MaxCallsType == MaxCalls \in Nat

VARIABLE calls  \* calls the workload still makes
lvars == <<vars, calls>>

LInit == Init /\ calls = MaxCalls

\* The workload starts a system call, reads a block or pulls the plug.
Environment ==
  \/ \E p \in Proc : Call(p) \/ \E b \in Block : Bread(p, b)
  \/ Crash

\* What the kernel does by itself once it has been called.
Kernel(p) == BeginOp(p) \/ EndOp(p) \/ CommitDone(p) \/ \E b \in Block : Brelse(p, b)

LNext ==
  /\ ~panicked
  /\ \/ Environment /\ calls > 0 /\ calls' = calls - 1
     \/ /\ \/ \E p \in Proc : Kernel(p)
           \/ \E p \in Proc, b \in Block, v \in Val : LogWrite(p, b, v)
           \/ \E b \in Block : Recycle(b)
           \/ LogStep
        /\ UNCHANGED calls

\* Every process is scheduled, and every disk request completes.
LiveSpec ==
  /\ LInit /\ [][LNext]_lvars
  /\ \A p \in Proc : WF_lvars(Kernel(p) /\ UNCHANGED calls)
  /\ WF_lvars(LogStep /\ UNCHANGED calls)

(* Every system call returns, whether it waits for a commit, for log space or
   commits itself, and the system comes back from every crash: the wakeups of
   end_op reach every sleeper of begin_op.  *)
CallsReturn == \A p \in Proc : []<>(Up /\ pc[p] = "idle")
=============================================================================
