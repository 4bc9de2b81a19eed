------------------------------- MODULE MCLog -------------------------------
(* The log for TLC: the inductive invariant, recovery and liveness on one   *)
(* bounded workload.                                                        *)
EXTENDS LogInv, LogLive
=============================================================================
