------------------------------- MODULE MCVault -------------------------------
(* Instances of Vault for TLC.                                              *)
EXTENDS Vault, TLC
CONSTANTS t1, t2, monitor, agent

\* Two threads of one process; the first also restores and purges.
OneProcess == [t \in Threads |-> monitor]
ThreadOps == t1 :> Ops @@ t2 :> {"quarantine"}

\* The monitor service, and the agent or the CLI deleting an item: each process
\* has an object, and so a lock, of its own.
TwoProcesses == t1 :> monitor @@ t2 :> agent
ServiceAndAgent == t1 :> {"quarantine"} @@ t2 :> {"delete"}
=============================================================================
