------------------------------ MODULE MCNetwork ------------------------------
(* Instances of Network for TLC.                                            *)
EXTENDS Network, TLC

\* The main thread of the service, and another one that uses its protector.
CallerOps == "main" :> {"start", "stop"} @@ "user" :> {"block", "unblock", "update"}
=============================================================================
