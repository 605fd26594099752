-------------------------- MODULE MCManagerClient --------------------------
(* ManagerClient with two goroutines and short times, for TLC: one that       *)
(* retries its requests and the heartbeat, which does not.                    *)
EXTENDS ManagerClient, TLC

CONSTANTS c1, c2

MCMakes == c1 :> {"Register", "Unregister", "AcquireDaemonTasks"}
             @@ c2 :> {"Heartbeat"}
=============================================================================
