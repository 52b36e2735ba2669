----------------------------- MODULE MCShutdown -----------------------------
(***************************************************************************)
(* The service ends because it is idle or because a server dies, or on a   *)
(* signal while its dispatcher works on and a file system call may fail.   *)
(***************************************************************************)
EXTENDS Shutdown

MCScenarios ==
  { [requests |-> Requests, signals |-> FALSE, idle |-> TRUE, failures |-> TRUE, errors |-> 0],
    [requests |-> Requests \ {CHOOSE r \in Requests : TRUE}, signals |-> TRUE, idle |-> FALSE,
     failures |-> FALSE, errors |-> 1] }
=============================================================================
