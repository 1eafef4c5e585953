------------------------------- MODULE Mutex -------------------------------
(***************************************************************************)
(* What the header of lock.ts promises its callers: the read, chain,       *)
(* append sections of the capture log, the ledger and the key file are     *)
(* serialised.  At most one process is inside; a process that dies inside  *)
(* leaves no trace.                                                        *)
(***************************************************************************)
CONSTANTS Procs,    \* the processes that call withFileLock on one path
          NoProc    \* not a process (assumed where it is instantiated)

VARIABLE holder     \* the process inside the section, or NoProc

Init == holder = NoProc

Enter(p) == holder = NoProc /\ holder' = p

Leave(p) == holder = p /\ holder' = NoProc

Next == \E p \in Procs : Enter(p) \/ Leave(p)

Spec == Init /\ [][Next]_holder
=============================================================================
