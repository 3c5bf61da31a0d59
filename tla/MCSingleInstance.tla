-------------------------- MODULE MCSingleInstance --------------------------
(* SingleInstanceIpc for a few launches; every process may end for good.    *)
EXTENDS SingleInstanceIpc

\* The system is at rest when every launch that happened has ended or waits
\* for a user.
Rest == (\A p \in Procs : pc[p] \in {"gone", "running"}) /\ UNCHANGED vars
MCSpec == Init /\ [][Next \/ Rest]_vars
MCFairSpec == MCSpec /\ Fairness

=============================================================================
