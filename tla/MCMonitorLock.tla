---------------------------- MODULE MCMonitorLock ----------------------------
(* Small instances of MonitorLock for TLC. *)
EXTENDS MonitorLock, TLC

CONSTANTS t1, t2, m1

\* Processes of one kind are alike.
Symmetry == Permutations(Scheduled) \cup Permutations(Proc \ Scheduled)

=============================================================================
