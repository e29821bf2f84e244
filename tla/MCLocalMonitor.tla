---------------------------- MODULE MCLocalMonitor ----------------------------
(* Small instances of LocalMonitor for TLC. *)
EXTENDS LocalMonitor, TLC

CONSTANTS e1, e2, c1, c2

\* PBS edits the first event, and only reports, clears or drops the second.
Contents == (e1 :> {c1, c2}) @@ (e2 :> {c1})

=============================================================================
