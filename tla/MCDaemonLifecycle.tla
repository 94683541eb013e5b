------------------------- MODULE MCDaemonLifecycle --------------------------
(* DaemonLifecycle on small instances. *)
EXTENDS DaemonLifecycle, TLC

\* Processes differ in nothing but their pids, names in nothing but themselves.
Symmetry == Permutations(Procs) \cup Permutations(Names) \cup Permutations(Stops)
=============================================================================
