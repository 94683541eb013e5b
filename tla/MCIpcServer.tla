---------------------------- MODULE MCIpcServer -----------------------------
(* IpcServer on small instances. *)
EXTENDS IpcServer, TLC

Symmetry == Permutations(Conns)
=============================================================================
