-------------------------------- MODULE MCTui --------------------------------
(* A small instance of Tui. *)
EXTENDS Tui
MCTables == {"t1", "t2"}
=============================================================================
