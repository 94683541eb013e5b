------------------------------ MODULE MCAttach ------------------------------
(* Attach on small instances. *)
EXTENDS Attach
=============================================================================
