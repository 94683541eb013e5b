--------------------------- MODULE MCDdlTriggers ---------------------------
(* DdlTriggers on small instances. *)
EXTENDS DdlTriggers
=============================================================================
