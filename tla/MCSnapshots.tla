---------------------------- MODULE MCSnapshots ----------------------------
(* Snapshots on small instances. *)
EXTENDS Snapshots

Number(nullable, default) == [type |-> "int", nullable |-> nullable, default |-> default]
Text(nullable)         == [type |-> "text", nullable |-> nullable, default |-> "none"]
Flag(nullable)         == [type |-> "boolean", nullable |-> nullable, default |-> "none"]

\* One column, nullable: two rows, one NULL; then what a migration may make of it.
Base      == [cols |-> <<Number(TRUE, "none")>>, rows |-> 2, nonNull |-> <<1>>]
Backfill  == [cols |-> <<Number(TRUE, "none")>>, rows |-> 2, nonNull |-> <<2>>]
Tightened == [cols |-> <<Number(FALSE, "zero")>>, rows |-> 3, nonNull |-> <<3>>]
Retyped   == [cols |-> <<Text(TRUE), Number(TRUE, "none")>>, rows |-> 1, nonNull |-> <<1, 0>>]
Flagged   == [cols |-> <<Text(TRUE), Flag(TRUE)>>, rows |-> 1, nonNull |-> <<1, 1>>]

MCTableStates == <<{Base, Backfill, Tightened}, {Base, Retyped, Flagged}>>
MCFirstDbs == {<<Base, Retyped>>}
MCFilters == {[include |-> {}, exclude |-> {}], [include |-> {2}, exclude |-> {}],
              [include |-> {1}, exclude |-> {2}]}
=============================================================================
