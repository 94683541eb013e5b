---------------------------- MODULE MCEventStore -----------------------------
(* EventStore on small instances. *)
EXTENDS EventStore, TLC

\* Channels are made by SubscribeWithFilter and used by nothing else: which one
\* is made first does not matter.
Symmetry == Permutations(Chans)
=============================================================================
