----------------------------- MODULE EventWindow -----------------------------
(***************************************************************************)
(* What internal/store promises to the rest of dbwatch, without a ring:    *)
(*                                                                         *)
(*   - a reader of the buffer sees the last Capacity events, oldest first; *)
(*   - a subscriber owns a FIFO of at most SubChanCap events; it is handed *)
(*     every event its filter lets through, in push order, and an event    *)
(*     that finds the FIFO full is dropped for that subscriber only;       *)
(*   - an unsubscribed FIFO is handed nothing more, but what it holds can  *)
(*     still be drained.                                                   *)
(*                                                                         *)
(* EventStore (the ring buffer with its cursor arithmetic) is shown to     *)
(* implement this module.                                                  *)
(***************************************************************************)
EXTENDS Integers, Sequences

CONSTANTS Capacity,     \* events the buffer keeps
          SubChanCap,   \* events a subscriber's FIFO keeps
          Tables,       \* what a filter can tell apart
          Events,       \* what can be put, each with the table it concerns
          Chans         \* identities of the subscribers' FIFOs

VARIABLES window,       \* the last Capacity events, oldest first
          subs,         \* the FIFOs that are subscribed
          closed,       \* the FIFOs that were unsubscribed
          filter,       \* the tables each FIFO wants
          queue         \* what each FIFO holds

vars == <<window, subs, closed, filter, queue>>

Last(s, n) == IF Len(s) > n THEN Tail(s) ELSE s

Init ==
    /\ window = <<>>
    /\ subs = {}
    /\ closed = {}
    /\ filter = [c \in Chans |-> {}]
    /\ queue = [c \in Chans |-> <<>>]

Put(e) ==
    /\ window' = Last(Append(window, e), Capacity)
    /\ queue' = [c \in Chans |->
                   IF c \in subs /\ e.table \in filter[c] /\ Len(queue[c]) < SubChanCap
                   THEN Append(queue[c], e)
                   ELSE queue[c]]
    /\ UNCHANGED <<subs, closed, filter>>

Join(c, f) ==
    /\ c \notin subs \cup closed
    /\ subs' = subs \cup {c}
    /\ filter' = [filter EXCEPT ![c] = f]
    /\ UNCHANGED <<window, closed, queue>>

Leave(c) ==
    /\ c \in subs
    /\ subs' = subs \ {c}
    /\ closed' = closed \cup {c}
    /\ UNCHANGED <<window, filter, queue>>

Take(c) ==
    /\ queue[c] # <<>>
    /\ queue' = [queue EXCEPT ![c] = Tail(@)]
    /\ UNCHANGED <<window, subs, closed, filter>>

Next ==
    \/ \E e \in Events : Put(e)
    \/ \E c \in Chans : \/ \E f \in SUBSET Tables : Join(c, f)
                        \/ Leave(c)
                        \/ Take(c)

Spec == Init /\ [][Next]_vars
=============================================================================
