----------------------------- MODULE EventStore ------------------------------
(***************************************************************************)
(* internal/store/store.go: the ring buffer every event of dbwatch goes    *)
(* through, and its fan-out to subscribers.  Every method runs under       *)
(* Store.mu, so every method is one action; a subscriber's receive from    *)
(* its channel needs no lock and is an action of its own (Receive).        *)
(*                                                                         *)
(* An event is its table (all a Filter looks at) and seq, the number of    *)
(* the Push that brought it: the program has no such field, it gives every *)
(* event an identity the properties can speak of.                          *)
(***************************************************************************)
EXTENDS Integers, Sequences

CONSTANTS Capacity,     \* New's capacity (--buffer, 1000 by default)
          SubChanCap,   \* defaultSubChanCap, 100 in the code
          Tables,       \* values of Event.Table
          Chans,        \* the channels SubscribeWithFilter may make
          MaxPush       \* bound: pushes in a behaviour

ASSUME StoreAssumption ==
    /\ Capacity \in Nat \ {0}
    /\ SubChanCap \in Nat \ {0}
    /\ MaxPush \in Nat

VARIABLES
    ring,       \* Store.ring, indexed from 0 as in the code
    cursor,     \* Store.cursor: next write position
    count,      \* Store.count: number of valid entries
    total,      \* Store.total: all-time events received
    subs,       \* Store.subs, as the set of their channels
    closed,     \* the channels Unsubscribe closed
    filter,     \* subscriber.filter, as the set of tables it matches
    queue,      \* contents of each subscriber.ch
    pushed,     \* history: every event pushed
    since,      \* history: total when the channel was subscribed
    until,      \* history: total when the channel was unsubscribed
    got         \* history: what the channel's reader received

storeVars == <<ring, cursor, count, total, subs, closed, filter, queue>>
histVars  == <<pushed, since, until, got>>
vars      == <<storeVars, histVars>>

Slots    == 0 .. Capacity - 1
Event    == [seq : Nat \ {0}, table : Tables]
NoEvent  == [seq |-> 0, table |-> "none"]       \* the zero Event of make([]Event, n)
AllowAll == Tables                              \* AllowAllFilter

TypeOK ==
    /\ ring \in [Slots -> Event \cup {NoEvent}]
    /\ cursor \in Slots
    /\ count \in 0 .. Capacity
    /\ total \in 0 .. MaxPush
    /\ subs \subseteq Chans /\ closed \subseteq Chans
    /\ filter \in [Chans -> SUBSET Tables]
    /\ queue \in [Chans -> Seq(Event)]
    /\ pushed \in Seq(Event)
    /\ since \in [Chans -> Nat] /\ until \in [Chans -> Nat]
    /\ got \in [Chans -> Seq(Event)]
------------------------------------------------------------------------------
Init ==
    /\ ring = [i \in Slots |-> NoEvent]
    /\ cursor = 0
    /\ count = 0
    /\ total = 0
    /\ subs = {}
    /\ closed = {}
    /\ filter = [c \in Chans |-> {}]
    /\ queue = [c \in Chans |-> <<>>]
    /\ pushed = <<>>
    /\ since = [c \in Chans |-> 0]
    /\ until = [c \in Chans |-> 0]
    /\ got = [c \in Chans |-> <<>>]

Matches(c, e) == c \in subs /\ e.table \in filter[c]

NextCursor_NoWrap == cursor + 1                          \* mutant: modulo forgotten
NextCursor == (cursor + 1) % Capacity

NextCount == IF count < Capacity THEN count + 1 ELSE count

\* mutant: the filter is not asked
TrySend_NoFilter(c, e) ==
    IF c \in subs /\ Len(queue[c]) < SubChanCap THEN Append(queue[c], e) ELSE queue[c]
\* mutant: dropped while one place is still free
TrySend_EarlyDrop(c, e) ==
    IF Matches(c, e) /\ Len(queue[c]) + 1 < SubChanCap THEN Append(queue[c], e) ELSE queue[c]
\* The select with a default: the send is made only if the channel has room.
TrySend(c, e) ==
    IF Matches(c, e) /\ Len(queue[c]) < SubChanCap
    THEN Append(queue[c], e)
    ELSE queue[c]

Push(e) ==
    /\ ring' = [ring EXCEPT ![cursor] = e]
    /\ cursor' = NextCursor
    /\ count' = NextCount
    /\ total' = total + 1
    /\ queue' = [c \in Chans |-> TrySend(c, e)]
    /\ pushed' = Append(pushed, e)
    /\ UNCHANGED <<subs, closed, filter, since, until, got>>

SubscribeWithFilter(c, f) ==
    /\ c \notin subs \cup closed                \* make(chan Event): a fresh channel
    /\ subs' = subs \cup {c}
    /\ filter' = [filter EXCEPT ![c] = f]
    /\ since' = [since EXCEPT ![c] = total]
    /\ UNCHANGED <<ring, cursor, count, total, closed, queue, pushed, until, got>>

\* mutant: the channel is closed but stays in Store.subs
Unsubscribe_Stays(c) ==
    /\ c \in subs \ closed
    /\ closed' = closed \cup {c}
    /\ until' = [until EXCEPT ![c] = total]
    /\ UNCHANGED <<ring, cursor, count, total, subs, filter, queue, pushed, since, got>>

Unsubscribe(c) ==
    /\ c \in subs                               \* otherwise the loop finds nothing
    /\ subs' = subs \ {c}
    /\ closed' = closed \cup {c}
    /\ until' = [until EXCEPT ![c] = total]
    /\ UNCHANGED <<ring, cursor, count, total, filter, queue, pushed, since, got>>

\* e, ok := <-ch by the channel's reader; a closed channel still drains.
Receive(c) ==
    /\ queue[c] # <<>>
    /\ queue' = [queue EXCEPT ![c] = Tail(@)]
    /\ got' = [got EXCEPT ![c] = Append(@, Head(queue[c]))]
    /\ UNCHANGED <<ring, cursor, count, total, subs, closed, filter, pushed, since, until>>

PushAny == \E t \in Tables : /\ total < MaxPush
                             /\ Push([seq |-> total + 1, table |-> t])

Next ==
    \/ PushAny
    \/ \E c \in Chans : \/ \E f \in SUBSET Tables : SubscribeWithFilter(c, f)
                        \/ Unsubscribe(c)
                        \/ Receive(c)

Spec == Init /\ [][Next]_vars
------------------------------------------------------------------------------
SlotOf_NoRotation(k) == k - 1                            \* mutant: ring[:count] always
\* Snapshot(): the slot that holds the k-th oldest entry, then the copy.
SlotOf(k) ==
    IF count < Capacity THEN k - 1
    ELSE IF k <= Capacity - cursor THEN cursor + k - 1
    ELSE k - 1 - (Capacity - cursor)

Snapshot == [k \in 1 .. count |-> ring[SlotOf(k)]]

\* Stats()
Stats == [total |-> total, buffered |-> count]
------------------------------------------------------------------------------
(***************************************************************************)
(* Properties.                                                             *)
(***************************************************************************)
\* How the ring lies over the history: the slots before the cursor hold the
\* latest lap, the slots from it on (once the ring is full) the lap before.
RingInv ==
    /\ Len(pushed) = total
    /\ IF count < Capacity
       THEN cursor = count /\ count = total
       ELSE total - cursor >= Capacity
    /\ \A i \in Slots : i < cursor => ring[i] = pushed[total - cursor + i + 1]
    /\ \A i \in Slots : count = Capacity /\ i >= cursor =>
                            ring[i] = pushed[total - cursor - Capacity + i + 1]

\* Snapshot returns the last count events pushed, oldest first, whatever lap
\* the cursor is on (store.go:112-126), and Stats' figures agree with it.
SnapshotIsWindow ==
    /\ Snapshot = [k \in 1 .. count |-> pushed[total - count + k]]
    /\ count = IF total < Capacity THEN total ELSE Capacity
    /\ Stats.total = Len(pushed)

\* What a channel has been handed, whether read already or still buffered.
Delivered(c) == got[c] \o queue[c]

\* The last Push a channel was subscribed for.
LastFor(c) == IF c \in closed THEN until[c] ELSE total

InOrder(c) ==
    /\ \A i \in DOMAIN Delivered(c) :
          LET e == Delivered(c)[i] IN
            /\ e.seq \in since[c] + 1 .. LastFor(c)
            /\ e = pushed[e.seq]
            /\ e.table \in filter[c]
    /\ \A i, j \in DOMAIN Delivered(c) :
          i < j => Delivered(c)[i].seq < Delivered(c)[j].seq

\* A subscriber sees only events of its own subscription, of its own tables,
\* in push order and none twice (store.go:73-81, 85-110), across any number of
\* other subscribers joining and leaving in between.
FeedInOrder == \A c \in Chans : InOrder(c)

MissedWhenFull(c) ==
    \A m \in since[c] + 1 .. LastFor(c) :
        pushed[m].table \in filter[c] =>
            \/ \E i \in DOMAIN Delivered(c) : Delivered(c)[i].seq = m
            \/ \E i \in DOMAIN Delivered(c) :
                  i >= SubChanCap /\ Delivered(c)[i].seq < m

\* An event is missed by a live subscriber only as the documented drop: when it
\* came, SubChanCap earlier events had been handed to that same subscriber
\* (store.go:75-79).  The slowness of one subscriber never costs another one.
MissedOnlyWhenFull == \A c \in subs \cup closed : MissedWhenFull(c)

\* The ring buffer implements the sliding window: the abstract window is what
\* Snapshot would return.
Window == INSTANCE EventWindow
            WITH window <- Snapshot, Events <- [seq : 1 .. MaxPush, table : Tables]

\* Every step of the ring buffer is a step of EventWindow or changes nothing
\* a reader or a subscriber can see.
ImplementsWindow == Window!Spec
=============================================================================
