-------------------------- MODULE EventStoreProofs ---------------------------
(***************************************************************************)
(* Theorems about EventStore, for every capacity, channel size, set of     *)
(* tables, set of subscribers and number of pushes.                        *)
(***************************************************************************)
EXTENDS EventStore, SequenceTheorems, TLAPS

\* The cursor's modulo is a step to the next slot or back to slot 0
\* (store.go:67): the only arithmetic the provers do not do by themselves.
LEMMA CursorStep ==
    ASSUME cursor \in Slots
    PROVE  NextCursor = IF cursor = Capacity - 1 THEN 0 ELSE cursor + 1
<1>1. CASE cursor = Capacity - 1
  BY <1>1, StoreAssumption DEF NextCursor, Slots
<1>2. CASE cursor # Capacity - 1
  <2>1. cursor + 1 \in 0 .. Capacity - 1
    BY <1>2, StoreAssumption DEF Slots
  <2>2. (cursor + 1) % Capacity = cursor + 1
    BY <2>1, StoreAssumption
  <2> QED BY <1>2, <2>2 DEF NextCursor
<1> QED BY <1>1, <1>2

\* New's empty store is well typed (store.go:54-59).
LEMMA TypeInit == Init => TypeOK
<1> SUFFICES ASSUME Init PROVE TypeOK
  OBVIOUS
<1>1. NoEvent \in Event \cup {NoEvent} /\ 0 \in Slots /\ 0 \in 0 .. Capacity /\ 0 \in 0 .. MaxPush
  BY StoreAssumption DEF Slots
<1>2. <<>> \in Seq(Event)
  OBVIOUS
<1> QED BY <1>1, <1>2 DEF Init, TypeOK

\* Every operation keeps the variables in their types; in particular the cursor
\* never leaves the ring and count never exceeds it.
LEMMA TypeStep == TypeOK /\ [Next]_vars => TypeOK'
<1> SUFFICES ASSUME TypeOK, [Next]_vars PROVE TypeOK'
  OBVIOUS
<1> USE DEF TypeOK
<1>1. ASSUME NEW t \in Tables, total < MaxPush, Push([seq |-> total + 1, table |-> t])
      PROVE  TypeOK'
  <2> DEFINE e == [seq |-> total + 1, table |-> t]
  <2>1. e \in Event
    BY DEF Event
  <2> HIDE DEF e
  <2>2. Push(e)
    BY <1>1 DEF e
  <2>3. ring' \in [Slots -> Event \cup {NoEvent}]
    BY <2>1, <2>2 DEF Push
  <2>4. cursor' \in Slots
    BY <2>2, CursorStep, StoreAssumption DEF Push, Slots
  <2>5. count' \in 0 .. Capacity
    BY <2>2, StoreAssumption DEF Push, NextCount
  <2>6. total' \in 0 .. MaxPush
    BY <1>1, <2>2, StoreAssumption DEF Push
  <2>7. queue' \in [Chans -> Seq(Event)]
    BY <2>1, <2>2 DEF Push, TrySend
  <2>8. pushed' \in Seq(Event)
    BY <2>1, <2>2 DEF Push
  <2> QED BY <2>2, <2>3, <2>4, <2>5, <2>6, <2>7, <2>8 DEF Push
<1>2. ASSUME NEW c \in Chans, NEW f \in SUBSET Tables, SubscribeWithFilter(c, f)
      PROVE  TypeOK'
  BY <1>2, StoreAssumption DEF SubscribeWithFilter
<1>3. ASSUME NEW c \in Chans, Unsubscribe(c) PROVE TypeOK'
  BY <1>3, StoreAssumption DEF Unsubscribe
<1>4. ASSUME NEW c \in Chans, Receive(c) PROVE TypeOK'
  <2>1. Head(queue[c]) \in Event /\ Tail(queue[c]) \in Seq(Event)
    BY <1>4 DEF Receive
  <2> QED BY <1>4, <2>1 DEF Receive
<1>5. CASE UNCHANGED vars
  BY <1>5 DEF vars, storeVars, histVars
<1> QED BY <1>1, <1>2, <1>3, <1>4, <1>5 DEF Next, PushAny

\* The store's variables keep their types in every behaviour.
THEOREM TypeCorrect == Spec => []TypeOK
<1> QED BY TypeInit, TypeStep, PTL DEF Spec
------------------------------------------------------------------------------
\* An empty ring lies over an empty history (store.go:54-59).
LEMMA RingInit == Init => RingInv
BY StoreAssumption DEF Init, RingInv, Slots

\* RingInv is inductive given the types.  Push is the only operation that
\* touches the ring, and the four shapes it can find it in are: filling up, the
\* write that fills it, a wrap of the cursor, a step within a later lap.
LEMMA RingStep == TypeOK /\ RingInv /\ [Next]_vars => RingInv'
<1> SUFFICES ASSUME TypeOK, RingInv, [Next]_vars PROVE RingInv'
  OBVIOUS
<1>1. ASSUME NEW t \in Tables, Push([seq |-> total + 1, table |-> t])
      PROVE  RingInv'
  <2> DEFINE e == [seq |-> total + 1, table |-> t]
  <2>1. Push(e)
    BY <1>1
  <2>2. e \in Event
    BY DEF TypeOK, Event
  <2> HIDE DEF e
  <2>3. /\ Len(pushed') = Len(pushed) + 1
        /\ \A n \in 1 .. Len(pushed) : pushed'[n] = pushed[n]
        /\ pushed'[Len(pushed) + 1] = e
    BY <2>1, <2>2 DEF Push, TypeOK
  <2>4. /\ ring' \in [Slots -> Event \cup {NoEvent}]
        /\ ring'[cursor] = e
        /\ \A i \in Slots \ {cursor} : ring'[i] = ring[i]
    BY <2>1, <2>2 DEF Push, TypeOK
  <2>5. cursor' = IF cursor = Capacity - 1 THEN 0 ELSE cursor + 1
    BY <2>1, CursorStep DEF Push, TypeOK
  <2>6. total' = total + 1 /\ count' = IF count < Capacity THEN count + 1 ELSE count
    BY <2>1 DEF Push, NextCount
  <2>7. /\ Len(pushed') = total'
        /\ IF count' < Capacity THEN cursor' = count' /\ count' = total'
           ELSE total' - cursor' >= Capacity
    BY <2>3, <2>5, <2>6, StoreAssumption DEF RingInv, TypeOK, Slots
  <2>8. ASSUME NEW i \in Slots, i < cursor'
        PROVE  ring'[i] = pushed'[total' - cursor' + i + 1]
    <3>1. cursor' = cursor + 1
      BY <2>5, <2>8 DEF Slots, TypeOK
    <3>2. CASE i = cursor
      BY <2>3, <2>4, <2>6, <3>1, <3>2 DEF RingInv, TypeOK, Slots
    <3>3. CASE i # cursor
      <4>1. i < cursor /\ ring'[i] = ring[i] /\ ring[i] = pushed[total - cursor + i + 1]
        BY <2>4, <2>8, <3>1, <3>3 DEF RingInv, TypeOK, Slots
      <4>2. total - cursor + i + 1 \in 1 .. Len(pushed)
        BY <4>1, StoreAssumption DEF RingInv, TypeOK, Slots
      <4>3. total' - cursor' + i + 1 = total - cursor + i + 1
        BY <2>6, <3>1 DEF TypeOK, Slots
      <4> QED BY <2>3, <4>1, <4>2, <4>3
    <3> QED BY <3>2, <3>3
  <2>9. ASSUME NEW i \in Slots, count' = Capacity, i >= cursor'
        PROVE  ring'[i] = pushed'[total' - cursor' - Capacity + i + 1]
    <3>1. CASE cursor = Capacity - 1          \* the lap ends: the whole ring is it
      <4>1. CASE i = cursor
        BY <2>3, <2>4, <2>5, <2>6, <3>1, <4>1, StoreAssumption DEF RingInv, TypeOK, Slots
      <4>2. CASE i # cursor
        <5>1. i < cursor /\ ring'[i] = ring[i] /\ ring[i] = pushed[total - cursor + i + 1]
          BY <2>4, <3>1, <4>2, StoreAssumption DEF RingInv, TypeOK, Slots
        <5>2. total - cursor + i + 1 \in 1 .. Len(pushed)
          BY <5>1, StoreAssumption DEF RingInv, TypeOK, Slots
        <5>3. total' - cursor' - Capacity + i + 1 = total - cursor + i + 1
          BY <2>5, <2>6, <3>1, StoreAssumption DEF TypeOK, Slots
        <5> QED BY <2>3, <5>1, <5>2, <5>3
      <4> QED BY <4>1, <4>2
    <3>2. CASE cursor # Capacity - 1          \* older slots stay as they are
      <4>1. cursor' = cursor + 1 /\ count = Capacity /\ i > cursor
        BY <2>5, <2>6, <2>7, <2>9, <3>2, StoreAssumption DEF RingInv, TypeOK, Slots
      <4>2. ring'[i] = ring[i] /\ ring[i] = pushed[total - cursor - Capacity + i + 1]
        BY <2>4, <4>1 DEF RingInv, TypeOK, Slots
      <4>3. total - cursor - Capacity + i + 1 \in 1 .. Len(pushed)
        BY <4>1, StoreAssumption DEF RingInv, TypeOK, Slots
      <4>4. total' - cursor' - Capacity + i + 1 = total - cursor - Capacity + i + 1
        BY <2>6, <4>1, StoreAssumption DEF TypeOK, Slots
      <4> QED BY <2>3, <4>2, <4>3, <4>4
    <3> QED BY <3>1, <3>2
  <2> QED BY <2>7, <2>8, <2>9 DEF RingInv
<1>2. ASSUME UNCHANGED <<ring, cursor, count, total, pushed>> PROVE RingInv'
  BY <1>2 DEF RingInv
<1>3. ASSUME NEW c \in Chans, NEW f \in SUBSET Tables,
             SubscribeWithFilter(c, f) \/ Unsubscribe(c) \/ Receive(c)
      PROVE  RingInv'
  BY <1>2, <1>3 DEF SubscribeWithFilter, Unsubscribe, Receive
<1>4. CASE UNCHANGED vars
  BY <1>2, <1>4 DEF vars, storeVars, histVars
<1> QED BY <1>1, <1>3, <1>4 DEF Next, PushAny

\* The ring lies over the history as RingInv says in every reachable state.
THEOREM RingCorrect == Spec => []RingInv
<1> QED BY TypeInit, TypeStep, RingInit, RingStep, PTL DEF Spec

\* Unrolling the ring from the cursor, as Snapshot does (store.go:112-126), gives
\* the last count events, in the part-filled and in the wrapped case.
LEMMA SnapshotFromRing == TypeOK /\ RingInv => SnapshotIsWindow
<1> SUFFICES ASSUME TypeOK, RingInv PROVE SnapshotIsWindow
  OBVIOUS
<1>1. ASSUME NEW k \in 1 .. count
      PROVE  ring[SlotOf(k)] = pushed[total - count + k]
  <2>1. CASE count < Capacity
    BY <1>1, <2>1, StoreAssumption DEF RingInv, TypeOK, Slots, SlotOf
  <2>2. CASE count = Capacity /\ k <= Capacity - cursor
    <3>1. SlotOf(k) = cursor + k - 1 /\ cursor + k - 1 \in Slots
      BY <1>1, <2>2, StoreAssumption DEF TypeOK, Slots, SlotOf
    <3>2. ring[cursor + k - 1] = pushed[total - cursor - Capacity + (cursor + k - 1) + 1]
      BY <2>2, <3>1 DEF RingInv, TypeOK, Slots
    <3>3. total - cursor - Capacity + (cursor + k - 1) + 1 = total - count + k
      BY <2>2, StoreAssumption DEF TypeOK, Slots
    <3> QED BY <3>1, <3>2, <3>3
  <2>3. CASE count = Capacity /\ ~(k <= Capacity - cursor)
    <3>1. /\ SlotOf(k) = k - 1 - (Capacity - cursor)
          /\ SlotOf(k) \in Slots /\ SlotOf(k) < cursor
      BY <1>1, <2>3, StoreAssumption DEF TypeOK, Slots, SlotOf
    <3>2. ring[SlotOf(k)] = pushed[total - cursor + SlotOf(k) + 1]
      BY <3>1 DEF RingInv
    <3>3. total - cursor + SlotOf(k) + 1 = total - count + k
      BY <2>3, <3>1, StoreAssumption DEF TypeOK, Slots
    <3> QED BY <3>2, <3>3
  <2> QED BY <2>1, <2>2, <2>3, StoreAssumption DEF TypeOK
<1>2. count = IF total < Capacity THEN total ELSE Capacity
  BY StoreAssumption DEF RingInv, TypeOK, Slots
<1>3. Snapshot = [k \in 1 .. count |-> pushed[total - count + k]]
  BY <1>1 DEF Snapshot
<1> QED BY <1>2, <1>3 DEF SnapshotIsWindow, Stats, RingInv

\* Snapshot is the last events pushed, in the order of their pushes.
THEOREM SnapshotCorrect == Spec => []SnapshotIsWindow
<1> QED BY TypeCorrect, RingCorrect, SnapshotFromRing, PTL
------------------------------------------------------------------------------
(***************************************************************************)
(* The ring buffer implements the sliding window.                          *)
(***************************************************************************)
IInv == TypeOK /\ RingInv

\* Snapshot as a sequence, read off the history.
SnapshotShape ==
    /\ Snapshot \in Seq(Event)
    /\ Len(Snapshot) = count
    /\ \A k \in 1 .. count : /\ total - count + k \in 1 .. Len(pushed)
                             /\ Snapshot[k] = pushed[total - count + k]

\* The copy Snapshot returns is a sequence of count events (store.go:112-126).
LEMMA SnapshotSeq == IInv => SnapshotShape
<1> SUFFICES ASSUME IInv PROVE SnapshotShape
  OBVIOUS
<1> USE DEF IInv
<1>1. \A k \in 1 .. count : total - count + k \in 1 .. Len(pushed)
  BY StoreAssumption DEF TypeOK, RingInv, Slots
<1>2. Snapshot = [k \in 1 .. count |-> pushed[total - count + k]]
  BY SnapshotFromRing DEF SnapshotIsWindow
<1>3. \A k \in 1 .. count : Snapshot[k] \in Event
  BY <1>1, <1>2, ElementOfSeq DEF TypeOK
<1>4. count \in Nat
  BY StoreAssumption DEF TypeOK
<1>5. Snapshot \in [1 .. count -> Event]
  BY <1>2, <1>3
<1>6. Snapshot \in Seq(Event) /\ Len(Snapshot) = count
  BY <1>4, <1>5, SeqDef, LenProperties
<1> QED BY <1>1, <1>2, <1>6 DEF SnapshotShape

\* A Push moves the window by one: the event comes in at the end and, once the
\* ring is full, the oldest one leaves.
LEMMA PushMovesWindow ==
    ASSUME IInv, IInv', NEW e \in Event, Push(e)
    PROVE  Snapshot' = Window!Last(Append(Snapshot, e), Capacity)
<1> DEFINE A == Append(Snapshot, e)
<1>1. /\ Snapshot \in Seq(Event) /\ Len(Snapshot) = count
      /\ \A k \in 1 .. count : /\ total - count + k \in 1 .. Len(pushed)
                               /\ Snapshot[k] = pushed[total - count + k]
  BY SnapshotSeq DEF SnapshotShape
<1>2. /\ Snapshot' \in Seq(Event) /\ Len(Snapshot') = count'
      /\ \A k \in 1 .. count' : Snapshot'[k] = pushed'[total' - count' + k]
  <2>1. SnapshotShape'
    BY SnapshotSeq, PTL
  <2> QED BY <2>1 DEF SnapshotShape
<1>3. /\ A \in Seq(Event) /\ Len(A) = count + 1
      /\ \A k \in 1 .. count : A[k] = Snapshot[k]
      /\ A[count + 1] = e
  BY <1>1
<1>4. /\ \A n \in 1 .. Len(pushed) : pushed'[n] = pushed[n]
      /\ pushed'[Len(pushed) + 1] = e
      /\ Len(pushed) = total /\ total' = total + 1
      /\ count' = IF count < Capacity THEN count + 1 ELSE count
  BY DEF Push, NextCount, IInv, TypeOK, RingInv
<1> HIDE DEF A
<1>5. CASE count < Capacity
  <2>1. Window!Last(A, Capacity) = A
    BY <1>3, <1>5, StoreAssumption DEF Window!Last, IInv, TypeOK
  <2>2. \A k \in 1 .. count + 1 : Snapshot'[k] = A[k]
    <3> SUFFICES ASSUME NEW k \in 1 .. count + 1 PROVE Snapshot'[k] = A[k]
      OBVIOUS
    <3>1. total' - count' = total - count /\ k \in 1 .. count'
      BY <1>4, <1>5, StoreAssumption DEF IInv, TypeOK
    <3>2. Snapshot'[k] = pushed'[total - count + k]
      BY <1>2, <3>1
    <3>3. CASE k = count + 1
      BY <1>3, <1>4, <3>2, <3>3 DEF IInv, TypeOK
    <3>4. CASE k # count + 1
      <4>1. k \in 1 .. count
        BY <3>4, StoreAssumption DEF IInv, TypeOK
      <4> QED BY <1>1, <1>3, <1>4, <3>2, <4>1
    <3> QED BY <3>3, <3>4
  <2>3. Snapshot' = A
    BY <1>2, <1>3, <1>4, <1>5, <2>2, SeqEqual
  <2> QED BY <2>1, <2>3 DEF A
<1>6. CASE count = Capacity
  <2>1. Window!Last(A, Capacity) = Tail(A)
    BY <1>3, <1>6, StoreAssumption DEF Window!Last, IInv, TypeOK
  <2>2. /\ Tail(A) \in Seq(Event) /\ Len(Tail(A)) = count
        /\ \A k \in 1 .. count : Tail(A)[k] = A[k + 1]
    BY <1>3, <1>6, StoreAssumption
  <2>3. \A k \in 1 .. count : Snapshot'[k] = A[k + 1]
    <3> SUFFICES ASSUME NEW k \in 1 .. count PROVE Snapshot'[k] = A[k + 1]
      OBVIOUS
    <3>1. Snapshot'[k] = pushed'[total + 1 - count + k]
      BY <1>2, <1>4, <1>6 DEF IInv, TypeOK
    <3>2. CASE k = count
      BY <1>3, <1>4, <3>1, <3>2 DEF IInv, TypeOK
    <3>3. CASE k # count
      <4>1. k + 1 \in 1 .. count /\ total - count + (k + 1) = total + 1 - count + k
        BY <3>3, StoreAssumption DEF IInv, TypeOK
      <4> QED BY <1>1, <1>3, <1>4, <3>1, <4>1
    <3> QED BY <3>2, <3>3
  <2>4. Snapshot' = Tail(A)
    BY <1>2, <1>4, <1>6, <2>2, <2>3, SeqEqual
  <2> QED BY <2>1, <2>4 DEF A
<1> QED BY <1>5, <1>6, StoreAssumption DEF IInv, TypeOK

\* New's empty ring is the empty window (store.go:54-59).
LEMMA WindowInit == Init => Window!Init
<1> SUFFICES ASSUME Init PROVE Window!Init
  OBVIOUS
<1>1. IInv /\ count = 0
  BY TypeInit, RingInit DEF IInv, Init
<1>2. Snapshot \in Seq(Event) /\ Len(Snapshot) = 0
  BY <1>1, SnapshotSeq DEF SnapshotShape
<1>3. Snapshot = <<>>
  BY <1>2, EmptySeq
<1> QED BY <1>3 DEF Init, Window!Init

\* The operations that leave the ring alone leave the window alone.
LEMMA SnapshotStable == UNCHANGED <<ring, cursor, count>> => UNCHANGED Snapshot
BY DEF Snapshot, SlotOf

\* Each method of the store (store.go:62-110) is the operation of EventWindow of
\* the same effect: one case per action.
LEMMA WindowStep == IInv /\ IInv' /\ [Next]_vars => [Window!Next]_Window!vars
<1> SUFFICES ASSUME IInv, IInv', [Next]_vars PROVE [Window!Next]_Window!vars
  OBVIOUS
<1>1. ASSUME NEW t \in Tables, total < MaxPush, Push([seq |-> total + 1, table |-> t])
      PROVE  Window!Next
  <2> DEFINE e == [seq |-> total + 1, table |-> t]
  <2>1. e \in Event /\ e \in [seq : 1 .. MaxPush, table : Tables]
    BY <1>1, StoreAssumption DEF IInv, TypeOK, Event
  <2> HIDE DEF e
  <2>2. Push(e)
    BY <1>1 DEF e
  <2>3. Snapshot' = Window!Last(Append(Snapshot, e), Capacity)
    BY <2>1, <2>2, PushMovesWindow
  <2>4. Window!Put(e)
    BY <2>2, <2>3 DEF Push, TrySend, Matches, Window!Put
  <2> QED BY <2>1, <2>4 DEF Window!Next
<1>2. ASSUME NEW c \in Chans, NEW f \in SUBSET Tables, SubscribeWithFilter(c, f)
      PROVE  Window!Next
  <2>1. Window!Join(c, f)
    BY <1>2, SnapshotStable DEF SubscribeWithFilter, Window!Join
  <2> QED BY <2>1 DEF Window!Next
<1>3. ASSUME NEW c \in Chans, Unsubscribe(c) PROVE Window!Next
  <2>1. Window!Leave(c)
    BY <1>3, SnapshotStable DEF Unsubscribe, Window!Leave
  <2> QED BY <2>1 DEF Window!Next
<1>4. ASSUME NEW c \in Chans, Receive(c) PROVE Window!Next
  <2>1. Window!Take(c)
    BY <1>4, SnapshotStable DEF Receive, Window!Take
  <2> QED BY <2>1 DEF Window!Next
<1>5. CASE UNCHANGED vars
  BY <1>5, SnapshotStable DEF vars, storeVars, histVars, Window!vars
<1> QED BY <1>1, <1>2, <1>3, <1>4, <1>5 DEF Next, PushAny

\* The ring with its cursor is indistinguishable, to every reader and every
\* subscriber, from a list of the last Capacity events.
THEOREM Refinement == Spec => ImplementsWindow
<1>1. Init => IInv
  BY TypeInit, RingInit DEF IInv
<1>2. IInv /\ [Next]_vars => IInv'
  BY TypeStep, RingStep DEF IInv
<1> QED BY <1>1, <1>2, WindowInit, WindowStep, PTL DEF Spec, ImplementsWindow, Window!Spec
------------------------------------------------------------------------------
(***************************************************************************)
(* The fan-out: order and completeness of what a subscriber is handed.     *)
(***************************************************************************)

\* What FeedInOrder and MissedOnlyWhenFull need to be inductive: events carry
\* their numbers, subscriptions lie in the past, a closed channel is not
\* subscribed, and a channel not made yet was handed nothing.
FeedInv ==
    /\ subs \cap closed = {}
    /\ \A n \in 1 .. Len(pushed) : pushed[n].seq = n
    /\ \A c \in Chans : since[c] <= total /\ until[c] <= total
    /\ \A c \in Chans : c \notin subs \cup closed => Delivered(c) = <<>>
    /\ \A c \in Chans : InOrder(c)
    /\ \A c \in subs \cup closed : MissedWhenFull(c)

\* Nobody is subscribed to a new store (store.go:54-59).
LEMMA FeedInit == Init => FeedInv
<1> SUFFICES ASSUME Init PROVE FeedInv
  OBVIOUS
<1>1. \A c \in Chans : Delivered(c) = <<>>
  BY DEF Init, Delivered
<1>2. \A c \in Chans : DOMAIN Delivered(c) = {}
  BY <1>1
<1> QED BY <1>1, <1>2 DEF Init, FeedInv, InOrder

\* Reading moves an event from the channel to the reader, no more.
LEMMA ReceiveKeepsDelivered ==
    ASSUME TypeOK, NEW c \in Chans, Receive(c), NEW d \in Chans
    PROVE  Delivered(d)' = Delivered(d)
<1>1. CASE d # c
  BY <1>1 DEF Receive, Delivered, TypeOK
<1>2. CASE d = c
  <2> DEFINE g == got[c]
             q == queue[c]
  <2>1. g \in Seq(Event) /\ q \in Seq(Event) /\ q # <<>>
    BY DEF TypeOK, Receive
  <2>2. Delivered(d) = g \o q /\ Delivered(d)' = Append(g, Head(q)) \o Tail(q)
    BY <1>2 DEF Delivered, Receive, TypeOK
  <2> HIDE DEF g, q
  <2>3. Head(q) \in Event /\ Tail(q) \in Seq(Event) /\ Len(Tail(q)) = Len(q) - 1 /\ Len(q) >= 1
    BY <2>1
  <2>4. /\ Append(g, Head(q)) \in Seq(Event)
        /\ Len(Append(g, Head(q))) = Len(g) + 1
    BY <2>1, <2>3
  <2>5. Append(g, Head(q)) \o Tail(q) \in Seq(Event) /\ g \o q \in Seq(Event)
    BY <2>1, <2>3, <2>4, ConcatProperties
  <2>6. Len(Append(g, Head(q)) \o Tail(q)) = Len(g \o q)
    BY <2>1, <2>3, <2>4, ConcatProperties
  <2>7. \A i \in 1 .. Len(g) + Len(q) : (Append(g, Head(q)) \o Tail(q))[i] = (g \o q)[i]
    BY <2>1, <2>3, <2>4
  <2> QED BY <2>1, <2>2, <2>5, <2>6, <2>7, SeqEqual, ConcatProperties
<1> QED BY <1>1, <1>2

\* A Push adds the event at the end of what a channel has been handed, or
\* leaves it alone; which of the two is TrySend's condition.
LEMMA PushDelivers ==
    ASSUME TypeOK, NEW e \in Event, Push(e), NEW c \in Chans
    PROVE  /\ Delivered(c) \in Seq(Event)
           /\ IF Matches(c, e) /\ Len(queue[c]) < SubChanCap
              THEN Delivered(c)' = Append(Delivered(c), e)
              ELSE Delivered(c)' = Delivered(c)
           /\ Len(queue[c]) <= Len(Delivered(c))
<1> DEFINE g == got[c]
           q == queue[c]
<1>1. g \in Seq(Event) /\ q \in Seq(Event)
  BY DEF TypeOK
<1>2. /\ g \o q \in Seq(Event)
      /\ Len(g \o q) = Len(g) + Len(q) /\ Len(g) \in Nat /\ Len(q) \in Nat
  BY <1>1, ConcatProperties
<1>3. /\ Delivered(c) \in Seq(Event)
      /\ Len(queue[c]) <= Len(Delivered(c))
  <2>1. Delivered(c) = g \o q
    BY DEF Delivered
  <2> HIDE DEF g
  <2>2. Len(q) <= Len(g \o q)
    BY <1>2
  <2> QED BY <1>2, <2>1, <2>2
<1>4. CASE Matches(c, e) /\ Len(queue[c]) < SubChanCap
  <2>1. Delivered(c)' = g \o Append(q, e)
    BY <1>4 DEF Push, TrySend, Delivered
  <2> HIDE DEF g, q
  <2>2. Append(q, e) \in Seq(Event) /\ Append(g \o q, e) \in Seq(Event)
    BY <1>1, <1>2
  <2>3. g \o Append(q, e) \in Seq(Event) /\ Len(g \o Append(q, e)) = Len(Append(g \o q, e))
    BY <1>1, <1>2, <2>2
  <2>4. \A i \in 1 .. Len(g \o Append(q, e)) : (g \o Append(q, e))[i] = Append(g \o q, e)[i]
    BY <1>1, <1>2, <2>2
  <2>5. g \o Append(q, e) = Append(g \o q, e)
    BY <2>2, <2>3, <2>4, SeqEqual
  <2>6. Delivered(c)' = Append(Delivered(c), e)
    BY <2>1, <2>5 DEF Delivered, g, q
  <2> QED BY <1>3, <1>4, <2>6
<1>5. CASE ~(Matches(c, e) /\ Len(queue[c]) < SubChanCap)
  <2>1. Delivered(c)' = Delivered(c)
    BY <1>5 DEF Push, TrySend, Delivered
  <2> QED BY <1>3, <1>5, <2>1
<1> QED BY <1>4, <1>5

\* Operations that hand no event to a channel, and leave its subscription or
\* only end it, leave its feed as good as it was.
LEMMA FeedUndisturbed ==
    ASSUME TypeOK, FeedInv, NEW c \in Chans,
           Delivered(c)' = Delivered(c),
           UNCHANGED <<pushed, filter[c], since[c], LastFor(c)>>
    PROVE  InOrder(c)' /\ (MissedWhenFull(c) => MissedWhenFull(c)')
BY DEF FeedInv, InOrder, MissedWhenFull

\* The feed of one channel over a Push, in the four cases of the select: not
\* subscribed, filtered out, dropped, handed over.
LEMMA FeedPush ==
    ASSUME TypeOK, RingInv, FeedInv, NEW c \in Chans, NEW e \in Event,
           e.seq = total + 1, Push(e)
    PROVE  /\ InOrder(c)'
           /\ c \in subs \cup closed => MissedWhenFull(c)'
<1> DEFINE D == Delivered(c)
<1>1. /\ D \in Seq(Event)
      /\ IF Matches(c, e) /\ Len(queue[c]) < SubChanCap THEN D' = Append(D, e) ELSE D' = D
      /\ Len(queue[c]) <= Len(D)
  BY PushDelivers
<1>2. /\ Len(pushed) = total /\ total \in Nat
      /\ \A n \in 1 .. total : pushed'[n] = pushed[n]
      /\ pushed'[total + 1] = e
      /\ total' = total + 1
      /\ UNCHANGED <<subs, closed, filter, since, until>>
  BY DEF RingInv, TypeOK, Push
<1>3. since[c] \in Nat /\ until[c] \in Nat /\ since[c] <= total /\ until[c] <= total
  BY DEF FeedInv, TypeOK
<1>4. /\ LastFor(c) \in Nat /\ LastFor(c) <= total
      /\ LastFor(c)' = IF c \in closed THEN LastFor(c) ELSE total + 1
  BY <1>2, <1>3 DEF LastFor
<1>5. \A i \in DOMAIN D : /\ D[i].seq \in since[c] + 1 .. LastFor(c)
                          /\ D[i] = pushed[D[i].seq]
                          /\ D[i].table \in filter[c]
  BY DEF FeedInv, InOrder
<1>6. \A i, j \in DOMAIN D : i < j => D[i].seq < D[j].seq
  BY DEF FeedInv, InOrder
<1>7. c \in subs => c \notin closed
  BY DEF FeedInv
<1>8. DOMAIN D = 1 .. Len(D) /\ Len(D) \in Nat
  BY <1>1
<1> HIDE DEF D
<1>9. \A i \in DOMAIN D : /\ D[i].seq \in since'[c] + 1 .. LastFor(c)'
                          /\ D[i] = pushed'[D[i].seq]
                          /\ D[i].table \in filter'[c]
  BY <1>2, <1>3, <1>4, <1>5
<1>10. CASE D' = D
  <2>1. InOrder(c)'
    BY <1>6, <1>9, <1>10 DEF InOrder, D
  <2>2. ASSUME c \in subs \cup closed PROVE MissedWhenFull(c)'
    <3> SUFFICES ASSUME NEW m \in since[c] + 1 .. LastFor(c)',
                        pushed'[m].table \in filter[c]
                 PROVE  \/ \E i \in DOMAIN D : D[i].seq = m
                        \/ \E i \in DOMAIN D : i >= SubChanCap /\ D[i].seq < m
      BY <1>2, <1>10 DEF MissedWhenFull, D
    <3>1. CASE m \in since[c] + 1 .. LastFor(c)
      <4>1. pushed[m].table \in filter[c]
        BY <1>2, <1>3, <1>4, <3>1
      <4>2. MissedWhenFull(c)
        BY <2>2 DEF FeedInv
      <4> QED BY <3>1, <4>1, <4>2 DEF MissedWhenFull, D
    <3>2. CASE m \notin since[c] + 1 .. LastFor(c)    \* the event that was just dropped
      <4>1. c \notin closed /\ m = total + 1
        BY <1>2, <1>3, <1>4, <3>2 DEF LastFor
      <4>2. Matches(c, e)
        BY <1>2, <2>2, <4>1 DEF Matches
      <4>3. D # Append(D, e)
        BY <1>1
      <4>4. ~(Len(queue[c]) < SubChanCap)
        BY <1>1, <1>10, <4>2, <4>3
      <4>5. Len(queue[c]) \in Nat
        BY DEF TypeOK
      <4>6. Len(D) >= SubChanCap /\ Len(D) \in DOMAIN D
        BY <1>1, <1>8, <4>4, <4>5, StoreAssumption
      <4>7. D[Len(D)].seq < m
        BY <1>2, <1>3, <1>4, <1>5, <4>1, <4>6
      <4> QED BY <4>6, <4>7
    <3> QED BY <3>1, <3>2
  <2> QED BY <2>1, <2>2
<1>11. CASE Matches(c, e) /\ D' = Append(D, e)
  <2>1. c \in subs /\ c \notin closed /\ e.table \in filter[c]
    BY <1>7, <1>11 DEF Matches
  <2>2. /\ DOMAIN D' = 1 .. Len(D) + 1
        /\ \A i \in DOMAIN D : D'[i] = D[i]
        /\ D'[Len(D) + 1] = e
    <3>1. /\ DOMAIN Append(D, e) = 1 .. Len(D) + 1
          /\ \A i \in 1 .. Len(D) : Append(D, e)[i] = D[i]
          /\ Append(D, e)[Len(D) + 1] = e
      BY <1>1, AppendProperties
    <3> QED BY <1>8, <1>11, <3>1
  <2>3. LastFor(c)' = total + 1
    BY <1>4, <2>1
  <2>4. ASSUME NEW i \in DOMAIN D'
        PROVE  /\ D'[i].seq \in since'[c] + 1 .. LastFor(c)'
               /\ D'[i] = pushed'[D'[i].seq]
               /\ D'[i].table \in filter'[c]
    <3>1. CASE i \in DOMAIN D
      BY <1>9, <2>2, <3>1
    <3>2. CASE i = Len(D) + 1
      BY <1>2, <1>3, <2>1, <2>2, <2>3, <3>2
    <3> QED BY <1>8, <2>2, <2>4, <3>1, <3>2
  <2>5. ASSUME NEW i \in DOMAIN D', NEW j \in DOMAIN D', i < j
        PROVE  D'[i].seq < D'[j].seq
    <3>1. i \in DOMAIN D
      BY <1>8, <2>2, <2>5
    <3>2. CASE j \in DOMAIN D
      BY <1>6, <2>2, <2>5, <3>1, <3>2
    <3>3. CASE j = Len(D) + 1
      BY <1>2, <1>3, <1>4, <1>5, <2>2, <3>1, <3>3
    <3> QED BY <1>8, <2>2, <3>2, <3>3
  <2>6. InOrder(c)'
    BY <2>4, <2>5 DEF InOrder, D
  <2>7. ASSUME NEW m \in since[c] + 1 .. LastFor(c)', pushed'[m].table \in filter[c]
        PROVE  \/ \E i \in DOMAIN D' : D'[i].seq = m
               \/ \E i \in DOMAIN D' : i >= SubChanCap /\ D'[i].seq < m
    <3>1. CASE m = total + 1
      BY <1>8, <2>2, <3>1
    <3>2. CASE m # total + 1
      <4>1. m \in since[c] + 1 .. LastFor(c) /\ pushed[m].table \in filter[c]
        BY <1>2, <1>3, <2>1, <2>3, <2>7, <3>2 DEF LastFor
      <4>2. \/ \E i \in DOMAIN D : D[i].seq = m
            \/ \E i \in DOMAIN D : i >= SubChanCap /\ D[i].seq < m
        BY <2>1, <4>1 DEF FeedInv, MissedWhenFull, D
      <4> QED BY <1>8, <2>2, <4>2
    <3> QED BY <3>1, <3>2
  <2>8. MissedWhenFull(c)'
    BY <1>2, <2>7 DEF MissedWhenFull, D
  <2> QED BY <2>6, <2>8
<1> QED BY <1>1, <1>10, <1>11

\* Push, subscribe, unsubscribe and receive (store.go:62-110) keep every feed
\* ordered and complete: one case per action.
LEMMA FeedStep == TypeOK /\ RingInv /\ FeedInv /\ [Next]_vars => FeedInv'
<1> SUFFICES ASSUME TypeOK, RingInv, FeedInv, [Next]_vars PROVE FeedInv'
  OBVIOUS
<1>1. ASSUME NEW t \in Tables, Push([seq |-> total + 1, table |-> t])
      PROVE  FeedInv'
  <2> DEFINE e == [seq |-> total + 1, table |-> t]
  <2>1. e \in Event /\ e.seq = total + 1
    BY DEF TypeOK, Event
  <2> HIDE DEF e
  <2>2. Push(e)
    BY <1>1 DEF e
  <2>3. UNCHANGED <<subs, closed, since, until>> /\ total' = total + 1
    BY <2>2 DEF Push
  <2>4. \A n \in 1 .. Len(pushed') : pushed'[n].seq = n
    <3>1. /\ Len(pushed') = Len(pushed) + 1 /\ Len(pushed) = total /\ total \in Nat
          /\ \A n \in 1 .. Len(pushed) : pushed'[n] = pushed[n]
          /\ pushed'[Len(pushed) + 1] = e
      BY <2>1, <2>2 DEF Push, TypeOK, RingInv
    <3> QED BY <2>1, <3>1 DEF FeedInv
  <2>5. \A c \in Chans : since'[c] <= total' /\ until'[c] <= total'
    BY <2>3 DEF FeedInv, TypeOK
  <2>6. \A c \in Chans : c \notin subs' \cup closed' => Delivered(c)' = <<>>
    BY <2>1, <2>2, <2>3, PushDelivers DEF FeedInv, Matches
  <2>7. \A c \in Chans : InOrder(c)' /\ (c \in subs \cup closed => MissedWhenFull(c)')
    BY <2>1, <2>2, FeedPush
  <2>8. subs \cup closed \subseteq Chans
    BY DEF TypeOK
  <2> QED BY <2>3, <2>4, <2>5, <2>6, <2>7, <2>8 DEF FeedInv
<1>2. ASSUME NEW c \in Chans, NEW f \in SUBSET Tables, SubscribeWithFilter(c, f)
      PROVE  FeedInv'
  <2>1. /\ UNCHANGED <<pushed, total, closed, until, queue, got>>
        /\ \A d \in Chans \ {c} : filter'[d] = filter[d] /\ since'[d] = since[d]
        /\ since'[c] = total /\ subs' = subs \cup {c} /\ c \notin closed
    BY <1>2 DEF SubscribeWithFilter, TypeOK
  <2>2. \A d \in Chans : Delivered(d)' = Delivered(d)
    BY <2>1 DEF Delivered
  <2>3. ASSUME NEW d \in Chans
        PROVE  InOrder(d)' /\ (d \in subs' \cup closed' => MissedWhenFull(d)')
    <3>1. CASE d = c                    \* it was handed nothing and missed nothing
      <4>1. Delivered(c)' = <<>>
        BY <1>2, <2>2 DEF SubscribeWithFilter, FeedInv
      <4>2. DOMAIN Delivered(c)' = {}
        BY <4>1
      <4>3. InOrder(c)'
        BY <4>2 DEF InOrder
      <4>4. since'[c] + 1 .. LastFor(c)' = {}
        BY <2>1 DEF LastFor, TypeOK
      <4>5. MissedWhenFull(c)'
        BY <4>4 DEF MissedWhenFull
      <4> QED BY <3>1, <4>3, <4>5
    <3>2. CASE d # c
      <4>1. UNCHANGED <<pushed, filter[d], since[d], LastFor(d)>>
        BY <2>1, <3>2 DEF LastFor
      <4>2. InOrder(d)' /\ (MissedWhenFull(d) => MissedWhenFull(d)')
        BY <2>2, <4>1, FeedUndisturbed
      <4> QED BY <2>1, <3>2, <4>2 DEF FeedInv
    <3> QED BY <3>1, <3>2
  <2>4. subs' \cap closed' = {} /\ subs' \cup closed' \subseteq Chans
    BY <2>1 DEF FeedInv, TypeOK
  <2>5. /\ \A n \in 1 .. Len(pushed') : pushed'[n].seq = n
        /\ \A d \in Chans : since'[d] <= total' /\ until'[d] <= total'
        /\ \A d \in Chans : d \notin subs' \cup closed' => Delivered(d)' = <<>>
    BY <2>1, <2>2 DEF FeedInv, TypeOK
  <2> QED BY <2>3, <2>4, <2>5 DEF FeedInv
<1>3. ASSUME NEW c \in Chans, Unsubscribe(c)
      PROVE  FeedInv'
  <2>1. /\ UNCHANGED <<pushed, total, filter, since, queue, got>>
        /\ subs' = subs \ {c} /\ closed' = closed \cup {c} /\ c \in subs /\ c \notin closed
        /\ until'[c] = total /\ \A d \in Chans \ {c} : until'[d] = until[d]
    BY <1>3 DEF Unsubscribe, TypeOK, FeedInv
  <2>2. \A d \in Chans : Delivered(d)' = Delivered(d) /\ LastFor(d)' = LastFor(d)
    BY <2>1 DEF Delivered, LastFor
  <2>3. \A d \in Chans : InOrder(d)' /\ (MissedWhenFull(d) => MissedWhenFull(d)')
    BY <2>1, <2>2, FeedUndisturbed
  <2>4. subs' \cap closed' = {} /\ subs' \cup closed' = subs \cup closed /\ subs \cup closed \subseteq Chans
    BY <2>1 DEF FeedInv, TypeOK
  <2>5. ASSUME NEW d \in Chans PROVE since'[d] <= total' /\ until'[d] <= total'
    <3>1. since[d] <= total /\ until[d] <= total
      BY DEF FeedInv
    <3>2. total <= total
      BY DEF TypeOK
    <3> QED BY <2>1, <3>1, <3>2
  <2> QED BY <2>1, <2>2, <2>3, <2>4, <2>5 DEF FeedInv
<1>4. ASSUME NEW c \in Chans, Receive(c)
      PROVE  FeedInv'
  <2>1. UNCHANGED <<pushed, total, subs, closed, filter, since, until>>
    BY <1>4 DEF Receive
  <2>2. \A d \in Chans : Delivered(d)' = Delivered(d) /\ LastFor(d)' = LastFor(d)
    BY <1>4, <2>1, ReceiveKeepsDelivered DEF LastFor
  <2>3. \A d \in Chans : InOrder(d)' /\ (MissedWhenFull(d) => MissedWhenFull(d)')
    BY <2>1, <2>2, FeedUndisturbed
  <2> QED BY <2>1, <2>2, <2>3 DEF FeedInv, TypeOK
<1>5. CASE UNCHANGED vars
  <2>1. UNCHANGED <<pushed, total, subs, closed, filter, since, until, queue, got>>
    BY <1>5 DEF vars, storeVars, histVars
  <2>2. \A d \in Chans : Delivered(d)' = Delivered(d) /\ LastFor(d)' = LastFor(d)
    BY <2>1 DEF Delivered, LastFor
  <2>3. \A d \in Chans : InOrder(d)' /\ (MissedWhenFull(d) => MissedWhenFull(d)')
    BY <2>1, <2>2, FeedUndisturbed
  <2> QED BY <2>1, <2>2, <2>3 DEF FeedInv, TypeOK
<1> QED BY <1>1, <1>2, <1>3, <1>4, <1>5 DEF Next, PushAny

\* The feeds are ordered and complete in every reachable state of the store.
LEMMA FeedCorrect == Spec => []FeedInv
<1>1. Init => TypeOK /\ RingInv /\ FeedInv
  BY TypeInit, RingInit, FeedInit
<1>2. TypeOK /\ RingInv /\ FeedInv /\ [Next]_vars => (TypeOK /\ RingInv /\ FeedInv)'
  BY TypeStep, RingStep, FeedStep
<1> QED BY <1>1, <1>2, PTL DEF Spec

\* Every subscriber's feed is in push order, without repetition, of its own
\* tables and of its own time, however many subscribers come and go.
THEOREM FeedsAreOrdered == Spec => []FeedInOrder
<1>1. FeedInv => FeedInOrder
  BY DEF FeedInv, FeedInOrder
<1> QED BY <1>1, FeedCorrect, PTL

\* A subscriber that misses an event had SubChanCap earlier ones handed to it:
\* the drop of store.go:75-79 is the only way to miss one.
THEOREM NoSilentLoss == Spec => []MissedOnlyWhenFull
<1>1. FeedInv => MissedOnlyWhenFull
  BY DEF FeedInv, MissedOnlyWhenFull
<1> QED BY <1>1, FeedCorrect, PTL
=============================================================================
