------------------------------ MODULE AttachProofs ------------------------------
(***************************************************************************)
(* Theorems about Attach, for both modes, every capacity of the store, of  *)
(* the subscription and of Client.events, and any number of events.        *)
(***************************************************************************)
EXTENDS Attach, SequenceTheorems, TLAPS

(* What the proofs say of a sequence of events. *)

Nums(s) == {s[i].seq : i \in DOMAIN s}
InOrder(s) == \A i, j \in DOMAIN s : i < j => s[i].seq < s[j].seq
Before(A, B) == \A a \in A, b \in B : a < b

\* w is what a store of Capacity events shows after p was pushed into it.
IsWindow(w, p) ==
    /\ Len(w) = IF Len(p) < Capacity THEN Len(p) ELSE Capacity
    /\ \A j \in 1 .. Len(w) : w[j] = p[Len(p) - Len(w) + j]

LEMMA EventSeqs ==
    ASSUME NEW s \in Seq(Events)
    PROVE  /\ Len(s) \in Nat /\ DOMAIN s = 1 .. Len(s)
           /\ \A i \in 1 .. Len(s) : s[i] \in Events /\ s[i].seq \in Nat /\ s[i].table = "any"
BY AttachAssumption DEF Events, Event

LEMMA NumsOf ==
    ASSUME NEW s \in Seq(Events)
    PROVE  /\ \A i \in DOMAIN s : s[i].seq \in Nums(s)
           /\ \A n \in Nums(s) : n \in Nat /\ \E i \in DOMAIN s : n = s[i].seq
BY EventSeqs DEF Nums

LEMMA EmptySequence == /\ <<>> \in Seq(Events) /\ Nums(<<>>) = {} /\ InOrder(<<>>)
BY DEF Nums, InOrder

LEMMA AppendNums ==
    ASSUME NEW s \in Seq(Events), NEW e \in Events
    PROVE  /\ Append(s, e) \in Seq(Events) /\ Len(Append(s, e)) = Len(s) + 1
           /\ Nums(Append(s, e)) = Nums(s) \cup {e.seq}
           /\ InOrder(s) /\ (\A n \in Nums(s) : n < e.seq) => InOrder(Append(s, e))
<1> DEFINE t == Append(s, e)
<1>1. /\ t \in Seq(Events) /\ Len(t) = Len(s) + 1 /\ t[Len(s) + 1] = e
      /\ \A i \in 1 .. Len(s) : t[i] = s[i]
  BY AppendProperties
<1>2. DOMAIN s = 1 .. Len(s) /\ DOMAIN t = 1 .. Len(s) + 1 /\ Len(s) \in Nat
  BY <1>1, EventSeqs
<1> HIDE DEF t
<1>3. Nums(t) = Nums(s) \cup {e.seq}
  <2>1. DOMAIN t = DOMAIN s \cup {Len(s) + 1}
    BY <1>2
  <2> QED BY <1>1, <1>2, <2>1 DEF Nums
<1>4. ASSUME InOrder(s), \A n \in Nums(s) : n < e.seq
      PROVE  InOrder(t)
  <2>1. SUFFICES ASSUME NEW i \in DOMAIN t, NEW j \in DOMAIN t, i < j
                 PROVE  t[i].seq < t[j].seq
    BY DEF InOrder
  <2>2. i \in DOMAIN s /\ t[i] = s[i]
    BY <1>1, <1>2, <2>1
  <2>3. CASE j = Len(s) + 1
    <3>1. s[i].seq \in Nums(s)
      BY <2>2, NumsOf
    <3> QED BY <1>1, <1>4, <2>2, <2>3, <3>1
  <2>4. CASE j # Len(s) + 1
    <3>1. j \in DOMAIN s /\ t[j] = s[j]
      BY <1>1, <1>2, <2>4
    <3> QED BY <1>4, <2>1, <2>2, <3>1 DEF InOrder
  <2> QED BY <2>3, <2>4
<1> QED BY <1>1, <1>3, <1>4 DEF t

LEMMA TailNums ==
    ASSUME NEW s \in Seq(Events), s # <<>>
    PROVE  /\ Head(s) \in Events /\ Tail(s) \in Seq(Events)
           /\ Len(Tail(s)) = Len(s) - 1 /\ Len(s) \in Nat \ {0}
           /\ Head(s).seq \in Nums(s) /\ Nums(Tail(s)) \subseteq Nums(s)
           /\ InOrder(s) => /\ InOrder(Tail(s))
                            /\ \A n \in Nums(Tail(s)) : Head(s).seq < n
<1> DEFINE t == Tail(s)
<1>1. /\ Head(s) \in Events /\ t \in Seq(Events) /\ Len(t) = Len(s) - 1
      /\ \A i \in 1 .. Len(t) : t[i] = s[i + 1]
  BY HeadTailProperties
<1>2. Len(s) \in Nat \ {0} /\ DOMAIN s = 1 .. Len(s) /\ DOMAIN t = 1 .. Len(t) /\ Head(s) = s[1]
  BY <1>1, EmptySeq, EventSeqs
<1> HIDE DEF t
<1>3. \A i \in DOMAIN t : i + 1 \in DOMAIN s /\ 1 \in DOMAIN s /\ 1 < i + 1 /\ t[i] = s[i + 1]
  BY <1>1, <1>2
<1>4. Nums(t) \subseteq Nums(s)
  BY <1>3 DEF Nums
<1>5. Head(s).seq \in Nums(s)
  BY <1>2, NumsOf
<1>6. ASSUME InOrder(s)
      PROVE  InOrder(t) /\ \A n \in Nums(t) : Head(s).seq < n
  <2>1. \A i, j \in DOMAIN t : i < j => i + 1 < j + 1
    BY <1>1, <1>2
  <2>2. InOrder(t)
    BY <1>3, <1>6, <2>1 DEF InOrder
  <2>3. ASSUME NEW n \in Nums(t) PROVE Head(s).seq < n
    <3>1. PICK i \in DOMAIN t : n = t[i].seq
      BY DEF Nums
    <3> QED BY <1>2, <1>3, <1>6, <3>1 DEF InOrder
  <2> QED BY <2>2, <2>3
<1> QED BY <1>1, <1>2, <1>4, <1>5, <1>6 DEF t

\* What has been shown and what waits, read as one sequence.
LEMMA Joined ==
    ASSUME NEW s \in Seq(Events), NEW t \in Seq(Events)
    PROVE  /\ s \o t \in Seq(Events) /\ DOMAIN (s \o t) = 1 .. Len(s) + Len(t)
           /\ Len(s \o t) = Len(s) + Len(t) /\ Len(s) \in Nat /\ Len(t) \in Nat
           /\ \A i \in 1 .. Len(s) + Len(t) :
                 (s \o t)[i] = IF i <= Len(s) THEN s[i] ELSE t[i - Len(s)]
           /\ \A i \in DOMAIN (s \o t) : (s \o t)[i].seq \in Nums(s) \cup Nums(t)
<1> DEFINE u == s \o t
<1>1. /\ u \in Seq(Events) /\ Len(u) = Len(s) + Len(t)
      /\ \A i \in 1 .. Len(s) + Len(t) : u[i] = IF i <= Len(s) THEN s[i] ELSE t[i - Len(s)]
  BY ConcatProperties
<1> HIDE DEF u
<1>2. /\ Len(s) \in Nat /\ Len(t) \in Nat /\ DOMAIN u = 1 .. Len(s) + Len(t)
      /\ DOMAIN s = 1 .. Len(s) /\ DOMAIN t = 1 .. Len(t)
  BY <1>1, EventSeqs
<1>3. ASSUME NEW i \in DOMAIN u
      PROVE  u[i].seq \in Nums(s) \cup Nums(t)
  <2>1. CASE i <= Len(s)
    <3>1. i \in DOMAIN s /\ u[i] = s[i]
      BY <1>1, <1>2, <2>1
    <3> QED BY <3>1, NumsOf
  <2>2. CASE ~(i <= Len(s))
    <3>1. i - Len(s) \in DOMAIN t /\ u[i] = t[i - Len(s)]
      BY <1>1, <1>2, <2>2
    <3> QED BY <3>1, NumsOf
  <2> QED BY <2>1, <2>2
<1> QED BY <1>1, <1>2, <1>3 DEF u

LEMMA JoinInOrder ==
    ASSUME NEW s \in Seq(Events), NEW t \in Seq(Events),
           InOrder(s), InOrder(t), Before(Nums(s), Nums(t))
    PROVE  InOrder(s \o t)
<1> DEFINE u == s \o t
<1>1. /\ DOMAIN u = 1 .. Len(s) + Len(t) /\ Len(s) \in Nat /\ Len(t) \in Nat
      /\ \A i \in 1 .. Len(s) + Len(t) : u[i] = IF i <= Len(s) THEN s[i] ELSE t[i - Len(s)]
      /\ DOMAIN s = 1 .. Len(s) /\ DOMAIN t = 1 .. Len(t)
  BY Joined, EventSeqs
<1> HIDE DEF u
<1>2. SUFFICES ASSUME NEW i \in DOMAIN u, NEW j \in DOMAIN u, i < j
               PROVE  u[i].seq < u[j].seq
  BY DEF InOrder, u
<1>3. CASE j <= Len(s)
  <2>1. i \in DOMAIN s /\ j \in DOMAIN s /\ u[i] = s[i] /\ u[j] = s[j]
    BY <1>1, <1>2, <1>3
  <2> QED BY <1>2, <2>1 DEF InOrder
<1>4. CASE i > Len(s)
  <2>1. /\ i - Len(s) \in DOMAIN t /\ j - Len(s) \in DOMAIN t /\ i - Len(s) < j - Len(s)
        /\ u[i] = t[i - Len(s)] /\ u[j] = t[j - Len(s)]
    BY <1>1, <1>2, <1>4
  <2> QED BY <2>1 DEF InOrder
<1>5. CASE i <= Len(s) /\ j > Len(s)
  <2>1. i \in DOMAIN s /\ j - Len(s) \in DOMAIN t /\ u[i] = s[i] /\ u[j] = t[j - Len(s)]
    BY <1>1, <1>2, <1>5
  <2>2. s[i].seq \in Nums(s) /\ t[j - Len(s)].seq \in Nums(t)
    BY <2>1, NumsOf
  <2> QED BY <2>1, <2>2 DEF Before
<1> QED BY <1>1, <1>3, <1>4, <1>5

\* Show moves the first waiting event to the end of the shown ones.
LEMMA MoveOne ==
    ASSUME NEW s \in Seq(Events), NEW t \in Seq(Events), t # <<>>
    PROVE  Append(s, Head(t)) \o Tail(t) = s \o t
<1> DEFINE a == Append(s, Head(t))
           b == Tail(t)
<1>1. /\ Head(t) \in Events /\ b \in Seq(Events) /\ Len(b) = Len(t) - 1 /\ Len(t) \in Nat \ {0}
      /\ \A i \in 1 .. Len(b) : b[i] = t[i + 1]
  BY TailNums, HeadTailProperties
<1>2. /\ a \in Seq(Events) /\ Len(a) = Len(s) + 1 /\ a[Len(s) + 1] = t[1] /\ Len(s) \in Nat
      /\ \A i \in 1 .. Len(s) : a[i] = s[i]
  BY <1>1, AppendProperties, EventSeqs
<1> HIDE DEF a, b
<1> DEFINE u == s \o t
           v == a \o b
<1>3. /\ u \in Seq(Events) /\ Len(u) = Len(s) + Len(t)
      /\ \A i \in 1 .. Len(s) + Len(t) : u[i] = IF i <= Len(s) THEN s[i] ELSE t[i - Len(s)]
  BY Joined
<1>4. /\ v \in Seq(Events) /\ Len(v) = Len(a) + Len(b)
      /\ \A i \in 1 .. Len(a) + Len(b) : v[i] = IF i <= Len(a) THEN a[i] ELSE b[i - Len(a)]
  BY <1>1, <1>2, Joined
<1> HIDE DEF u, v
<1>5. Len(u) = Len(v)
  BY <1>1, <1>2, <1>3, <1>4
<1>6. ASSUME NEW i \in 1 .. Len(u) PROVE u[i] = v[i]
  <2>n. /\ i \in 1 .. Len(s) + Len(t) /\ i \in 1 .. Len(a) + Len(b)
        /\ i \in Nat /\ Len(s) \in Nat /\ Len(t) \in Nat
    BY <1>1, <1>2, <1>3, <1>4, <1>5
  <2>1. CASE i <= Len(s)
    <3>1. i \in 1 .. Len(s) /\ i <= Len(a)
      BY <1>2, <2>n, <2>1
    <3>2. u[i] = s[i]
      BY <1>3, <2>n, <2>1
    <3>3. v[i] = a[i]
      BY <1>4, <2>n, <3>1
    <3> QED BY <1>2, <3>1, <3>2, <3>3
  <2>2. CASE i = Len(s) + 1
    <3>1. u[i] = t[1]
      <4>1. ~(i <= Len(s)) /\ i - Len(s) = 1
        BY <2>n, <2>2
      <4> QED BY <1>3, <2>n, <4>1
    <3>2. v[i] = a[i]
      BY <1>1, <1>2, <1>4, <2>2
    <3> QED BY <1>2, <2>2, <3>1, <3>2
  <2>3. CASE i > Len(s) + 1
    <3>1. i - Len(a) \in 1 .. Len(b) /\ i - Len(a) + 1 = i - Len(s)
      BY <1>1, <1>2, <1>3, <2>3
    <3>2. u[i] = t[i - Len(s)]
      BY <1>1, <1>2, <1>3, <2>3
    <3>3. v[i] = b[i - Len(a)]
      BY <1>1, <1>2, <1>3, <1>4, <2>3
    <3> QED BY <1>1, <3>1, <3>2, <3>3
  <2> QED BY <1>2, <1>3, <2>1, <2>2, <2>3
<1>7. u = v
  BY <1>3, <1>4, <1>5, <1>6, SeqEqual
<1> QED BY <1>7 DEF a, b, u, v

\* An event delivered comes after all that was there.
LEMMA OneMore ==
    ASSUME NEW s \in Seq(Events), NEW t \in Seq(Events), NEW e \in Events
    PROVE  LET u == s \o t
               v == s \o Append(t, e)
           IN  /\ Len(v) = Len(u) + 1 /\ v[Len(u) + 1] = e
               /\ \A i \in 1 .. Len(u) : v[i] = u[i]
<1> DEFINE u == s \o t
           b == Append(t, e)
           v == s \o b
<1>1. /\ b \in Seq(Events) /\ Len(b) = Len(t) + 1 /\ b[Len(t) + 1] = e
      /\ \A i \in 1 .. Len(t) : b[i] = t[i]
  BY AppendProperties
<1> HIDE DEF b
<1>2. /\ Len(u) = Len(s) + Len(t) /\ Len(s) \in Nat /\ Len(t) \in Nat
      /\ \A i \in 1 .. Len(s) + Len(t) : u[i] = IF i <= Len(s) THEN s[i] ELSE t[i - Len(s)]
  BY Joined
<1>3. /\ Len(v) = Len(s) + Len(b)
      /\ \A i \in 1 .. Len(s) + Len(b) : v[i] = IF i <= Len(s) THEN s[i] ELSE b[i - Len(s)]
  BY <1>1, Joined
<1> HIDE DEF u, v
<1>4. Len(v) = Len(u) + 1
  BY <1>1, <1>2, <1>3
<1>5. v[Len(u) + 1] = e
  BY <1>1, <1>2, <1>3
<1>6. ASSUME NEW i \in 1 .. Len(u) PROVE v[i] = u[i]
  <2>1. CASE i <= Len(s)
    BY <1>1, <1>2, <1>3, <2>1
  <2>2. CASE i > Len(s)
    <3>1. i - Len(s) \in 1 .. Len(t)
      BY <1>2, <2>2
    <3> QED BY <1>1, <1>2, <1>3, <2>2, <3>1
  <2> QED BY <1>2, <2>1, <2>2
<1> QED BY <1>4, <1>5, <1>6 DEF u, v, b

\* The store shows the last events it was given, before a push and after.
LEMMA WindowNums ==
    ASSUME NEW w \in Seq(Events), NEW p \in Seq(Events), IsWindow(w, p)
    PROVE  /\ Nums(w) \subseteq Nums(p)
           /\ InOrder(p) => InOrder(w)
<1> DEFINE k == Len(p) - Len(w)
<1>1. /\ Len(w) \in Nat /\ Len(p) \in Nat /\ k \in Nat
      /\ DOMAIN w = 1 .. Len(w) /\ DOMAIN p = 1 .. Len(p)
  BY EventSeqs, AttachAssumption DEF IsWindow
<1>2. \A j \in DOMAIN w : k + j \in DOMAIN p /\ w[j] = p[k + j]
  BY <1>1 DEF IsWindow
<1> HIDE DEF k
<1>3. Nums(w) \subseteq Nums(p)
  BY <1>2 DEF Nums
<1>4. \A i, j \in DOMAIN w : i < j => k + i < k + j
  BY <1>1
<1> QED BY <1>2, <1>3, <1>4 DEF InOrder

LEMMA WindowPut ==
    ASSUME NEW w \in Seq(Events), NEW p \in Seq(Events), NEW e \in Events, IsWindow(w, p)
    PROVE  LET v == Store!Last(Append(w, e), Capacity)
           IN  v \in Seq(Events) /\ Len(v) <= Capacity /\ IsWindow(v, Append(p, e))
<1> DEFINE a == Append(w, e)
           q == Append(p, e)
           v == Store!Last(a, Capacity)
<1>1. /\ a \in Seq(Events) /\ Len(a) = Len(w) + 1 /\ a[Len(w) + 1] = e
      /\ \A j \in 1 .. Len(w) : a[j] = w[j]
  BY AppendProperties
<1>2. /\ q \in Seq(Events) /\ Len(q) = Len(p) + 1 /\ q[Len(p) + 1] = e
      /\ \A j \in 1 .. Len(p) : q[j] = p[j]
  BY AppendProperties
<1> HIDE DEF a, q
<1>w. /\ Len(w) = IF Len(p) < Capacity THEN Len(p) ELSE Capacity
      /\ \A j \in 1 .. Len(w) : w[j] = p[Len(p) - Len(w) + j]
  BY Zenon DEF IsWindow
<1>n. Len(w) \in Nat /\ Len(p) \in Nat /\ Capacity \in Nat /\ Capacity > 0
  BY EventSeqs, AttachAssumption
<1>3. /\ Len(w) \in Nat /\ Len(p) \in Nat /\ Capacity \in Nat /\ Capacity > 0
      /\ Len(w) = IF Len(p) < Capacity THEN Len(p) ELSE Capacity
      /\ \A j \in 1 .. Len(w) : w[j] = p[Len(p) - Len(w) + j]
  BY <1>w, <1>n, Zenon
<1>4. CASE Len(w) + 1 > Capacity
  <2>1. Len(w) = Capacity /\ Len(p) >= Capacity
    BY <1>3, <1>4
  <2>2. v = Tail(a) /\ a # <<>>
    BY <1>1, <1>3, <1>4 DEF Store!Last
  <2>3. v \in Seq(Events) /\ Len(v) = Capacity /\ \A j \in 1 .. Capacity : v[j] = a[j + 1]
    BY <1>1, <1>3, <2>1, <2>2, HeadTailProperties
  <2> HIDE DEF v
  <2>4. ASSUME NEW j \in 1 .. Capacity PROVE v[j] = q[Len(q) - Capacity + j]
    <3>1. CASE j = Capacity
      BY <1>1, <1>2, <1>3, <2>1, <2>3, <3>1
    <3>2. CASE j # Capacity
      <4>1. j + 1 \in 1 .. Len(w) /\ v[j] = w[j + 1]
        BY <1>1, <1>3, <2>1, <2>3, <3>2
      <4>2. w[j + 1] = p[Len(p) - Capacity + (j + 1)]
        BY <1>3, <2>1, <4>1
      <4>3. /\ Len(q) - Capacity + j = Len(p) - Capacity + (j + 1)
            /\ Len(q) - Capacity + j \in 1 .. Len(p)
        BY <1>2, <1>3, <2>1, <3>2
      <4> QED BY <1>2, <4>1, <4>2, <4>3
    <3> QED BY <3>1, <3>2
  <2>5. IsWindow(v, q)
    BY <1>2, <1>3, <2>1, <2>3, <2>4 DEF IsWindow
  <2> QED BY <1>3, <2>3, <2>5 DEF v, a, q
<1>5. CASE Len(w) + 1 <= Capacity
  <2>1. Len(w) = Len(p) /\ v = a /\ Len(p) < Capacity
    BY <1>1, <1>3, <1>5 DEF Store!Last
  <2> HIDE DEF v
  <2>2. ASSUME NEW j \in 1 .. Len(v) PROVE v[j] = q[Len(q) - Len(v) + j]
    <3>1. Len(q) - Len(v) + j = j
      BY <1>1, <1>2, <1>3, <2>1
    <3>2. CASE j = Len(p) + 1
      BY <1>1, <1>2, <2>1, <3>1, <3>2
    <3>3. CASE j # Len(p) + 1
      <4>1. j \in 1 .. Len(p) /\ w[j] = p[Len(p) - Len(w) + j] /\ Len(p) - Len(w) + j = j
        BY <1>1, <1>3, <2>1, <3>3
      <4> QED BY <1>1, <1>2, <2>1, <3>1, <4>1
    <3> QED BY <3>2, <3>3
  <2>3. IsWindow(v, q)
    BY <1>1, <1>2, <1>3, <2>1, <2>2 DEF IsWindow
  <2>4. v \in Seq(Events) /\ Len(v) <= Capacity
    BY <1>1, <1>3, <1>5, <2>1
  <2> QED BY <2>3, <2>4 DEF v, a, q
<1> QED BY <1>3, <1>4, <1>5

\* The daemon's snapshot, loaded into the local store.
LEMMA HistoryLoaded ==
    ASSUME NEW n \in 0 .. MaxEvent
    PROVE  LET p == [i \in 1 .. n |-> Event(i)]
               w == IF n <= Capacity THEN p ELSE SubSeq(p, n - Capacity + 1, n)
           IN  /\ p \in Seq(Events) /\ Len(p) = n /\ InOrder(p) /\ \A m \in Nums(p) : m <= n
               /\ w \in Seq(Events) /\ Len(w) <= Capacity /\ IsWindow(w, p)
<1> DEFINE p == [i \in 1 .. n |-> Event(i)]
           s == SubSeq(p, n - Capacity + 1, n)
           w == IF n <= Capacity THEN p ELSE s
<1>1. /\ n \in Nat /\ MaxEvent \in Nat /\ Capacity \in Nat \ {0}
      /\ \A i \in 1 .. n : Event(i) \in Events
  BY AttachAssumption DEF Events
<1>2. p \in Seq(Events) /\ Len(p) = n /\ DOMAIN p = 1 .. n /\ \A i \in 1 .. n : p[i].seq = i
  BY <1>1 DEF Event
<1> HIDE DEF p
<1>3. InOrder(p) /\ \A m \in Nums(p) : m <= n
  BY <1>1, <1>2 DEF InOrder, Nums
<1>4. w \in Seq(Events) /\ Len(w) <= Capacity /\ IsWindow(w, p)
  <2>1. CASE n <= Capacity
    <3>1. w = p
      BY <2>1
    <3> QED BY <1>1, <1>2, <2>1, <3>1 DEF IsWindow
  <2>2. CASE ~(n <= Capacity)
    <3>1. \A i \in (n - Capacity + 1) .. n : p[i] \in Events
      BY <1>1, <1>2, <2>2
    <3>2. /\ s \in Seq(Events)
          /\ Len(s) = IF n - Capacity + 1 <= n THEN n - (n - Capacity + 1) + 1 ELSE 0
          /\ \A i \in 1 .. n - (n - Capacity + 1) + 1 : s[i] = p[n - Capacity + 1 + i - 1]
      <4>1. n - Capacity + 1 \in Int /\ n \in Int
        BY <1>1
      <4> QED BY <3>1, <4>1, SubSeqProperties
    <3> HIDE DEF s
    <3>3. Len(s) = Capacity
      BY <1>1, <2>2, <3>2
    <3>4. \A i \in 1 .. Capacity : s[i] = p[n - Capacity + i]
      <4>1. n - (n - Capacity + 1) + 1 = Capacity
        BY <1>1
      <4>2. \A i \in 1 .. Capacity : n - Capacity + 1 + i - 1 = n - Capacity + i
        BY <1>1
      <4> QED BY <3>2, <4>1, <4>2
    <3>5. w = s
      BY <2>2
    <3>6. IsWindow(s, p)
      BY <1>1, <1>2, <2>2, <3>3, <3>4 DEF IsWindow
    <3> QED BY <1>1, <3>2, <3>3, <3>5, <3>6
  <2> QED BY <2>1, <2>2
<1> QED BY <1>2, <1>3, <1>4 DEF p
------------------------------------------------------------------------------
(* The inductive invariant. *)

\* Nothing has happened before the connection is made.
DialInv ==
    front = "dial" =>
        /\ sent = 0 /\ dropped = 0 /\ wire = <<>> /\ events = <<>> /\ pushed = <<>> /\ shown = <<>>
        /\ reader = "off" /\ source = "off" /\ subs = {} /\ window = <<>>

\* The events are on their way in the order of their numbers: those pushed, the
\* one in the source's hand, those in Client.events, those on the wire.
Handed == IF source = "push" THEN {hand.seq} ELSE {}

OrderInv ==
    /\ InOrder(pushed) /\ InOrder(events) /\ InOrder(wire)
    /\ Before(Nums(pushed), Handed) /\ Before(Nums(pushed), Nums(events))
    /\ Before(Nums(pushed), Nums(wire)) /\ Before(Handed, Nums(events))
    /\ Before(Handed, Nums(wire)) /\ Before(Nums(events), Nums(wire))
    /\ \A n \in Nums(pushed) \cup Handed \cup Nums(events) \cup Nums(wire) : n <= sent

\* The local store, and who has subscribed when: JSON mode before it takes the
\* history, the TUI after.
StoreInv ==
    /\ IsWindow(window, pushed)
    /\ Sub \in subs => filter[Sub] = Tables
    /\ subs = {} => queue[Sub] = <<>>
    /\ front = "subscribe" => subs = {}
    /\ front = "history" => (mode = "json" <=> Sub \in subs)
    /\ mode = "json" /\ front \in {"loop", "wait"} => Sub \in subs

\* The front end's events are events of the store, and in the TUI in order.
FeedInv ==
    /\ Nums(shown) \subseteq Nums(pushed) /\ Nums(queue[Sub]) \subseteq Nums(pushed)
    /\ mode = "tui" =>
        /\ InOrder(shown) /\ InOrder(queue[Sub])
        /\ Before(Nums(shown), Nums(queue[Sub]))

\* Every event of the store is accounted for once JSON mode has its history.
AccountInv ==
    mode = "json" /\ front \in {"loop", "wait"} =>
        /\ skipped <= Len(pushed) /\ HistoryLen <= Len(shown)
        /\ \A i \in DOMAIN pushed : Accounted(i)

IInv ==
    /\ TypeOK /\ DialInv /\ DropsAreCounted
    /\ OrderInv /\ StoreInv /\ FeedInv /\ AccountInv

LEMMA EventFacts ==
    ASSUME NEW n \in 1 .. MaxEvent
    PROVE  Event(n) \in Events /\ Event(n).seq = n
BY DEF Events, Event

\* A step that moves no event and stores none: the goroutines end, the user
\* interrupts, the front end returns.
Quiet ==
    /\ UNCHANGED <<sent, wire, events, dropped, hand, storeVars, mode, shown, skipped>>
    /\ source' = source \/ (source = "select" /\ source' = "done")
    /\ reader' = reader \/ (reader # "off" /\ reader' # "off")
    /\ \/ front' = front
       \/ front = "loop" /\ front' = "wait" /\ mode = "json"
       \/ front \in {"loop", "wait"} /\ front' = "returned"

LEMMA Steps ==
    ASSUME [Next]_vars
    PROVE  \/ \E n \in 0 .. MaxEvent : Dial(n)
           \/ DaemonSends \/ ReadEvent \/ SourceTakes \/ SourcePushes
           \/ Subscribe \/ TakeHistory \/ Show \/ Quiet
<1> USE DEF Quiet, daemonVars, clientVars, sourceVars, storeVars, frontVars
<1>1. ASSUME DaemonEnds \/ Cancel PROVE Quiet
  BY <1>1 DEF DaemonEnds, Cancel
<1>2. ASSUME ReadFails \/ CloseChannels PROVE Quiet
  BY <1>2 DEF ReadFails, CloseChannels, notReader
<1>3. ASSUME SourceCancelled \/ SourceSeesEnd PROVE Quiet
  BY <1>3 DEF SourceCancelled, SourceSeesEnd, SourceEnds, notSource
<1>4. ASSUME JsonSourceEnds \/ JsonCancelled \/ TuiQuits PROVE Quiet
  BY <1>4 DEF JsonSourceEnds, JsonCancelled, TuiQuits, Returns, notFront
<1>5. ASSUME UNCHANGED vars PROVE Quiet
  BY <1>5 DEF vars
<1> QED BY <1>1, <1>2, <1>3, <1>4, <1>5 DEF Next, Reader, Source, FrontEnd
------------------------------------------------------------------------------
(* The types, and where the events of the daemon are. *)

LEMMA TypeInit == Init => TypeOK
<1> SUFFICES ASSUME Init PROVE TypeOK
  OBVIOUS
<1>1. Event(1) \in Events /\ 0 \in 0 .. MaxEvent /\ <<>> \in Seq(Events) /\ Len(<<>>) = 0
  BY AttachAssumption, EventFacts
<1>2. Capacity \in Nat /\ SubChanCap \in Nat /\ EventsCap \in Nat
  BY AttachAssumption
<1>3. /\ queue = [c \in {Sub} |-> <<>>] /\ filter = [c \in {Sub} |-> {}]
      /\ window = <<>> /\ subs = {} /\ closed = {}
  BY DEF Init, Store!Init
<1>4. /\ filter \in [{Sub} -> SUBSET Tables] /\ queue \in [{Sub} -> Seq(Events)]
      /\ Len(queue[Sub]) <= SubChanCap
  BY <1>1, <1>2, <1>3
<1>5. /\ window \in Seq(Events) /\ Len(window) <= Capacity /\ subs \subseteq {Sub} /\ closed = {}
  BY <1>1, <1>2, <1>3
<1>6. /\ sent = 0 /\ dropped = 0 /\ skipped = 0 /\ wire = <<>> /\ events = <<>> /\ pushed = <<>>
      /\ shown = <<>> /\ hand = Event(1)
  BY DEF Init
<1>7. Len(events) <= EventsCap
  BY <1>1, <1>2, <1>6
<1>8. /\ ended \in BOOLEAN /\ reader \in {"off", "read", "failed", "done"}
      /\ eventsClosed \in BOOLEAN /\ errs \in {"empty", "error"}
      /\ source \in {"off", "select", "push", "done"}
      /\ sourceErr \in {"empty", "nil", "EOF", "error"}
      /\ mode \in {"json", "tui"}
      /\ front \in {"dial", "subscribe", "history", "loop", "wait", "returned"}
      /\ result \in {"none", "nil", "EOF", "error"} /\ ctxDone \in BOOLEAN
  BY DEF Init
<1> QED BY <1>1, <1>4, <1>5, <1>6, <1>7, <1>8 DEF TypeOK

\* What is where adds up, so nothing counted exceeds what was sent.
LEMMA Bounds ==
    ASSUME TypeOK, DropsAreCounted
    PROVE  /\ sent \in Nat /\ dropped \in Nat /\ Len(wire) \in Nat /\ Len(events) \in Nat
           /\ Len(pushed) \in Nat /\ Len(pushed) <= MaxEvent /\ MaxEvent \in Nat
           /\ Len(wire) + dropped <= MaxEvent
<1>1. /\ sent \in 0 .. MaxEvent /\ dropped \in 0 .. MaxEvent /\ MaxEvent \in Nat
      /\ Len(wire) \in Nat /\ Len(events) \in Nat /\ Len(pushed) \in Nat
  BY EventSeqs, AttachAssumption DEF TypeOK
<1> QED BY <1>1 DEF DropsAreCounted

\* TypeOK in parts: what is on or off, where the goroutines are, what they hold.
Switches ==
    ended \in BOOLEAN /\ eventsClosed \in BOOLEAN /\ ctxDone \in BOOLEAN

Places ==
    /\ reader \in {"off", "read", "failed", "done"} /\ errs \in {"empty", "error"}
    /\ source \in {"off", "select", "push", "done"}
    /\ sourceErr \in {"empty", "nil", "EOF", "error"}
    /\ mode \in {"json", "tui"}
    /\ front \in {"dial", "subscribe", "history", "loop", "wait", "returned"}
    /\ result \in {"none", "nil", "EOF", "error"}

Contents ==
    /\ sent \in 0 .. MaxEvent /\ wire \in Seq(Events)
    /\ events \in Seq(Events) /\ Len(events) <= EventsCap
    /\ dropped \in 0 .. MaxEvent /\ hand \in Events
    /\ window \in Seq(Events) /\ Len(window) <= Capacity /\ pushed \in Seq(Events)
    /\ subs \subseteq {Sub} /\ closed = {} /\ filter \in [{Sub} -> SUBSET Tables]
    /\ queue \in [{Sub} -> Seq(Events)] /\ Len(queue[Sub]) <= SubChanCap
    /\ shown \in Seq(Events) /\ skipped \in 0 .. MaxEvent

LEMMA TypeParts == TypeOK <=> Switches /\ Places /\ Contents
BY Zenon DEF TypeOK, Switches, Places, Contents

LEMMA SwitchesStep == Switches /\ [Next]_vars => Switches'
<1> SUFFICES ASSUME Switches, [Next]_vars PROVE Switches'
  OBVIOUS
<1> USE DEF daemonVars, clientVars, sourceVars, storeVars, frontVars
<1> DEFINE Set(x, y) == y = x \/ y = TRUE
<1>1. Set(ended, ended') /\ Set(eventsClosed, eventsClosed') /\ Set(ctxDone, ctxDone')
  <2>1. CASE \E n \in 0 .. MaxEvent : Dial(n)
    BY <2>1 DEF Dial
  <2>2. CASE DaemonSends \/ DaemonEnds \/ Cancel
    BY <2>2 DEF DaemonSends, DaemonEnds, Cancel
  <2>3. CASE Reader
    BY <2>3 DEF Reader, ReadEvent, ReadFails, CloseChannels, notReader
  <2>4. CASE Source
    BY <2>4 DEF Source, SourceCancelled, SourceTakes, SourcePushes, SourceSeesEnd, notSource
  <2>5. CASE Subscribe \/ TakeHistory \/ Show
    BY <2>5 DEF Subscribe, TakeHistory, Show, notFront
  <2>6. CASE JsonSourceEnds \/ JsonCancelled \/ TuiQuits
    BY <2>6 DEF JsonSourceEnds, JsonCancelled, TuiQuits, notFront
  <2>7. CASE UNCHANGED vars
    BY <2>7 DEF vars
  <2> QED BY <2>1, <2>2, <2>3, <2>4, <2>5, <2>6, <2>7 DEF Next, FrontEnd
<1> QED BY <1>1, Zenon DEF Switches

LEMMA PlacesStep == Places /\ [Next]_vars => Places'
<1> SUFFICES ASSUME Places, [Next]_vars PROVE Places'
  OBVIOUS
<1> USE DEF Places, daemonVars, clientVars, sourceVars, storeVars, frontVars
<1>1. CASE \E n \in 0 .. MaxEvent : Dial(n)
  BY <1>1 DEF Dial, After
<1>2. CASE DaemonSends \/ DaemonEnds \/ Cancel
  <2>1. UNCHANGED <<reader, errs, source, sourceErr, mode, front, result>>
    BY <1>2 DEF DaemonSends, DaemonEnds, Cancel
  <2> QED BY <2>1
<1>3. CASE ReadEvent \/ ReadFails \/ CloseChannels
  <2>1. /\ UNCHANGED <<source, sourceErr, mode, front, result>>
        /\ reader' \in {reader, "failed", "done"} /\ errs' \in {errs, "error"}
    BY <1>3 DEF ReadEvent, ReadFails, CloseChannels, notReader
  <2> QED BY <2>1
<1>4. CASE SourceCancelled \/ SourceTakes \/ SourcePushes \/ SourceSeesEnd
  <2>1. /\ UNCHANGED <<reader, mode, front, result>>
        /\ source' \in {"select", "push", "done"} /\ errs' \in {errs, "empty"}
        /\ sourceErr' \in {sourceErr, "nil", "EOF", "error"}
    BY <1>4 DEF SourceCancelled, SourceTakes, SourcePushes, SourceSeesEnd, SourceEnds, notSource
  <2> QED BY <2>1
<1>5. CASE Subscribe \/ TakeHistory
  BY <1>5 DEF Subscribe, TakeHistory, After, notFront
<1>6. CASE Show
  <2>1. UNCHANGED <<reader, errs, source, sourceErr, mode, front, result>>
    BY <1>6 DEF Show, notFront
  <2> QED BY <2>1
<1>7. CASE JsonSourceEnds \/ JsonCancelled \/ TuiQuits
  <2>1. /\ UNCHANGED <<reader, errs, source, mode>>
        /\ front' \in {"wait", "returned"} /\ result' \in {result, "nil", "EOF", "error"}
        /\ sourceErr' \in {sourceErr, "empty"}
    BY <1>7 DEF JsonSourceEnds, JsonCancelled, TuiQuits, Returns, notFront
  <2> QED BY <2>1
<1>8. CASE UNCHANGED vars
  BY <1>8 DEF vars
<1> QED
  BY <1>1, <1>2, <1>3, <1>4, <1>5, <1>6, <1>7, <1>8 DEF Next, Reader, Source, FrontEnd

LEMMA ContentsStep == TypeOK /\ DropsAreCounted /\ [Next]_vars => Contents'
<1> SUFFICES ASSUME TypeOK, DropsAreCounted, [Next]_vars PROVE Contents'
  OBVIOUS
<1> USE DEF daemonVars, clientVars, sourceVars, storeVars, frontVars
<1>c. Contents
  BY TypeParts
<1>1. CASE \E n \in 0 .. MaxEvent : Dial(n)
  <2>1. PICK n \in 0 .. MaxEvent : Dial(n)
    BY <1>1
  <2>2. /\ pushed' \in Seq(Events) /\ window' \in Seq(Events) /\ Len(window') <= Capacity
        /\ sent' \in 0 .. MaxEvent
    BY <2>1, HistoryLoaded DEF Dial
  <2>u. UNCHANGED <<wire, events, dropped, hand, subs, closed, filter, queue, shown, skipped>>
    BY <2>1 DEF Dial
  <2> QED BY <1>c, <2>2, <2>u DEF Contents
<1>2. CASE DaemonSends
  <2>1. sent + 1 \in 1 .. MaxEvent
    BY <1>2, AttachAssumption DEF DaemonSends, TypeOK
  <2>2. wire' \in Seq(Events) /\ sent' \in 0 .. MaxEvent
    BY <1>2, <2>1, EventFacts, AppendNums DEF DaemonSends, TypeOK
  <2>u. UNCHANGED <<events, dropped, hand, window, pushed, subs, closed, filter, queue,
                   shown, skipped>>
    BY <1>2 DEF DaemonSends
  <2> QED BY <1>c, <2>2, <2>u DEF Contents
<1>3. CASE ReadEvent
  <2>1. /\ wire # <<>> /\ wire \in Seq(Events) /\ events \in Seq(Events)
        /\ Len(events) <= EventsCap /\ EventsCap \in Nat /\ Len(events) \in Nat
    BY <1>3, AttachAssumption, EventSeqs DEF ReadEvent, TypeOK
  <2>2. wire' \in Seq(Events) /\ Head(wire) \in Events /\ Len(wire) \in Nat \ {0}
    BY <1>3, <2>1, TailNums DEF ReadEvent
  <2>3. events' \in Seq(Events) /\ Len(events') <= EventsCap
    <3>1. CASE Len(events) < EventsCap
      <4>1. events' = Append(events, Head(wire))
        BY <1>3, <3>1 DEF ReadEvent
      <4>2. events' \in Seq(Events) /\ Len(events') = Len(events) + 1
        BY <2>1, <2>2, <4>1, AppendNums
      <4> QED BY <2>1, <3>1, <4>2
    <3>2. CASE ~(Len(events) < EventsCap)
      <4>1. events' = events
        BY <1>3, <3>2 DEF ReadEvent
      <4> QED BY <2>1, <4>1
    <3> QED BY <3>1, <3>2
  <2>4. dropped' \in 0 .. MaxEvent
    <3>1. dropped' = dropped \/ dropped' = dropped + 1
      BY <1>3 DEF ReadEvent
    <3> QED BY <2>2, <3>1, Bounds
  <2>u. UNCHANGED <<sent, hand, window, pushed, subs, closed, filter, queue, shown, skipped>>
    BY <1>3 DEF ReadEvent, notReader
  <2> QED BY <1>c, <2>2, <2>3, <2>4, <2>u DEF Contents
<1>4. CASE SourceTakes
  <2>1. events # <<>> /\ events \in Seq(Events) /\ Len(events) <= EventsCap /\ EventsCap \in Nat
    BY <1>4, AttachAssumption DEF SourceTakes, TypeOK
  <2>2. hand' \in Events /\ events' \in Seq(Events) /\ Len(events') = Len(events) - 1
    BY <1>4, <2>1, TailNums DEF SourceTakes
  <2>3. Len(events') <= EventsCap
    BY <2>1, <2>2, EventSeqs
  <2>u. UNCHANGED <<sent, wire, dropped, window, pushed, subs, closed, filter, queue,
                   shown, skipped>>
    BY <1>4 DEF SourceTakes, notSource
  <2> QED BY <1>c, <2>2, <2>3, <2>u DEF Contents
<1>5. CASE SourcePushes
  <2>1. pushed' \in Seq(Events)
    BY <1>5, AppendNums DEF SourcePushes, TypeOK
  <2>2. window' \in Seq(Events) /\ Len(window') <= Capacity
    <3>1. window' = Store!Last(Append(window, hand), Capacity)
      BY <1>5 DEF SourcePushes, Store!Put
    <3>2. Append(window, hand) \in Seq(Events) /\ Len(Append(window, hand)) = Len(window) + 1
      BY AppendNums DEF TypeOK
    <3>3. Len(window) <= Capacity /\ Capacity \in Nat \ {0} /\ Len(window) \in Nat
      BY AttachAssumption, EventSeqs DEF TypeOK
    <3> DEFINE a == Append(window, hand)
    <3> HIDE DEF a
    <3>4. a \in Seq(Events) /\ Len(a) = Len(window) + 1 /\ window' = Store!Last(a, Capacity)
      BY <3>1, <3>2 DEF a
    <3>5. CASE Len(a) > Capacity
      <4>1. window' = Tail(a) /\ a # <<>>
        BY <3>3, <3>4, <3>5 DEF Store!Last
      <4>2. window' \in Seq(Events) /\ Len(window') = Len(a) - 1
        BY <3>4, <4>1, TailNums
      <4> QED BY <3>3, <3>4, <4>2
    <3>6. CASE ~(Len(a) > Capacity)
      <4>1. window' = a
        BY <3>4, <3>6 DEF Store!Last
      <4> QED BY <3>3, <3>4, <3>6, <4>1
    <3> QED BY <3>5, <3>6
  <2>3. queue' \in [{Sub} -> Seq(Events)] /\ Len(queue'[Sub]) <= SubChanCap
    <3>1. queue[Sub] \in Seq(Events) /\ Len(queue[Sub]) <= SubChanCap /\ SubChanCap \in Nat
      BY AttachAssumption DEF TypeOK
    <3>2. /\ Append(queue[Sub], hand) \in Seq(Events)
          /\ Len(Append(queue[Sub], hand)) = Len(queue[Sub]) + 1 /\ Len(queue[Sub]) \in Nat
      BY <3>1, AppendNums, EventSeqs DEF TypeOK
    <3>3. /\ queue' = [c \in {Sub} |-> queue'[Sub]]
          /\ \/ queue'[Sub] = queue[Sub]
             \/ Len(queue[Sub]) < SubChanCap /\ queue'[Sub] = Append(queue[Sub], hand)
      BY <1>5 DEF SourcePushes, Store!Put
    <3>4. queue'[Sub] \in Seq(Events) /\ Len(queue'[Sub]) <= SubChanCap
      BY <3>1, <3>2, <3>3
    <3> QED BY <3>3, <3>4
  <2>u. UNCHANGED <<sent, wire, events, dropped, hand, subs, closed, filter, shown, skipped>>
    BY <1>5 DEF SourcePushes, Store!Put, notSource
  <2> QED BY <1>c, <2>1, <2>2, <2>3, <2>u DEF Contents
<1>6. CASE Subscribe
  <2>2. subs' \subseteq {Sub} /\ filter' \in [{Sub} -> SUBSET Tables]
    BY <1>6 DEF Subscribe, Store!Join, TypeOK
  <2>u. UNCHANGED <<sent, wire, events, dropped, hand, window, pushed, closed, queue,
                   shown, skipped>>
    BY <1>6 DEF Subscribe, Store!Join, notFront
  <2> QED BY <1>c, <2>2, <2>u DEF Contents
<1>7. CASE TakeHistory
  <2>1. shown' \in Seq(Events)
    BY <1>7 DEF TakeHistory, TypeOK
  <2>2. skipped' \in 0 .. MaxEvent
    BY <1>7, Bounds DEF TakeHistory
  <2>u. UNCHANGED <<sent, wire, events, dropped, hand, window, pushed, subs, closed,
                   filter, queue>>
    BY <1>7 DEF TakeHistory, notFront
  <2> QED BY <1>c, <2>1, <2>2, <2>u DEF Contents
<1>8. CASE Show
  <2>1. queue[Sub] # <<>> /\ queue[Sub] \in Seq(Events) /\ queue' = [queue EXCEPT ![Sub] = Tail(@)]
    BY <1>8 DEF Show, Store!Take, TypeOK
  <2>2. /\ Head(queue[Sub]) \in Events /\ Tail(queue[Sub]) \in Seq(Events)
        /\ Len(Tail(queue[Sub])) = Len(queue[Sub]) - 1 /\ Len(queue[Sub]) \in Nat \ {0}
    BY <2>1, TailNums
  <2>3. shown' \in Seq(Events)
    BY <1>8, <2>2, AppendNums DEF Show, TypeOK
  <2>4. queue' \in [{Sub} -> Seq(Events)] /\ queue'[Sub] = Tail(queue[Sub])
    BY <2>1, <2>2 DEF TypeOK
  <2>5. Len(queue'[Sub]) <= SubChanCap
    BY <2>2, <2>4, AttachAssumption DEF TypeOK
  <2>u. UNCHANGED <<sent, wire, events, dropped, hand, window, pushed, subs, closed,
                   filter, skipped>>
    BY <1>8 DEF Show, Store!Take, notFront
  <2> QED BY <1>c, <2>3, <2>4, <2>5, <2>u DEF Contents
<1>9. CASE Quiet
  BY <1>9, <1>c DEF Quiet, Contents
<1> QED BY <1>1, <1>2, <1>3, <1>4, <1>5, <1>6, <1>7, <1>8, <1>9, Steps

LEMMA TypeStep == TypeOK /\ DropsAreCounted /\ [Next]_vars => TypeOK'
<1> SUFFICES ASSUME TypeOK, DropsAreCounted, [Next]_vars PROVE TypeOK'
  OBVIOUS
<1>1. Switches' /\ Places' /\ Contents'
  BY TypeParts, SwitchesStep, PlacesStep, ContentsStep
<1>2. TypeOK' <=> Switches' /\ Places' /\ Contents'
  BY Zenon DEF TypeOK, Switches, Places, Contents
<1> QED BY <1>1, <1>2

LEMMA DialStep == TypeOK /\ DialInv /\ [Next]_vars => DialInv'
<1> SUFFICES ASSUME TypeOK, DialInv, [Next]_vars, front' = "dial" PROVE DialInv'
  BY DEF DialInv
<1> USE DEF daemonVars, clientVars, sourceVars, storeVars, frontVars
<1>1. CASE \E n \in 0 .. MaxEvent : Dial(n)
  BY <1>1 DEF Dial, After, TypeOK
<1>2. CASE DaemonSends
  BY <1>2 DEF DaemonSends
<1>3. CASE ReadEvent \/ SourceTakes \/ SourcePushes
  <2>1. front = "dial" /\ (reader = "read" \/ source \in {"select", "push"})
    BY <1>3 DEF ReadEvent, SourceTakes, SourcePushes, notReader, notSource
  <2> QED BY <2>1 DEF DialInv
<1>4. CASE Subscribe \/ TakeHistory \/ Show
  BY <1>4 DEF Subscribe, TakeHistory, Show, After, TypeOK
<1>5. CASE Quiet
  BY <1>5 DEF Quiet, DialInv
<1> QED BY <1>1, <1>2, <1>3, <1>4, <1>5, Steps

LEMMA DropsStep == TypeOK /\ DialInv /\ DropsAreCounted /\ [Next]_vars => DropsAreCounted'
<1> SUFFICES ASSUME TypeOK, DialInv, DropsAreCounted, [Next]_vars PROVE DropsAreCounted'
  OBVIOUS
<1> USE DEF daemonVars, clientVars, sourceVars, storeVars, frontVars
<1>t. /\ sent \in Nat /\ dropped \in Nat /\ Len(wire) \in Nat /\ Len(events) \in Nat
      /\ Len(pushed) \in Nat
  BY Bounds
<1>s. wire \in Seq(Events) /\ events \in Seq(Events) /\ pushed \in Seq(Events) /\ hand \in Events
  BY DEF TypeOK
<1>1. CASE \E n \in 0 .. MaxEvent : Dial(n)
  <2>1. PICK n \in 0 .. MaxEvent : Dial(n)
    BY <1>1
  <2>2. Len(pushed') = n /\ n \in Nat
    BY <2>1, HistoryLoaded, AttachAssumption DEF Dial
  <2>3. wire = <<>> /\ events = <<>> /\ dropped = 0
    BY <2>1 DEF Dial, DialInv
  <2>4. /\ sent' = n /\ wire' = <<>> /\ events' = <<>> /\ dropped' = 0 /\ source' = "select"
    BY <2>1, <2>3 DEF Dial
  <2>5. Len(<<>>) = 0
    OBVIOUS
  <2> QED BY <2>2, <2>4, <2>5 DEF DropsAreCounted
<1>2. CASE DaemonSends
  <2>1. sent + 1 \in 1 .. MaxEvent
    BY <1>2, AttachAssumption DEF DaemonSends, TypeOK
  <2>2. Len(wire') = Len(wire) + 1
    BY <1>2, <1>s, <2>1, EventFacts, AppendNums DEF DaemonSends
  <2> QED BY <1>2, <1>t, <2>2 DEF DaemonSends, DropsAreCounted
<1>3. CASE ReadEvent
  <2>1. wire # <<>> /\ wire' = Tail(wire) /\ UNCHANGED <<sent, source, pushed>>
    BY <1>3 DEF ReadEvent, notReader
  <2>2. Head(wire) \in Events /\ Len(wire') = Len(wire) - 1
    BY <1>s, <2>1, TailNums
  <2>3. /\ Len(events') \in Nat /\ dropped' \in Nat
        /\ Len(events') + dropped' = Len(events) + dropped + 1
    <3>1. CASE Len(events) < EventsCap
      <4>1. events' = Append(events, Head(wire)) /\ dropped' = dropped
        BY <1>3, <3>1 DEF ReadEvent
      <4>2. Len(events') = Len(events) + 1
        BY <1>s, <2>2, <4>1, AppendNums
      <4> QED BY <1>t, <4>1, <4>2
    <3>2. CASE ~(Len(events) < EventsCap)
      <4>1. events' = events /\ dropped' = dropped + 1
        BY <1>3, <3>2 DEF ReadEvent
      <4> QED BY <1>t, <4>1
    <3> QED BY <3>1, <3>2
  <2>4. Len(wire') + 1 = Len(wire) /\ Len(wire') \in Nat
    BY <1>s, <1>t, <2>1, <2>2, TailNums
  <2> DEFINE h == IF source = "push" THEN 1 ELSE 0
             k == IF source' = "push" THEN 1 ELSE 0
  <2>5. h \in Nat /\ k = h
    BY <2>1
  <2>6. sent = Len(wire) + dropped + Len(events) + h + Len(pushed)
    BY DEF DropsAreCounted
  <2>7. sent' = Len(wire') + dropped' + Len(events') + k + Len(pushed')
    <3> HIDE DEF h, k
    <3> QED BY <1>t, <2>1, <2>3, <2>4, <2>5, <2>6
  <2> QED BY <2>7 DEF DropsAreCounted
<1>4. CASE SourceTakes
  <2>1. /\ events # <<>> /\ events' = Tail(events) /\ source = "select" /\ source' = "push"
        /\ UNCHANGED <<sent, wire, dropped, pushed>>
    BY <1>4 DEF SourceTakes, notSource
  <2>2. Len(events') = Len(events) - 1
    BY <1>s, <2>1, TailNums
  <2> QED BY <1>t, <2>1, <2>2 DEF DropsAreCounted
<1>5. CASE SourcePushes
  <2>1. /\ pushed' = Append(pushed, hand) /\ source = "push" /\ source' = "select"
        /\ UNCHANGED <<sent, wire, dropped, events>>
    BY <1>5 DEF SourcePushes, notSource
  <2>2. Len(pushed') = Len(pushed) + 1
    BY <1>s, <2>1, AppendNums
  <2> QED BY <1>t, <2>1, <2>2 DEF DropsAreCounted
<1>6. CASE Subscribe \/ TakeHistory \/ Show
  <2>1. UNCHANGED <<sent, wire, dropped, events, source, pushed>>
    BY <1>6 DEF Subscribe, TakeHistory, Show, notFront
  <2> QED BY <2>1 DEF DropsAreCounted
<1>7. CASE Quiet
  <2>1. UNCHANGED <<sent, wire, dropped, events, pushed>>
    BY <1>7 DEF Quiet
  <2>2. source = "push" <=> source' = "push"
    BY <1>7 DEF Quiet
  <2> QED BY <2>1, <2>2 DEF DropsAreCounted
<1> QED BY <1>1, <1>2, <1>3, <1>4, <1>5, <1>6, <1>7, Steps

LEMMA CountInit == Init => DialInv /\ DropsAreCounted
<1> SUFFICES ASSUME Init PROVE DialInv /\ DropsAreCounted
  OBVIOUS
<1>1. DialInv
  BY DEF Init, Store!Init, DialInv
<1>2. Len(<<>>) = 0
  OBVIOUS
<1> QED BY <1>1, <1>2 DEF Init, DropsAreCounted

CountInv == TypeOK /\ DialInv /\ DropsAreCounted

LEMMA CountCorrect == Spec => []CountInv
<1>1. Init => CountInv
  BY TypeInit, CountInit DEF CountInv
<1>2. CountInv /\ [Next]_vars => CountInv'
  BY TypeStep, DialStep, DropsStep DEF CountInv
<1> QED BY <1>1, <1>2, PTL DEF Spec

\* Every variable keeps its type: the channels their bounds, and no count is
\* larger than what the daemon has sent.
THEOREM TypeCorrect == Spec => []TypeOK
<1>1. CountInv => TypeOK
  BY DEF CountInv
<1> QED BY <1>1, CountCorrect, PTL

\* The count of dropped events is exact: every event the daemon has sent is on
\* the wire, dropped and counted, in Client.events, in the source's hand or in the
\* store (client.go:95-112).
THEOREM DropsExact == Spec => []DropsAreCounted
<1>1. CountInv => DropsAreCounted
  BY DEF CountInv
<1> QED BY <1>1, CountCorrect, PTL
------------------------------------------------------------------------------
(* The events keep the order of their numbers all the way. *)

LEMMA NumsAreNat ==
    ASSUME TypeOK
    PROVE  /\ \A n \in Nums(pushed) \cup Nums(events) \cup Nums(wire) \cup Handed : n \in Nat
           /\ sent \in Nat /\ hand.seq \in Nat
<1>1. hand.seq \in Nat /\ sent \in Nat
  BY AttachAssumption DEF TypeOK, Events, Event
<1>2. /\ \A n \in Nums(pushed) : n \in Nat
      /\ \A n \in Nums(events) : n \in Nat
      /\ \A n \in Nums(wire) : n \in Nat
  BY NumsOf DEF TypeOK
<1> QED BY <1>1, <1>2 DEF Handed

LEMMA OrderStep == TypeOK /\ DialInv /\ OrderInv /\ [Next]_vars => OrderInv'
<1> SUFFICES ASSUME TypeOK, DialInv, OrderInv, [Next]_vars PROVE OrderInv'
  OBVIOUS
<1> USE DEF daemonVars, clientVars, sourceVars, storeVars, frontVars
<1>n. /\ \A n \in Nums(pushed) \cup Nums(events) \cup Nums(wire) \cup Handed : n \in Nat
      /\ sent \in Nat /\ hand.seq \in Nat
  BY NumsAreNat
<1>s. wire \in Seq(Events) /\ events \in Seq(Events) /\ pushed \in Seq(Events) /\ hand \in Events
  BY DEF TypeOK
<1>1. CASE \E n \in 0 .. MaxEvent : Dial(n)
  <2>1. PICK n \in 0 .. MaxEvent : Dial(n)
    BY <1>1
  <2>2. InOrder(pushed') /\ (\A m \in Nums(pushed') : m <= n)
    BY <2>1, HistoryLoaded DEF Dial
  <2>3. sent' = n /\ wire' = <<>> /\ events' = <<>> /\ source' = "select"
    BY <2>1 DEF Dial, DialInv
  <2> QED BY <2>2, <2>3, EmptySequence DEF OrderInv, Handed, Before
<1>2. CASE DaemonSends
  <2>1. sent + 1 \in 1 .. MaxEvent
    BY <1>2, AttachAssumption DEF DaemonSends, TypeOK
  <2>2. /\ sent' = sent + 1 /\ wire' = Append(wire, Event(sent + 1))
        /\ UNCHANGED <<pushed, events, source, hand>>
    BY <1>2 DEF DaemonSends
  <2>3. \A n \in Nums(pushed) \cup Nums(events) \cup Nums(wire) \cup Handed : n < sent + 1
    BY <1>n DEF OrderInv
  <2>4. Nums(wire') = Nums(wire) \cup {sent + 1} /\ InOrder(wire')
    BY <1>s, <2>1, <2>2, <2>3, EventFacts, AppendNums DEF OrderInv
  <2>5. Handed' = Handed
    BY <2>2 DEF Handed
  <2>6. \A n \in Nums(pushed) \cup Nums(events) \cup Nums(wire') \cup Handed : n <= sent'
    BY <1>n, <2>2, <2>3, <2>4
  <2> QED BY <2>2, <2>3, <2>4, <2>5, <2>6 DEF OrderInv, Before
<1>3. CASE ReadEvent
  <2>1. /\ wire # <<>> /\ wire' = Tail(wire) /\ UNCHANGED <<sent, pushed, source, hand>>
        /\ events' = events \/ events' = Append(events, Head(wire))
    BY <1>3 DEF ReadEvent, notReader
  <2>2. /\ Head(wire) \in Events /\ Head(wire).seq \in Nums(wire)
        /\ Nums(wire') \subseteq Nums(wire) /\ InOrder(wire')
        /\ \A n \in Nums(wire') : Head(wire).seq < n
    BY <1>s, <2>1, TailNums DEF OrderInv
  <2>3. InOrder(events') /\ Nums(events') \subseteq Nums(events) \cup {Head(wire).seq}
    <3>1. \A n \in Nums(events) : n < Head(wire).seq
      BY <2>2 DEF OrderInv, Before
    <3>2. /\ Nums(Append(events, Head(wire))) = Nums(events) \cup {Head(wire).seq}
          /\ InOrder(Append(events, Head(wire)))
      BY <1>s, <2>2, <3>1, AppendNums DEF OrderInv
    <3> QED BY <2>1, <3>2 DEF OrderInv
  <2>4. Handed' = Handed
    BY <2>1 DEF Handed
  <2> QED BY <2>1, <2>2, <2>3, <2>4 DEF OrderInv, Before
<1>4. CASE SourceTakes
  <2>1. /\ events # <<>> /\ events' = Tail(events) /\ hand' = Head(events) /\ source' = "push"
        /\ UNCHANGED <<sent, wire, pushed>>
    BY <1>4 DEF SourceTakes, notSource
  <2>2. /\ Head(events).seq \in Nums(events) /\ Nums(events') \subseteq Nums(events)
        /\ InOrder(events') /\ \A n \in Nums(events') : Head(events).seq < n
    BY <1>s, <2>1, TailNums DEF OrderInv
  <2>3. Handed' = {Head(events).seq}
    BY <2>1 DEF Handed
  <2> QED BY <2>1, <2>2, <2>3 DEF OrderInv, Before
<1>5. CASE SourcePushes
  <2>1. /\ source = "push" /\ source' = "select" /\ pushed' = Append(pushed, hand)
        /\ UNCHANGED <<sent, wire, events>>
    BY <1>5 DEF SourcePushes, notSource
  <2>2. Handed = {hand.seq} /\ Handed' = {}
    BY <2>1 DEF Handed
  <2>3. \A n \in Nums(pushed) : n < hand.seq
    BY <2>2 DEF OrderInv, Before
  <2>4. Nums(pushed') = Nums(pushed) \cup {hand.seq} /\ InOrder(pushed')
    BY <1>s, <2>1, <2>3, AppendNums DEF OrderInv
  <2> QED BY <2>1, <2>2, <2>4 DEF OrderInv, Before
<1>6. CASE Subscribe \/ TakeHistory \/ Show
  <2>1. UNCHANGED <<sent, wire, events, source, hand, pushed>>
    BY <1>6 DEF Subscribe, TakeHistory, Show, notFront
  <2>2. Handed' = Handed
    BY <2>1 DEF Handed
  <2> QED BY <2>1, <2>2 DEF OrderInv
<1>7. CASE Quiet
  <2>1. UNCHANGED <<sent, wire, events, pushed>>
    BY <1>7 DEF Quiet
  <2>2. Handed' = Handed
    BY <1>7 DEF Quiet, Handed
  <2> QED BY <2>1, <2>2 DEF OrderInv
<1> QED BY <1>1, <1>2, <1>3, <1>4, <1>5, <1>6, <1>7, Steps
------------------------------------------------------------------------------
(* The local store. *)

LEMMA StoreStep == TypeOK /\ DialInv /\ StoreInv /\ [Next]_vars => StoreInv'
<1> SUFFICES ASSUME TypeOK, DialInv, StoreInv, [Next]_vars PROVE StoreInv'
  OBVIOUS
<1> USE DEF daemonVars, clientVars, sourceVars, storeVars, frontVars
<1>t. /\ subs \subseteq {Sub} /\ mode \in {"json", "tui"} /\ filter \in [{Sub} -> SUBSET Tables]
      /\ front \in {"dial", "subscribe", "history", "loop", "wait", "returned"}
  BY DEF TypeOK
<1>1. CASE \E n \in 0 .. MaxEvent : Dial(n)
  <2>1. PICK n \in 0 .. MaxEvent : Dial(n)
    BY <1>1
  <2>2. IsWindow(window', pushed')
    BY <2>1, HistoryLoaded DEF Dial
  <2>3. /\ subs = {} /\ UNCHANGED <<subs, filter, queue, mode>>
        /\ front' = IF mode = "json" THEN "subscribe" ELSE "history"
    BY <2>1 DEF Dial, DialInv, After
  <2> QED BY <1>t, <2>2, <2>3 DEF StoreInv
<1>2. CASE DaemonSends \/ ReadEvent \/ SourceTakes
  <2>1. UNCHANGED <<storeVars, mode, front>>
    BY <1>2 DEF DaemonSends, ReadEvent, SourceTakes, notReader, notSource
  <2> QED BY <2>1 DEF StoreInv
<1>3. CASE SourcePushes
  <2>1. /\ window' = Store!Last(Append(window, hand), Capacity) /\ pushed' = Append(pushed, hand)
        /\ UNCHANGED <<subs, filter, mode, front>>
        /\ subs = {} => queue'[Sub] = queue[Sub]
    BY <1>3 DEF SourcePushes, Store!Put, notSource
  <2>2. IsWindow(window', pushed')
    BY <2>1, WindowPut DEF TypeOK, StoreInv
  <2> QED BY <2>1, <2>2 DEF StoreInv
<1>4. CASE Subscribe
  <2>1. /\ front = "subscribe" /\ subs' = {Sub} /\ filter' = [filter EXCEPT ![Sub] = Tables]
        /\ UNCHANGED <<window, queue, pushed, mode>>
        /\ front' = IF mode = "json" THEN "history" ELSE "loop"
    BY <1>4, <1>t DEF Subscribe, Store!Join, notFront, After
  <2>2. filter'[Sub] = Tables
    BY <1>t, <2>1
  <2> QED BY <1>t, <2>1, <2>2 DEF StoreInv
<1>5. CASE TakeHistory
  <2>1. /\ front = "history" /\ UNCHANGED <<storeVars, mode>>
        /\ front' = IF mode = "json" THEN "loop" ELSE "subscribe"
    BY <1>5 DEF TakeHistory, notFront, After
  <2> QED BY <1>t, <2>1 DEF StoreInv
<1>6. CASE Show
  <2>1. /\ queue[Sub] # <<>> /\ front = "loop"
        /\ UNCHANGED <<window, subs, filter, pushed, mode, front>>
    BY <1>6 DEF Show, Store!Take, notFront
  <2> QED BY <2>1 DEF StoreInv
<1>7. CASE Quiet
  BY <1>7 DEF Quiet, StoreInv
<1> QED BY <1>1, <1>2, <1>3, <1>4, <1>5, <1>6, <1>7, Steps
------------------------------------------------------------------------------
(* What the front end has, and what of the store it is missing. *)

\* A push leaves the front end's subscription alone or adds the event to it; it
\* leaves a subscribed one alone only when that is full.
LEMMA PushReaches ==
    ASSUME TypeOK, StoreInv, SourcePushes
    PROVE  /\ \/ queue'[Sub] = queue[Sub] /\ (Sub \in subs => Len(queue[Sub]) >= SubChanCap)
              \/ queue'[Sub] = Append(queue[Sub], hand)
           /\ pushed' = Append(pushed, hand) /\ source = "push"
           /\ UNCHANGED <<mode, front, shown, skipped>>
<1>1. hand.table \in Tables
  BY DEF TypeOK, Events, Event, Tables
<1>2. SubChanCap \in Nat /\ Len(queue[Sub]) \in Nat
  BY AttachAssumption, EventSeqs DEF TypeOK
<1>3. queue'[Sub] = IF Sub \in subs /\ hand.table \in filter[Sub] /\ Len(queue[Sub]) < SubChanCap
                    THEN Append(queue[Sub], hand)
                    ELSE queue[Sub]
  BY DEF SourcePushes, Store!Put
<1>4. Sub \in subs => hand.table \in filter[Sub]
  BY <1>1 DEF StoreInv
<1>5. /\ pushed' = Append(pushed, hand) /\ source = "push"
      /\ UNCHANGED <<mode, front, shown, skipped>>
  BY DEF SourcePushes, notSource, frontVars
<1> QED BY <1>2, <1>3, <1>4, <1>5

LEMMA FeedStep ==
    TypeOK /\ DialInv /\ OrderInv /\ StoreInv /\ FeedInv /\ [Next]_vars => FeedInv'
<1> SUFFICES ASSUME TypeOK, DialInv, OrderInv, StoreInv, FeedInv, [Next]_vars PROVE FeedInv'
  OBVIOUS
<1> USE DEF daemonVars, clientVars, sourceVars, storeVars, frontVars
<1>t. /\ queue \in [{Sub} -> Seq(Events)] /\ queue[Sub] \in Seq(Events) /\ shown \in Seq(Events)
      /\ pushed \in Seq(Events) /\ window \in Seq(Events) /\ hand \in Events
      /\ subs \subseteq {Sub} /\ mode \in {"json", "tui"}
  BY DEF TypeOK
<1>1. CASE \E n \in 0 .. MaxEvent : Dial(n)
  <2>1. shown = <<>> /\ queue[Sub] = <<>> /\ UNCHANGED <<shown, queue, mode>>
    BY <1>1 DEF Dial, DialInv, StoreInv
  <2> QED BY <2>1, EmptySequence DEF FeedInv, Before
<1>2. CASE DaemonSends \/ ReadEvent \/ SourceTakes \/ Subscribe
  <2>1. UNCHANGED <<shown, queue, pushed, mode>>
    BY <1>2 DEF DaemonSends, ReadEvent, SourceTakes, Subscribe, Store!Join,
                notReader, notSource, notFront
  <2> QED BY <2>1 DEF FeedInv
<1>3. CASE SourcePushes
  <2>1. /\ queue'[Sub] = queue[Sub] \/ queue'[Sub] = Append(queue[Sub], hand)
        /\ pushed' = Append(pushed, hand) /\ source = "push" /\ UNCHANGED <<shown, mode>>
    BY <1>3, PushReaches
  <2>2. \A n \in Nums(pushed) : n < hand.seq
    BY <2>1 DEF OrderInv, Before, Handed
  <2>3. Nums(pushed') = Nums(pushed) \cup {hand.seq}
    BY <1>t, <2>1, AppendNums
  <2>4. /\ Nums(queue'[Sub]) \subseteq Nums(queue[Sub]) \cup {hand.seq}
        /\ InOrder(queue[Sub]) => InOrder(queue'[Sub])
    <3>1. /\ Nums(Append(queue[Sub], hand)) = Nums(queue[Sub]) \cup {hand.seq}
          /\ InOrder(queue[Sub]) => InOrder(Append(queue[Sub], hand))
      BY <1>t, <2>2, AppendNums DEF FeedInv
    <3> QED BY <2>1, <3>1
  <2> QED BY <2>1, <2>2, <2>3, <2>4 DEF FeedInv, Before
<1>4. CASE TakeHistory
  <2>1. front = "history" /\ shown' = window /\ UNCHANGED <<queue, pushed, mode>>
    BY <1>4 DEF TakeHistory, notFront
  <2>2. Nums(window) \subseteq Nums(pushed) /\ InOrder(window)
    BY <1>t, WindowNums DEF StoreInv, OrderInv
  <2>3. mode = "tui" => queue[Sub] = <<>>
    BY <1>t, <2>1 DEF StoreInv
  <2> QED BY <2>1, <2>2, <2>3, EmptySequence DEF FeedInv, Before
<1>5. CASE Show
  <2>1. /\ queue[Sub] # <<>> /\ queue' = [queue EXCEPT ![Sub] = Tail(@)]
        /\ shown' = Append(shown, Head(queue[Sub])) /\ UNCHANGED <<pushed, mode>>
    BY <1>5 DEF Show, Store!Take, notFront
  <2>2. queue'[Sub] = Tail(queue[Sub])
    BY <1>t, <2>1
  <2>3. /\ Head(queue[Sub]) \in Events /\ Head(queue[Sub]).seq \in Nums(queue[Sub])
        /\ Nums(queue'[Sub]) \subseteq Nums(queue[Sub])
        /\ InOrder(queue[Sub]) => /\ InOrder(queue'[Sub])
                                  /\ \A n \in Nums(queue'[Sub]) : Head(queue[Sub]).seq < n
    BY <1>t, <2>1, <2>2, TailNums
  <2>4. /\ Nums(shown') = Nums(shown) \cup {Head(queue[Sub]).seq}
        /\ InOrder(shown) /\ Before(Nums(shown), Nums(queue[Sub])) => InOrder(shown')
    BY <1>t, <2>1, <2>3, AppendNums DEF Before
  <2> QED BY <2>1, <2>3, <2>4 DEF FeedInv, Before
<1>6. CASE Quiet
  BY <1>6 DEF Quiet, FeedInv
<1> QED BY <1>1, <1>2, <1>3, <1>4, <1>5, <1>6, Steps

\* In JSON mode nothing is lost between the history and the subscription: the
\* window of a store that has been joined already holds all it still has.
LEMMA HistoryAccounts ==
    ASSUME TypeOK, StoreInv, mode = "json", TakeHistory
    PROVE  AccountInv'
<1> USE DEF daemonVars, clientVars, sourceVars, storeVars, frontVars
<1>1. /\ pushed \in Seq(Events) /\ window \in Seq(Events) /\ queue[Sub] \in Seq(Events)
      /\ Len(pushed) \in Nat /\ Len(window) \in Nat /\ Capacity \in Nat
      /\ DOMAIN pushed = 1 .. Len(pushed)
  BY AttachAssumption, EventSeqs DEF TypeOK
<1>2. shown' = window /\ skipped' = Len(pushed) /\ UNCHANGED <<pushed, queue>>
  BY DEF TakeHistory, notFront
<1>3. /\ Len(window) = IF Len(pushed) < Capacity THEN Len(pushed) ELSE Capacity
      /\ \A j \in 1 .. Len(window) : window[j] = pushed[Len(pushed) - Len(window) + j]
  BY DEF StoreInv, IsWindow
<1>4. HistoryLen' <= Len(shown') /\ skipped' <= Len(pushed')
  BY <1>1, <1>2, <1>3 DEF HistoryLen
<1>5. ASSUME NEW i \in DOMAIN pushed
      PROVE  Accounted(i)'
  <2>1. CASE Len(pushed) - i >= Capacity
    <3>1. skipped' - i >= Capacity
      BY <1>2, <2>1
    <3> QED BY <3>1 DEF Accounted
  <2>2. CASE ~(Len(pushed) - i >= Capacity)
    <3> DEFINE j == i - (Len(pushed) - Len(window))
               f == window \o queue[Sub]
    <3>1. j \in 1 .. Len(window) /\ Len(pushed) - Len(window) + j = i
      BY <1>1, <1>3, <2>2
    <3>2. window[j] = pushed[i]
      BY <1>3, <3>1
    <3>3. /\ Len(f) = Len(window) + Len(queue[Sub]) /\ Len(queue[Sub]) \in Nat
          /\ \A k \in 1 .. Len(window) + Len(queue[Sub]) :
                f[k] = IF k <= Len(window) THEN window[k] ELSE queue[Sub][k - Len(window)]
      BY <1>1, Joined
    <3> HIDE DEF f, j
    <3>4. j \in 1 .. Len(f) /\ f[j] = pushed[i]
      BY <1>1, <3>1, <3>2, <3>3
    <3>5. Contains(f, pushed[i])
      BY <3>4 DEF Contains
    <3>6. Feed' = f /\ pushed' = pushed
      BY <1>2 DEF Feed, f
    <3> QED BY <3>5, <3>6 DEF Accounted
  <2> QED BY <2>1, <2>2
<1>6. \A i \in DOMAIN pushed' : Accounted(i)'
  BY <1>2, <1>5
<1> QED BY <1>4, <1>6 DEF AccountInv

\* A push in JSON mode: the event is in the subscription, or that held SubChanCap
\* events, the last of which is the witness that it was full.
LEMMA PushAccounts ==
    ASSUME TypeOK, OrderInv, StoreInv, FeedInv, AccountInv, SourcePushes,
           mode = "json", front \in {"loop", "wait"}
    PROVE  AccountInv'
<1> DEFINE f == Feed
           g == Feed'
           n == Len(pushed) + 1
<1>1. /\ pushed \in Seq(Events) /\ shown \in Seq(Events) /\ queue[Sub] \in Seq(Events)
      /\ hand \in Events /\ DOMAIN pushed = 1 .. Len(pushed)
      /\ Len(pushed) \in Nat /\ Len(shown) \in Nat /\ Len(queue[Sub]) \in Nat
      /\ skipped \in Nat /\ Capacity \in Nat /\ SubChanCap \in Nat /\ SubChanCap > 0
      /\ HistoryLen \in Nat
  BY AttachAssumption, EventSeqs DEF TypeOK, HistoryLen
<1>2. /\ \/ queue'[Sub] = queue[Sub] /\ Len(queue[Sub]) >= SubChanCap
         \/ queue'[Sub] = Append(queue[Sub], hand)
      /\ pushed' = Append(pushed, hand) /\ source = "push"
      /\ UNCHANGED <<mode, front, shown, skipped>>
  BY PushReaches DEF StoreInv
<1>3. /\ DOMAIN pushed' = 1 .. n /\ Len(pushed') = n /\ pushed'[n] = hand
      /\ \A i \in DOMAIN pushed : pushed'[i] = pushed[i]
  BY <1>1, <1>2, AppendProperties
<1>4. HistoryLen' = HistoryLen
  BY <1>2 DEF HistoryLen
<1>5. /\ f \in Seq(Events) /\ Len(f) = Len(shown) + Len(queue[Sub]) /\ Len(f) \in Nat
      /\ DOMAIN f = 1 .. Len(f) /\ \A k \in DOMAIN f : f[k].seq \in Nums(pushed)
  BY <1>1, Joined DEF Feed, FeedInv
<1>6. /\ Len(g) \in Nat /\ DOMAIN g = 1 .. Len(g) /\ Len(g) >= Len(f)
      /\ \A k \in 1 .. Len(f) : g[k] = f[k]
      /\ \/ g = f /\ Len(queue[Sub]) >= SubChanCap
         \/ Len(g) = Len(f) + 1 /\ g[Len(f) + 1] = hand
  <2>1. CASE queue'[Sub] = queue[Sub] /\ Len(queue[Sub]) >= SubChanCap
    <3>1. g = f
      BY <1>2, <2>1 DEF Feed
    <3> QED BY <1>5, <2>1, <3>1
  <2>2. CASE queue'[Sub] = Append(queue[Sub], hand)
    <3>1. g = shown \o Append(queue[Sub], hand)
      BY <1>2, <2>2 DEF Feed
    <3>2. Append(queue[Sub], hand) \in Seq(Events)
      BY <1>1, AppendNums
    <3>3. DOMAIN g = 1 .. Len(g) /\ Len(g) \in Nat
      <4>1. g \in Seq(Events)
        BY <1>1, <3>1, <3>2, Joined
      <4> QED BY <4>1, EventSeqs
    <3>4. /\ Len(g) = Len(f) + 1 /\ g[Len(f) + 1] = hand
          /\ \A k \in 1 .. Len(f) : g[k] = f[k]
      BY <1>1, <3>1, OneMore DEF Feed
    <3> QED BY <1>5, <3>3, <3>4
  <2> QED BY <1>2, <2>1, <2>2
<1> HIDE DEF f, g
<1>6a. \A k \in 1 .. Len(f) : k \in 1 .. Len(g) /\ k \in DOMAIN g /\ g[k] = f[k]
  <2>1. \A k \in 1 .. Len(f) : k \in 1 .. Len(g)
    <3>1. Len(f) \in Nat /\ Len(g) \in Nat /\ Len(g) >= Len(f)
      BY <1>5, <1>6
    <3> QED BY <3>1
  <2> QED BY <1>6, <2>1
<1>7. ASSUME NEW i \in DOMAIN pushed
      PROVE  Accounted(i)'
  <2>1. pushed'[i] = pushed[i] /\ skipped' = skipped
    BY <1>2, <1>3
  <2>2. \/ Contains(f, pushed[i])
        \/ skipped - i >= Capacity
        \/ \E k \in DOMAIN f : k - HistoryLen >= SubChanCap /\ f[k].seq < pushed[i].seq
    BY DEF AccountInv, Accounted, f
  <2>3. CASE Contains(f, pushed[i])
    <3>1. PICK k \in 1 .. Len(f) : f[k] = pushed[i]
      BY <2>3 DEF Contains
    <3>2. k \in 1 .. Len(g) /\ g[k] = pushed'[i]
      BY <1>6a, <2>1, <3>1
    <3>3. Contains(g, pushed'[i])
      BY <3>2 DEF Contains
    <3> QED BY <3>3 DEF Accounted, g
  <2>4. CASE skipped - i >= Capacity
    BY <2>1, <2>4 DEF Accounted
  <2>5. CASE \E k \in DOMAIN f : k - HistoryLen >= SubChanCap /\ f[k].seq < pushed[i].seq
    <3>1. PICK k \in DOMAIN f : k - HistoryLen >= SubChanCap /\ f[k].seq < pushed[i].seq
      BY <2>5
    <3>2. k \in DOMAIN g /\ g[k] = f[k]
      BY <1>5, <1>6a, <3>1
    <3>3. k - HistoryLen' >= SubChanCap /\ g[k].seq < pushed'[i].seq
      BY <1>4, <2>1, <3>1, <3>2
    <3> QED BY <3>2, <3>3 DEF Accounted, g
  <2> QED BY <2>2, <2>3, <2>4, <2>5
<1>8. ASSUME NEW i \in DOMAIN pushed', i \notin DOMAIN pushed
      PROVE  Accounted(i)'
  <2>i. pushed'[i] = hand
    BY <1>1, <1>3, <1>8
  <2>1. CASE g = f /\ Len(queue[Sub]) >= SubChanCap
    <3> DEFINE k == Len(f)
    <3>1. HistoryLen <= Len(shown)
      BY DEF AccountInv
    <3>2. k \in DOMAIN f /\ k - HistoryLen >= SubChanCap
      BY <1>1, <1>5, <2>1, <3>1
    <3>3. f[k].seq < hand.seq
      BY <1>2, <1>5, <3>2 DEF OrderInv, Before, Handed
    <3>4. k \in DOMAIN g /\ k - HistoryLen' >= SubChanCap /\ g[k].seq < pushed'[i].seq
      BY <1>4, <2>i, <2>1, <3>2, <3>3
    <3> HIDE DEF k
    <3> QED BY <3>4 DEF Accounted, g
  <2>2. CASE Len(g) = Len(f) + 1 /\ g[Len(f) + 1] = hand
    <3>1. Contains(g, pushed'[i])
      BY <1>5, <2>i, <2>2 DEF Contains
    <3> QED BY <3>1 DEF Accounted, g
  <2> QED BY <1>6, <2>1, <2>2
<1>9. \A i \in DOMAIN pushed' : Accounted(i)'
  BY <1>7, <1>8, Zenon
<1>10. skipped' <= Len(pushed') /\ HistoryLen' <= Len(shown')
  BY <1>1, <1>2, <1>3, <1>4 DEF AccountInv
<1> QED BY <1>9, <1>10 DEF AccountInv

LEMMA AccountStep ==
    TypeOK /\ DialInv /\ OrderInv /\ StoreInv /\ FeedInv /\ AccountInv /\ [Next]_vars => AccountInv'
<1> SUFFICES ASSUME TypeOK, DialInv, OrderInv, StoreInv, FeedInv, AccountInv, [Next]_vars,
                    mode' = "json", front' \in {"loop", "wait"}
             PROVE  AccountInv'
  BY DEF AccountInv
<1> USE DEF daemonVars, clientVars, sourceVars, storeVars, frontVars
<1>1. CASE \E n \in 0 .. MaxEvent : Dial(n)
  BY <1>1 DEF Dial, After
<1>2. CASE Subscribe
  BY <1>2 DEF Subscribe, notFront, After
<1>3. CASE DaemonSends \/ ReadEvent \/ SourceTakes \/ Quiet
  <2>1. UNCHANGED <<shown, queue, pushed, skipped, mode>> /\ front \in {"loop", "wait"}
    BY <1>3 DEF DaemonSends, ReadEvent, SourceTakes, Quiet, notReader, notSource
  <2>2. Feed' = Feed /\ HistoryLen' = HistoryLen
    BY <2>1 DEF Feed, HistoryLen
  <2> QED BY <2>1, <2>2 DEF AccountInv, Accounted
<1>4. CASE SourcePushes
  <2>1. UNCHANGED <<mode, front>>
    BY <1>4, PushReaches
  <2> QED BY <1>4, <2>1, PushAccounts
<1>5. CASE TakeHistory
  <2>1. UNCHANGED mode
    BY <1>5 DEF TakeHistory, notFront
  <2> QED BY <1>5, <2>1, HistoryAccounts
<1>6. CASE Show
  <2>1. /\ queue[Sub] # <<>> /\ queue' = [queue EXCEPT ![Sub] = Tail(@)]
        /\ shown' = Append(shown, Head(queue[Sub])) /\ front = "loop"
        /\ UNCHANGED <<pushed, skipped, mode>>
    BY <1>6 DEF Show, Store!Take, notFront
  <2>2. /\ queue \in [{Sub} -> Seq(Events)] /\ queue[Sub] \in Seq(Events) /\ shown \in Seq(Events)
        /\ skipped \in Nat /\ Capacity \in Nat
    BY AttachAssumption DEF TypeOK
  <2>3. queue'[Sub] = Tail(queue[Sub])
    BY <2>1, <2>2
  <2>4. Feed' = Feed
    BY <2>1, <2>2, <2>3, MoveOne DEF Feed
  <2>5. Len(shown') = Len(shown) + 1 /\ Len(shown) \in Nat
    BY <2>1, <2>2, TailNums, AppendNums, EventSeqs
  <2>6. HistoryLen' = HistoryLen /\ HistoryLen \in Nat
    BY <2>1, <2>2 DEF HistoryLen
  <2>7. HistoryLen <= Len(shown) /\ skipped <= Len(pushed) /\ \A i \in DOMAIN pushed : Accounted(i)
    BY <2>1 DEF AccountInv
  <2>8. \A i \in DOMAIN pushed' : Accounted(i)'
    BY <2>1, <2>4, <2>6, <2>7 DEF Accounted
  <2>9. HistoryLen' <= Len(shown') /\ skipped' <= Len(pushed')
    BY <2>1, <2>5, <2>6, <2>7
  <2> QED BY <2>8, <2>9 DEF AccountInv
<1> QED BY <1>1, <1>2, <1>3, <1>4, <1>5, <1>6, Steps
------------------------------------------------------------------------------
LEMMA InvInit == Init => IInv
<1> SUFFICES ASSUME Init PROVE IInv
  OBVIOUS
<1>1. TypeOK /\ DialInv /\ DropsAreCounted
  BY TypeInit, CountInit
<1>2. /\ wire = <<>> /\ events = <<>> /\ pushed = <<>> /\ shown = <<>> /\ window = <<>>
      /\ subs = {} /\ queue[Sub] = <<>> /\ source = "off" /\ front = "dial"
  BY DEF Init, Store!Init
<1>3. OrderInv
  BY <1>2, EmptySequence DEF OrderInv, Handed, Before
<1>4. StoreInv
  <2>1. Len(<<>>) = 0 /\ 0 < Capacity
    BY AttachAssumption
  <2>2. IsWindow(<<>>, <<>>)
    BY <2>1 DEF IsWindow
  <2> QED BY <1>2, <2>2 DEF StoreInv
<1>5. FeedInv
  BY <1>2, EmptySequence DEF FeedInv, Before
<1>6. AccountInv
  BY <1>2 DEF AccountInv
<1> QED BY <1>1, <1>3, <1>4, <1>5, <1>6 DEF IInv

LEMMA InvStep == IInv /\ [Next]_vars => IInv'
BY TypeStep, DialStep, DropsStep, OrderStep, StoreStep, FeedStep, AccountStep DEF IInv

\* History and stream meet: JSON mode has every event of the store, or it is one
\* the ring or a full subscription let go; the TUI has none twice and none out of
\* order (main.go:187-205, 245-277).
THEOREM HistoryMeetsStream == Spec => []HistoryJoinsStream
<1>1. ASSUME IInv PROVE HistoryJoinsStream
  <2>1. mode = "json" /\ front \in {"loop", "wait"} => \A i \in DOMAIN pushed : Accounted(i)
    BY <1>1 DEF IInv, AccountInv
  <2>2. ASSUME mode = "tui" PROVE Increasing(Seqs(Feed))
    <3>1. shown \in Seq(Events) /\ queue[Sub] \in Seq(Events)
      BY <1>1 DEF IInv, TypeOK
    <3>2. InOrder(shown \o queue[Sub])
      BY <1>1, <2>2, <3>1, JoinInOrder DEF IInv, FeedInv
    <3>3. InOrder(Feed)
      BY <3>2 DEF Feed
    <3> QED BY <3>3 DEF InOrder, Increasing, Seqs
  <2> QED BY <2>1, <2>2 DEF HistoryJoinsStream
<1> QED BY <1>1, InvInit, InvStep, PTL DEF Spec
=============================================================================
