------------------------------ MODULE TuiProofs ------------------------------
(***************************************************************************)
(* Theorems about Tui, for every set of tables, every history the model is *)
(* created with and any number of items after it.                          *)
(***************************************************************************)
EXTENDS Tui, SequenceTheorems, WellFoundedInduction, TLAPS

(* Induction over the numbers, about a set, and the loops it is for. *)

LEMMA NatOrder ==
    \E R : IsWellFoundedOn(R, Nat) /\ \A x, y \in Nat : x < y => <<x, y>> \in R
<1>1. \A x, y \in Nat : x < y => <<x, y>> \in OpToRel(<, Nat)
  BY DEF OpToRel
<1> QED BY <1>1, NatLessThanWellFounded, Zenon

LEMMA LeastOf ==
    ASSUME NEW S \in SUBSET Nat, S # {}
    PROVE  \E x \in S : \A y \in S : x <= y
<1>1. PICK R : IsWellFoundedOn(R, Nat) /\ \A x, y \in Nat : x < y => <<x, y>> \in R
  BY NatOrder
<1>2. IsWellFoundedOn(R, Nat) /\ S \subseteq Nat
  BY <1>1
<1>3. PICK x \in S : \A y \in S : ~ (<<y, x>> \in R)
  BY <1>2, WFMin, Zenon
<1>4. \A y \in S : ~ (y < x)
  BY <1>1, <1>3, Zenon
<1> QED BY <1>4

LEMMA UpFromZero ==
    ASSUME NEW n \in Nat, NEW T, 0 \in T, \A k \in 1 .. n : k - 1 \in T => k \in T
    PROVE  0 .. n \subseteq T
<1> DEFINE missing == {k \in 0 .. n : k \notin T}
<1>1. SUFFICES ASSUME missing # {} PROVE FALSE
  OBVIOUS
<1>2. PICK x \in missing : \A y \in missing : x <= y
  <2>1. missing \in SUBSET Nat
    OBVIOUS
  <2> HIDE DEF missing
  <2> QED BY <1>1, <2>1, LeastOf
<1>3. x \in 1 .. n /\ x - 1 \in 0 .. n /\ x - 1 \notin missing
  BY <1>2
<1> QED BY <1>2, <1>3

\* The largest of some bounded numbers, which Max chooses.
LEMMA MaxOf ==
    ASSUME NEW n \in Nat, NEW S \in SUBSET (0 .. n), S # {}
    PROVE  Max(S) \in S /\ \A y \in S : Max(S) >= y
<1> DEFINE below == {n - y : y \in S}
<1>1. below \in SUBSET Nat /\ below # {}
  <2>1. \A y \in S : n - y \in Nat
    OBVIOUS
  <2> QED BY <2>1
<1>2. PICK x \in below : \A y \in below : x <= y
  <2> HIDE DEF below
  <2> QED BY <1>1, LeastOf
<1>3. PICK z \in S : x = n - z
  OBVIOUS
<1>4. \A y \in S : n - y \in below
  OBVIOUS
<1>5. \A y \in S : z >= y
  BY <1>2, <1>3, <1>4
<1> QED BY <1>5 DEF Max

\* A loop that starts with a value and makes the next out of the last one: there
\* is a function from the number of rounds to the value after them.
IsLoop(g, n, first, step) == g[0] = first /\ \A i \in 1 .. n : g[i] = step[i][g[i - 1]]

LEMMA LoopExists ==
    ASSUME NEW V, NEW n \in Nat, NEW first \in V, NEW step \in [1 .. n -> [V -> V]]
    PROVE  \E g \in [0 .. n -> V] : IsLoop(g, n, first, step)
<1> DEFINE Runs(g, k) == IsLoop(g, k, first, step)
           T == {k \in 0 .. n : \E g \in [0 .. k -> V] : Runs(g, k)}
<1>1. 0 \in T
  <2> DEFINE h == [i \in 0 .. 0 |-> first]
  <2>1. h \in [0 .. 0 -> V] /\ Runs(h, 0)
    BY DEF IsLoop
  <2>2. \E g \in [0 .. 0 -> V] : Runs(g, 0)
    <3> HIDE DEF h, Runs
    <3> QED BY <2>1
  <2> QED BY <2>2
<1>2. ASSUME NEW k \in 1 .. n, k - 1 \in T
      PROVE  k \in T
  <2>1. PICK g \in [0 .. k - 1 -> V] : Runs(g, k - 1)
    BY <1>2
  <2> DEFINE h == [i \in 0 .. k |-> IF i = k THEN step[k][g[k - 1]] ELSE g[i]]
  <2>2. g[k - 1] \in V
    BY <1>2
  <2>3. h \in [0 .. k -> V]
    BY <1>2, <2>2
  <2>4. h[0] = first
    BY <2>1 DEF IsLoop
  <2>5. ASSUME NEW i \in 1 .. k PROVE h[i] = step[i][h[i - 1]]
    <3>1. h[i - 1] = g[i - 1]
      OBVIOUS
    <3>2. CASE i = k
      <4>1. h[i] = step[k][g[k - 1]]
        BY <3>2
      <4> QED BY <3>1, <3>2, <4>1
    <3>3. CASE i < k
      BY <2>1, <3>1, <3>3 DEF IsLoop
    <3> QED BY <3>2, <3>3
  <2>6. Runs(h, k)
    BY <2>4, <2>5 DEF IsLoop
  <2>7. \E g2 \in [0 .. k -> V] : Runs(g2, k)
    <3> HIDE DEF h, Runs
    <3> QED BY <2>3, <2>6
  <2> QED BY <2>7, <1>2
<1>3. 0 .. n \subseteq T
  BY <1>1, <1>2, UpFromZero
<1> QED BY <1>3
------------------------------------------------------------------------------
(* filterEvents. *)

Shown(e, act) == DOMAIN act = {} \/ Passes(e, act)

\* What the loop of filterEvents has collected after each round.
Rounds(g, es, act) ==
    /\ g[0] = <<>>
    /\ \A i \in 1 .. Len(es) :
          g[i] = IF Passes(es[i], act) THEN Append(g[i - 1], es[i]) ELSE g[i - 1]

LEMMA RoundsExist ==
    ASSUME NEW T, NEW es \in Seq(T), NEW act
    PROVE  \E g \in [0 .. Len(es) -> Seq(T)] : Rounds(g, es, act)
<1> DEFINE step == [i \in 1 .. Len(es) |->
                      [s \in Seq(T) |-> IF Passes(es[i], act) THEN Append(s, es[i]) ELSE s]]
<1>1. Len(es) \in Nat /\ <<>> \in Seq(T)
  OBVIOUS
<1>2. step \in [1 .. Len(es) -> [Seq(T) -> Seq(T)]]
  OBVIOUS
<1>3. PICK g \in [0 .. Len(es) -> Seq(T)] : IsLoop(g, Len(es), <<>>, step)
  <2> HIDE DEF step
  <2> QED BY <1>1, <1>2, LoopExists, Zenon
<1>4. ASSUME NEW i \in 1 .. Len(es)
      PROVE  g[i] = IF Passes(es[i], act) THEN Append(g[i - 1], es[i]) ELSE g[i - 1]
  <2>1. i - 1 \in 0 .. Len(es)
    BY <1>1
  <2>2. g[i - 1] \in Seq(T)
    BY <2>1
  <2>3. g[i] = step[i][g[i - 1]]
    BY <1>3 DEF IsLoop
  <2> QED BY <2>2, <2>3
<1> QED BY <1>3, <1>4 DEF Rounds, IsLoop

LEMMA FilterRounds ==
    ASSUME NEW T, NEW es \in Seq(T), NEW act
    PROVE  \E g \in [0 .. Len(es) -> Seq(T)] :
              /\ Rounds(g, es, act)
              /\ FilterEvents(es, act) = IF DOMAIN act = {} THEN es ELSE g[Len(es)]
<1> DEFINE n == Len(es)
           Loop(g) == [i \in 0 .. n |->
                         IF i = 0 THEN <<>>
                         ELSE IF Passes(es[i], act) THEN Append(g[i - 1], es[i]) ELSE g[i - 1]]
<1>1. n \in Nat /\ <<>> \in Seq(T)
  OBVIOUS
<1>2. PICK g \in [0 .. n -> Seq(T)] : Rounds(g, es, act)
  BY RoundsExist
<1>3. g = Loop(g)
  <2>1. ASSUME NEW i \in 0 .. n
        PROVE  g[i] = IF i = 0 THEN <<>>
                      ELSE IF Passes(es[i], act) THEN Append(g[i - 1], es[i]) ELSE g[i - 1]
    <3>1. CASE i = 0
      BY <1>2, <3>1 DEF Rounds
    <3>2. CASE i \in 1 .. n
      BY <1>2, <3>2 DEF Rounds
    <3> QED BY <1>1, <3>1, <3>2
  <2> HIDE DEF n
  <2> QED BY <2>1
<1>4. PICK out : /\ out = Loop(out)
                 /\ FilterEvents(es, act) = IF DOMAIN act = {} THEN es ELSE out[n]
  <2>1. (CHOOSE h : h = Loop(h)) = Loop(CHOOSE h : h = Loop(h))
    BY <1>3, Zenon
  <2>2. FilterEvents(es, act) = IF DOMAIN act = {} THEN es ELSE (CHOOSE h : h = Loop(h))[n]
    BY Zenon DEF FilterEvents
  <2> HIDE DEF Loop, n
  <2> QED BY <2>1, <2>2, Zenon
<1>5. out[0] = <<>>
  BY <1>1, <1>4
<1>6. ASSUME NEW i \in 1 .. n
      PROVE  out[i] = IF Passes(es[i], act) THEN Append(out[i - 1], es[i]) ELSE out[i - 1]
  <2>1. i \in 0 .. n /\ i # 0
    BY <1>1
  <2> QED BY <2>1, <1>4
<1>7. 0 .. n \subseteq {k \in 0 .. n : out[k] \in Seq(T)}
  <2> DEFINE K == {k \in 0 .. n : out[k] \in Seq(T)}
  <2>1. 0 \in K
    BY <1>1, <1>5
  <2>2. ASSUME NEW k \in 1 .. n, k - 1 \in K PROVE k \in K
    <3>1. out[k - 1] \in Seq(T) /\ es[k] \in T /\ k \in 0 .. n
      BY <1>1, <2>2
    <3>2. out[k] = IF Passes(es[k], act) THEN Append(out[k - 1], es[k]) ELSE out[k - 1]
      BY <1>6
    <3>3. Append(out[k - 1], es[k]) \in Seq(T)
      BY <3>1, AppendProperties
    <3>4. out[k] \in Seq(T)
      BY <3>1, <3>2, <3>3
    <3> QED BY <3>1, <3>4
  <2> HIDE DEF K, n
  <2>3. 0 .. n \subseteq K
    BY <1>1, <2>1, <2>2, UpFromZero
  <2> QED BY <2>3 DEF K
<1>8. out \in [0 .. n -> Seq(T)]
  BY <1>4, <1>7
<1> QED BY <1>4, <1>5, <1>6, <1>8 DEF Rounds

\* Nothing is longer for being filtered.
LEMMA FilterLen ==
    ASSUME NEW T, NEW es \in Seq(T), NEW act
    PROVE  FilterEvents(es, act) \in Seq(T) /\ Len(FilterEvents(es, act)) \in 0 .. Len(es)
<1>1. PICK g \in [0 .. Len(es) -> Seq(T)] :
         /\ Rounds(g, es, act)
         /\ FilterEvents(es, act) = IF DOMAIN act = {} THEN es ELSE g[Len(es)]
  BY FilterRounds
<1> DEFINE n == Len(es)
           K == {k \in 0 .. n : Len(g[k]) <= k}
<1>2. n \in Nat
  OBVIOUS
<1>3. 0 \in K
  BY <1>1, <1>2 DEF Rounds
<1>4. ASSUME NEW k \in 1 .. n, k - 1 \in K PROVE k \in K
  <2>1. k \in 0 .. n /\ k - 1 \in 0 .. n /\ g[k - 1] \in Seq(T) /\ es[k] \in T
    BY <1>2
  <2>2. g[k] = IF Passes(es[k], act) THEN Append(g[k - 1], es[k]) ELSE g[k - 1]
    BY <1>1 DEF Rounds
  <2>3. Len(Append(g[k - 1], es[k])) = Len(g[k - 1]) + 1 /\ Len(g[k - 1]) \in Nat
    BY <2>1, AppendProperties
  <2>4. Len(g[k]) <= k
    BY <1>4, <2>1, <2>2, <2>3
  <2> QED BY <2>1, <2>4
<1>5. 0 .. n \subseteq K
  <2> HIDE DEF K, n
  <2> QED BY <1>2, <1>3, <1>4, UpFromZero
<1>6. n \in K /\ g[n] \in Seq(T)
  <2>1. n \in K
    <3> HIDE DEF K, n
    <3> QED BY <1>2, <1>5
  <2> QED BY <1>2, <2>1
<1> QED BY <1>1, <1>2, <1>6

\* Filters that agree about every item of a feed show the same of it.
LEMMA FilterSame ==
    ASSUME NEW T, NEW es \in Seq(T), NEW a, NEW b, DOMAIN a # {}, DOMAIN b # {},
           \A i \in 1 .. Len(es) : Passes(es[i], a) <=> Passes(es[i], b)
    PROVE  FilterEvents(es, a) = FilterEvents(es, b)
<1>1. PICK g \in [0 .. Len(es) -> Seq(T)] :
         /\ Rounds(g, es, a)
         /\ FilterEvents(es, a) = IF DOMAIN a = {} THEN es ELSE g[Len(es)]
  BY FilterRounds
<1>2. PICK h \in [0 .. Len(es) -> Seq(T)] :
         /\ Rounds(h, es, b)
         /\ FilterEvents(es, b) = IF DOMAIN b = {} THEN es ELSE h[Len(es)]
  BY FilterRounds
<1> DEFINE n == Len(es)
           K == {k \in 0 .. n : g[k] = h[k]}
<1>3. n \in Nat
  OBVIOUS
<1>4. 0 \in K
  BY <1>1, <1>2, <1>3 DEF Rounds
<1>5. ASSUME NEW k \in 1 .. n, k - 1 \in K PROVE k \in K
  <2>1. k \in 0 .. n /\ g[k - 1] = h[k - 1]
    BY <1>3, <1>5
  <2>2. g[k] = IF Passes(es[k], a) THEN Append(g[k - 1], es[k]) ELSE g[k - 1]
    BY <1>1 DEF Rounds
  <2>3. h[k] = IF Passes(es[k], b) THEN Append(h[k - 1], es[k]) ELSE h[k - 1]
    BY <1>2 DEF Rounds
  <2> QED BY <2>1, <2>2, <2>3
<1>6. 0 .. n \subseteq K
  <2> HIDE DEF K, n
  <2> QED BY <1>3, <1>4, <1>5, UpFromZero
<1>7. n \in K
  <2> HIDE DEF K, n
  <2> QED BY <1>3, <1>6
<1> QED BY <1>1, <1>2, <1>7

\* A filter that every item passes hides nothing.
LEMMA FilterNone ==
    ASSUME NEW T, NEW es \in Seq(T), NEW act, \A i \in 1 .. Len(es) : Passes(es[i], act)
    PROVE  FilterEvents(es, act) = es
<1>1. PICK g \in [0 .. Len(es) -> Seq(T)] :
         /\ Rounds(g, es, act)
         /\ FilterEvents(es, act) = IF DOMAIN act = {} THEN es ELSE g[Len(es)]
  BY FilterRounds
<1> DEFINE n == Len(es)
           K == {k \in 0 .. n : Len(g[k]) = k /\ \A j \in 1 .. k : g[k][j] = es[j]}
<1>2. n \in Nat
  OBVIOUS
<1>3. 0 \in K
  BY <1>1, <1>2 DEF Rounds
<1>4. ASSUME NEW k \in 1 .. n, k - 1 \in K PROVE k \in K
  <2>1. k \in 0 .. n /\ g[k - 1] \in Seq(T) /\ es[k] \in T
    BY <1>2
  <2>2. Len(g[k - 1]) = k - 1 /\ \A j \in 1 .. k - 1 : g[k - 1][j] = es[j]
    BY <1>4
  <2>3. g[k] = Append(g[k - 1], es[k])
    BY <1>1 DEF Rounds
  <2>4. Len(g[k]) = k /\ \A j \in 1 .. k : g[k][j] = es[j]
    BY <2>1, <2>2, <2>3, AppendProperties
  <2> QED BY <2>1, <2>4
<1>5. 0 .. n \subseteq K
  <2> HIDE DEF K, n
  <2> QED BY <1>2, <1>3, <1>4, UpFromZero
<1>6. n \in K /\ g[n] \in Seq(T)
  <2>1. n \in K
    <3> HIDE DEF K, n
    <3> QED BY <1>2, <1>5
  <2> QED BY <1>2, <2>1
<1>7. Len(g[n]) = Len(es) /\ \A j \in 1 .. Len(es) : g[n][j] = es[j]
  BY <1>6
<1>8. g[n] = es
  BY <1>6, <1>7, SeqEqual
<1> QED BY <1>1, <1>8

\* What is shown of a feed: its items that pass, all of them, in their order
\* (filter.go:76-94).
THEOREM FilterIsExact ==
    ASSUME NEW T, NEW es \in Seq(T), NEW act
    PROVE  \E at \in [1 .. Len(FilterEvents(es, act)) -> 1 .. Len(es)] :
              /\ \A j, k \in DOMAIN at : j < k => at[j] < at[k]
              /\ \A j \in DOMAIN at : FilterEvents(es, act)[j] = es[at[j]]
              /\ {at[j] : j \in DOMAIN at} = {i \in 1 .. Len(es) : Shown(es[i], act)}
<1>1. PICK g \in [0 .. Len(es) -> Seq(T)] :
         /\ Rounds(g, es, act)
         /\ FilterEvents(es, act) = IF DOMAIN act = {} THEN es ELSE g[Len(es)]
  BY FilterRounds
<1> DEFINE n == Len(es)
           Placed(at, s, k) == /\ \A j, l \in 1 .. Len(s) : j < l => at[j] < at[l]
                               /\ \A j \in 1 .. Len(s) : s[j] = es[at[j]] /\ Passes(es[at[j]], act)
                               /\ \A i \in 1 .. k : Passes(es[i], act) => \E j \in 1 .. Len(s) : at[j] = i
           K == {k \in 0 .. n : \E at \in [1 .. Len(g[k]) -> 1 .. k] : Placed(at, g[k], k)}
<1>2. n \in Nat
  OBVIOUS
<1>3. 0 \in K
  <2>1. g[0] = <<>> /\ 0 \in 0 .. n
    BY <1>1, <1>2 DEF Rounds
  <2>2. <<>> \in [1 .. Len(g[0]) -> 1 .. 0] /\ Placed(<<>>, g[0], 0)
    BY <2>1
  <2> HIDE DEF Placed
  <2> QED BY <2>1, <2>2
<1>4. ASSUME NEW k \in 1 .. n, k - 1 \in K PROVE k \in K
  <2>1. k \in 0 .. n /\ k - 1 \in 0 .. n /\ g[k - 1] \in Seq(T) /\ es[k] \in T
    BY <1>2
  <2>2. PICK at \in [1 .. Len(g[k - 1]) -> 1 .. k - 1] : Placed(at, g[k - 1], k - 1)
    BY <1>4
  <2>3. g[k] = IF Passes(es[k], act) THEN Append(g[k - 1], es[k]) ELSE g[k - 1]
    BY <1>1 DEF Rounds
  <2>4. CASE ~Passes(es[k], act)
    <3>1. g[k] = g[k - 1]
      BY <2>3, <2>4
    <3>2. at \in [1 .. Len(g[k]) -> 1 .. k]
      BY <3>1
    <3>3. Placed(at, g[k], k)
      BY <2>2, <2>4, <3>1
    <3> HIDE DEF Placed
    <3> QED BY <2>1, <3>2, <3>3
  <2>5. CASE Passes(es[k], act)
    <3> DEFINE m == Len(g[k - 1])
               new == [j \in 1 .. m + 1 |-> IF j = m + 1 THEN k ELSE at[j]]
    <3>1. m \in Nat /\ Len(g[k]) = m + 1 /\ g[k][m + 1] = es[k] /\ \A j \in 1 .. m : g[k][j] = g[k - 1][j]
      BY <2>1, <2>3, <2>5, AppendProperties
    <3>2. \A j \in 1 .. m : at[j] \in 1 .. k - 1
      OBVIOUS
    <3> HIDE DEF m
    <3>3. new \in [1 .. Len(g[k]) -> 1 .. k]
      BY <3>1, <3>2
    <3>4. \A j, l \in 1 .. Len(g[k]) : j < l => new[j] < new[l]
      BY <2>2, <3>1, <3>2 DEF m
    <3>5. \A j \in 1 .. Len(g[k]) : g[k][j] = es[new[j]] /\ Passes(es[new[j]], act)
      <4> SUFFICES ASSUME NEW j \in 1 .. m + 1
                   PROVE  g[k][j] = es[new[j]] /\ Passes(es[new[j]], act)
        BY <3>1
      <4>1. CASE j = m + 1
        BY <2>5, <3>1, <4>1
      <4>2. CASE j \in 1 .. m
        BY <2>2, <3>1, <4>2 DEF m
      <4> QED BY <3>1, <4>1, <4>2
    <3>6. \A i \in 1 .. k : Passes(es[i], act) => \E j \in 1 .. Len(g[k]) : new[j] = i
      <4> SUFFICES ASSUME NEW i \in 1 .. k, Passes(es[i], act)
                   PROVE  \E j \in 1 .. m + 1 : new[j] = i
        BY <3>1
      <4>1. CASE i = k
        BY <3>1, <4>1
      <4>2. CASE i \in 1 .. k - 1
        <5>1. PICK j \in 1 .. m : at[j] = i
          BY <2>2, <4>2 DEF m
        <5>2. j \in 1 .. m + 1 /\ j # m + 1
          BY <3>1
        <5>3. new[j] = i
          BY <5>1, <5>2
        <5> QED BY <5>2, <5>3
      <4> QED BY <4>1, <4>2
    <3>7. Placed(new, g[k], k)
      BY <3>4, <3>5, <3>6
    <3> HIDE DEF Placed, new
    <3> QED BY <2>1, <3>3, <3>7
  <2> QED BY <2>4, <2>5
<1>5. 0 .. n \subseteq K
  <2> HIDE DEF K, n
  <2> QED BY <1>2, <1>3, <1>4, UpFromZero
<1>6. PICK at \in [1 .. Len(g[n]) -> 1 .. n] : Placed(at, g[n], n)
  <2>1. n \in K
    <3> HIDE DEF K, n
    <3> QED BY <1>2, <1>5
  <2> HIDE DEF Placed
  <2> QED BY <2>1
<1>7. CASE DOMAIN act # {}
  <2>1. FilterEvents(es, act) = g[n]
    BY <1>1, <1>7
  <2>2. at \in [1 .. Len(FilterEvents(es, act)) -> 1 .. Len(es)]
    BY <2>1
  <2>3. /\ \A j, k \in DOMAIN at : j < k => at[j] < at[k]
        /\ \A j \in DOMAIN at : FilterEvents(es, act)[j] = es[at[j]]
    BY <1>6, <2>1, <2>2
  <2>4. {at[j] : j \in DOMAIN at} = {i \in 1 .. Len(es) : Shown(es[i], act)}
    <3>1. \A j \in DOMAIN at : at[j] \in 1 .. Len(es) /\ Shown(es[at[j]], act)
      BY <1>6, <2>1, <2>2 DEF Shown
    <3>2. \A i \in 1 .. Len(es) : Shown(es[i], act) => \E j \in DOMAIN at : at[j] = i
      BY <1>6, <1>7, <2>1, <2>2 DEF Shown
    <3> QED BY <3>1, <3>2
  <2> QED BY <2>2, <2>3, <2>4
<1>8. CASE DOMAIN act = {}
  <2> DEFINE all == [i \in 1 .. n |-> i]
  <2>1. FilterEvents(es, act) = es
    BY <1>1, <1>8
  <2>2. all \in [1 .. Len(FilterEvents(es, act)) -> 1 .. Len(es)]
    BY <2>1
  <2>3. /\ \A j, k \in DOMAIN all : j < k => all[j] < all[k]
        /\ \A j \in DOMAIN all : FilterEvents(es, act)[j] = es[all[j]]
    BY <1>2, <2>1
  <2>4. {all[j] : j \in DOMAIN all} = {i \in 1 .. Len(es) : Shown(es[i], act)}
    BY <1>8 DEF Shown
  <2> HIDE DEF all
  <2> QED BY <2>2, <2>3, <2>4
<1> QED BY <1>7, <1>8
------------------------------------------------------------------------------
(* The tables of a history. *)

AddTables(g, whats) ==
    /\ g[0] = <<>>
    /\ \A i \in 1 .. Len(whats) :
          g[i] = IF whats[i] \in Tables THEN AddTable(g[i - 1], whats[i]) ELSE g[i - 1]

LEMMA AddTableAdds ==
    ASSUME NEW ts \in Seq(Tables), IsInjective(ts), NEW t \in Tables
    PROVE  /\ AddTable(ts, t) \in Seq(Tables)
           /\ IsInjective(AddTable(ts, t))
           /\ ToSet(AddTable(ts, t)) = ToSet(ts) \cup {t}
           /\ Len(AddTable(ts, t)) >= Len(ts)
           /\ Contains(AddTable(ts, t), t)
           /\ \A x : Contains(ts, x) => Contains(AddTable(ts, t), x)
<1>1. CASE Contains(ts, t)
  BY <1>1 DEF AddTable, ToSet, Contains
<1>2. CASE ~Contains(ts, t)
  <2>1. AddTable(ts, t) = Append(ts, t)
    BY <1>2 DEF AddTable
  <2> DEFINE n == Len(ts)
             us == Append(ts, t)
  <2>2. /\ us \in Seq(Tables) /\ Len(us) = n + 1 /\ n \in Nat
        /\ us[n + 1] = t /\ \A i \in 1 .. n : us[i] = ts[i]
    BY AppendProperties
  <2>3. \A i \in 1 .. n : ts[i] # t
    BY <1>2 DEF Contains
  <2> HIDE DEF us
  <2>4. DOMAIN us = 1 .. n + 1 /\ DOMAIN ts = 1 .. n
    BY <2>2
  <2>5. IsInjective(us)
    BY <2>2, <2>3, <2>4 DEF IsInjective
  <2>6. ToSet(us) = ToSet(ts) \cup {t}
    <3>1. \A i \in 1 .. n + 1 : us[i] \in ToSet(ts) \cup {t}
      BY <2>2, <2>4 DEF ToSet
    <3>2. \A i \in 1 .. n : i \in 1 .. n + 1 /\ us[i] = ts[i]
      BY <2>2
    <3>3. n + 1 \in 1 .. n + 1
      BY <2>2
    <3> QED BY <2>2, <2>4, <3>1, <3>2, <3>3 DEF ToSet
  <2>7. Contains(us, t) /\ \A x : Contains(ts, x) => Contains(us, x)
    BY <2>2 DEF Contains
  <2> QED BY <2>1, <2>2, <2>5, <2>6, <2>7 DEF us
<1> QED BY <1>1, <1>2

\* A table is listed once if the history names it, and not otherwise.
LEMMA TablesListed ==
    ASSUME NEW whats \in Seq(Whats)
    PROVE  /\ TablesOf(whats) \in Seq(Tables)
           /\ IsInjective(TablesOf(whats))
           /\ \A i \in 1 .. Len(whats) : whats[i] \in Tables => Contains(TablesOf(whats), whats[i])
<1> DEFINE n == Len(whats)
           V == {s \in Seq(Tables) : IsInjective(s)}
           step == [i \in 1 .. n |-> [s \in V |-> IF whats[i] \in Tables THEN AddTable(s, whats[i]) ELSE s]]
           Loop(g) == [i \in 0 .. n |->
                         IF i = 0 THEN <<>>
                         ELSE IF whats[i] \in Tables THEN AddTable(g[i - 1], whats[i]) ELSE g[i - 1]]
<1>1. n \in Nat /\ <<>> \in V
  BY DEF IsInjective
<1>2. step \in [1 .. n -> [V -> V]]
  <2>1. \A i \in 1 .. n : \A s \in V : (IF whats[i] \in Tables THEN AddTable(s, whats[i]) ELSE s) \in V
    BY AddTableAdds
  <2> HIDE DEF V
  <2> QED BY <2>1
<1>3. PICK g \in [0 .. n -> V] : IsLoop(g, n, <<>>, step)
  <2> HIDE DEF n, V, step
  <2> QED BY <1>1, <1>2, LoopExists, Zenon
<1>4. AddTables(g, whats)
  <2>1. ASSUME NEW i \in 1 .. n
        PROVE  g[i] = IF whats[i] \in Tables THEN AddTable(g[i - 1], whats[i]) ELSE g[i - 1]
    <3>1. g[i - 1] \in V
      <4>1. i - 1 \in 0 .. n
        BY <1>1
      <4> HIDE DEF V, n
      <4> QED BY <4>1
    <3>2. g[i] = step[i][g[i - 1]]
      BY <1>3 DEF IsLoop
    <3> HIDE DEF V
    <3> QED BY <3>1, <3>2
  <2> QED BY <1>3, <2>1 DEF AddTables, IsLoop
<1>5. g = Loop(g)
  <2>1. ASSUME NEW i \in 0 .. n
        PROVE  g[i] = IF i = 0 THEN <<>>
                      ELSE IF whats[i] \in Tables THEN AddTable(g[i - 1], whats[i]) ELSE g[i - 1]
    <3>1. CASE i = 0
      BY <1>4, <3>1 DEF AddTables
    <3>2. CASE i \in 1 .. n
      BY <1>4, <3>2 DEF AddTables
    <3> QED BY <1>1, <3>1, <3>2
  <2> HIDE DEF n, V
  <2> QED BY <2>1
<1>6. PICK h : h = Loop(h) /\ TablesOf(whats) = h[n]
  <2>1. (CHOOSE f : f = Loop(f)) = Loop(CHOOSE f : f = Loop(f))
    BY <1>5, Zenon
  <2>2. TablesOf(whats) = (CHOOSE f : f = Loop(f))[n]
    BY Zenon DEF TablesOf
  <2> HIDE DEF Loop, n
  <2> QED BY <2>1, <2>2, Zenon
<1> DEFINE Named(s, k) == \A i \in 1 .. k : whats[i] \in Tables => Contains(s, whats[i])
           K == {k \in 0 .. n : h[k] \in V /\ Named(h[k], k)}
<1>7. 0 \in K
  <2>1. h[0] = <<>>
    BY <1>1, <1>6
  <2>2. Named(h[0], 0)
    OBVIOUS
  <2> HIDE DEF V, Named
  <2> QED BY <1>1, <2>1, <2>2
<1>8. ASSUME NEW k \in 1 .. n, k - 1 \in K PROVE k \in K
  <2>1. k \in 0 .. n /\ k # 0
    BY <1>1
  <2>2. h[k] = IF whats[k] \in Tables THEN AddTable(h[k - 1], whats[k]) ELSE h[k - 1]
    BY <1>6, <2>1
  <2>3. h[k - 1] \in V /\ Named(h[k - 1], k - 1)
    BY <1>8
  <2>4. CASE whats[k] \in Tables
    <3>1. h[k] \in V
      BY <2>2, <2>3, <2>4, AddTableAdds
    <3>2. /\ Contains(h[k], whats[k])
          /\ \A x : Contains(h[k - 1], x) => Contains(h[k], x)
      BY <2>2, <2>3, <2>4, AddTableAdds
    <3>3. Named(h[k], k)
      BY <2>3, <3>2
    <3> QED BY <2>1, <3>1, <3>3
  <2>5. CASE whats[k] \notin Tables
    BY <2>1, <2>2, <2>3, <2>5
  <2> QED BY <2>4, <2>5
<1>9. 0 .. n \subseteq K
  <2> HIDE DEF K, n
  <2> QED BY <1>1, <1>7, <1>8, UpFromZero
<1>10. n \in K
  <2> HIDE DEF K, n
  <2> QED BY <1>1, <1>9
<1> QED BY <1>6, <1>10
------------------------------------------------------------------------------
(***************************************************************************)
(* The inductive invariant.  The cursor is where the view has a line only  *)
(* because a table that comes up while the feed is paused changes nothing  *)
(* of the view, for which every table of the feed must be listed already;  *)
(* and its bound is the number of items, for which the items held must be  *)
(* the latest ones, each once.                                             *)
(***************************************************************************)
Shape ==
    /\ allEvents \in Seq(Items) /\ pending \in Seq(Items)
    /\ tables \in Seq(Tables) /\ IsInjective(tables)
    /\ active \in [ToSet(tables) -> BOOLEAN]
    /\ arrived \in 0 .. MaxItems

Flags ==
    /\ focus \in {"feed", "filter"}
    /\ {expanded, paused, confirmClear, showHelp, quit} \subseteq BOOLEAN

\* Nothing waits behind a feed that is not paused.
Waits == ~paused => pending = <<>>

FeedInv == Shape /\ Waits /\ Latest /\ HiddenOnlyByFilter
IInv    == FeedInv /\ Flags /\ IndexesInRange

LEMMA Joined ==
    ASSUME NEW a \in Seq(Items), NEW p \in Seq(Items)
    PROVE  /\ a \o p \in Seq(Items) /\ Len(a \o p) = Len(a) + Len(p)
           /\ Len(a) \in Nat /\ Len(p) \in Nat
           /\ \A i \in 1 .. Len(a) : (a \o p)[i] = a[i]
           /\ \A i \in 1 .. Len(p) : (a \o p)[Len(a) + i] = p[i]
<1>1. /\ a \o p \in Seq(Items)
      /\ Len(a \o p) = Len(a) + Len(p)
      /\ \A i \in 1 .. Len(a) + Len(p) : (a \o p)[i] = IF i <= Len(a) THEN a[i] ELSE p[i - Len(a)]
  BY ConcatProperties
<1>2. Len(a) \in Nat /\ Len(p) \in Nat
  OBVIOUS
<1> DEFINE s == a \o p
<1> HIDE DEF s
<1>3. ASSUME NEW i \in 1 .. Len(p)
      PROVE  s[Len(a) + i] = p[i]
  <2>1. /\ Len(a) + i \in 1 .. Len(a) + Len(p)
        /\ ~(Len(a) + i <= Len(a))
        /\ Len(a) + i - Len(a) = i
    BY <1>2
  <2> QED BY <1>1, <2>1 DEF s
<1>4. ASSUME NEW i \in 1 .. Len(a)
      PROVE  s[i] = a[i]
  BY <1>1, <1>2 DEF s
<1> QED BY <1>1, <1>2, <1>3, <1>4 DEF s

LEMMA HeldLen ==
    ASSUME Shape
    PROVE  /\ Held \in Seq(Items) /\ Len(Held) = Len(allEvents) + Len(pending)
           /\ Len(allEvents) \in Nat /\ Len(pending) \in Nat
           /\ \A i \in 1 .. Len(allEvents) : Held[i] = allEvents[i]
           /\ \A i \in 1 .. Len(pending) : Held[Len(allEvents) + i] = pending[i]
BY Joined DEF Shape, Held

\* The view is a sequence of items, no longer than there are items.
LEMMA ViewLen ==
    ASSUME FeedInv
    PROVE  /\ Visible \in Seq(Items) /\ Len(Visible) \in 0 .. Len(allEvents)
           /\ Len(Held) <= arrived
<1>1. Visible \in Seq(Items) /\ Len(Visible) \in 0 .. Len(allEvents)
  BY FilterLen DEF FeedInv, Shape, Visible
<1>2. /\ Held \in Seq(Items) /\ Len(Held) \in Nat /\ arrived \in Nat
      /\ DOMAIN Held = 1 .. Len(Held)
  BY HeldLen DEF FeedInv, Shape
<1>3. CASE Held = <<>>
  BY <1>1, <1>2, <1>3
<1>4. CASE Held # <<>>
  <2>1. 1 \in DOMAIN Held
    BY <1>2, <1>4
  <2>2. Held[1].id = arrived - Len(Held) + 1
    BY <2>1 DEF FeedInv, Latest
  <2>3. Held[1] \in Items
    BY <1>2, <2>1
  <2>4. Held[1].id >= 1
    BY <2>3, TuiAssumption DEF Items
  <2> QED BY <1>1, <1>2, <2>2, <2>4
<1> QED BY <1>3, <1>4

LEMMA IInvIsTyped == IInv => TypeOK
<1> SUFFICES ASSUME IInv PROVE TypeOK
  OBVIOUS
<1>1. /\ Len(Visible) \in 0 .. Len(allEvents) /\ Len(Held) <= arrived
      /\ Len(Held) = Len(allEvents) + Len(pending)
      /\ Len(allEvents) \in Nat /\ Len(pending) \in Nat /\ arrived \in 0 .. MaxItems
      /\ Visible \in Seq(Items)
  BY ViewLen, HeldLen DEF IInv, FeedInv, Shape
<1>2. Bottom(Visible) \in 0 .. MaxItems
  BY <1>1, TuiAssumption DEF Bottom
<1>3. cursor \in 0 .. MaxItems
  BY <1>2, TuiAssumption DEF IInv, IndexesInRange
<1>4. filterCursor \in Nat
  BY DEF IInv, IndexesInRange
<1> QED BY <1>3, <1>4 DEF IInv, FeedInv, Shape, Flags, TypeOK
------------------------------------------------------------------------------
(* The initial states. *)

LEMMA ItemFields ==
    ASSUME NEW id, NEW what
    PROVE  Item(id, what).id = id /\ Item(id, what).what = what
BY DEF Item

LEMMA InitIInv == Init => IInv
<1> SUFFICES ASSUME Init PROVE IInv
  OBVIOUS
<1>1. PICK whats \in SeqOf(Whats, MaxHistory) :
         /\ allEvents = [i \in DOMAIN whats |-> Item(i, whats[i])]
         /\ tables = TablesOf(whats)
         /\ cursor = Bottom(whats)
         /\ arrived = Len(whats)
  BY DEF Init
<1> DEFINE n == Len(whats)
<1>2. whats \in Seq(Whats) /\ n \in 0 .. MaxItems /\ DOMAIN whats = 1 .. n
  <2>1. PICK m \in 0 .. MaxHistory : whats \in [1 .. m -> Whats]
    BY DEF SeqOf
  <2>2. m \in Nat /\ m \in 0 .. MaxItems
    BY TuiAssumption
  <2> QED BY <2>1, <2>2
<1>3. \A i \in 1 .. n : Item(i, whats[i]) \in Items
  <2> SUFFICES ASSUME NEW i \in 1 .. n PROVE Item(i, whats[i]) \in Items
    OBVIOUS
  <2>1. i \in 1 .. MaxItems /\ whats[i] \in Whats
    BY <1>2, TuiAssumption
  <2> QED BY <2>1 DEF Item, Items
<1>4. /\ allEvents \in Seq(Items) /\ Len(allEvents) = n
      /\ \A i \in 1 .. n : allEvents[i] = Item(i, whats[i])
  <2>1. allEvents = [i \in 1 .. n |-> Item(i, whats[i])] /\ n \in Nat
    BY <1>1, <1>2, TuiAssumption
  <2> HIDE DEF n
  <2> QED BY <2>1, <1>3
<1>5. tables \in Seq(Tables) /\ IsInjective(tables)
  BY <1>1, <1>2, TablesListed
<1>6. active = [t \in ToSet(tables) |-> TRUE] /\ pending = <<>>
  BY DEF Init
<1>7. Shape
  <2>1. active \in [ToSet(tables) -> BOOLEAN]
    BY <1>6
  <2>2. pending \in Seq(Items)
    BY <1>6
  <2> QED BY <1>1, <1>2, <1>4, <1>5, <2>1, <2>2 DEF Shape
<1>8. Held = allEvents
  BY <1>4, <1>6, ConcatEmptySeq DEF Held
<1>9. Latest
  <2>1. \A i \in 1 .. n : Held[i].id = i
    BY <1>4, <1>8, ItemFields
  <2>2. DOMAIN Held = 1 .. n /\ Len(Held) = n /\ arrived = n /\ n \in Nat
    BY <1>1, <1>2, <1>4, <1>8
  <2> HIDE DEF n
  <2> QED BY <2>1, <2>2 DEF Latest
<1>10. ASSUME NEW i \in 1 .. n, IsDBEvent(allEvents[i])
       PROVE  Contains(tables, allEvents[i].what)
  <2>1. allEvents[i].what = whats[i]
    BY <1>4, ItemFields
  <2>2. whats[i] \in Tables
    BY <1>10, <2>1 DEF IsDBEvent
  <2> QED BY <1>1, <1>2, <2>1, <2>2, TablesListed
<1>11. HiddenOnlyByFilter
  BY <1>4, <1>8, <1>10 DEF HiddenOnlyByFilter
<1>12. Visible = allEvents
  <2>1. ASSUME NEW i \in 1 .. Len(allEvents)
        PROVE  Passes(allEvents[i], active)
    <3> SUFFICES ASSUME IsDBEvent(allEvents[i])
                 PROVE  allEvents[i].what \in ToSet(tables)
      BY <1>6 DEF Passes
    <3>1. Contains(tables, allEvents[i].what)
      BY <1>4, <1>10
    <3> QED BY <1>5, <3>1 DEF Contains, ToSet
  <2> QED BY <1>4, <2>1, FilterNone DEF Visible
<1>13. cursor \in 0 .. Bottom(Visible)
  <2>1. Bottom(Visible) = cursor
    <3>1. whats = <<>> <=> n = 0
      BY <1>2
    <3>2. allEvents = <<>> <=> n = 0
      BY <1>4
    <3> QED BY <1>1, <1>4, <1>12, <3>1, <3>2 DEF Bottom
  <2>2. cursor \in Nat
    BY <1>1, <1>2, TuiAssumption DEF Bottom
  <2> QED BY <2>1, <2>2
<1>14. filterCursor \in 0 .. Bottom(tables)
  <2>1. filterCursor = 0
    BY DEF Init
  <2>2. Bottom(tables) \in Nat
    BY <1>5 DEF Bottom
  <2> QED BY <2>1, <2>2
<1>15. Flags
  BY DEF Init, Flags
<1>16. Waits
  BY <1>6 DEF Waits
<1> QED BY <1>7, <1>9, <1>11, <1>13, <1>14, <1>15, <1>16 DEF IInv, FeedInv, IndexesInRange
------------------------------------------------------------------------------
(* The steps: each keeps the invariant, and removes only what the user meant. *)

\* Most keys move a cursor or change a mode.
LEMMA Moves ==
    ASSUME IInv, UNCHANGED <<allEvents, pending, tables, active, arrived>>,
           cursor' \in 0 .. Bottom(Visible), filterCursor' \in 0 .. Bottom(tables),
           Flags', Waits'
    PROVE  IInv' /\ UserRemoves
<1>1. Held' = Held /\ Visible' = Visible
  BY DEF Held, Visible
<1>2. Len(Held) \in Nat
  BY HeldLen DEF IInv, FeedInv
<1>3. UserRemoves
  BY <1>1, <1>2 DEF UserRemoves
<1>4. Shape'
  BY DEF IInv, FeedInv, Shape
<1>5. Latest'
  BY <1>1 DEF IInv, FeedInv, Latest
<1>6. HiddenOnlyByFilter'
  BY <1>1 DEF IInv, FeedInv, HiddenOnlyByFilter
<1>7. IndexesInRange'
  BY <1>1 DEF IndexesInRange
<1> QED BY <1>3, <1>4, <1>5, <1>6, <1>7 DEF IInv, FeedInv

\* What the moves above have in common, and that the view can be walked in.
LEMMA ViewFacts ==
    ASSUME IInv
    PROVE  /\ Visible \in Seq(Items) /\ Len(Visible) \in Nat
           /\ Bottom(Visible) \in Nat /\ Bottom(tables) \in Nat
           /\ Len(Visible) - 1 <= Bottom(Visible)
           /\ tables \in Seq(Tables) /\ Len(tables) \in Nat
           /\ Len(tables) - 1 <= Bottom(tables)
<1>1. Visible \in Seq(Items) /\ Len(Visible) \in Nat
  <2>1. Visible \in Seq(Items)
    BY ViewLen DEF IInv
  <2> HIDE DEF Visible
  <2> QED BY <2>1
<1>2. tables \in Seq(Tables) /\ Len(tables) \in Nat
  BY DEF IInv, FeedInv, Shape
<1>3. Bottom(Visible) \in Nat /\ Len(Visible) - 1 <= Bottom(Visible)
  <2> HIDE DEF Visible
  <2> QED BY <1>1 DEF Bottom
<1>4. Bottom(tables) \in Nat /\ Len(tables) - 1 <= Bottom(tables)
  BY <1>2 DEF Bottom
<1> QED BY <1>1, <1>2, <1>3, <1>4

LEMMA FeedKeys ==
    ASSUME IInv,
           \/ Down \/ Up \/ Oldest \/ Newest \/ Expand \/ PreviousMarker \/ NextMarker
           \/ ToFilter \/ AskClear \/ Help
    PROVE  IInv' /\ UserRemoves
<1> USE DEF IInv, Flags, IndexesInRange, FeedInv, Waits
<1>0. cursor \in 0 .. Bottom(Visible) /\ filterCursor \in 0 .. Bottom(tables)
  OBVIOUS
<1>1. CASE Down
  <2>1. cursor' \in 0 .. Bottom(Visible)
    BY <1>0, <1>1, ViewFacts DEF Down, CursorTo
  <2> QED BY <1>0, <1>1, <2>1, Moves DEF Down, CursorTo, restOfFeed, filterVars, modeVars
<1>2. CASE Up
  <2>1. cursor' \in 0 .. Bottom(Visible)
    BY <1>0, <1>2, ViewFacts DEF Up, CursorTo
  <2> QED BY <1>0, <1>2, <2>1, Moves DEF Up, CursorTo, restOfFeed, filterVars, modeVars
<1>3. CASE Oldest
  <2>1. cursor' \in 0 .. Bottom(Visible)
    BY <1>0, <1>3, ViewFacts DEF Oldest, CursorTo
  <2> QED BY <1>0, <1>3, <2>1, Moves DEF Oldest, CursorTo, restOfFeed, filterVars, modeVars
<1>4. CASE Newest
  <2>1. cursor' \in 0 .. Bottom(Visible)
    BY <1>0, <1>4, ViewFacts DEF Newest, CursorTo
  <2> QED BY <1>0, <1>4, <2>1, Moves DEF Newest, CursorTo, restOfFeed, filterVars, modeVars
<1>5. CASE Expand
  <2> QED BY <1>0, <1>5, Moves DEF Expand, InFeed, restOfFeed, filterVars, modeVars
<1>6. ASSUME NEW is \in SUBSET Nat, NEW i, JumpTo(MarkersAt(is), i)
      PROVE  IInv' /\ UserRemoves
  <2>1. cursor' \in 0 .. Bottom(Visible)
    <3>1. i \in is /\ i + 1 \in DOMAIN Visible /\ cursor' = i
      BY <1>6 DEF JumpTo, MarkersAt, CursorTo
    <3>2. DOMAIN Visible = 1 .. Len(Visible)
      BY ViewFacts
    <3> QED BY <3>1, <3>2, ViewFacts
  <2> QED BY <1>0, <1>6, <2>1, Moves DEF JumpTo, CursorTo, restOfFeed, filterVars, modeVars
<1>7. CASE PreviousMarker
  <2>1. 0 .. cursor - 1 \in SUBSET Nat
    OBVIOUS
  <2> QED BY <1>6, <1>7, <2>1 DEF PreviousMarker
<1>8. CASE NextMarker
  <2>1. cursor + 1 .. Len(Visible) - 1 \in SUBSET Nat
    BY <1>0, ViewFacts
  <2> QED BY <1>6, <1>8, <2>1 DEF NextMarker
<1>9. CASE ToFilter
  <2>1. filterCursor' \in 0 .. Bottom(tables)
    BY <1>9, ViewFacts DEF ToFilter
  <2> QED BY <1>0, <1>9, <2>1, Moves DEF ToFilter, feedVars, modeVars
<1>10. CASE AskClear
  BY <1>0, <1>10, Moves DEF AskClear, feedVars, filterVars
<1>11. CASE Help
  BY <1>0, <1>11, Moves DEF Help, feedVars, filterVars
<1> QED BY <1>1, <1>2, <1>3, <1>4, <1>5, <1>7, <1>8, <1>9, <1>10, <1>11

LEMMA FilterKeys ==
    ASSUME IInv, ToFeed \/ FilterDown \/ FilterUp \/ Quit \/ CloseHelp \/ AnswerClear(FALSE) \/ UNCHANGED vars
    PROVE  IInv' /\ UserRemoves
<1> USE DEF IInv, Flags, IndexesInRange, FeedInv, Waits
<1>0. cursor \in 0 .. Bottom(Visible) /\ filterCursor \in 0 .. Bottom(tables)
  OBVIOUS
<1>1. CASE ToFeed
  BY <1>0, <1>1, Moves DEF ToFeed, feedVars, modeVars
<1>2. CASE FilterDown
  <2>1. filterCursor' \in 0 .. Bottom(tables)
    BY <1>0, <1>2, ViewFacts DEF FilterDown
  <2> QED BY <1>0, <1>2, <2>1, Moves DEF FilterDown, feedVars, modeVars
<1>3. CASE FilterUp
  <2>1. filterCursor' \in 0 .. Bottom(tables)
    BY <1>0, <1>3, ViewFacts DEF FilterUp
  <2> QED BY <1>0, <1>3, <2>1, Moves DEF FilterUp, feedVars, modeVars
<1>4. CASE Quit
  BY <1>0, <1>4, Moves DEF Quit, feedVars, filterVars
<1>5. CASE CloseHelp
  BY <1>0, <1>5, Moves DEF CloseHelp, feedVars, filterVars
<1>6. CASE AnswerClear(FALSE)
  BY <1>0, <1>6, Moves DEF AnswerClear, filterVars
<1>7. CASE UNCHANGED vars
  BY <1>0, <1>7, Moves DEF vars, feedVars, filterVars, modeVars
<1> QED BY <1>1, <1>2, <1>3, <1>4, <1>5, <1>6, <1>7

\* 'c', confirmed.
LEMMA Clears ==
    ASSUME IInv, AnswerClear(TRUE)
    PROVE  IInv' /\ UserRemoves
<1>1. /\ confirmClear /\ allEvents' = <<>> /\ pending' = <<>> /\ cursor' = 0
      /\ UNCHANGED <<tables, active, filterCursor, arrived>>
  BY DEF AnswerClear, filterVars
<1>2. Held' = <<>>
  BY <1>1, ConcatEmptySeq DEF Held
<1>3. Visible' = FilterEvents(allEvents', active')
  BY DEF Visible
<1>4. Shape' /\ Latest' /\ HiddenOnlyByFilter' /\ Waits'
  BY <1>1, <1>2 DEF IInv, FeedInv, Shape, Latest, HiddenOnlyByFilter, Waits
<1>5. Flags'
  BY DEF AnswerClear, filterVars, IInv, Flags
<1>6. Visible' \in Seq(Items)
  BY <1>3, <1>4, FilterLen DEF Shape
<1>7. Bottom(Visible)' \in Nat
  <2> DEFINE v == Visible'
  <2>1. v \in Seq(Items) /\ Len(v) \in Nat
    BY <1>6
  <2> HIDE DEF v
  <2>2. Bottom(v) \in Nat
    BY <2>1 DEF Bottom
  <2> QED BY <2>2 DEF v
<1>8. IndexesInRange'
  BY <1>1, <1>7 DEF IInv, IndexesInRange
<1> QED BY <1>1, <1>2, <1>4, <1>5, <1>8 DEF IInv, FeedInv, UserRemoves

LEMMA BottomIsNat == ASSUME NEW T, NEW s \in Seq(T) PROVE Bottom(s) \in Nat /\ Len(s) - 1 <= Bottom(s)
BY DEF Bottom

\* ' ' in the sidebar: the cursor is clamped to what is still shown.
LEMMA Toggles ==
    ASSUME IInv, ToggleTable
    PROVE  IInv' /\ UserRemoves
<1>1. /\ UNCHANGED <<allEvents, pending, expanded, paused, tables, focus, filterCursor, modeVars, arrived>>
      /\ active' = Toggled
  BY DEF ToggleTable
<1>2. Held' = Held
  BY <1>1 DEF Held
<1>3. Shape'
  <2>1. Toggled \in [ToSet(tables) -> BOOLEAN]
    BY DEF IInv, FeedInv, Shape, Toggled
  <2> QED BY <1>1, <2>1 DEF IInv, FeedInv, Shape
<1>4. Latest' /\ HiddenOnlyByFilter' /\ Waits' /\ Flags'
  BY <1>1, <1>2 DEF IInv, FeedInv, Latest, HiddenOnlyByFilter, Waits, Flags, modeVars
<1>5. cursor' \in 0 .. Bottom(Visible)'
  <2> DEFINE v == FilterEvents(allEvents, Toggled)
  <2>1. Visible' = v
    BY <1>1 DEF Visible
  <2>2. v \in Seq(Items)
    BY FilterLen DEF IInv, FeedInv, Shape
  <2>3. cursor' = IF cursor >= Len(v) THEN Bottom(v) ELSE cursor
    BY DEF ToggleTable
  <2>4. cursor \in Nat
    BY ViewFacts DEF IInv, IndexesInRange
  <2> HIDE DEF v
  <2>5. cursor' \in 0 .. Bottom(v)
    BY <2>2, <2>3, <2>4, BottomIsNat
  <2> QED BY <2>1, <2>5
<1>6. IndexesInRange'
  BY <1>1, <1>5 DEF IInv, IndexesInRange
<1>7. Len(Held) \in Nat
  BY HeldLen DEF IInv, FeedInv
<1> QED BY <1>2, <1>3, <1>4, <1>6, <1>7 DEF IInv, FeedInv, UserRemoves

\* ' ' in the feed: what waited is put behind what was there.
LEMMA Pauses ==
    ASSUME IInv, Pause
    PROVE  IInv' /\ UserRemoves
<1>1. UNCHANGED <<expanded, filterVars, modeVars, arrived>> /\ paused' = ~paused
  BY DEF Pause
<1>2. Flags'
  BY <1>1 DEF IInv, Flags, filterVars, modeVars
<1>3. CASE ~(paused /\ pending # <<>>)
  <2>1. UNCHANGED <<allEvents, pending, cursor>>
    BY <1>3 DEF Pause
  <2>2. Waits'
    BY <1>1, <1>3, <2>1 DEF IInv, Flags, Waits
  <2> QED BY <1>1, <1>2, <2>1, <2>2, Moves DEF IInv, IndexesInRange, filterVars
<1>4. CASE paused /\ pending # <<>>
  <2>1. /\ allEvents' = allEvents \o pending /\ pending' = <<>>
        /\ cursor' = Bottom(FilterEvents(allEvents', active))
        /\ UNCHANGED <<tables, active, filterCursor, arrived>>
    BY <1>1, <1>4 DEF Pause, filterVars
  <2>2. allEvents' \in Seq(Items) /\ Held \in Seq(Items) /\ Len(Held) \in Nat
    BY <2>1, HeldLen DEF IInv, FeedInv, Held
  <2>3. Held' = Held
    BY <2>1, <2>2, ConcatEmptySeq DEF Held
  <2>4. Shape' /\ Latest' /\ HiddenOnlyByFilter' /\ Waits'
    BY <2>1, <2>2, <2>3 DEF IInv, FeedInv, Shape, Latest, HiddenOnlyByFilter, Waits
  <2>5. cursor' \in 0 .. Bottom(Visible)'
    <3> DEFINE v == FilterEvents(allEvents', active)
    <3>1. v \in Seq(Items)
      BY <2>2, FilterLen
    <3>2. Visible' = v
      BY <2>1 DEF Visible
    <3> HIDE DEF v
    <3>3. Bottom(v) \in 0 .. Bottom(v)
      BY <3>1, BottomIsNat
    <3> QED BY <2>1, <3>2, <3>3 DEF v
  <2>6. IndexesInRange'
    BY <2>1, <2>5 DEF IInv, IndexesInRange
  <2> QED BY <1>2, <2>2, <2>3, <2>4, <2>6 DEF IInv, FeedInv, UserRemoves
<1> QED BY <1>3, <1>4

\* 'M': what came before the last marker goes, the marker stays.
LEMMA Drops ==
    ASSUME IInv, DropBeforeMarker
    PROVE  IInv' /\ UserRemoves
<1> DEFINE m == LastMarker
           n == Len(allEvents)
           rest == SubSeq(allEvents, m, n)
<1>1. /\ allEvents' = rest /\ cursor' = 0 /\ expanded' = FALSE
      /\ UNCHANGED <<pending, paused, filterVars, modeVars, arrived>>
      /\ m > 1
  BY DEF DropBeforeMarker
<1>2. allEvents \in Seq(Items) /\ pending \in Seq(Items) /\ n \in Nat /\ DOMAIN allEvents = 1 .. n
  BY DEF IInv, FeedInv, Shape
<1>3. m \in 1 .. n /\ IsMarker(allEvents[m])
  <2> DEFINE S == {i \in DOMAIN allEvents : IsMarker(allEvents[i])} \cup {0}
  <2>1. S \in SUBSET (0 .. n) /\ S # {}
    BY <1>2
  <2>2. Max(S) \in S
    <3> HIDE DEF S, n
    <3> QED BY <1>2, <2>1, MaxOf
  <2> QED BY <1>1, <2>2 DEF LastMarker
<1> HIDE DEF m
<1>4. /\ rest \in Seq(Items) /\ Len(rest) = n - m + 1
      /\ \A i \in 1 .. n - m + 1 : rest[i] = allEvents[m + i - 1]
  <2>1. m \in Int /\ n \in Int /\ \A i \in m .. n : allEvents[i] \in Items
    BY <1>2, <1>3
  <2>2. m <= n
    BY <1>2, <1>3
  <2> HIDE DEF n
  <2> QED BY <2>1, <2>2, SubSeqProperties
<1> HIDE DEF rest
<1> DEFINE k == Len(pending)
<1>5. /\ Held \in Seq(Items) /\ Len(Held) = n + k /\ k \in Nat
      /\ \A i \in 1 .. n : Held[i] = allEvents[i]
      /\ \A i \in 1 .. k : Held[n + i] = pending[i]
  BY HeldLen DEF IInv, FeedInv
<1>6. /\ Held' \in Seq(Items) /\ Len(Held') = n - m + 1 + k
      /\ \A i \in 1 .. n - m + 1 : Held'[i] = rest[i]
      /\ \A i \in 1 .. k : Held'[n - m + 1 + i] = pending[i]
  <2>1. Held' = rest \o pending
    BY <1>1 DEF Held
  <2> DEFINE h == rest \o pending
  <2>2. /\ h \in Seq(Items) /\ Len(h) = Len(rest) + k
        /\ \A i \in 1 .. Len(rest) : h[i] = rest[i]
        /\ \A i \in 1 .. k : h[Len(rest) + i] = pending[i]
    BY <1>2, <1>4, Joined
  <2> HIDE DEF h
  <2>3. /\ h \in Seq(Items) /\ Len(h) = n - m + 1 + k
        /\ \A i \in 1 .. n - m + 1 : h[i] = rest[i]
        /\ \A i \in 1 .. k : h[n - m + 1 + i] = pending[i]
    BY <1>4, <2>2
  <2>4. Held' = h
    BY <2>1 DEF h
  <2> QED BY <2>3, <2>4
<1> HIDE DEF n, k
<1>7. \A i \in 1 .. n - m + 1 + k : m - 1 + i \in 1 .. n + k /\ Held'[i] = Held[m - 1 + i]
  <2> SUFFICES ASSUME NEW i \in 1 .. n - m + 1 + k
               PROVE  m - 1 + i \in 1 .. n + k /\ Held'[i] = Held[m - 1 + i]
    OBVIOUS
  <2>1. CASE i <= n - m + 1
    <3>1. i \in 1 .. n - m + 1 /\ m - 1 + i \in 1 .. n /\ m + i - 1 = m - 1 + i /\ m - 1 + i \in 1 .. n + k
      BY <1>2, <1>3, <1>5, <2>1
    <3> QED BY <1>4, <1>5, <1>6, <3>1
  <2>2. CASE i > n - m + 1
    <3> DEFINE j == i - (n - m + 1)
    <3>1. j \in 1 .. k /\ i = n - m + 1 + j /\ m - 1 + i = n + j /\ m - 1 + i \in 1 .. n + k
      BY <1>2, <1>3, <1>5, <2>2
    <3>2. Held'[i] = pending[j] /\ Held[n + j] = pending[j]
      BY <1>5, <1>6, <3>1
    <3> QED BY <3>1, <3>2
  <2> QED BY <1>2, <1>3, <1>5, <2>1, <2>2
<1>8. DOMAIN Held = 1 .. n + k /\ DOMAIN Held' = 1 .. n - m + 1 + k
  BY <1>5, <1>6
<1>9. Shape' /\ Waits' /\ Flags'
  BY <1>1, <1>4 DEF IInv, FeedInv, Shape, Waits, Flags, filterVars, modeVars
<1>10. Latest'
  <2> SUFFICES ASSUME NEW i \in 1 .. n - m + 1 + k
               PROVE  Held'[i].id = arrived - (n - m + 1 + k) + i
    BY <1>1, <1>6, <1>8 DEF Latest
  <2>1. Held[m - 1 + i].id = arrived - (n + k) + (m - 1 + i)
    BY <1>5, <1>7, <1>8 DEF IInv, FeedInv, Latest
  <2>2. arrived \in Int /\ n \in Int /\ m \in Int /\ k \in Int /\ i \in Int
    BY <1>2, <1>3, <1>5 DEF IInv, FeedInv, Shape
  <2> QED BY <1>7, <2>1, <2>2
<1>11. HiddenOnlyByFilter'
  <2>1. tables' = tables
    BY <1>1 DEF filterVars
  <2> QED BY <1>7, <1>8, <2>1 DEF IInv, FeedInv, HiddenOnlyByFilter
<1>12. UserRemoves
  <2>1. 1 \in 1 .. n - m + 1 /\ 1 \in 1 .. n - m + 1 + k /\ m + 1 - 1 = m
    BY <1>2, <1>3, <1>5
  <2>2. Held'[1] = allEvents[m]
    BY <1>4, <1>6, <2>1
  <2>3. Held' # <<>>
    <3> DEFINE h == Held'
    <3>1. DOMAIN h = 1 .. n - m + 1 + k
      BY <1>8
    <3> HIDE DEF h
    <3>2. 1 \in DOMAIN h
      BY <2>1, <3>1
    <3>3. h # <<>>
      BY <3>2
    <3> QED BY <3>3 DEF h
  <2> QED BY <1>1, <1>3, <2>2, <2>3 DEF UserRemoves
<1>13. IndexesInRange'
  <2>1. Visible' \in Seq(Items)
    BY <1>9, FilterLen DEF Visible, Shape
  <2>2. Bottom(Visible)' \in Nat
    <3> DEFINE v == Visible'
    <3> HIDE DEF v
    <3>1. Bottom(v) \in Nat
      BY <2>1, BottomIsNat DEF v
    <3> QED BY <3>1 DEF v
  <2> QED BY <1>1, <2>2 DEF IInv, IndexesInRange, filterVars
<1> QED BY <1>9, <1>10, <1>11, <1>12, <1>13 DEF IInv, FeedInv

\* An event: shown at once, or put behind while the feed is paused; a table seen
\* for the first time is listed and switched on either way.
LEMMA Arrivals ==
    ASSUME IInv, NEW w \in Whats, EventArrives(Item(arrived + 1, w))
    PROVE  IInv' /\ UserRemoves
<1> DEFINE e == Item(arrived + 1, w)
           n == Len(Held)
<1>1. /\ arrived < MaxItems /\ arrived' = arrived + 1
      /\ UNCHANGED <<expanded, paused, focus, filterCursor, modeVars>>
      /\ Lists(e)
  BY DEF EventArrives, Arrives
<1>2. e \in Items /\ e.what = w /\ e.id = arrived + 1
  <2>1. arrived + 1 \in 1 .. MaxItems
    BY <1>1, TuiAssumption DEF IInv, FeedInv, Shape
  <2> QED BY <2>1, ItemFields DEF Item, Items
<1> HIDE DEF e
<1>3. /\ allEvents \in Seq(Items) /\ pending \in Seq(Items) /\ arrived \in Nat
      /\ tables \in Seq(Tables) /\ IsInjective(tables)
      /\ active \in [ToSet(tables) -> BOOLEAN]
  BY DEF IInv, FeedInv, Shape
<1>4. /\ paused => /\ pending' = Append(pending, e) /\ allEvents' = allEvents /\ cursor' = cursor
      /\ ~paused => /\ allEvents' = Append(allEvents, e) /\ pending' = pending /\ pending = <<>> /\ Scrolls
  <2>1. EventArrives(e)
    BY DEF e
  <2> QED BY <2>1 DEF EventArrives, IInv, FeedInv, Waits
<1>5. /\ tables' \in Seq(Tables) /\ IsInjective(tables') /\ Len(tables') >= Len(tables)
      /\ \A x : Contains(tables, x) => Contains(tables', x)
      /\ active' \in [ToSet(tables') -> BOOLEAN]
      /\ w \in Tables => Contains(tables', w)
  <2>1. CASE w \in Tables
    <3>1. tables' = AddTable(tables, w) /\ active' = Seen(active, w)
      BY <1>1, <1>2, <2>1 DEF Lists, IsDBEvent
    <3>2. /\ tables' \in Seq(Tables) /\ IsInjective(tables') /\ Len(tables') >= Len(tables)
          /\ ToSet(tables') = ToSet(tables) \cup {w}
          /\ Contains(tables', w)
          /\ \A x : Contains(tables, x) => Contains(tables', x)
      BY <1>3, <2>1, <3>1, AddTableAdds
    <3>3. Seen(active, w) \in [ToSet(tables) \cup {w} -> BOOLEAN]
      BY <1>3 DEF Seen
    <3> QED BY <3>1, <3>2, <3>3
  <2>2. CASE w \notin Tables
    <3>1. UNCHANGED <<tables, active>>
      BY <1>1, <1>2, <2>2 DEF Lists, IsDBEvent
    <3>2. Len(tables) \in Nat
      BY <1>3
    <3> QED BY <1>3, <2>2, <3>1, <3>2
  <2> QED BY <2>1, <2>2
<1>6. Shape'
  <2>1. Append(allEvents, e) \in Seq(Items) /\ Append(pending, e) \in Seq(Items)
    BY <1>2, <1>3, AppendProperties
  <2>2. arrived' \in 0 .. MaxItems
    BY <1>1, <1>3, TuiAssumption
  <2>3. allEvents' \in Seq(Items) /\ pending' \in Seq(Items)
    BY <1>3, <1>4, <2>1
  <2> QED BY <1>5, <2>2, <2>3 DEF Shape
<1>7. Held \in Seq(Items) /\ n \in Nat /\ DOMAIN Held = 1 .. n
  BY HeldLen DEF IInv, FeedInv
<1>8. Held' = Append(Held, e)
  <2>1. CASE paused
    <3>1. Held' = allEvents \o Append(pending, e)
      BY <1>4, <2>1 DEF Held
    <3>2. Append(pending, e) = pending \o <<e>>
      BY <1>2, <1>3, AppendIsConcat
    <3>3. <<e>> \in Seq(Items)
      BY <1>2
    <3>4. (allEvents \o pending) \o <<e>> = allEvents \o (pending \o <<e>>)
      BY <1>3, <3>3, ConcatAssociative
    <3>5. Append(Held, e) = Held \o <<e>>
      BY <1>2, <1>7, AppendIsConcat
    <3> QED BY <3>1, <3>2, <3>4, <3>5 DEF Held
  <2>2. CASE ~paused
    <3>1. Held = allEvents
      BY <1>3, <1>4, <2>2, ConcatEmptySeq DEF Held
    <3>2. Append(allEvents, e) \in Seq(Items)
      BY <1>2, <1>3, AppendProperties
    <3>3. Held' = Append(allEvents, e)
      BY <1>4, <2>2, <3>2, ConcatEmptySeq DEF Held
    <3> QED BY <3>1, <3>3
  <2> QED BY <2>1, <2>2
<1> HIDE DEF n
<1>9. /\ Len(Held') = n + 1 /\ DOMAIN Held' = 1 .. n + 1
      /\ Held'[n + 1] = e /\ \A i \in 1 .. n : Held'[i] = Held[i]
  <2> DEFINE h == Append(Held, e)
  <2>1. /\ h \in Seq(Items) /\ Len(h) = n + 1
        /\ h[n + 1] = e /\ \A i \in 1 .. n : h[i] = Held[i]
    BY <1>2, <1>7, AppendProperties DEF n
  <2> HIDE DEF h
  <2>2. DOMAIN h = 1 .. n + 1
    BY <2>1
  <2> QED BY <1>8, <2>1, <2>2 DEF h
<1>10. Latest'
  <2> SUFFICES ASSUME NEW i \in 1 .. n + 1
               PROVE  Held'[i].id = arrived + 1 - (n + 1) + i
    <3>1. arrived' - Len(Held') = arrived + 1 - (n + 1)
      <4>1. arrived' = arrived + 1
        BY <1>1
      <4>2. Len(Held') = n + 1
        BY <1>9
      <4>3. arrived \in Nat /\ n \in Nat
        BY <1>3, <1>7
      <4> QED BY <4>1, <4>2, <4>3
    <3> QED BY <1>9, <3>1 DEF Latest
  <2>1. CASE i = n + 1
    BY <1>2, <1>3, <1>7, <1>9, <2>1
  <2>2. CASE i \in 1 .. n
    <3>1. Held[i].id = arrived - n + i
      BY <1>7, <2>2 DEF IInv, FeedInv, Latest, n
    <3> QED BY <1>3, <1>7, <1>9, <2>2, <3>1
  <2> QED BY <1>7, <2>1, <2>2
<1>11. HiddenOnlyByFilter'
  <2> SUFFICES ASSUME NEW i \in 1 .. n + 1, IsDBEvent(Held'[i])
               PROVE  Contains(tables', Held'[i].what)
    BY <1>9 DEF HiddenOnlyByFilter, IsDBEvent
  <2>1. CASE i = n + 1
    BY <1>2, <1>5, <1>9, <2>1 DEF IsDBEvent
  <2>2. CASE i \in 1 .. n
    BY <1>5, <1>7, <1>9, <2>2 DEF IInv, FeedInv, HiddenOnlyByFilter
  <2> QED BY <1>7, <2>1, <2>2
<1>12. Waits' /\ Flags'
  BY <1>1, <1>4 DEF IInv, FeedInv, Waits, Flags, modeVars
<1>13. ASSUME paused
       PROVE  cursor' \in 0 .. Bottom(Visible)'
  <2>1. Visible' = Visible
    <3>1. \A i \in 1 .. Len(allEvents) :
             IsDBEvent(allEvents[i]) => allEvents[i].what \in DOMAIN active
      <4> SUFFICES ASSUME NEW i \in 1 .. Len(allEvents), IsDBEvent(allEvents[i])
                   PROVE  allEvents[i].what \in DOMAIN active
        OBVIOUS
      <4>1. Held[i] = allEvents[i] /\ i \in DOMAIN Held
        BY <1>7, HeldLen DEF IInv, FeedInv, n
      <4>2. Contains(tables, allEvents[i].what)
        BY <4>1 DEF IInv, FeedInv, HiddenOnlyByFilter
      <4> QED BY <1>3, <4>2 DEF Contains, ToSet
    <3>2. CASE w \notin Tables
      BY <1>1, <1>2, <1>4, <1>13, <3>2 DEF Lists, IsDBEvent, Visible
    <3>3. CASE w \in Tables
      <4>1. active' = Seen(active, w) /\ allEvents' = allEvents
        BY <1>1, <1>2, <1>4, <1>13, <3>3 DEF Lists, IsDBEvent
      <4>2. DOMAIN active' # {} /\ \A x \in DOMAIN active : x \in DOMAIN active' /\ active'[x] = active[x]
        BY <4>1 DEF Seen
      <4>3. CASE DOMAIN active = {}
        <5>1. \A i \in 1 .. Len(allEvents) : Passes(allEvents[i], active) /\ Passes(allEvents[i], active')
          BY <3>1, <4>3 DEF Passes
        <5>2. FilterEvents(allEvents, active) = allEvents /\ FilterEvents(allEvents, active') = allEvents
          BY <1>3, <5>1, FilterNone
        <5> QED BY <4>1, <5>2 DEF Visible
      <4>4. CASE DOMAIN active # {}
        <5>1. \A i \in 1 .. Len(allEvents) : Passes(allEvents[i], active) <=> Passes(allEvents[i], active')
          BY <3>1, <4>2 DEF Passes
        <5>2. FilterEvents(allEvents, active) = FilterEvents(allEvents, active')
          BY <1>3, <4>2, <4>4, <5>1, FilterSame
        <5> QED BY <4>1, <5>2 DEF Visible
      <4> QED BY <4>3, <4>4
    <3> QED BY <3>2, <3>3
  <2> QED BY <1>4, <1>13, <2>1 DEF IInv, IndexesInRange
<1>14. ASSUME ~paused
       PROVE  cursor' \in 0 .. Bottom(Visible)'
  <2> DEFINE v == FilterEvents(allEvents', active')
  <2>1. Visible' = v
    BY DEF Visible
  <2>2. v \in Seq(Items)
    BY <1>6, FilterLen DEF Shape
  <2>3. cursor' = IF cursor >= Len(v) - 2 THEN (IF Len(v) = 0 THEN 0 ELSE Len(v) - 1) ELSE cursor
    BY <1>4, <1>14 DEF Scrolls
  <2>4. cursor \in Nat
    BY ViewFacts DEF IInv, IndexesInRange
  <2> HIDE DEF v
  <2>5. cursor' \in 0 .. Bottom(v)
    BY <2>2, <2>3, <2>4 DEF Bottom
  <2> QED BY <2>1, <2>5
<1>15. cursor' \in 0 .. Bottom(Visible)'
  BY <1>13, <1>14 DEF IInv, IndexesInRange
<1>16. filterCursor' \in 0 .. Bottom(tables)'
  <2>1. filterCursor' = filterCursor /\ filterCursor \in 0 .. Bottom(tables)
    BY <1>1 DEF IInv, IndexesInRange
  <2>2. Bottom(tables) <= Bottom(tables') /\ Bottom(tables) \in Nat /\ Bottom(tables') \in Nat
    BY <1>3, <1>5 DEF Bottom
  <2> QED BY <2>1, <2>2
<1>17. UserRemoves
  BY <1>7, <1>9 DEF UserRemoves, n
<1> QED BY <1>6, <1>10, <1>11, <1>12, <1>15, <1>16, <1>17 DEF IInv, FeedInv, IndexesInRange
------------------------------------------------------------------------------
LEMMA NextIInv == IInv /\ [Next]_vars => IInv' /\ Latest' /\ UserRemoves
<1> SUFFICES ASSUME IInv, [Next]_vars PROVE IInv' /\ UserRemoves
  BY DEF IInv, FeedInv
<1>1. ASSUME NEW w \in Whats, EventArrives(Item(arrived + 1, w))
      PROVE  IInv' /\ UserRemoves
  BY <1>1, Arrivals
<1>2. ASSUME NEW yes \in BOOLEAN, AnswerClear(yes)
      PROVE  IInv' /\ UserRemoves
  <2>1. CASE yes = TRUE
    BY <1>2, <2>1, Clears
  <2>2. CASE yes = FALSE
    BY <1>2, <2>2, FilterKeys
  <2> QED BY <2>1, <2>2
<1>3. CASE UpdateFeed
  BY <1>3, FeedKeys, Pauses, Drops DEF UpdateFeed
<1>4. CASE UpdateFilter
  BY <1>4, FilterKeys, Toggles DEF UpdateFilter
<1>5. CASE CloseHelp \/ Quit \/ UNCHANGED vars
  BY <1>5, FilterKeys
<1> QED BY <1>1, <1>2, <1>3, <1>4, <1>5 DEF Next

LEMMA Invariance == Spec => []IInv
BY InitIInv, NextIInv, PTL DEF Spec

\* The model of the UI keeps its types under every sequence of messages.
THEOREM TypeCorrect == Spec => []TypeOK
BY Invariance, IInvIsTyped, PTL

\* Neither cursor ever leaves the list it indexes, whatever is typed and whatever
\* arrives meanwhile (app.go:88-273).
THEOREM CursorsInRange == Spec => []IndexesInRange
<1>1. IInv => IndexesInRange
  BY DEF IInv
<1> QED BY <1>1, Invariance, PTL

\* What a filter hides can be shown again from the sidebar (app.go:100-107).
THEOREM NothingHiddenForGood == Spec => []HiddenOnlyByFilter
<1>1. IInv => HiddenOnlyByFilter
  BY DEF IInv, FeedInv
<1> QED BY <1>1, Invariance, PTL

\* The feed and what waits behind it are at any time the latest items in their
\* order, and an item goes only by a confirmed clear or by M (app.go:109-232).
THEOREM OnlyTheUserRemoves == Spec => HeldIsLatest
<1>1. IInv /\ [Next]_vars => [Latest' /\ UserRemoves]_vars
  BY NextIInv
<1> QED BY <1>1, Invariance, PTL DEF Spec, HeldIsLatest
=============================================================================
