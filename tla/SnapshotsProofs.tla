-------------------------- MODULE SnapshotsProofs ---------------------------
(***************************************************************************)
(* Theorems about Snapshots and SnapshotCompare, for all sets of           *)
(* processes, tables, columns and labels, whatever a table can be and      *)
(* however often it changes.                                               *)
(***************************************************************************)
EXTENDS Snapshots, WellFoundedInduction, TLAPS

(* The comparison. *)

\* Whatever the columns, a change of a column is about it (comparator.go:144-170).
LEMMA DiffOf ==
    ASSUME NEW t, NEW c, NEW a, NEW b
    PROVE  /\ diffColumn(t, c, a, b).table = t
           /\ diffColumn(t, c, a, b).column = c
           /\ diffColumn(t, c, a, b).breaking \in BOOLEAN
           /\ diffColumn(t, c, a, b).breaking <=>
                 b.type # a.type \/ (a.nullable /\ ~b.nullable)
<1>1. CASE a.type # b.type
  BY <1>1 DEF diffColumn, SchemaChange
<1>2. CASE a.type = b.type /\ a.nullable /\ ~b.nullable
  BY <1>2 DEF diffColumn, SchemaChange
<1>3. CASE a.type = b.type /\ ~a.nullable /\ b.nullable
  BY <1>3 DEF diffColumn, SchemaChange
<1>4. CASE a.type = b.type /\ ~(a.nullable /\ ~b.nullable) /\ ~(~a.nullable /\ b.nullable)
  BY <1>4 DEF diffColumn, SchemaChange
<1> QED BY <1>1, <1>2, <1>3, <1>4

\* Within a table (comparator.go:113-141).
LEMMA ColumnsReport ==
    ASSUME NEW t, NEW a, NEW b, NEW c
    PROVE  /\ \A ch \in compareColumns(t, a, b) : ch.table = t /\ ch.column \in DOMAIN a \cup DOMAIN b
           /\ BreakingOf(compareColumns(t, a, b), t, c) <=> Breaks(a, b, c)
           /\ SaysOf(compareColumns(t, a, b), t, c) <=>
                 (c \in DOMAIN a \cup DOMAIN b /\ ~(c \in DOMAIN a \cap DOMAIN b /\ a[c] = b[c]))
<1> DEFINE added   == {SchemaChange("added", t, x, "column added", FALSE) : x \in DOMAIN b \ DOMAIN a}
           removed == {SchemaChange("removed", t, x, "column removed", TRUE) : x \in DOMAIN a \ DOMAIN b}
           both    == {x \in DOMAIN a \cap DOMAIN b : a[x] # b[x]}
           changed == {diffColumn(t, x, a[x], b[x]) : x \in both}
<1>1. compareColumns(t, a, b) = added \cup removed \cup changed
  BY DEF compareColumns
<1>2. \A ch \in added : ch.table = t /\ ch.column \in DOMAIN b \ DOMAIN a /\ ~ch.breaking
  <2> SUFFICES ASSUME NEW ch \in added PROVE ch.table = t /\ ch.column \in DOMAIN b \ DOMAIN a /\ ~ch.breaking
    OBVIOUS
  <2>1. PICK x \in DOMAIN b \ DOMAIN a : ch = SchemaChange("added", t, x, "column added", FALSE)
    OBVIOUS
  <2> QED BY <2>1 DEF SchemaChange
<1>3. \A ch \in removed : ch.table = t /\ ch.column \in DOMAIN a \ DOMAIN b /\ ch.breaking
  <2> SUFFICES ASSUME NEW ch \in removed PROVE ch.table = t /\ ch.column \in DOMAIN a \ DOMAIN b /\ ch.breaking
    OBVIOUS
  <2>1. PICK x \in DOMAIN a \ DOMAIN b : ch = SchemaChange("removed", t, x, "column removed", TRUE)
    OBVIOUS
  <2> QED BY <2>1 DEF SchemaChange
<1>4. \A ch \in changed : /\ ch.table = t /\ ch.column \in both
                          /\ ch.breaking <=> \/ b[ch.column].type # a[ch.column].type
                                             \/ a[ch.column].nullable /\ ~b[ch.column].nullable
  <2>1. \A ch \in changed : \E x \in both : ch = diffColumn(t, x, a[x], b[x])
    OBVIOUS
  <2> HIDE DEF changed
  <2> QED BY <2>1, DiffOf
<1>5. \A x \in DOMAIN b \ DOMAIN a : \E ch \in added : ch.table = t /\ ch.column = x
  <2> SUFFICES ASSUME NEW x \in DOMAIN b \ DOMAIN a
               PROVE  \E ch \in added : ch.table = t /\ ch.column = x
    OBVIOUS
  <2>1. SchemaChange("added", t, x, "column added", FALSE) \in added
    OBVIOUS
  <2> QED BY <2>1 DEF SchemaChange
<1>6. \A x \in DOMAIN a \ DOMAIN b : \E ch \in removed : ch.table = t /\ ch.column = x
  <2> SUFFICES ASSUME NEW x \in DOMAIN a \ DOMAIN b
               PROVE  \E ch \in removed : ch.table = t /\ ch.column = x
    OBVIOUS
  <2>1. SchemaChange("removed", t, x, "column removed", TRUE) \in removed
    OBVIOUS
  <2> QED BY <2>1 DEF SchemaChange
<1>7. \A x \in both : \E ch \in changed : ch.table = t /\ ch.column = x
  <2>1. \A x \in both : diffColumn(t, x, a[x], b[x]) \in changed
    OBVIOUS
  <2> HIDE DEF changed
  <2> QED BY <2>1, DiffOf
<1>8. \A x \in DOMAIN a \cap DOMAIN b :
        b[x].type # a[x].type \/ (a[x].nullable /\ ~b[x].nullable) => x \in both
  OBVIOUS
<1> HIDE DEF added, removed, changed
<1>9. BreakingOf(compareColumns(t, a, b), t, c) <=> Breaks(a, b, c)
  BY <1>1, <1>2, <1>3, <1>4, <1>6, <1>7, <1>8 DEF BreakingOf, Breaks
<1>10. SaysOf(compareColumns(t, a, b), t, c) <=> (c \in DOMAIN b \ DOMAIN a \/ c \in DOMAIN a \ DOMAIN b \/ c \in both)
  BY <1>1, <1>2, <1>3, <1>4, <1>5, <1>6, <1>7 DEF SaysOf
<1> QED BY <1>1, <1>2, <1>3, <1>4, <1>9, <1>10

\* The report of two schemas, of any number of tables and columns: it flags as
\* breaking exactly what breaks a caller, and mentions exactly what changed
\* (comparator.go:88-170).
THEOREM SchemaReport ==
    ASSUME NEW a, NEW b, NEW t, NEW c,
           \A x \in DOMAIN a : Whole \notin DOMAIN a[x],
           \A x \in DOMAIN b : Whole \notin DOMAIN b[x]
    PROVE  /\ SaysOf(compareSchema(a, b), t, Whole) <=> (t \in DOMAIN a) # (t \in DOMAIN b)
           /\ BreakingOf(compareSchema(a, b), t, Whole) <=> t \in DOMAIN a \ DOMAIN b
           /\ t \in DOMAIN a \cap DOMAIN b /\ c # Whole =>
                /\ BreakingOf(compareSchema(a, b), t, c) <=> Breaks(a[t], b[t], c)
                /\ SaysOf(compareSchema(a, b), t, c) <=>
                      (c \in DOMAIN a[t] \cup DOMAIN b[t] /\
                       ~(c \in DOMAIN a[t] \cap DOMAIN b[t] /\ a[t][c] = b[t][c]))
<1> DEFINE added   == {SchemaChange("added", x, Whole, "table added", FALSE) : x \in DOMAIN b \ DOMAIN a}
           removed == {SchemaChange("removed", x, Whole, "table removed", TRUE) : x \in DOMAIN a \ DOMAIN b}
           both    == DOMAIN a \cap DOMAIN b
           changed == UNION {compareColumns(x, a[x], b[x]) : x \in both}
<1>1. compareSchema(a, b) = added \cup removed \cup changed
  BY DEF compareSchema
<1>2. \A ch \in added : ch.table \in DOMAIN b \ DOMAIN a /\ ch.column = Whole /\ ~ch.breaking
  <2> SUFFICES ASSUME NEW ch \in added PROVE ch.table \in DOMAIN b \ DOMAIN a /\ ch.column = Whole /\ ~ch.breaking
    OBVIOUS
  <2>1. PICK x \in DOMAIN b \ DOMAIN a : ch = SchemaChange("added", x, Whole, "table added", FALSE)
    OBVIOUS
  <2> QED BY <2>1 DEF SchemaChange
<1>3. \A ch \in removed : ch.table \in DOMAIN a \ DOMAIN b /\ ch.column = Whole /\ ch.breaking
  <2> SUFFICES ASSUME NEW ch \in removed PROVE ch.table \in DOMAIN a \ DOMAIN b /\ ch.column = Whole /\ ch.breaking
    OBVIOUS
  <2>1. PICK x \in DOMAIN a \ DOMAIN b : ch = SchemaChange("removed", x, Whole, "table removed", TRUE)
    OBVIOUS
  <2> QED BY <2>1 DEF SchemaChange
<1>4. \A ch : ch \in changed <=> \E x \in both : ch \in compareColumns(x, a[x], b[x])
  OBVIOUS
<1>5. ASSUME NEW x \in both, NEW ch \in compareColumns(x, a[x], b[x])
      PROVE  ch.table = x /\ ch.column # Whole
  <2>1. ch.table = x /\ ch.column \in DOMAIN a[x] \cup DOMAIN b[x]
    BY ColumnsReport
  <2> QED BY <2>1
<1>6. \A x \in DOMAIN b \ DOMAIN a : \E ch \in added : ch.table = x
  <2> SUFFICES ASSUME NEW x \in DOMAIN b \ DOMAIN a
               PROVE  \E ch \in added : ch.table = x
    OBVIOUS
  <2>1. SchemaChange("added", x, Whole, "table added", FALSE) \in added
    OBVIOUS
  <2> QED BY <2>1 DEF SchemaChange
<1>7. \A x \in DOMAIN a \ DOMAIN b : \E ch \in removed : ch.table = x
  <2> SUFFICES ASSUME NEW x \in DOMAIN a \ DOMAIN b
               PROVE  \E ch \in removed : ch.table = x
    OBVIOUS
  <2>1. SchemaChange("removed", x, Whole, "table removed", TRUE) \in removed
    OBVIOUS
  <2> QED BY <2>1 DEF SchemaChange
<1> HIDE DEF added, removed, changed
<1>8. SaysOf(compareSchema(a, b), t, Whole) <=> (t \in DOMAIN a) # (t \in DOMAIN b)
  BY <1>1, <1>2, <1>3, <1>4, <1>5, <1>6, <1>7 DEF SaysOf
<1>9. BreakingOf(compareSchema(a, b), t, Whole) <=> t \in DOMAIN a \ DOMAIN b
  BY <1>1, <1>2, <1>3, <1>4, <1>5, <1>7 DEF BreakingOf
<1>10. ASSUME t \in both, c # Whole
       PROVE  /\ BreakingOf(compareSchema(a, b), t, c) <=> BreakingOf(compareColumns(t, a[t], b[t]), t, c)
              /\ SaysOf(compareSchema(a, b), t, c) <=> SaysOf(compareColumns(t, a[t], b[t]), t, c)
  BY <1>1, <1>2, <1>3, <1>4, <1>5, <1>10 DEF SaysOf, BreakingOf
<1>11. /\ BreakingOf(compareColumns(t, a[t], b[t]), t, c) <=> Breaks(a[t], b[t], c)
       /\ SaysOf(compareColumns(t, a[t], b[t]), t, c) <=>
             (c \in DOMAIN a[t] \cup DOMAIN b[t] /\
              ~(c \in DOMAIN a[t] \cap DOMAIN b[t] /\ a[t][c] = b[t][c]))
  BY ColumnsReport
<1> QED BY <1>8, <1>9, <1>10, <1>11
------------------------------------------------------------------------------
(* The order in which a capture takes tables and columns. *)

LEMMA NatOrder ==
    \E R : IsWellFoundedOn(R, Nat) /\ \A x, y \in Nat : x < y => <<x, y>> \in R
<1>1. \A x, y \in Nat : x < y => <<x, y>> \in OpToRel(<, Nat)
  BY DEF OpToRel
<1> QED BY <1>1, NatLessThanWellFounded, Zenon

\* The next table, or column, of a capture is one that is left.
LEMMA SmallestOf ==
    ASSUME NEW S \in SUBSET Nat, S # {}
    PROVE  Smallest(S) \in S
<1>1. PICK R : IsWellFoundedOn(R, Nat) /\ \A x, y \in Nat : x < y => <<x, y>> \in R
  BY NatOrder
<1>2. IsWellFoundedOn(R, Nat) /\ S \subseteq Nat
  BY <1>1
<1>3. \E x \in S : \A y \in S : ~ (<<y, x>> \in R)
  BY <1>2, WFMin, Zenon
<1>4. PICK x \in S : \A y \in S : ~ (<<y, x>> \in R)
  BY <1>3
<1>5. \A y \in S : ~ (y < x)
  BY <1>1, <1>4, Zenon
<1>6. \A y \in S : x <= y
  BY <1>5
<1> QED BY <1>6 DEF Smallest
------------------------------------------------------------------------------
(***************************************************************************)
(* The inductive invariant: what a snapshot is worth while it is being     *)
(* captured (InCapture) and once it is finished (Finished), by the states  *)
(* a command goes through (CmdOK).                                         *)
(***************************************************************************)
Fields     == {"at", "what", "filter", "from", "to", "conn", "todo", "left", "base", "snap", "report"}
SnapFields == {"schema", "stats", "truth", "moved", "asked"}
StatFields == {"rows", "skipped", "columns"}

DbOK(d) == DOMAIN d = Tables /\ \A t \in Tables : d[t] \in TableStates[t] \cup {None}

Existing(s) == {t \in s.asked : s.truth[t] # None}

SnapOK(s) ==
    /\ DOMAIN s = SnapFields
    /\ DbOK(s.truth) /\ s.asked \subseteq Tables
    /\ \A t \in DOMAIN s.schema : DOMAIN s.schema[t] \subseteq Columns
    /\ \A t \in DOMAIN s.schema \ s.moved : s.schema[t] = s.truth[t].cols

\* Statistics st of table t that stay on record: the columns in cs are done.
TrueStats(st, s, t, cs) ==
    /\ DOMAIN st.columns = cs
    /\ t \notin s.moved =>
         /\ st.rows = s.truth[t].rows
         /\ s.truth[t].rows <= LargeTableThreshold
         /\ \A c \in cs : st.columns[c] =
               [nonNull |-> s.truth[t].nonNull[c], null |-> s.truth[t].rows - s.truth[t].nonNull[c]]

StatsOK(st, s, t) ==
    /\ DOMAIN st = StatFields /\ st.skipped \in BOOLEAN
    /\ ~st.skipped => TrueStats(st, s, t, DOMAIN s.schema[t])

Finished(s) ==
    /\ SnapOK(s)
    /\ DOMAIN s.schema = Existing(s) /\ DOMAIN s.stats = Existing(s)
    /\ \A t \in Existing(s) : StatsOK(s.stats[t], s, t)

Capturing == {"columns", "indexes", "count", "column"}

InCapture(c, d) ==
    LET s  == c.snap
        t0 == Smallest(c.todo)
    IN  /\ SnapOK(s)
        /\ c.todo \subseteq Existing(s) /\ c.todo # {}
        /\ \A t \in c.todo \ s.moved : d[t] = s.truth[t]
        /\ DOMAIN s.schema = (Existing(s) \ c.todo) \cup (IF c.at = "columns" THEN {} ELSE {t0})
        /\ DOMAIN s.stats = (Existing(s) \ c.todo) \cup (IF c.at = "column" THEN {t0} ELSE {})
        /\ \A t \in Existing(s) \ c.todo : StatsOK(s.stats[t], s, t)
        /\ c.at = "column" =>
             /\ c.left # {} /\ c.left \subseteq DOMAIN s.schema[t0]
             /\ DOMAIN s.stats[t0] = StatFields
             /\ ~s.stats[t0].skipped
             /\ TrueStats(s.stats[t0], s, t0, DOMAIN s.schema[t0] \ c.left)

CmdOK(c, d) ==
    /\ DOMAIN c = Fields
    /\ c.at \in Places /\ c.what \in {"none", "take", "compare"}
    /\ c.conn \in {"closed", "open", "lost", "timed out"}
    /\ c.todo \subseteq Tables /\ c.left \subseteq Columns
    /\ c.at = "loadFrom" => c.from \in Labels /\ c.to \in Labels \cup {None}
    /\ c.at = "loadTo" => c.to \in Labels
    /\ c.what = "compare" /\ c.at \in {"loadTo", "list", "captured", "done"} \cup Capturing =>
         Finished(c.base)
    /\ c.at \in Capturing => InCapture(c, d)
    /\ c.at \in {"captured", "done"} => Finished(c.snap)
    /\ c.at = "done" => c.what = "compare" /\ c.report = Compare(c.base, c.snap)

IInv ==
    /\ DbOK(db)
    /\ DOMAIN stored = Labels
    /\ \A l \in Labels : stored[l] # None => Finished(stored[l])
    /\ DOMAIN cmd = Procs
    /\ \A p \in Procs : CmdOK(cmd[p], db)
------------------------------------------------------------------------------
\* What the assumption says of a table.
LEMMA TableFacts ==
    ASSUME NEW t \in Tables, NEW s \in TableStates[t]
    PROVE  /\ s # None /\ s.rows \in Nat
           /\ DOMAIN s.cols \subseteq Columns /\ DOMAIN s.nonNull = DOMAIN s.cols
           /\ \A c \in DOMAIN s.cols : s.nonNull[c] \in 0 .. s.rows
<1>1. s \in UNION {TableStates[x] : x \in Tables}
  OBVIOUS
<1> QED BY <1>1, SnapshotsAssumption

\* The table a capture is at is one it was asked for and found.
LEMMA TableOf ==
    ASSUME NEW c, NEW d, InCapture(c, d)
    PROVE  /\ Smallest(c.todo) \in c.todo
           /\ Smallest(c.todo) \in Existing(c.snap)
           /\ Smallest(c.todo) \in Tables
<1>1. c.todo \in SUBSET Nat /\ c.todo # {} /\ c.todo \subseteq Existing(c.snap) /\ c.todo \subseteq Tables
  BY SnapshotsAssumption DEF InCapture, SnapOK, Existing
<1> QED BY <1>1, SmallestOf

\* A finished snapshot of a table that nobody changed has what was there.
LEMMA TruthOf ==
    ASSUME NEW s, SnapOK(s), NEW t \in Existing(s)
    PROVE  t \in Tables /\ s.truth[t] \in TableStates[t]
BY DEF SnapOK, Existing, DbOK

\* A step of one process leaves the others where they are.
LEMMA OthersStand ==
    ASSUME IInv, NEW p \in Procs, db' = db, stored' = stored, DOMAIN cmd' = Procs,
           \A q \in Procs \ {p} : cmd'[q] = cmd[q],
           CmdOK(cmd'[p], db)
    PROVE  IInv'
BY DEF IInv

\* The end of a table, with the given statistics: TableDone.
LEMMA DoneWith ==
    ASSUME NEW c, NEW d, NEW e, NEW st, CmdOK(c, d), c.at \in {"count", "column"},
           DOMAIN e = Fields, DOMAIN e.snap = SnapFields,
           e.conn \in {"closed", "open", "lost", "timed out"},
           e.what = c.what, e.base = c.base, e.left = {},
           e.todo = c.todo \ {Smallest(c.todo)},
           e.at = IF e.todo = {} THEN "captured" ELSE "columns",
           e.snap.schema = c.snap.schema, e.snap.truth = c.snap.truth,
           e.snap.moved = c.snap.moved, e.snap.asked = c.snap.asked,
           e.snap.stats = With(c.snap.stats, Smallest(c.todo), st),
           StatsOK(st, c.snap, Smallest(c.todo))
    PROVE  CmdOK(e, d)
<1> DEFINE s == c.snap
           u == e.snap
           t0 == Smallest(c.todo)
<1>1. InCapture(c, d)
  BY DEF CmdOK, Capturing
<1>2. t0 \in c.todo /\ t0 \in Existing(s) /\ t0 \in Tables
  BY <1>1, TableOf
<1>3. SnapOK(u) /\ Existing(u) = Existing(s)
  BY <1>1 DEF InCapture, SnapOK, Existing
<1>4. DOMAIN u.schema = Existing(u) \ e.todo
  BY <1>1, <1>2, <1>3 DEF InCapture
<1>5. /\ DOMAIN u.stats = DOMAIN s.stats \cup {t0}
      /\ \A t \in DOMAIN s.stats : t # t0 => u.stats[t] = s.stats[t]
  BY DEF With
<1>6. DOMAIN u.stats = Existing(u) \ e.todo
  BY <1>1, <1>2, <1>3, <1>5 DEF InCapture
<1>7. ASSUME NEW t \in Existing(u) \ e.todo PROVE StatsOK(u.stats[t], u, t)
  <2>1. CASE t = t0
    <3>1. u.stats[t0] = st
      BY DEF With
    <3> QED BY <2>1, <3>1 DEF StatsOK, TrueStats
  <2>2. CASE t # t0
    <3>1. t \in Existing(s) \ c.todo /\ u.stats[t] = s.stats[t]
      BY <1>1, <1>3, <1>5, <1>7, <2>2 DEF InCapture
    <3>2. StatsOK(s.stats[t], s, t)
      BY <1>1, <3>1 DEF InCapture
    <3> QED BY <3>1, <3>2 DEF StatsOK, TrueStats
  <2> QED BY <2>1, <2>2
<1>8. CASE e.todo = {}
  <2>1. Finished(u)
    BY <1>3, <1>4, <1>6, <1>7, <1>8 DEF Finished
  <2> QED BY <1>8, <2>1 DEF CmdOK, Places, Capturing
<1>9. CASE e.todo # {}
  <2>1. InCapture(e, d)
    BY <1>1, <1>3, <1>4, <1>6, <1>7, <1>9 DEF InCapture
  <2> QED BY <1>9, <2>1 DEF CmdOK, Places, Capturing
<1> QED BY <1>8, <1>9

\* captureStatistics ends for the table, and perhaps the connection with it.
LEMMA DoneStep ==
    ASSUME IInv, NEW p \in Procs, cmd[p].at \in {"count", "column"},
           NEW st, StatsOK(st, cmd[p].snap, Table(p)),
           db' = db, stored' = stored,
           \/ cmd' = TableDone(p, st)
           \/ cmd' = [TableDone(p, st) EXCEPT ![p].conn = "timed out"]
    PROVE  IInv'
<1> DEFINE c == cmd[p]
           e == TableDone(p, st)[p]
<1>1. CmdOK(c, db) /\ DOMAIN c = Fields /\ DOMAIN cmd = Procs
  BY DEF IInv, CmdOK
<1>2. DOMAIN c.snap = SnapFields
  BY <1>1 DEF CmdOK, Capturing, InCapture, SnapOK
<1>3. /\ DOMAIN TableDone(p, st) = Procs
      /\ \A q \in Procs \ {p} : TableDone(p, st)[q] = cmd[q]
  BY <1>1 DEF TableDone
<1>4. /\ DOMAIN e = Fields /\ DOMAIN e.snap = SnapFields
      /\ e.conn = c.conn /\ e.what = c.what /\ e.base = c.base /\ e.left = {}
      /\ e.todo = c.todo \ {Smallest(c.todo)}
      /\ e.at = IF e.todo = {} THEN "captured" ELSE "columns"
      /\ e.snap.schema = c.snap.schema /\ e.snap.truth = c.snap.truth
      /\ e.snap.moved = c.snap.moved /\ e.snap.asked = c.snap.asked
      /\ e.snap.stats = With(c.snap.stats, Smallest(c.todo), st)
  BY <1>1, <1>2 DEF TableDone, Table, Fields, SnapFields
<1>5. StatsOK(st, c.snap, Smallest(c.todo)) /\ c.conn \in {"closed", "open", "lost", "timed out"}
  BY <1>1 DEF Table, CmdOK
<1>6. CASE cmd' = TableDone(p, st)
  <2>1. CmdOK(e, db)
    BY <1>1, <1>4, <1>5, DoneWith
  <2> QED BY <1>3, <1>6, <2>1, OthersStand
<1>7. CASE cmd' = [TableDone(p, st) EXCEPT ![p].conn = "timed out"]
  <2> DEFINE f == cmd'[p]
  <2>1. DOMAIN cmd' = Procs /\ \A q \in Procs \ {p} : cmd'[q] = cmd[q]
    BY <1>3, <1>7
  <2>2. /\ DOMAIN f = Fields /\ DOMAIN f.snap = SnapFields
        /\ f.conn = "timed out" /\ f.what = c.what /\ f.base = c.base /\ f.left = {}
        /\ f.todo = e.todo /\ f.at = e.at /\ f.snap = e.snap
    BY <1>3, <1>4, <1>7 DEF Fields
  <2>3. CmdOK(f, db)
    BY <1>1, <1>4, <1>5, <2>2, DoneWith
  <2> QED BY <2>1, <2>3, OthersStand
<1> QED BY <1>6, <1>7

\* A table that is skipped says nothing about its columns.
LEMMA SkippedOK ==
    ASSUME IInv, NEW p \in Procs, cmd[p].at \in {"count", "column"}
    PROVE  StatsOK(Skipped(p), cmd[p].snap, Table(p))
<1>1. CmdOK(cmd[p], db)
  BY DEF IInv
<1>2. CASE cmd[p].at = "count"
  BY <1>2 DEF Skipped, At, Stats, StatsOK, StatFields
<1>3. CASE cmd[p].at = "column"
  <2>1. DOMAIN cmd[p].snap.stats[Table(p)] = StatFields
    BY <1>1, <1>3 DEF CmdOK, Capturing, InCapture, Table
  <2> QED BY <1>3, <2>1 DEF Skipped, At, StatsOK, StatFields
<1> QED BY <1>2, <1>3

------------------------------------------------------------------------------
(* Each action preserves the invariant. *)

LEMMA InitIInv == Init => IInv
<1> SUFFICES ASSUME Init PROVE IInv
  OBVIOUS
<1>1. DbOK(db)
  BY SnapshotsAssumption DEF Init, DbOK
<1>2. CmdOK(Idle, db)
  BY DEF Idle, CmdOK, Fields, Places, Capturing
<1> QED BY <1>1, <1>2 DEF Init, IInv

LEMMA IdleOK == CmdOK(Idle, db)
BY DEF Idle, CmdOK, Fields, Places, Capturing

\* A command begins: nothing is claimed of it yet.
LEMMA StartsIInv ==
    ASSUME IInv, NEW p \in Procs,
           \/ \E l \in Labels, f \in Filters : Take(p, l, f)
           \/ \E from \in Labels, to \in Labels \cup {None} : CompareWith(p, from, to)
    PROVE  IInv'
<1>1. CASE \E l \in Labels, f \in Filters : Take(p, l, f)
  <2>1. PICK l \in Labels, f \in Filters : Take(p, l, f)
    BY <1>1
  <2> DEFINE e == [Idle EXCEPT !.at = "list", !.what = "take", !.from = l, !.filter = f, !.conn = "open"]
  <2>2. CmdOK(e, db)
    BY DEF Idle, CmdOK, Fields, Places, Capturing
  <2>3. cmd' = [cmd EXCEPT ![p] = e] /\ db' = db /\ stored' = stored
    BY <2>1 DEF Take, Starts, dbVars
  <2> HIDE DEF e
  <2> QED BY <2>2, <2>3, OthersStand DEF IInv
<1>2. CASE \E from \in Labels, to \in Labels \cup {None} : CompareWith(p, from, to)
  <2>1. PICK from \in Labels, to \in Labels \cup {None} : CompareWith(p, from, to)
    BY <1>2
  <2> DEFINE e == [Idle EXCEPT !.at = "loadFrom", !.what = "compare", !.from = from, !.to = to,
                               !.filter = [include |-> {}, exclude |-> {}]]
  <2>2. CmdOK(e, db)
    BY DEF Idle, CmdOK, Fields, Places, Capturing
  <2>3. cmd' = [cmd EXCEPT ![p] = e] /\ db' = db /\ stored' = stored
    BY <2>1 DEF CompareWith, Starts, dbVars
  <2> HIDE DEF e
  <2> QED BY <2>2, <2>3, OthersStand DEF IInv
<1> QED BY <1>1, <1>2

\* A command is over, or is killed.
LEMMA BackToIdle ==
    ASSUME IInv, NEW p \in Procs, db' = db, stored' = stored, cmd' = [cmd EXCEPT ![p] = Idle]
    PROVE  IInv'
BY IdleOK, OthersStand DEF IInv

\* A command fails.
LEMMA FailsIInv ==
    ASSUME IInv, NEW p \in Procs, db' = db, stored' = stored,
           cmd' = [cmd EXCEPT ![p].at = "failed"]
    PROVE  IInv'
<1>1. CmdOK(cmd[p], db) /\ DOMAIN cmd = Procs
  BY DEF IInv
<1>2. CmdOK([cmd[p] EXCEPT !.at = "failed"], db)
  BY <1>1 DEF CmdOK, Fields, Places, Capturing
<1> QED BY <1>1, <1>2, OthersStand

\* The connection is lost.
LEMMA LosesIInv ==
    ASSUME IInv, NEW p \in Procs, LosesConnection(p)
    PROVE  IInv'
<1>1. CmdOK(cmd[p], db) /\ DOMAIN cmd = Procs
  BY DEF IInv
<1> DEFINE c == cmd[p]
           e == [cmd[p] EXCEPT !.conn = "lost"]
<1>2. /\ DOMAIN e = Fields /\ e.at = c.at /\ e.what = c.what /\ e.conn = "lost"
      /\ e.todo = c.todo /\ e.left = c.left /\ e.base = c.base /\ e.snap = c.snap
      /\ e.report = c.report /\ e.from = c.from /\ e.to = c.to
  BY <1>1 DEF CmdOK, Fields
<1>3. cmd' = [cmd EXCEPT ![p] = e] /\ db' = db /\ stored' = stored
  BY DEF LosesConnection, dbVars
<1> HIDE DEF e
<1>4. CmdOK(e, db)
  BY <1>1, <1>2 DEF CmdOK, InCapture
<1> QED BY <1>1, <1>3, <1>4, OthersStand

LEMMA LoadIInv ==
    ASSUME IInv, NEW p \in Procs, LoadFrom(p) \/ LoadTo(p)
    PROVE  IInv'
<1>1. CmdOK(cmd[p], db) /\ DOMAIN cmd = Procs
  BY DEF IInv
<1> DEFINE c == cmd[p]
<1>2. db' = db /\ stored' = stored
  BY DEF LoadFrom, LoadTo, dbVars
<1>3. CASE cmd' = [cmd EXCEPT ![p].at = "failed"]
  BY <1>2, <1>3, FailsIInv
<1>4. CASE LoadFrom(p) /\ cmd' # [cmd EXCEPT ![p].at = "failed"]
  <2> DEFINE s    == stored[c.from]
             live == c.to = None
             e    == [c EXCEPT !.base = s, !.at = IF live THEN "list" ELSE "loadTo",
                               !.conn = IF live THEN "open" ELSE "closed"]
  <2>1. s # None /\ cmd' = [cmd EXCEPT ![p] = e]
    BY <1>4 DEF LoadFrom
  <2>2. Finished(s) /\ c.at = "loadFrom" /\ c.from \in Labels /\ c.to \in Labels \cup {None}
    BY <1>1, <1>4, <2>1 DEF IInv, CmdOK, LoadFrom, At
  <2>3. /\ DOMAIN e = Fields /\ e.what = c.what /\ e.todo = c.todo /\ e.left = c.left
        /\ e.to = c.to /\ e.base = s
        /\ e.at = IF live THEN "list" ELSE "loadTo"
        /\ e.conn = IF live THEN "open" ELSE "closed"
    BY <1>1 DEF CmdOK, Fields
  <2> HIDE DEF e
  <2>4. CmdOK(e, db)
    BY <1>1, <2>2, <2>3 DEF CmdOK, Places, Capturing
  <2> QED BY <1>1, <1>2, <2>1, <2>4, OthersStand
<1>5. CASE LoadTo(p) /\ cmd' # [cmd EXCEPT ![p].at = "failed"]
  <2> DEFINE s == stored[c.to]
             e == [c EXCEPT !.snap = s, !.at = "captured"]
  <2>1. s # None /\ cmd' = [cmd EXCEPT ![p] = e]
    BY <1>5 DEF LoadTo
  <2>2. Finished(s)
    BY <1>1, <1>5, <2>1 DEF IInv, CmdOK, LoadTo, At
  <2>3. CmdOK(e, db)
    BY <1>1, <1>5, <2>2 DEF CmdOK, Fields, Places, Capturing, LoadTo, At
  <2> QED BY <1>1, <1>2, <2>1, <2>3, OthersStand
<1> QED BY <1>3, <1>4, <1>5


LEMMA ListIInv ==
    ASSUME IInv, NEW p \in Procs, listTables(p)
    PROVE  IInv'
<1>1. CmdOK(cmd[p], db) /\ DOMAIN cmd = Procs /\ DbOK(db)
  BY DEF IInv
<1> DEFINE c     == cmd[p]
           asked == {t \in Tables : included(c.filter, t)}
           todo  == {t \in asked : db[t] # None}
           s     == [EmptySnapshot EXCEPT !.asked = asked]
           e     == [c EXCEPT !.todo = todo, !.snap = s,
                              !.at = IF todo = {} THEN "captured" ELSE "columns"]
<1>2. cmd' = [cmd EXCEPT ![p] = e] /\ db' = db /\ stored' = stored /\ c.at = "list"
  BY DEF listTables, dbVars, At
<1>3. /\ DOMAIN e = Fields /\ e.what = c.what /\ e.conn = c.conn /\ e.left = c.left
      /\ e.base = c.base /\ e.todo = todo /\ e.snap = s
      /\ e.at = IF todo = {} THEN "captured" ELSE "columns"
  BY <1>1 DEF CmdOK, Fields
<1>4. /\ DOMAIN s = SnapFields /\ DOMAIN s.schema = {} /\ DOMAIN s.stats = {}
      /\ s.truth = db /\ s.moved = {} /\ s.asked = asked
  BY DEF EmptySnapshot, SnapFields
<1> HIDE DEF e, s
<1>5. SnapOK(s) /\ Existing(s) = todo
  BY <1>1, <1>4 DEF SnapOK, Existing
<1>6. CASE todo = {}
  <2>1. Finished(s)
    BY <1>4, <1>5, <1>6 DEF Finished
  <2> QED BY <1>1, <1>2, <1>3, <1>6, <2>1, OthersStand DEF CmdOK, Places, Capturing
<1>7. CASE todo # {}
  <2>1. InCapture(e, db)
    BY <1>3, <1>4, <1>5, <1>7 DEF InCapture
  <2>2. CmdOK(e, db)
    BY <1>1, <1>2, <1>3, <1>7, <2>1 DEF CmdOK, Places, Capturing
  <2> QED BY <1>1, <1>2, <2>2, OthersStand
<1> QED BY <1>6, <1>7

LEMMA ColumnsIInv ==
    ASSUME IInv, NEW p \in Procs, captureColumns(p)
    PROVE  IInv'
<1>1. CmdOK(cmd[p], db) /\ DOMAIN cmd = Procs /\ DbOK(db)
  BY DEF IInv
<1> DEFINE c    == cmd[p]
           t0   == Smallest(c.todo)
           cols == IF db[t0] = None THEN << >> ELSE db[t0].cols
           e    == [c EXCEPT !.snap.schema = With(@, t0, cols), !.at = "indexes"]
           s    == c.snap
           u    == e.snap
<1>2. cmd' = [cmd EXCEPT ![p] = e] /\ db' = db /\ stored' = stored /\ c.at = "columns"
  BY DEF captureColumns, dbVars, At, Table
<1>3. InCapture(c, db)
  BY <1>1, <1>2 DEF CmdOK, Capturing
<1>4. DOMAIN s = SnapFields
  BY <1>3 DEF InCapture, SnapOK
<1>5. /\ DOMAIN e = Fields /\ e.what = c.what /\ e.conn = c.conn /\ e.left = c.left
      /\ e.base = c.base /\ e.todo = c.todo /\ e.at = "indexes"
      /\ DOMAIN u = SnapFields /\ u.stats = s.stats /\ u.truth = s.truth
      /\ u.moved = s.moved /\ u.asked = s.asked
      /\ u.schema = With(s.schema, t0, cols)
  BY <1>1, <1>4 DEF CmdOK, Fields, SnapFields
<1>6. t0 \in c.todo /\ t0 \in Existing(s) /\ t0 \in Tables
  BY <1>3, TableOf
<1>7. DOMAIN cols \subseteq Columns /\ (t0 \notin s.moved => cols = s.truth[t0].cols)
  <2>1. CASE db[t0] = None
    <3>1. t0 \in s.moved
      BY <1>3, <1>6, <2>1 DEF InCapture, Existing
    <3> QED BY <2>1, <3>1
  <2>2. CASE db[t0] # None
    <3>1. DOMAIN db[t0].cols \subseteq Columns
      BY <1>1, <1>6, <2>2, TableFacts DEF DbOK
    <3> QED BY <1>3, <1>6, <2>2, <3>1 DEF InCapture
  <2> QED BY <2>1, <2>2
<1> HIDE DEF cols
<1>8. /\ DOMAIN u.schema = DOMAIN s.schema \cup {t0} /\ u.schema[t0] = cols
      /\ \A t \in DOMAIN s.schema : t # t0 => u.schema[t] = s.schema[t]
  BY <1>5 DEF With
<1> HIDE DEF e
<1>9. SnapOK(u) /\ Existing(u) = Existing(s)
  BY <1>3, <1>5, <1>7, <1>8 DEF InCapture, SnapOK, Existing
<1>10. ASSUME NEW t \in Existing(u) \ e.todo PROVE StatsOK(u.stats[t], u, t)
  <2>1. t \in Existing(s) \ c.todo /\ u.schema[t] = s.schema[t]
    BY <1>3, <1>5, <1>6, <1>8, <1>9 DEF InCapture
  <2>2. StatsOK(s.stats[t], s, t)
    BY <1>3, <2>1 DEF InCapture
  <2> QED BY <1>5, <2>1, <2>2 DEF StatsOK, TrueStats
<1>11. InCapture(e, db)
  BY <1>2, <1>3, <1>5, <1>8, <1>9, <1>10 DEF InCapture
<1>12. CmdOK(e, db)
  BY <1>1, <1>2, <1>5, <1>11 DEF CmdOK, Places, Capturing
<1> QED BY <1>1, <1>2, <1>12, OthersStand

LEMMA IndexesIInv ==
    ASSUME IInv, NEW p \in Procs, captureIndexes(p)
    PROVE  IInv'
<1>1. CmdOK(cmd[p], db) /\ DOMAIN cmd = Procs
  BY DEF IInv
<1> DEFINE c == cmd[p]
           e == [c EXCEPT !.at = "count"]
<1>2. cmd' = [cmd EXCEPT ![p] = e] /\ db' = db /\ stored' = stored /\ c.at = "indexes"
  BY DEF captureIndexes, Goto, dbVars, At
<1>3. /\ DOMAIN e = Fields /\ e.what = c.what /\ e.conn = c.conn /\ e.left = c.left
      /\ e.base = c.base /\ e.todo = c.todo /\ e.at = "count" /\ e.snap = c.snap
  BY <1>1 DEF CmdOK, Fields
<1> HIDE DEF e
<1>4. InCapture(c, db)
  BY <1>1, <1>2 DEF CmdOK, Capturing
<1>5. InCapture(e, db)
  BY <1>2, <1>3, <1>4 DEF InCapture
<1>6. CmdOK(e, db)
  BY <1>1, <1>2, <1>3, <1>5 DEF CmdOK, Places, Capturing
<1> QED BY <1>1, <1>2, <1>6, OthersStand


\* The row count is known, and the columns come next.
LEMMA CountedIInv ==
    ASSUME IInv, NEW p \in Procs, cmd[p].at = "count", db' = db, stored' = stored,
           NEW st, st.skipped = FALSE, DOMAIN st = StatFields,
           TrueStats(st, cmd[p].snap, Table(p), {}),
           DOMAIN cmd[p].snap.schema[Table(p)] # {},
           cmd' = [cmd EXCEPT ![p].snap.stats = With(@, Table(p), st),
                              ![p].left = DOMAIN cmd[p].snap.schema[Table(p)], ![p].at = "column"]
    PROVE  IInv'
<1>1. CmdOK(cmd[p], db) /\ DOMAIN cmd = Procs
  BY DEF IInv
<1> DEFINE c    == cmd[p]
           t0   == Smallest(c.todo)
           cols == DOMAIN c.snap.schema[t0]
           e    == [c EXCEPT !.snap.stats = With(@, t0, st), !.left = cols, !.at = "column"]
           s    == c.snap
           u    == e.snap
<1>2. cmd' = [cmd EXCEPT ![p] = e] /\ Table(p) = t0
  BY DEF Table
<1>3. InCapture(c, db)
  BY <1>1, <1>2 DEF CmdOK, Capturing
<1>4. DOMAIN s = SnapFields
  BY <1>3 DEF InCapture, SnapOK
<1>5. /\ DOMAIN e = Fields /\ e.what = c.what /\ e.conn = c.conn /\ e.left = cols
      /\ e.base = c.base /\ e.todo = c.todo /\ e.at = "column"
      /\ DOMAIN u = SnapFields /\ u.schema = s.schema /\ u.truth = s.truth
      /\ u.moved = s.moved /\ u.asked = s.asked
      /\ u.stats = With(s.stats, t0, st)
  BY <1>1, <1>4 DEF CmdOK, Fields, SnapFields
<1>6. t0 \in c.todo /\ t0 \in Existing(s) /\ t0 \in Tables
  BY <1>3, TableOf
<1>7. t0 \in DOMAIN s.schema /\ cols \subseteq Columns
  BY <1>3 DEF InCapture, SnapOK
<1>8. /\ DOMAIN u.stats = DOMAIN s.stats \cup {t0} /\ u.stats[t0] = st
      /\ \A t \in DOMAIN s.stats : t # t0 => u.stats[t] = s.stats[t]
  BY <1>5 DEF With
<1>9. SnapOK(u) /\ Existing(u) = Existing(s)
  BY <1>3, <1>5 DEF InCapture, SnapOK, Existing
<1> HIDE DEF e
<1>10. ASSUME NEW t \in Existing(u) \ e.todo PROVE StatsOK(u.stats[t], u, t)
  <2>1. t \in Existing(s) \ c.todo /\ u.stats[t] = s.stats[t]
    BY <1>3, <1>5, <1>6, <1>8, <1>9 DEF InCapture
  <2>2. StatsOK(s.stats[t], s, t)
    BY <1>3, <2>1 DEF InCapture
  <2> QED BY <1>5, <2>1, <2>2 DEF StatsOK, TrueStats
<1>11. TrueStats(st, u, t0, DOMAIN u.schema[t0] \ e.left)
  BY <1>2, <1>5 DEF TrueStats
<1>12. InCapture(e, db)
  BY <1>2, <1>3, <1>5, <1>8, <1>9, <1>10, <1>11 DEF InCapture
<1>13. CmdOK(e, db)
  BY <1>1, <1>2, <1>5, <1>7, <1>12 DEF CmdOK, Places, Capturing
<1> QED BY <1>1, <1>2, <1>13, OthersStand

LEMMA RowCountIInv ==
    ASSUME IInv, NEW p \in Procs, queryRowCount(p)
    PROVE  IInv'
<1>1. CmdOK(cmd[p], db) /\ cmd[p].at = "count" /\ db' = db /\ stored' = stored
  BY DEF IInv, queryRowCount, At, dbVars
<1> DEFINE s    == cmd[p].snap
           t    == Table(p)
           cols == DOMAIN s.schema[t]
           seen == Stats(db[t].rows, FALSE, << >>)
<1>2. InCapture(cmd[p], db)
  BY <1>1 DEF CmdOK, Capturing
<1>3. t \in cmd[p].todo /\ t \in Existing(s) /\ t \in Tables
  BY <1>2, TableOf DEF Table
<1>4. t \notin s.moved => db[t] = s.truth[t]
  BY <1>2, <1>3 DEF InCapture
<1>5. CASE db[t] = None
  BY <1>1, <1>5, SkippedOK, DoneStep DEF queryRowCount
<1>6. CASE db[t] # None /\ db[t].rows > LargeTableThreshold
  <2> DEFINE st == [seen EXCEPT !.skipped = TRUE]
  <2>1. cmd' = TableDone(p, st)
    <3>1. db[t].rows \in Nat /\ LargeTableThreshold \in Nat
      BY <1>3, <1>6, TableFacts, SnapshotsAssumption DEF IInv, DbOK
    <3>2. ~(db[t].rows <= LargeTableThreshold)
      BY <1>6, <3>1
    <3> QED BY <1>6, <3>2 DEF queryRowCount
  <2>2. StatsOK(st, s, t)
    BY DEF StatsOK, Stats, StatFields
  <2> QED BY <1>1, <2>1, <2>2, DoneStep
<1>7. /\ DOMAIN seen = StatFields /\ seen.rows = db[t].rows /\ seen.skipped = FALSE
      /\ DOMAIN seen.columns = {}
  BY DEF Stats, StatFields
<1>8. ASSUME db[t] # None, ~(db[t].rows > LargeTableThreshold)
      PROVE  TrueStats(seen, s, t, {}) /\ db[t].rows <= LargeTableThreshold
  <2>1. db[t].rows \in Nat
    BY <1>3, <1>8, TableFacts DEF IInv, DbOK
  <2>2. db[t].rows <= LargeTableThreshold
    BY <1>8, <2>1, SnapshotsAssumption
  <2> HIDE DEF seen
  <2> QED BY <1>4, <1>7, <2>2 DEF TrueStats
<1>9. CASE db[t] # None /\ ~(db[t].rows > LargeTableThreshold) /\ cols = {}
  <2>1. cmd' = TableDone(p, seen)
    BY <1>8, <1>9 DEF queryRowCount
  <2> HIDE DEF seen
  <2>2. StatsOK(seen, s, t)
    BY <1>7, <1>8, <1>9 DEF StatsOK
  <2> QED BY <1>1, <2>1, <2>2, DoneStep
<1>10. CASE db[t] # None /\ ~(db[t].rows > LargeTableThreshold) /\ cols # {}
  <2>1. cmd' = [cmd EXCEPT ![p].snap.stats = With(@, t, seen), ![p].left = cols, ![p].at = "column"]
    BY <1>10 DEF queryRowCount
  <2> HIDE DEF seen
  <2> QED BY <1>1, <1>7, <1>8, <1>10, <2>1, CountedIInv
<1> QED BY <1>5, <1>6, <1>9, <1>10


\* Column x is done, and is not the last.
LEMMA ColumnCountedIInv ==
    ASSUME IInv, NEW p \in Procs, cmd[p].at = "column", db' = db, stored' = stored,
           NEW x \in cmd[p].left, cmd[p].left # {x},
           NEW st, st.skipped = FALSE, DOMAIN st = StatFields,
           TrueStats(st, cmd[p].snap, Table(p),
                     DOMAIN cmd[p].snap.schema[Table(p)] \ (cmd[p].left \ {x})),
           cmd' = [cmd EXCEPT ![p].snap.stats[Table(p)] = st, ![p].left = @ \ {x}]
    PROVE  IInv'
<1>1. CmdOK(cmd[p], db) /\ DOMAIN cmd = Procs
  BY DEF IInv
<1> DEFINE c  == cmd[p]
           t0 == Smallest(c.todo)
           e  == [c EXCEPT !.snap.stats[t0] = st, !.left = @ \ {x}]
           s  == c.snap
           u  == e.snap
<1>2. cmd' = [cmd EXCEPT ![p] = e] /\ Table(p) = t0
  BY DEF Table
<1>3. InCapture(c, db)
  BY <1>1, <1>2 DEF CmdOK, Capturing
<1>4. DOMAIN s = SnapFields
  BY <1>3 DEF InCapture, SnapOK
<1>5. /\ DOMAIN e = Fields /\ e.what = c.what /\ e.conn = c.conn /\ e.left = c.left \ {x}
      /\ e.base = c.base /\ e.todo = c.todo /\ e.at = "column"
      /\ DOMAIN u = SnapFields /\ u.schema = s.schema /\ u.truth = s.truth
      /\ u.moved = s.moved /\ u.asked = s.asked
      /\ u.stats = [s.stats EXCEPT ![t0] = st]
  BY <1>1, <1>4 DEF CmdOK, Fields, SnapFields
<1>6. t0 \in c.todo /\ t0 \in Existing(s) /\ t0 \in Tables /\ t0 \in DOMAIN s.stats
  BY <1>3, TableOf DEF InCapture
<1>7. /\ DOMAIN u.stats = DOMAIN s.stats /\ u.stats[t0] = st
      /\ \A t \in DOMAIN s.stats : t # t0 => u.stats[t] = s.stats[t]
  BY <1>5, <1>6
<1> HIDE DEF e
<1>8. SnapOK(u) /\ Existing(u) = Existing(s)
  BY <1>3, <1>5 DEF InCapture, SnapOK, Existing
<1>9. ASSUME NEW t \in Existing(u) \ e.todo PROVE StatsOK(u.stats[t], u, t)
  <2>1. t \in Existing(s) \ c.todo /\ u.stats[t] = s.stats[t]
    BY <1>3, <1>5, <1>6, <1>7, <1>8 DEF InCapture
  <2>2. StatsOK(s.stats[t], s, t)
    BY <1>3, <2>1 DEF InCapture
  <2> QED BY <1>5, <2>1, <2>2 DEF StatsOK, TrueStats
<1>10. TrueStats(st, u, t0, DOMAIN u.schema[t0] \ e.left)
  BY <1>2, <1>5 DEF TrueStats
<1>11. InCapture(e, db)
  BY <1>2, <1>3, <1>5, <1>7, <1>8, <1>9, <1>10 DEF InCapture
<1>12. CmdOK(e, db)
  BY <1>1, <1>2, <1>5, <1>11 DEF CmdOK, Places, Capturing
<1> QED BY <1>1, <1>2, <1>12, OthersStand

LEMMA ColumnStatsIInv ==
    ASSUME IInv, NEW p \in Procs, queryColumnStats(p)
    PROVE  IInv'
<1>1. CmdOK(cmd[p], db) /\ cmd[p].at = "column" /\ db' = db /\ stored' = stored
  BY DEF IInv, queryColumnStats, At, dbVars
<1> DEFINE s    == cmd[p].snap
           left == cmd[p].left
           t    == Table(p)
           x    == Smallest(left)
           have == s.stats[t]
           n    == db[t].nonNull[x]
           now  == [have EXCEPT !.columns = With(@, x, [nonNull |-> n, null |-> have.rows - n])]
           cols == DOMAIN s.schema[t]
           fails == db[t] = None \/ x \notin DOMAIN db[t].cols \/ db[t].cols[x].type \in NoMin
<1>2. InCapture(cmd[p], db)
  BY <1>1 DEF CmdOK, Capturing
<1>3. t \in cmd[p].todo /\ t \in Existing(s) /\ t \in Tables
  BY <1>2, TableOf DEF Table
<1>4. t \notin s.moved => db[t] = s.truth[t]
  BY <1>2, <1>3 DEF InCapture
<1>5. x \in left /\ left \subseteq cols
  <2>1. left \in SUBSET Nat /\ left # {}
    BY <1>1, <1>2, SnapshotsAssumption DEF CmdOK, InCapture
  <2> QED BY <1>1, <1>2, <2>1, SmallestOf DEF InCapture, Table
<1>6. /\ DOMAIN have = StatFields /\ have.skipped = FALSE
      /\ TrueStats(have, s, t, cols \ left)
  BY <1>1, <1>2 DEF InCapture, Table, StatsOK
<1>7. /\ DOMAIN now = StatFields /\ now.skipped = FALSE /\ now.rows = have.rows
      /\ now.columns = With(have.columns, x, [nonNull |-> n, null |-> have.rows - n])
  BY <1>6 DEF StatFields
<1>8. /\ DOMAIN now.columns = (cols \ left) \cup {x}
      /\ now.columns[x] = [nonNull |-> n, null |-> have.rows - n]
      /\ \A y \in cols \ left : y # x => now.columns[y] = have.columns[y]
  BY <1>6, <1>7 DEF With, TrueStats
<1> HIDE DEF now
<1>9. TrueStats(now, s, t, cols \ (left \ {x}))
  <2>1. (cols \ left) \cup {x} = cols \ (left \ {x})
    BY <1>5
  <2> QED BY <1>4, <1>6, <1>7, <1>8, <2>1 DEF TrueStats
<1>10. CASE fails
  <2>1. cmd' = TableDone(p, Skipped(p))
    BY <1>10 DEF queryColumnStats
  <2> QED BY <1>1, <2>1, SkippedOK, DoneStep
<1>11. CASE ~fails /\ left = {x}
  <2>1. cmd' = TableDone(p, now)
    BY <1>11 DEF queryColumnStats, now
  <2>2. StatsOK(now, s, t)
    BY <1>7, <1>9, <1>11 DEF StatsOK
  <2> QED BY <1>1, <2>1, <2>2, DoneStep
<1>12. CASE ~fails /\ left # {x}
  <2>1. cmd' = [cmd EXCEPT ![p].snap.stats[t] = now, ![p].left = @ \ {x}]
    BY <1>12 DEF queryColumnStats, now
  <2> QED BY <1>1, <1>5, <1>7, <1>9, <1>12, <2>1, ColumnCountedIInv
<1> QED BY <1>10, <1>11, <1>12

LEMMA SaveIInv ==
    ASSUME IInv, NEW p \in Procs, Save(p)
    PROVE  IInv'
<1>1. Finished(cmd[p].snap)
  BY DEF IInv, CmdOK, Save, At
<1>2. /\ db' = db /\ cmd' = [cmd EXCEPT ![p] = Idle]
      /\ stored' = [stored EXCEPT ![cmd[p].from] = cmd[p].snap]
  BY DEF Save, dbVars
<1>3. DOMAIN stored' = Labels /\ \A l \in Labels : stored'[l] # None => Finished(stored'[l])
  BY <1>1, <1>2 DEF IInv
<1>4. DOMAIN cmd' = Procs /\ \A q \in Procs : CmdOK(cmd'[q], db)
  BY <1>2, IdleOK DEF IInv
<1> QED BY <1>2, <1>3, <1>4 DEF IInv

LEMMA ReportIInv ==
    ASSUME IInv, NEW p \in Procs, Report(p)
    PROVE  IInv'
<1>1. CmdOK(cmd[p], db) /\ DOMAIN cmd = Procs
  BY DEF IInv
<1> DEFINE c == cmd[p]
           e == [c EXCEPT !.report = Compare(c.base, c.snap), !.at = "done"]
<1>2. /\ cmd' = [cmd EXCEPT ![p] = e] /\ db' = db /\ stored' = stored
      /\ c.at = "captured" /\ c.what = "compare"
  BY DEF Report, dbVars, At
<1>3. /\ DOMAIN e = Fields /\ e.what = c.what /\ e.conn = c.conn /\ e.left = c.left
      /\ e.base = c.base /\ e.todo = c.todo /\ e.at = "done" /\ e.snap = c.snap
      /\ e.report = Compare(c.base, c.snap)
  BY <1>1 DEF CmdOK, Fields
<1> HIDE DEF e
<1>4. CmdOK(e, db)
  BY <1>1, <1>2, <1>3 DEF CmdOK, Places, Capturing
<1> QED BY <1>1, <1>2, <1>4, OthersStand


\* What is said of a snapshot is said of the tables that did not move.
LEMMA MovedWeakens ==
    ASSUME NEW s, NEW u, SnapOK(s), DOMAIN u = SnapFields, s.moved \subseteq u.moved,
           u.schema = s.schema, u.stats = s.stats, u.truth = s.truth, u.asked = s.asked
    PROVE  /\ SnapOK(u) /\ Existing(u) = Existing(s)
           /\ \A st, t, cs : TrueStats(st, s, t, cs) => TrueStats(st, u, t, cs)
           /\ \A st, t : StatsOK(st, s, t) => StatsOK(st, u, t)
           /\ Finished(s) => Finished(u)
<1>1. SnapOK(u) /\ Existing(u) = Existing(s)
  BY DEF SnapOK, Existing
<1>2. ASSUME NEW st, NEW t, NEW cs, TrueStats(st, s, t, cs) PROVE TrueStats(st, u, t, cs)
  BY <1>2 DEF TrueStats
<1>3. ASSUME NEW st, NEW t, StatsOK(st, s, t) PROVE StatsOK(st, u, t)
  BY <1>2, <1>3 DEF StatsOK
<1>4. ASSUME Finished(s) PROVE Finished(u)
  BY <1>1, <1>3, <1>4 DEF Finished
<1> QED BY <1>1, <1>2, <1>3, <1>4

\* The capture of a table that changes is told nothing, and claims nothing of it.
LEMMA BecomesIInv ==
    ASSUME IInv, NEW t \in Tables, NEW v \in TableStates[t] \cup {None}, Becomes(t, v),
           stored' = stored
    PROVE  IInv'
<1>1. DbOK(db')
  BY DEF IInv, DbOK, Becomes
<1>2. /\ db' = [db EXCEPT ![t] = v] /\ DOMAIN cmd' = Procs
      /\ \A p \in Procs : cmd'[p] = IF t \in cmd[p].todo
                                    THEN [cmd[p] EXCEPT !.snap.moved = @ \cup {t}] ELSE cmd[p]
      /\ \A x \in Tables : x # t => db'[x] = db[x]
  BY DEF IInv, DbOK, Becomes
<1>3. ASSUME NEW p \in Procs PROVE CmdOK(cmd'[p], db')
  <2> DEFINE c == cmd[p]
             e == cmd'[p]
  <2>1. CmdOK(c, db)
    BY DEF IInv
  <2>2. CASE t \notin c.todo
    <3>1. e = c
      BY <1>2, <2>2
    <3>2. InCapture(c, db) => InCapture(c, db')
      <4> SUFFICES ASSUME InCapture(c, db) PROVE InCapture(c, db')
        OBVIOUS
      <4>1. \A x \in c.todo : db'[x] = db[x]
        BY <1>2, <2>1, <2>2 DEF CmdOK
      <4> QED BY <4>1 DEF InCapture
    <3> QED BY <2>1, <3>1, <3>2 DEF CmdOK
  <2>3. CASE t \in c.todo
    <3> DEFINE s == c.snap
               u == e.snap
    <3>1. e = [c EXCEPT !.snap.moved = @ \cup {t}]
      BY <1>2, <2>3
    <3>2. /\ DOMAIN e = Fields /\ e.at = c.at /\ e.what = c.what /\ e.conn = c.conn
          /\ e.left = c.left /\ e.base = c.base /\ e.todo = c.todo /\ e.from = c.from
          /\ e.to = c.to /\ e.report = c.report
      BY <2>1, <3>1 DEF CmdOK, Fields
    <3>3. u = [s EXCEPT !.moved = @ \cup {t}]
      BY <2>1, <3>1 DEF CmdOK, Fields
    <3>4. ASSUME DOMAIN s = SnapFields
          PROVE  /\ DOMAIN u = SnapFields /\ u.moved = s.moved \cup {t} /\ u.schema = s.schema
                 /\ u.stats = s.stats /\ u.truth = s.truth /\ u.asked = s.asked
      BY <3>3, <3>4 DEF SnapFields
    <3> HIDE DEF e, u
    <3>5. Finished(s) => Finished(u) /\ Compare(e.base, u) = Compare(c.base, s)
      BY <3>2, <3>4, MovedWeakens DEF Finished, SnapOK, Compare
    <3>6. InCapture(c, db) => InCapture(e, db')
      <4> SUFFICES ASSUME InCapture(c, db) PROVE InCapture(e, db')
        OBVIOUS
      <4>1. DOMAIN s = SnapFields /\ SnapOK(s)
        BY DEF InCapture, SnapOK
      <4>2. /\ SnapOK(u) /\ Existing(u) = Existing(s)
            /\ \A st, x, cs : TrueStats(st, s, x, cs) => TrueStats(st, u, x, cs)
            /\ \A st, x : StatsOK(st, s, x) => StatsOK(st, u, x)
        BY <3>4, <4>1, MovedWeakens
      <4>3. \A x \in e.todo \ u.moved : db'[x] = u.truth[x]
        <5>1. \A x \in c.todo \ s.moved : db[x] = s.truth[x]
          BY DEF InCapture
        <5> QED BY <1>2, <2>1, <3>2, <3>4, <4>1, <5>1 DEF CmdOK
      <4> QED BY <3>2, <3>4, <4>1, <4>2, <4>3 DEF InCapture, u
    <3>7. e.snap = u
      BY DEF u
    <3> HIDE DEF u
    <3>8. e.at = "done" => e.report = Compare(e.base, e.snap)
      BY <2>1, <3>2, <3>5, <3>7 DEF CmdOK
    <3>9. CmdOK(e, db')
      BY <2>1, <3>2, <3>5, <3>6, <3>7, <3>8 DEF CmdOK
    <3> QED BY <3>9 DEF e
  <2> QED BY <2>2, <2>3
<1> QED BY <1>1, <1>2, <1>3 DEF IInv

LEMMA StepIInv ==
    ASSUME IInv, NEW p \in Procs, Step(p)
    PROVE  IInv'
<1>1. CASE LoadFrom(p) \/ LoadTo(p)
  BY <1>1, LoadIInv
<1>2. CASE listTables(p)
  BY <1>2, ListIInv
<1>3. CASE captureColumns(p)
  BY <1>3, ColumnsIInv
<1>4. CASE captureIndexes(p)
  BY <1>4, IndexesIInv
<1>5. CASE queryRowCount(p)
  BY <1>5, RowCountIInv
<1>6. CASE queryColumnStats(p)
  BY <1>6, ColumnStatsIInv
<1>7. CASE TimesOut(p) \/ StatsFail(p)
  <2>1. /\ cmd[p].at \in {"count", "column"} /\ db' = db /\ stored' = stored
        /\ \/ cmd' = TableDone(p, Skipped(p))
           \/ cmd' = [TableDone(p, Skipped(p)) EXCEPT ![p].conn = "timed out"]
    BY <1>7 DEF TimesOut, StatsFail, At, dbVars
  <2> QED BY <2>1, SkippedOK, DoneStep
<1>8. CASE CaptureFails(p) \/ SaveFails(p)
  BY <1>8, FailsIInv DEF CaptureFails, SaveFails, Goto, dbVars
<1>9. CASE Save(p)
  BY <1>9, SaveIInv
<1>10. CASE Report(p)
  BY <1>10, ReportIInv
<1>11. CASE Exits(p)
  BY <1>11, BackToIdle DEF Exits, dbVars
<1> QED BY <1>1, <1>2, <1>3, <1>4, <1>5, <1>6, <1>7, <1>8, <1>9, <1>10, <1>11 DEF Step

\* The invariant is inductive.
LEMMA NextIInv == IInv /\ [Next]_vars => IInv'
<1> SUFFICES ASSUME IInv, [Next]_vars PROVE IInv'
  OBVIOUS
<1>1. CASE UNCHANGED vars
  BY <1>1 DEF vars, dbVars, IInv
<1>2. ASSUME NEW p \in Procs,
             \/ \E l \in Labels, f \in Filters : Take(p, l, f)
             \/ \E from \in Labels, to \in Labels \cup {None} : CompareWith(p, from, to)
      PROVE  IInv'
  BY <1>2, StartsIInv
<1>3. ASSUME NEW p \in Procs, Step(p) PROVE IInv'
  BY <1>3, StepIInv
<1>4. ASSUME NEW p \in Procs, Killed(p) PROVE IInv'
  BY <1>4, BackToIdle DEF Killed, dbVars
<1>5. ASSUME NEW p \in Procs, LosesConnection(p) PROVE IInv'
  BY <1>5, LosesIInv
<1>6. ASSUME NEW l \in Labels, Delete(l) PROVE IInv'
  BY <1>6 DEF Delete, dbVars, IInv
<1>7. ASSUME NEW t \in Tables, NEW s \in TableStates[t], Write(t, s) PROVE IInv'
  BY <1>7, BecomesIInv DEF Write
<1>8. ASSUME NEW t \in Tables, MigrationLocks(t) PROVE IInv'
  BY <1>8 DEF MigrationLocks, IInv
<1>9. ASSUME NEW t \in Tables, NEW s \in TableStates[t] \cup {None}, MigrationCommits(t, s)
      PROVE  IInv'
  BY <1>9, BecomesIInv DEF MigrationCommits
<1> QED BY <1>1, <1>2, <1>3, <1>4, <1>5, <1>6, <1>7, <1>8, <1>9 DEF Next

------------------------------------------------------------------------------
(* What the invariant gives. *)

LEMMA Invariant == Spec => []IInv
BY InitIInv, NextIInv, PTL DEF Spec

\* Only whole captures are stored (snapshot.go:81-88), whatever fails, is
\* interrupted or changes under a capture.
THEOREM StoredWhole == Spec => []SnapshotsAreWhole
<1>1. IInv => SnapshotsAreWhole
  BY DEF IInv, SnapshotsAreWhole, Finished, Existing, StatsOK, TrueStats
<1> QED BY <1>1, Invariant, PTL

LEMMA SchemaReportOf ==
    ASSUME IInv, NEW p \in Procs, At(p, "done"), NEW t \in Settled(p),
           NEW before, before = cmd[p].base.truth[t],
           NEW after, after = cmd[p].snap.truth[t],
           NEW R, R = cmd[p].report.schema
    PROVE  /\ SaysOf(R, t, Whole) <=> (before = None) # (after = None)
           /\ BreakingOf(R, t, Whole) <=> before # None /\ after = None
           /\ before # None /\ after # None =>
                \A c \in Columns :
                  /\ BreakingOf(R, t, c) <=> Breaks(before.cols, after.cols, c)
                  /\ SaysOf(R, t, c) <=>
                       /\ c \in DOMAIN before.cols \cup DOMAIN after.cols
                       /\ ~(/\ c \in DOMAIN before.cols \cap DOMAIN after.cols
                            /\ before.cols[c] = after.cols[c])
<1> DEFINE a == cmd[p].base
           b == cmd[p].snap
<1>1. CmdOK(cmd[p], db) /\ cmd[p].at = "done"
  BY DEF IInv, At
<1>2. Finished(a) /\ Finished(b) /\ cmd[p].report = Compare(a, b)
  BY <1>1 DEF CmdOK
<1>3. R = compareSchema(a.schema, b.schema)
  BY <1>2 DEF Compare
<1>4. /\ \A x \in DOMAIN a.schema : Whole \notin DOMAIN a.schema[x]
      /\ \A x \in DOMAIN b.schema : Whole \notin DOMAIN b.schema[x]
  BY <1>2, SnapshotsAssumption DEF Finished, SnapOK
<1>5. /\ before # None <=> t \in DOMAIN a.schema
      /\ after # None <=> t \in DOMAIN b.schema
  BY <1>2 DEF Settled, Finished, Existing
<1>6. /\ t \in DOMAIN a.schema => a.schema[t] = before.cols
      /\ t \in DOMAIN b.schema => b.schema[t] = after.cols
  BY <1>2 DEF Settled, Finished, SnapOK
<1> HIDE DEF a, b
<1>7. SaysOf(R, t, Whole) <=> (before = None) # (after = None)
  BY <1>3, <1>4, <1>5, SchemaReport
<1>8. BreakingOf(R, t, Whole) <=> before # None /\ after = None
  BY <1>3, <1>4, <1>5, SchemaReport
<1>9. ASSUME before # None, after # None, NEW c \in Columns
      PROVE  /\ BreakingOf(R, t, c) <=> Breaks(before.cols, after.cols, c)
             /\ SaysOf(R, t, c) <=>
                  /\ c \in DOMAIN before.cols \cup DOMAIN after.cols
                  /\ ~(/\ c \in DOMAIN before.cols \cap DOMAIN after.cols
                       /\ before.cols[c] = after.cols[c])
  <2>1. t \in DOMAIN a.schema \cap DOMAIN b.schema /\ c # Whole
    BY <1>5, <1>9, SnapshotsAssumption
  <2>2. /\ BreakingOf(R, t, c) <=> Breaks(a.schema[t], b.schema[t], c)
        /\ SaysOf(R, t, c) <=>
              (c \in DOMAIN a.schema[t] \cup DOMAIN b.schema[t] /\
               ~(c \in DOMAIN a.schema[t] \cap DOMAIN b.schema[t]
                 /\ a.schema[t][c] = b.schema[t][c]))
    BY <1>3, <1>4, <2>1, SchemaReport
  <2> QED BY <1>6, <2>1, <2>2
<1> QED BY <1>7, <1>8, <1>9

\* The report on schemas is true of the database at the times of the two
\* captures (capturer.go:128-172, comparator.go:88-170).
THEOREM SchemaReportsAreTrue == Spec => []SchemaReportIsTrue
<1>1. IInv => SchemaReportIsTrue
  BY SchemaReportOf DEF SchemaReportIsTrue
<1> QED BY <1>1, Invariant, PTL

\* The line of a report for column c.
Line(m, n, c) == [column |-> c, from |-> m[c], to |-> n[c],
                  notable |-> m[c].null > 0 /\ n[c].null < m[c].null]

\* Table s has its counts, and statistics m of its columns state them.
Counted(s) == s.rows \in Nat /\ \A c \in DOMAIN s.cols : s.nonNull[c] \in 0 .. s.rows
CountsOf(m, s) ==
    /\ DOMAIN m = DOMAIN s.cols
    /\ \A c \in DOMAIN s.cols : m[c] = [nonNull |-> s.nonNull[c], null |-> s.rows - s.nonNull[c]]

\* Lines that show the drift of the columns of table a that became b.
DriftOf(lines, a, b) ==
    /\ {x.column : x \in lines} =
          {c \in DOMAIN a.cols \cap DOMAIN b.cols :
             <<a.nonNull[c], a.rows - a.nonNull[c]>> # <<b.nonNull[c], b.rows - b.nonNull[c]>>}
    /\ \A x \in lines :
         /\ x.from = [nonNull |-> a.nonNull[x.column], null |-> a.rows - a.nonNull[x.column]]
         /\ x.to = [nonNull |-> b.nonNull[x.column], null |-> b.rows - b.nonNull[x.column]]
         /\ x.notable <=> b.rows - b.nonNull[x.column] < a.rows - a.nonNull[x.column]

\* The statistics two true snapshots give of a table, compared column by column
\* (comparator.go:209-237).
LEMMA ColumnDrift ==
    ASSUME NEW a, NEW b, NEW m, NEW n,
           Counted(a), Counted(b), CountsOf(m, a), CountsOf(n, b)
    PROVE  DriftOf(compareColumnStats(m, n), a, b)
<1> USE DEF Counted, CountsOf
<1> DEFINE both == {c \in DOMAIN m \cap DOMAIN n : m[c] # n[c]}
<1>1. compareColumnStats(m, n) = {Line(m, n, c) : c \in both}
  BY DEF compareColumnStats, Line
<1>2. both = {c \in DOMAIN a.cols \cap DOMAIN b.cols :
                <<a.nonNull[c], a.rows - a.nonNull[c]>> # <<b.nonNull[c], b.rows - b.nonNull[c]>>}
  <2>1. ASSUME NEW c \in DOMAIN m \cap DOMAIN n
        PROVE  m[c] # n[c] <=>
                 <<a.nonNull[c], a.rows - a.nonNull[c]>> # <<b.nonNull[c], b.rows - b.nonNull[c]>>
    <3>1. /\ m[c] = [nonNull |-> a.nonNull[c], null |-> a.rows - a.nonNull[c]]
          /\ n[c] = [nonNull |-> b.nonNull[c], null |-> b.rows - b.nonNull[c]]
      OBVIOUS
    <3>2. m[c] = n[c] <=> a.nonNull[c] = b.nonNull[c] /\ a.rows - a.nonNull[c] = b.rows - b.nonNull[c]
      BY <3>1
    <3> QED BY <3>2
  <2> QED BY <2>1
<1>3. {Line(m, n, c).column : c \in both} = both
  BY DEF Line
<1>4. {x.column : x \in {Line(m, n, c) : c \in both}} = {Line(m, n, c).column : c \in both}
  OBVIOUS
<1>5. ASSUME NEW c \in both
      PROVE  /\ Line(m, n, c).column = c
             /\ Line(m, n, c).from = [nonNull |-> a.nonNull[c], null |-> a.rows - a.nonNull[c]]
             /\ Line(m, n, c).to = [nonNull |-> b.nonNull[c], null |-> b.rows - b.nonNull[c]]
             /\ Line(m, n, c).notable <=> b.rows - b.nonNull[c] < a.rows - a.nonNull[c]
  <2>1. /\ m[c] = [nonNull |-> a.nonNull[c], null |-> a.rows - a.nonNull[c]]
        /\ n[c] = [nonNull |-> b.nonNull[c], null |-> b.rows - b.nonNull[c]]
        /\ a.nonNull[c] \in 0 .. a.rows /\ b.nonNull[c] \in 0 .. b.rows
    OBVIOUS
  <2>2. m[c].null > 0 /\ n[c].null < m[c].null <=> b.rows - b.nonNull[c] < a.rows - a.nonNull[c]
    BY <2>1
  <2>3. Line(m, n, c).notable <=> m[c].null > 0 /\ n[c].null < m[c].null
    BY Zenon DEF Line
  <2> QED BY <2>1, <2>2, <2>3 DEF Line
<1>6. ASSUME NEW x \in compareColumnStats(m, n)
      PROVE  /\ x.from = [nonNull |-> a.nonNull[x.column], null |-> a.rows - a.nonNull[x.column]]
             /\ x.to = [nonNull |-> b.nonNull[x.column], null |-> b.rows - b.nonNull[x.column]]
             /\ x.notable <=> b.rows - b.nonNull[x.column] < a.rows - a.nonNull[x.column]
  <2>1. PICK c \in both : x = Line(m, n, c)
    BY <1>1
  <2> QED BY <1>5, <2>1
<1> QED BY <1>1, <1>2, <1>3, <1>4, <1>6 DEF DriftOf

LEMMA DataReportOf ==
    ASSUME IInv, NEW p \in Procs, At(p, "done"), NEW d \in cmd[p].report.data,
           NEW a, a = cmd[p].base.truth[d.table], a # None,
           NEW b, b = cmd[p].snap.truth[d.table], b # None,
           d.table \in Settled(p)
    PROVE  /\ d.note # "skipped" => d.from = a.rows /\ d.to = b.rows /\ DriftOf(d.columns, a, b)
           /\ a.rows > LargeTableThreshold \/ b.rows > LargeTableThreshold => d.columns = {}
<1> DEFINE s == cmd[p].base
           u == cmd[p].snap
           t == d.table
           m == s.stats[t]
           n == u.stats[t]
           skipped == m.skipped \/ n.skipped
<1>1. CmdOK(cmd[p], db) /\ cmd[p].at = "done"
  BY DEF IInv, At
<1>2. Finished(s) /\ Finished(u) /\ cmd[p].report = Compare(s, u)
  BY <1>1 DEF CmdOK
<1>3. d \in compareStatistics(s.stats, u.stats)
  BY <1>2 DEF Compare
<1>4. t \in Existing(s) /\ t \in Existing(u) /\ t \notin s.moved /\ t \notin u.moved
  BY DEF Settled, Existing
<1>5. /\ t \in DOMAIN s.stats /\ t \in DOMAIN u.stats
      /\ t \in DOMAIN s.schema /\ t \in DOMAIN u.schema
  BY <1>2, <1>4 DEF Finished
<1>6. t \in Tables /\ a \in TableStates[t] /\ b \in TableStates[t]
  BY <1>2, <1>4, TruthOf DEF Finished
<1>7. a = s.truth[t] /\ b = u.truth[t]
  OBVIOUS
<1>8. /\ d.from = m.rows /\ d.to = n.rows /\ d.note = IF skipped THEN "skipped" ELSE ""
      /\ d.columns = IF skipped THEN {} ELSE compareColumnStats(m.columns, n.columns)
  <2> DEFINE f == s.stats
             g == u.stats
             Both(x) == DataChange(x, f[x].rows, g[x].rows,
                          IF f[x].skipped \/ g[x].skipped THEN "skipped" ELSE "",
                          IF f[x].skipped \/ g[x].skipped THEN {}
                          ELSE compareColumnStats(f[x].columns, g[x].columns))
  <2>1. \/ \E x \in DOMAIN g \ DOMAIN f : d = DataChange(x, 0, g[x].rows, "new", {})
        \/ \E x \in DOMAIN f \ DOMAIN g : d = DataChange(x, f[x].rows, 0, "removed", {})
        \/ \E x \in DOMAIN f \cap DOMAIN g : d = Both(x)
    BY <1>3 DEF compareStatistics
  <2>2. ~ \E x \in DOMAIN g \ DOMAIN f : d = DataChange(x, 0, g[x].rows, "new", {})
    BY <1>5 DEF DataChange
  <2>3. ~ \E x \in DOMAIN f \ DOMAIN g : d = DataChange(x, f[x].rows, 0, "removed", {})
    BY <1>5 DEF DataChange
  <2>4. PICK x \in DOMAIN f \cap DOMAIN g : d = Both(x)
    BY <2>1, <2>2, <2>3
  <2>5. x = t
    BY <2>4 DEF DataChange
  <2> DEFINE note == IF skipped THEN "skipped" ELSE ""
             drift == IF skipped THEN {} ELSE compareColumnStats(m.columns, n.columns)
  <2>6. d = DataChange(t, m.rows, n.rows, note, drift)
    BY <2>4, <2>5
  <2> HIDE DEF note, drift
  <2>7. d.from = m.rows /\ d.to = n.rows /\ d.note = note /\ d.columns = drift
    BY <2>6 DEF DataChange
  <2> QED BY <2>7 DEF note, drift
<1> HIDE DEF m, n, t
<1>9. CASE skipped
  BY <1>8, <1>9
<1>10. CASE ~skipped
  <2>1. TrueStats(m, s, t, DOMAIN s.schema[t]) /\ TrueStats(n, u, t, DOMAIN u.schema[t])
    BY <1>2, <1>4, <1>10 DEF Finished, StatsOK, m, n
  <2>2. DOMAIN s.schema[t] = DOMAIN a.cols /\ DOMAIN u.schema[t] = DOMAIN b.cols
    BY <1>2, <1>4, <1>5, <1>7 DEF Finished, SnapOK
  <2>3. /\ m.rows = a.rows /\ n.rows = b.rows
        /\ a.rows <= LargeTableThreshold /\ b.rows <= LargeTableThreshold
        /\ CountsOf(m.columns, a) /\ CountsOf(n.columns, b)
    BY <1>4, <1>7, <2>1, <2>2 DEF TrueStats, CountsOf
  <2>4. Counted(a) /\ Counted(b)
    BY <1>6, TableFacts DEF Counted
  <2>5. ~(a.rows > LargeTableThreshold) /\ ~(b.rows > LargeTableThreshold)
    <3>1. a.rows \in Nat /\ b.rows \in Nat /\ LargeTableThreshold \in Nat
      BY <2>4, SnapshotsAssumption DEF Counted
    <3>2. \A x, y \in Nat : x <= y => ~(x > y)
      OBVIOUS
    <3> QED BY <2>3, <3>1, <3>2, Zenon
  <2>6. DriftOf(compareColumnStats(m.columns, n.columns), a, b)
    BY <2>3, <2>4, ColumnDrift
  <2>7. d.columns = compareColumnStats(m.columns, n.columns) /\ d.from = a.rows /\ d.to = b.rows
    BY <1>8, <1>10, <2>3
  <2> QED BY <2>5, <2>6, <2>7
<1> QED BY <1>9, <1>10

\* The drift a report shows is the drift there was (capturer.go:177-243,
\* comparator.go:172-237).
THEOREM DataReportsAreTrue == Spec => []DataReportIsTrue
<1>1. IInv => DataReportIsTrue
  BY DataReportOf DEF DataReportIsTrue, DriftOf
<1> QED BY <1>1, Invariant, PTL

\* The counters and the locks, of which the rest says nothing.
Bounds ==
    /\ locked \subseteq Tables
    /\ changes \in 0 .. MaxChanges /\ commands \in 0 .. MaxCommands

LEMMA NextBounds == Bounds /\ [Next]_vars => Bounds'
<1> SUFFICES ASSUME Bounds, [Next]_vars PROVE Bounds'
  OBVIOUS
<1> USE SnapshotsAssumption DEF Bounds, dbVars
<1>1. CASE UNCHANGED vars
  BY <1>1 DEF vars
<1>2. ASSUME NEW p \in Procs, NEW c, Starts(p, c) PROVE Bounds'
  BY <1>2 DEF Starts
<1>3. ASSUME NEW p \in Procs, Step(p) PROVE Bounds'
  BY <1>3 DEF Step, LoadFrom, LoadTo, listTables, captureColumns, captureIndexes, queryRowCount,
              queryColumnStats, TimesOut, StatsFail, CaptureFails, Save, SaveFails, Report, Exits
<1>4. ASSUME NEW p \in Procs, Killed(p) \/ LosesConnection(p) PROVE Bounds'
  BY <1>4 DEF Killed, LosesConnection
<1>5. ASSUME NEW l \in Labels, Delete(l) PROVE Bounds'
  BY <1>5 DEF Delete
<1>6. ASSUME NEW t \in Tables, NEW s, Becomes(t, s) PROVE changes' \in 0 .. MaxChanges
  BY <1>6 DEF Becomes
<1>7. ASSUME NEW t \in Tables, NEW s, Write(t, s) PROVE Bounds'
  BY <1>6, <1>7 DEF Write
<1>8. ASSUME NEW t \in Tables, MigrationLocks(t) PROVE Bounds'
  BY <1>8 DEF MigrationLocks
<1>9. ASSUME NEW t \in Tables, NEW s, MigrationCommits(t, s) PROVE Bounds'
  BY <1>6, <1>9 DEF MigrationCommits
<1> QED BY <1>1, <1>2, <1>3, <1>4, <1>5, <1>7, <1>8, <1>9 DEF Next, Take, CompareWith

\* Type correctness.
THEOREM TypeCorrect == Spec => []TypeOK
<1>1. Init => Bounds
  BY SnapshotsAssumption DEF Init, Bounds
<1>2. Spec => []Bounds
  BY <1>1, NextBounds, PTL DEF Spec
<1>3. ASSUME IInv, Bounds PROVE TypeOK
  <2>1. ASSUME NEW p \in Procs, cmd[p].at \in Capturing
        PROVE  /\ cmd[p].todo # {}
               /\ cmd[p].at = "column" => /\ cmd[p].left # {}
                                          /\ Smallest(cmd[p].todo) \in DOMAIN cmd[p].snap.stats
    BY <1>3, <2>1 DEF IInv, CmdOK, InCapture
  <2> QED BY <1>3, <2>1 DEF IInv, DbOK, CmdOK, Bounds, TypeOK, Capturing
<1> QED BY <1>2, <1>3, Invariant, PTL
=============================================================================
