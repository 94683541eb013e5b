------------------------------ MODULE Snapshots ------------------------------
(***************************************************************************)
(* `dbwatch snapshot take`, `compare` and `delete` (cmd/dbwatch/           *)
(* snapshot.go), the capture of a snapshot from a database that goes on    *)
(* changing (internal/snapshot/capturer.go) and the SQLite store of        *)
(* snapshots by label (internal/storage/db.go).                            *)
(*                                                                         *)
(* Every query of a capture is a step of its own: there is no transaction  *)
(* around them.  Postgres and its other clients are the environment.  A    *)
(* table is its columns, its row count and, per column, the number of rows *)
(* in which the column is not NULL: all that a capture asks for and that   *)
(* SnapshotCompare keeps.                                                  *)
(***************************************************************************)
EXTENDS SnapshotCompare, FiniteSets

CONSTANTS
    Procs,          \* the processes that run `take` and `compare`
    Tables,         \* table names: numbers, in the order of ORDER BY
    Columns,        \* column names: numbers, in ordinal position
    TableStates,    \* per table, what it can be
    FirstDbs,       \* what the database can be at first
    Filters,        \* values of --snapshot-tables and --snapshot-exclude
    Labels,         \* snapshot labels
    NoMin,          \* the types that have no MIN in Postgres: boolean, json
    None,
    LargeTableThreshold,
    MaxChanges,     \* bound: changes other clients make to the database
    MaxCommands     \* bound: take and compare commands that are run

ASSUME SnapshotsAssumption ==
    /\ Tables \subseteq Nat /\ Columns \subseteq Nat \ {Whole}
    /\ \A s \in UNION {TableStates[t] : t \in Tables} :
         /\ DOMAIN s.cols \subseteq Columns /\ DOMAIN s.nonNull = DOMAIN s.cols
         /\ s.rows \in Nat
         /\ \A c \in DOMAIN s.cols :
              /\ s.cols[c].nullable \in BOOLEAN
              /\ s.nonNull[c] \in 0 .. s.rows
              /\ s.cols[c].nullable \/ s.nonNull[c] = s.rows
    /\ Filters \subseteq [include : SUBSET Tables, exclude : SUBSET Tables]
    /\ \A d \in FirstDbs : DOMAIN d = Tables /\ \A t \in Tables : d[t] \in TableStates[t] \cup {None}
    /\ None \notin Labels \cup UNION {TableStates[t] : t \in Tables}
    /\ LargeTableThreshold \in Nat /\ MaxChanges \in Nat /\ MaxCommands \in Nat

Smallest(S) == CHOOSE n \in S : \A m \in S : n <= m

VARIABLES
    db,             \* per table: what it is, None when it does not exist
    locked,         \* the tables an open migration holds an exclusive lock on
    changes,        \* changes made so far
    stored,         \* the SQLite file: per label its snapshot, or None
    cmd,            \* per process: the command it runs and where it is
    commands        \* commands run so far

dbVars == <<db, locked, changes>>
vars   == <<dbVars, stored, cmd, commands>>

\* A snapshot; truth, moved and asked are history: the database when the tables
\* were listed, the tables changed between then and their last query, and the
\* tables the filter lets through.
EmptySnapshot == [schema |-> << >>, stats |-> << >>, truth |-> db, moved |-> {}, asked |-> {}]

NoReport == [schema |-> {}, data |-> {}]

Idle == [at |-> "idle", what |-> "none", filter |-> None, from |-> None, to |-> None,
         conn |-> "closed", todo |-> {}, left |-> {}, base |-> None, snap |-> None,
         report |-> NoReport]

Places == {"idle", "loadFrom", "loadTo", "list", "columns", "indexes", "count", "column",
           "captured", "failed", "done"}

TypeOK ==
    /\ DOMAIN db = Tables /\ \A t \in Tables : db[t] \in TableStates[t] \cup {None}
    /\ locked \subseteq Tables
    /\ changes \in 0 .. MaxChanges /\ commands \in 0 .. MaxCommands
    /\ DOMAIN stored = Labels /\ DOMAIN cmd = Procs
    /\ \A p \in Procs :
         /\ cmd[p].at \in Places
         /\ cmd[p].what \in {"none", "take", "compare"}
         /\ cmd[p].conn \in {"closed", "open", "lost", "timed out"}
         /\ cmd[p].todo \subseteq Tables /\ cmd[p].left \subseteq Columns
         /\ cmd[p].at \in {"columns", "indexes", "count", "column"} => cmd[p].todo # {}
         /\ cmd[p].at = "column" =>
              cmd[p].left # {} /\ Smallest(cmd[p].todo) \in DOMAIN cmd[p].snap.stats
------------------------------------------------------------------------------
Init ==
    /\ db \in FirstDbs
    /\ locked = {} /\ changes = 0
    /\ stored = [l \in Labels |-> None]
    /\ cmd = [p \in Procs |-> Idle]
    /\ commands = 0

With(f, x, v) == [y \in DOMAIN f \cup {x} |-> IF y = x THEN v ELSE f[y]]

At(p, where) == cmd[p].at = where
Table(p) == Smallest(cmd[p].todo)       \* the table the capture is at
Goto(p, where) == cmd' = [cmd EXCEPT ![p].at = where]
------------------------------------------------------------------------------
(* The commands, up to their first query. *)

Starts(p, c) ==
    /\ At(p, "idle")
    /\ commands < MaxCommands
    /\ commands' = commands + 1
    /\ cmd' = [cmd EXCEPT ![p] = c]
    /\ UNCHANGED <<dbVars, stored>>

\* runSnapshotTake; --snapshot-tables and --snapshot-exclude together are rejected.
Take(p, l, f) ==
    /\ f.include = {} \/ f.exclude = {}
    /\ Starts(p, [Idle EXCEPT !.at = "list", !.what = "take", !.from = l, !.filter = f,
                              !.conn = "open"])

\* runSnapshotCompare: to = None stands for the live database.
CompareWith(p, from, to) ==
    Starts(p, [Idle EXCEPT !.at = "loadFrom", !.what = "compare", !.from = from, !.to = to,
                           !.filter = [include |-> {}, exclude |-> {}]])

\* LoadSnapshot; a label that is not there ends the command.
LoadFrom(p) ==
    /\ At(p, "loadFrom")
    /\ LET s    == stored[cmd[p].from]
           live == cmd[p].to = None
       IN  cmd' = IF s = None THEN [cmd EXCEPT ![p].at = "failed"]
                  ELSE [cmd EXCEPT ![p].base = s,
                                   ![p].at   = IF live THEN "list" ELSE "loadTo",
                                   ![p].conn = IF live THEN "open" ELSE "closed"]
    /\ UNCHANGED <<dbVars, stored, commands>>

LoadTo(p) ==
    /\ At(p, "loadTo")
    /\ LET s == stored[cmd[p].to] IN
         cmd' = IF s = None THEN [cmd EXCEPT ![p].at = "failed"]
                ELSE [cmd EXCEPT ![p].snap = s, ![p].at = "captured"]
    /\ UNCHANGED <<dbVars, stored, commands>>
------------------------------------------------------------------------------
(* Capture. *)

included(f, t) ==
    CASE f.include # {}                    -> t \in f.include
      [] f.include = {} /\ f.exclude # {}  -> t \notin f.exclude
      [] OTHER                             -> TRUE

Connected(p) == cmd[p].conn = "open"

listTables(p) ==
    /\ At(p, "list") /\ Connected(p)
    /\ LET asked == {t \in Tables : included(cmd[p].filter, t)}
           todo  == {t \in asked : db[t] # None}
       IN  cmd' = [cmd EXCEPT ![p].todo = todo,
                              ![p].snap = [EmptySnapshot EXCEPT !.asked = asked],
                              ![p].at   = IF todo = {} THEN "captured" ELSE "columns"]
    /\ UNCHANGED <<dbVars, stored, commands>>

\* captureSchema: a table that is gone by now has no columns.
captureColumns(p) ==
    /\ At(p, "columns") /\ Connected(p)
    /\ LET t    == Table(p)
           cols == IF db[t] = None THEN << >> ELSE db[t].cols
       IN  cmd' = [cmd EXCEPT ![p].snap.schema = With(@, t, cols), ![p].at = "indexes"]
    /\ UNCHANGED <<dbVars, stored, commands>>

captureIndexes(p) ==
    /\ At(p, "indexes") /\ Connected(p)
    /\ Goto(p, "count")
    /\ UNCHANGED <<dbVars, stored, commands>>

\* captureStatistics is over for this table, with the given result.
TableDone(p, stats) ==
    LET t    == Table(p)
        rest == cmd[p].todo \ {t}
    IN  [cmd EXCEPT ![p].snap.stats = With(@, t, stats),
                    ![p].todo = rest, ![p].left = {},
                    ![p].at = IF rest = {} THEN "captured" ELSE "columns"]

Stats(rows, skipped, columns) == [rows |-> rows, skipped |-> skipped, columns |-> columns]
\* The statistics collected so far, with the table marked skipped.
Skipped(p) ==
    IF At(p, "count") THEN Stats(0, TRUE, << >>)
    ELSE [cmd[p].snap.stats[Table(p)] EXCEPT !.skipped = TRUE]

\* An exclusive lock on the table makes a query on it wait.
Answered(p) == Connected(p) /\ Table(p) \notin locked

\* COUNT( * ): an error skips the table, and so does a count above the threshold.
queryRowCount(p) ==
    /\ At(p, "count") /\ Answered(p)
    /\ LET t    == Table(p)
           cols == DOMAIN cmd[p].snap.schema[t]
           seen == Stats(db[t].rows, FALSE, << >>)
       IN  cmd' = CASE db[t] = None -> TableDone(p, Skipped(p))
                    [] db[t] # None /\ db[t].rows > LargeTableThreshold ->
                          TableDone(p, [seen EXCEPT !.skipped = TRUE])
                    [] db[t] # None /\ db[t].rows <= LargeTableThreshold /\ cols = {} ->
                          TableDone(p, seen)
                    [] OTHER -> [cmd EXCEPT ![p].snap.stats = With(@, t, seen),
                                            ![p].left = cols, ![p].at = "column"]
    /\ UNCHANGED <<dbVars, stored, commands>>

queryColumnStats_OneTooMany(p) ==            \* mutant: the last column does not end the table
    /\ At(p, "column") /\ Answered(p)
    /\ cmd' = [cmd EXCEPT ![p].left = @ \ {Smallest(@)}]
    /\ UNCHANGED <<dbVars, stored, commands>>
\* COUNT, MIN and MAX of a column: an error skips the table.  The number of NULLs
\* is taken from the row count that was read before.
queryColumnStats(p) ==
    /\ At(p, "column") /\ Answered(p)
    /\ LET t    == Table(p)
           c    == Smallest(cmd[p].left)
           have == cmd[p].snap.stats[t]
           n    == db[t].nonNull[c]
           now  == [have EXCEPT !.columns =
                       With(@, c, [nonNull |-> n, null |-> have.rows - n])]
       IN  cmd' = IF \/ db[t] = None \/ c \notin DOMAIN db[t].cols
                     \/ db[t].cols[c].type \in NoMin
                  THEN TableDone(p, Skipped(p))
                  ELSE IF cmd[p].left = {c} THEN TableDone(p, now)
                  ELSE [cmd EXCEPT ![p].snap.stats[t] = now, ![p].left = @ \ {c}]
    /\ UNCHANGED <<dbVars, stored, commands>>

TimesOut_CountOnly(p) ==                     \* mutant: the column queries get no deadline
    /\ At(p, "count") /\ Connected(p)
    /\ cmd' = [TableDone(p, Skipped(p)) EXCEPT ![p].conn = "timed out"]
    /\ UNCHANGED <<dbVars, stored, commands>>
\* PerTableTimeout passes while a statistics query waits or scans: the table is
\* skipped, and pgx closes the connection whose query was abandoned.
TimesOut(p) ==
    /\ At(p, "count") \/ At(p, "column")
    /\ Connected(p)
    /\ cmd' = [TableDone(p, Skipped(p)) EXCEPT ![p].conn = "timed out"]
    /\ UNCHANGED <<dbVars, stored, commands>>

\* A statistics query without a connection skips the table...
StatsFail(p) ==
    /\ At(p, "count") \/ At(p, "column")
    /\ ~Connected(p)
    /\ cmd' = TableDone(p, Skipped(p))
    /\ UNCHANGED <<dbVars, stored, commands>>

CaptureFails_SkipsTable(p) ==                \* mutant: so does the schema's
    /\ cmd[p].at \in {"list", "columns", "indexes"} /\ ~Connected(p)
    /\ cmd' = [cmd EXCEPT ![p].at = "captured",
                          ![p].snap = IF @ = None THEN EmptySnapshot ELSE @]
    /\ UNCHANGED <<dbVars, stored, commands>>
\* ...any other one fails the capture.
CaptureFails(p) ==
    /\ cmd[p].at \in {"list", "columns", "indexes"} /\ ~Connected(p)
    /\ Goto(p, "failed")
    /\ UNCHANGED <<dbVars, stored, commands>>
------------------------------------------------------------------------------
(* After the capture. *)

\* SaveSnapshot: one upsert, by label.
Save(p) ==
    /\ At(p, "captured") /\ cmd[p].what = "take"
    /\ stored' = [stored EXCEPT ![cmd[p].from] = cmd[p].snap]
    /\ cmd' = [cmd EXCEPT ![p] = Idle]
    /\ UNCHANGED <<dbVars, commands>>

\* The file is locked by another process, or the disk is full.
SaveFails(p) ==
    /\ At(p, "captured") /\ cmd[p].what = "take"
    /\ Goto(p, "failed")
    /\ UNCHANGED <<dbVars, stored, commands>>

Report(p) ==
    /\ At(p, "captured") /\ cmd[p].what = "compare"
    /\ cmd' = [cmd EXCEPT ![p].report = Compare(cmd[p].base, cmd[p].snap), ![p].at = "done"]
    /\ UNCHANGED <<dbVars, stored, commands>>

Exits(p) ==
    /\ At(p, "done") \/ At(p, "failed")
    /\ cmd' = [cmd EXCEPT ![p] = Idle]
    /\ UNCHANGED <<dbVars, stored, commands>>

Step(p) ==
    \/ LoadFrom(p) \/ LoadTo(p)
    \/ listTables(p) \/ captureColumns(p) \/ captureIndexes(p)
    \/ queryRowCount(p) \/ queryColumnStats(p) \/ TimesOut(p) \/ StatsFail(p) \/ CaptureFails(p)
    \/ Save(p) \/ SaveFails(p) \/ Report(p) \/ Exits(p)

\* Ctrl-C or a kill.
Killed(p) ==
    /\ ~At(p, "idle")
    /\ cmd' = [cmd EXCEPT ![p] = Idle]
    /\ UNCHANGED <<dbVars, stored, commands>>

\* The server or the network goes away.
LosesConnection(p) ==
    /\ Connected(p)
    /\ cmd[p].at \in {"list", "columns", "indexes", "count", "column"}
    /\ cmd' = [cmd EXCEPT ![p].conn = "lost"]
    /\ UNCHANGED <<dbVars, stored, commands>>

\* `snapshot delete`: one statement.
Delete(l) ==
    /\ stored[l] # None
    /\ stored' = [stored EXCEPT ![l] = None]
    /\ UNCHANGED <<dbVars, cmd, commands>>
------------------------------------------------------------------------------
(* The other clients of the database. *)

\* Table t becomes s; a capture that still has to query it is told nothing.
Becomes(t, s) ==
    /\ changes < MaxChanges /\ changes' = changes + 1
    /\ s # db[t]
    /\ db' = [db EXCEPT ![t] = s]
    /\ cmd' = [p \in Procs |->
                  IF t \in cmd[p].todo
                  THEN [cmd[p] EXCEPT !.snap.moved = @ \cup {t}] ELSE cmd[p]]

\* A transaction that inserts, updates or deletes rows commits.
Write(t, s) ==
    /\ db[t] # None /\ t \notin locked
    /\ s.cols = db[t].cols
    /\ Becomes(t, s)
    /\ UNCHANGED <<locked, stored, commands>>

\* A migration locks the table it is about to create, alter or drop (bound: there
\* is one migration at a time)...
MigrationLocks(t) ==
    /\ locked = {} /\ changes < MaxChanges
    /\ locked' = locked \cup {t}
    /\ UNCHANGED <<db, changes, stored, cmd, commands>>

\* ...and commits.
MigrationCommits(t, s) ==
    /\ t \in locked
    /\ locked' = locked \ {t}
    /\ Becomes(t, s)
    /\ UNCHANGED <<stored, commands>>

Next ==
    \/ \E p \in Procs :
         \/ \E l \in Labels, f \in Filters : Take(p, l, f)
         \/ \E from \in Labels, to \in Labels \cup {None} : CompareWith(p, from, to)
         \/ Step(p) \/ Killed(p) \/ LosesConnection(p)
    \/ \E l \in Labels : Delete(l)
    \/ \E t \in Tables :
         \/ \E s \in TableStates[t] : Write(t, s)
         \/ MigrationLocks(t)
         \/ \E s \in TableStates[t] \cup {None} : MigrationCommits(t, s)

Spec == Init /\ [][Next]_vars

\* A process runs, a query on an unlocked table is answered, a deadline passes.
FairSpec == Spec /\ \A p \in Procs : WF_vars(Step(p))
------------------------------------------------------------------------------
(***************************************************************************)
(* Properties.                                                             *)
(***************************************************************************)
\* Only a whole capture is ever stored, whatever failed, was interrupted or
\* changed under it (snapshot.go:81-88): every table that was listed and asked
\* for is there, and one not marked skipped has the statistics of every column.
SnapshotsAreWhole ==
    \A l \in Labels : stored[l] # None =>
        LET s == stored[l] IN
          /\ DOMAIN s.schema = {t \in s.asked : s.truth[t] # None}
          /\ DOMAIN s.stats = DOMAIN s.schema
          /\ \A t \in DOMAIN s.stats :
               s.stats[t].skipped \/ DOMAIN s.stats[t].columns = DOMAIN s.schema[t]

\* The tables whose state at the two ends of a report is known: both captures
\* asked for them, and nobody changed them while they were being captured.
Settled(p) == (cmd[p].base.asked \cap cmd[p].snap.asked)
                 \ (cmd[p].base.moved \cup cmd[p].snap.moved)

\* What can break a caller that uses column c of a table, given its columns
\* before and after.
Breaks(a, b, c) == /\ c \in DOMAIN a
                   /\ \/ c \notin DOMAIN b
                      \/ b[c].type # a[c].type
                      \/ a[c].nullable /\ ~b[c].nullable

\* What a report's schema changes say of column c of table t.
SaysOf(report, t, c)     == \E ch \in report : ch.table = t /\ ch.column = c
BreakingOf(report, t, c) == \E ch \in report : ch.table = t /\ ch.column = c /\ ch.breaking

\* End to end, from the database then to the database now: the report flags as
\* breaking exactly the tables and columns that break, and mentions exactly those
\* that changed (comparator.go:78-170), whatever other tables went through.
SchemaReportIsTrue ==
    \A p \in Procs : At(p, "done") =>
        \A t \in Settled(p) :
          LET before  == cmd[p].base.truth[t]
              after   == cmd[p].snap.truth[t]
              changed == cmd[p].report.schema
          IN  /\ SaysOf(changed, t, Whole) <=> (before = None) # (after = None)
              /\ BreakingOf(changed, t, Whole) <=> before # None /\ after = None
              /\ before # None /\ after # None =>
                   \A c \in Columns :
                     /\ BreakingOf(changed, t, c) <=> Breaks(before.cols, after.cols, c)
                     /\ SaysOf(changed, t, c) <=>
                          /\ c \in DOMAIN before.cols \cup DOMAIN after.cols
                          /\ ~(/\ c \in DOMAIN before.cols \cap DOMAIN after.cols
                               /\ before.cols[c] = after.cols[c])

\* The drift that is reported is the drift there was: true counts, no negative
\* number of NULLs, a warning exactly where NULLs have gone; and nothing is made
\* of a table whose statistics were not collected (comparator.go:172-237).
DataReportIsTrue ==
    \A p \in Procs : At(p, "done") =>
        \A d \in cmd[p].report.data :
          LET t == d.table
              a == cmd[p].base.truth[t]
              b == cmd[p].snap.truth[t]
              Nulls(s, c) == s.rows - s.nonNull[c]
          IN  t \in Settled(p) /\ a # None /\ b # None =>
                /\ d.note # "skipped" =>
                     /\ d.from = a.rows /\ d.to = b.rows
                     /\ {x.column : x \in d.columns} =
                           {c \in DOMAIN a.cols \cap DOMAIN b.cols :
                              <<a.nonNull[c], Nulls(a, c)>> # <<b.nonNull[c], Nulls(b, c)>>}
                     /\ \A x \in d.columns :
                          /\ x.from = [nonNull |-> a.nonNull[x.column], null |-> Nulls(a, x.column)]
                          /\ x.to = [nonNull |-> b.nonNull[x.column], null |-> Nulls(b, x.column)]
                          /\ x.notable <=> Nulls(b, x.column) < Nulls(a, x.column)
                /\ a.rows > LargeTableThreshold \/ b.rows > LargeTableThreshold => d.columns = {}

\* A command ends, though a migration may hold its lock for good: the per-table
\* deadline covers every query that can wait (capturer.go:181).
CommandEnds == \A p \in Procs : ~At(p, "idle") ~> At(p, "idle")

\* "A slow table is recorded as skipped rather than failing the whole snapshot"
\* (README.md:428, CHANGELOG.md:21): no capture fails for a deadline that passed.
SlowTableIsSkipped ==
    \A p \in Procs : At(p, "failed") => cmd[p].conn # "timed out"
=============================================================================
