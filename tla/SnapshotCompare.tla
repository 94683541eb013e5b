--------------------------- MODULE SnapshotCompare ---------------------------
(***************************************************************************)
(* internal/snapshot/comparator.go: the difference of two snapshots.       *)
(*                                                                         *)
(* A schema is a function from column names to columns, a column a record  *)
(* of its type, nullability and default; statistics are the row count and, *)
(* per column, the two counts the report shows.  Distinct counts, minima   *)
(* and maxima come with the non-NULL count and are only compared, and      *)
(* indexes are captured but never compared: both are left out.  The report *)
(* sorts its lines; here they are sets.                                    *)
(***************************************************************************)
EXTENDS Integers

SchemaChange(kind, t, c, detail, breaking) ==
    [kind |-> kind, table |-> t, column |-> c, detail |-> detail, breaking |-> breaking]

Whole == 0              \* the empty Column of a change that is the table's

diffColumn_DefaultFirst(t, c, a, b) ==       \* mutant: the default is looked at first
    CASE a.default # b.default -> SchemaChange("modified", t, c, "default", FALSE)
      [] a.default = b.default /\ a.type # b.type -> SchemaChange("modified", t, c, "type", TRUE)
      [] OTHER -> SchemaChange("modified", t, c, "nullable", a.nullable)
\* One change for a column, the first that applies.
diffColumn(t, c, a, b) ==
    CASE a.type # b.type -> SchemaChange("modified", t, c, "type", TRUE)
      [] a.type = b.type /\ a.nullable /\ ~b.nullable ->
            SchemaChange("modified", t, c, "NULL to NOT NULL", TRUE)
      [] a.type = b.type /\ ~a.nullable /\ b.nullable ->
            SchemaChange("modified", t, c, "NOT NULL to NULL", FALSE)
      [] OTHER -> SchemaChange("modified", t, c, "default", FALSE)

compareColumns(t, a, b) ==
         {SchemaChange("added", t, c, "column added", FALSE) : c \in DOMAIN b \ DOMAIN a}
    \cup {SchemaChange("removed", t, c, "column removed", TRUE) : c \in DOMAIN a \ DOMAIN b}
    \cup {diffColumn(t, c, a[c], b[c]) : c \in {c \in DOMAIN a \cap DOMAIN b : a[c] # b[c]}}

compareSchema(a, b) ==
         {SchemaChange("added", t, Whole, "table added", FALSE) : t \in DOMAIN b \ DOMAIN a}
    \cup {SchemaChange("removed", t, Whole, "table removed", TRUE) : t \in DOMAIN a \ DOMAIN b}
    \cup UNION {compareColumns(t, a[t], b[t]) : t \in DOMAIN a \cap DOMAIN b}

compareColumnStats_Grown(a, b) ==            \* mutant: any change of the NULLs is notable
    {[column |-> c, from |-> a[c], to |-> b[c], notable |-> a[c].null # b[c].null] :
        c \in {c \in DOMAIN a \cap DOMAIN b : a[c] # b[c]}}
\* Only columns both sides have: the schema's report has the others.
compareColumnStats(a, b) ==
    {[column |-> c, from |-> a[c], to |-> b[c],
      notable |-> a[c].null > 0 /\ b[c].null < a[c].null] :
        c \in {c \in DOMAIN a \cap DOMAIN b : a[c] # b[c]}}

DataChange(t, from, to, note, columns) ==
    [table |-> t, from |-> from, to |-> to, note |-> note, columns |-> columns]

\* Every table has its line, changed or not.
compareStatistics(a, b) ==
         {DataChange(t, 0, b[t].rows, "new", {}) : t \in DOMAIN b \ DOMAIN a}
    \cup {DataChange(t, a[t].rows, 0, "removed", {}) : t \in DOMAIN a \ DOMAIN b}
    \cup {LET skipped == a[t].skipped \/ b[t].skipped IN
            DataChange(t, a[t].rows, b[t].rows,
                       IF skipped THEN "skipped" ELSE "",
                       IF skipped THEN {} ELSE compareColumnStats(a[t].columns, b[t].columns)) :
          t \in DOMAIN a \cap DOMAIN b}

Compare(a, b) == [schema |-> compareSchema(a.schema, b.schema),
                  data   |-> compareStatistics(a.stats, b.stats)]
=============================================================================
