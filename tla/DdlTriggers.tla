----------------------------- MODULE DdlTriggers -----------------------------
(***************************************************************************)
(* internal/ddlwatcher and its callers: the event triggers that report     *)
(* schema changes, which several processes install into and remove from    *)
(* one database, and the daemons that LISTEN for what they report.         *)
(*                                                                         *)
(* A process is `tail` or `daemon` with --track-ddl (core.Run), in one of  *)
(* its three install modes, or `ddl-tools install | uninstall`.  conn.Exec *)
(* without arguments sends its statements as one transaction; Install is   *)
(* three of them.  Both capture functions, and both triggers, are created  *)
(* and dropped in one transaction each, so one flag stands for either pair.*)
(* Postgres and its other clients are the environment.                     *)
(***************************************************************************)
EXTENDS Integers, Sequences, FiniteSets

CONSTANTS
    Procs,          \* the processes
    MaxCommands     \* bound: schema changes, and malformed notifications, so far

ASSUME DdlTriggersAssumption == MaxCommands \in Nat

VARIABLES
    functions, triggers,    \* whether the database has them
    proc,           \* per process: its mode, its privilege, where it is
    dml,            \* the processes whose replication listener runs
    queue,          \* per process: notifications that wait on its connection
    events,         \* per process: the DDL events it has pushed into its store
    commands,       \* schema changes and malformed notifications so far
    intact,         \* history: installed, and since then not uninstalled or torn
    holes,          \* history: the schema changes nobody had to report
    since           \* history: per process, commands when it began to listen

dbVars == <<functions, triggers>>
vars   == <<dbVars, proc, dml, queue, events, commands, intact, holes, since>>

DaemonModes == {"auto", "manual", "none"}
Modes       == DaemonModes \cup {"install", "uninstall"}
Places      == {"off", "check", "functions", "drop", "create", "uninstall",
                "listen", "on", "disabled", "ended"}

Change(n)  == [valid |-> TRUE, id |-> n]
Garbage(n) == [valid |-> FALSE, id |-> n]
Notification == [valid : BOOLEAN, id : 1 .. MaxCommands]

TypeOK ==
    /\ functions \in BOOLEAN /\ triggers \in BOOLEAN
    /\ proc \in [Procs -> [mode : Modes, super : BOOLEAN, at : Places]]
    /\ dml \subseteq Procs
    /\ queue \in [Procs -> Seq(Notification)]
    /\ events \in [Procs -> Seq({Change(n) : n \in 1 .. MaxCommands})]
    /\ commands \in 0 .. MaxCommands
    /\ intact \in BOOLEAN
    /\ holes \subseteq 1 .. MaxCommands
    /\ since \in [Procs -> 0 .. MaxCommands]
------------------------------------------------------------------------------
Init ==
    /\ functions = FALSE /\ triggers = FALSE
    /\ proc = [p \in Procs |-> [mode |-> "none", super |-> FALSE, at |-> "off"]]
    /\ dml = {}
    /\ queue = [p \in Procs |-> << >>]
    /\ events = [p \in Procs |-> << >>]
    /\ commands = 0
    /\ intact = FALSE /\ holes = {}
    /\ since = [p \in Procs |-> 0]

At(p, where)   == proc[p].at = where
Goto(p, where) == proc' = [proc EXCEPT ![p].at = where]
IsDaemon(p)    == proc[p].mode \in DaemonModes

\* prepareDDL, or the command, is over: a daemon goes on to listen, and if an
\* error ended it, without DDL tracking.
Prepared(p) == Goto(p, IF IsDaemon(p) THEN "listen" ELSE "ended")
Fails(p)    == Goto(p, IF IsDaemon(p) THEN "disabled" ELSE "ended")

\* A process stands between its DROP and its CREATE of the triggers.
Reinstalling == \E p \in Procs : At(p, "create")

\* A notification reaches every session that listens.
Notify(n) == queue' = [p \in Procs |-> IF At(p, "on") THEN Append(queue[p], n) ELSE queue[p]]

\* A schema change: the triggers, if they are there, report it when it commits.
Changes ==
    /\ commands < MaxCommands
    /\ commands' = commands + 1
    /\ IF triggers THEN Notify(Change(commands + 1)) ELSE UNCHANGED queue
    /\ holes' = IF intact /\ ~Reinstalling THEN holes ELSE holes \cup {commands + 1}
------------------------------------------------------------------------------
(* The set-up: prepareDDL, Install, Uninstall. *)

notSetUp == <<dml, queue, events, commands, holes, since>>

\* core.Run with TrackDDL, or a ddl-tools command.
Start(p, mode, super) ==
    /\ At(p, "off")
    /\ proc' = [proc EXCEPT ![p] =
                   [mode |-> mode, super |-> super,
                    at |-> CASE mode = "none"      -> "listen"
                             [] mode = "install"   -> IF super THEN "functions" ELSE "ended"
                             [] mode = "uninstall" -> "uninstall"
                             [] OTHER              -> "check"]]
    /\ UNCHANGED <<dbVars, intact, notSetUp>>

\* IsInstalled, and what each mode makes of the answer; Install asks for superuser.
CheckInstalled(p) ==
    /\ At(p, "check")
    /\ \/ triggers /\ Prepared(p)
       \/ ~triggers /\ (proc[p].mode = "manual" \/ ~proc[p].super) /\ Fails(p)
       \/ ~triggers /\ proc[p].mode = "auto" /\ proc[p].super /\ Goto(p, "functions")
    /\ UNCHANGED <<dbVars, intact, notSetUp>>

\* installSQL; CREATE FUNCTION is a schema change itself.
InstallFunctions(p) ==
    /\ At(p, "functions")
    /\ functions' = TRUE
    /\ Changes
    /\ Goto(p, "drop")
    /\ UNCHANGED <<triggers, dml, events, intact, since>>

\* dropTriggersSQL
DropTriggers(p) ==
    /\ At(p, "drop")
    /\ triggers' = FALSE
    /\ Goto(p, "create")
    /\ UNCHANGED <<functions, intact, notSetUp>>

CreateTriggers_CleansUp(p) ==                \* mutant: a failed CREATE is followed by a DROP
    /\ At(p, "create")
    /\ triggers' = (functions /\ ~triggers)
    /\ intact' = (intact \/ triggers')
    /\ IF triggers' THEN Prepared(p) ELSE Fails(p)
    /\ UNCHANGED <<functions, notSetUp>>
\* createTriggersSQL: fails if the triggers exist, or their functions do not.
CreateTriggers(p) ==
    /\ At(p, "create")
    /\ \/ /\ functions /\ ~triggers
          /\ triggers' = TRUE /\ intact' = TRUE
          /\ Prepared(p)
       \/ /\ ~functions \/ triggers
          /\ Fails(p)
          /\ UNCHANGED <<triggers, intact>>
    /\ UNCHANGED <<functions, notSetUp>>

\* uninstallSQL: with the triggers gone nothing reports the dropped functions.
Uninstall(p) ==
    /\ At(p, "uninstall")
    /\ functions' = FALSE /\ triggers' = FALSE
    /\ intact' = FALSE
    /\ Goto(p, "ended")
    /\ UNCHANGED notSetUp

SetUp(p) ==
    \/ CheckInstalled(p) \/ InstallFunctions(p) \/ DropTriggers(p) \/ CreateTriggers(p)
    \/ Uninstall(p)

\* The connection is refused or lost, or a statement fails for another reason.
StatementFails(p) ==
    /\ proc[p].at \in {"check", "functions", "drop", "create", "uninstall"}
    /\ intact' = (intact /\ ~At(p, "create"))
    /\ Fails(p)
    /\ UNCHANGED <<dbVars, notSetUp>>
------------------------------------------------------------------------------
(* The rest of core.Run. *)

Running(p) == proc[p].at \in {"listen", "on", "disabled"}

StartDml_IfTracking(p) ==                    \* mutant: Run returns the set-up's error
    /\ IsDaemon(p) /\ proc[p].at \in {"listen", "on"} /\ p \notin dml
    /\ dml' = dml \cup {p}
    /\ UNCHANGED <<dbVars, proc, queue, events, commands, intact, holes, since>>
\* l.Start: after the set-up, whatever came of it, beside the DDL goroutine.
StartDml(p) ==
    /\ IsDaemon(p) /\ Running(p) /\ p \notin dml
    /\ dml' = dml \cup {p}
    /\ UNCHANGED <<dbVars, proc, queue, events, commands, intact, holes, since>>

\* Listener.Start, up to LISTEN.
Listen(p) ==
    /\ At(p, "listen")
    /\ Goto(p, "on")
    /\ since' = [since EXCEPT ![p] = commands]
    /\ UNCHANGED <<dbVars, dml, queue, events, commands, intact, holes>>

Receive_PushesAll(p) ==                      \* mutant: parsePayload accepts anything
    /\ At(p, "on") /\ queue[p] # << >>
    /\ queue' = [queue EXCEPT ![p] = Tail(@)]
    /\ events' = [events EXCEPT ![p] = Append(@, Head(queue[p]))]
    /\ UNCHANGED <<dbVars, proc, dml, commands, intact, holes, since>>
\* One turn of the loop: a malformed payload is skipped, the rest is pushed.
Receive(p) ==
    /\ At(p, "on") /\ queue[p] # << >>
    /\ queue' = [queue EXCEPT ![p] = Tail(@)]
    /\ events' = IF Head(queue[p]).valid
                 THEN [events EXCEPT ![p] = Append(@, Head(queue[p]))] ELSE events
    /\ UNCHANGED <<dbVars, proc, dml, commands, intact, holes, since>>

\* The DDL connection is refused or lost: nobody opens another one.
ListenerStops(p) ==
    /\ At(p, "listen") \/ At(p, "on")
    /\ Goto(p, "disabled")
    /\ queue' = [queue EXCEPT ![p] = << >>]
    /\ UNCHANGED <<dbVars, dml, events, commands, intact, holes, since>>

\* ctx is done, or the process is killed, between any two statements.
Ends(p) ==
    /\ proc[p].at \notin {"off", "ended"}
    /\ Goto(p, "ended")
    /\ dml' = dml \ {p}
    /\ queue' = [queue EXCEPT ![p] = << >>]
    /\ intact' = (intact /\ ~At(p, "create"))
    /\ UNCHANGED <<dbVars, events, commands, holes, since>>
------------------------------------------------------------------------------
(* The other clients of the database. *)

OtherChanges ==
    /\ Changes
    /\ UNCHANGED <<dbVars, proc, dml, events, intact, since>>

\* Anyone may NOTIFY on the channel.
OtherNotifies ==
    /\ commands < MaxCommands
    /\ commands' = commands + 1
    /\ Notify(Garbage(commands + 1))
    /\ holes' = holes \cup {commands + 1}
    /\ UNCHANGED <<dbVars, proc, dml, events, intact, since>>

Next ==
    \/ \E p \in Procs :
         \/ \E mode \in Modes, super \in BOOLEAN : Start(p, mode, super)
         \/ SetUp(p) \/ StatementFails(p)
         \/ StartDml(p) \/ Listen(p) \/ Receive(p) \/ ListenerStops(p) \/ Ends(p)
    \/ OtherChanges \/ OtherNotifies

Spec == Init /\ [][Next]_vars

\* Postgres answers a statement, or its connection breaks; goroutines run.
FairSpec == Spec /\ \A p \in Procs : /\ WF_vars(SetUp(p) \/ StatementFails(p))
                                     /\ WF_vars(StartDml(p))
------------------------------------------------------------------------------
(***************************************************************************)
(* Properties.                                                             *)
(***************************************************************************)
\* However installs cross each other (installer.go:52-69): once one has
\* succeeded the triggers are there, with their functions, until somebody
\* uninstalls or dies half-way, except while an install is between its DROP and
\* its CREATE.
InstallationHolds == intact => functions /\ (triggers \/ Reinstalling)

\* All that a daemon's listener was sent: what it has pushed and what still waits.
Stream(p) == events[p] \o queue[p]

\* A daemon that listens gets every schema change made since, in order and once,
\* except those made when nothing was installed or an install was under way
\* (listener.go:48-70, sql.go:22-74).
MissedOnlyInAHole ==
    \A p \in Procs : At(p, "on") =>
        /\ \A i, j \in DOMAIN Stream(p) : i < j => Stream(p)[i].id < Stream(p)[j].id
        /\ \A n \in since[p] + 1 .. commands :
             n \in holes \/ \E i \in DOMAIN Stream(p) : Stream(p)[i] = Change(n)

\* DDL set-up never keeps a process from tracking data: whatever the set-up comes
\* to, replication starts, unless the process is stopped (runner.go:26-28, 64-76).
DmlStarts ==
    \A p \in Procs :
        (IsDaemon(p) /\ ~At(p, "off")) ~> (p \in dml \/ At(p, "ended"))
=============================================================================
