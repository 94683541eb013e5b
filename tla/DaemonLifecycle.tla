--------------------------- MODULE DaemonLifecycle ----------------------------
(***************************************************************************)
(* cmd/dbwatch/main.go and internal/daemon: the processes that             *)
(* `dbwatch daemon start` and `dbwatch daemon stop` run, and the four      *)
(* things they share without a lock: the PID file and the socket path of a *)
(* name, the replication slot, the marker API's port.                      *)
(*                                                                         *)
(* A daemon has a main goroutine and three tasks (core.Run, the IPC        *)
(* server, the marker API); it ends when one of them fails or when it is   *)
(* signalled, and any process may be killed at any point.  Every daemon is *)
(* started with the default --slot and --marker-port.  Pids are not        *)
(* reused.                                                                 *)
(***************************************************************************)
EXTENDS Integers, FiniteSets

CONSTANTS Procs,        \* pids of the processes running `daemon start`
          Stops,        \* the processes running `daemon stop`
          Names,        \* values of --name
          None

ASSUME LifecycleAssumption == /\ None \notin Procs \cup Stops \cup Names
                              /\ Procs \cap {"nothing", "empty"} = {}

VARIABLES
    cmd,            \* per process: its --name, and whether it detaches
    pc,             \* per process: where its main goroutine is
    core, ipc, marker,  \* per process: its three tasks
    ctx,            \* the processes whose ctx is done
    killed,         \* history: the processes that were killed
    stop,           \* per `daemon stop`: where it is, its --name, the pid it read
    pidFile,        \* per name: what the PID file holds and who has it open
    sock,           \* per name: the process whose listener the socket path leads to
    slot, port      \* who holds the replication slot and the marker port

procVars == <<cmd, pc, core, ipc, marker, ctx, killed>>
fileVars == <<pidFile, sock>>
vars     == <<procVars, stop, fileVars, slot, port>>

NoFile == [holds |-> "nothing", writers |-> {}]

TypeOK ==
    /\ cmd \in [Procs -> [name : Names \cup {None}, detach : BOOLEAN]]
    /\ \A p \in Procs : pc[p] # "none" => cmd[p].name \in Names
    /\ pc \in [Procs -> {"none", "check", "rmpid", "rmsock", "spawn", "open", "write",
                         "up", "down", "exit", "gone"}]
    /\ core \in [Procs -> {"off", "start", "on", "failed"}]
    /\ ipc \in [Procs -> {"off", "start", "bind", "on", "closing", "failed"}]
    /\ marker \in [Procs -> {"off", "start", "on", "failed"}]
    /\ ctx \subseteq Procs /\ killed \subseteq Procs
    /\ stop \in [Stops -> [at : {"none", "wait", "rmpid", "rmsock", "done"},
                           name : Names \cup {None}, pid : Procs \cup {None}]]
    /\ \A s \in Stops : stop[s].at # "none" => stop[s].name \in Names
    /\ \A s \in Stops : stop[s].at = "wait" => stop[s].pid \in Procs
    /\ pidFile \in [Names -> [holds : Procs \cup {"nothing", "empty"}, writers : SUBSET Procs]]
    /\ sock \in [Names -> Procs \cup {None}]
    /\ slot \in Procs \cup {None} /\ port \in Procs \cup {None}
------------------------------------------------------------------------------
Init ==
    /\ cmd = [p \in Procs |-> [name |-> None, detach |-> FALSE]]
    /\ pc = [p \in Procs |-> "none"]
    /\ core = [p \in Procs |-> "off"]
    /\ ipc = [p \in Procs |-> "off"]
    /\ marker = [p \in Procs |-> "off"]
    /\ ctx = {} /\ killed = {}
    /\ stop = [s \in Stops |-> [at |-> "none", name |-> None, pid |-> None]]
    /\ pidFile = [n \in Names |-> NoFile]
    /\ sock = [n \in Names |-> None]
    /\ slot = None /\ port = None

NameOf(p) == cmd[p].name
At(p, where) == pc[p] = where
Goto(p, where) == pc' = [pc EXCEPT ![p] = where]

\* IsProcessRunning: kill(pid, 0)
Running(p) == pc[p] \notin {"none", "gone"}

RemovePid(n)    == pidFile' = [pidFile EXCEPT ![n] = NoFile]
RemoveSocket(n) == sock' = [sock EXCEPT ![n] = None]

\* The end of a process: its goroutines are gone and the kernel closes its
\* listeners; the socket file stays.
Ends(p) ==
    /\ Goto(p, "gone")
    /\ core' = [core EXCEPT ![p] = "off"]
    /\ ipc' = [ipc EXCEPT ![p] = "off"]
    /\ marker' = [marker EXCEPT ![p] = "off"]
    /\ port' = IF port = p THEN None ELSE port
------------------------------------------------------------------------------
(* runDaemonStart, up to where the daemon runs. *)

notMain == <<cmd, core, ipc, marker, ctx, killed, stop, slot, port>>

Begin(p, n, d) ==
    /\ At(p, "none")
    /\ d => \E child \in Procs \ {p} : At(child, "none")     \* bound: the child is one of Procs
    /\ cmd' = [cmd EXCEPT ![p] = [name |-> n, detach |-> d]]
    /\ Goto(p, "check")
    /\ UNCHANGED <<core, ipc, marker, ctx, killed, stop, fileVars, slot, port>>

CheckPid_NotAsked(p) ==                      \* mutant: a running daemon is no obstacle
    /\ At(p, "check")
    /\ Goto(p, "rmpid")
    /\ UNCHANGED <<notMain, fileVars>>
\* prepareDaemonStart; a file that is missing or cannot be parsed is no obstacle.
CheckPid(p) ==
    /\ At(p, "check")
    /\ LET pid == pidFile[NameOf(p)].holds IN
         Goto(p, IF pid \in Procs /\ Running(pid) THEN "gone" ELSE "rmpid")
    /\ UNCHANGED <<notMain, fileVars>>

RemoveStalePid(p) ==
    /\ At(p, "rmpid")
    /\ RemovePid(NameOf(p))
    /\ Goto(p, "rmsock")
    /\ UNCHANGED <<notMain, sock>>

RemoveStaleSocket(p) ==
    /\ At(p, "rmsock")
    /\ RemoveSocket(NameOf(p))
    /\ Goto(p, IF cmd[p].detach THEN "spawn" ELSE "open")
    /\ UNCHANGED <<notMain, pidFile>>

Spawn_NoName(p, child) ==                    \* mutant: --name is not handed on
    /\ At(p, "spawn") /\ At(child, "none")
    /\ pc' = [pc EXCEPT ![p] = "gone", ![child] = "check"]
    /\ UNCHANGED <<cmd, core, ipc, marker, ctx, killed, stop, fileVars, slot, port>>
\* startDetachedDaemon: the child runs `daemon start --daemon-child`, all of it.
\* What the parent still does, waiting for the two files to appear, changes nothing.
Spawn(p, child) ==
    /\ At(p, "spawn") /\ At(child, "none")
    /\ cmd' = [cmd EXCEPT ![child] = [name |-> NameOf(p), detach |-> FALSE]]
    /\ pc' = [pc EXCEPT ![p] = "gone", ![child] = "check"]
    /\ UNCHANGED <<core, ipc, marker, ctx, killed, stop, fileVars, slot, port>>

\* WritePIDFile is os.WriteFile: the file is created or truncated, then written.
OpenPid(p) ==
    /\ At(p, "open")
    /\ pidFile' = [pidFile EXCEPT ![NameOf(p)] = [holds   |-> "empty",
                                                  writers |-> @.writers \cup {p}]]
    /\ Goto(p, "write")
    /\ UNCHANGED <<notMain, sock>>

\* The write goes to the file that was opened, which another process may have
\* removed since.  Then the three tasks are started.
WritePid(p) ==
    /\ At(p, "write")
    /\ LET n == NameOf(p) IN
         pidFile' = IF p \in pidFile[n].writers
                    THEN [pidFile EXCEPT ![n] = [holds |-> p, writers |-> @.writers \ {p}]]
                    ELSE pidFile
    /\ Goto(p, "up")
    /\ core' = [core EXCEPT ![p] = "start"]
    /\ ipc' = [ipc EXCEPT ![p] = "start"]
    /\ \E m \in {"off", "start"} : marker' = [marker EXCEPT ![p] = m]       \* --no-marker
    /\ UNCHANGED <<cmd, ctx, killed, stop, sock, slot, port>>
------------------------------------------------------------------------------
(* The tasks. *)

notTasks == <<cmd, pc, ctx, killed, stop, pidFile>>

CoreStreams(p) ==
    /\ core[p] = "start" /\ slot = None
    /\ slot' = p
    /\ core' = [core EXCEPT ![p] = "on"]
    /\ UNCHANGED <<notTasks, ipc, marker, sock, port>>

\* createSlot: the slot exists already.
CoreRefused(p) ==
    /\ core[p] = "start" /\ slot # None
    /\ core' = [core EXCEPT ![p] = "failed"]
    /\ UNCHANGED <<notTasks, ipc, marker, sock, slot, port>>

\* Any other failure, or ctx done: Run returns.
CoreReturns(p) ==
    /\ core[p] \in {"start", "on"}
    /\ core' = [core EXCEPT ![p] = "failed"]
    /\ UNCHANGED <<notTasks, ipc, marker, sock, slot, port>>

\* Postgres drops the temporary slot some time after the connection has closed.
SlotDropped ==
    /\ slot # None
    /\ core[slot] \in {"failed", "off"}
    /\ slot' = None
    /\ UNCHANGED <<procVars, stop, fileVars, port>>

\* ListenAndServe: RemoveAll, Listen, and after ctx is done the listener's own
\* unlink and os.Remove, all by path.
IpcRemoves(p) ==
    /\ ipc[p] = "start"
    /\ RemoveSocket(NameOf(p))
    /\ ipc' = [ipc EXCEPT ![p] = "bind"]
    /\ UNCHANGED <<notTasks, core, marker, slot, port>>

IpcListens(p) ==
    /\ ipc[p] = "bind"
    /\ LET free == sock[NameOf(p)] = None IN
         /\ ipc' = [ipc EXCEPT ![p] = IF free THEN "on" ELSE "failed"]
         /\ sock' = IF free THEN [sock EXCEPT ![NameOf(p)] = p] ELSE sock
    /\ UNCHANGED <<notTasks, core, marker, slot, port>>

IpcCloses(p) ==
    /\ ipc[p] \in {"on", "closing"} /\ p \in ctx
    /\ RemoveSocket(NameOf(p))
    /\ ipc' = [ipc EXCEPT ![p] = IF @ = "on" THEN "closing" ELSE "off"]
    /\ UNCHANGED <<notTasks, core, marker, slot, port>>

MarkerListens(p) ==
    /\ marker[p] = "start" /\ port = None
    /\ port' = p
    /\ marker' = [marker EXCEPT ![p] = "on"]
    /\ UNCHANGED <<notTasks, core, ipc, sock, slot>>

\* The port is taken, by another daemon or another program.
MarkerRefused(p) ==
    /\ marker[p] = "start"
    /\ marker' = [marker EXCEPT ![p] = "failed"]
    /\ UNCHANGED <<notTasks, core, ipc, sock, slot, port>>

\* Shutdown returns nil, which main's loop ignores.
MarkerStops(p) ==
    /\ marker[p] = "on" /\ p \in ctx
    /\ port' = None
    /\ marker' = [marker EXCEPT ![p] = "off"]
    /\ UNCHANGED <<notTasks, core, ipc, sock, slot>>

Task(p) ==
    \/ CoreStreams(p) \/ CoreRefused(p) \/ CoreReturns(p)
    \/ IpcRemoves(p) \/ IpcListens(p) \/ IpcCloses(p)
    \/ MarkerListens(p) \/ MarkerRefused(p) \/ MarkerStops(p)
------------------------------------------------------------------------------
(* runDaemonForeground, from its select on. *)

\* mutant: the marker API's failure is only logged, as `tail` does
Over_MarkerIgnored(p) == p \in ctx \/ core[p] = "failed" \/ ipc[p] = "failed"
Over(p) == p \in ctx \/ core[p] = "failed" \/ ipc[p] = "failed" \/ marker[p] = "failed"

LoopReturns(p) ==
    /\ At(p, "up") /\ Over(p)
    /\ Goto(p, "down")
    /\ UNCHANGED <<notMain, fileVars>>

Defers_KeepPid(p) ==                         \* mutant: no defer RemoveFileIfExists
    /\ At(p, "down")
    /\ ctx' = ctx \cup {p}
    /\ Goto(p, "exit")
    /\ UNCHANGED <<cmd, core, ipc, marker, killed, stop, fileVars, slot, port>>
\* The defers: the PID file is removed, whoever's it is, and ctx is cancelled.
Defers(p) ==
    /\ At(p, "down")
    /\ RemovePid(NameOf(p))
    /\ ctx' = ctx \cup {p}
    /\ Goto(p, "exit")
    /\ UNCHANGED <<cmd, core, ipc, marker, killed, stop, sock, slot, port>>

\* The process exits without waiting for its goroutines.
Exit(p) ==
    /\ At(p, "exit")
    /\ Ends(p)
    /\ UNCHANGED <<cmd, ctx, killed, stop, fileVars, slot>>

Main(p) ==
    \/ CheckPid(p) \/ RemoveStalePid(p) \/ RemoveStaleSocket(p)
    \/ \E child \in Procs : Spawn(p, child)
    \/ OpenPid(p) \/ WritePid(p)
    \/ LoopReturns(p) \/ Defers(p) \/ Exit(p)

\* Ctrl-C, or the service manager, once NotifyContext is in place.
Interrupt(p) ==
    /\ pc[p] \in {"open", "write", "up"} /\ p \notin ctx
    /\ ctx' = ctx \cup {p}
    /\ UNCHANGED <<cmd, pc, core, ipc, marker, killed, stop, fileVars, slot, port>>

\* SIGKILL, a crash, the machine's end.
Kill(p) ==
    /\ Running(p)
    /\ Ends(p)
    /\ killed' = killed \cup {p}
    /\ UNCHANGED <<cmd, ctx, stop, fileVars, slot>>
------------------------------------------------------------------------------
(* runDaemonStop and StopProcess. *)

StopAt(s, where) == stop' = [stop EXCEPT ![s].at = where]

\* The PID file is read and, if it names a live process, SIGTERM is sent.
StopReads(s, n) ==
    /\ stop[s].at = "none"
    /\ LET pid  == pidFile[n].holds
           live == pid \in Procs /\ Running(pid)
       IN  /\ stop' = [stop EXCEPT ![s] =
                          [at   |-> CASE pid = "nothing" -> "rmsock"     \* not running
                                      [] pid = "empty"   -> "done"       \* invalid pid file
                                      [] OTHER           -> IF live THEN "wait" ELSE "rmpid",
                           name |-> n,
                           pid  |-> IF pid \in Procs THEN pid ELSE None]]
           /\ ctx' = IF live THEN ctx \cup {pid} ELSE ctx
    /\ UNCHANGED <<cmd, pc, core, ipc, marker, killed, fileVars, slot, port>>

StopSeesEnd_NoWait(s) ==                     \* mutant: SIGTERM is not waited for
    /\ stop[s].at = "wait"
    /\ StopAt(s, "rmpid")
    /\ UNCHANGED <<procVars, fileVars, slot, port>>
StopSeesEnd(s) ==
    /\ stop[s].at = "wait" /\ ~Running(stop[s].pid)
    /\ StopAt(s, "rmpid")
    /\ UNCHANGED <<procVars, fileVars, slot, port>>

\* The five seconds are over: SIGKILL.
StopKills(s) ==
    /\ stop[s].at = "wait" /\ Running(stop[s].pid)
    /\ Ends(stop[s].pid)
    /\ killed' = killed \cup {stop[s].pid}
    /\ StopAt(s, "rmpid")
    /\ UNCHANGED <<cmd, ctx, fileVars, slot>>

StopRemovesPid(s) ==
    /\ stop[s].at = "rmpid"
    /\ RemovePid(stop[s].name)
    /\ StopAt(s, "rmsock")
    /\ UNCHANGED <<procVars, sock, slot, port>>

StopRemovesSocket(s) ==
    /\ stop[s].at = "rmsock"
    /\ RemoveSocket(stop[s].name)
    /\ StopAt(s, "done")
    /\ UNCHANGED <<procVars, pidFile, slot, port>>

Stopping(s) == StopSeesEnd(s) \/ StopKills(s) \/ StopRemovesPid(s) \/ StopRemovesSocket(s)

Next ==
    \/ \E p \in Procs : \/ \E n \in Names, d \in BOOLEAN : Begin(p, n, d)
                        \/ Main(p) \/ Task(p) \/ Interrupt(p) \/ Kill(p)
    \/ SlotDropped
    \/ \E s \in Stops : \/ \E n \in Names : StopReads(s, n)
                        \/ Stopping(s)

Spec == Init /\ [][Next]_vars
------------------------------------------------------------------------------
(***************************************************************************)
(* One command at a time: a command is given only when the one before has  *)
(* done its work, and no daemon goes down while another one starts.        *)
(***************************************************************************)
Starting(p) == pc[p] \in {"check", "rmpid", "rmsock", "spawn", "open", "write"}

Quiet == /\ \A p \in Procs : pc[p] \in {"none", "up", "gone"}
         /\ \A s \in Stops : stop[s].at \in {"none", "done"}

OneAtATime ==
    /\ (\E p \in Procs, n \in Names, d \in BOOLEAN : Begin(p, n, d)) => Quiet
    /\ (\E s \in Stops, n \in Names : StopReads(s, n)) => Quiet
    /\ (\E p \in Procs : LoopReturns(p)) => \A q \in Procs : ~Starting(q)

\* Main goroutines run, when it is their turn.
SequentialSpec == /\ Init /\ [][Next /\ OneAtATime]_vars
                  /\ \A p \in Procs : WF_vars(Main(p) /\ OneAtATime)
------------------------------------------------------------------------------
(***************************************************************************)
(* Properties.                                                             *)
(***************************************************************************)
\* A PID file never names a daemon that has ended by itself, by whichever of
\* the five ways out of runDaemonForeground (main.go:486, 545-558); only a kill
\* leaves one behind.
PidFileHonest ==
    \A n \in Names : LET pid == pidFile[n].holds IN
        pid \in Procs => Running(pid) \/ pid \in killed

\* The files of a name lead to its daemon, whatever stale ones it found: its PID
\* file, so that `daemon status` reports it (TESTING.md:125), and once it accepts
\* connections its socket, so that `attach` finds it (main.go:453-457,
\* server.go:50-55).
FilesLeadToDaemon ==
    \A p \in Procs : At(p, "up") =>
        /\ pidFile[NameOf(p)].holds = p
        /\ ipc[p] = "on" /\ p \notin ctx => sock[NameOf(p)] = p

\* `daemon stop` cleans up the socket and the PID file (TESTING.md:130), and the
\* daemon it was asked to stop runs no more.
StopIsComplete ==
    [][\A s \in Stops : StopRemovesSocket(s) =>
          LET n == stop[s].name IN
            /\ pidFile'[n] = NoFile /\ sock'[n] = None
            /\ \A p \in Procs : NameOf(p) = n => ~Running(p)]_vars

\* A daemon that was signalled, or has lost its listener, its socket or its
\* marker API, ends; it does not live on half working (main.go:545-558).
FailureEndsDaemon ==
    \A p \in Procs :
        (core[p] = "failed" \/ ipc[p] = "failed" \/ marker[p] = "failed" \/ p \in ctx)
            ~> At(p, "gone")
=============================================================================
