---------------------------- MODULE LifecycleProofs ---------------------------
(***************************************************************************)
(* Theorems about DaemonLifecycle, for any number of processes, of `daemon *)
(* stop` commands and of names.  What is proved of Spec holds whatever     *)
(* commands overlap.                                                       *)
(***************************************************************************)
EXTENDS DaemonLifecycle, TLAPS

(* Types. *)

LEMMA TypeInit == Init => TypeOK
BY LifecycleAssumption DEF Init, TypeOK, NoFile

\* The end of a process keeps the variables it touches in their types.
LEMMA EndsType ==
    ASSUME TypeOK, NEW p \in Procs, pc[p] # "none", Ends(p)
    PROVE  /\ pc' \in [Procs -> {"none", "check", "rmpid", "rmsock", "spawn", "open", "write",
                                 "up", "down", "exit", "gone"}]
           /\ \A q \in Procs : pc'[q] # "none" => pc[q] # "none"
           /\ core' \in [Procs -> {"off", "start", "on", "failed"}]
           /\ ipc' \in [Procs -> {"off", "start", "bind", "on", "closing", "failed"}]
           /\ marker' \in [Procs -> {"off", "start", "on", "failed"}]
           /\ port' \in Procs \cup {None}
<1>1. /\ pc' = [pc EXCEPT ![p] = "gone"] /\ core' = [core EXCEPT ![p] = "off"]
      /\ ipc' = [ipc EXCEPT ![p] = "off"] /\ marker' = [marker EXCEPT ![p] = "off"]
      /\ port' \in {None, port}
  BY DEF Ends, Goto
<1>2. /\ pc' \in [Procs -> {"none", "check", "rmpid", "rmsock", "spawn", "open", "write",
                            "up", "down", "exit", "gone"}]
      /\ \A q \in Procs : pc'[q] # "none" => pc[q] # "none"
  BY <1>1 DEF TypeOK
<1>3. core' \in [Procs -> {"off", "start", "on", "failed"}]
  BY <1>1 DEF TypeOK
<1>4. ipc' \in [Procs -> {"off", "start", "bind", "on", "closing", "failed"}]
  BY <1>1 DEF TypeOK
<1>5. marker' \in [Procs -> {"off", "start", "on", "failed"}]
  BY <1>1 DEF TypeOK
<1> QED BY <1>1, <1>2, <1>3, <1>4, <1>5 DEF TypeOK

LEMMA StopType ==
    ASSUME TypeOK, NEW s \in Stops, stop[s].at # "none",
           NEW a \in {"rmpid", "rmsock", "done"}, StopAt(s, a)
    PROVE  /\ stop' \in [Stops -> [at : {"none", "wait", "rmpid", "rmsock", "done"},
                                   name : Names \cup {None}, pid : Procs \cup {None}]]
           /\ \A t \in Stops : stop'[t].at # "none" => stop'[t].name \in Names
           /\ \A t \in Stops : stop'[t].at = "wait" => stop'[t].pid \in Procs
<1> DEFINE R == [at : {"none", "wait", "rmpid", "rmsock", "done"},
                 name : Names \cup {None}, pid : Procs \cup {None}]
<1>1. stop \in [Stops -> R] /\ stop' = [stop EXCEPT ![s] = [stop[s] EXCEPT !.at = a]]
  BY DEF TypeOK, StopAt
<1>2. PICK r : r = [stop[s] EXCEPT !.at = a]
  OBVIOUS
<1>3. r \in R /\ r.at = a /\ r.name = stop[s].name
  BY <1>1, <1>2
<1>4. stop' \in [Stops -> R] /\ \A t \in Stops : stop'[t] = IF t = s THEN r ELSE stop[t]
  BY <1>1, <1>2, <1>3
<1>5. a # "wait"
  OBVIOUS
<1> HIDE DEF R
<1>6. \A t \in Stops : stop'[t].at # "none" => stop'[t].name \in Names
  BY <1>3, <1>4 DEF TypeOK
<1>7. \A t \in Stops : stop'[t].at = "wait" => stop'[t].pid \in Procs
  BY <1>3, <1>4, <1>5 DEF TypeOK
<1> QED BY <1>4, <1>6, <1>7 DEF R

\* Every step keeps the variables in their types.
LEMMA TypeStep == TypeOK /\ [Next]_vars => TypeOK'
<1> SUFFICES ASSUME TypeOK, [Next]_vars PROVE TypeOK'
  OBVIOUS
<1> USE DEF TypeOK, At, Goto, NameOf, notMain, notTasks, procVars, fileVars
<1>1. ASSUME NEW p \in Procs, NEW n \in Names, NEW d \in BOOLEAN, Begin(p, n, d) PROVE TypeOK'
  BY <1>1, LifecycleAssumption DEF Begin
<1>2. ASSUME NEW p \in Procs, CheckPid(p) PROVE TypeOK'
  BY <1>2 DEF CheckPid
<1>3. ASSUME NEW p \in Procs, RemoveStalePid(p) PROVE TypeOK'
  BY <1>3 DEF RemoveStalePid, RemovePid, NoFile
<1>4. ASSUME NEW p \in Procs, RemoveStaleSocket(p) PROVE TypeOK'
  BY <1>4 DEF RemoveStaleSocket, RemoveSocket
<1>5. ASSUME NEW p \in Procs, NEW child \in Procs, Spawn(p, child) PROVE TypeOK'
  BY <1>5, LifecycleAssumption DEF Spawn
<1>6. ASSUME NEW p \in Procs, OpenPid(p) PROVE TypeOK'
  BY <1>6 DEF OpenPid
<1>7. ASSUME NEW p \in Procs, WritePid(p) PROVE TypeOK'
  BY <1>7 DEF WritePid
<1>8. ASSUME NEW p \in Procs, LoopReturns(p) PROVE TypeOK'
  BY <1>8 DEF LoopReturns
<1>8a. ASSUME NEW p \in Procs, Defers(p) PROVE TypeOK'
  BY <1>8a DEF Defers, RemovePid, NoFile
<1>9. ASSUME NEW p \in Procs, Exit(p) \/ Kill(p) PROVE TypeOK'
  <2>1. /\ pc[p] # "none" /\ Ends(p) /\ killed' \subseteq Procs
        /\ UNCHANGED <<cmd, ctx, stop, pidFile, sock, slot>>
    BY <1>9 DEF Exit, Kill, Running
  <2> QED BY <2>1, EndsType
<1>10. ASSUME NEW p \in Procs, Interrupt(p) PROVE TypeOK'
  BY <1>10 DEF Interrupt
<1>10a. ASSUME NEW p \in Procs, CoreStreams(p) \/ CoreRefused(p) \/ CoreReturns(p) PROVE TypeOK'
  <2>1. /\ \E c \in {"on", "failed"} : core' = [core EXCEPT ![p] = c]
        /\ slot' \in {p, slot}
    BY <1>10a DEF CoreStreams, CoreRefused, CoreReturns
  <2> QED BY <1>10a, <2>1 DEF CoreStreams, CoreRefused, CoreReturns
<1>10b. ASSUME NEW p \in Procs, IpcRemoves(p) \/ IpcListens(p) \/ IpcCloses(p) PROVE TypeOK'
  <2>1. /\ ipc' \in [Procs -> {"off", "start", "bind", "on", "closing", "failed"}]
        /\ sock' \in [Names -> Procs \cup {None}]
    BY <1>10b DEF IpcRemoves, IpcListens, IpcCloses, RemoveSocket
  <2> QED BY <1>10b, <2>1 DEF IpcRemoves, IpcListens, IpcCloses
<1>10c. ASSUME NEW p \in Procs, MarkerListens(p) \/ MarkerRefused(p) \/ MarkerStops(p) PROVE TypeOK'
  <2>1. /\ marker' \in [Procs -> {"off", "start", "on", "failed"}]
        /\ port' \in Procs \cup {None}
    BY <1>10c DEF MarkerListens, MarkerRefused, MarkerStops
  <2> QED BY <1>10c, <2>1 DEF MarkerListens, MarkerRefused, MarkerStops
<1>11. CASE SlotDropped
  BY <1>11 DEF SlotDropped
<1>12. ASSUME NEW s \in Stops, NEW n \in Names, StopReads(s, n) PROVE TypeOK'
  BY <1>12 DEF StopReads
<1>13. ASSUME NEW s \in Stops, StopSeesEnd(s) \/ StopRemovesPid(s) \/ StopRemovesSocket(s)
       PROVE  TypeOK'
  <2>1. PICK a \in {"rmpid", "rmsock", "done"} : stop[s].at # "none" /\ StopAt(s, a)
    BY <1>13 DEF StopSeesEnd, StopRemovesPid, StopRemovesSocket
  <2>2. /\ pidFile' = pidFile \/ pidFile' = [pidFile EXCEPT ![stop[s].name] = NoFile]
        /\ sock' = sock \/ sock' = [sock EXCEPT ![stop[s].name] = None]
        /\ UNCHANGED <<procVars, slot, port>>
    BY <1>13 DEF StopSeesEnd, StopRemovesPid, StopRemovesSocket, RemovePid, RemoveSocket
  <2>4. /\ pidFile' \in [Names -> [holds : Procs \cup {"nothing", "empty"}, writers : SUBSET Procs]]
        /\ sock' \in [Names -> Procs \cup {None}]
    BY <2>2 DEF NoFile
  <2>3. /\ stop' \in [Stops -> [at : {"none", "wait", "rmpid", "rmsock", "done"},
                                name : Names \cup {None}, pid : Procs \cup {None}]]
        /\ \A t \in Stops : stop'[t].at # "none" => stop'[t].name \in Names
        /\ \A t \in Stops : stop'[t].at = "wait" => stop'[t].pid \in Procs
    BY <2>1, StopType
  <2> QED BY <2>2, <2>3, <2>4
<1>13a. ASSUME NEW s \in Stops, StopKills(s) PROVE TypeOK'
  <2>1. PICK p \in Procs : /\ pc[p] # "none" /\ Ends(p)
                           /\ killed' = killed \cup {p} /\ StopAt(s, "rmpid")
                           /\ stop[s].at # "none" /\ UNCHANGED <<cmd, ctx, pidFile, sock, slot>>
    BY <1>13a DEF StopKills, Running
  <2>2. /\ stop' \in [Stops -> [at : {"none", "wait", "rmpid", "rmsock", "done"},
                                name : Names \cup {None}, pid : Procs \cup {None}]]
        /\ \A t \in Stops : stop'[t].at # "none" => stop'[t].name \in Names
        /\ \A t \in Stops : stop'[t].at = "wait" => stop'[t].pid \in Procs
    BY <2>1, StopType
  <2> QED BY <2>1, <2>2, EndsType
<1>14. CASE UNCHANGED vars
  BY <1>14 DEF vars
<1> QED BY <1>1, <1>2, <1>3, <1>4, <1>5, <1>6, <1>7, <1>8, <1>8a, <1>9, <1>10, <1>10a, <1>10b, <1>10c,
          <1>11, <1>12, <1>13, <1>13a, <1>14
        DEF Next, Main, Task, Stopping

\* Every variable keeps its type.
THEOREM TypeCorrect == Spec => []TypeOK
BY TypeInit, TypeStep, PTL DEF Spec
------------------------------------------------------------------------------
(* PID files, whatever commands overlap. *)

\* A PID file names a daemon of its name that has not gone through its defers.
PidInv ==
    \A n \in Names, p \in Procs : pidFile[n].holds = p =>
        /\ NameOf(p) = n
        /\ pc[p] \in {"up", "down"} \/ (pc[p] = "gone" /\ p \in killed)

LEMMA PidStep == TypeOK /\ PidInv /\ [Next]_vars => PidInv'
<1> SUFFICES ASSUME TypeOK, PidInv, [Next]_vars PROVE PidInv'
  OBVIOUS
<1> USE DEF At, Goto, NameOf, notMain, notTasks, procVars, fileVars
<1>1. CASE UNCHANGED <<cmd, pc, killed, pidFile>>
  BY <1>1 DEF PidInv
\* A process that has not been up yet is named nowhere.
<1>2. ASSUME NEW p \in Procs, pc[p] \notin {"up", "down", "gone"}, NEW n \in Names
      PROVE  pidFile[n].holds # p
  BY <1>2 DEF PidInv
<1>3. ASSUME NEW p \in Procs, NEW n \in Names, NEW d \in BOOLEAN, Begin(p, n, d) PROVE PidInv'
  <2>1. /\ pc[p] = "none" /\ UNCHANGED <<pidFile, killed>>
        /\ \A q \in Procs : q # p => pc'[q] = pc[q] /\ cmd'[q] = cmd[q]
    BY <1>3 DEF Begin, TypeOK
  <2> QED BY <1>2, <2>1 DEF PidInv
<1>4. ASSUME NEW p \in Procs, NEW child \in Procs, Spawn(p, child) PROVE PidInv'
  <2>1. /\ pc[p] = "spawn" /\ pc[child] = "none" /\ UNCHANGED <<pidFile, killed>>
        /\ \A q \in Procs : q # p /\ q # child => pc'[q] = pc[q] /\ cmd'[q] = cmd[q]
    BY <1>4 DEF Spawn, TypeOK
  <2> QED BY <1>2, <2>1 DEF PidInv
<1>5. ASSUME NEW p \in Procs, CheckPid(p) PROVE PidInv'
  <2>1. /\ pc[p] = "check" /\ UNCHANGED <<cmd, pidFile, killed>>
        /\ \A q \in Procs : q # p => pc'[q] = pc[q]
    BY <1>5 DEF CheckPid, TypeOK
  <2> QED BY <1>2, <2>1 DEF PidInv
<1>6. ASSUME NEW p \in Procs, RemoveStalePid(p) \/ RemoveStaleSocket(p) \/ OpenPid(p)
      PROVE  PidInv'
  <2>1. /\ pc[p] \in {"rmpid", "rmsock", "open"} /\ UNCHANGED <<cmd, killed>>
        /\ \A q \in Procs : q # p => pc'[q] = pc[q]
    BY <1>6 DEF RemoveStalePid, RemoveStaleSocket, OpenPid, TypeOK
  <2>2. \A n \in Names : pidFile'[n] = pidFile[n] \/ pidFile'[n].holds \in {"nothing", "empty"}
    BY <1>6 DEF RemoveStalePid, RemoveStaleSocket, OpenPid, RemovePid, NoFile, TypeOK
  <2> QED BY <1>2, <2>1, <2>2, LifecycleAssumption DEF PidInv
<1>7. ASSUME NEW p \in Procs, WritePid(p) PROVE PidInv'
  <2>1. /\ pc[p] = "write" /\ pc'[p] = "up" /\ UNCHANGED <<cmd, killed>>
        /\ \A q \in Procs : q # p => pc'[q] = pc[q]
    BY <1>7 DEF WritePid, TypeOK
  <2>2. \A n \in Names : pidFile'[n] = pidFile[n] \/ (n = NameOf(p) /\ pidFile'[n].holds = p)
    BY <1>7 DEF WritePid, TypeOK
  <2> QED BY <1>2, <2>1, <2>2 DEF PidInv
<1>8. ASSUME NEW p \in Procs, LoopReturns(p) PROVE PidInv'
  <2>1. /\ pc[p] = "up" /\ pc'[p] = "down" /\ UNCHANGED <<cmd, pidFile, killed>>
        /\ \A q \in Procs : q # p => pc'[q] = pc[q]
    BY <1>8 DEF LoopReturns, TypeOK
  <2> QED BY <2>1 DEF PidInv
<1>9. ASSUME NEW p \in Procs, Defers(p) PROVE PidInv'
  <2>1. /\ pc[p] = "down" /\ UNCHANGED <<cmd, killed>>
        /\ \A q \in Procs : q # p => pc'[q] = pc[q]
    BY <1>9 DEF Defers, TypeOK
  <2>2. \A n \in Names : IF n = NameOf(p) THEN pidFile'[n].holds = "nothing"
                                          ELSE pidFile'[n] = pidFile[n]
    BY <1>9 DEF Defers, RemovePid, NoFile, TypeOK
  <2> QED BY <2>1, <2>2, LifecycleAssumption DEF PidInv
<1>10. ASSUME NEW p \in Procs, Exit(p) PROVE PidInv'
  <2>1. /\ pc[p] = "exit" /\ UNCHANGED <<cmd, pidFile, killed>>
        /\ \A q \in Procs : q # p => pc'[q] = pc[q]
    BY <1>10 DEF Exit, Ends, TypeOK
  <2> QED BY <1>2, <2>1 DEF PidInv
<1>11. ASSUME NEW p \in Procs, Ends(p), killed' = killed \cup {p}, UNCHANGED <<cmd, pidFile>>
       PROVE  PidInv'
  <2>1. pc'[p] = "gone" /\ \A q \in Procs : q # p => pc'[q] = pc[q]
    BY <1>11 DEF Ends, TypeOK
  <2> QED BY <1>11, <2>1 DEF PidInv
<1>12. ASSUME NEW p \in Procs, Kill(p) PROVE PidInv'
  BY <1>11, <1>12 DEF Kill
<1>13. ASSUME NEW s \in Stops, StopKills(s) PROVE PidInv'
  BY <1>11, <1>13 DEF StopKills, TypeOK
<1>14. ASSUME NEW s \in Stops, StopRemovesPid(s) PROVE PidInv'
  <2>1. /\ UNCHANGED <<cmd, pc, killed>>
        /\ \A n \in Names : pidFile'[n] = pidFile[n] \/ pidFile'[n].holds = "nothing"
    BY <1>14 DEF StopRemovesPid, RemovePid, NoFile, TypeOK
  <2> QED BY <2>1, LifecycleAssumption DEF PidInv
<1>15. ASSUME NEW p \in Procs, Task(p) PROVE PidInv'
  BY <1>1, <1>15 DEF Task, CoreStreams, CoreRefused, CoreReturns, IpcRemoves, IpcListens, IpcCloses,
                     MarkerListens, MarkerRefused, MarkerStops
<1>16. ASSUME NEW p \in Procs, Interrupt(p) PROVE PidInv'
  BY <1>1, <1>16 DEF Interrupt
<1>17. CASE SlotDropped
  BY <1>1, <1>17 DEF SlotDropped
<1>18. ASSUME NEW s \in Stops,
              (\E n \in Names : StopReads(s, n)) \/ StopSeesEnd(s) \/ StopRemovesSocket(s)
       PROVE  PidInv'
  BY <1>1, <1>18 DEF StopReads, StopSeesEnd, StopRemovesSocket
<1>19. CASE UNCHANGED vars
  BY <1>1, <1>19 DEF vars
<1> QED BY <1>3, <1>4, <1>5, <1>6, <1>7, <1>8, <1>9, <1>10, <1>12, <1>13, <1>14, <1>15, <1>16,
           <1>17, <1>18, <1>19 DEF Next, Main, Stopping

\* A PID file names a process that runs or was killed, and never one that has
\* ended by itself (main.go:486, 545-558).
THEOREM PidFilesAreHonest == Spec => []PidFileHonest
<1>1. Init => PidInv
  BY LifecycleAssumption DEF Init, PidInv, NoFile
<1>2. PidInv => PidFileHonest
  BY DEF PidInv, PidFileHonest, Running
<1> QED BY <1>1, <1>2, TypeInit, TypeStep, PidStep, PTL DEF Spec
------------------------------------------------------------------------------
(* One command at a time. *)

SeqNext == Next /\ OneAtATime

Idle(s)   == stop[s].at \in {"none", "done"}
Daemon(p) == pc[p] \in {"up", "down", "exit"}
SameName(p, q) == NameOf(p) = NameOf(q)

\* While a process starts, no other command is under way.
Alone ==
    \A p \in Procs : Starting(p) =>
        /\ \A q \in Procs : q # p => pc[q] \in {"none", "up", "gone"}
        /\ \A s \in Stops : Idle(s)

\* A process that has passed the check is the only one of its name.
Cleared ==
    \A p, q \in Procs :
        Starting(p) /\ pc[p] # "check" /\ q # p /\ SameName(p, q) => ~Running(q)

\* A name has one daemon, and only a daemon has tasks.
OneDaemon ==
    /\ \A p, q \in Procs : Daemon(p) /\ Daemon(q) /\ SameName(p, q) => p = q
    /\ \A p \in Procs : ipc[p] # "off" => Daemon(p)

\* Its files are its own, and a missing PID file is not about to be written.
Files ==
    /\ \A p \in Procs : pc[p] = "write" => p \in pidFile[NameOf(p)].writers
    /\ \A p \in Procs : pc[p] = "up" => pidFile[NameOf(p)].holds = p
    /\ \A p \in Procs : pc[p] = "up" /\ ipc[p] = "on" /\ p \notin ctx => sock[NameOf(p)] = p
    /\ \A n \in Names : pidFile[n].holds = "nothing" => pidFile[n].writers = {}

\* A stop waits for the daemon of its name, and removes files of a name that
\* nobody runs under.
StopInv ==
    \A s \in Stops :
        /\ stop[s].at = "wait" =>
              \A p \in Procs : NameOf(p) = stop[s].name /\ Running(p) => p = stop[s].pid
        /\ stop[s].at \in {"rmpid", "rmsock"} =>
              \A p \in Procs : NameOf(p) = stop[s].name => ~Running(p)
        /\ stop[s].at = "rmsock" => pidFile[stop[s].name] = NoFile

SeqInv == TypeOK /\ PidInv /\ Alone /\ Cleared /\ OneDaemon /\ Files /\ StopInv

\* A process ends.
LEMMA EndsStep ==
    ASSUME SeqInv, NEW p \in Procs, Ends(p), UNCHANGED <<cmd, ctx, pidFile, sock>>,
           \A s \in Stops : stop'[s] = stop[s] \/ (stop[s].at = "wait" /\ stop[s].pid = p /\
                               stop'[s].at = "rmpid" /\ stop'[s].name = stop[s].name)
    PROVE  Alone' /\ Cleared' /\ OneDaemon' /\ Files' /\ StopInv'
<1> USE DEF SeqInv, NameOf, SameName, Daemon, Running, Starting, Idle
<1>1. /\ pc'[p] = "gone" /\ ipc'[p] = "off"
      /\ \A q \in Procs : q # p => pc'[q] = pc[q] /\ ipc'[q] = ipc[q]
      /\ cmd' = cmd
  BY DEF Ends, Goto, TypeOK
<1>2. Alone'
  BY <1>1 DEF Alone
<1>3. Cleared'
  BY <1>1 DEF Cleared
<1>4. OneDaemon'
  BY <1>1 DEF OneDaemon
<1>5. Files'
  BY <1>1 DEF Files
<1>6. StopInv'
  BY <1>1 DEF StopInv
<1> QED BY <1>2, <1>3, <1>4, <1>5, <1>6

\* A step that leaves the processes where they are.
LEMMA TaskStep ==
    ASSUME SeqInv, UNCHANGED <<cmd, pc, stop, pidFile>>, ctx \subseteq ctx',
           \/ UNCHANGED <<ipc, sock>>
           \/ \E p \in Procs : IpcRemoves(p) \/ IpcListens(p) \/ IpcCloses(p)
    PROVE  Alone' /\ Cleared' /\ OneDaemon' /\ Files' /\ StopInv'
<1> USE DEF SeqInv, NameOf, SameName, Daemon, Running, Starting, Idle
<1>1. Alone' /\ Cleared' /\ StopInv'
  BY DEF Alone, Cleared, StopInv
<1>2. CASE UNCHANGED <<ipc, sock>>
  BY <1>1, <1>2 DEF OneDaemon, Files
<1>3. ASSUME NEW p \in Procs, IpcRemoves(p) \/ IpcListens(p) \/ IpcCloses(p)
      PROVE  OneDaemon' /\ Files'
  <2>1. /\ ipc[p] # "off"
        /\ \A q \in Procs : q # p => ipc'[q] = ipc[q]
        /\ \A n \in Names : n # NameOf(p) => sock'[n] = sock[n]
    BY <1>3 DEF IpcRemoves, IpcListens, IpcCloses, RemoveSocket, TypeOK
  <2>2. Daemon(p) /\ NameOf(p) \in Names
    BY <2>1 DEF OneDaemon, TypeOK
  <2>3. ipc'[p] = "on" /\ p \notin ctx' => sock'[NameOf(p)] = p
    BY <1>3, <2>2 DEF IpcRemoves, IpcListens, IpcCloses, RemoveSocket, TypeOK
  <2>4. OneDaemon'
    BY <2>1, <2>2 DEF OneDaemon
  <2>5. \A q \in Procs : pc[q] = "up" => NameOf(q) \in Names
    BY DEF TypeOK
  <2>6. ASSUME NEW q \in Procs, pc[q] = "up", ipc'[q] = "on", q \notin ctx'
        PROVE  sock'[NameOf(q)] = q
    <3>1. CASE q = p
      BY <2>3, <2>6, <3>1
    <3>2. CASE q # p
      <4>1. NameOf(q) # NameOf(p) /\ ipc[q] = "on" /\ q \notin ctx
        BY <2>1, <2>2, <2>6, <3>2 DEF OneDaemon
      <4> QED BY <2>1, <2>5, <2>6, <4>1 DEF Files
    <3> QED BY <3>1, <3>2
  <2> QED BY <2>4, <2>6 DEF Files
<1> QED BY <1>1, <1>2, <1>3

\* The steps of runDaemonStart.
LEMMA StartStep ==
    ASSUME SeqInv, OneAtATime, NEW p \in Procs,
           \/ \E n \in Names, d \in BOOLEAN : Begin(p, n, d)
           \/ \E child \in Procs : Spawn(p, child)
           \/ CheckPid(p) \/ RemoveStalePid(p) \/ RemoveStaleSocket(p) \/ OpenPid(p) \/ WritePid(p)
    PROVE  Alone' /\ Cleared' /\ OneDaemon' /\ Files' /\ StopInv'
<1> USE DEF SeqInv, NameOf, SameName, Daemon, Running, Starting, Idle, At, Goto, notMain, fileVars
<1>1. ASSUME NEW n \in Names, NEW d \in BOOLEAN, Begin(p, n, d)
      PROVE  Alone' /\ Cleared' /\ OneDaemon' /\ Files' /\ StopInv'
  <2>1. /\ \A q \in Procs : pc[q] \in {"none", "up", "gone"}
        /\ \A s \in Stops : stop[s].at \in {"none", "done"}
    BY <1>1 DEF OneAtATime, Quiet
  <2>2. /\ pc[p] = "none" /\ pc'[p] = "check" /\ UNCHANGED <<ipc, ctx, stop, pidFile, sock>>
        /\ \A q \in Procs : q # p => pc'[q] = pc[q] /\ cmd'[q] = cmd[q]
    BY <1>1 DEF Begin, TypeOK
  <2>3. Alone'
    BY <2>1, <2>2 DEF Alone
  <2>4. Cleared'
    BY <2>1, <2>2 DEF Cleared
  <2>5. OneDaemon'
    BY <2>2 DEF OneDaemon
  <2>6. Files'
    BY <2>2 DEF Files
  <2>7. StopInv'
    BY <2>1, <2>2 DEF StopInv
  <2> QED BY <2>3, <2>4, <2>5, <2>6, <2>7
<1>2. ASSUME NEW child \in Procs, Spawn(p, child)
      PROVE  Alone' /\ Cleared' /\ OneDaemon' /\ Files' /\ StopInv'
  <2>1. /\ pc[p] = "spawn" /\ pc'[p] = "gone" /\ pc[child] = "none" /\ pc'[child] = "check"
        /\ cmd'[p] = cmd[p]
        /\ \A q \in Procs : q # p /\ q # child => pc'[q] = pc[q] /\ cmd'[q] = cmd[q]
        /\ UNCHANGED <<ipc, ctx, stop, pidFile, sock>>
    BY <1>2 DEF Spawn, TypeOK
  <2>2. /\ \A q \in Procs : q # p => pc[q] \in {"none", "up", "gone"}
        /\ \A s \in Stops : stop[s].at \in {"none", "done"}
    BY <2>1 DEF Alone
  <2>3. Alone'
    BY <2>1, <2>2 DEF Alone
  <2>4. Cleared'
    BY <2>1, <2>2 DEF Cleared
  <2>5. OneDaemon'
    BY <2>1 DEF OneDaemon
  <2>6. Files'
    BY <2>1 DEF Files
  <2>7. StopInv'
    BY <2>1, <2>2 DEF StopInv
  <2> QED BY <2>3, <2>4, <2>5, <2>6, <2>7
<1>3. ASSUME CheckPid(p) PROVE Alone' /\ Cleared' /\ OneDaemon' /\ Files' /\ StopInv'
  <2>1. /\ pc[p] = "check" /\ pc'[p] \in {"gone", "rmpid"}
        /\ \A q \in Procs : q # p => pc'[q] = pc[q]
        /\ UNCHANGED <<cmd, ipc, ctx, stop, pidFile, sock>>
    BY <1>3 DEF CheckPid, TypeOK
  <2>2. /\ \A q \in Procs : q # p => pc[q] \in {"none", "up", "gone"}
        /\ \A s \in Stops : stop[s].at \in {"none", "done"}
    BY <2>1 DEF Alone
  <2>3. ASSUME NEW q \in Procs, pc[q] = "up", SameName(p, q) PROVE pc'[p] = "gone"
    <3>1. pidFile[NameOf(p)].holds = q
      BY <2>3 DEF Files
    <3> QED BY <1>3, <2>3, <3>1 DEF CheckPid, TypeOK
  <2>4. Alone' /\ StopInv'
    BY <2>1, <2>2 DEF Alone, StopInv
  <2>5. Cleared'
    BY <2>1, <2>2, <2>3 DEF Cleared
  <2>6. OneDaemon'
    BY <2>1 DEF OneDaemon
  <2>7. Files'
    BY <2>1 DEF Files
  <2> QED BY <2>4, <2>5, <2>6, <2>7
\* What the process does to the files of its name concerns no other daemon.
<1>4. ASSUME pc[p] \in {"rmpid", "rmsock", "open", "write"}
      PROVE  /\ \A q \in Procs : q # p => pc[q] \in {"none", "up", "gone"}
             /\ \A s \in Stops : stop[s].at \in {"none", "done"}
             /\ \A q \in Procs : pc[q] = "up" => NameOf(q) # NameOf(p) /\ NameOf(q) \in Names
             /\ NameOf(p) \in Names
             /\ ~Daemon(p) /\ ipc[p] = "off"
  BY <1>4 DEF Alone, Cleared, OneDaemon, TypeOK
<1>5. ASSUME RemoveStalePid(p) \/ RemoveStaleSocket(p) \/ OpenPid(p)
      PROVE  Alone' /\ Cleared' /\ OneDaemon' /\ Files' /\ StopInv'
  <2>1. /\ pc[p] \in {"rmpid", "rmsock", "open"}
        /\ \/ pc'[p] \in {"rmsock", "spawn", "open"}
           \/ pc'[p] = "write" /\ p \in pidFile'[NameOf(p)].writers
        /\ \A q \in Procs : q # p => pc'[q] = pc[q]
        /\ UNCHANGED <<cmd, ipc, ctx, stop>>
    BY <1>4, <1>5 DEF RemoveStalePid, RemoveStaleSocket, OpenPid, TypeOK
  <2>2. /\ \A n \in Names : n # NameOf(p) => pidFile'[n] = pidFile[n] /\ sock'[n] = sock[n]
        /\ \A n \in Names : pidFile'[n].holds = "nothing" => pidFile'[n].writers = {}
    <3>1. /\ \A n \in Names : pidFile[n].holds = "nothing" => pidFile[n].writers = {}
          /\ pidFile = [n \in Names |-> pidFile[n]] /\ sock = [n \in Names |-> sock[n]]
      BY DEF Files, TypeOK
    <3>2. CASE RemoveStalePid(p)
      <4>1. pidFile' = [pidFile EXCEPT ![NameOf(p)] = NoFile] /\ sock' = sock
        BY <3>2 DEF RemoveStalePid, RemovePid
      <4> QED BY <3>1, <4>1 DEF NoFile
    <3>3. CASE RemoveStaleSocket(p)
      <4>1. sock' = [sock EXCEPT ![NameOf(p)] = None] /\ pidFile' = pidFile
        BY <3>3 DEF RemoveStaleSocket, RemoveSocket
      <4> QED BY <3>1, <4>1
    <3>4. CASE OpenPid(p)
      <4>1. PICK f : f.holds = "empty" /\ pidFile' = [pidFile EXCEPT ![NameOf(p)] = f]
        BY <3>4 DEF OpenPid
      <4>2. sock' = sock
        BY <3>4 DEF OpenPid
      <4> QED BY <3>1, <4>1, <4>2
    <3> QED BY <1>5, <3>2, <3>3, <3>4
  <2>3. Alone'
    BY <1>4, <2>1 DEF Alone
  <2>4. Cleared'
    BY <1>4, <2>1 DEF Cleared
  <2>5. OneDaemon'
    BY <2>1 DEF OneDaemon
  <2>6. Files'
    BY <1>4, <2>1, <2>2 DEF Files
  <2>7. StopInv'
    BY <1>4, <2>1 DEF StopInv
  <2> QED BY <2>3, <2>4, <2>5, <2>6, <2>7
<1>6. ASSUME WritePid(p) PROVE Alone' /\ Cleared' /\ OneDaemon' /\ Files' /\ StopInv'
  <2>1. /\ pc[p] = "write" /\ pc'[p] = "up" /\ ipc'[p] = "start"
        /\ \A q \in Procs : q # p => pc'[q] = pc[q] /\ ipc'[q] = ipc[q]
        /\ UNCHANGED <<cmd, ctx, stop, sock>>
    BY <1>6 DEF WritePid, TypeOK
  <2>2. /\ pidFile'[NameOf(p)].holds = p
        /\ \A n \in Names : n # NameOf(p) => pidFile'[n] = pidFile[n]
    <3>1. p \in pidFile[NameOf(p)].writers
      BY <2>1 DEF Files
    <3> QED BY <1>4, <1>6, <2>1, <3>1 DEF WritePid, TypeOK
  <2>3. p # "nothing"
    BY LifecycleAssumption
  <2>4. Alone'
    BY <1>4, <2>1 DEF Alone
  <2>5. Cleared'
    BY <1>4, <2>1 DEF Cleared
  <2>6. OneDaemon'
    BY <1>4, <2>1 DEF OneDaemon
  <2>7. Files'
    BY <1>4, <2>1, <2>2, <2>3 DEF Files
  <2>8. StopInv'
    BY <1>4, <2>1 DEF StopInv
  <2> QED BY <2>4, <2>5, <2>6, <2>7, <2>8
<1> QED BY <1>1, <1>2, <1>3, <1>5, <1>6

\* A daemon goes down.
LEMMA DownStep ==
    ASSUME SeqInv, OneAtATime, NEW p \in Procs, LoopReturns(p) \/ Defers(p)
    PROVE  Alone' /\ Cleared' /\ OneDaemon' /\ Files' /\ StopInv'
<1> USE DEF SeqInv, NameOf, SameName, Daemon, Running, Starting, Idle, At, Goto, notMain, fileVars
<1>1. /\ \/ pc[p] = "up" /\ pc'[p] = "down"
         \/ pc[p] = "down" /\ pc'[p] = "exit"
      /\ \A q \in Procs : q # p => pc'[q] = pc[q]
      /\ UNCHANGED <<cmd, ipc, stop, sock>> /\ ctx \subseteq ctx'
  BY DEF LoopReturns, Defers, TypeOK
<1>2. \A q \in Procs : ~Starting(q)
  BY <1>1 DEF OneAtATime, LoopReturns, Defers, Alone
<1>3. NameOf(p) \in Names /\ \A q \in Procs : pc[q] = "up" => NameOf(q) \in Names
  BY <1>1 DEF TypeOK
<1>4. /\ \A n \in Names : pidFile'[n] = pidFile[n] \/ (pc[p] = "down" /\ n = NameOf(p))
      /\ \A n \in Names : pidFile'[n] = pidFile[n] \/ pidFile'[n] = NoFile
  BY DEF LoopReturns, Defers, RemovePid, TypeOK
<1>5. Alone' /\ Cleared'
  BY <1>1, <1>2 DEF Alone, Cleared
<1>6. OneDaemon'
  BY <1>1 DEF OneDaemon
<1>7. Files'
  <2>1. \A q \in Procs : pc'[q] = "up" => q # p /\ pc[q] = "up"
    BY <1>1
  <2>2. \A q \in Procs : pc'[q] = "up" => pidFile'[NameOf(q)] = pidFile[NameOf(q)]
    BY <1>1, <1>3, <1>4, <2>1 DEF OneDaemon
  <2>3. \A n \in Names : pidFile'[n].holds = "nothing" => pidFile'[n].writers = {}
    BY <1>4 DEF Files, NoFile
  <2>4. \A q \in Procs : pc'[q] # "write"
    BY <1>1, <1>2
  <2> QED BY <1>1, <2>1, <2>2, <2>3, <2>4 DEF Files
<1>8. StopInv'
  <2>1. \A s \in Stops : stop[s].at = "rmsock" => stop[s].name \in Names
    BY DEF TypeOK
  <2> QED BY <1>1, <1>4, <2>1 DEF StopInv
<1> QED BY <1>5, <1>6, <1>7, <1>8

\* The steps of `daemon stop`.
LEMMA StopStep ==
    ASSUME SeqInv, OneAtATime, NEW s \in Stops,
           (\E n \in Names : StopReads(s, n)) \/ Stopping(s)
    PROVE  Alone' /\ Cleared' /\ OneDaemon' /\ Files' /\ StopInv'
<1> USE DEF SeqInv, NameOf, SameName, Daemon, Running, Starting, Idle, procVars, fileVars
<1>1. ASSUME NEW n \in Names, StopReads(s, n)
      PROVE  Alone' /\ Cleared' /\ OneDaemon' /\ Files' /\ StopInv'
  <2>1. /\ \A q \in Procs : pc[q] \in {"none", "up", "gone"}
        /\ \A t \in Stops : stop[t].at \in {"none", "done"}
    BY <1>1 DEF OneAtATime, Quiet
  <2>2. UNCHANGED <<cmd, pc, ipc, pidFile, sock>> /\ ctx \subseteq ctx'
    BY <1>1 DEF StopReads
  <2>3. Alone' /\ Cleared' /\ OneDaemon' /\ Files'
    BY <2>1, <2>2 DEF Alone, Cleared, OneDaemon, Files
  \* Whoever runs under the name is the one its PID file names.
  <2>4. \A q \in Procs : Running(q) /\ NameOf(q) = n => pidFile[n].holds = q
    BY <2>1 DEF Files
  <2>5. PICK pid : pid = pidFile[n].holds
    OBVIOUS
  <2>6. PICK r : /\ r = [at   |-> CASE pid = "nothing" -> "rmsock"
                                   [] pid = "empty"   -> "done"
                                   [] OTHER -> IF pid \in Procs /\ Running(pid) THEN "wait" ELSE "rmpid",
                         name |-> n,
                         pid  |-> IF pid \in Procs THEN pid ELSE None]
                 /\ stop' = [stop EXCEPT ![s] = r]
    BY <1>1, <2>5 DEF StopReads
  <2>7. stop'[s] = r /\ \A t \in Stops : t # s => stop'[t] = stop[t]
    BY <2>6 DEF TypeOK
  <2>8. r.at = "wait" => \A q \in Procs : NameOf(q) = n /\ Running(q) => q = r.pid
    BY <2>4, <2>5, <2>6
  <2>9. r.at \in {"rmpid", "rmsock"} => \A q \in Procs : NameOf(q) = n => ~Running(q)
    BY <2>4, <2>5, <2>6, LifecycleAssumption
  <2>10. r.at = "rmsock" => pidFile[n] = NoFile
    <3>1. pidFile[n] = [holds |-> pidFile[n].holds, writers |-> pidFile[n].writers]
      BY DEF TypeOK
    <3> QED BY <2>5, <2>6, <3>1 DEF Files, NoFile
  <2>11. StopInv'
    BY <2>1, <2>2, <2>6, <2>7, <2>8, <2>9, <2>10 DEF StopInv
  <2> QED BY <2>3, <2>11
\* The other three find the command alone.
<1>2. ASSUME Stopping(s) PROVE \A q \in Procs : ~Starting(q)
  BY <1>2 DEF Stopping, StopSeesEnd, StopKills, StopRemovesPid, StopRemovesSocket, Alone
<1>3. ASSUME NEW a \in {"rmpid", "rmsock", "done"}, StopAt(s, a)
      PROVE  /\ stop'[s].at = a /\ stop'[s].name = stop[s].name
             /\ \A t \in Stops : t # s => stop'[t] = stop[t]
  BY <1>3 DEF StopAt, TypeOK
<1>4. ASSUME StopSeesEnd(s) PROVE Alone' /\ Cleared' /\ OneDaemon' /\ Files' /\ StopInv'
  <2>1. /\ stop[s].at = "wait" /\ ~Running(stop[s].pid) /\ StopAt(s, "rmpid")
        /\ UNCHANGED <<cmd, pc, ipc, ctx, pidFile, sock>>
    BY <1>4 DEF StopSeesEnd
  <2>2. Alone' /\ Cleared' /\ OneDaemon' /\ Files'
    BY <1>2, <1>4, <2>1 DEF Stopping, Alone, Cleared, OneDaemon, Files
  <2>3. StopInv'
    BY <1>3, <2>1 DEF StopInv
  <2> QED BY <2>2, <2>3
<1>5. ASSUME StopKills(s) PROVE Alone' /\ Cleared' /\ OneDaemon' /\ Files' /\ StopInv'
  <2>1. /\ stop[s].at = "wait" /\ Ends(stop[s].pid) /\ StopAt(s, "rmpid")
        /\ UNCHANGED <<cmd, ctx, pidFile, sock>> /\ stop[s].pid \in Procs
    BY <1>5 DEF StopKills, TypeOK
  <2>2. \A t \in Stops : stop'[t] = stop[t] \/ (stop[t].at = "wait" /\ stop[t].pid = stop[s].pid /\
                            stop'[t].at = "rmpid" /\ stop'[t].name = stop[t].name)
    BY <1>3, <2>1
  <2> QED BY <2>1, <2>2, EndsStep
<1>6. ASSUME StopRemovesPid(s) \/ StopRemovesSocket(s)
      PROVE  Alone' /\ Cleared' /\ OneDaemon' /\ Files' /\ StopInv'
  <2>1. /\ stop[s].at \in {"rmpid", "rmsock"} /\ stop[s].name \in Names
        /\ UNCHANGED <<cmd, pc, ipc, ctx>>
        /\ \/ stop[s].at = "rmpid" /\ StopAt(s, "rmsock") /\ RemovePid(stop[s].name) /\ sock' = sock
           \/ stop[s].at = "rmsock" /\ StopAt(s, "done") /\ RemoveSocket(stop[s].name)
                                    /\ pidFile' = pidFile
    BY <1>6 DEF StopRemovesPid, StopRemovesSocket, TypeOK
  <2>2. \A q \in Procs : NameOf(q) = stop[s].name => ~Running(q)
    BY <2>1 DEF StopInv
  <2>3. /\ \A n \in Names : n # stop[s].name => pidFile'[n] = pidFile[n] /\ sock'[n] = sock[n]
        /\ \A n \in Names : pidFile'[n] = pidFile[n] \/ pidFile'[n] = NoFile
        /\ stop[s].at = "rmpid" => pidFile'[stop[s].name] = NoFile
    <3>1. /\ pidFile = [n \in Names |-> pidFile[n]] /\ sock = [n \in Names |-> sock[n]]
      BY DEF TypeOK
    <3> QED BY <2>1, <3>1 DEF RemovePid, RemoveSocket
  <2>4. \A q \in Procs : ~Starting(q)
    BY <1>2, <1>6 DEF Stopping
  <2>5. Alone' /\ Cleared' /\ OneDaemon'
    BY <2>1, <2>4 DEF Alone, Cleared, OneDaemon
  <2>6. Files'
    <3>1. \A q \in Procs : pc[q] = "up" => NameOf(q) \in Names /\ NameOf(q) # stop[s].name
      BY <2>2 DEF TypeOK
    <3> QED BY <2>1, <2>3, <2>4, <3>1 DEF Files, NoFile
  <2>7. /\ stop'[s].name = stop[s].name /\ stop'[s].at \in {"rmsock", "done"}
        /\ stop'[s].at = "rmsock" => pidFile'[stop[s].name] = NoFile
        /\ \A t \in Stops : t # s => stop'[t] = stop[t]
    BY <1>3, <2>1, <2>3
  <2>8. \A t \in Stops : stop[t].at = "rmsock" => stop[t].name \in Names
    BY DEF TypeOK
  <2>9. StopInv'
    BY <2>1, <2>2, <2>3, <2>7, <2>8 DEF StopInv
  <2> QED BY <2>5, <2>6, <2>9
<1> QED BY <1>1, <1>4, <1>5, <1>6 DEF Stopping

LEMMA SeqInit == Init => SeqInv
<1> SUFFICES ASSUME Init PROVE SeqInv
  OBVIOUS
<1>1. TypeOK
  BY TypeInit
<1>2. PidInv
  BY LifecycleAssumption DEF Init, PidInv, NoFile
<1> QED BY <1>1, <1>2 DEF Init, SeqInv, Alone, Cleared, OneDaemon, Files, StopInv, Starting, Daemon,
                          NoFile

\* One command at a time, every step keeps the invariant.
LEMMA SeqStep == SeqInv /\ [SeqNext]_vars => SeqInv'
<1> SUFFICES ASSUME SeqInv, [SeqNext]_vars PROVE SeqInv'
  OBVIOUS
<1> DEFINE Rest == Alone' /\ Cleared' /\ OneDaemon' /\ Files' /\ StopInv'
<1>1. TypeOK' /\ PidInv'
  BY TypeStep, PidStep DEF SeqInv, SeqNext
<1>2. CASE UNCHANGED vars
  <2>1. Rest
    BY <1>2, TaskStep DEF vars, procVars, fileVars
  <2> QED BY <1>1, <2>1 DEF SeqInv
<1>3. CASE SeqNext
  <2> USE <1>3 DEF SeqNext
  <2>1. ASSUME NEW p \in Procs, NEW n \in Names, NEW d \in BOOLEAN, Begin(p, n, d) PROVE Rest
    BY <2>1, StartStep
  <2>2. ASSUME NEW p \in Procs, Main(p) PROVE Rest
    <3>1. CASE Exit(p)
      BY <3>1, EndsStep DEF Exit, fileVars
    <3>2. CASE LoopReturns(p) \/ Defers(p)
      BY <3>2, DownStep
    <3> QED BY <2>2, <3>1, <3>2, StartStep DEF Main
  <2>3. ASSUME NEW p \in Procs, Task(p) PROVE Rest
    <3>1. /\ UNCHANGED <<cmd, pc, stop, pidFile, ctx>>
          /\ UNCHANGED <<ipc, sock>> \/ IpcRemoves(p) \/ IpcListens(p) \/ IpcCloses(p)
      BY <2>3 DEF Task, CoreStreams, CoreRefused, CoreReturns, IpcRemoves, IpcListens, IpcCloses,
                  MarkerListens, MarkerRefused, MarkerStops, notTasks
    <3> QED BY <3>1, TaskStep
  <2>4. ASSUME NEW p \in Procs, Interrupt(p) PROVE Rest
    BY <2>4, TaskStep DEF Interrupt, fileVars
  <2>5. ASSUME NEW p \in Procs, Kill(p) PROVE Rest
    BY <2>5, EndsStep DEF Kill, fileVars
  <2>6. ASSUME SlotDropped PROVE Rest
    BY <2>6, TaskStep DEF SlotDropped, procVars, fileVars
  <2>7. ASSUME NEW s \in Stops, (\E n \in Names : StopReads(s, n)) \/ Stopping(s) PROVE Rest
    BY <2>7, StopStep
  <2>8. Rest
    BY <2>1, <2>2, <2>3, <2>4, <2>5, <2>6, <2>7 DEF Next
  <2> QED BY <1>1, <2>8 DEF SeqInv
<1> QED BY <1>2, <1>3

\* One command at a time, the files of a name lead to its daemon, however many
\* processes and names there are and whatever killed ones left behind.
THEOREM FilesAreTheDaemons == SequentialSpec => []FilesLeadToDaemon
<1>1. SeqInv => FilesLeadToDaemon
  BY DEF SeqInv, Files, FilesLeadToDaemon, At
<1> QED BY <1>1, SeqInit, SeqStep, PTL DEF SequentialSpec, SeqNext

\* One command at a time, `daemon stop` leaves no file and no daemon of its name.
THEOREM StopsAreComplete == SequentialSpec => StopIsComplete
<1>1. ASSUME SeqInv, NEW s \in Stops, StopRemovesSocket(s)
      PROVE  /\ pidFile'[stop[s].name] = NoFile /\ sock'[stop[s].name] = None
             /\ \A p \in Procs : NameOf(p) = stop[s].name => ~Running(p)
  <2>1. /\ stop[s].at = "rmsock" /\ stop[s].name \in Names /\ pidFile' = pidFile
        /\ sock' = [sock EXCEPT ![stop[s].name] = None]
    BY <1>1 DEF StopRemovesSocket, RemoveSocket, SeqInv, TypeOK
  <2> QED BY <1>1, <2>1 DEF SeqInv, StopInv, TypeOK
<1>2. SeqInv /\ [SeqNext]_vars =>
        [\A s \in Stops : StopRemovesSocket(s) =>
            LET n == stop[s].name IN
              /\ pidFile'[n] = NoFile /\ sock'[n] = None
              /\ \A p \in Procs : NameOf(p) = n => ~Running(p)]_vars
  BY <1>1
<1> QED BY <1>2, SeqInit, SeqStep, PTL DEF SequentialSpec, SeqNext, StopIsComplete
=============================================================================
