------------------------- MODULE DdlTriggersProofs --------------------------
(***************************************************************************)
(* Theorems about DdlTriggers, for every set of processes and any number   *)
(* of schema changes.                                                      *)
(***************************************************************************)
EXTENDS DdlTriggers, SequenceTheorems, TLAPS

Reports == {Change(n) : n \in 1 .. MaxCommands}

\* What reports are made of, and that they are notifications (sql.go:30-37).
LEMMA ReportFacts ==
    /\ Reports \subseteq Notification
    /\ \A r \in Notification : r.valid => r \in Reports /\ r = Change(r.id)
    /\ \A n \in 1 .. MaxCommands : Change(n) \in Notification /\ Garbage(n) \in Notification
    /\ \A n : /\ Change(n).valid /\ Change(n).id = n
              /\ ~Garbage(n).valid /\ Garbage(n).id = n
<1>1. \A n : /\ Change(n).valid /\ Change(n).id = n
             /\ ~Garbage(n).valid /\ Garbage(n).id = n
  BY DEF Change, Garbage
<1>2. \A n \in 1 .. MaxCommands : Change(n) \in Notification /\ Garbage(n) \in Notification
  BY DEF Change, Garbage, Notification
<1>3. \A r \in Notification : r.valid => r = Change(r.id)
  BY DEF Change, Notification
<1>4. \A r \in Notification : r.id \in 1 .. MaxCommands
  BY DEF Notification
<1> QED BY <1>1, <1>2, <1>3, <1>4 DEF Reports

\* What a schema change, or anybody's NOTIFY, leaves on the connections.
LEMMA NotifyTypes ==
    ASSUME TypeOK, NEW n \in Notification, Notify(n)
    PROVE  queue' \in [Procs -> Seq(Notification)]
BY DEF TypeOK, Notify

LEMMA ChangesTypes ==
    ASSUME TypeOK, Changes
    PROVE  /\ queue' \in [Procs -> Seq(Notification)]
           /\ commands' \in 0 .. MaxCommands
           /\ commands + 1 \in 1 .. MaxCommands
           /\ commands' = commands + 1
           /\ holes' \subseteq 1 .. MaxCommands
           /\ holes \subseteq holes'
<1>1. commands + 1 \in 1 .. MaxCommands /\ commands' = commands + 1
  BY DdlTriggersAssumption DEF TypeOK, Changes
<1>2. queue' \in [Procs -> Seq(Notification)]
  BY <1>1, ReportFacts, NotifyTypes DEF Changes, TypeOK
<1> QED BY <1>1, <1>2 DEF Changes, TypeOK

\* Nothing is installed and nobody runs at first.
LEMMA TypeInit == Init => TypeOK
<1> SUFFICES ASSUME Init PROVE TypeOK
  OBVIOUS
<1>1. [mode |-> "none", super |-> FALSE, at |-> "off"] \in [mode : Modes, super : BOOLEAN, at : Places]
  BY DEF Modes, DaemonModes, Places
<1>2. << >> \in Seq(Notification) /\ << >> \in Seq({Change(n) : n \in 1 .. MaxCommands})
  OBVIOUS
<1>3. 0 \in 0 .. MaxCommands
  BY DdlTriggersAssumption
<1> QED BY <1>1, <1>2, <1>3 DEF Init, TypeOK

LEMMA GotoTypes ==
    ASSUME TypeOK, NEW p \in Procs, NEW where \in Places, Goto(p, where)
    PROVE  /\ proc' \in [Procs -> [mode : Modes, super : BOOLEAN, at : Places]]
           /\ proc'[p].at = where
           /\ \A q \in Procs \ {p} : proc'[q] = proc[q]
BY DEF TypeOK, Goto

\* Every step keeps the variables in their types.
LEMMA TypeStep == TypeOK /\ [Next]_vars => TypeOK'
<1> SUFFICES ASSUME TypeOK, [Next]_vars PROVE TypeOK'
  OBVIOUS
<1>p. {"off", "check", "functions", "drop", "create", "uninstall", "listen", "on",
       "disabled", "ended"} = Places
  BY DEF Places
<1>1. ASSUME NEW p \in Procs, NEW mode \in Modes, NEW super \in BOOLEAN, Start(p, mode, super)
      PROVE  TypeOK'
  <2>1. proc' \in [Procs -> [mode : Modes, super : BOOLEAN, at : Places]]
    BY <1>1, <1>p DEF Start, TypeOK
  <2> QED BY <1>1, <2>1 DEF Start, TypeOK, notSetUp, dbVars
<1>2. ASSUME NEW p \in Procs, CheckInstalled(p) PROVE TypeOK'
  <2>1. proc' \in [Procs -> [mode : Modes, super : BOOLEAN, at : Places]]
    BY <1>2, <1>p, GotoTypes DEF CheckInstalled, Prepared, Fails
  <2> QED BY <1>2, <2>1 DEF CheckInstalled, TypeOK, notSetUp, dbVars
<1>3. ASSUME NEW p \in Procs, InstallFunctions(p) PROVE TypeOK'
  <2>1. proc' \in [Procs -> [mode : Modes, super : BOOLEAN, at : Places]]
    BY <1>3, <1>p, GotoTypes DEF InstallFunctions
  <2> QED BY <1>3, <2>1, ChangesTypes DEF InstallFunctions, TypeOK
<1>4. ASSUME NEW p \in Procs, DropTriggers(p) PROVE TypeOK'
  <2>1. proc' \in [Procs -> [mode : Modes, super : BOOLEAN, at : Places]]
    BY <1>4, <1>p, GotoTypes DEF DropTriggers
  <2> QED BY <1>4, <2>1 DEF DropTriggers, TypeOK, notSetUp
<1>5. ASSUME NEW p \in Procs, CreateTriggers(p) PROVE TypeOK'
  <2>1. proc' \in [Procs -> [mode : Modes, super : BOOLEAN, at : Places]]
    BY <1>5, <1>p, GotoTypes DEF CreateTriggers, Prepared, Fails
  <2> QED BY <1>5, <2>1 DEF CreateTriggers, TypeOK, notSetUp
<1>6. ASSUME NEW p \in Procs, Uninstall(p) PROVE TypeOK'
  <2>1. proc' \in [Procs -> [mode : Modes, super : BOOLEAN, at : Places]]
    BY <1>6, <1>p, GotoTypes DEF Uninstall
  <2> QED BY <1>6, <2>1 DEF Uninstall, TypeOK, notSetUp
<1>7. ASSUME NEW p \in Procs, StatementFails(p) PROVE TypeOK'
  <2>1. proc' \in [Procs -> [mode : Modes, super : BOOLEAN, at : Places]]
    BY <1>7, <1>p, GotoTypes DEF StatementFails, Fails
  <2>2. intact' \in BOOLEAN
    BY <1>7 DEF StatementFails, TypeOK
  <2> QED BY <1>7, <2>1, <2>2 DEF StatementFails, TypeOK, notSetUp, dbVars
<1>8. ASSUME NEW p \in Procs, StartDml(p) PROVE TypeOK'
  BY <1>8 DEF StartDml, TypeOK, dbVars
<1>9. ASSUME NEW p \in Procs, Listen(p) PROVE TypeOK'
  <2>1. proc' \in [Procs -> [mode : Modes, super : BOOLEAN, at : Places]]
    BY <1>9, <1>p, GotoTypes DEF Listen
  <2>2. since' \in [Procs -> 0 .. MaxCommands]
    BY <1>9 DEF Listen, TypeOK
  <2> QED BY <1>9, <2>1, <2>2 DEF Listen, TypeOK, dbVars
<1>10. ASSUME NEW p \in Procs, Receive(p) PROVE TypeOK'
  <2>1. Head(queue[p]) \in Notification /\ Tail(queue[p]) \in Seq(Notification)
    BY <1>10 DEF Receive, TypeOK
  <2>2. events \in [Procs -> Seq(Reports)]
    BY DEF TypeOK, Reports
  <2>3. Head(queue[p]).valid => Head(queue[p]) \in Reports
    BY <2>1, ReportFacts
  <2>4. events' \in [Procs -> Seq(Reports)]
    BY <1>10, <2>2, <2>3 DEF Receive
  <2>5. queue' \in [Procs -> Seq(Notification)]
    BY <1>10, <2>1 DEF Receive, TypeOK
  <2> QED BY <1>10, <2>4, <2>5 DEF Receive, TypeOK, dbVars, Reports
<1>11. ASSUME NEW p \in Procs, ListenerStops(p) PROVE TypeOK'
  <2>1. proc' \in [Procs -> [mode : Modes, super : BOOLEAN, at : Places]]
    BY <1>11, <1>p, GotoTypes DEF ListenerStops
  <2>2. queue' \in [Procs -> Seq(Notification)]
    BY <1>11 DEF ListenerStops, TypeOK
  <2> QED BY <1>11, <2>1, <2>2 DEF ListenerStops, TypeOK, dbVars
<1>12. ASSUME NEW p \in Procs, Ends(p) PROVE TypeOK'
  <2>1. proc' \in [Procs -> [mode : Modes, super : BOOLEAN, at : Places]]
    BY <1>12, <1>p, GotoTypes DEF Ends
  <2>2. intact' \in BOOLEAN
    BY <1>12 DEF Ends, TypeOK
  <2>3. queue' \in [Procs -> Seq(Notification)]
    BY <1>12 DEF Ends, TypeOK
  <2>4. dml' \subseteq Procs
    BY <1>12 DEF Ends, TypeOK
  <2> QED BY <1>12, <2>1, <2>2, <2>3, <2>4 DEF Ends, TypeOK, dbVars
<1>13. CASE OtherChanges
  BY <1>13, ChangesTypes DEF OtherChanges, TypeOK, dbVars
<1>14. CASE OtherNotifies
  <2>1. commands + 1 \in 1 .. MaxCommands
    BY <1>14, DdlTriggersAssumption DEF OtherNotifies, TypeOK
  <2>2. queue' \in [Procs -> Seq(Notification)]
    BY <1>14, <2>1, ReportFacts, NotifyTypes DEF OtherNotifies
  <2>3. commands' \in 0 .. MaxCommands /\ holes' \subseteq 1 .. MaxCommands
    BY <1>14, <2>1 DEF OtherNotifies, TypeOK
  <2> QED BY <1>14, <2>2, <2>3 DEF OtherNotifies, TypeOK, dbVars
<1>15. CASE UNCHANGED vars
  BY <1>15 DEF vars, TypeOK, dbVars
<1> QED
  BY <1>1, <1>2, <1>3, <1>4, <1>5, <1>6, <1>7, <1>8, <1>9, <1>10, <1>11, <1>12, <1>13,
     <1>14, <1>15 DEF Next, SetUp

\* Every variable keeps its type in every behaviour.
THEOREM TypeCorrect == Spec => []TypeOK
<1> QED BY TypeInit, TypeStep, PTL DEF Spec
------------------------------------------------------------------------------
\* Nothing is installed at first.
LEMMA HoldsInit == Init => InstallationHolds
BY DEF Init, InstallationHolds

\* A step that leaves the triggers alone, and no process that stands between DROP
\* and CREATE elsewhere, leaves the installation as it is.
LEMMA HoldsStands ==
    ASSUME InstallationHolds, functions' = functions, triggers' = triggers,
           intact' => intact, \A q \in Procs : intact' /\ At(q, "create") => At(q, "create")'
    PROVE  InstallationHolds'
BY DEF InstallationHolds, Reinstalling

\* Whichever statement of whichever process comes next, what has been installed
\* stays, or goes into a DROP that a CREATE follows, or is given up.
LEMMA HoldsStep == TypeOK /\ InstallationHolds /\ [Next]_vars => InstallationHolds'
<1> SUFFICES ASSUME TypeOK, InstallationHolds, [Next]_vars PROVE InstallationHolds'
  OBVIOUS
<1>p. proc \in [Procs -> [mode : Modes, super : BOOLEAN, at : Places]]
  BY DEF TypeOK
<1>1. ASSUME NEW p \in Procs, NEW mode \in Modes, NEW super \in BOOLEAN, Start(p, mode, super)
      PROVE  InstallationHolds'
  <2>1. \A q \in Procs : At(q, "create") => At(q, "create")'
    BY <1>1, <1>p DEF Start, At
  <2> QED BY <1>1, <2>1, HoldsStands DEF Start, dbVars
<1>2. ASSUME NEW p \in Procs, CheckInstalled(p) PROVE InstallationHolds'
  <2>1. \A q \in Procs : At(q, "create") => At(q, "create")'
    BY <1>2, <1>p DEF CheckInstalled, At, Goto, Prepared, Fails
  <2> QED BY <1>2, <2>1, HoldsStands DEF CheckInstalled, dbVars
<1>3. ASSUME NEW p \in Procs, InstallFunctions(p) PROVE InstallationHolds'
  <2>1. \A q \in Procs : At(q, "create") => At(q, "create")'
    BY <1>3, <1>p DEF InstallFunctions, At, Goto
  <2>2. functions' = TRUE /\ triggers' = triggers /\ intact' = intact
    BY <1>3 DEF InstallFunctions
  <2> QED BY <2>1, <2>2 DEF InstallationHolds, Reinstalling
<1>4. ASSUME NEW p \in Procs, DropTriggers(p) PROVE InstallationHolds'
  <2>1. At(p, "create")'
    BY <1>4, <1>p DEF DropTriggers, At, Goto
  <2> QED BY <1>4, <2>1 DEF DropTriggers, InstallationHolds, Reinstalling
<1>5. ASSUME NEW p \in Procs, CreateTriggers(p) PROVE InstallationHolds'
  <2>1. CASE functions /\ ~triggers
    BY <1>5, <2>1 DEF CreateTriggers, InstallationHolds
  <2>2. CASE ~functions \/ triggers
    <3>1. functions' = functions /\ triggers' = triggers /\ intact' = intact
      BY <1>5, <2>2 DEF CreateTriggers
    <3>2. intact => (functions /\ triggers)
      BY <2>2 DEF InstallationHolds
    <3> QED BY <3>1, <3>2 DEF InstallationHolds
  <2> QED BY <2>1, <2>2
<1>6. ASSUME NEW p \in Procs, Uninstall(p) PROVE InstallationHolds'
  BY <1>6 DEF Uninstall, InstallationHolds
<1>7. ASSUME NEW p \in Procs, StatementFails(p) PROVE InstallationHolds'
  <2>1. \A q \in Procs : intact' /\ At(q, "create") => At(q, "create")'
    BY <1>7, <1>p DEF StatementFails, Fails, At, Goto
  <2> QED BY <1>7, <2>1, HoldsStands DEF StatementFails, dbVars
<1>8. ASSUME NEW p \in Procs, StartDml(p) \/ Receive(p) PROVE InstallationHolds'
  BY <1>8 DEF StartDml, Receive, InstallationHolds, Reinstalling, At, dbVars
<1>9. ASSUME NEW p \in Procs, Listen(p) \/ ListenerStops(p) PROVE InstallationHolds'
  <2>1. \A q \in Procs : At(q, "create") => At(q, "create")'
    BY <1>9, <1>p DEF Listen, ListenerStops, At, Goto
  <2> QED BY <1>9, <2>1, HoldsStands DEF Listen, ListenerStops, dbVars
<1>10. ASSUME NEW p \in Procs, Ends(p) PROVE InstallationHolds'
  <2>1. \A q \in Procs : intact' /\ At(q, "create") => At(q, "create")'
    BY <1>10, <1>p DEF Ends, At, Goto
  <2> QED BY <1>10, <2>1, HoldsStands DEF Ends, dbVars
<1>11. CASE OtherChanges \/ OtherNotifies \/ UNCHANGED vars
  <2>1. functions' = functions /\ triggers' = triggers /\ intact' = intact /\ proc' = proc
    BY <1>11 DEF OtherChanges, OtherNotifies, vars, dbVars
  <2> QED BY <2>1 DEF InstallationHolds, Reinstalling, At
<1> QED
  BY <1>1, <1>2, <1>3, <1>4, <1>5, <1>6, <1>7, <1>8, <1>9, <1>10, <1>11 DEF Next, SetUp

\* However many installs, uninstalls and deaths cross each other: once an install
\* has succeeded the triggers are there, with their functions, except while one
\* stands between its DROP and its CREATE (installer.go:52-69).
THEOREM InstallationCorrect == Spec => []InstallationHolds
<1>1. TypeOK /\ InstallationHolds /\ [Next]_vars => TypeOK' /\ InstallationHolds'
  BY TypeStep, HoldsStep
<1> QED BY TypeInit, HoldsInit, <1>1, PTL DEF Spec
------------------------------------------------------------------------------
\* What Notify and Receive do to the two halves of a stream.
LEMMA AppendToSecond ==
    ASSUME NEW S, NEW s \in Seq(S), NEW t \in Seq(S), NEW e \in S
    PROVE  s \o Append(t, e) = Append(s \o t, e)
<1>1. <<e>> \in Seq(S) /\ s \o t \in Seq(S)
  BY ConcatProperties
<1>2. Append(t, e) = t \o <<e>> /\ Append(s \o t, e) = (s \o t) \o <<e>>
  BY <1>1, AppendIsConcat
<1>3. (s \o t) \o <<e>> = s \o (t \o <<e>>)
  BY <1>1, ConcatAssociative
<1> QED BY <1>2, <1>3

LEMMA MoveHead ==
    ASSUME NEW S, NEW s \in Seq(S), NEW t \in Seq(S), t # << >>
    PROVE  Append(s, Head(t)) \o Tail(t) = s \o t
<1>1. Head(t) \in S /\ Tail(t) \in Seq(S) /\ <<Head(t)>> \in Seq(S)
  BY HeadTailProperties
<1>2. Append(s, Head(t)) = s \o <<Head(t)>>
  BY <1>1, AppendIsConcat
<1>3. (s \o <<Head(t)>>) \o Tail(t) = s \o (<<Head(t)>> \o Tail(t))
  BY <1>1, ConcatAssociative
<1>4. <<Head(t)>> \o Tail(t) = t
  BY <1>1
<1> QED BY <1>2, <1>3, <1>4

LEMMA DropHead ==
    ASSUME NEW S, NEW s \in Seq(S), NEW t \in Seq(S), t # << >>
    PROVE  /\ Len(s \o Tail(t)) = Len(s) + Len(t) - 1
           /\ Len(s \o t) = Len(s) + Len(t)
           /\ \A i \in 1 .. Len(s) : (s \o Tail(t))[i] = (s \o t)[i]
           /\ \A i \in Len(s) + 1 .. Len(s) + Len(t) - 1 : (s \o Tail(t))[i] = (s \o t)[i + 1]
           /\ (s \o t)[Len(s) + 1] = Head(t)
<1>1. Tail(t) \in Seq(S) /\ Len(Tail(t)) = Len(t) - 1
  BY HeadTailProperties
<1>2. \A i \in 1 .. Len(t) - 1 : Tail(t)[i] = t[i + 1]
  BY <1>1, HeadTailProperties
<1>3. Len(s) \in Nat /\ Len(t) \in Nat \ {0}
  BY EmptySeq
<1>4. Len(s \o Tail(t)) = Len(s) + Len(t) - 1 /\ Len(s \o t) = Len(s) + Len(t)
  BY <1>1, <1>3, ConcatProperties
<1>5. \A i \in 1 .. Len(s) + Len(t) - 1 :
        (s \o Tail(t))[i] = IF i <= Len(s) THEN s[i] ELSE Tail(t)[i - Len(s)]
  BY <1>1, <1>3, ConcatProperties
<1>6. \A i \in 1 .. Len(s) + Len(t) : (s \o t)[i] = IF i <= Len(s) THEN s[i] ELSE t[i - Len(s)]
  BY <1>3, ConcatProperties
<1>7. \A i \in 1 .. Len(s) : (s \o Tail(t))[i] = (s \o t)[i]
  BY <1>3, <1>5, <1>6
<1>8. ASSUME NEW i \in Len(s) + 1 .. Len(s) + Len(t) - 1
      PROVE  (s \o Tail(t))[i] = (s \o t)[i + 1]
  <2>1. (s \o Tail(t))[i] = Tail(t)[i - Len(s)]
    BY <1>3, <1>5
  <2>2. (s \o t)[i + 1] = t[i + 1 - Len(s)]
    BY <1>3, <1>6
  <2>3. i - Len(s) \in 1 .. Len(t) - 1 /\ i - Len(s) + 1 = i + 1 - Len(s)
    BY <1>3
  <2> QED BY <1>2, <2>1, <2>2, <2>3
<1>9. (s \o t)[Len(s) + 1] = Head(t)
  <2>1. (s \o t)[Len(s) + 1] = t[Len(s) + 1 - Len(s)]
    BY <1>3, <1>6
  <2> QED BY <1>3, <2>1
<1> QED BY <1>4, <1>7, <1>8, <1>9

\* A process that has not listened yet, and does not fail to.
Fresh(p) == proc[p].at \notin {"on", "disabled", "ended"}

\* What a listening process was sent: nothing newer than the newest command, in
\* order, with no gap but holes.
Heard(p) ==
    /\ \A i \in DOMAIN Stream(p) : Stream(p)[i].id \in 1 .. commands
    /\ \A i, j \in DOMAIN Stream(p) : i < j => Stream(p)[i].id < Stream(p)[j].id
    /\ \A n \in since[p] + 1 .. commands :
         n \in holes \/ \E i \in DOMAIN Stream(p) : Stream(p)[i] = Change(n)

StreamInv ==
    \A p \in Procs :
        /\ Fresh(p) => events[p] = << >>
        /\ ~At(p, "on") => queue[p] = << >>
        /\ At(p, "on") => Heard(p)

LEMMA StreamTypes == TypeOK => \A p \in Procs : Stream(p) \in Seq(Notification)
<1> SUFFICES ASSUME TypeOK, NEW p \in Procs PROVE Stream(p) \in Seq(Notification)
  OBVIOUS
<1>1. events[p] \in Seq(Reports) /\ queue[p] \in Seq(Notification)
  BY DEF TypeOK, Reports
<1>2. events[p] \in Seq(Notification)
  BY <1>1, ReportFacts
<1> QED BY <1>1, <1>2 DEF Stream

LEMMA StreamInit == Init => StreamInv
BY DEF Init, StreamInv, Fresh, At

\* Steps that send nothing and take nothing, though a listener may stop.
LEMMA StreamStands ==
    ASSUME StreamInv,
           events' = events, commands' = commands, since' = since, holes' = holes,
           \A q \in Procs : /\ Fresh(q)' => Fresh(q)
                            /\ At(q, "on")' => At(q, "on") /\ queue'[q] = queue[q]
                            /\ ~At(q, "on")' => queue'[q] = << >>
    PROVE  StreamInv'
<1> SUFFICES ASSUME NEW p \in Procs
             PROVE  /\ Fresh(p)' => events'[p] = << >>
                    /\ ~At(p, "on")' => queue'[p] = << >>
                    /\ At(p, "on")' => Heard(p)'
  BY DEF StreamInv
<1>1. Fresh(p)' => events'[p] = << >>
  BY DEF StreamInv
<1>2. ASSUME At(p, "on")' PROVE Heard(p)'
  <2>1. Heard(p) /\ Stream(p)' = Stream(p)
    BY <1>2 DEF StreamInv, Stream
  <2> QED BY <2>1 DEF Heard
<1> QED BY <1>1, <1>2

\* A command, of whichever kind: its notification, if there is one, reaches all
\* that listen, and if there is none, or none for a change, it is a hole.
LEMMA StreamGrows ==
    ASSUME TypeOK, StreamInv, NEW n \in Notification,
           n.id = commands + 1, commands' = commands + 1,
           events' = events, since' = since, holes \subseteq holes',
           \A q \in Procs : (Fresh(q)' => Fresh(q)) /\ (At(q, "on")' <=> At(q, "on")),
           \/ Notify(n) /\ (n = Change(commands + 1) \/ commands + 1 \in holes')
           \/ UNCHANGED queue /\ commands + 1 \in holes'
    PROVE  StreamInv'
<1> SUFFICES ASSUME NEW p \in Procs
             PROVE  /\ Fresh(p)' => events'[p] = << >>
                    /\ ~At(p, "on")' => queue'[p] = << >>
                    /\ At(p, "on")' => Heard(p)'
  BY DEF StreamInv
<1>1. Fresh(p)' => events'[p] = << >>
  BY DEF StreamInv
<1>2. ~At(p, "on")' => queue'[p] = << >>
  BY DEF StreamInv, Notify
<1>3. ASSUME At(p, "on")' PROVE Heard(p)'
  <2>1. At(p, "on") /\ Heard(p)
    BY <1>3 DEF StreamInv
  <2>2. Stream(p) \in Seq(Notification) /\ commands \in Nat /\ since[p] \in Nat
    <3>1. commands \in Nat /\ since[p] \in Nat
      BY DdlTriggersAssumption DEF TypeOK
    <3> QED BY <3>1, StreamTypes
  <2>3. CASE Notify(n) /\ (n = Change(commands + 1) \/ commands + 1 \in holes')
    <3>1. events[p] \in Seq(Notification) /\ queue[p] \in Seq(Notification)
      <4>1. events[p] \in Seq(Reports) /\ queue[p] \in Seq(Notification)
        BY DEF TypeOK, Reports
      <4> QED BY <4>1, ReportFacts
    <3>2. events'[p] = events[p] /\ queue'[p] = Append(queue[p], n)
      BY <2>1, <2>3 DEF Notify
    <3>3. Stream(p)' = Append(Stream(p), n)
      <4>1. Stream(p)' = events[p] \o Append(queue[p], n)
        BY <3>2 DEF Stream
      <4>2. \A s, t \in Seq(Notification) : s \o Append(t, n) = Append(s \o t, n)
        BY AppendToSecond
      <4> QED BY <3>1, <4>1, <4>2 DEF Stream
    <3>4. /\ Len(Stream(p)') = Len(Stream(p)) + 1
          /\ Stream(p)'[Len(Stream(p)) + 1] = n
          /\ \A i \in 1 .. Len(Stream(p)) : Stream(p)'[i] = Stream(p)[i]
      BY <2>2, <3>3
    <3>5. Stream(p)' \in Seq(Notification)
      BY <2>2, <3>3
    <3>6. \A i \in DOMAIN Stream(p)' : Stream(p)'[i].id \in 1 .. commands'
      BY <2>1, <2>2, <3>4, <3>5 DEF Heard
    <3>7. \A i, j \in DOMAIN Stream(p)' : i < j => Stream(p)'[i].id < Stream(p)'[j].id
      <4> SUFFICES ASSUME NEW i \in DOMAIN Stream(p)', NEW j \in DOMAIN Stream(p)', i < j
                   PROVE  Stream(p)'[i].id < Stream(p)'[j].id
        OBVIOUS
      <4>1. i \in 1 .. Len(Stream(p)) /\ j \in 1 .. Len(Stream(p)) + 1
        BY <2>2, <3>4, <3>5
      <4>2. Stream(p)[i].id \in 1 .. commands
        BY <2>1, <2>2, <4>1 DEF Heard
      <4>3. CASE j = Len(Stream(p)) + 1
        BY <2>2, <3>4, <4>1, <4>2, <4>3
      <4>4. CASE j # Len(Stream(p)) + 1
        <5>1. j \in 1 .. Len(Stream(p))
          BY <2>2, <4>1, <4>4
        <5> QED BY <2>1, <2>2, <3>4, <4>1, <5>1 DEF Heard
      <4> QED BY <4>3, <4>4
    <3>8. ASSUME NEW m \in since'[p] + 1 .. commands'
          PROVE  m \in holes' \/ \E i \in DOMAIN Stream(p)' : Stream(p)'[i] = Change(m)
      <4>1. CASE m = commands + 1
        BY <2>2, <2>3, <3>4, <3>5, <4>1
      <4>2. CASE m # commands + 1
        <5>1. m \in since[p] + 1 .. commands
          BY <2>2, <4>2
        <5>2. m \in holes \/ \E i \in DOMAIN Stream(p) : Stream(p)[i] = Change(m)
          BY <2>1, <5>1 DEF Heard
        <5> QED BY <2>2, <3>4, <3>5, <5>2
      <4> QED BY <4>1, <4>2
    <3> QED BY <3>6, <3>7, <3>8 DEF Heard
  <2>4. CASE UNCHANGED queue /\ commands + 1 \in holes'
    <3>1. Stream(p)' = Stream(p)
      BY <2>4 DEF Stream
    <3>2. \A m \in since'[p] + 1 .. commands' :
             m = commands + 1 \/ m \in since[p] + 1 .. commands
      BY <2>2
    <3>3. \A k \in 1 .. commands : k \in 1 .. commands'
      BY <2>2
    <3> QED BY <2>1, <2>4, <3>1, <3>2, <3>3 DEF Heard
  <2> QED BY <2>3, <2>4
<1> QED BY <1>1, <1>2, <1>3

\* A schema change by anybody: while the installation holds, a report is sent.
LEMMA ChangesAreHeard ==
    ASSUME TypeOK, InstallationHolds, StreamInv, Changes, events' = events, since' = since,
           \A q \in Procs : (Fresh(q)' => Fresh(q)) /\ (At(q, "on")' <=> At(q, "on"))
    PROVE  StreamInv'
<1> DEFINE n == Change(commands + 1)
<1>1. commands' = commands + 1 /\ holes \subseteq holes' /\ n \in Notification /\ n.id = commands + 1
  BY ChangesTypes, ReportFacts
<1>2. \/ Notify(n) /\ (n = Change(commands + 1) \/ commands + 1 \in holes')
      \/ UNCHANGED queue /\ commands + 1 \in holes'
  <2>1. CASE triggers
    BY <2>1 DEF Changes
  <2>2. CASE ~triggers
    <3>1. ~(intact /\ ~Reinstalling)
      BY <2>2 DEF InstallationHolds
    <3> QED BY <2>2, <3>1 DEF Changes
  <2> QED BY <2>1, <2>2
<1> HIDE DEF n
<1> QED BY <1>1, <1>2, StreamGrows

\* One turn of the listener's loop: a report moves from the connection to the
\* store, anything else is dropped from the stream and was a hole.
LEMMA StreamReceive ==
    ASSUME TypeOK, StreamInv, NEW p \in Procs, Receive(p)
    PROVE  StreamInv'
<1>1. /\ At(p, "on") /\ queue[p] # << >> /\ Heard(p)
      /\ proc' = proc /\ commands' = commands /\ holes' = holes /\ since' = since
      /\ queue'[p] = Tail(queue[p])
      /\ events'[p] = IF Head(queue[p]).valid THEN Append(events[p], Head(queue[p])) ELSE events[p]
      /\ \A q \in Procs \ {p} : events'[q] = events[q] /\ queue'[q] = queue[q]
  BY DEF Receive, StreamInv, TypeOK
<1>2. /\ events[p] \in Seq(Notification) /\ queue[p] \in Seq(Notification)
      /\ Stream(p) \in Seq(Notification) /\ Stream(p) = events[p] \o queue[p]
  <2>1. events[p] \in Seq(Reports) /\ queue[p] \in Seq(Notification)
    BY DEF TypeOK, Reports
  <2> QED BY <2>1, ReportFacts, StreamTypes DEF Stream
<1>3. Heard(p)'
  <2>1. CASE Head(queue[p]).valid
    <3>1. \A s, t \in Seq(Notification) : t # << >> => Append(s, Head(t)) \o Tail(t) = s \o t
      BY MoveHead
    <3>2. Stream(p)' = Stream(p)
      BY <1>1, <1>2, <2>1, <3>1 DEF Stream
    <3> QED BY <1>1, <3>2 DEF Heard
  <2>2. CASE ~Head(queue[p]).valid
    <3> DEFINE first == events[p]
               second == queue[p]
               k == Len(first)
               n == Len(first) + Len(second)
               from(i) == IF i <= k THEN i ELSE i + 1
    <3>1. Stream(p)' = events[p] \o Tail(queue[p])
      BY <1>1, <2>2 DEF Stream
    <3>2. \A s, t \in Seq(Notification) : t # << >> =>
            /\ Len(s \o Tail(t)) = Len(s) + Len(t) - 1
            /\ Len(s \o t) = Len(s) + Len(t)
            /\ \A i \in 1 .. Len(s) : (s \o Tail(t))[i] = (s \o t)[i]
            /\ \A i \in Len(s) + 1 .. Len(s) + Len(t) - 1 : (s \o Tail(t))[i] = (s \o t)[i + 1]
            /\ (s \o t)[Len(s) + 1] = Head(t)
      BY DropHead
    <3>3. /\ Len(Stream(p)') = n - 1
          /\ Len(Stream(p)) = n
          /\ \A i \in 1 .. k : Stream(p)'[i] = Stream(p)[i]
          /\ \A i \in k + 1 .. n - 1 : Stream(p)'[i] = Stream(p)[i + 1]
          /\ Stream(p)[k + 1] = Head(queue[p])
      <4>1. /\ Len(first \o Tail(second)) = n - 1
            /\ Len(first \o second) = n
            /\ \A i \in 1 .. k : (first \o Tail(second))[i] = (first \o second)[i]
            /\ \A i \in k + 1 .. n - 1 : (first \o Tail(second))[i] = (first \o second)[i + 1]
            /\ (first \o second)[k + 1] = Head(second)
        <5>1. first \in Seq(Notification) /\ second \in Seq(Notification) /\ second # << >>
          BY <1>1, <1>2
        <5> HIDE DEF first, second
        <5> QED BY <3>2, <5>1
      <4> QED BY <1>2, <3>1, <4>1, Zenon
    <3>4. k \in Nat /\ n \in Nat /\ k < n
      <4>1. \A s \in Seq(Notification) : Len(s) \in Nat /\ (s # << >> => Len(s) \in Nat \ {0})
        BY EmptySeq, LenProperties
      <4>2. k \in Nat /\ Len(queue[p]) \in Nat \ {0}
        BY <1>1, <1>2, <4>1, Zenon
      <4>3. \A a \in Nat, b \in Nat \ {0} : a + b \in Nat /\ a < a + b
        OBVIOUS
      <4> QED BY <4>2, <4>3, Zenon
    <3>5. DOMAIN Stream(p) = 1 .. n /\ DOMAIN Stream(p)' = 1 .. n - 1
      <4>1. Tail(queue[p]) \in Seq(Notification)
        BY <1>1, <1>2, HeadTailProperties
      <4>2. Stream(p)' \in Seq(Notification)
        BY <1>2, <3>1, <4>1, ConcatProperties
      <4> QED BY <1>2, <3>3, <4>2, LenProperties
    <3> HIDE DEF k, n
    <3>6. \A i \in DOMAIN Stream(p)' :
             from(i) \in DOMAIN Stream(p) /\ Stream(p)'[i] = Stream(p)[from(i)]
      BY <3>3, <3>4, <3>5
    <3>7. \A i, j \in DOMAIN Stream(p)' : i < j => from(i) < from(j)
      BY <3>4, <3>5
    <3>8. \A j \in DOMAIN Stream(p) : j # k + 1 => \E i \in DOMAIN Stream(p)' : from(i) = j
      <4> SUFFICES ASSUME NEW j \in DOMAIN Stream(p), j # k + 1
                   PROVE  \E i \in DOMAIN Stream(p)' : from(i) = j
        OBVIOUS
      <4>1. CASE j <= k
        BY <3>4, <3>5, <4>1
      <4>2. CASE j > k + 1
        <5>1. j - 1 \in DOMAIN Stream(p)' /\ ~(j - 1 <= k) /\ (j - 1) + 1 = j
          BY <3>4, <3>5, <4>2
        <5> QED BY <5>1
      <4> QED BY <3>4, <3>5, <4>1, <4>2
    <3> HIDE DEF from
    <3>9. \A i \in DOMAIN Stream(p)' : Stream(p)'[i].id \in 1 .. commands'
      BY <1>1, <3>6 DEF Heard
    <3>10. \A i, j \in DOMAIN Stream(p)' : i < j => Stream(p)'[i].id < Stream(p)'[j].id
      BY <1>1, <3>6, <3>7 DEF Heard
    <3>11. ASSUME NEW m \in since'[p] + 1 .. commands', m \notin holes'
           PROVE  \E i \in DOMAIN Stream(p)' : Stream(p)'[i] = Change(m)
      <4>1. PICK j \in DOMAIN Stream(p) : Stream(p)[j] = Change(m)
        BY <1>1, <3>11 DEF Heard
      <4>2. Stream(p)[j].valid
        BY <4>1, ReportFacts
      <4>3. j # k + 1
        BY <2>2, <3>3, <4>2
      <4>4. PICK i \in DOMAIN Stream(p)' : from(i) = j
        BY <3>8, <4>3
      <4> QED BY <3>6, <4>1, <4>4
    <3> QED BY <3>9, <3>10, <3>11 DEF Heard
  <2> QED BY <2>1, <2>2
<1>4. ASSUME NEW q \in Procs
      PROVE  /\ Fresh(q)' => events'[q] = << >>
             /\ ~At(q, "on")' => queue'[q] = << >>
             /\ At(q, "on")' => Heard(q)'
  <2>1. CASE q = p
    BY <1>1, <1>3, <2>1 DEF Fresh, At
  <2>2. CASE q # p
    <3>1. events'[q] = events[q] /\ queue'[q] = queue[q] /\ Stream(q)' = Stream(q)
      BY <1>1, <2>2 DEF Stream
    <3>2. (Fresh(q)' <=> Fresh(q)) /\ (At(q, "on")' <=> At(q, "on"))
      BY <1>1 DEF Fresh, At
    <3>3. Heard(q) => Heard(q)'
      BY <1>1, <3>1 DEF Heard
    <3> QED BY <3>1, <3>2, <3>3 DEF StreamInv
  <2> QED BY <2>1, <2>2
<1> QED BY <1>4 DEF StreamInv

LEMMA StreamStep ==
    TypeOK /\ InstallationHolds /\ StreamInv /\ [Next]_vars => StreamInv'
<1> SUFFICES ASSUME TypeOK, InstallationHolds, StreamInv, [Next]_vars PROVE StreamInv'
  OBVIOUS
<1>p. proc \in [Procs -> [mode : Modes, super : BOOLEAN, at : Places]]
  BY DEF TypeOK
<1>1. ASSUME NEW p \in Procs, NEW mode \in Modes, NEW super \in BOOLEAN, Start(p, mode, super)
      PROVE  StreamInv'
  <2>1. proc'[p].at \notin {"off", "on"} /\ At(p, "off") /\ \A q \in Procs \ {p} : proc'[q] = proc[q]
    BY <1>1, <1>p DEF Start, At
  <2>2. UNCHANGED <<events, commands, since, holes, queue>>
    BY <1>1 DEF Start, notSetUp
  <2> QED BY <2>1, <2>2, StreamStands DEF StreamInv, Fresh, At
<1>2. ASSUME NEW p \in Procs,
             CheckInstalled(p) \/ DropTriggers(p) \/ CreateTriggers(p) \/ Uninstall(p) \/ StatementFails(p)
      PROVE  StreamInv'
  <2>1. /\ proc'[p].at # "on" /\ proc[p].at \notin {"on", "disabled", "ended"}
        /\ \A q \in Procs \ {p} : proc'[q] = proc[q]
    BY <1>2, <1>p DEF CheckInstalled, DropTriggers, CreateTriggers, Uninstall, StatementFails,
       At, Goto, Prepared, Fails
  <2>2. UNCHANGED <<events, commands, since, holes, queue>>
    BY <1>2 DEF CheckInstalled, DropTriggers, CreateTriggers, Uninstall, StatementFails, notSetUp
  <2> QED BY <2>1, <2>2, StreamStands DEF StreamInv, Fresh, At
<1>3. ASSUME NEW p \in Procs, InstallFunctions(p) PROVE StreamInv'
  <2>1. /\ proc'[p].at # "on" /\ proc[p].at \notin {"on", "disabled", "ended"}
        /\ \A q \in Procs \ {p} : proc'[q] = proc[q]
    BY <1>3, <1>p DEF InstallFunctions, At, Goto
  <2>2. events' = events /\ since' = since /\ Changes
    BY <1>3 DEF InstallFunctions
  <2> QED BY <2>1, <2>2, ChangesAreHeard DEF Fresh, At
<1>4. ASSUME NEW p \in Procs, StartDml(p) PROVE StreamInv'
  <2>1. UNCHANGED <<proc, events, commands, since, holes, queue>>
    BY <1>4 DEF StartDml
  <2> QED BY <2>1, StreamStands DEF StreamInv, Fresh, At
<1>5. ASSUME NEW p \in Procs, Listen(p) PROVE StreamInv'
  <2>1. /\ At(p, "listen") /\ proc'[p].at = "on" /\ since'[p] = commands
        /\ \A q \in Procs \ {p} : proc'[q] = proc[q] /\ since'[q] = since[q]
        /\ UNCHANGED <<events, commands, holes, queue>>
    BY <1>5, <1>p DEF Listen, At, Goto, TypeOK
  <2>2. events[p] = << >> /\ queue[p] = << >>
    BY <2>1 DEF StreamInv, Fresh, At
  <2>3. Heard(p)'
    <3>1. Stream(p)' = << >>
      BY <2>1, <2>2 DEF Stream
    <3>2. commands \in Nat /\ commands + 1 .. commands = {}
      BY DEF TypeOK
    <3> QED BY <2>1, <3>1, <3>2 DEF Heard
  <2>4. ASSUME NEW q \in Procs \ {p}
        PROVE  /\ Fresh(q)' => events'[q] = << >>
               /\ ~At(q, "on")' => queue'[q] = << >>
               /\ At(q, "on")' => Heard(q)'
    <3>1. Stream(q)' = Stream(q)
      BY <2>1 DEF Stream
    <3>2. Heard(q) => Heard(q)'
      BY <2>1, <3>1 DEF Heard
    <3> QED BY <2>1, <3>2 DEF StreamInv, Fresh, At
  <2> QED BY <2>1, <2>3, <2>4 DEF StreamInv, Fresh, At
<1>6. ASSUME NEW p \in Procs, ListenerStops(p) \/ Ends(p) PROVE StreamInv'
  <2>1. /\ proc'[p].at \in {"disabled", "ended"} /\ queue'[p] = << >>
        /\ \A q \in Procs \ {p} : proc'[q] = proc[q] /\ queue'[q] = queue[q]
    BY <1>6, <1>p DEF ListenerStops, Ends, Goto, TypeOK
  <2>2. UNCHANGED <<events, commands, since, holes>>
    BY <1>6 DEF ListenerStops, Ends
  <2> QED BY <2>1, <2>2, StreamStands DEF StreamInv, Fresh, At
<1>7. CASE OtherChanges
  <2>1. events' = events /\ since' = since /\ proc' = proc /\ Changes
    BY <1>7 DEF OtherChanges
  <2> QED BY <2>1, ChangesAreHeard DEF Fresh, At
<1>8. CASE OtherNotifies
  <2> DEFINE n == Garbage(commands + 1)
  <2>1. commands + 1 \in 1 .. MaxCommands /\ commands' = commands + 1
    BY <1>8, DdlTriggersAssumption DEF OtherNotifies, TypeOK
  <2>2. n \in Notification /\ n.id = commands + 1
    BY <2>1, ReportFacts
  <2>3. /\ Notify(n) /\ commands + 1 \in holes' /\ holes \subseteq holes'
        /\ events' = events /\ since' = since /\ proc' = proc
    BY <1>8 DEF OtherNotifies
  <2> HIDE DEF n
  <2> QED BY <2>1, <2>2, <2>3, StreamGrows DEF Fresh, At
<1>9. CASE UNCHANGED vars
  <2>1. UNCHANGED <<proc, events, commands, since, holes, queue>>
    BY <1>9 DEF vars
  <2> QED BY <2>1, StreamStands DEF StreamInv, Fresh, At
<1> QED
  BY <1>1, <1>2, <1>3, <1>4, <1>5, <1>6, <1>7, <1>8, <1>9, StreamReceive DEF Next, SetUp

\* A daemon that listens gets every schema change made since, in order and once,
\* but for those made while nothing was installed or an install was under way
\* (listener.go:48-70), with any number of processes installing and uninstalling.
THEOREM ChangesReachListeners == Spec => []MissedOnlyInAHole
<1> DEFINE IInv == TypeOK /\ InstallationHolds /\ StreamInv
<1>1. Init => IInv
  BY TypeInit, HoldsInit, StreamInit
<1>2. IInv /\ [Next]_vars => IInv'
  BY TypeStep, HoldsStep, StreamStep
<1>3. IInv => MissedOnlyInAHole
  BY DEF StreamInv, Heard, MissedOnlyInAHole
<1> QED BY <1>1, <1>2, <1>3, PTL DEF Spec
=============================================================================
