---------------------------- MODULE IpcServerProofs ---------------------------
(***************************************************************************)
(* Theorems about IpcServer, for any finite set of connections and buffers *)
(* of any size: its types, the order of what a client is sent, the reason  *)
(* for every loss, and what a handler leaves behind.                       *)
(***************************************************************************)
EXTENDS IpcServer, SequenceTheorems, FiniteSetTheorems, TLAPS

(* Envelopes. *)

LEMMA MessageTypes ==
    /\ Hello \in Message /\ StatsMsg \in Message /\ Pong \in Message /\ Nothing \in Message
    /\ \A e \in Event : EventMsg(e) \in Message
    /\ \A w \in Seq(Event) : Len(w) <= Capacity => Snapshot(w) \in Message
<1>1. ASSUME NEW w \in Seq(Event), Len(w) <= Capacity PROVE Snapshot(w) \in Message
  <2>1. w \in [1 .. Len(w) -> Event] /\ Len(w) \in 0 .. Capacity
    BY <1>1, IpcServerAssumption
  <2> QED BY <2>1 DEF Message
<1> QED BY <1>1 DEF Message

\* Where a step of one goroutine leaves all of them.
LEMMA GotoType ==
    ASSUME TypeOK, NEW c \in Conns, NEW t \in Threads, NEW where, Goto(c, t, where),
           where \in (IF t = "handler" THEN HandlerPc ELSE WorkerPc)
    PROVE  /\ pc' \in [Conns -> [handler : HandlerPc, pump : WorkerPc, ticker : WorkerPc]]
           /\ pc'[c][t] = where
           /\ \A u \in Threads : u # t => pc'[c][u] = pc[c][u]
           /\ \A d \in Conns : d # c => pc'[d] = pc[d]
<1>1. pc' = [pc EXCEPT ![c] = [pc[c] EXCEPT ![t] = where]]
  BY DEF Goto
<1>2. PICK r : r = [pc[c] EXCEPT ![t] = where]
  OBVIOUS
<1>3. pc[c] \in [handler : HandlerPc, pump : WorkerPc, ticker : WorkerPc]
  BY DEF TypeOK
<1>4. r \in [handler : HandlerPc, pump : WorkerPc, ticker : WorkerPc]
      /\ r[t] = where /\ \A u \in Threads : u # t => r[u] = pc[c][u]
  BY <1>2, <1>3 DEF Threads
<1>5. pc' = [pc EXCEPT ![c] = r]
  BY <1>1, <1>2
<1> QED BY <1>4, <1>5 DEF TypeOK

LEMMA OutType ==
    ASSUME TypeOK, NEW c \in Conns, NEW t \in Threads, NEW m \in Message,
           out' = [out EXCEPT ![c][t] = m]
    PROVE  /\ out' \in [Conns -> [Threads -> Message]]
           /\ out'[c][t] = m
           /\ \A u \in Threads : u # t => out'[c][u] = out[c][u]
           /\ \A d \in Conns : d # c => out'[d] = out[d]
<1>1. PICK r : r = [out[c] EXCEPT ![t] = m] /\ out' = [out EXCEPT ![c] = r]
  OBVIOUS
<1>2. r \in [Threads -> Message] /\ r[t] = m /\ \A u \in Threads : u # t => r[u] = out[c][u]
  BY <1>1 DEF TypeOK
<1> QED BY <1>1, <1>2 DEF TypeOK
------------------------------------------------------------------------------
(* The goroutines of a connection. *)

Sending(c, t) == pc[c][t] \in {"lock", "write"}

\* The handler has not subscribed yet.
Early(c) == \/ pc[c].handler \in {"none", "snap", "sub"}
            \/ Sending(c, "handler") /\ out[c].handler.type \in {"hello", "snapshot"}

\* What each goroutine of c holds in its hand, and what it has set up.
Hand(c) ==
    /\ Sending(c, "handler") => out[c].handler.type \in {"hello", "snapshot", "stats", "pong"}
    /\ Sending(c, "pump") => out[c].pump.type = "event"
    /\ ~Sending(c, "pump") => out[c].pump = Nothing
    /\ Sending(c, "ticker") => out[c].ticker.type = "stats"
    /\ Early(c) => pc[c].pump = "off" /\ pc[c].ticker = "off"
    /\ pc[c].pump = "off" => c \notin subs /\ queue[c] = <<>>
    /\ pc[c].handler \in {"stop", "uncount", "close", "gone"} => c \notin subs
    /\ pc[c].handler = "gone" => c \in shut

HandInv == \A c \in Conns : Hand(c)

LEMMA HandInit == Init => HandInv
<1> SUFFICES ASSUME Init, NEW c \in Conns PROVE Hand(c)
  BY DEF HandInv
<1>1. /\ pc[c].handler = "none" /\ pc[c].pump = "off" /\ pc[c].ticker = "off"
      /\ pc[c]["handler"] = "none" /\ pc[c]["pump"] = "off" /\ pc[c]["ticker"] = "off"
      /\ out[c].pump = Nothing /\ subs = {} /\ queue[c] = <<>>
  BY DEF Init, Store!Init, Threads
<1> QED BY <1>1 DEF Hand, Sending, Early

\* A connection that a step leaves alone.
LEMMA HandUndisturbed ==
    ASSUME NEW c \in Conns, Hand(c), pc'[c] = pc[c], out'[c] = out[c],
           c \in subs' <=> c \in subs, c \in shut => c \in shut',
           queue'[c] = queue[c] \/ c \in subs
    PROVE  Hand(c)'
BY DEF Hand, Sending, Early

\* A goroutine of c begins or ends to send, or waits.
LEMMA HandHandler ==
    ASSUME TypeOK, NEW c \in Conns, Hand(c), NEW where \in HandlerPc,
           Goto(c, "handler", where),
           out'[c].pump = out[c].pump, out'[c].ticker = out[c].ticker,
           where \in {"lock", "write"} =>
              out'[c].handler.type \in {"hello", "snapshot", "stats", "pong"},
           (\/ where \in {"snap", "sub", "none"}
            \/ where \in {"lock", "write"} /\ out'[c].handler.type \in {"hello", "snapshot"})
              => Early(c),
           where \in {"stop", "uncount", "close", "gone"} => c \notin subs',
           where = "gone" => c \in shut',
           subs' \subseteq subs, queue'[c] = queue[c]
    PROVE  Hand(c)'
<1>1. /\ pc'[c].handler = where /\ pc'[c]["handler"] = where
      /\ pc'[c].pump = pc[c].pump /\ pc'[c].ticker = pc[c].ticker
      /\ pc'[c]["pump"] = pc[c]["pump"] /\ pc'[c]["ticker"] = pc[c]["ticker"]
  BY GotoType DEF Threads
<1> QED BY <1>1 DEF Hand, Sending, Early

LEMMA HandWorker ==
    ASSUME TypeOK, NEW c \in Conns, Hand(c), NEW t \in {"pump", "ticker"}, NEW where \in WorkerPc,
           Goto(c, t, where), pc[c][t] # "off", where # "off",
           out'[c].handler = out[c].handler,
           \A u \in {"pump", "ticker"} : u # t => out'[c][u] = out[c][u],
           t = "pump" => IF where \in {"lock", "write"} THEN out'[c].pump.type = "event"
                                                        ELSE out'[c].pump = Nothing,
           t = "ticker" /\ where \in {"lock", "write"} => out'[c].ticker.type = "stats",
           subs' = subs, t = "ticker" => queue' = queue, c \in shut => c \in shut'
    PROVE  Hand(c)'
<1>1. /\ pc'[c].handler = pc[c].handler /\ pc'[c]["handler"] = pc[c]["handler"]
      /\ pc'[c][t] = where
      /\ \A u \in {"pump", "ticker"} : u # t => pc'[c][u] = pc[c][u]
  BY GotoType DEF Threads
<1>2. CASE t = "pump"
  <2>1. pc'[c].ticker = pc[c].ticker /\ pc'[c]["ticker"] = pc[c]["ticker"]
        /\ out'[c].ticker = out[c].ticker /\ pc'[c].pump # "off"
    BY <1>1, <1>2
  <2>2. ~Early(c)
    BY <1>2 DEF Hand
  <2>3. ~Early(c)'
    BY <1>1, <2>2 DEF Early, Sending
  <2> QED BY <1>1, <1>2, <2>1, <2>3 DEF Hand, Sending
<1>3. CASE t = "ticker"
  <2>1. pc'[c].pump = pc[c].pump /\ pc'[c]["pump"] = pc[c]["pump"] /\ out'[c].pump = out[c].pump
    BY <1>1, <1>3
  <2>2. ~Early(c)
    BY <1>3 DEF Hand
  <2>3. ~Early(c)'
    BY <1>1, <2>2 DEF Early, Sending
  <2>4. Sending(c, "ticker")' => out'[c].ticker.type = "stats"
    BY <1>1, <1>3 DEF Sending
  <2> QED BY <1>1, <2>1, <2>3, <2>4 DEF Hand, Sending
<1> QED BY <1>2, <1>3

\* What send does.
LEMMA HandSend ==
    ASSUME TypeOK, NEW c \in Conns, NEW t \in Threads, Hand(c),
           Lock(c, t) \/ WriteDone(c, t) \/ WriteFails(c, t)
    PROVE  Hand(c)'
<1> USE DEF At, storeVars, envVars
<1>1. pc[c][t] \in {"lock", "write"} /\ subs' = subs /\ queue' = queue /\ shut' = shut
  BY DEF Lock, WriteDone, WriteFails
<1>2. out' = out \/ out' = [out EXCEPT ![c][t] = Nothing]
  BY DEF Lock, WriteDone, WriteFails
<1>3. \A u \in Threads : u # t => out'[c][u] = out[c][u]
  BY <1>2, OutType, MessageTypes
<1>4. out' # out => out'[c][t] = Nothing
  BY <1>2, OutType, MessageTypes
<1>5. Lock(c, t) => out' = out /\ Goto(c, t, "write")
  BY DEF Lock
<1>6. CASE t = "handler"
  <2>1. out[c].handler.type \in {"hello", "snapshot", "stats", "pong"}
    BY <1>1, <1>6 DEF Hand, Sending
  <2>2. PICK where \in HandlerPc :
          /\ Goto(c, "handler", where)
          /\ \/ where = "write" /\ out' = out
             \/ where = Then[out[c].handler.type] \/ where = "exit"
             \/ where = "uncount" /\ out[c].handler.type \in {"hello", "snapshot"}
    <3>1. ASSUME Lock(c, t) PROVE Goto(c, "handler", "write") /\ out' = out
      BY <1>5, <1>6, <3>1
    <3>2. ASSUME WriteDone(c, t) PROVE Goto(c, "handler", Then[out[c].handler.type])
      BY <1>6, <3>2 DEF WriteDone
    <3>3. ASSUME WriteFails(c, t)
          PROVE  \/ Goto(c, "handler", "exit")
                 \/ Goto(c, "handler", "uncount") /\ out[c].handler.type \in {"hello", "snapshot"}
      BY <1>6, <3>3 DEF WriteFails
    <3>4. Then[out[c].handler.type] \in HandlerPc /\ {"write", "exit", "uncount"} \subseteq HandlerPc
      BY <2>1 DEF Then, HandlerPc
    <3> QED BY <3>1, <3>2, <3>3, <3>4
  <2>3. where = "uncount" => c \notin subs
    <3>1. ASSUME where = "uncount" PROVE Early(c)
      BY <1>1, <1>6, <2>1, <2>2, <3>1 DEF Then, Early, Sending
    <3> QED BY <3>1 DEF Hand
  <2>4. where \in {"snap", "sub"} => Early(c)
    BY <1>1, <1>6, <2>1, <2>2 DEF Then, Early, Sending
  <2>5. where \in {"lock", "write"} => out' = out
    BY <2>1, <2>2 DEF Then
  <2>6. where \notin {"none", "stop", "close", "gone"}
    BY <2>1, <2>2 DEF Then
  <2>7. where \in {"lock", "write"} /\ out'[c].handler.type \in {"hello", "snapshot"} => Early(c)
    BY <1>1, <1>6, <2>5 DEF Early, Sending
  <2>8. out'[c].pump = out[c].pump /\ out'[c].ticker = out[c].ticker
    BY <1>3, <1>6 DEF Threads
  <2> QED BY <1>1, <2>1, <2>2, <2>3, <2>4, <2>5, <2>6, <2>7, <2>8, HandHandler
<1>7. CASE t # "handler"
  <2>1. t \in {"pump", "ticker"} /\ pc[c][t] # "off"
    BY <1>1, <1>7 DEF Threads
  <2>2. PICK where \in {"write", "wait", "done"} :
          /\ Goto(c, t, where)
          /\ IF where = "write" THEN out' = out ELSE out'[c][t] = Nothing
    <3>1. ASSUME Lock(c, t) PROVE Goto(c, t, "write") /\ out' = out
      BY <1>5, <3>1
    <3>2. ASSUME WriteDone(c, t) PROVE Goto(c, t, "wait") /\ out'[c][t] = Nothing
      BY <1>7, <3>2, OutType, MessageTypes DEF WriteDone
    <3>3. ASSUME WriteFails(c, t) PROVE Goto(c, t, "done") /\ out'[c][t] = Nothing
      BY <1>7, <3>3, OutType, MessageTypes DEF WriteFails
    <3> HIDE DEF At, storeVars, envVars
    <3> QED BY <3>1, <3>2, <3>3
  <2>3. out'[c].handler = out[c].handler /\ \A u \in {"pump", "ticker"} : u # t => out'[c][u] = out[c][u]
    BY <1>3, <1>7 DEF Threads
  <2>4. t = "pump" => IF where \in {"lock", "write"} THEN out'[c].pump.type = "event"
                                                     ELSE out'[c].pump = Nothing
    BY <1>1, <2>2 DEF Hand, Sending
  <2>5. t = "ticker" /\ where \in {"lock", "write"} => out'[c].ticker.type = "stats"
    BY <1>1, <2>2 DEF Hand, Sending
  <2>6. where \in WorkerPc /\ where # "off"
    BY DEF WorkerPc
  <2> QED BY <1>1, <2>1, <2>2, <2>3, <2>4, <2>5, <2>6, HandWorker
<1> QED BY <1>6, <1>7
------------------------------------------------------------------------------
(* One step concerns one connection, except a push. *)

ConnAction(c) ==
    \/ Accept(c) \/ Handler(c) \/ IdleTimeout(c)
    \/ PumpTake(c) \/ Tick(c)
    \/ \E t \in {"pump", "ticker"} : Worker(c, t)
    \/ ClientRead(c) \/ ClientHangup(c)
    \/ \E what \in {"ping", "subscribe"} : ClientAsk(c, what)

\* Nothing that any connection holds.
Still == /\ up' \in {up, FALSE}
         /\ UNCHANGED <<storeVars, connVars, envVars, toClient, view>>

LEMMA StepCases ==
    ASSUME [Next]_vars
    PROVE  Push \/ Still \/ \E c \in Conns : ConnAction(c)
BY DEF Next, ConnAction, Shutdown, Still, vars

\* What d has, as far as the steps of other connections go.
Same(d) == /\ pc'[d] = pc[d] /\ out'[d] = out[d] /\ queue'[d] = queue[d]
           /\ toClient'[d] = toClient[d] /\ view'[d] = view[d]
           /\ d \in subs' <=> d \in subs
           /\ d \in shut' <=> d \in shut
           /\ d \in hungup' <=> d \in hungup

LEMMA OthersAreLeftAlone ==
    ASSUME TypeOK, NEW c \in Conns, NEW d \in Conns, d # c, ConnAction(c)
    PROVE  Same(d) /\ window' = window /\ total' = total
<1> USE DEF storeVars, envVars, Same
<1>1. ASSUME NEW t \in Threads, Lock(c, t) \/ WriteDone(c, t) \/ WriteFails(c, t)
      PROVE  Same(d) /\ window' = window /\ total' = total
  <2>1. CASE Lock(c, t)
    BY <2>1 DEF TypeOK, Lock, Goto
  <2>2. CASE WriteDone(c, t)
    BY <2>2 DEF TypeOK, WriteDone, Goto
  <2>3. CASE WriteFails(c, t)
    BY <2>3 DEF TypeOK, WriteFails, Goto
  <2> QED BY <1>1, <2>1, <2>2, <2>3
<1>2. CASE Accept(c) \/ ReadSnapshot(c) \/ Decode(c) \/ Tick(c)
  BY <1>2 DEF TypeOK, Accept, ReadSnapshot, Decode, Tick, BeginSend, Goto
<1>3. CASE LoopTop(c) \/ DecodeEnds(c) \/ IdleTimeout(c)
  BY <1>3 DEF TypeOK, LoopTop, DecodeEnds, IdleTimeout, Goto
<1>4. CASE DeferStop(c) \/ DeferUncount(c) \/ DeferClose(c)
  BY <1>4 DEF TypeOK, DeferStop, DeferUncount, DeferClose, Goto
<1>5. CASE Subscribe(c)
  BY <1>5 DEF TypeOK, Subscribe, Store!Join
<1>6. CASE DeferUnsubscribe(c)
  BY <1>6 DEF TypeOK, DeferUnsubscribe, Store!Leave, Goto
<1>7. CASE PumpTake(c)
  BY <1>7 DEF TypeOK, PumpTake, Store!Take, BeginSend, Goto
<1>8. ASSUME NEW t \in Threads, WorkerStops(c, t)
      PROVE  Same(d) /\ window' = window /\ total' = total
  BY <1>8 DEF TypeOK, WorkerStops, Goto
<1>9. CASE ClientRead(c) \/ ClientHangup(c) \/ \E what \in {"ping", "subscribe"} : ClientAsk(c, what)
  BY <1>9 DEF TypeOK, ClientRead, ClientHangup, ClientAsk, connVars
<1> QED BY <1>1, <1>2, <1>3, <1>4, <1>5, <1>6, <1>7, <1>8, <1>9
        DEF ConnAction, Handler, Worker, Threads

\* An envelope put into a goroutine's hand.
LEMMA BeginSendType ==
    ASSUME TypeOK, NEW c \in Conns, NEW t \in Threads, NEW m \in Message, BeginSend(c, t, m)
    PROVE  /\ out'[c][t] = m
           /\ \A u \in Threads : u # t => out'[c][u] = out[c][u]
           /\ Goto(c, t, "lock")
BY OutType DEF BeginSend

\* The steps of a connection that send nothing.
LEMMA HandOwn ==
    ASSUME TypeOK, NEW c \in Conns, Hand(c), ConnAction(c)
    PROVE  Hand(c)'
<1> USE DEF At, storeVars, envVars
<1>0. "handler" \in Threads /\ "pump" \in Threads /\ "ticker" \in Threads
  BY DEF Threads
<1>1. ASSUME NEW t \in Threads, Lock(c, t) \/ WriteDone(c, t) \/ WriteFails(c, t) PROVE Hand(c)'
  BY <1>1, HandSend
<1>2. ASSUME NEW m \in {Hello, StatsMsg, Pong} \cup {Snapshot(window)},
             BeginSend(c, "handler", m),
             m.type \in {"hello", "snapshot"} => Early(c),
             UNCHANGED <<subs, queue, shut>>
      PROVE  Hand(c)'
  <2>1. m \in Message
    BY MessageTypes DEF TypeOK
  <2>2. Goto(c, "handler", "lock") /\ out'[c].handler = m
        /\ out'[c].pump = out[c].pump /\ out'[c].ticker = out[c].ticker
    BY <1>0, <1>2, <2>1, BeginSendType DEF Threads
  <2>3. m.type \in {"hello", "snapshot", "stats", "pong"}
    BY <1>2 DEF Hello, StatsMsg, Pong, Snapshot
  <2>4. "lock" \in HandlerPc
    BY DEF HandlerPc
  <2> QED BY <1>2, <2>2, <2>3, <2>4, HandHandler
<1>3. CASE Accept(c)
  <2>1. Early(c) /\ BeginSend(c, "handler", Hello) /\ UNCHANGED <<subs, queue, shut>>
    BY <1>3 DEF Accept, Early
  <2> QED BY <1>2, <2>1
<1>4. CASE ReadSnapshot(c)
  <2>1. Early(c) /\ BeginSend(c, "handler", Snapshot(window)) /\ UNCHANGED <<subs, queue, shut>>
    BY <1>4 DEF ReadSnapshot, Early
  <2> QED BY <1>2, <2>1
<1>5. CASE Decode(c)
  <2>1. PICK m \in {StatsMsg, Pong} : BeginSend(c, "handler", m)
    BY <1>5 DEF Decode
  <2>2. m.type \notin {"hello", "snapshot"} /\ UNCHANGED <<subs, queue, shut>>
    BY <1>5 DEF Decode, StatsMsg, Pong
  <2> QED BY <1>2, <2>1, <2>2
<1>6. CASE Subscribe(c)
  <2>1. Early(c)
    BY <1>6 DEF Subscribe, Early
  <2>2. pc'[c] = [handler |-> "loop", pump |-> "wait", ticker |-> "wait"]
    BY <1>6 DEF TypeOK, Subscribe, Then
  <2>3. out' = out /\ shut' = shut
    BY <1>6 DEF Subscribe
  <2>4. out[c].pump = Nothing
    BY <2>1 DEF Hand, Sending
  <2> QED BY <2>2, <2>3, <2>4 DEF Hand, Sending, Early
<1>7. ASSUME NEW where \in {"exit", "decode", "stop", "uncount", "close", "gone"},
             Goto(c, "handler", where), out' = out, queue' = queue, subs' \subseteq subs,
             where \in {"stop", "uncount", "close", "gone"} => c \notin subs',
             where = "gone" => c \in shut'
      PROVE  Hand(c)'
  <2>1. where \in HandlerPc
    BY DEF HandlerPc
  <2> QED BY <1>7, <2>1, HandHandler
<1>8. CASE LoopTop(c) \/ DecodeEnds(c) \/ IdleTimeout(c)
  <2>1. out' = out /\ queue' = queue /\ subs' = subs
    BY <1>8 DEF LoopTop, DecodeEnds, IdleTimeout
  <2>2. Goto(c, "handler", "exit") \/ Goto(c, "handler", "decode")
    BY <1>8 DEF LoopTop, DecodeEnds, IdleTimeout
  <2> QED BY <1>7, <2>1, <2>2
<1>9. CASE DeferUnsubscribe(c)
  BY <1>7, <1>9 DEF DeferUnsubscribe, Store!Leave
<1>10. CASE DeferStop(c)
  BY <1>7, <1>10 DEF DeferStop, Hand
<1>11. CASE DeferUncount(c)
  BY <1>7, <1>11 DEF DeferUncount, Hand
<1>12. CASE DeferClose(c)
  BY <1>7, <1>12 DEF DeferClose, Hand
<1>13. CASE PumpTake(c)
  <2> DEFINE m == EventMsg(Head(queue[c]))
  <2>1. m \in Message /\ m.type = "event"
    BY <1>13, MessageTypes DEF TypeOK, PumpTake, EventMsg
  <2>2. BeginSend(c, "pump", m) /\ UNCHANGED <<subs, shut>> /\ pc[c]["pump"] = "wait"
    BY <1>13 DEF PumpTake, Store!Take
  <2>3. Goto(c, "pump", "lock") /\ out'[c].pump = m
        /\ out'[c].handler = out[c].handler /\ out'[c].ticker = out[c].ticker
    BY <1>0, <2>1, <2>2, BeginSendType DEF Threads
  <2>4. "lock" \in WorkerPc
    BY DEF WorkerPc
  <2> HIDE DEF m
  <2> QED BY <2>1, <2>2, <2>3, <2>4, HandWorker
<1>14. CASE Tick(c)
  <2>1. BeginSend(c, "ticker", StatsMsg) /\ UNCHANGED <<subs, shut, queue>> /\ pc[c]["ticker"] = "wait"
    BY <1>14 DEF Tick
  <2>2. Goto(c, "ticker", "lock") /\ out'[c].ticker = StatsMsg
        /\ out'[c].handler = out[c].handler /\ out'[c].pump = out[c].pump
    BY <1>0, <2>1, BeginSendType, MessageTypes DEF Threads
  <2>3. "lock" \in WorkerPc /\ StatsMsg.type = "stats"
    BY DEF WorkerPc, StatsMsg
  <2> QED BY <2>1, <2>2, <2>3, HandWorker
<1>15. ASSUME NEW t \in {"pump", "ticker"}, WorkerStops(c, t) PROVE Hand(c)'
  <2>1. Goto(c, t, "done") /\ out' = out /\ UNCHANGED <<subs, shut, queue>> /\ pc[c][t] = "wait"
    BY <1>15 DEF WorkerStops
  <2>2. t = "pump" => out'[c].pump = Nothing
    BY <2>1 DEF Hand, Sending
  <2>3. "done" \in WorkerPc
    BY DEF WorkerPc
  <2> QED BY <2>1, <2>2, <2>3, HandWorker
<1>16. CASE ClientRead(c) \/ ClientHangup(c) \/ \E what \in {"ping", "subscribe"} : ClientAsk(c, what)
  <2>1. pc' = pc /\ out' = out /\ UNCHANGED <<subs, shut, queue>>
    BY <1>16 DEF ClientRead, ClientHangup, ClientAsk, connVars
  <2> QED BY <2>1, HandUndisturbed
<1> QED BY <1>0, <1>1, <1>3, <1>4, <1>5, <1>6, <1>8, <1>9, <1>10, <1>11, <1>12, <1>13, <1>14,
           <1>15, <1>16 DEF ConnAction, Handler, Worker

LEMMA HandStep == TypeOK /\ HandInv /\ [Next]_vars => HandInv'
<1> SUFFICES ASSUME TypeOK, HandInv, [Next]_vars, NEW d \in Conns PROVE Hand(d)'
  BY DEF HandInv
<1>1. Hand(d)
  BY DEF HandInv
<1>2. CASE Push
  <2>1. /\ pc' = pc /\ out' = out /\ subs' = subs /\ shut' = shut
        /\ queue'[d] = queue[d] \/ d \in subs
    BY <1>2 DEF Push, Store!Put, connVars
  <2> QED BY <1>1, <2>1, HandUndisturbed
<1>3. CASE Still
  BY <1>1, <1>3, HandUndisturbed DEF Still, storeVars, connVars
<1>4. ASSUME NEW c \in Conns, ConnAction(c) PROVE Hand(d)'
  BY <1>1, <1>4, OthersAreLeftAlone, HandOwn, HandUndisturbed DEF Same
<1> QED BY <1>2, <1>3, <1>4, StepCases
------------------------------------------------------------------------------
(* The client count. *)

Served == {c \in Conns : pc[c].handler \notin {"none", "close", "gone"}}

Counted == clients = Cardinality(Served)

LEMMA CountStep == TypeOK /\ HandInv /\ Counted /\ [Next]_vars => Counted'
<1> SUFFICES ASSUME TypeOK, HandInv, Counted, [Next]_vars PROVE Counted'
  OBVIOUS
<1> USE DEF At, storeVars, envVars
<1>1. IsFiniteSet(Served)
  BY FS_Subset, IpcServerAssumption DEF Served
<1>2. ASSUME pc' = pc, clients' = clients PROVE Counted'
  BY <1>2 DEF Counted, Served
<1>3. ASSUME NEW c \in Conns, ConnAction(c) PROVE Counted'
  <2> DEFINE Off == {"none", "close", "gone"}
  <2>1. \A d \in Conns : d # c => pc'[d] = pc[d]
    BY <1>3, OthersAreLeftAlone DEF Same
  <2>2. ASSUME clients' = clients, pc'[c].handler \in Off <=> pc[c].handler \in Off
        PROVE  Counted'
    <3>1. Served' = Served
      BY <2>1, <2>2 DEF Served
    <3> QED BY <2>2, <3>1 DEF Counted
  <2>3. ASSUME clients' = clients, NEW where \in HandlerPc \ Off, Goto(c, "handler", where),
               pc[c].handler \notin Off
        PROVE  Counted'
    <3>1. pc'[c].handler = where
      BY <2>3, GotoType DEF Threads
    <3> QED BY <2>2, <2>3, <3>1
  <2>4. ASSUME clients' = clients, NEW t \in {"pump", "ticker"}, NEW where \in WorkerPc,
               Goto(c, t, where)
        PROVE  Counted'
    <3>1. pc'[c].handler = pc[c].handler
      BY <2>4, GotoType DEF Threads
    <3> QED BY <2>2, <2>4, <3>1
  <2>5. CASE Accept(c)
    <3>1. pc[c].handler = "none" /\ Goto(c, "handler", "lock") /\ clients' = clients + 1
      BY <2>5 DEF Accept, BeginSend
    <3>2. pc'[c].handler = "lock"
      BY <3>1, GotoType DEF Threads, HandlerPc
    <3>3. Served' = Served \cup {c} /\ c \notin Served
      BY <2>1, <3>1, <3>2 DEF Served
    <3> QED BY <1>1, <3>1, <3>3, FS_AddElement DEF Counted
  <2>6. CASE DeferUncount(c)
    <3>1. pc[c].handler = "uncount" /\ Goto(c, "handler", "close") /\ clients' = clients - 1
      BY <2>6 DEF DeferUncount
    <3>2. pc'[c].handler = "close"
      BY <3>1, GotoType DEF Threads, HandlerPc
    <3>3. Served' = Served \ {c} /\ c \in Served
      BY <2>1, <3>1, <3>2 DEF Served
    <3> QED BY <1>1, <3>1, <3>3, FS_RemoveElement DEF Counted
  <2>7. CASE Lock(c, "handler") \/ ReadSnapshot(c) \/ Decode(c)
    <3>1. clients' = clients /\ pc[c].handler \notin Off
          /\ (Goto(c, "handler", "write") \/ Goto(c, "handler", "lock"))
      BY <2>7 DEF Lock, ReadSnapshot, Decode, BeginSend
    <3>2. {"write", "lock"} \subseteq HandlerPc \ Off
      BY DEF HandlerPc
    <3> QED BY <2>3, <3>1, <3>2
  <2>8. CASE WriteDone(c, "handler")
    <3>1. out[c].handler.type \in {"hello", "snapshot", "stats", "pong"}
      BY <2>8 DEF WriteDone, HandInv, Hand, Sending
    <3>2. clients' = clients /\ pc[c].handler \notin Off
          /\ Goto(c, "handler", Then[out[c].handler.type])
      BY <2>8 DEF WriteDone
    <3>3. Then[out[c].handler.type] \in HandlerPc \ Off
      BY <3>1 DEF Then, HandlerPc
    <3> QED BY <2>3, <3>2, <3>3
  <2>9. CASE WriteFails(c, "handler") \/ LoopTop(c) \/ DecodeEnds(c) \/ IdleTimeout(c)
    <3>1. clients' = clients /\ pc[c].handler \notin Off
          /\ \E where \in {"uncount", "exit", "decode"} : Goto(c, "handler", where)
      BY <2>9 DEF WriteFails, LoopTop, DecodeEnds, IdleTimeout
    <3>2. {"uncount", "exit", "decode"} \subseteq HandlerPc \ Off
      BY DEF HandlerPc
    <3> QED BY <2>3, <3>1, <3>2
  <2>10. CASE Subscribe(c)
    BY <2>2, <2>10 DEF TypeOK, Subscribe, Then
  <2>11. CASE DeferUnsubscribe(c) \/ DeferStop(c)
    <3>1. clients' = clients /\ pc[c].handler \notin Off
          /\ (Goto(c, "handler", "stop") \/ Goto(c, "handler", "uncount"))
      BY <2>11 DEF DeferUnsubscribe, DeferStop
    <3>2. {"stop", "uncount"} \subseteq HandlerPc \ Off
      BY DEF HandlerPc
    <3> QED BY <2>3, <3>1, <3>2
  <2>12. CASE DeferClose(c)
    <3>1. clients' = clients /\ pc[c].handler = "close" /\ Goto(c, "handler", "gone")
      BY <2>12 DEF DeferClose
    <3>2. pc'[c].handler = "gone"
      BY <3>1, GotoType DEF Threads, HandlerPc
    <3> QED BY <2>2, <3>1, <3>2
  <2>13. CASE PumpTake(c) \/ Tick(c)
    <3>1. clients' = clients /\ (Goto(c, "pump", "lock") \/ Goto(c, "ticker", "lock"))
      BY <2>13 DEF PumpTake, Tick, BeginSend
    <3>2. "lock" \in WorkerPc
      BY DEF WorkerPc
    <3> QED BY <2>4, <3>1, <3>2
  <2>14. ASSUME NEW t \in {"pump", "ticker"}, Worker(c, t) PROVE Counted'
    <3>1. clients' = clients /\ \E where \in {"write", "wait", "done"} : Goto(c, t, where)
      BY <2>14 DEF Worker, Lock, WriteDone, WriteFails, WorkerStops
    <3>2. {"write", "wait", "done"} \subseteq WorkerPc
      BY DEF WorkerPc
    <3> QED BY <2>4, <3>1, <3>2
  <2>15. CASE ClientRead(c) \/ ClientHangup(c) \/ \E what \in {"ping", "subscribe"} : ClientAsk(c, what)
    BY <1>2, <2>15 DEF ClientRead, ClientHangup, ClientAsk, connVars
  <2> QED BY <1>3, <2>5, <2>6, <2>7, <2>8, <2>9, <2>10, <2>11, <2>12, <2>13, <2>14, <2>15
          DEF ConnAction, Handler
<1>4. CASE Push
  BY <1>2, <1>4 DEF Push, connVars
<1>5. CASE Still
  BY <1>2, <1>5 DEF Still, connVars
<1> QED BY <1>3, <1>4, <1>5, StepCases
------------------------------------------------------------------------------
(* Types. *)

\* What a push puts into the window and the subscriptions.
Pushed == [seq |-> total + 1, table |-> "any"]

LEMMA PushTypes ==
    ASSUME TypeOK, Push
    PROVE  /\ Pushed \in Event
           /\ window' \in Seq(Event) /\ Len(window') <= Capacity
           /\ queue' \in [Conns -> Seq(Event)] /\ \A c \in Conns : Len(queue'[c]) <= SubChanCap
           /\ total' = total + 1 /\ total' \in 0 .. MaxPush
           /\ UNCHANGED <<subs, closed, filter, up, connVars, envVars, toClient, view>>
<1>1. Pushed \in Event /\ total' = total + 1 /\ total' \in 0 .. MaxPush
  BY IpcServerAssumption DEF TypeOK, Push, Pushed, Event, Tables
<1> HIDE DEF Pushed
<1>2. PICK w \in Seq(Event) : w = Append(window, Pushed) /\ Len(w) = Len(window) + 1
  BY <1>1, AppendProperties DEF TypeOK
<1>3. window' = Store!Last(w, Capacity)
  BY <1>2 DEF Push, Store!Put, Pushed
<1>4. window' \in Seq(Event) /\ Len(window') <= Capacity
  <2>1. CASE Len(w) > Capacity
    <3>1. w # <<>> /\ window' = Tail(w)
      BY <1>3, <2>1, IpcServerAssumption DEF Store!Last
    <3> QED BY <1>2, <3>1, IpcServerAssumption, HeadTailProperties DEF TypeOK
  <2>2. CASE ~(Len(w) > Capacity)
    BY <1>3, <2>2, IpcServerAssumption DEF Store!Last
  <2> QED BY <2>1, <2>2
<1>5. ASSUME NEW c \in Conns
      PROVE  \/ queue'[c] = queue[c]
             \/ c \in subs /\ Len(queue[c]) < SubChanCap /\ queue'[c] = Append(queue[c], Pushed)
  <2>1. queue' = [d \in Conns |-> IF d \in subs /\ Pushed.table \in filter[d] /\ Len(queue[d]) < SubChanCap
                                 THEN Append(queue[d], Pushed) ELSE queue[d]]
    BY DEF Push, Pushed, Store!Put
  <2>2. CASE c \in subs /\ Pushed.table \in filter[c] /\ Len(queue[c]) < SubChanCap
    BY <2>1, <2>2
  <2>3. CASE ~(c \in subs /\ Pushed.table \in filter[c] /\ Len(queue[c]) < SubChanCap)
    BY <2>1, <2>3
  <2> QED BY <2>2, <2>3
<1>6. ASSUME NEW c \in Conns PROVE queue'[c] \in Seq(Event) /\ Len(queue'[c]) <= SubChanCap
  <2>1. queue[c] \in Seq(Event) /\ Len(queue[c]) <= SubChanCap
    BY DEF TypeOK
  <2>2. Append(queue[c], Pushed) \in Seq(Event) /\ Len(Append(queue[c], Pushed)) = Len(queue[c]) + 1
    BY <1>1, <2>1, AppendProperties
  <2>3. Len(queue[c]) \in Nat /\ SubChanCap \in Nat
    BY <2>1, IpcServerAssumption, LenProperties
  <2>4. CASE queue'[c] = queue[c]
    BY <2>1, <2>4
  <2>5. CASE Len(queue[c]) < SubChanCap /\ queue'[c] = Append(queue[c], Pushed)
    <3>1. Len(queue[c]) + 1 <= SubChanCap
      BY <2>3, <2>5
    <3> QED BY <2>2, <2>5, <3>1
  <2> QED BY <1>5, <2>4, <2>5
<1>7. DOMAIN queue' = Conns /\ queue' = [c \in Conns |-> queue'[c]]
  BY DEF Push, Store!Put
<1> QED BY <1>1, <1>4, <1>6, <1>7 DEF Push, Store!Put

LEMMA TypeStep == TypeOK /\ HandInv /\ Counted' /\ [Next]_vars => TypeOK'
<1> SUFFICES ASSUME TypeOK, HandInv, Counted', [Next]_vars PROVE TypeOK'
  OBVIOUS
<1> USE DEF At, storeVars, envVars
<1>0. "handler" \in Threads /\ "pump" \in Threads /\ "ticker" \in Threads
  BY DEF Threads
<1>1. clients' \in 0 .. Cardinality(Conns)
  <2>1. Served' \subseteq Conns
    BY DEF Served
  <2> QED BY <2>1, FS_Subset, FS_CardinalityType, IpcServerAssumption DEF Counted
<1>2. CASE Push
  BY <1>1, <1>2, PushTypes DEF TypeOK, connVars
<1>3. CASE Still
  BY <1>1, <1>3 DEF Still, TypeOK, connVars
<1>4. ASSUME NEW c \in Conns, ConnAction(c) PROVE TypeOK'
  <2>1. ASSUME NEW t \in Threads, NEW where, Goto(c, t, where),
               where \in (IF t = "handler" THEN HandlerPc ELSE WorkerPc)
        PROVE  pc' \in [Conns -> [handler : HandlerPc, pump : WorkerPc, ticker : WorkerPc]]
    BY <2>1, GotoType
  <2>2. {"lock", "write"} \subseteq HandlerPc /\ {"lock", "write", "wait", "done"} \subseteq WorkerPc
        /\ {"snap", "sub", "loop", "decode", "exit", "stop", "uncount", "close", "gone"} \subseteq HandlerPc
    BY DEF HandlerPc, WorkerPc
  <2>3. ASSUME NEW t \in Threads, NEW m \in Message, BeginSend(c, t, m)
        PROVE  /\ pc' \in [Conns -> [handler : HandlerPc, pump : WorkerPc, ticker : WorkerPc]]
               /\ out' \in [Conns -> [Threads -> Message]]
    BY <2>1, <2>2, <2>3, OutType DEF BeginSend
  <2>4. ASSUME NEW t \in Threads, Lock(c, t) PROVE TypeOK'
    <3>1. pc' \in [Conns -> [handler : HandlerPc, pump : WorkerPc, ticker : WorkerPc]]
      BY <2>1, <2>2, <2>4 DEF Lock
    <3> QED BY <1>1, <2>4, <3>1 DEF Lock, TypeOK
  <2>5. ASSUME NEW t \in Threads, WriteDone(c, t) PROVE TypeOK'
    <3>1. pc' \in [Conns -> [handler : HandlerPc, pump : WorkerPc, ticker : WorkerPc]]
      <4>1. t = "handler" => Then[out[c][t].type] \in HandlerPc
        <5>1. t = "handler" => out[c][t].type \in {"hello", "snapshot", "stats", "pong"}
          BY <2>5 DEF WriteDone, HandInv, Hand, Sending
        <5> QED BY <2>2, <5>1 DEF Then
      <4>2. Goto(c, t, IF t = "handler" THEN Then[out[c][t].type] ELSE "wait")
        BY <2>5 DEF WriteDone
      <4> QED BY <2>1, <2>2, <4>1, <4>2
    <3>2. out' \in [Conns -> [Threads -> Message]]
      BY <2>5, OutType, MessageTypes DEF WriteDone
    <3>3. toClient' \in [Conns -> Seq(Message)] /\ \A d \in Conns : Len(toClient'[d]) <= SockCap
      <4>1. out[c][t] \in Message
        BY DEF TypeOK
      <4>2. Append(toClient[c], out[c][t]) \in Seq(Message)
            /\ Len(Append(toClient[c], out[c][t])) = Len(toClient[c]) + 1
        BY <4>1 DEF TypeOK
      <4> QED BY <2>5, <4>2, IpcServerAssumption DEF WriteDone, TypeOK
    <3> QED BY <1>1, <2>5, <3>1, <3>2, <3>3 DEF WriteDone, TypeOK
  <2>6. ASSUME NEW t \in Threads, WriteFails(c, t) PROVE TypeOK'
    <3>1. pc' \in [Conns -> [handler : HandlerPc, pump : WorkerPc, ticker : WorkerPc]]
      <4>1. \/ t = "handler" /\ (Goto(c, t, "uncount") \/ Goto(c, t, "exit"))
            \/ t # "handler" /\ Goto(c, t, "done")
        BY <2>6 DEF WriteFails
      <4> QED BY <2>1, <2>2, <4>1
    <3>2. out' \in [Conns -> [Threads -> Message]]
      BY <2>6, OutType, MessageTypes DEF WriteFails
    <3>3. stopPump' \subseteq Conns
      BY <2>6 DEF WriteFails, TypeOK
    <3> QED BY <1>1, <2>6, <3>1, <3>2, <3>3 DEF WriteFails, TypeOK
  <2>7. CASE Accept(c)
    <3>1. BeginSend(c, "handler", Hello)
      BY <2>7 DEF Accept
    <3> QED BY <1>0, <1>1, <2>3, <2>7, <3>1, MessageTypes DEF Accept, TypeOK
  <2>8. CASE ReadSnapshot(c)
    <3>1. BeginSend(c, "handler", Snapshot(window)) /\ Snapshot(window) \in Message
      BY <2>8, MessageTypes DEF ReadSnapshot, TypeOK
    <3> QED BY <1>0, <1>1, <2>3, <2>8, <3>1 DEF ReadSnapshot, TypeOK
  <2>9. CASE Subscribe(c)
    <3>1. pc' \in [Conns -> [handler : HandlerPc, pump : WorkerPc, ticker : WorkerPc]]
      BY <2>2, <2>9 DEF Subscribe, TypeOK, Then
    <3> QED BY <1>1, <2>9, <3>1 DEF Subscribe, Store!Join, TypeOK
  <2>10. CASE Decode(c)
    <3>1. \E m \in {StatsMsg, Pong} : BeginSend(c, "handler", m)
      BY <2>10 DEF Decode
    <3>2. toServer' \in [Conns -> Seq({"ping", "subscribe"})]
      BY <2>10 DEF Decode, TypeOK
    <3> QED BY <1>0, <1>1, <2>3, <2>10, <3>1, <3>2, MessageTypes DEF Decode, TypeOK
  <2>11. CASE LoopTop(c) \/ DecodeEnds(c) \/ IdleTimeout(c)
    <3>1. Goto(c, "handler", "exit") \/ Goto(c, "handler", "decode")
      BY <2>11 DEF LoopTop, DecodeEnds, IdleTimeout
    <3>2. pc' \in [Conns -> [handler : HandlerPc, pump : WorkerPc, ticker : WorkerPc]]
      BY <1>0, <2>1, <2>2, <3>1
    <3> QED BY <1>1, <2>11, <3>2 DEF LoopTop, DecodeEnds, IdleTimeout, TypeOK
  <2>12. CASE DeferUnsubscribe(c) \/ DeferStop(c) \/ DeferUncount(c) \/ DeferClose(c)
    <3>1. \E where \in {"stop", "uncount", "close", "gone"} : Goto(c, "handler", where)
      BY <2>12 DEF DeferUnsubscribe, DeferStop, DeferUncount, DeferClose
    <3>2. pc' \in [Conns -> [handler : HandlerPc, pump : WorkerPc, ticker : WorkerPc]]
      BY <1>0, <2>1, <2>2, <3>1
    <3>3. CASE DeferUnsubscribe(c)
      BY <1>1, <3>2, <3>3 DEF DeferUnsubscribe, Store!Leave, TypeOK
    <3>4. CASE DeferStop(c)
      BY <1>1, <3>2, <3>4 DEF DeferStop, TypeOK
    <3>5. CASE DeferUncount(c)
      BY <1>1, <3>2, <3>5 DEF DeferUncount, TypeOK
    <3>6. CASE DeferClose(c)
      BY <1>1, <3>2, <3>6 DEF DeferClose, TypeOK
    <3> QED BY <2>12, <3>3, <3>4, <3>5, <3>6
  <2>13. CASE PumpTake(c)
    <3>1. BeginSend(c, "pump", EventMsg(Head(queue[c]))) /\ EventMsg(Head(queue[c])) \in Message
      BY <2>13, MessageTypes DEF PumpTake, TypeOK
    <3>2. queue' \in [Conns -> Seq(Event)] /\ \A d \in Conns : Len(queue'[d]) <= SubChanCap
      BY <2>13, IpcServerAssumption DEF PumpTake, Store!Take, TypeOK
    <3> QED BY <1>0, <1>1, <2>3, <2>13, <3>1, <3>2 DEF PumpTake, Store!Take, TypeOK
  <2>14. CASE Tick(c)
    <3>1. BeginSend(c, "ticker", StatsMsg)
      BY <2>14 DEF Tick
    <3>2. ticked' \in [Conns -> 0 .. MaxTick]
      BY <2>14, IpcServerAssumption DEF Tick, TypeOK
    <3> QED BY <1>0, <1>1, <2>3, <2>14, <3>1, <3>2, MessageTypes DEF Tick, TypeOK
  <2>15. ASSUME NEW t \in {"pump", "ticker"}, WorkerStops(c, t) PROVE TypeOK'
    <3>1. pc' \in [Conns -> [handler : HandlerPc, pump : WorkerPc, ticker : WorkerPc]]
      BY <1>0, <2>1, <2>2, <2>15 DEF WorkerStops
    <3> QED BY <1>1, <2>15, <3>1 DEF WorkerStops, TypeOK
  <2>16. CASE ClientRead(c)
    <3>1. Head(toClient[c]) \in Message /\ Tail(toClient[c]) \in Seq(Message)
          /\ Len(Tail(toClient[c])) <= Len(toClient[c])
      BY <2>16 DEF ClientRead, TypeOK
    <3>2. Append(view[c], Head(toClient[c])) \in Seq(Message)
      BY <3>1 DEF TypeOK
    <3>3. toClient' \in [Conns -> Seq(Message)] /\ \A d \in Conns : Len(toClient'[d]) <= SockCap
      BY <2>16, <3>1, IpcServerAssumption DEF ClientRead, TypeOK
    <3>4. view' \in [Conns -> Seq(Message)]
      BY <2>16, <3>2 DEF ClientRead, TypeOK
    <3> QED BY <1>1, <2>16, <3>3, <3>4 DEF ClientRead, TypeOK, connVars
  <2>17. CASE ClientHangup(c)
    BY <1>1, <2>17 DEF ClientHangup, TypeOK, connVars
  <2>18. ASSUME NEW what \in {"ping", "subscribe"}, ClientAsk(c, what) PROVE TypeOK'
    <3>1. Append(toServer[c], what) \in Seq({"ping", "subscribe"})
      BY DEF TypeOK
    <3>2. toServer' \in [Conns -> Seq({"ping", "subscribe"})]
      BY <2>18, <3>1 DEF ClientAsk, TypeOK
    <3>3. asked' \in [Conns -> 0 .. MaxAsk]
      BY <2>18, IpcServerAssumption DEF ClientAsk, TypeOK
    <3> QED BY <1>1, <2>18, <3>2, <3>3 DEF ClientAsk, TypeOK, connVars
  <2> QED BY <1>0, <1>4, <2>4, <2>5, <2>6, <2>7, <2>8, <2>9, <2>10, <2>11, <2>12, <2>13, <2>14,
             <2>15, <2>16, <2>17, <2>18 DEF ConnAction, Handler, Worker
<1> QED BY <1>2, <1>3, <1>4, StepCases

LEMMA InitFacts == Init => TypeOK /\ HandInv /\ Counted
<1> SUFFICES ASSUME Init PROVE TypeOK /\ HandInv /\ Counted
  OBVIOUS
<1>1. Served = {}
  BY DEF Init, Served
<1>2. Counted
  BY <1>1, FS_EmptySet DEF Init, Counted
<1>3. TypeOK
  <2>1. Cardinality(Conns) \in Nat
    BY FS_CardinalityType, IpcServerAssumption
  <2>2. Nothing \in Message
    BY MessageTypes
  <2> QED BY <2>1, <2>2, IpcServerAssumption
          DEF Init, Store!Init, TypeOK, HandlerPc, WorkerPc, Threads, Tables
<1> QED BY <1>2, <1>3, HandInit

BaseInv == TypeOK /\ HandInv /\ Counted

LEMMA BaseCorrect == Spec => []BaseInv
<1>1. Init => BaseInv
  BY InitFacts DEF BaseInv
<1>2. BaseInv /\ [Next]_vars => BaseInv'
  BY CountStep, HandStep, TypeStep DEF BaseInv
<1> QED BY <1>1, <1>2, PTL DEF Spec

\* The types of the server's state, for any set of connections: among them, that
\* neither a subscription nor a socket holds more than its buffer does, and that the
\* client count is never negative (server.go:88-193).
THEOREM TypeCorrect == Spec => []TypeOK
<1>1. BaseInv => TypeOK
  BY DEF BaseInv
<1> QED BY <1>1, BaseCorrect, PTL

\* By whichever return a handler ends, and with whatever its two workers are doing,
\* it leaves no subscription and no open connection, and the client count is the
\* number of handlers that serve (server.go:88-97, 120-122).
THEOREM HandlersCleanUp == Spec => []HandlerCleansUp
<1>1. BaseInv => HandlerCleansUp
  BY DEF BaseInv, HandInv, Hand, Counted, Served, HandlerCleansUp, At
<1> QED BY <1>1, BaseCorrect, PTL
------------------------------------------------------------------------------
(* Sequences of envelopes, apart from the server's state. *)

LEMMA NumbersOf ==
    /\ Numbers(Hello) = {} /\ Numbers(StatsMsg) = {} /\ Numbers(Pong) = {} /\ Numbers(Nothing) = {}
    /\ \A e : Numbers(EventMsg(e)) = {e.seq}
    /\ \A w : Numbers(Snapshot(w)) = {w[i].seq : i \in DOMAIN w}
BY DEF Numbers, Hello, StatsMsg, Pong, Nothing, EventMsg, Snapshot

LEMMA KindsOf ==
    ASSUME NEW m \in Message
    PROVE  /\ m.type \notin {"event", "snapshot"} => Numbers(m) = {}
           /\ m.type = "event" => \E e \in Event : m = EventMsg(e)
           /\ m.type = "snapshot" => \E w \in Seq(Event) : m = Snapshot(w)
           /\ Numbers(m) \subseteq Int
<1>1. CASE m \in {Hello, StatsMsg, Pong, Nothing}
  BY <1>1, NumbersOf DEF Hello, StatsMsg, Pong, Nothing
<1>2. ASSUME NEW e \in Event, m = EventMsg(e)
      PROVE  m.type = "event" /\ e.seq \in Int /\ Numbers(m) = {e.seq}
  BY <1>2, NumbersOf DEF EventMsg, Event
<1>3. ASSUME NEW w \in UNION {[1 .. n -> Event] : n \in 0 .. Capacity}, m = Snapshot(w)
      PROVE  m.type = "snapshot" /\ w \in Seq(Event) /\ Numbers(m) \subseteq Int
  <2>1. PICK n \in 0 .. Capacity : w \in [1 .. n -> Event]
    BY <1>3
  <2>2. n \in Nat
    BY <2>1, IpcServerAssumption
  <2>3. w \in Seq(Event)
    BY <2>1, <2>2, SeqDef
  <2>4. \A i \in DOMAIN w : w[i].seq \in Int
    BY <2>1 DEF Event
  <2> QED BY <1>3, <2>3, <2>4, NumbersOf DEF Snapshot
<1> QED BY <1>1, <1>2, <1>3 DEF Message

\* What a connection's envelopes s, its pump's hand p and its queue q have to do with
\* each other when n events have been pushed.
Ord(s, p, q, n) ==
    /\ InOrder(s)
    /\ \A i \in DOMAIN s : \A a \in Numbers(s[i]) :
         a <= n /\ (\A b \in Numbers(p) : a < b) /\ \A k \in DOMAIN q : a < q[k].seq
    /\ \A a \in Numbers(p) : a <= n /\ \A k \in DOMAIN q : a < q[k].seq
    /\ Increasing(q)
    /\ \A k \in DOMAIN q : q[k].seq <= n

\* The handler's snapshot.
SnapshotOk(m, n) == /\ m.type = "snapshot" => Increasing(m.events)
                    /\ \A a \in Numbers(m) : a <= n

LEMMA OrdAppend ==
    ASSUME NEW s \in Seq(Message), NEW p \in Message, NEW r \in Message, NEW m \in Message,
           NEW q \in Seq(Event), NEW n \in Nat, Ord(s, p, q, n),
           m.type = "snapshot" => Increasing(m.events),
           \A a \in Numbers(m) : a <= n /\ \A k \in DOMAIN q : a < q[k].seq,
           \A i \in DOMAIN s : \A a \in Numbers(s[i]), b \in Numbers(m) : a < b,
           Numbers(r) = {} \/ (Numbers(m) = {} /\ r = p)
    PROVE  Ord(Append(s, m), r, q, n)
<1>1. PICK z \in Seq(Message) : z = Append(s, m)
  BY AppendProperties
<1>2. /\ Len(s) \in Nat /\ Len(z) = Len(s) + 1 /\ DOMAIN z = 1 .. Len(s) + 1 /\ DOMAIN s = 1 .. Len(s)
      /\ \A i \in 1 .. Len(s) : z[i] = s[i]
      /\ z[Len(s) + 1] = m
  BY <1>1, AppendProperties, LenProperties
<1>3. InOrder(z)
  <2>1. ASSUME NEW i \in DOMAIN z, z[i].type = "snapshot" PROVE Increasing(z[i].events)
    <3>1. CASE i \in DOMAIN s
      BY <1>2, <2>1, <3>1 DEF Ord, InOrder
    <3>2. CASE i = Len(s) + 1
      BY <1>2, <2>1, <3>2
    <3> QED BY <1>2, <3>1, <3>2
  <2>2. ASSUME NEW i \in DOMAIN z, NEW j \in DOMAIN z, i < j,
               NEW a \in Numbers(z[i]), NEW b \in Numbers(z[j])
        PROVE  a < b
    <3>1. i \in DOMAIN s /\ z[i] = s[i]
      BY <1>2, <2>2
    <3>2. CASE j \in DOMAIN s
      BY <1>2, <2>2, <3>1, <3>2 DEF Ord, InOrder
    <3>3. CASE j = Len(s) + 1
      BY <1>2, <2>2, <3>1, <3>3
    <3> QED BY <1>2, <3>2, <3>3
  <2> QED BY <2>1, <2>2 DEF InOrder
<1>4. ASSUME NEW i \in DOMAIN z, NEW a \in Numbers(z[i])
      PROVE  a <= n /\ (\A b \in Numbers(r) : a < b) /\ \A k \in DOMAIN q : a < q[k].seq
  <2>1. CASE i \in DOMAIN s
    BY <1>2, <1>4, <2>1 DEF Ord
  <2>2. CASE i = Len(s) + 1
    BY <1>2, <1>4, <2>2
  <2> QED BY <1>2, <2>1, <2>2
<1>5. \A a \in Numbers(r) : a <= n /\ \A k \in DOMAIN q : a < q[k].seq
  BY DEF Ord
<1>6. Increasing(q) /\ \A k \in DOMAIN q : q[k].seq <= n
  BY DEF Ord
<1> QED BY <1>1, <1>3, <1>4, <1>5, <1>6 DEF Ord

LEMMA OrdTake ==
    ASSUME NEW s \in Seq(Message), NEW q \in Seq(Event), NEW n \in Nat,
           Ord(s, Nothing, q, n), q # <<>>
    PROVE  Ord(s, EventMsg(Head(q)), Tail(q), n)
<1>1. PICK z \in Seq(Event) : z = Tail(q)
  BY HeadTailProperties
<1>2. /\ Len(q) \in Nat /\ Len(z) = Len(q) - 1 /\ DOMAIN z = 1 .. Len(q) - 1 /\ DOMAIN q = 1 .. Len(q)
      /\ \A k \in 1 .. Len(q) - 1 : z[k] = q[k + 1]
  BY <1>1, HeadTailProperties, LenProperties
<1>3. Len(q) >= 1 /\ Head(q) = q[1]
  BY EmptySeq
<1>4. PICK p : p = EventMsg(Head(q))
  OBVIOUS
<1>5. Numbers(p) = {q[1].seq}
  BY <1>3, <1>4, NumbersOf
<1>6. 1 \in DOMAIN q /\ \A k \in DOMAIN z : k + 1 \in DOMAIN q /\ 1 < k + 1 /\ z[k] = q[k + 1]
  BY <1>2, <1>3
<1>7. \A i \in DOMAIN s : \A a \in Numbers(s[i]) :
         a <= n /\ (\A b \in Numbers(p) : a < b) /\ \A k \in DOMAIN z : a < z[k].seq
  BY <1>5, <1>6 DEF Ord
<1>8. \A a \in Numbers(p) : a <= n /\ \A k \in DOMAIN z : a < z[k].seq
  BY <1>5, <1>6 DEF Ord, Increasing
<1>9. Increasing(z)
  <2> SUFFICES ASSUME NEW i \in DOMAIN z, NEW j \in DOMAIN z, i < j PROVE z[i].seq < z[j].seq
    BY DEF Increasing
  <2>1. i + 1 \in DOMAIN q /\ j + 1 \in DOMAIN q /\ i + 1 < j + 1
    BY <1>2
  <2> QED BY <1>6, <2>1 DEF Ord, Increasing
<1>10. InOrder(s) /\ \A k \in DOMAIN z : z[k].seq <= n
  BY <1>6 DEF Ord
<1> QED BY <1>1, <1>4, <1>7, <1>8, <1>9, <1>10 DEF Ord

LEMMA OrdPush ==
    ASSUME NEW s \in Seq(Message), NEW p \in Message, NEW q \in Seq(Event), NEW n \in Nat,
           Ord(s, p, q, n), NEW e \in Event, e.seq = n + 1
    PROVE  Ord(s, p, q, n + 1) /\ Ord(s, p, Append(q, e), n + 1)
<1>1. \A i \in DOMAIN s : Numbers(s[i]) \subseteq Int
  BY KindsOf, ElementOfSeq, LenProperties
<1>2. Numbers(p) \subseteq Int
  BY KindsOf
<1>3. \A k \in DOMAIN q : q[k].seq \in Int
  <2>1. \A k \in DOMAIN q : q[k] \in Event
    BY ElementOfSeq, LenProperties
  <2>2. \A f \in Event : f.seq \in Int
    BY DEF Event
  <2> QED BY <2>1, <2>2
<1>4. /\ \A i \in DOMAIN s : \A a \in Numbers(s[i]) : a <= n + 1 /\ a < e.seq
      /\ \A a \in Numbers(p) : a <= n + 1 /\ a < e.seq
      /\ \A k \in DOMAIN q : q[k].seq <= n + 1 /\ q[k].seq < e.seq
  BY <1>1, <1>2, <1>3 DEF Ord
<1>5. Ord(s, p, q, n + 1)
  BY <1>4 DEF Ord
<1>6. PICK z \in Seq(Event) : z = Append(q, e)
  BY AppendProperties
<1>7. /\ Len(q) \in Nat /\ DOMAIN z = 1 .. Len(q) + 1 /\ DOMAIN q = 1 .. Len(q)
      /\ \A k \in 1 .. Len(q) : z[k] = q[k]
      /\ z[Len(q) + 1] = e
  BY <1>6, AppendProperties, LenProperties
<1>8. \A k \in DOMAIN z : (k \in DOMAIN q /\ z[k] = q[k]) \/ (k = Len(q) + 1 /\ z[k] = e)
  BY <1>7
<1>9. Increasing(z)
  <2> SUFFICES ASSUME NEW i \in DOMAIN z, NEW j \in DOMAIN z, i < j PROVE z[i].seq < z[j].seq
    BY DEF Increasing
  <2>1. i \in DOMAIN q /\ z[i] = q[i]
    BY <1>7
  <2>2. CASE j \in DOMAIN q
    BY <1>7, <2>1, <2>2 DEF Ord, Increasing
  <2>3. CASE j = Len(q) + 1
    BY <1>4, <1>7, <2>1, <2>3
  <2> QED BY <1>8, <2>2, <2>3
<1>10. /\ \A i \in DOMAIN s : \A a \in Numbers(s[i]) :
            a <= n + 1 /\ (\A b \in Numbers(p) : a < b) /\ \A k \in DOMAIN z : a < z[k].seq
       /\ \A a \in Numbers(p) : a <= n + 1 /\ \A k \in DOMAIN z : a < z[k].seq
       /\ \A k \in DOMAIN z : z[k].seq <= n + 1
  BY <1>4, <1>8 DEF Ord
<1> QED BY <1>5, <1>6, <1>9, <1>10 DEF Ord

\* s without its envelope at k.
Without(s, k, z) ==
    /\ Len(z) = Len(s) - 1
    /\ \A i \in 1 .. Len(z) : z[i] = IF i < k THEN s[i] ELSE s[i + 1]

LEMMA OrdWithout ==
    ASSUME NEW s \in Seq(Message), NEW z \in Seq(Message), NEW k \in 1 .. Len(s), Without(s, k, z),
           NEW p, NEW q, NEW n, Ord(s, p, q, n)
    PROVE  Ord(z, p, q, n)
<1> DEFINE Was(i) == IF i < k THEN i ELSE i + 1
<1>1. Len(s) \in Nat /\ DOMAIN s = 1 .. Len(s) /\ DOMAIN z = 1 .. Len(s) - 1
  BY LenProperties DEF Without
<1>2. \A i \in DOMAIN z : Was(i) \in DOMAIN s /\ z[i] = s[Was(i)]
  BY <1>1 DEF Without
<1>3. \A i, j \in DOMAIN z : i < j => Was(i) < Was(j)
  BY <1>1
<1> HIDE DEF Was
<1>4. InOrder(z)
  <2>1. \A i \in DOMAIN z : z[i].type = "snapshot" => Increasing(z[i].events)
    BY <1>2 DEF Ord, InOrder
  <2>2. ASSUME NEW i \in DOMAIN z, NEW j \in DOMAIN z, i < j,
               NEW a \in Numbers(z[i]), NEW b \in Numbers(z[j])
        PROVE  a < b
    BY <1>2, <1>3, <2>2 DEF Ord, InOrder
  <2> QED BY <2>1, <2>2 DEF InOrder
<1> QED BY <1>2, <1>4 DEF Ord

\* The line of StreamInOrder, place by place.
LEMMA LineOf ==
    ASSUME NEW s \in Seq(Message), NEW p \in Message, NEW q \in Seq(Event)
    PROVE  LET z == s \o <<p>> \o [k \in DOMAIN q |-> EventMsg(q[k])]
           IN  /\ DOMAIN z = 1 .. Len(s) + 1 + Len(q)
               /\ \A i \in 1 .. Len(s) : z[i] = s[i]
               /\ z[Len(s) + 1] = p
               /\ \A k \in 1 .. Len(q) : z[Len(s) + 1 + k] = EventMsg(q[k])
<1>1. Len(s) \in Nat /\ Len(q) \in Nat /\ DOMAIN q = 1 .. Len(q) /\ \A k \in 1 .. Len(q) : q[k] \in Event
  BY LenProperties, ElementOfSeq
<1>2. PICK w : w = [k \in DOMAIN q |-> EventMsg(q[k])]
  OBVIOUS
<1>3. w \in [1 .. Len(q) -> Message]
  BY <1>1, <1>2, MessageTypes
<1>4. w \in Seq(Message) /\ Len(w) = Len(q)
  BY <1>1, <1>3, SeqDef, LenProperties
<1>5. PICK y : y = s \o <<p>>
  OBVIOUS
<1>6. /\ y \in Seq(Message) /\ Len(y) = Len(s) + 1
      /\ \A i \in 1 .. Len(s) : y[i] = s[i]
      /\ y[Len(s) + 1] = p
  <2>1. PICK o : o = <<p>>
    OBVIOUS
  <2>2. o \in Seq(Message) /\ Len(o) = 1 /\ o[1] = p
    BY <2>1
  <2>3. /\ y \in Seq(Message) /\ Len(y) = Len(s) + 1
        /\ \A i \in 1 .. Len(s) + 1 : y[i] = IF i <= Len(s) THEN s[i] ELSE o[i - Len(s)]
    BY <1>5, <2>1, <2>2, ConcatProperties
  <2>4. Len(s) + 1 - Len(s) = 1 /\ Len(s) + 1 \in 1 .. Len(s) + 1 /\ ~(Len(s) + 1 <= Len(s))
        /\ \A i \in 1 .. Len(s) : i \in 1 .. Len(s) + 1 /\ i <= Len(s)
    BY <1>1
  <2> QED BY <2>2, <2>3, <2>4
<1>7. PICK z : z = y \o w
  OBVIOUS
<1>8. /\ z \in Seq(Message) /\ Len(z) = Len(y) + Len(w)
       /\ \A i \in 1 .. Len(y) + Len(w) : z[i] = IF i <= Len(y) THEN y[i] ELSE w[i - Len(y)]
  <2>1. y \in Seq(Message) /\ w \in Seq(Message)
    BY <1>4, <1>6
  <2>2. /\ y \o w \in Seq(Message) /\ Len(y \o w) = Len(y) + Len(w)
        /\ \A i \in 1 .. Len(y) + Len(w) : (y \o w)[i] = IF i <= Len(y) THEN y[i] ELSE w[i - Len(y)]
    BY <2>1, ConcatProperties
  <2> QED BY <1>7, <2>2
<1>9. DOMAIN z = 1 .. Len(s) + 1 + Len(q)
  BY <1>1, <1>4, <1>6, <1>8, LenProperties
<1>10. \A i \in 1 .. Len(s) + 1 : z[i] = y[i]
  BY <1>1, <1>4, <1>6, <1>8
<1>11. \A k \in 1 .. Len(q) : z[Len(s) + 1 + k] = w[k]
  <2> SUFFICES ASSUME NEW k \in 1 .. Len(q) PROVE z[Len(s) + 1 + k] = w[k]
    OBVIOUS
  <2>1. Len(s) + 1 + k \in 1 .. Len(y) + Len(w) /\ ~(Len(s) + 1 + k <= Len(y))
        /\ Len(s) + 1 + k - Len(y) = k
    BY <1>1, <1>4, <1>6
  <2> QED BY <1>8, <2>1
<1>12. z = s \o <<p>> \o [k \in DOMAIN q |-> EventMsg(q[k])]
  BY <1>2, <1>5, <1>7
<1>13. \A k \in 1 .. Len(q) : w[k] = EventMsg(q[k])
  BY <1>1, <1>2
<1>14. \A i \in 1 .. Len(s) : i \in 1 .. Len(s) + 1
  BY <1>1
<1> QED BY <1>1, <1>6, <1>9, <1>10, <1>11, <1>12, <1>13, <1>14

LEMMA OrdLine ==
    ASSUME NEW s \in Seq(Message), NEW p \in Message, NEW q \in Seq(Event), NEW n \in Nat,
           Ord(s, p, q, n), p.type # "snapshot"
    PROVE  InOrder(s \o <<p>> \o [k \in DOMAIN q |-> EventMsg(q[k])])
<1>1. PICK z : z = s \o <<p>> \o [k \in DOMAIN q |-> EventMsg(q[k])]
  OBVIOUS
<1>2. /\ DOMAIN z = 1 .. Len(s) + 1 + Len(q)
      /\ \A i \in 1 .. Len(s) : z[i] = s[i]
      /\ z[Len(s) + 1] = p
      /\ \A k \in 1 .. Len(q) : z[Len(s) + 1 + k] = EventMsg(q[k])
  BY <1>1, LineOf
<1>3. Len(s) \in Nat /\ Len(q) \in Nat /\ DOMAIN q = 1 .. Len(q) /\ DOMAIN s = 1 .. Len(s)
  BY LenProperties
<1>4. ASSUME NEW i \in DOMAIN z
      PROVE  \/ i \in DOMAIN s
             \/ i = Len(s) + 1
             \/ \E k \in DOMAIN q : i = Len(s) + 1 + k
  <2>1. CASE i > Len(s) + 1
    <3>1. i \in 1 .. Len(s) + 1 + Len(q)
      BY <1>2
    <3>2. i - (Len(s) + 1) \in 1 .. Len(q) /\ i = Len(s) + 1 + (i - (Len(s) + 1))
      BY <1>3, <2>1, <3>1
    <3> QED BY <1>3, <3>2
  <2> QED BY <1>2, <1>3, <2>1
<1>5. \A i \in DOMAIN s : z[i] = s[i] /\ i <= Len(s)
  BY <1>2, <1>3
<1>6. \A k \in DOMAIN q : z[Len(s) + 1 + k] = EventMsg(q[k]) /\ Numbers(EventMsg(q[k])) = {q[k].seq}
                          /\ EventMsg(q[k]).type = "event"
  BY <1>2, <1>3, NumbersOf DEF EventMsg
<1>7. ASSUME NEW i \in DOMAIN z, z[i].type = "snapshot" PROVE Increasing(z[i].events)
  <2>1. i \in DOMAIN s
    BY <1>2, <1>4, <1>6, <1>7
  <2> QED BY <1>5, <1>7, <2>1 DEF Ord, InOrder
<1>8. ASSUME NEW i \in DOMAIN z, NEW j \in DOMAIN z, i < j,
             NEW a \in Numbers(z[i]), NEW b \in Numbers(z[j])
      PROVE  a < b
  <2>1. CASE i \in DOMAIN s
    <3>1. a \in Numbers(s[i])
      BY <1>5, <1>8, <2>1
    <3>2. CASE j \in DOMAIN s
      BY <1>5, <1>8, <2>1, <3>2 DEF Ord, InOrder
    <3>3. CASE j = Len(s) + 1
      BY <1>2, <1>8, <2>1, <3>1, <3>3 DEF Ord
    <3>4. ASSUME NEW k \in DOMAIN q, j = Len(s) + 1 + k PROVE a < b
      BY <1>6, <1>8, <2>1, <3>1, <3>4 DEF Ord
    <3> QED BY <1>4, <3>2, <3>3, <3>4
  <2>2. CASE i = Len(s) + 1
    <3>1. a \in Numbers(p) /\ j \notin DOMAIN s /\ j # Len(s) + 1
      BY <1>2, <1>3, <1>5, <1>8, <2>2
    <3>2. PICK k \in DOMAIN q : j = Len(s) + 1 + k
      BY <1>4, <3>1
    <3> QED BY <1>6, <1>8, <3>1, <3>2 DEF Ord
  <2>3. ASSUME NEW h \in DOMAIN q, i = Len(s) + 1 + h PROVE a < b
    <3>1. j \notin DOMAIN s /\ j # Len(s) + 1
      BY <1>3, <1>5, <1>8, <2>3
    <3>2. PICK k \in DOMAIN q : j = Len(s) + 1 + k
      BY <1>4, <3>1
    <3>3. h < k
      BY <1>3, <1>8, <2>3, <3>2
    <3> QED BY <1>6, <1>8, <2>3, <3>2, <3>3 DEF Ord, Increasing
  <2> QED BY <1>4, <2>1, <2>2, <2>3
<1>9. InOrder(z)
  BY <1>7, <1>8 DEF InOrder
<1> QED BY <1>1, <1>9
------------------------------------------------------------------------------
(* What a step adds to, or takes from, the envelopes sent to a client. *)

LEMMA SentType ==
    ASSUME TypeOK, NEW c \in Conns
    PROVE  /\ Sent(c) \in Seq(Message) /\ view[c] \in Seq(Message) /\ toClient[c] \in Seq(Message)
           /\ Len(Sent(c)) \in Nat /\ DOMAIN Sent(c) = 1 .. Len(Sent(c))
           /\ out[c].pump \in Message /\ out[c].handler \in Message /\ out[c].ticker \in Message
           /\ queue[c] \in Seq(Event) /\ window \in Seq(Event) /\ total \in Nat
<1>1. view[c] \in Seq(Message) /\ toClient[c] \in Seq(Message)
  BY DEF TypeOK
<1>2. Sent(c) \in Seq(Message)
  BY <1>1, ConcatProperties DEF Sent
<1>3. out[c].pump \in Message /\ out[c].handler \in Message /\ out[c].ticker \in Message
  BY DEF TypeOK, Threads
<1>4. total \in Nat
  BY IpcServerAssumption DEF TypeOK
<1> QED BY <1>1, <1>2, <1>3, <1>4, LenProperties DEF TypeOK

LEMMA SentGrows ==
    ASSUME TypeOK, NEW c \in Conns, NEW t \in Threads, WriteDone(c, t)
    PROVE  Sent(c)' = Append(Sent(c), out[c][t])
<1>1. PICK m \in Message : m = out[c][t]
  BY DEF TypeOK
<1>2. toClient'[c] = Append(toClient[c], m) /\ view'[c] = view[c]
  BY <1>1 DEF WriteDone, TypeOK
<1>3. PICK v \in Seq(Message) : v = view[c]
  BY SentType
<1>4. PICK w \in Seq(Message) : w = toClient[c]
  BY SentType
<1>5. v \o Append(w, m) = Append(v \o w, m)
  <2>1. /\ v \o w \in Seq(Message) /\ Append(w, m) \in Seq(Message) /\ <<m>> \in Seq(Message)
        /\ Append(w, m) = w \o <<m>> /\ Append(v \o w, m) = (v \o w) \o <<m>>
    BY ConcatProperties, AppendProperties, AppendIsConcat
  <2> QED BY <2>1, ConcatAssociative
<1> QED BY <1>1, <1>2, <1>3, <1>4, <1>5 DEF Sent

LEMMA SentShrinks ==
    ASSUME TypeOK, NEW c \in Conns, ClientRead(c), Sent(c)' # Sent(c)
    PROVE  \E k \in 3 .. Len(Sent(c)) :
             Sent(c)[k].type \in {"stats", "pong"} /\ Without(Sent(c), k, Sent(c)')
<1>1. PICK v \in Seq(Message) : v = view[c]
  BY SentType
<1>2. PICK w \in Seq(Message) : w = toClient[c]
  BY SentType
<1>3. w # <<>> /\ toClient'[c] = Tail(w)
  BY <1>2 DEF ClientRead, TypeOK
<1>4. PICK m \in Message, u \in Seq(Message) : m = Head(w) /\ u = Tail(w)
  BY <1>3, HeadTailProperties
<1>5. w = <<m>> \o u
  BY <1>3, <1>4, HeadTailProperties
<1>6. CASE view' = [view EXCEPT ![c] = Append(@, Head(toClient[c]))]
  <2>1. view'[c] = Append(v, m)
    BY <1>1, <1>2, <1>4, <1>6 DEF TypeOK
  <2>2. Append(v, m) \o u = v \o w
    <3>1. <<m>> \in Seq(Message) /\ Append(v, m) = v \o <<m>>
      BY AppendIsConcat
    <3> QED BY <1>5, <3>1, ConcatAssociative
  <2> QED BY <1>1, <1>2, <1>3, <1>4, <2>1, <2>2 DEF Sent
<1>7. CASE Len(v) >= 2 /\ m.type \in {"stats", "pong"} /\ view' = view
  <2>1. Sent(c) = v \o w /\ Sent(c)' = v \o u
    BY <1>1, <1>2, <1>3, <1>4, <1>7 DEF Sent
  <2>2. /\ Len(v) \in Nat /\ Len(w) \in Nat /\ Len(u) = Len(w) - 1 /\ Len(w) >= 1
        /\ w[1] = m /\ \A i \in 1 .. Len(u) : u[i] = w[i + 1]
    BY <1>3, <1>4, HeadTailProperties, EmptySeq, LenProperties
  <2>3. /\ Len(v \o w) = Len(v) + Len(w) /\ Len(v \o u) = Len(v) + Len(u)
        /\ \A i \in 1 .. Len(v) + Len(w) : (v \o w)[i] = IF i <= Len(v) THEN v[i] ELSE w[i - Len(v)]
        /\ \A i \in 1 .. Len(v) + Len(u) : (v \o u)[i] = IF i <= Len(v) THEN v[i] ELSE u[i - Len(v)]
    BY ConcatProperties
  <2>4. Len(v) + 1 \in 3 .. Len(v \o w) /\ (v \o w)[Len(v) + 1] = m
    BY <1>7, <2>2, <2>3
  <2>5. Len(v \o u) = Len(v \o w) - 1
    BY <2>2, <2>3
  <2>6. ASSUME NEW i \in 1 .. Len(v \o u)
        PROVE  (v \o u)[i] = IF i < Len(v) + 1 THEN (v \o w)[i] ELSE (v \o w)[i + 1]
    <3>1. i \in 1 .. Len(v) + Len(u) /\ i \in 1 .. Len(v) + Len(w) /\ i + 1 \in 1 .. Len(v) + Len(w)
      BY <2>2, <2>3
    <3>2. CASE i <= Len(v)
      BY <2>2, <2>3, <3>1, <3>2
    <3>3. CASE ~(i <= Len(v))
      <4>1. i - Len(v) \in 1 .. Len(u) /\ (i + 1) - Len(v) = (i - Len(v)) + 1
            /\ ~(i < Len(v) + 1) /\ ~(i + 1 <= Len(v))
        BY <2>2, <3>1, <3>3
      <4> QED BY <2>2, <2>3, <3>1, <3>3, <4>1
    <3> QED BY <3>2, <3>3
  <2> QED BY <1>7, <2>1, <2>4, <2>5, <2>6 DEF Without
<1> QED BY <1>1, <1>2, <1>4, <1>6, <1>7 DEF ClientRead
------------------------------------------------------------------------------
(* The handshake. *)

\* How many envelopes have gone out where the handler is, and which.
Shook(c) ==
    /\ HandshakeFirst(c)
    /\ pc[c].handler = "none" => Len(Sent(c)) = 0
    /\ Sending(c, "handler") /\ out[c].handler.type = "hello" => Len(Sent(c)) = 0
    /\ pc[c].handler = "snap" => Len(Sent(c)) = 1
    /\ Sending(c, "handler") /\ out[c].handler.type = "snapshot" => Len(Sent(c)) = 1
    /\ pc[c].handler = "sub" => Len(Sent(c)) >= 2
    /\ pc[c].pump # "off" \/ pc[c].ticker # "off" => Len(Sent(c)) >= 2
    /\ pc[c].handler \in {"loop", "decode"} => pc[c].pump # "off"
    /\ Sending(c, "handler") /\ out[c].handler.type \in {"stats", "pong"} => pc[c].pump # "off"

ShookInv == \A c \in Conns : Shook(c)

\* The handler goes on; the workers do not move.
LEMMA ShookHandler ==
    ASSUME TypeOK, NEW c \in Conns, Shook(c), NEW where \in HandlerPc, Goto(c, "handler", where),
           HandshakeFirst(c)', Len(Sent(c)') >= Len(Sent(c)), Len(Sent(c)') \in Nat,
           where # "none",
           where \in {"lock", "write"} /\ out'[c].handler.type = "hello" => Len(Sent(c)') = 0,
           where \in {"lock", "write"} /\ out'[c].handler.type = "snapshot" => Len(Sent(c)') = 1,
           where = "snap" => Len(Sent(c)') = 1,
           where = "sub" => Len(Sent(c)') >= 2,
           where \in {"loop", "decode"} => pc[c].pump # "off",
           where \in {"lock", "write"} /\ out'[c].handler.type \in {"stats", "pong"} => pc[c].pump # "off"
    PROVE  Shook(c)'
<1>1. /\ pc'[c].handler = where /\ pc'[c]["handler"] = where
      /\ pc'[c].pump = pc[c].pump /\ pc'[c].ticker = pc[c].ticker
  BY GotoType DEF Threads
<1>2. Len(Sent(c)) \in Nat
  BY SentType
<1> QED BY <1>1, <1>2 DEF Shook, Sending

\* A worker goes on; the handler does not move.
LEMMA ShookWorker ==
    ASSUME TypeOK, NEW c \in Conns, Shook(c), NEW t \in {"pump", "ticker"}, NEW where \in WorkerPc,
           Goto(c, t, where), pc[c][t] # "off", where # "off",
           HandshakeFirst(c)', Len(Sent(c)') >= Len(Sent(c)), Len(Sent(c)') \in Nat,
           out'[c].handler = out[c].handler
    PROVE  Shook(c)'
<1>1. /\ pc'[c].handler = pc[c].handler /\ pc'[c]["handler"] = pc[c]["handler"]
      /\ pc[c].pump # "off" => pc'[c].pump # "off"
  BY GotoType DEF Threads
<1>2. Len(Sent(c)) \in Nat /\ Len(Sent(c)) >= 2
  BY SentType DEF Shook
<1>3. Len(Sent(c)') >= 2
  BY <1>2
<1>4. /\ pc[c].handler # "none" /\ pc[c].handler # "snap"
      /\ ~(Sending(c, "handler") /\ out[c].handler.type = "hello")
      /\ ~(Sending(c, "handler") /\ out[c].handler.type = "snapshot")
  <2>1. PICK n \in Nat : n = Len(Sent(c)) /\ n >= 2
    BY <1>2
  <2> QED BY <2>1 DEF Shook
<1>5. Sending(c, "handler")' <=> Sending(c, "handler")
  BY <1>1 DEF Sending
<1> QED BY <1>1, <1>3, <1>4, <1>5 DEF Shook

LEMMA HandshakeGrows ==
    ASSUME TypeOK, NEW c \in Conns, NEW m \in Message, HandshakeFirst(c),
           Sent(c)' = Append(Sent(c), m),
           Len(Sent(c)) = 0 => m.type = "hello",
           Len(Sent(c)) = 1 => m.type = "snapshot",
           Len(Sent(c)) >= 2 => m.type \notin {"hello", "snapshot"}
    PROVE  HandshakeFirst(c)' /\ Len(Sent(c)') = Len(Sent(c)) + 1
<1>1. PICK s \in Seq(Message) : s = Sent(c)
  BY SentType
<1>2. PICK z \in Seq(Message) : z = Append(s, m)
  BY AppendProperties
<1>3. /\ Len(s) \in Nat /\ Len(z) = Len(s) + 1 /\ DOMAIN z = 1 .. Len(s) + 1 /\ DOMAIN s = 1 .. Len(s)
      /\ \A i \in 1 .. Len(s) : z[i] = s[i]
      /\ z[Len(s) + 1] = m
  BY <1>2, AppendProperties, LenProperties
<1>4. Sent(c)' = z
  BY <1>1, <1>2
<1>5. z[1].type = "hello"
  <2>1. CASE Len(s) = 0
    BY <1>1, <1>3, <2>1
  <2>2. CASE Len(s) >= 1
    BY <1>1, <1>3, <2>2 DEF HandshakeFirst
  <2> QED BY <1>3, <2>1, <2>2
<1>6. Len(z) >= 2 => z[2].type = "snapshot"
  <2>1. CASE Len(s) = 1
    BY <1>1, <1>3, <2>1
  <2>2. CASE Len(s) >= 2
    BY <1>1, <1>3, <2>2 DEF HandshakeFirst
  <2> QED BY <1>3, <2>1, <2>2
<1>7. ASSUME NEW i \in DOMAIN z, i > 2 PROVE z[i].type \notin {"hello", "snapshot"}
  <2>1. CASE i = Len(s) + 1
    BY <1>1, <1>3, <1>7, <2>1
  <2>2. CASE i \in DOMAIN s
    BY <1>1, <1>3, <1>7, <2>2 DEF HandshakeFirst
  <2> QED BY <1>3, <1>7, <2>1, <2>2
<1> QED BY <1>1, <1>3, <1>4, <1>5, <1>6, <1>7 DEF HandshakeFirst

\* What send does.
LEMMA ShookSend ==
    ASSUME TypeOK, HandInv, NEW c \in Conns, NEW t \in Threads, Shook(c),
           Lock(c, t) \/ WriteDone(c, t) \/ WriteFails(c, t)
    PROVE  Shook(c)'
<1> USE DEF At
<1>1. Len(Sent(c)) \in Nat /\ Sending(c, t) /\ Hand(c)
  BY SentType DEF Lock, WriteDone, WriteFails, Sending, HandInv
<1>2. out[c][t] \in Message /\ out[c].handler = out[c]["handler"]
  BY DEF TypeOK
<1>3. {"write", "snap", "sub", "loop", "exit", "uncount"} \subseteq HandlerPc
      /\ {"write", "wait", "done"} \subseteq WorkerPc
  BY DEF HandlerPc, WorkerPc
<1>4. t # "handler" => t \in {"pump", "ticker"} /\ pc[c][t] # "off" /\ Len(Sent(c)) >= 2
  BY <1>1 DEF Sending, Shook, Threads
<1>5. t # "handler" /\ out' = [out EXCEPT ![c][t] = Nothing] => out'[c].handler = out[c].handler
  BY OutType, MessageTypes DEF Threads
<1>6. CASE Lock(c, t)
  <2>1. Goto(c, t, "write") /\ out' = out /\ Sent(c)' = Sent(c)
    BY <1>6 DEF Lock, Sent
  <2>2. HandshakeFirst(c)'
    BY <2>1 DEF Shook, HandshakeFirst
  <2>3. CASE t = "handler"
    BY <1>1, <1>3, <2>1, <2>2, <2>3, ShookHandler DEF Shook
  <2>4. CASE t # "handler"
    BY <1>1, <1>3, <1>4, <2>1, <2>2, <2>4, ShookWorker
  <2> QED BY <2>3, <2>4
<1>7. CASE WriteFails(c, t)
  <2>1. Sent(c)' = Sent(c) /\ out' = [out EXCEPT ![c][t] = Nothing]
    BY <1>7 DEF WriteFails, Sent
  <2>2. HandshakeFirst(c)'
    BY <2>1 DEF Shook, HandshakeFirst
  <2>3. CASE t = "handler"
    <3>1. Goto(c, "handler", "uncount") \/ Goto(c, "handler", "exit")
      BY <1>7, <2>3 DEF WriteFails
    <3> QED BY <1>1, <1>3, <2>1, <2>2, <3>1, ShookHandler
  <2>4. CASE t # "handler"
    <3>1. Goto(c, t, "done")
      BY <1>7, <2>4 DEF WriteFails
    <3> QED BY <1>1, <1>3, <1>4, <1>5, <2>1, <2>2, <2>4, <3>1, ShookWorker
  <2> QED BY <2>3, <2>4
<1>8. CASE WriteDone(c, t)
  <2>1. Sent(c)' = Append(Sent(c), out[c][t]) /\ out' = [out EXCEPT ![c][t] = Nothing]
    BY <1>8, SentGrows DEF WriteDone
  <2>2. CASE t = "handler"
    <3>1. out[c].handler.type \in {"hello", "snapshot", "stats", "pong"}
      BY <1>1, <2>2 DEF Hand
    <3>2. /\ out[c].handler.type = "hello" => Len(Sent(c)) = 0
          /\ out[c].handler.type = "snapshot" => Len(Sent(c)) = 1
          /\ out[c].handler.type \in {"stats", "pong"} => Len(Sent(c)) >= 2 /\ pc[c].pump # "off"
      BY <1>1, <2>2 DEF Shook
    <3>3. HandshakeFirst(c)' /\ Len(Sent(c)') = Len(Sent(c)) + 1
      BY <1>1, <1>2, <2>1, <2>2, <3>1, <3>2, HandshakeGrows DEF Shook
    <3>4. Goto(c, "handler", Then[out[c].handler.type])
      BY <1>2, <1>8, <2>2 DEF WriteDone
    <3>5. \/ out[c].handler.type = "hello" /\ Goto(c, "handler", "snap")
          \/ out[c].handler.type = "snapshot" /\ Goto(c, "handler", "sub")
          \/ out[c].handler.type \in {"stats", "pong"} /\ Goto(c, "handler", "loop")
      BY <3>1, <3>4 DEF Then
    <3>6. Len(Sent(c)') \in Nat /\ Len(Sent(c)') >= Len(Sent(c))
      BY <1>1, <3>3
    <3>7. CASE out[c].handler.type = "hello" /\ Goto(c, "handler", "snap")
      <4>1. Len(Sent(c)') = 1
        BY <3>2, <3>3, <3>7
      <4>2. "snap" \in HandlerPc /\ Goto(c, "handler", "snap")
        BY <1>3, <3>7
      <4> QED BY <3>3, <3>6, <4>1, <4>2, ShookHandler
    <3>8. CASE out[c].handler.type = "snapshot" /\ Goto(c, "handler", "sub")
      <4>1. Len(Sent(c)') = 2
        <5>1. Len(Sent(c)) = 1
          BY <3>2, <3>8
        <5> QED BY <3>3, <5>1
      <4>2. "sub" \in HandlerPc /\ Goto(c, "handler", "sub")
        BY <1>3, <3>8
      <4> QED BY <3>3, <3>6, <4>1, <4>2, ShookHandler
    <3>9. CASE out[c].handler.type \in {"stats", "pong"} /\ Goto(c, "handler", "loop")
      BY <1>3, <3>2, <3>3, <3>6, <3>9, ShookHandler
    <3> QED BY <3>5, <3>7, <3>8, <3>9
  <2>3. CASE t # "handler"
    <3>1. out[c][t].type \in {"event", "stats"}
      BY <1>1, <1>4, <2>3 DEF Hand
    <3>2. HandshakeFirst(c)' /\ Len(Sent(c)') = Len(Sent(c)) + 1
      BY <1>1, <1>2, <1>4, <2>1, <2>3, <3>1, HandshakeGrows DEF Shook
    <3>3. Goto(c, t, "wait")
      BY <1>8, <2>3 DEF WriteDone
    <3>4. Len(Sent(c)') \in Nat /\ Len(Sent(c)') >= Len(Sent(c))
      BY <1>1, <3>2
    <3> QED BY <1>3, <1>4, <1>5, <2>1, <2>3, <3>2, <3>3, <3>4, ShookWorker
  <2> QED BY <2>2, <2>3
<1> QED BY <1>6, <1>7, <1>8

LEMMA HandshakeShrinks ==
    ASSUME TypeOK, NEW c \in Conns, HandshakeFirst(c), Sent(c)' \in Seq(Message),
           NEW k \in 3 .. Len(Sent(c)), Without(Sent(c), k, Sent(c)')
    PROVE  HandshakeFirst(c)' /\ Len(Sent(c)') >= 2
<1>1. PICK s \in Seq(Message) : s = Sent(c)
  BY SentType
<1>2. PICK z \in Seq(Message) : z = Sent(c)'
  OBVIOUS
<1>3. /\ Len(s) \in Nat /\ Len(s) >= 3 /\ Len(z) = Len(s) - 1
      /\ DOMAIN s = 1 .. Len(s) /\ DOMAIN z = 1 .. Len(s) - 1
      /\ \A i \in 1 .. Len(z) : z[i] = IF i < k THEN s[i] ELSE s[i + 1]
  BY <1>1, <1>2, LenProperties DEF Without
<1>4. z[1] = s[1] /\ z[2] = s[2]
  BY <1>1, <1>3
<1>5. ASSUME NEW i \in DOMAIN z, i > 2
      PROVE  \E j \in DOMAIN s : j > 2 /\ z[i] = s[j]
  <2>1. CASE i < k
    BY <1>3, <1>5, <2>1
  <2>2. CASE ~(i < k)
    <3>1. i + 1 \in DOMAIN s /\ i + 1 > 2 /\ z[i] = s[i + 1]
      BY <1>1, <1>3, <1>5, <2>2
    <3> QED BY <3>1
  <2> QED BY <2>1, <2>2
<1> QED BY <1>1, <1>2, <1>3, <1>4, <1>5 DEF HandshakeFirst

LEMMA ShookOwn ==
    ASSUME TypeOK, HandInv, TypeOK', NEW c \in Conns, Shook(c), ConnAction(c)
    PROVE  Shook(c)'
<1> USE DEF At, storeVars, envVars
<1>0. "handler" \in Threads /\ "pump" \in Threads /\ "ticker" \in Threads
  BY DEF Threads
<1>1. Len(Sent(c)) \in Nat /\ Hand(c)
  BY SentType DEF HandInv
<1>2. ASSUME Sent(c)' = Sent(c)
      PROVE  HandshakeFirst(c)' /\ Len(Sent(c)') >= Len(Sent(c)) /\ Len(Sent(c)') \in Nat
  BY <1>1, <1>2 DEF Shook, HandshakeFirst
<1>3. {"lock", "snap", "sub", "loop", "decode", "exit", "stop", "uncount", "close", "gone"} \subseteq HandlerPc
      /\ {"lock", "wait", "done"} \subseteq WorkerPc
  BY DEF HandlerPc, WorkerPc
<1>4. ASSUME NEW t \in Threads, Lock(c, t) \/ WriteDone(c, t) \/ WriteFails(c, t) PROVE Shook(c)'
  BY <1>4, ShookSend
<1>5. CASE Accept(c)
  <2>1. BeginSend(c, "handler", Hello) /\ Sent(c)' = Sent(c) /\ Len(Sent(c)) = 0
    BY <1>5 DEF Accept, Sent, Shook
  <2>2. Goto(c, "handler", "lock") /\ out'[c].handler = Hello
    BY <1>0, <2>1, BeginSendType, MessageTypes
  <2>3. Hello.type = "hello"
    BY DEF Hello
  <2> QED BY <1>2, <1>3, <2>1, <2>2, <2>3, ShookHandler
<1>6. CASE ReadSnapshot(c)
  <2>1. BeginSend(c, "handler", Snapshot(window)) /\ Sent(c)' = Sent(c) /\ Len(Sent(c)) = 1
    BY <1>6 DEF ReadSnapshot, Sent, Shook
  <2>2. Goto(c, "handler", "lock") /\ out'[c].handler = Snapshot(window)
    BY <1>0, <2>1, BeginSendType, MessageTypes DEF TypeOK
  <2>3. Snapshot(window).type = "snapshot"
    BY DEF Snapshot
  <2> QED BY <1>2, <1>3, <2>1, <2>2, <2>3, ShookHandler
<1>7. CASE Subscribe(c)
  <2>1. pc'[c] = [handler |-> "loop", pump |-> "wait", ticker |-> "wait"] /\ Sent(c)' = Sent(c)
        /\ Len(Sent(c)) >= 2
    BY <1>7 DEF TypeOK, Subscribe, Then, Sent, Shook
  <2> QED BY <1>2, <2>1 DEF Shook, Sending
<1>8. CASE LoopTop(c) \/ DecodeEnds(c) \/ IdleTimeout(c)
  <2>1. pc[c].pump # "off" /\ Sent(c)' = Sent(c)
    BY <1>8 DEF LoopTop, DecodeEnds, IdleTimeout, Sent, Shook
  <2>2. Goto(c, "handler", "exit") \/ Goto(c, "handler", "decode")
    BY <1>8 DEF LoopTop, DecodeEnds, IdleTimeout
  <2>3. CASE Goto(c, "handler", "exit")
    BY <1>2, <1>3, <2>1, <2>3, ShookHandler
  <2>4. CASE Goto(c, "handler", "decode")
    BY <1>2, <1>3, <2>1, <2>4, ShookHandler
  <2> QED BY <2>2, <2>3, <2>4
<1>9. CASE Decode(c)
  <2>1. PICK m \in {StatsMsg, Pong} : BeginSend(c, "handler", m)
    BY <1>9 DEF Decode
  <2>2. Goto(c, "handler", "lock") /\ out'[c].handler = m /\ m.type \in {"stats", "pong"}
    BY <1>0, <2>1, BeginSendType, MessageTypes DEF StatsMsg, Pong
  <2>3. pc[c].pump # "off" /\ Sent(c)' = Sent(c)
    BY <1>9 DEF Decode, Sent, Shook
  <2> QED BY <1>2, <1>3, <2>2, <2>3, ShookHandler
<1>10. CASE DeferUnsubscribe(c) \/ DeferStop(c) \/ DeferUncount(c) \/ DeferClose(c)
  <2>1. Sent(c)' = Sent(c)
    BY <1>10 DEF DeferUnsubscribe, DeferStop, DeferUncount, DeferClose, Sent
  <2>2. PICK where \in {"stop", "uncount", "close", "gone"} : Goto(c, "handler", where)
    BY <1>10 DEF DeferUnsubscribe, DeferStop, DeferUncount, DeferClose
  <2> QED BY <1>2, <1>3, <2>1, <2>2, ShookHandler
<1>11. ASSUME NEW t \in {"pump", "ticker"}, NEW where \in {"lock", "done"}, Goto(c, t, where),
              pc[c][t] = "wait", out'[c].handler = out[c].handler, Sent(c)' = Sent(c)
       PROVE  Shook(c)'
  BY <1>2, <1>3, <1>11, ShookWorker
<1>12. CASE PumpTake(c)
  <2>1. EventMsg(Head(queue[c])) \in Message
    BY <1>12, MessageTypes DEF TypeOK, PumpTake
  <2>2. BeginSend(c, "pump", EventMsg(Head(queue[c]))) /\ pc[c]["pump"] = "wait" /\ Sent(c)' = Sent(c)
    BY <1>12 DEF PumpTake, Sent
  <2>3. Goto(c, "pump", "lock") /\ out'[c].handler = out[c].handler
    BY <1>0, <2>1, <2>2, BeginSendType
  <2> QED BY <1>11, <2>2, <2>3
<1>13. CASE Tick(c)
  <2>1. BeginSend(c, "ticker", StatsMsg) /\ pc[c]["ticker"] = "wait" /\ Sent(c)' = Sent(c)
    BY <1>13 DEF Tick, Sent
  <2>2. Goto(c, "ticker", "lock") /\ out'[c].handler = out[c].handler
    BY <1>0, <2>1, BeginSendType, MessageTypes
  <2> QED BY <1>11, <2>1, <2>2
<1>14. ASSUME NEW t \in {"pump", "ticker"}, WorkerStops(c, t) PROVE Shook(c)'
  <2>1. Goto(c, t, "done") /\ out' = out /\ pc[c][t] = "wait" /\ Sent(c)' = Sent(c)
    BY <1>14 DEF WorkerStops, Sent
  <2> QED BY <1>11, <2>1
<1>15. ASSUME pc' = pc, out' = out, Sent(c)' = Sent(c) PROVE Shook(c)'
  BY <1>2, <1>15 DEF Shook, Sending
<1>16. CASE ClientHangup(c) \/ \E what \in {"ping", "subscribe"} : ClientAsk(c, what)
  BY <1>15, <1>16 DEF ClientHangup, ClientAsk, connVars, Sent
<1>17. CASE ClientRead(c)
  <2>1. pc' = pc /\ out' = out
    BY <1>17 DEF ClientRead, connVars
  <2>2. CASE Sent(c)' # Sent(c)
    <3>1. PICK k \in 3 .. Len(Sent(c)) : Without(Sent(c), k, Sent(c)')
      BY <1>17, <2>2, SentShrinks
    <3>2. Sent(c)' \in Seq(Message)
      BY SentType, ConcatProperties DEF TypeOK, Sent
    <3>3. HandshakeFirst(c)' /\ Len(Sent(c)') >= 2
      BY <3>1, <3>2, HandshakeShrinks DEF Shook
    <3>4. Len(Sent(c)) >= 3
      BY <1>1, <3>1
    <3>5. Len(Sent(c)) # 0 /\ Len(Sent(c)) # 1
      <4>1. PICK n \in Nat : n = Len(Sent(c))
        BY <1>1
      <4>2. n # 0 /\ n # 1
        BY <3>4, <4>1
      <4> QED BY <4>1, <4>2
    <3> QED BY <2>1, <3>3, <3>5 DEF Shook, Sending
  <2> QED BY <1>15, <2>1, <2>2
<1> QED BY <1>0, <1>4, <1>5, <1>6, <1>7, <1>8, <1>9, <1>10, <1>12, <1>13, <1>14, <1>16, <1>17
        DEF ConnAction, Handler, Worker

LEMMA ShookStep == BaseInv /\ BaseInv' /\ ShookInv /\ [Next]_vars => ShookInv'
<1> SUFFICES ASSUME BaseInv, BaseInv', ShookInv, [Next]_vars, NEW d \in Conns PROVE Shook(d)'
  BY DEF ShookInv
<1>1. TypeOK /\ TypeOK' /\ HandInv /\ Shook(d)
  BY DEF BaseInv, ShookInv
<1>2. ASSUME pc'[d] = pc[d], out'[d] = out[d], toClient'[d] = toClient[d], view'[d] = view[d]
      PROVE  Shook(d)'
  <2>1. Sent(d)' = Sent(d)
    BY <1>2 DEF Sent
  <2> QED BY <1>1, <1>2, <2>1 DEF Shook, Sending, HandshakeFirst
<1>3. CASE Push
  BY <1>2, <1>3 DEF Push, connVars
<1>4. CASE Still
  BY <1>2, <1>4 DEF Still, connVars
<1>5. ASSUME NEW c \in Conns, ConnAction(c) PROVE Shook(d)'
  <2>1. CASE d = c
    BY <1>1, <1>5, <2>1, ShookOwn
  <2>2. CASE d # c
    BY <1>1, <1>2, <1>5, <2>2, OthersAreLeftAlone DEF Same
  <2> QED BY <2>1, <2>2
<1> QED BY <1>3, <1>4, <1>5, StepCases

LEMMA ShookInit == Init => ShookInv
<1> SUFFICES ASSUME Init, NEW c \in Conns PROVE Shook(c)
  BY DEF ShookInv
<1>1. /\ pc[c].handler = "none" /\ pc[c].pump = "off" /\ pc[c].ticker = "off"
      /\ pc[c]["handler"] = "none" /\ view[c] = <<>> /\ toClient[c] = <<>>
  BY DEF Init
<1>2. <<>> \in Seq(Message) /\ Len(<<>>) = 0 /\ DOMAIN <<>> = {}
  BY EmptySeq, LenProperties
<1>3. Sent(c) = <<>>
  BY <1>1, <1>2, ConcatEmptySeq DEF Sent
<1> QED BY <1>1, <1>2, <1>3 DEF Shook, Sending, HandshakeFirst
------------------------------------------------------------------------------
(* The order of the events. *)

Ordered(c) == /\ Ord(Sent(c), out[c].pump, queue[c], total)
              /\ Sending(c, "handler") => SnapshotOk(out[c].handler, total)

WindowOk == SnapshotOk(Snapshot(window), total)

OrderInv == WindowOk /\ \A c \in Conns : Ordered(c)

LEMMA OrdEmptyHand ==
    ASSUME NEW s, NEW p, NEW q, NEW n, Ord(s, p, q, n)
    PROVE  Ord(s, Nothing, q, n)
BY NumbersOf DEF Ord

LEMMA NoSnapshotOk ==
    ASSUME NEW n PROVE SnapshotOk(Hello, n) /\ SnapshotOk(StatsMsg, n) /\ SnapshotOk(Pong, n)
BY NumbersOf DEF SnapshotOk, Hello, StatsMsg, Pong

\* An envelope goes out.
LEMMA OrderedWrite ==
    ASSUME BaseInv, NEW c \in Conns, Shook(c), Ordered(c), NEW t \in Threads, WriteDone(c, t)
    PROVE  Ordered(c)'
<1> USE DEF At
<1>0. TypeOK /\ Hand(c) /\ "handler" \in Threads /\ "pump" \in Threads /\ "ticker" \in Threads
  BY DEF BaseInv, HandInv, Threads
<1>1. PICK s \in Seq(Message), p \in Message, q \in Seq(Event), n \in Nat, m \in Message :
        s = Sent(c) /\ p = out[c].pump /\ q = queue[c] /\ n = total /\ m = out[c][t]
  <2>1. out[c][t] \in Message
    BY <1>0 DEF TypeOK
  <2> QED BY <1>0, <2>1, SentType
<1>2. Ord(s, p, q, n) /\ Sending(c, t)
  BY <1>1 DEF Ordered, WriteDone, Sending
<1>3. Sent(c)' = Append(s, m) /\ queue' = queue /\ total' = total
      /\ out' = [out EXCEPT ![c][t] = Nothing]
  BY <1>0, <1>1, SentGrows DEF WriteDone, storeVars
<1>4. out'[c][t] = Nothing /\ \A u \in Threads : u # t => out'[c][u] = out[c][u]
  BY <1>0, <1>3, OutType, MessageTypes
<1>5. Numbers(Nothing) = {}
  BY NumbersOf
<1>6. Ord(Append(s, m), out'[c].pump, q, n)
  <2>1. CASE t = "pump"
    <3>1. m = p /\ out'[c].pump = Nothing /\ m.type = "event"
      BY <1>0, <1>1, <1>2, <1>4, <2>1 DEF Hand
    <3>2. \A a \in Numbers(m) : a <= n /\ \A k \in DOMAIN q : a < q[k].seq
      BY <1>2, <3>1 DEF Ord
    <3>3. \A i \in DOMAIN s : \A a \in Numbers(s[i]), b \in Numbers(m) : a < b
      BY <1>2, <3>1 DEF Ord
    <3>4. m.type = "snapshot" => Increasing(m.events)
      BY <3>1
    <3> HIDE DEF Ord
    <3>5. Ord(Append(s, m), Nothing, q, n)
      BY <1>2, <1>5, <3>2, <3>3, <3>4, MessageTypes, OrdAppend
    <3> QED BY <3>1, <3>5
  <2>2. ASSUME m.type \in {"hello", "stats", "pong"}, t # "pump" PROVE Ord(Append(s, m), out'[c].pump, q, n)
    <3>1. Numbers(m) = {} /\ m.type # "snapshot"
      BY <2>2, KindsOf
    <3>2. out'[c].pump = p
      BY <1>0, <1>1, <1>4, <2>2
    <3>3. Ord(Append(s, m), p, q, n)
      BY <1>2, <3>1, OrdAppend
    <3> QED BY <3>2, <3>3
  <2>3. CASE t = "ticker"
    BY <1>0, <1>1, <1>2, <2>2, <2>3 DEF Hand
  <2>4. CASE t = "handler"
    <3>1. m.type \in {"hello", "snapshot", "stats", "pong"} /\ m = out[c].handler
      BY <1>0, <1>1, <1>2, <2>4 DEF Hand
    <3>2. CASE m.type = "snapshot"
      <4>1. Early(c)
        BY <1>2, <2>4, <3>1, <3>2 DEF Early
      <4>2. q = <<>> /\ p = Nothing
        BY <1>0, <1>1, <4>1 DEF Hand, Sending
      <4>3. Len(s) = 1 /\ s[1].type = "hello"
        <5>1. Len(s) = 1
          BY <1>1, <1>2, <2>4, <3>1, <3>2 DEF Shook
        <5>2. Len(s) >= 1 => s[1].type = "hello"
          BY <1>1 DEF Shook, HandshakeFirst
        <5> QED BY <5>1, <5>2
      <4>4. DOMAIN s = {1} /\ s[1] \in Message /\ DOMAIN q = {}
        <5>1. DOMAIN s = 1 .. 1 /\ 1 \in 1 .. Len(s)
          BY <4>3, LenProperties
        <5>2. s[1] \in Message
          BY <5>1, ElementOfSeq
        <5>3. DOMAIN q = 1 .. 0
          BY <4>2, LenProperties, EmptySeq
        <5> QED BY <5>1, <5>2, <5>3
      <4>5. Numbers(s[1]) = {}
        BY <4>3, <4>4, KindsOf
      <4>6. SnapshotOk(m, n)
        BY <1>1, <1>2, <2>4, <3>1 DEF Ordered
      <4>7. /\ m.type = "snapshot" => Increasing(m.events)
            /\ \A a \in Numbers(m) : a <= n /\ \A k \in DOMAIN q : a < q[k].seq
            /\ \A i \in DOMAIN s : \A a \in Numbers(s[i]), b \in Numbers(m) : a < b
        BY <4>4, <4>5, <4>6 DEF SnapshotOk
      <4>8. Ord(Append(s, m), Nothing, q, n)
        BY <1>2, <1>5, <4>7, MessageTypes, OrdAppend
      <4>9. out'[c].pump = Nothing
        BY <1>0, <1>1, <1>4, <2>4, <4>2
      <4> QED BY <4>8, <4>9
    <3> QED BY <2>2, <2>4, <3>1, <3>2
  <2> QED BY <2>1, <2>3, <2>4 DEF Threads
<1>7. Sending(c, "handler")' => SnapshotOk(out'[c].handler, n)
  <2>1. CASE t = "handler"
    <3>1. out'[c].handler = Nothing
      BY <1>4, <2>1
    <3> QED BY <1>5, <3>1 DEF SnapshotOk, Nothing
  <2>2. CASE t # "handler"
    <3>1. out'[c].handler = out[c].handler
      BY <1>0, <1>4, <2>2
    <3>2. pc'[c]["handler"] = pc[c]["handler"]
      <4>1. Goto(c, t, "wait") /\ "wait" \in WorkerPc
        BY <2>2 DEF WriteDone, WorkerPc
      <4> QED BY <1>0, <2>2, <4>1, GotoType
    <3> QED BY <1>1, <3>1, <3>2 DEF Ordered, Sending
  <2> QED BY <2>1, <2>2
<1> QED BY <1>1, <1>3, <1>6, <1>7 DEF Ordered

LEMMA OrderedOwn ==
    ASSUME BaseInv, BaseInv', WindowOk, NEW c \in Conns, Shook(c), Ordered(c), ConnAction(c)
    PROVE  Ordered(c)'
<1> USE DEF At, storeVars, envVars
<1>0. TypeOK /\ TypeOK' /\ Hand(c) /\ "handler" \in Threads /\ "pump" \in Threads /\ "ticker" \in Threads
  BY DEF BaseInv, HandInv, Threads
<1>1. \* the handler takes an envelope in its hand
      ASSUME NEW m \in Message, BeginSend(c, "handler", m), SnapshotOk(m, total),
             Sent(c)' = Sent(c), queue' = queue, total' = total
      PROVE  Ordered(c)'
  <2>1. out'[c].handler = m /\ out'[c].pump = out[c].pump
    BY <1>0, <1>1, BeginSendType
  <2> QED BY <1>1, <2>1 DEF Ordered
<1>2. \* nobody takes or gives up anything
      ASSUME pc'[c].handler = pc[c].handler \/ pc'[c].handler \notin {"lock", "write"}
             \/ pc[c].handler \in {"lock", "write"},
             out'[c].handler = out[c].handler, out'[c].pump = out[c].pump,
             Sent(c)' = Sent(c), queue'[c] = queue[c], total' = total
      PROVE  Ordered(c)'
  BY <1>2 DEF Ordered, Sending
<1>3. CASE Accept(c)
  BY <1>1, <1>3, NoSnapshotOk, MessageTypes DEF Accept, Sent
<1>4. CASE Decode(c)
  <2>1. PICK m \in {StatsMsg, Pong} : BeginSend(c, "handler", m)
    BY <1>4 DEF Decode
  <2> QED BY <1>1, <1>4, <2>1, NoSnapshotOk, MessageTypes DEF Decode, Sent
<1>5. CASE ReadSnapshot(c)
  <2>1. Snapshot(window) \in Message
    BY <1>0, MessageTypes DEF TypeOK
  <2> QED BY <1>1, <1>5, <2>1 DEF ReadSnapshot, Sent, WindowOk
<1>6. ASSUME NEW t \in Threads, WriteDone(c, t) PROVE Ordered(c)'
  BY <1>6, OrderedWrite
<1>7. ASSUME NEW t \in Threads, Lock(c, t) PROVE Ordered(c)'
  <2>1. Goto(c, t, "write") /\ out' = out /\ queue' = queue /\ total' = total /\ Sent(c)' = Sent(c)
        /\ pc[c][t] = "lock" /\ "write" \in HandlerPc /\ "write" \in WorkerPc
    BY <1>7 DEF Lock, Sent, HandlerPc, WorkerPc
  <2>2. pc'[c]["handler"] = pc[c]["handler"] \/ pc[c]["handler"] = "lock"
    BY <1>0, <2>1, GotoType
  <2> QED BY <1>2, <2>1, <2>2
<1>8. ASSUME NEW t \in Threads, WriteFails(c, t) PROVE Ordered(c)'
  <2>1. /\ out' = [out EXCEPT ![c][t] = Nothing] /\ queue' = queue /\ total' = total
        /\ Sent(c)' = Sent(c) /\ Sending(c, t)
    BY <1>8 DEF WriteFails, Sent, Sending
  <2>2. out'[c][t] = Nothing /\ \A u \in Threads : u # t => out'[c][u] = out[c][u]
    BY <1>0, <2>1, OutType, MessageTypes
  <2>3. CASE t = "handler"
    <3>1. \E where \in {"uncount", "exit"} : Goto(c, "handler", where)
      BY <1>8, <2>3 DEF WriteFails
    <3>2. {"uncount", "exit"} \subseteq HandlerPc
      BY DEF HandlerPc
    <3>3. pc'[c]["handler"] \in {"uncount", "exit"}
      BY <1>0, <3>1, <3>2, GotoType
    <3>4. out'[c].pump = out[c].pump
      BY <1>0, <2>2, <2>3
    <3> QED BY <2>1, <3>3, <3>4 DEF Ordered, Sending
  <2>4. CASE t # "handler"
    <3>1. Goto(c, t, "done") /\ "done" \in WorkerPc
      BY <1>8, <2>4 DEF WriteFails, WorkerPc
    <3>2. pc'[c]["handler"] = pc[c]["handler"]
      BY <1>0, <2>4, <3>1, GotoType
    <3>3. out'[c].handler = out[c].handler
      BY <1>0, <2>2, <2>4
    <3>4. out'[c].pump = Nothing \/ out'[c].pump = out[c].pump
      BY <1>0, <2>2, <2>4 DEF Threads
    <3> QED BY <2>1, <3>2, <3>3, <3>4, OrdEmptyHand DEF Ordered, Sending
  <2> QED BY <2>3, <2>4
<1>9. CASE Subscribe(c)
  <2>1. pc'[c] = [handler |-> "loop", pump |-> "wait", ticker |-> "wait"]
    BY <1>0, <1>9 DEF TypeOK, Subscribe, Then
  <2>2. pc'[c].handler = "loop"
    BY <2>1
  <2> QED BY <1>2, <1>9, <2>2 DEF Subscribe, Store!Join, Sent
<1>10. ASSUME NEW where \in {"exit", "decode", "stop", "uncount", "close", "gone"},
              Goto(c, "handler", where), out' = out, queue' = queue, total' = total,
              Sent(c)' = Sent(c)
       PROVE  Ordered(c)'
  <2>1. where \in HandlerPc
    BY DEF HandlerPc
  <2>2. pc'[c]["handler"] = where
    BY <1>0, <1>10, <2>1, GotoType
  <2> QED BY <1>2, <1>10, <2>2
<1>11. CASE LoopTop(c) \/ DecodeEnds(c) \/ IdleTimeout(c)
  <2>1. out' = out /\ queue' = queue /\ total' = total /\ Sent(c)' = Sent(c)
    BY <1>11 DEF LoopTop, DecodeEnds, IdleTimeout, Sent
  <2>2. Goto(c, "handler", "exit") \/ Goto(c, "handler", "decode")
    BY <1>11 DEF LoopTop, DecodeEnds, IdleTimeout
  <2> QED BY <1>10, <2>1, <2>2
<1>12. CASE DeferUnsubscribe(c) \/ DeferStop(c) \/ DeferUncount(c) \/ DeferClose(c)
  <2>1. out' = out /\ queue' = queue /\ total' = total /\ Sent(c)' = Sent(c)
    BY <1>12 DEF DeferUnsubscribe, Store!Leave, DeferStop, DeferUncount, DeferClose, Sent
  <2>2. \E where \in {"stop", "uncount", "close", "gone"} : Goto(c, "handler", where)
    BY <1>12 DEF DeferUnsubscribe, DeferStop, DeferUncount, DeferClose
  <2> QED BY <1>10, <2>1, <2>2
<1>13. CASE PumpTake(c)
  <2>1. PICK q \in Seq(Event), s \in Seq(Message), n \in Nat : q = queue[c] /\ s = Sent(c) /\ n = total
    BY <1>0, SentType
  <2>2. EventMsg(Head(q)) \in Message /\ q # <<>>
    BY <1>0, <1>13, <2>1, MessageTypes DEF TypeOK, PumpTake
  <2>3. BeginSend(c, "pump", EventMsg(Head(q))) /\ pc[c]["pump"] = "wait"
        /\ Sent(c)' = s /\ queue'[c] = Tail(q) /\ total' = n
    BY <1>0, <1>13, <2>1 DEF PumpTake, Store!Take, Sent, TypeOK
  <2>4. /\ Goto(c, "pump", "lock") /\ out'[c].handler = out[c].handler
        /\ out'[c].pump = EventMsg(Head(q)) /\ "lock" \in WorkerPc
    BY <1>0, <2>2, <2>3, BeginSendType DEF WorkerPc
  <2>5. pc'[c]["handler"] = pc[c]["handler"]
    BY <1>0, <2>4, GotoType
  <2>6. out[c].pump = Nothing
    BY <1>0, <2>3 DEF Hand, Sending
  <2>7. Ord(s, EventMsg(Head(q)), Tail(q), n)
    BY <2>1, <2>2, <2>6, OrdTake DEF Ordered
  <2> QED BY <2>1, <2>3, <2>4, <2>5, <2>7 DEF Ordered, Sending
<1>14. CASE Tick(c)
  <2>1. BeginSend(c, "ticker", StatsMsg) /\ Sent(c)' = Sent(c) /\ queue' = queue /\ total' = total
    BY <1>14 DEF Tick, Sent
  <2>2. Goto(c, "ticker", "lock") /\ out'[c].handler = out[c].handler /\ out'[c].pump = out[c].pump
        /\ "lock" \in WorkerPc
    BY <1>0, <2>1, BeginSendType, MessageTypes DEF WorkerPc
  <2>3. pc'[c]["handler"] = pc[c]["handler"]
    BY <1>0, <2>2, GotoType
  <2> QED BY <1>2, <2>1, <2>2, <2>3
<1>15. ASSUME NEW t \in {"pump", "ticker"}, WorkerStops(c, t) PROVE Ordered(c)'
  <2>1. Goto(c, t, "done") /\ out' = out /\ Sent(c)' = Sent(c) /\ queue' = queue /\ total' = total
        /\ "done" \in WorkerPc /\ t \in Threads
    BY <1>15 DEF WorkerStops, Sent, WorkerPc, Threads
  <2>2. pc'[c]["handler"] = pc[c]["handler"]
    BY <1>0, <2>1, GotoType
  <2> QED BY <1>2, <2>1, <2>2
<1>16. CASE ClientHangup(c) \/ \E what \in {"ping", "subscribe"} : ClientAsk(c, what)
  BY <1>2, <1>16 DEF ClientHangup, ClientAsk, connVars, Sent
<1>17. CASE ClientRead(c)
  <2>1. pc' = pc /\ out' = out /\ queue' = queue /\ total' = total
    BY <1>17 DEF ClientRead, connVars
  <2>2. CASE Sent(c)' # Sent(c)
    <3>1. PICK k \in 3 .. Len(Sent(c)) : Without(Sent(c), k, Sent(c)')
      BY <1>0, <1>17, <2>2, SentShrinks
    <3>2. Sent(c)' \in Seq(Message) /\ Sent(c) \in Seq(Message) /\ k \in 1 .. Len(Sent(c))
      BY <1>0, <3>1, SentType, ConcatProperties DEF TypeOK, Sent
    <3>3. Ord(Sent(c)', out[c].pump, queue[c], total)
      BY <3>1, <3>2, OrdWithout DEF Ordered
    <3> QED BY <2>1, <3>3 DEF Ordered, Sending
  <2> QED BY <1>2, <2>1, <2>2
<1> QED BY <1>0, <1>3, <1>4, <1>5, <1>6, <1>7, <1>8, <1>9, <1>11, <1>12, <1>13, <1>14, <1>15,
           <1>16, <1>17 DEF ConnAction, Handler, Worker

LEMMA OnlyPushesCount ==
    ASSUME NEW c \in Conns, ConnAction(c)
    PROVE  window' = window /\ total' = total
BY DEF ConnAction, Handler, Worker, Accept, Lock, WriteDone, WriteFails, ReadSnapshot, Subscribe,
       Store!Join, LoopTop, Decode, DecodeEnds, IdleTimeout, DeferUnsubscribe, Store!Leave,
       DeferStop, DeferUncount, DeferClose, PumpTake, Store!Take, Tick, WorkerStops, ClientRead,
       ClientHangup, ClientAsk, storeVars

LEMMA PushOrder ==
    ASSUME BaseInv, OrderInv, Push
    PROVE  OrderInv'
<1>1. /\ TypeOK /\ Pushed \in Event /\ Pushed.seq = total + 1 /\ total' = total + 1 /\ total \in Nat
      /\ Store!Put(Pushed)
      /\ UNCHANGED <<subs, closed, filter, up, connVars, envVars, toClient, view>>
  BY PushTypes, IpcServerAssumption DEF BaseInv, Pushed, Push, TypeOK
<1> HIDE DEF Pushed
<1>2. WindowOk'
  <2>1. PICK w \in Seq(Event) : w = window
    BY <1>1 DEF TypeOK
  <2>2. PICK z \in Seq(Event) : z = Append(w, Pushed)
    BY <1>1, AppendProperties
  <2>3. /\ Len(w) \in Nat /\ Len(z) = Len(w) + 1 /\ DOMAIN z = 1 .. Len(w) + 1 /\ DOMAIN w = 1 .. Len(w)
        /\ \A k \in 1 .. Len(w) : z[k] = w[k]
        /\ z[Len(w) + 1] = Pushed
    BY <1>1, <2>2, AppendProperties, LenProperties
  <2>4. Increasing(w) /\ \A k \in DOMAIN w : w[k].seq <= total
    BY <2>1, NumbersOf DEF OrderInv, WindowOk, SnapshotOk, Snapshot
  <2>5. \A k \in DOMAIN w : w[k].seq \in Int
    <3>1. \A k \in DOMAIN w : w[k] \in Event
      BY ElementOfSeq, LenProperties
    <3>2. \A f \in Event : f.seq \in Int
      BY DEF Event
    <3> QED BY <3>1, <3>2
  <2>6. \A k \in DOMAIN z : (k \in DOMAIN w /\ z[k] = w[k]) \/ (k = Len(w) + 1 /\ z[k] = Pushed)
    BY <2>3
  <2>7. \A k \in DOMAIN z : z[k].seq <= total + 1
    BY <1>1, <2>4, <2>5, <2>6
  <2>8. Increasing(z)
    <3> SUFFICES ASSUME NEW i \in DOMAIN z, NEW j \in DOMAIN z, i < j PROVE z[i].seq < z[j].seq
      BY DEF Increasing
    <3>1. i \in DOMAIN w /\ z[i] = w[i]
      BY <2>3
    <3>2. CASE j \in DOMAIN w
      BY <2>3, <2>4, <3>1, <3>2 DEF Increasing
    <3>3. CASE j = Len(w) + 1
      <4>1. w[i].seq <= total /\ w[i].seq \in Int
        BY <2>4, <2>5, <3>1
      <4>2. z[j].seq = total + 1
        BY <1>1, <2>3, <3>3
      <4> QED BY <1>1, <3>1, <4>1, <4>2
    <3> QED BY <2>6, <3>2, <3>3
  <2>9. window' = z \/ (window' = Tail(z) /\ z # <<>>)
    <3>1. window' = Store!Last(z, Capacity)
      BY <1>1, <2>1, <2>2 DEF Store!Put
    <3>2. z # <<>>
      BY <2>2, AppendProperties
    <3> QED BY <3>1, <3>2 DEF Store!Last
  <2>10. Increasing(window') /\ \A k \in DOMAIN window' : window'[k].seq <= total + 1
    <3>1. CASE window' = z
      BY <2>7, <2>8, <3>1
    <3>2. CASE window' = Tail(z) /\ z # <<>>
      <4>1. PICK y \in Seq(Event) : y = Tail(z)
        BY <3>2, HeadTailProperties
      <4>2. DOMAIN y = 1 .. Len(w) /\ \A k \in 1 .. Len(w) : y[k] = z[k + 1]
        BY <2>3, <3>2, <4>1, HeadTailProperties, LenProperties
      <4>3. \A k \in DOMAIN y : k + 1 \in DOMAIN z /\ y[k] = z[k + 1]
        BY <2>3, <4>2
      <4>4. Increasing(y)
        <5> SUFFICES ASSUME NEW i \in DOMAIN y, NEW j \in DOMAIN y, i < j PROVE y[i].seq < y[j].seq
          BY DEF Increasing
        <5>1. i + 1 < j + 1
          BY <4>2
        <5> QED BY <2>8, <4>3, <5>1 DEF Increasing
      <4> QED BY <2>7, <3>2, <4>1, <4>3, <4>4
    <3> QED BY <2>9, <3>1, <3>2
  <2> QED BY <1>1, <2>10, NumbersOf DEF WindowOk, SnapshotOk, Snapshot
<1>3. ASSUME NEW c \in Conns PROVE Ordered(c)'
  <2>1. PICK s \in Seq(Message), p \in Message, q \in Seq(Event) :
          s = Sent(c) /\ p = out[c].pump /\ q = queue[c]
    BY <1>1, SentType
  <2>2. Ord(s, p, q, total + 1) /\ Ord(s, p, Append(q, Pushed), total + 1)
    BY <1>1, <2>1, OrdPush DEF OrderInv, Ordered
  <2>3. queue'[c] = q \/ queue'[c] = Append(q, Pushed)
    <3>1. queue' = [d \in Conns |-> IF d \in subs /\ Pushed.table \in filter[d] /\ Len(queue[d]) < SubChanCap
                                   THEN Append(queue[d], Pushed) ELSE queue[d]]
      BY <1>1 DEF Store!Put
    <3> QED BY <2>1, <3>1
  <2>4. Sent(c)' = s /\ out' = out /\ pc' = pc
    BY <1>1, <2>1 DEF Sent, connVars
  <2>5. SnapshotOk(out[c].handler, total) => SnapshotOk(out[c].handler, total + 1)
    <3>1. Numbers(out[c].handler) \subseteq Int
      BY <1>1, SentType, KindsOf
    <3> QED BY <1>1, <3>1 DEF SnapshotOk
  <2> QED BY <1>1, <2>1, <2>2, <2>3, <2>4, <2>5 DEF OrderInv, Ordered, Sending
<1> QED BY <1>2, <1>3 DEF OrderInv

LEMMA OrderStep == BaseInv /\ BaseInv' /\ ShookInv /\ OrderInv /\ [Next]_vars => OrderInv'
<1> SUFFICES ASSUME BaseInv, BaseInv', ShookInv, OrderInv, [Next]_vars PROVE OrderInv'
  OBVIOUS
<1>1. TypeOK
  BY DEF BaseInv
<1>2. ASSUME NEW d \in Conns, pc'[d] = pc[d], out'[d] = out[d], toClient'[d] = toClient[d],
             view'[d] = view[d], queue'[d] = queue[d], total' = total
      PROVE  Ordered(d)'
  <2>1. Sent(d)' = Sent(d)
    BY <1>2 DEF Sent
  <2> QED BY <1>2, <2>1 DEF OrderInv, Ordered, Sending
<1>3. CASE Push
  BY <1>3, PushOrder
<1>4. CASE Still
  BY <1>2, <1>4 DEF Still, storeVars, connVars, OrderInv, WindowOk
<1>5. ASSUME NEW c \in Conns, ConnAction(c) PROVE OrderInv'
  <2>1. window' = window /\ total' = total
    BY <1>5, OnlyPushesCount
  <2>2. WindowOk'
    BY <2>1 DEF OrderInv, WindowOk
  <2>3. ASSUME NEW d \in Conns PROVE Ordered(d)'
    <3>1. CASE d = c
      BY <1>5, <3>1, OrderedOwn DEF ShookInv, OrderInv
    <3>2. CASE d # c
      BY <1>1, <1>2, <1>5, <3>2, OthersAreLeftAlone DEF Same
    <3> QED BY <3>1, <3>2
  <2> QED BY <2>2, <2>3 DEF OrderInv
<1> QED BY <1>3, <1>4, <1>5, StepCases

LEMMA OrderInit == Init => OrderInv
<1> SUFFICES ASSUME Init PROVE OrderInv
  OBVIOUS
<1>0. <<>> \in Seq(Message) /\ <<>> \in Seq(Event) /\ Len(<<>>) = 0 /\ DOMAIN <<>> = {}
  BY EmptySeq, LenProperties
<1>1. WindowOk
  BY <1>0, NumbersOf DEF Init, Store!Init, WindowOk, SnapshotOk, Snapshot, Increasing
<1>2. ASSUME NEW c \in Conns PROVE Ordered(c)
  <2>1. /\ pc[c]["handler"] = "none" /\ view[c] = <<>> /\ toClient[c] = <<>>
        /\ out[c].pump = Nothing /\ queue[c] = <<>>
    BY DEF Init, Store!Init, Threads
  <2>2. Sent(c) = <<>>
    BY <1>0, <2>1, ConcatEmptySeq DEF Sent
  <2> QED BY <1>0, <2>1, <2>2, NumbersOf DEF Ordered, Ord, InOrder, Increasing, Sending
<1> QED BY <1>1, <1>2 DEF OrderInv

StreamInv == BaseInv /\ ShookInv /\ OrderInv

LEMMA StreamCorrect == Spec => []StreamInv
<1>1. Init => StreamInv
  BY InitFacts, ShookInit, OrderInit DEF StreamInv, BaseInv
<1>2. StreamInv /\ [Next]_vars => StreamInv'
  <2>1. BaseInv /\ [Next]_vars => BaseInv'
    BY CountStep, HandStep, TypeStep DEF BaseInv
  <2> QED BY <2>1, ShookStep, OrderStep DEF StreamInv
<1> QED BY <1>1, <1>2, PTL DEF Spec

\* For any number of clients and buffers of any size, and however the three
\* goroutines of a connection share its socket: hello, the snapshot, then a stream
\* that takes up where the snapshot ends, every event at most once and in the order
\* of the store (server.go:98-139).
THEOREM StreamsAreInOrder == Spec => []StreamInOrder
<1>1. StreamInv => StreamInOrder
  <2> SUFFICES ASSUME StreamInv, NEW c \in Conns PROVE HandshakeFirst(c) /\ InOrder(Line(c))
    BY DEF StreamInOrder
  <2>1. TypeOK /\ Hand(c) /\ Shook(c) /\ Ordered(c)
    BY DEF StreamInv, BaseInv, HandInv, ShookInv, OrderInv
  <2>2. out[c].pump.type # "snapshot"
    BY <2>1 DEF Hand, Nothing
  <2>3. InOrder(Line(c))
    BY <2>1, <2>2, SentType, OrdLine DEF Ordered, Line
  <2> QED BY <2>1, <2>3 DEF Shook
<1> QED BY <1>1, StreamCorrect, PTL
------------------------------------------------------------------------------
(* Losses. *)

\* The numbers of the events on their way to a client, but for its snapshot.
Past(s)    == UNION {Numbers(s[i]) : i \in {i \in DOMAIN s : s[i].type = "event"}}
Held(p)    == IF p.type = "event" THEN Numbers(p) ELSE {}
Waiting(q) == {q[k].seq : k \in DOMAIN q}

Carried(s, p, q) == Past(s) \cup Held(p) \cup Waiting(q)

LEMMA CarriedAppend ==
    ASSUME NEW s \in Seq(Message), NEW p \in Message, NEW m \in Message, NEW q
    PROVE  /\ m.type # "event" => Carried(Append(s, m), p, q) = Carried(s, p, q)
           /\ m.type = "event" => Carried(Append(s, m), Nothing, q) = Carried(s, m, q)
<1>1. PICK z \in Seq(Message) : z = Append(s, m)
  BY AppendProperties
<1>2. /\ Len(s) \in Nat /\ DOMAIN z = 1 .. Len(s) + 1 /\ DOMAIN s = 1 .. Len(s)
      /\ \A i \in 1 .. Len(s) : z[i] = s[i]
      /\ z[Len(s) + 1] = m
  BY <1>1, AppendProperties, LenProperties
<1>3. /\ \A i \in DOMAIN s : i \in DOMAIN z /\ z[i] = s[i]
      /\ \A i \in DOMAIN z : (i \in DOMAIN s /\ z[i] = s[i]) \/ z[i] = m
      /\ \E i \in DOMAIN z : z[i] = m
  BY <1>2
<1>4. Held(Nothing) = {} /\ (m.type = "event" => Held(m) = Numbers(m))
  BY DEF Nothing, Held
<1>5. m.type # "event" => Past(z) = Past(s)
  BY <1>3 DEF Past
<1>6. m.type = "event" => Past(z) = Past(s) \cup Numbers(m)
  BY <1>3 DEF Past
<1> QED BY <1>1, <1>4, <1>5, <1>6 DEF Carried

LEMMA CarriedTake ==
    ASSUME NEW s, NEW q \in Seq(Event), q # <<>>
    PROVE  Carried(s, EventMsg(Head(q)), Tail(q)) = Carried(s, Nothing, q)
<1>1. PICK z \in Seq(Event) : z = Tail(q)
  BY HeadTailProperties
<1>2. /\ Len(q) \in Nat /\ DOMAIN z = 1 .. Len(q) - 1 /\ DOMAIN q = 1 .. Len(q) /\ Len(q) >= 1
      /\ \A k \in 1 .. Len(q) - 1 : z[k] = q[k + 1]
      /\ Head(q) = q[1]
  BY <1>1, HeadTailProperties, LenProperties, EmptySeq
<1>3. PICK p : p = EventMsg(Head(q)) /\ p.type = "event" /\ Numbers(p) = {q[1].seq}
  BY <1>2, NumbersOf DEF EventMsg
<1>4. Waiting(q) = {q[1].seq} \cup Waiting(z)
  <2>1. ASSUME NEW k \in DOMAIN q PROVE q[k].seq \in {q[1].seq} \cup {z[j].seq : j \in DOMAIN z}
    <3>1. CASE k = 1
      BY <3>1
    <3>2. CASE k # 1
      <4>1. k - 1 \in DOMAIN z /\ z[k - 1] = q[(k - 1) + 1] /\ (k - 1) + 1 = k
        BY <1>2, <3>2
      <4> QED BY <4>1
    <3> QED BY <3>1, <3>2
  <2>2. \A k \in DOMAIN z : k + 1 \in DOMAIN q /\ z[k] = q[k + 1]
    BY <1>2
  <2>3. 1 \in DOMAIN q
    BY <1>2
  <2> QED BY <2>1, <2>2, <2>3 DEF Waiting
<1>5. Held(Nothing) = {} /\ Held(p) = {q[1].seq}
  BY <1>3 DEF Nothing, Held
<1> QED BY <1>1, <1>3, <1>4, <1>5 DEF Carried

LEMMA CarriedWithout ==
    ASSUME NEW s \in Seq(Message), NEW z \in Seq(Message), NEW k \in 1 .. Len(s), Without(s, k, z),
           s[k].type # "event", NEW p, NEW q
    PROVE  Carried(z, p, q) = Carried(s, p, q)
<1>1. Len(s) \in Nat /\ DOMAIN s = 1 .. Len(s) /\ DOMAIN z = 1 .. Len(s) - 1
  BY LenProperties DEF Without
<1>2. \A i \in DOMAIN z : \E j \in DOMAIN s : z[i] = s[j]
  BY <1>1 DEF Without
<1>3. ASSUME NEW j \in DOMAIN s, j # k PROVE \E i \in DOMAIN z : z[i] = s[j]
  <2>1. CASE j < k
    BY <1>1, <2>1 DEF Without
  <2>2. CASE ~(j < k)
    <3>1. j - 1 \in DOMAIN z /\ ~(j - 1 < k) /\ (j - 1) + 1 = j
      BY <1>1, <1>3, <2>2
    <3>2. z[j - 1] = s[j]
      BY <1>1, <3>1 DEF Without
    <3> QED BY <3>1, <3>2
  <2> QED BY <2>1, <2>2
<1>4. Past(z) = Past(s)
  BY <1>2, <1>3 DEF Past
<1> QED BY <1>4 DEF Carried

LEMMA CarriedPush ==
    ASSUME NEW s, NEW p, NEW q \in Seq(Event), NEW e \in Event
    PROVE  Carried(s, p, Append(q, e)) = Carried(s, p, q) \cup {e.seq}
<1>1. PICK z \in Seq(Event) : z = Append(q, e)
  BY AppendProperties
<1>2. /\ Len(q) \in Nat /\ DOMAIN z = 1 .. Len(q) + 1 /\ DOMAIN q = 1 .. Len(q)
      /\ \A i \in 1 .. Len(q) : z[i] = q[i]
      /\ z[Len(q) + 1] = e
  BY <1>1, AppendProperties, LenProperties
<1>3. /\ \A i \in DOMAIN q : i \in DOMAIN z /\ z[i] = q[i]
      /\ \A i \in DOMAIN z : (i \in DOMAIN q /\ z[i] = q[i]) \/ z[i] = e
      /\ \E i \in DOMAIN z : z[i] = e
  BY <1>2
<1>4. Waiting(z) = Waiting(q) \cup {e.seq}
  BY <1>3 DEF Waiting
<1> QED BY <1>1, <1>4 DEF Carried

\* Events have numbers from 1, and none is above the number of pushes.
LEMMA CarriedRange ==
    ASSUME NEW s \in Seq(Message), NEW p \in Message, NEW q \in Seq(Event), NEW n \in Nat,
           Ord(s, p, q, n)
    PROVE  Carried(s, p, q) \subseteq 1 .. n
<1>1. \A e \in Event : e.seq \in Nat \ {0}
  BY DEF Event
<1>2. ASSUME NEW m \in Message, m.type = "event" PROVE Numbers(m) \subseteq Nat \ {0}
  <2>1. PICK e \in Event : m = EventMsg(e)
    BY <1>2, KindsOf
  <2> QED BY <1>1, <2>1, NumbersOf
<1>3. ASSUME NEW i \in DOMAIN s, s[i].type = "event", NEW a \in Numbers(s[i]) PROVE a \in 1 .. n
  <2>1. s[i] \in Message
    BY LenProperties, ElementOfSeq
  <2>2. a \in Nat \ {0} /\ a <= n
    BY <1>2, <1>3, <2>1 DEF Ord
  <2> QED BY <2>2
<1>4. ASSUME p.type = "event", NEW a \in Numbers(p) PROVE a \in 1 .. n
  <2>1. a \in Nat \ {0} /\ a <= n
    BY <1>2, <1>4 DEF Ord
  <2> QED BY <2>1
<1>5. ASSUME NEW k \in DOMAIN q PROVE q[k].seq \in 1 .. n
  <2>1. q[k] \in Event
    BY LenProperties, ElementOfSeq
  <2>2. q[k].seq \in Nat \ {0} /\ q[k].seq <= n
    BY <1>1, <2>1 DEF Ord
  <2> QED BY <2>2
<1>6. Past(s) \subseteq 1 .. n
  BY <1>3 DEF Past
<1>7. Held(p) \subseteq 1 .. n
  BY <1>4 DEF Held
<1>8. Waiting(q) \subseteq 1 .. n
  BY <1>5 DEF Waiting
<1> QED BY <1>6, <1>7, <1>8 DEF Carried

\* A full subscription carries as many events as it has places.
LEMMA CarriedFull ==
    ASSUME NEW s \in Seq(Message), NEW p \in Message, NEW q \in Seq(Event), NEW n \in Nat,
           Ord(s, p, q, n)
    PROVE  Cardinality(Carried(s, p, q)) >= Len(q)
<1> DEFINE Q == Waiting(q)
           f == [k \in 1 .. Len(q) |-> q[k].seq]
<1>1. Len(q) \in Nat /\ DOMAIN q = 1 .. Len(q)
  BY LenProperties
<1>2. IsFiniteSet(1 .. n)
  BY FS_Interval
<1>3. Carried(s, p, q) \subseteq 1 .. n
  BY CarriedRange
<1>4. Q \subseteq Carried(s, p, q)
  BY DEF Carried
<1> HIDE DEF Q
<1>5. IsFiniteSet(Carried(s, p, q)) /\ IsFiniteSet(Q) /\ Cardinality(Q) <= Cardinality(Carried(s, p, q))
  BY <1>2, <1>3, <1>4, FS_Subset
<1>6. \A i, j \in 1 .. Len(q) : i # j => q[i].seq # q[j].seq
  <2> SUFFICES ASSUME NEW i \in 1 .. Len(q), NEW j \in 1 .. Len(q), i # j, q[i].seq = q[j].seq
               PROVE FALSE
    OBVIOUS
  <2>1. q[i].seq \in Int
    <3>1. q[i] \in Event
      BY ElementOfSeq
    <3> QED BY <3>1 DEF Event
  <2>2. i < j \/ j < i
    OBVIOUS
  <2>3. q[i].seq < q[j].seq \/ q[j].seq < q[i].seq
    BY <1>1, <2>2 DEF Ord, Increasing
  <2> QED BY <2>1, <2>3
<1>7. f \in Bijection(1 .. Len(q), Q)
  BY <1>1, <1>6 DEF Q, Waiting, Bijection, Injection, Surjection, IsInjective
<1>8. Cardinality(1 .. Len(q)) = Len(q) /\ IsFiniteSet(1 .. Len(q))
  <2>1. PICK l \in Nat : l = Len(q)
    BY <1>1
  <2>2. Cardinality(1 .. l) = (IF 1 > l THEN 0 ELSE l - 1 + 1) /\ IsFiniteSet(1 .. l)
    BY FS_Interval
  <2> QED BY <2>1, <2>2
<1>9. Cardinality(Q) = Len(q)
  <2>1. ExistsBijection(1 .. Len(q), Q)
    BY <1>7 DEF ExistsBijection
  <2> QED BY <1>8, <2>1, FS_Bijection
<1>10. Cardinality(Carried(s, p, q)) \in Nat
  BY <1>5, FS_CardinalityType
<1> QED BY <1>1, <1>5, <1>9, <1>10

OnItsWay(c) == Carried(Sent(c), out[c].pump, queue[c])

\* Every event up to the n-th that C lacks comes before all of C, or after as many
\* events of C as a subscription holds.
SlowOnly(C, n) ==
    \A m \in 1 .. n \ C :
        LET before == {k \in C : k < m} IN before # {} => Cardinality(before) >= SubChanCap

Accounted(c) ==
    /\ c \in subs => filter[c] = Tables
    /\ Early(c) => OnItsWay(c) = {}
    /\ c \in subs /\ ~Broken(c) => SlowOnly(OnItsWay(c), total)

AccountInv == \A c \in Conns : Accounted(c)

LEMMA EarlyStays ==
    ASSUME BaseInv, NEW c \in Conns, ConnAction(c), Early(c)'
    PROVE  Early(c)
<1> USE DEF At
<1>0. TypeOK /\ Hand(c) /\ "handler" \in Threads /\ "pump" \in Threads /\ "ticker" \in Threads
  BY DEF BaseInv, HandInv, Threads
<1>1. ASSUME pc'[c]["handler"] = pc[c]["handler"], out'[c].handler = out[c].handler PROVE Early(c)
  BY <1>1 DEF Early, Sending
<1>2. ASSUME NEW where \in {"loop", "decode", "exit", "stop", "uncount", "close", "gone"},
             Goto(c, "handler", where)
      PROVE  FALSE
  <2>1. where \in HandlerPc
    BY DEF HandlerPc
  <2>2. pc'[c]["handler"] = where
    BY <1>0, <1>2, <2>1, GotoType
  <2> QED BY <2>2 DEF Early, Sending
<1>3. ASSUME NEW t \in {"pump", "ticker"}, NEW where \in WorkerPc, Goto(c, t, where),
             out'[c].handler = out[c].handler
      PROVE  Early(c)
  <2>1. t \in Threads /\ t # "handler"
    BY DEF Threads
  <2>2. pc'[c]["handler"] = pc[c]["handler"]
    BY <1>0, <1>3, <2>1, GotoType
  <2> QED BY <1>1, <1>3, <2>2
<1>4. {"lock", "write", "wait", "done"} \subseteq WorkerPc
  BY DEF WorkerPc
<1>5. CASE Accept(c) \/ ReadSnapshot(c) \/ Subscribe(c)
  BY <1>5 DEF Accept, ReadSnapshot, Subscribe, Early
<1>6. CASE Decode(c)
  <2>1. PICK m \in {StatsMsg, Pong} : BeginSend(c, "handler", m)
    BY <1>6 DEF Decode
  <2>2. m \in Message /\ m.type \notin {"hello", "snapshot"} /\ "lock" \in HandlerPc
    BY MessageTypes DEF StatsMsg, Pong, HandlerPc
  <2>3. out'[c].handler = m /\ Goto(c, "handler", "lock")
    BY <1>0, <2>1, <2>2, BeginSendType
  <2>4. pc'[c]["handler"] = "lock"
    BY <1>0, <2>2, <2>3, GotoType
  <2> QED BY <2>2, <2>3, <2>4 DEF Early, Sending
<1>7. CASE LoopTop(c) \/ DecodeEnds(c) \/ IdleTimeout(c)
  BY <1>2, <1>7 DEF LoopTop, DecodeEnds, IdleTimeout
<1>8. CASE DeferUnsubscribe(c) \/ DeferStop(c) \/ DeferUncount(c) \/ DeferClose(c)
  BY <1>2, <1>8 DEF DeferUnsubscribe, DeferStop, DeferUncount, DeferClose
<1>9. CASE Lock(c, "handler") \/ WriteDone(c, "handler") \/ WriteFails(c, "handler")
  <2>1. Sending(c, "handler") /\ out[c].handler.type \in {"hello", "snapshot", "stats", "pong"}
    BY <1>0, <1>9 DEF Lock, WriteDone, WriteFails, Sending, Hand
  <2>2. CASE out[c].handler.type \in {"hello", "snapshot"}
    BY <2>1, <2>2 DEF Early
  <2>3. CASE out[c].handler.type \in {"stats", "pong"}
    <3>1. CASE Lock(c, "handler")
      <4>1. Goto(c, "handler", "write") /\ out' = out /\ "write" \in HandlerPc
        BY <3>1 DEF Lock, HandlerPc
      <4>2. pc'[c]["handler"] = "write"
        BY <1>0, <4>1, GotoType
      <4> QED BY <2>3, <4>1, <4>2 DEF Early, Sending
    <3>2. CASE WriteDone(c, "handler")
      <4>1. Goto(c, "handler", "loop")
        BY <2>3, <3>2 DEF WriteDone, Then
      <4> QED BY <1>2, <4>1
    <3>3. CASE WriteFails(c, "handler")
      BY <1>2, <3>3 DEF WriteFails
    <3> QED BY <1>9, <3>1, <3>2, <3>3
  <2> QED BY <2>1, <2>2, <2>3
<1>10. ASSUME NEW t \in {"pump", "ticker"}, Worker(c, t) PROVE Early(c)
  <2>1. out' = out \/ out' = [out EXCEPT ![c][t] = Nothing]
    BY <1>10 DEF Worker, Lock, WriteDone, WriteFails, WorkerStops
  <2>2. out'[c].handler = out[c].handler
    BY <1>0, <2>1, OutType, MessageTypes DEF Threads
  <2>3. \E where \in {"write", "wait", "done"} : Goto(c, t, where)
    BY <1>10 DEF Worker, Lock, WriteDone, WriteFails, WorkerStops
  <2> QED BY <1>3, <1>4, <2>2, <2>3
<1>11. CASE PumpTake(c)
  <2>1. EventMsg(Head(queue[c])) \in Message
    BY <1>0, <1>11, MessageTypes DEF TypeOK, PumpTake
  <2>2. Goto(c, "pump", "lock") /\ out'[c].handler = out[c].handler
    BY <1>0, <1>11, <2>1, BeginSendType DEF PumpTake
  <2> QED BY <1>3, <1>4, <2>2
<1>12. CASE Tick(c)
  <2>1. Goto(c, "ticker", "lock") /\ out'[c].handler = out[c].handler
    BY <1>0, <1>12, BeginSendType, MessageTypes DEF Tick
  <2> QED BY <1>3, <1>4, <2>1
<1>13. CASE ClientRead(c) \/ ClientHangup(c) \/ \E what \in {"ping", "subscribe"} : ClientAsk(c, what)
  BY <1>1, <1>13 DEF ClientRead, ClientHangup, ClientAsk, connVars
<1> QED BY <1>5, <1>6, <1>7, <1>8, <1>9, <1>10, <1>11, <1>12, <1>13 DEF ConnAction, Handler

\* Only a connection that is broken loses what was on its way.
LEMMA OnItsWayStays ==
    ASSUME BaseInv, BaseInv', NEW c \in Conns, ConnAction(c)
    PROVE  OnItsWay(c)' = OnItsWay(c) \/ (Broken(c) /\ OnItsWay(c)' \subseteq OnItsWay(c))
<1> USE DEF At, storeVars, envVars
<1>0. TypeOK /\ Hand(c) /\ "handler" \in Threads /\ "pump" \in Threads /\ "ticker" \in Threads
  BY DEF BaseInv, HandInv, Threads
<1>1. ASSUME out'[c].pump = out[c].pump, Sent(c)' = Sent(c), queue'[c] = queue[c]
      PROVE  OnItsWay(c)' = OnItsWay(c)
  BY <1>1 DEF OnItsWay
<1>2. ASSUME NEW t \in {"handler", "ticker"}, NEW m \in Message, BeginSend(c, t, m),
             Sent(c)' = Sent(c), queue' = queue
      PROVE  OnItsWay(c)' = OnItsWay(c)
  <2>1. out'[c].pump = out[c].pump
    BY <1>0, <1>2, BeginSendType
  <2> QED BY <1>1, <1>2, <2>1
<1>3. CASE Accept(c) \/ ReadSnapshot(c) \/ Decode(c) \/ Tick(c)
  <2>1. Sent(c)' = Sent(c) /\ queue' = queue
    BY <1>3 DEF Accept, ReadSnapshot, Decode, Tick, Sent
  <2>2. \E t \in {"handler", "ticker"}, m \in {Hello, Snapshot(window), StatsMsg, Pong} : BeginSend(c, t, m)
    BY <1>3 DEF Accept, ReadSnapshot, Decode, Tick
  <2>3. {Hello, Snapshot(window), StatsMsg, Pong} \subseteq Message
    BY <1>0, MessageTypes DEF TypeOK
  <2> QED BY <1>2, <2>1, <2>2, <2>3
<1>4. CASE LoopTop(c) \/ DecodeEnds(c) \/ IdleTimeout(c)
           \/ DeferUnsubscribe(c) \/ DeferStop(c) \/ DeferUncount(c) \/ DeferClose(c)
  BY <1>1, <1>4 DEF LoopTop, DecodeEnds, IdleTimeout, DeferUnsubscribe, Store!Leave, DeferStop,
                    DeferUncount, DeferClose, Sent
<1>5. CASE Subscribe(c)
  BY <1>1, <1>5 DEF Subscribe, Store!Join, Sent
<1>6. ASSUME NEW t \in Threads, Lock(c, t) \/ WorkerStops(c, t) PROVE OnItsWay(c)' = OnItsWay(c)
  BY <1>1, <1>6 DEF Lock, WorkerStops, Sent
<1>7. ASSUME NEW t \in Threads, WriteFails(c, t)
      PROVE  OnItsWay(c)' = OnItsWay(c) \/ (Broken(c) /\ OnItsWay(c)' \subseteq OnItsWay(c))
  <2>1. /\ out' = [out EXCEPT ![c][t] = Nothing] /\ queue' = queue /\ Sent(c)' = Sent(c) /\ Broken(c)
    BY <1>7 DEF WriteFails, Sent
  <2>2. out'[c].pump = out[c].pump \/ out'[c].pump = Nothing
    BY <1>0, <2>1, OutType, MessageTypes
  <2>3. Held(Nothing) = {}
    BY DEF Held, Nothing
  <2> QED BY <2>1, <2>2, <2>3 DEF OnItsWay, Carried
<1>8. ASSUME NEW t \in Threads, WriteDone(c, t) PROVE OnItsWay(c)' = OnItsWay(c)
  <2>1. PICK s \in Seq(Message), p \in Message, m \in Message :
          s = Sent(c) /\ p = out[c].pump /\ m = out[c][t]
    <3>1. out[c][t] \in Message
      BY <1>0 DEF TypeOK
    <3> QED BY <1>0, <3>1, SentType
  <2>2. Sent(c)' = Append(s, m) /\ out' = [out EXCEPT ![c][t] = Nothing] /\ queue' = queue /\ Sending(c, t)
    BY <1>0, <1>8, <2>1, SentGrows DEF WriteDone, Sending
  <2>3. out'[c][t] = Nothing /\ \A u \in Threads : u # t => out'[c][u] = out[c][u]
    BY <1>0, <2>2, OutType, MessageTypes
  <2>4. CASE t = "pump"
    <3>1. m = p /\ m.type = "event" /\ out'[c].pump = Nothing
      BY <1>0, <2>1, <2>2, <2>3, <2>4 DEF Hand
    <3> QED BY <2>1, <2>2, <3>1, CarriedAppend DEF OnItsWay
  <2>5. CASE t # "pump"
    <3>1. m.type # "event" /\ out'[c].pump = p
      BY <1>0, <2>1, <2>2, <2>3, <2>5 DEF Hand, Threads
    <3> QED BY <2>1, <2>2, <3>1, CarriedAppend DEF OnItsWay
  <2> QED BY <2>4, <2>5
<1>9. CASE PumpTake(c)
  <2>1. PICK q \in Seq(Event) : q = queue[c] /\ q # <<>>
    BY <1>0, <1>9, SentType DEF PumpTake
  <2>2. EventMsg(Head(q)) \in Message
    BY <1>0, <1>9, <2>1, MessageTypes DEF TypeOK
  <2>3. BeginSend(c, "pump", EventMsg(Head(q))) /\ pc[c]["pump"] = "wait"
        /\ Sent(c)' = Sent(c) /\ queue'[c] = Tail(q)
    BY <1>0, <1>9, <2>1 DEF PumpTake, Store!Take, Sent, TypeOK
  <2>4. out'[c].pump = EventMsg(Head(q)) /\ out[c].pump = Nothing
    BY <1>0, <2>2, <2>3, BeginSendType DEF Hand, Sending
  <2> QED BY <2>1, <2>3, <2>4, CarriedTake DEF OnItsWay
<1>10. CASE ClientRead(c)
  <2>1. out' = out /\ queue' = queue
    BY <1>10 DEF ClientRead, connVars
  <2>2. CASE Sent(c)' # Sent(c)
    <3>1. PICK k \in 3 .. Len(Sent(c)) :
            Sent(c)[k].type \in {"stats", "pong"} /\ Without(Sent(c), k, Sent(c)')
      BY <1>0, <1>10, <2>2, SentShrinks
    <3>2. PICK s \in Seq(Message) : s = Sent(c)
      BY <1>0, SentType
    <3>3. Sent(c)' \in Seq(Message)
      BY ConcatProperties DEF BaseInv, TypeOK, Sent
    <3>4. k \in 1 .. Len(s) /\ s[k].type # "event" /\ Without(s, k, Sent(c)')
      BY <3>1, <3>2
    <3> QED BY <2>1, <3>2, <3>3, <3>4, CarriedWithout DEF OnItsWay
  <2> QED BY <1>1, <2>1, <2>2
<1>11. CASE ClientHangup(c) \/ \E what \in {"ping", "subscribe"} : ClientAsk(c, what)
  BY <1>1, <1>11 DEF ClientHangup, ClientAsk, connVars, Sent
<1> QED BY <1>0, <1>3, <1>4, <1>5, <1>6, <1>7, <1>8, <1>9, <1>10, <1>11
        DEF ConnAction, Handler, Worker

LEMMA SubscriptionsOf ==
    ASSUME TypeOK, NEW c \in Conns, ConnAction(c)
    PROVE  /\ hungup \subseteq hungup' /\ shut \subseteq shut'
           /\ \/ subs' \subseteq subs /\ filter' = filter
              \/ Early(c) /\ subs' = subs \cup {c} /\ filter' = [filter EXCEPT ![c] = Tables]
BY DEF ConnAction, Handler, Worker, Accept, Lock, WriteDone, WriteFails, ReadSnapshot, Subscribe,
       Store!Join, LoopTop, Decode, DecodeEnds, IdleTimeout, DeferUnsubscribe, Store!Leave,
       DeferStop, DeferUncount, DeferClose, PumpTake, Store!Take, Tick, WorkerStops, ClientRead,
       ClientHangup, ClientAsk, storeVars, envVars, connVars, Early, At

LEMMA AccountedOwn ==
    ASSUME BaseInv, BaseInv', NEW c \in Conns, Accounted(c), ConnAction(c)
    PROVE  Accounted(c)'
<1>1. TypeOK
  BY DEF BaseInv
<1>2. total' = total
  BY OnlyPushesCount
<1>3. OnItsWay(c)' = OnItsWay(c) \/ (Broken(c) /\ OnItsWay(c)' \subseteq OnItsWay(c))
  BY OnItsWayStays
<1>4. Broken(c) => Broken(c)'
  BY <1>1, SubscriptionsOf DEF Broken
<1>5. Early(c)' => OnItsWay(c)' = {}
  BY <1>3, EarlyStays DEF Accounted
<1>6. CASE subs' \subseteq subs /\ filter' = filter
  BY <1>2, <1>3, <1>4, <1>5, <1>6 DEF Accounted
<1>7. CASE Early(c) /\ subs' = subs \cup {c} /\ filter' = [filter EXCEPT ![c] = Tables]
  <2>1. filter'[c] = Tables
    BY <1>1, <1>7 DEF TypeOK
  <2>2. OnItsWay(c)' = {}
    BY <1>3, <1>7 DEF Accounted
  <2>3. SlowOnly({}, total)
    BY DEF SlowOnly
  <2> QED BY <1>2, <2>1, <2>2, <2>3 DEF Accounted
<1> QED BY <1>1, <1>6, <1>7, SubscriptionsOf

\* A push: the event is on its way, or the subscription was full.
LEMMA AccountedPush ==
    ASSUME StreamInv, NEW c \in Conns, Accounted(c), Push
    PROVE  Accounted(c)'
<1>1. /\ TypeOK /\ Pushed \in Event /\ Pushed.seq = total + 1 /\ Pushed.table \in Tables
      /\ total' = total + 1 /\ total \in Nat
      /\ Store!Put(Pushed)
      /\ UNCHANGED <<subs, closed, filter, up, connVars, envVars, toClient, view>>
  <2>1. TypeOK
    BY DEF StreamInv, BaseInv
  <2>2. Pushed.seq = total + 1 /\ Pushed.table \in Tables /\ Store!Put(Pushed)
    BY DEF Pushed, Push, Tables
  <2>3. total \in Nat
    BY <2>1, IpcServerAssumption DEF TypeOK
  <2> QED BY <2>1, <2>2, <2>3, PushTypes
<1> HIDE DEF Pushed
<1>2. Sent(c)' = Sent(c) /\ out' = out /\ pc' = pc /\ (Broken(c)' <=> Broken(c))
  BY <1>1 DEF Sent, connVars, envVars, Broken
<1>3. PICK s \in Seq(Message), p \in Message, q \in Seq(Event) :
        s = Sent(c) /\ p = out[c].pump /\ q = queue[c]
  BY <1>1, SentType
<1>4. Ord(s, p, q, total)
  BY <1>3 DEF StreamInv, OrderInv, Ordered
<1>5. PICK C : C = Carried(s, p, q)
  OBVIOUS
<1>6. OnItsWay(c) = C /\ C \subseteq 1 .. total
  BY <1>1, <1>3, <1>4, <1>5, CarriedRange DEF OnItsWay
<1>7. IF c \in subs /\ Pushed.table \in filter[c] /\ Len(q) < SubChanCap
      THEN queue'[c] = Append(q, Pushed) ELSE queue'[c] = q
  <2>1. queue' = [d \in Conns |-> IF d \in subs /\ Pushed.table \in filter[d] /\ Len(queue[d]) < SubChanCap
                                 THEN Append(queue[d], Pushed) ELSE queue[d]]
    BY <1>1 DEF Store!Put
  <2> QED BY <1>3, <2>1
<1>8. ASSUME c \notin subs PROVE Accounted(c)'
  <2>1. OnItsWay(c)' = OnItsWay(c)
    BY <1>2, <1>3, <1>7, <1>8 DEF OnItsWay
  <2>2. Early(c)' => Early(c)
    BY <1>2 DEF Early, Sending
  <2> QED BY <1>1, <1>8, <2>1, <2>2 DEF Accounted
<1>9. ASSUME c \in subs PROVE Accounted(c)'
  <2>1. filter'[c] = Tables /\ Pushed.table \in filter[c]
    BY <1>1, <1>9 DEF Accounted
  <2>2. ~Early(c)'
    <3>1. pc[c].pump # "off" /\ Hand(c)
      BY <1>9 DEF StreamInv, BaseInv, HandInv, Hand
    <3>2. ~Early(c)
      BY <3>1 DEF Hand
    <3> QED BY <1>2, <3>2 DEF Early, Sending
  <2>3. ASSUME ~Broken(c) PROVE SlowOnly(OnItsWay(c)', total + 1)
    <3>1. SlowOnly(C, total)
      BY <1>6, <1>9, <2>3 DEF Accounted
    <3>2. CASE Len(q) < SubChanCap
      <4>1. OnItsWay(c)' = C \cup {total + 1}
        <5>1. OnItsWay(c)' = Carried(s, p, Append(q, Pushed))
          BY <1>2, <1>3, <1>7, <1>9, <2>1, <3>2 DEF OnItsWay
        <5>2. Carried(s, p, Append(q, Pushed)) = C \cup {Pushed.seq}
          BY <1>1, <1>5, CarriedPush
        <5> QED BY <1>1, <5>1, <5>2
      <4>2. SlowOnly(C \cup {total + 1}, total + 1)
        <5> SUFFICES ASSUME NEW m \in 1 .. total + 1 \ (C \cup {total + 1}),
                            {k \in C \cup {total + 1} : k < m} # {}
                     PROVE  Cardinality({k \in C \cup {total + 1} : k < m}) >= SubChanCap
          BY DEF SlowOnly
        <5>1. m \in 1 .. total \ C
          BY <1>1
        <5>2. {k \in C \cup {total + 1} : k < m} = {k \in C : k < m}
          BY <1>1, <5>1
        <5> QED BY <3>1, <5>1, <5>2 DEF SlowOnly
      <4> QED BY <4>1, <4>2
    <3>3. CASE ~(Len(q) < SubChanCap)
      <4>1. OnItsWay(c)' = C
        BY <1>2, <1>3, <1>5, <1>7, <3>3 DEF OnItsWay
      <4>2. Cardinality(C) >= SubChanCap
        <5>1. Cardinality(C) >= Len(q)
          BY <1>1, <1>4, <1>5, CarriedFull
        <5>2. PICK l \in Nat : l = Len(q)
          BY LenProperties
        <5>3. IsFiniteSet(C)
          <6>1. IsFiniteSet(1 .. total)
            BY <1>1, FS_Interval
          <6> QED BY <1>6, <6>1, FS_Subset
        <5>4. PICK k \in Nat : k = Cardinality(C)
          BY <5>3, FS_CardinalityType
        <5> QED BY <3>3, <5>1, <5>2, <5>4, IpcServerAssumption
      <4>3. SlowOnly(C, total + 1)
        <5> SUFFICES ASSUME NEW m \in 1 .. total + 1 \ C, {k \in C : k < m} # {}
                     PROVE  Cardinality({k \in C : k < m}) >= SubChanCap
          BY DEF SlowOnly
        <5>1. CASE m \in 1 .. total
          BY <3>1, <5>1 DEF SlowOnly
        <5>2. CASE m = total + 1
          <6>1. \A k \in C : k < m
            BY <1>1, <1>6, <5>2
          <6>2. {k \in C : k < m} = C
            BY <6>1
          <6> QED BY <4>2, <6>2
        <5>3. m \in 1 .. total \/ m = total + 1
          BY <1>1
        <5> QED BY <5>1, <5>2, <5>3
      <4> QED BY <4>1, <4>3
    <3> QED BY <3>2, <3>3
  <2> QED BY <1>1, <1>2, <2>1, <2>2, <2>3 DEF Accounted
<1> QED BY <1>8, <1>9

LEMMA AccountStep == StreamInv /\ StreamInv' /\ AccountInv /\ [Next]_vars => AccountInv'
<1> SUFFICES ASSUME StreamInv, StreamInv', AccountInv, [Next]_vars, NEW d \in Conns PROVE Accounted(d)'
  BY DEF AccountInv
<1>1. BaseInv /\ BaseInv' /\ TypeOK /\ Accounted(d)
  BY DEF StreamInv, BaseInv, AccountInv
<1>2. ASSUME Same(d), total' = total, filter'[d] = filter[d] PROVE Accounted(d)'
  <2>1. OnItsWay(d)' = OnItsWay(d) /\ (Broken(d)' <=> Broken(d)) /\ (Early(d)' <=> Early(d))
    BY <1>2 DEF Same, OnItsWay, Sent, Broken, Early, Sending
  <2> QED BY <1>1, <1>2, <2>1 DEF Accounted, Same
<1>3. CASE Push
  BY <1>1, <1>3, AccountedPush
<1>4. CASE Still
  BY <1>2, <1>4 DEF Still, Same, storeVars, connVars, envVars
<1>5. ASSUME NEW c \in Conns, ConnAction(c) PROVE Accounted(d)'
  <2>1. CASE d = c
    BY <1>1, <1>5, <2>1, AccountedOwn
  <2>2. CASE d # c
    <3>1. Same(d) /\ total' = total
      BY <1>1, <1>5, <2>2, OthersAreLeftAlone
    <3>2. filter'[d] = filter[d]
      BY <1>1, <1>5, <2>2, SubscriptionsOf DEF TypeOK
    <3> QED BY <1>2, <3>1, <3>2
  <2> QED BY <2>1, <2>2
<1> QED BY <1>3, <1>4, <1>5, StepCases

LEMMA AccountInit == Init => AccountInv
<1> SUFFICES ASSUME Init, NEW c \in Conns PROVE Accounted(c)
  BY DEF AccountInv
<1>0. <<>> \in Seq(Message) /\ <<>> \in Seq(Event) /\ Len(<<>>) = 0 /\ DOMAIN <<>> = {}
  BY EmptySeq, LenProperties
<1>1. /\ view[c] = <<>> /\ toClient[c] = <<>> /\ subs = {}
      /\ out[c].pump = Nothing /\ queue[c] = <<>>
  BY DEF Init, Store!Init, Threads
<1>2. Sent(c) = <<>>
  BY <1>0, <1>1, ConcatEmptySeq DEF Sent
<1>3. OnItsWay(c) = {}
  BY <1>0, <1>1, <1>2 DEF OnItsWay, Carried, Past, Held, Waiting, Nothing
<1> QED BY <1>1, <1>3 DEF Accounted

LEMMA StreamedIsOnItsWay ==
    ASSUME TypeOK, NEW c \in Conns
    PROVE  Streamed(c) = OnItsWay(c)
<1>1. PICK s \in Seq(Message), p \in Message, q \in Seq(Event) :
        s = Sent(c) /\ p = out[c].pump /\ q = queue[c]
  BY SentType
<1>2. PICK z : z = Line(c)
  OBVIOUS
<1>3. /\ DOMAIN z = 1 .. Len(s) + 1 + Len(q)
      /\ \A i \in 1 .. Len(s) : z[i] = s[i]
      /\ z[Len(s) + 1] = p
      /\ \A k \in 1 .. Len(q) : z[Len(s) + 1 + k] = EventMsg(q[k])
  <2>1. Line(c) = s \o <<p>> \o [k \in DOMAIN q |-> EventMsg(q[k])]
    BY <1>1 DEF Line
  <2> QED BY <1>2, <2>1, LineOf
<1>4. Len(s) \in Nat /\ Len(q) \in Nat /\ DOMAIN q = 1 .. Len(q) /\ DOMAIN s = 1 .. Len(s)
  BY LenProperties
<1>5. \A k \in DOMAIN q : Numbers(EventMsg(q[k])) = {q[k].seq} /\ EventMsg(q[k]).type = "event"
  BY NumbersOf DEF EventMsg
<1>6. ASSUME NEW i \in DOMAIN z
      PROVE  \/ i \in DOMAIN s /\ z[i] = s[i]
             \/ z[i] = p
             \/ \E k \in DOMAIN q : z[i] = EventMsg(q[k])
  <2>1. CASE i > Len(s) + 1
    <3>1. i \in 1 .. Len(s) + 1 + Len(q)
      BY <1>3
    <3>2. i - (Len(s) + 1) \in 1 .. Len(q) /\ i = Len(s) + 1 + (i - (Len(s) + 1))
      BY <1>4, <2>1, <3>1
    <3> QED BY <1>3, <1>4, <3>2
  <2> QED BY <1>3, <1>4, <2>1
<1>7. /\ \A i \in DOMAIN s : i \in DOMAIN z /\ z[i] = s[i]
      /\ \E i \in DOMAIN z : z[i] = p
      /\ \A k \in DOMAIN q : \E i \in DOMAIN z : z[i] = EventMsg(q[k])
  <2>1. Len(s) + 1 \in DOMAIN z /\ \A k \in DOMAIN q : Len(s) + 1 + k \in DOMAIN z
    BY <1>3, <1>4
  <2>2. \A i \in DOMAIN s : i \in DOMAIN z
    BY <1>3, <1>4
  <2> QED BY <1>3, <1>4, <2>1, <2>2
<1>8. Past(z) \subseteq Carried(s, p, q)
  <2> SUFFICES ASSUME NEW i \in DOMAIN z, z[i].type = "event", NEW a \in Numbers(z[i])
               PROVE  a \in Carried(s, p, q)
    BY DEF Past
  <2>1. CASE i \in DOMAIN s /\ z[i] = s[i]
    BY <2>1 DEF Carried, Past
  <2>2. CASE z[i] = p
    BY <2>2 DEF Carried, Held
  <2>3. ASSUME NEW k \in DOMAIN q, z[i] = EventMsg(q[k]) PROVE a \in Carried(s, p, q)
    BY <1>5, <2>3 DEF Carried, Waiting
  <2> QED BY <1>6, <2>1, <2>2, <2>3
<1>9. Past(s) \subseteq Past(z)
  BY <1>7 DEF Past
<1>10. Held(p) \subseteq Past(z)
  BY <1>7 DEF Past, Held
<1>11. Waiting(q) \subseteq Past(z)
  BY <1>5, <1>7 DEF Past, Waiting
<1>12. Streamed(c) = Past(z)
  BY <1>2 DEF Streamed, Past
<1> QED BY <1>1, <1>8, <1>9, <1>10, <1>11, <1>12 DEF OnItsWay, Carried

\* A client whose connection holds misses an event only when SubChanCap events waited
\* for it already: neither the pump, which takes an event out of the subscription before
\* it has the connection to itself, nor the three writers of one socket lose one
\* (server.go:98-139, store.go:73-80).
THEOREM LossMeansSlow == Spec => []LostOnlyWhenSlow
<1>1. StreamInv /\ AccountInv => LostOnlyWhenSlow
  <2> SUFFICES ASSUME StreamInv, AccountInv, NEW c \in subs, ~Broken(c),
                      NEW m \in 1 .. total \ Streamed(c), {n \in Streamed(c) : n < m} # {}
               PROVE  Cardinality({n \in Streamed(c) : n < m}) >= SubChanCap
    BY DEF LostOnlyWhenSlow
  <2>1. TypeOK /\ c \in Conns
    BY DEF StreamInv, BaseInv, TypeOK
  <2>2. Streamed(c) = OnItsWay(c)
    BY <2>1, StreamedIsOnItsWay
  <2>3. SlowOnly(Streamed(c), total)
    BY <2>1, <2>2 DEF AccountInv, Accounted
  <2> QED BY <2>3 DEF SlowOnly
<1>2. Spec => []AccountInv
  <2>1. StreamInv /\ StreamInv' /\ AccountInv /\ [Next]_vars => AccountInv'
    BY AccountStep
  <2> QED BY <2>1, AccountInit, StreamCorrect, PTL DEF Spec
<1> QED BY <1>1, <1>2, StreamCorrect, PTL
=============================================================================
