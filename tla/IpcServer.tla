------------------------------ MODULE IpcServer ------------------------------
(***************************************************************************)
(* internal/ipc/server.go: the daemon's side of every attached client.     *)
(*                                                                         *)
(* One connection has three goroutines, the handler (handleConn itself),   *)
(* the pump and the stats ticker, which share the connection under writeMu *)
(* and learn of each other's end through stopPump.  The store is the one   *)
(* EventStore implements, at its abstract level (EventWindow).  The socket *)
(* is a pair of bounded FIFOs; the clients and the pushes into the store   *)
(* are the environment.                                                    *)
(***************************************************************************)
EXTENDS Integers, Sequences, FiniteSets

CONSTANTS
    Capacity,       \* ring capacity of the store
    SubChanCap,     \* events a subscription buffers
    SockCap,        \* envelopes the socket buffers towards a client
    Conns,          \* the connections (each also names its subscription)
    MaxPush,        \* bound: events pushed
    MaxAsk,         \* bound: envelopes a client sends
    MaxTick         \* bound: ticks of a connection's stats ticker

ASSUME IpcServerAssumption ==
    /\ Capacity \in Nat \ {0} /\ SubChanCap \in Nat \ {0} /\ SockCap \in Nat \ {0}
    /\ IsFiniteSet(Conns)
    /\ MaxPush \in Nat /\ MaxAsk \in Nat /\ MaxTick \in Nat

VARIABLES
    window, subs, closed, filter, queue,    \* the store (EventWindow)
    total,          \* events pushed so far
    up,             \* the server's ctx is not done: the listener accepts
    pc,             \* where each goroutine of a connection is
    out,            \* the envelope each goroutine is sending
    writeMu,        \* who holds the connection's writeMu
    stopPump,       \* the connections whose stopPump is closed
    clients,        \* Server.clients
    shut,           \* the connections the server closed
    hungup,         \* the connections the client closed
    toClient,       \* envelopes on their way to the client
    toServer,       \* envelopes on their way to the server
    asked,          \* how many envelopes each client has sent
    ticked,         \* how often each stats ticker has fired
    view            \* history: the handshake and the events the client has read

storeVars == <<window, subs, closed, filter, queue, total>>
connVars  == <<pc, out, writeMu, stopPump, clients, shut>>
envVars   == <<hungup, toServer, asked, ticked>>
vars      == <<storeVars, up, connVars, envVars, toClient, view>>

Tables  == {"any"}
Event   == [seq : 1 .. MaxPush, table : Tables]
Store   == INSTANCE EventWindow WITH Events <- Event, Chans <- Conns

Threads == {"handler", "pump", "ticker"}

Hello       == [type |-> "hello"]
Snapshot(w) == [type |-> "snapshot", events |-> w]
EventMsg(e) == [type |-> "event", event |-> e]
StatsMsg    == [type |-> "stats"]
Pong        == [type |-> "pong"]
Nothing     == [type |-> "nothing"]

HandlerPc == {"none", "lock", "write", "snap", "sub", "loop", "decode",
              "exit", "stop", "uncount", "close", "gone"}
WorkerPc  == {"off", "wait", "lock", "write", "done"}

Message ==   {Hello, StatsMsg, Pong, Nothing}
        \cup {Snapshot(w) : w \in UNION {[1 .. n -> Event] : n \in 0 .. Capacity}}
        \cup {EventMsg(e) : e \in Event}

TypeOK ==
    /\ window \in Seq(Event) /\ Len(window) <= Capacity
    /\ subs \subseteq Conns /\ closed \subseteq Conns
    /\ filter \in [Conns -> SUBSET Tables] /\ queue \in [Conns -> Seq(Event)]
    /\ total \in 0 .. MaxPush
    /\ up \in BOOLEAN
    /\ pc \in [Conns -> [handler : HandlerPc, pump : WorkerPc, ticker : WorkerPc]]
    /\ out \in [Conns -> [Threads -> Message]]
    /\ writeMu \in [Conns -> Threads \cup {"free"}]
    /\ stopPump \subseteq Conns /\ shut \subseteq Conns /\ hungup \subseteq Conns
    /\ clients \in 0 .. Cardinality(Conns)
    /\ toClient \in [Conns -> Seq(Message)] /\ view \in [Conns -> Seq(Message)]
    /\ \A c \in Conns : Len(queue[c]) <= SubChanCap /\ Len(toClient[c]) <= SockCap
    /\ toServer \in [Conns -> Seq({"ping", "subscribe"})]
    /\ asked \in [Conns -> 0 .. MaxAsk] /\ ticked \in [Conns -> 0 .. MaxTick]
------------------------------------------------------------------------------
Init ==
    /\ Store!Init
    /\ total = 0
    /\ up = TRUE
    /\ pc = [c \in Conns |-> [handler |-> "none", pump |-> "off", ticker |-> "off"]]
    /\ out = [c \in Conns |-> [t \in Threads |-> Nothing]]
    /\ writeMu = [c \in Conns |-> "free"]
    /\ stopPump = {}
    /\ clients = 0
    /\ shut = {}
    /\ hungup = {}
    /\ toClient = [c \in Conns |-> <<>>]
    /\ toServer = [c \in Conns |-> <<>>]
    /\ asked = [c \in Conns |-> 0]
    /\ ticked = [c \in Conns |-> 0]
    /\ view = [c \in Conns |-> <<>>]

At(c, t, where) == pc[c][t] = where
Goto(c, t, where) == pc' = [pc EXCEPT ![c][t] = where]
BeginSend(c, t, m) == /\ Goto(c, t, "lock")
                      /\ out' = [out EXCEPT ![c][t] = m]
------------------------------------------------------------------------------
(* send: take writeMu, encode and flush, release it. *)

Lock(c, t) ==
    /\ At(c, t, "lock")
    /\ writeMu[c] = "free"
    /\ writeMu' = [writeMu EXCEPT ![c] = t]
    /\ Goto(c, t, "write")
    /\ UNCHANGED <<storeVars, up, out, stopPump, clients, shut, envVars, toClient, view>>

\* mutant: the subscription is made, and the pump started, before the snapshot
Then_SubscribeFirst ==
    [hello |-> "sub", subscribed |-> "snap", snapshot |-> "loop", stats |-> "loop", pong |-> "loop"]
\* The handler's program order: what it does once an envelope is on the wire.
Then ==
    [hello |-> "snap", snapshot |-> "sub", subscribed |-> "loop", stats |-> "loop", pong |-> "loop"]

Broken(c) == c \in hungup \cup shut

\* The write is made as soon as the socket has room: there is no write deadline.
WriteDone(c, t) ==
    /\ At(c, t, "write")
    /\ ~Broken(c)
    /\ Len(toClient[c]) < SockCap
    /\ toClient' = [toClient EXCEPT ![c] = Append(@, out[c][t])]
    /\ writeMu' = [writeMu EXCEPT ![c] = "free"]
    /\ Goto(c, t, IF t = "handler" THEN Then[out[c][t].type] ELSE "wait")
    /\ out' = [out EXCEPT ![c][t] = Nothing]
    /\ UNCHANGED <<storeVars, up, stopPump, clients, shut, envVars, view>>

\* The handler returns through the defers it has registered so far; a worker
\* calls stop() and ends.
WriteFails(c, t) ==
    /\ At(c, t, "write")
    /\ Broken(c)
    /\ writeMu' = [writeMu EXCEPT ![c] = "free"]
    /\ IF t = "handler"
       THEN /\ Goto(c, t, IF out[c][t].type \in {"hello", "snapshot"} THEN "uncount" ELSE "exit")
            /\ UNCHANGED stopPump
       ELSE /\ Goto(c, t, "done")
            /\ stopPump' = stopPump \cup {c}
    /\ out' = [out EXCEPT ![c][t] = Nothing]
    /\ UNCHANGED <<storeVars, up, clients, shut, envVars, toClient, view>>
------------------------------------------------------------------------------
(* ListenAndServe and handleConn. *)

\* A client dials and the accept loop starts its handler, which says hello.
Accept(c) ==
    /\ up
    /\ At(c, "handler", "none")
    /\ clients' = clients + 1
    /\ BeginSend(c, "handler", Hello)
    /\ UNCHANGED <<storeVars, up, writeMu, stopPump, shut, envVars, toClient, view>>

\* ctx is done: the listener closes and the accept loop returns; handlers that
\* run are not waited for.
Shutdown ==
    /\ up
    /\ up' = FALSE
    /\ UNCHANGED <<storeVars, connVars, envVars, toClient, view>>

ReadSnapshot(c) ==
    /\ At(c, "handler", "snap")
    /\ BeginSend(c, "handler", Snapshot(window))
    /\ UNCHANGED <<storeVars, up, writeMu, stopPump, clients, shut, envVars, toClient, view>>

\* Subscribe, then go pump, go ticker.
Subscribe(c) ==
    /\ At(c, "handler", "sub")
    /\ Store!Join(c, Tables)
    /\ pc' = [pc EXCEPT ![c] = [handler |-> Then.subscribed, pump |-> "wait", ticker |-> "wait"]]
    /\ UNCHANGED <<total, up, out, writeMu, stopPump, clients, shut, envVars, toClient, view>>

LoopTop(c) ==
    /\ At(c, "handler", "loop")
    /\ Goto(c, "handler", IF c \in stopPump THEN "exit" ELSE "decode")
    /\ UNCHANGED <<storeVars, up, out, writeMu, stopPump, clients, shut, envVars, toClient, view>>

Decode(c) ==
    /\ At(c, "handler", "decode")
    /\ toServer[c] # <<>>
    /\ toServer' = [toServer EXCEPT ![c] = Tail(@)]
    /\ BeginSend(c, "handler", IF Head(toServer[c]) = "ping" THEN StatsMsg ELSE Pong)
    /\ UNCHANGED <<storeVars, up, writeMu, stopPump, clients, shut, hungup, asked, ticked, toClient, view>>

\* Decode fails because the client has gone (EOF or reset).
DecodeEnds(c) ==
    /\ At(c, "handler", "decode")
    /\ c \in hungup
    /\ Goto(c, "handler", "exit")
    /\ UNCHANGED <<storeVars, up, out, writeMu, stopPump, clients, shut, envVars, toClient, view>>

\* Decode fails because clientIdleTimeout has passed since the last envelope.
IdleTimeout(c) ==
    /\ At(c, "handler", "decode")
    /\ toServer[c] = <<>> /\ c \notin hungup
    /\ Goto(c, "handler", "exit")
    /\ UNCHANGED <<storeVars, up, out, writeMu, stopPump, clients, shut, envVars, toClient, view>>

(* The defers, last registered first: ticker.Stop and Unsubscribe, stop,   *)
(* the client count, conn.Close.                                           *)
DeferUnsubscribe_Forgotten(c) ==             \* mutant: no defer Unsubscribe
    /\ At(c, "handler", "exit")
    /\ Goto(c, "handler", "stop")
    /\ UNCHANGED <<storeVars, up, out, writeMu, stopPump, clients, shut, envVars, toClient, view>>
DeferUnsubscribe(c) ==
    /\ At(c, "handler", "exit")
    /\ Store!Leave(c)
    /\ Goto(c, "handler", "stop")
    /\ UNCHANGED <<total, up, out, writeMu, stopPump, clients, shut, envVars, toClient, view>>

DeferStop_Forgotten(c) ==                                   \* mutant: no defer stop()
    /\ At(c, "handler", "stop")
    /\ Goto(c, "handler", "uncount")
    /\ UNCHANGED <<storeVars, up, out, writeMu, stopPump, clients, shut, envVars, toClient, view>>
DeferStop(c) ==
    /\ At(c, "handler", "stop")
    /\ stopPump' = stopPump \cup {c}
    /\ Goto(c, "handler", "uncount")
    /\ UNCHANGED <<storeVars, up, out, writeMu, clients, shut, envVars, toClient, view>>

DeferUncount_Twice(c) ==                     \* mutant: the return counts down as well
    /\ At(c, "handler", "uncount")
    /\ clients' = clients - 2
    /\ Goto(c, "handler", "close")
    /\ UNCHANGED <<storeVars, up, out, writeMu, stopPump, shut, envVars, toClient, view>>
DeferUncount(c) ==
    /\ At(c, "handler", "uncount")
    /\ clients' = clients - 1
    /\ Goto(c, "handler", "close")
    /\ UNCHANGED <<storeVars, up, out, writeMu, stopPump, shut, envVars, toClient, view>>

DeferClose(c) ==
    /\ At(c, "handler", "close")
    /\ shut' = shut \cup {c}
    /\ Goto(c, "handler", "gone")
    /\ UNCHANGED <<storeVars, up, out, writeMu, stopPump, clients, envVars, toClient, view>>

Handler(c) ==
    \/ Lock(c, "handler") \/ WriteDone(c, "handler") \/ WriteFails(c, "handler")
    \/ ReadSnapshot(c) \/ Subscribe(c) \/ LoopTop(c) \/ Decode(c) \/ DecodeEnds(c)
    \/ DeferUnsubscribe(c) \/ DeferStop(c) \/ DeferUncount(c) \/ DeferClose(c)
------------------------------------------------------------------------------
(* The pump and the stats ticker. *)

PumpTake_DropsWhenBusy(c) ==                 \* mutant: the event is taken but not sent
    /\ At(c, "pump", "wait")
    /\ queue[c] # <<>>
    /\ IF writeMu[c] = "free" THEN BeginSend(c, "pump", EventMsg(Head(queue[c])))
                              ELSE UNCHANGED <<pc, out>>
    /\ Store!Take(c)
    /\ UNCHANGED <<total, up, writeMu, stopPump, clients, shut, envVars, toClient, view>>
PumpTake(c) ==
    /\ At(c, "pump", "wait")
    /\ queue[c] # <<>>
    /\ BeginSend(c, "pump", EventMsg(Head(queue[c])))
    /\ Store!Take(c)
    /\ UNCHANGED <<total, up, writeMu, stopPump, clients, shut, envVars, toClient, view>>

Tick(c) ==
    /\ At(c, "ticker", "wait")
    /\ pc[c].handler \notin {"stop", "uncount", "close", "gone"}    \* statsTicker.Stop
    /\ ticked[c] < MaxTick
    /\ ticked' = [ticked EXCEPT ![c] = @ + 1]
    /\ BeginSend(c, "ticker", StatsMsg)
    /\ UNCHANGED <<storeVars, up, writeMu, stopPump, clients, shut, hungup, toServer, asked, toClient, view>>

\* A worker's select sees stopPump closed; the pump also ends when its channel
\* is closed and drained.
WorkerStops(c, t) ==
    /\ At(c, t, "wait")
    /\ c \in stopPump \/ (t = "pump" /\ c \in closed /\ queue[c] = <<>>)
    /\ Goto(c, t, "done")
    /\ UNCHANGED <<storeVars, up, out, writeMu, stopPump, clients, shut, envVars, toClient, view>>

Worker(c, t) == Lock(c, t) \/ WriteDone(c, t) \/ WriteFails(c, t) \/ WorkerStops(c, t)
------------------------------------------------------------------------------
(* The environment. *)

Push ==
    /\ total < MaxPush
    /\ total' = total + 1
    /\ Store!Put([seq |-> total + 1, table |-> "any"])
    /\ UNCHANGED <<up, connVars, envVars, toClient, view>>

ClientRead(c) ==
    /\ c \notin hungup
    /\ toClient[c] # <<>>
    /\ toClient' = [toClient EXCEPT ![c] = Tail(@)]
    /\ view' = IF Len(view[c]) >= 2 /\ Head(toClient[c]).type \in {"stats", "pong"}
               THEN view
               ELSE [view EXCEPT ![c] = Append(@, Head(toClient[c]))]
    /\ UNCHANGED <<storeVars, up, connVars, envVars>>

\* RequestStats pings; SubscribeAll asks for a subscription.
ClientAsk(c, what) ==
    /\ Len(view[c]) >= 2              \* Dial has returned
    /\ c \notin hungup /\ asked[c] < MaxAsk
    /\ asked' = [asked EXCEPT ![c] = @ + 1]
    /\ toServer' = [toServer EXCEPT ![c] = IF c \in shut THEN @ ELSE Append(@, what)]
    /\ UNCHANGED <<storeVars, up, connVars, hungup, ticked, toClient, view>>

ClientHangup(c) ==
    /\ ~At(c, "handler", "none") /\ c \notin hungup
    /\ hungup' = hungup \cup {c}
    /\ UNCHANGED <<storeVars, up, connVars, toServer, asked, ticked, toClient, view>>

Next ==
    \/ Push
    \/ Shutdown
    \/ \E c \in Conns :
         \/ Accept(c) \/ Handler(c) \/ IdleTimeout(c)
         \/ PumpTake(c) \/ Tick(c)
         \/ \E t \in {"pump", "ticker"} : Worker(c, t)
         \/ ClientRead(c) \/ ClientHangup(c)
         \/ \E what \in {"ping", "subscribe"} : ClientAsk(c, what)

Spec == Init /\ [][Next]_vars
------------------------------------------------------------------------------
(***************************************************************************)
(* Properties.                                                             *)
(***************************************************************************)
\* The numbers of the events in an envelope.
Numbers(m) == CASE m.type = "snapshot" -> {m.events[i].seq : i \in DOMAIN m.events}
                [] m.type = "event"    -> {m.event.seq}
                [] OTHER               -> {}

Sent(c) == view[c] \o toClient[c]       \* all that is, or was, on the wire

\* The way of the events to a client, from what it has read to what still waits for
\* it: the wire, the pump's hand, the subscription.
Line(c) == Sent(c) \o <<out[c].pump>> \o [i \in DOMAIN queue[c] |-> EventMsg(queue[c][i])]

All(c)      == UNION {Numbers(Line(c)[i]) : i \in DOMAIN Line(c)}
Streamed(c) == UNION {Numbers(Line(c)[i]) : i \in {i \in DOMAIN Line(c) : Line(c)[i].type = "event"}}

Increasing(es) == \A i, j \in DOMAIN es : i < j => es[i].seq < es[j].seq

InOrder(line) ==
    /\ \A i \in DOMAIN line : line[i].type = "snapshot" => Increasing(line[i].events)
    /\ \A i, j \in DOMAIN line :
         i < j => \A a \in Numbers(line[i]), b \in Numbers(line[j]) : a < b

\* hello, then the snapshot, then anything else: what Client.readHandshake
\* insists on (client.go:67-92) whatever the three goroutines race for.
HandshakeFirst(c) ==
    LET s == Sent(c) IN
        /\ Len(s) >= 1 => s[1].type = "hello"
        /\ Len(s) >= 2 => s[2].type = "snapshot"
        /\ \A i \in DOMAIN s : i > 2 => s[i].type \notin {"hello", "snapshot"}

\* After the handshake, snapshot and stream join up without repetition: a client
\* never sees an event twice or late, although the snapshot and the subscription
\* are two separate calls into the store (server.go:110-121).
StreamInOrder ==
    \A c \in Conns : HandshakeFirst(c) /\ InOrder(Line(c))

\* Once the stream has begun, the only event a connected client misses is one
\* the store dropped because SubChanCap events waited for this client already:
\* neither the pump nor the shared writer loses one (server.go:98-139).
LostOnlyWhenSlow ==
    \A c \in subs : ~Broken(c) =>
        \A m \in 1 .. total \ Streamed(c) :
            LET before == {n \in Streamed(c) : n < m} IN
              before # {} => Cardinality(before) >= SubChanCap

\* A handler that has returned leaves nothing behind, by whichever of its eight
\* returns: no subscription, no open connection, no place in the client count.
HandlerCleansUp ==
    /\ \A c \in Conns : At(c, "handler", "gone") => c \notin subs /\ c \in shut
    /\ clients = Cardinality({c \in Conns : pc[c].handler \notin {"none", "close", "gone"}})

\* Nothing is missing between the snapshot and the stream (as the connection
\* lifecycle of ARCHITECTURE.md:375 has it): if a client was never slow, every
\* event since its snapshot is on its way to it.
NoGapAfterSnapshot ==
    \A c \in subs : ~Broken(c) =>
        1 .. total \subseteq All(c)

\* The idle timeout takes only dead clients (server.go:19-21): a client that
\* keeps its connection and has read all it was sent is not cut off.
OnlyDeadClientsAreCutOff ==
    [][\A c \in Conns : IdleTimeout(c) => toClient[c] # <<>>]_vars
------------------------------------------------------------------------------
(***************************************************************************)
(* Fairness.  The Go scheduler runs every goroutine that can run, and a    *)
(* mutex in starvation mode is handed to whoever waits for it.             *)
(***************************************************************************)
ServerFairness ==
    \A c \in Conns :
        /\ WF_vars(Handler(c))
        /\ SF_vars(Lock(c, "handler"))
        /\ WF_vars(PumpTake(c) \/ Worker(c, "pump")) /\ SF_vars(Lock(c, "pump"))
        /\ WF_vars(Tick(c) \/ Worker(c, "ticker")) /\ SF_vars(Lock(c, "ticker"))
        /\ SF_vars(WorkerStops(c, "ticker")) /\ SF_vars(WorkerStops(c, "pump"))

FairSpec == Spec /\ ServerFairness

\* Not assumed, but the condition of a property: a client goes on reading; the
\* read deadline passes when nothing comes.
KeepsReading(c) == WF_vars(ClientRead(c))
TimePasses(c)   == WF_vars(IdleTimeout(c))

AllEnded(c) == /\ At(c, "handler", "gone")
               /\ pc[c].pump \in {"off", "done"} /\ pc[c].ticker \in {"off", "done"}

\* No connection is kept for nobody.  When a client has gone, all three goroutines
\* end, whatever they were doing (server.go:88-193); and a client that has never
\* asked for anything does not keep its subscription for good, though it may have
\* stopped reading, and though writes have no deadline: the read deadline frees it
\* (server.go:157-160).
ConnectionsEnd ==
    \A c \in Conns :
        /\ c \in hungup ~> AllEnded(c)
        /\ TimePasses(c) => (c \in subs ~> (c \notin subs \/ asked[c] > 0))

\* An event the store has accepted for a client that keeps reading is read by
\* it, unless the connection ends (server.go:124-139, 98-105).
AcceptedIsRead ==
    \A c \in Conns : KeepsReading(c) => \A m \in 1 .. MaxPush :
        (\E i \in DOMAIN queue[c] : queue[c][i].seq = m)
            ~> (Broken(c) \/ \E i \in DOMAIN view[c] : m \in Numbers(view[c][i]))
=============================================================================
