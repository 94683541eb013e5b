------------------------------ MODULE Pipeline -------------------------------
(***************************************************************************)
(* From the WAL to the store: internal/listener (Start, readLoop, the      *)
(* decoder and its schema cache) and internal/core/runner.go (Run, its     *)
(* forwarder, the DDL listener's goroutine), with the callback and the     *)
(* marker API cmd/dbwatch runs beside Run.                                 *)
(*                                                                         *)
(* Postgres is the environment: transactions write changes of one table    *)
(* (an ALTER gives it a new version), pgoutput streams a transaction when  *)
(* it commits, its changes with the position they were written at, after a *)
(* Relation message when the session does not know the version yet.  A     *)
(* Begin message, whose position is its first change's, is left out.       *)
(***************************************************************************)
EXTENDS SequencesExt

CONSTANTS
    Txs,            \* concurrent transactions
    BufferSize,     \* capacity of Run's channel listenerIn (--buffer)
    MaxLsn,         \* bound: WAL records
    MaxVer,         \* bound: versions of the table
    MaxSide         \* bound: DDL notifications and markers

ASSUME PipelineAssumption ==
    /\ BufferSize \in Nat \ {0}
    /\ MaxLsn \in Nat /\ MaxVer \in Nat \ {0} /\ MaxSide \in Nat

VARIABLES
    (* Postgres *)
    lsn,            \* position of the next WAL record
    open,           \* per transaction: its changes so far
    ver,            \* current version of the table
    told,           \* version of the last Relation message of the session
    stream,         \* what pgoutput has produced for the slot, in order
    conn,           \* the replication connection: "up" or "lost"
    acked,          \* WALWritePosition of the last standby status
    (* Listener *)
    lpc,            \* "idle", "setup" (Start up to StartReplication), "loop", "returned"
    next,           \* index in stream of the next message to receive
    pos,            \* clientXLogPos
    cache,          \* SchemaCache: the version it holds, 0 for none
    eventCounter,   \* decoder.go: the last Event.ID given
    (* Run *)
    listenerIn,     \* contents of the channel
    inClosed,       \* close(listenerIn) was called
    fpc, hand,      \* the forwarder: where it is, the event it holds
    run,            \* "prepare" the DDL trigger, "start", "drain", "returned"
    ctxDone,        \* ctx was cancelled
    (* the other two producers *)
    dpc,            \* the DDL goroutine: "off" (none, or ended), "wait", "call"
    side,           \* events that came from DDL or markers
    (* what is left behind *)
    pushed,         \* the store: every event pushed
    lastLSN         \* cmd/dbwatch's lastLSN, 0 before the first callback

pgVars  == <<lsn, open, ver, told, stream>>
lstVars == <<lpc, next, pos, cache, eventCounter>>
chVars  == <<listenerIn, inClosed>>
fwdVars == <<fpc, hand>>
ddlVars == <<dpc, side>>
outVars == <<pushed, lastLSN>>
vars    == <<pgVars, conn, acked, lstVars, chVars, fwdVars, run, ctxDone, ddlVars, outVars>>

Msg(k, l, v) == [kind |-> k, lsn |-> l, ver |-> v]

\* A DML event; DDL events, markers and logs have neither ID nor LSN.
Dml(id, l, v) == [id |-> id, lsn |-> l, ver |-> v]
SideEvent     == [id |-> 0, lsn |-> 0, ver |-> 0]

Message == [kind : {"relation", "change", "commit"}, lsn : 1 .. MaxLsn + 1, ver : 0 .. MaxVer]

Event   == [id : Nat, lsn : 0 .. MaxLsn + 1, ver : 0 .. MaxVer]

TypeOK ==
    /\ lsn \in 1 .. MaxLsn + 1 /\ ver \in 1 .. MaxVer /\ told \in 0 .. MaxVer
    /\ open \in [Txs -> Seq(Message)] /\ stream \in Seq(Message)
    /\ conn \in {"up", "lost"} /\ acked \in 0 .. MaxLsn + 1
    /\ lpc \in {"idle", "setup", "loop", "returned"} /\ next \in 1 .. Len(stream) + 1
    /\ pos \in 0 .. MaxLsn + 1 /\ cache \in 0 .. MaxVer /\ eventCounter \in 0 .. next - 1
    /\ listenerIn \in Seq(Event) /\ Len(listenerIn) <= BufferSize /\ pushed \in Seq(Event)
    /\ hand \in Event /\ inClosed \in BOOLEAN /\ ctxDone \in BOOLEAN
    /\ fpc \in {"select", "push", "call", "done"}
    /\ run \in {"prepare", "start", "drain", "returned"}
    /\ dpc \in {"off", "wait", "call"} /\ side \in 0 .. MaxSide
    /\ lastLSN \in 0 .. MaxLsn + 1
------------------------------------------------------------------------------
Init ==
    /\ lsn = 1 /\ open = [x \in Txs |-> <<>>] /\ ver = 1 /\ told = 0 /\ stream = <<>>
    /\ conn = "up" /\ acked = 0
    /\ lpc = "idle" /\ next = 1 /\ pos = 0 /\ cache = 0 /\ eventCounter = 0
    /\ listenerIn = <<>> /\ inClosed = FALSE
    /\ fpc = "select" /\ hand = SideEvent
    /\ run = "prepare" /\ ctxDone = FALSE
    /\ dpc = "off" /\ side = 0
    /\ pushed = <<>> /\ lastLSN = 0
------------------------------------------------------------------------------
(* Postgres.  What is written before the slot exists, or when nobody will  *)
(* receive it any more, is never seen here.                                *)

Followed == lpc = "loop" /\ conn = "up" /\ ~ctxDone

notPg == <<conn, acked, lstVars, chVars, fwdVars, run, ctxDone, ddlVars, outVars>>

WriteChange(x) ==
    /\ Followed /\ lsn < MaxLsn
    /\ open' = [open EXCEPT ![x] = Append(@, Msg("change", lsn, ver))]
    /\ lsn' = lsn + 1
    /\ UNCHANGED <<ver, told, stream, notPg>>

\* The transaction is streamed; its Commit carries the end of its own record.
CommitTx(x) ==
    /\ Followed /\ open[x] # <<>> /\ lsn <= MaxLsn
    /\ LET c   == Head(open[x])
           rel == IF c.ver = told THEN <<>> ELSE <<Msg("relation", c.lsn, c.ver)>>
       IN  /\ stream' = stream \o rel \o open[x] \o <<Msg("commit", lsn + 1, 0)>>
           /\ told' = c.ver
    /\ open' = [open EXCEPT ![x] = <<>>]
    /\ lsn' = lsn + 1
    /\ UNCHANGED <<ver, notPg>>

\* ALTER TABLE waits for the transactions that have written to the table.  What
\* it writes to the catalogs itself is not published: WriteOther's.  One before
\* the first commit only says which version is the first.
AlterTable ==
    /\ \A x \in Txs : open[x] = <<>>
    /\ Followed /\ ver < MaxVer /\ stream # <<>>
    /\ ver' = ver + 1
    /\ UNCHANGED <<lsn, open, told, stream, notPg>>

\* WAL that is not published: other databases, vacuum, checkpoints.
WriteOther ==
    /\ Followed /\ lsn <= MaxLsn
    /\ lsn' = lsn + 1
    /\ UNCHANGED <<open, ver, told, stream, notPg>>

Disconnect ==
    /\ conn = "up"
    /\ conn' = "lost"
    /\ UNCHANGED <<pgVars, acked, lstVars, chVars, fwdVars, run, ctxDone, ddlVars, outVars>>

\* SIGINT, SIGTERM, or the end of another part of the program.
Cancel ==
    /\ ~ctxDone
    /\ ctxDone' = TRUE
    /\ UNCHANGED <<pgVars, conn, acked, lstVars, chVars, fwdVars, run, ddlVars, outVars>>
------------------------------------------------------------------------------
(* Listener.Start and readLoop. *)

notLst == <<pgVars, conn, fwdVars, run, ctxDone, ddlVars, outVars>>

\* The slot is made and replication starts at its consistent point.
SetupDone ==
    /\ lpc = "setup" /\ conn = "up"
    /\ lpc' = "loop" /\ pos' = lsn
    /\ UNCHANGED <<acked, next, cache, eventCounter, chVars, notLst>>

\* Any step of Start may fail (connection, publication, an existing slot).
SetupFails ==
    /\ lpc = "setup"
    /\ lpc' = "returned"
    /\ UNCHANGED <<acked, next, pos, cache, eventCounter, chVars, notLst>>

\* sendStandbyStatus(clientXLogPos): nextAck has passed, no message came within
\* standbyTimeout, or a keepalive asked for a reply.  The ServerWALEnd of a
\* keepalive is not looked at.
Ack ==
    /\ lpc = "loop" /\ conn = "up"
    /\ acked' = pos
    /\ UNCHANGED <<lstVars, chVars, notLst>>

CacheUpdate_IfMissing(m) ==                      \* mutant: a known relation is kept
    IF m.kind = "relation" /\ cache = 0 THEN m.ver ELSE cache
CacheUpdate(m) == IF m.kind = "relation" THEN m.ver ELSE cache

\* mutant: the server's end of WAL, also in the XLogData header, is taken
Advance_ServerWALEnd(m) == lsn
\* mutant: the position follows the message even when it goes back
Advance_NoMax(m) == m.lsn
\* mutant: the byte after the message is acknowledged
Advance_NextByte(m) == IF m.lsn + 1 > pos THEN m.lsn + 1 ELSE pos
\* mutant: a message that yields no event does not count
Advance_ChangesOnly(m) == IF m.kind = "change" /\ m.lsn > pos THEN m.lsn ELSE pos
Advance(m) == IF m.lsn > pos THEN m.lsn ELSE pos

\* select { case l.out <- *event: default: }
Offer_Replaces(e) ==                             \* mutant: the newest gives way
    IF Len(listenerIn) < BufferSize THEN Append(listenerIn, e) ELSE Append(Front(listenerIn), e)
Offer(e) == IF Len(listenerIn) < BufferSize THEN Append(listenerIn, e) ELSE listenerIn

\* An XLogData message: the cache, the decoder, the send, the position.  A
\* change of a relation the cache does not know is skipped, position included.
Receive ==
    /\ lpc = "loop" /\ conn = "up" /\ ~ctxDone
    /\ next <= Len(stream)
    /\ next' = next + 1
    /\ LET m == stream[next] IN
         /\ cache' = CacheUpdate(m)
         /\ IF m.kind = "change" /\ cache # 0
            THEN /\ eventCounter' = eventCounter + 1
                 /\ listenerIn' = Offer(Dml(eventCounter + 1, m.lsn, cache))
            ELSE UNCHANGED <<eventCounter, listenerIn>>
         /\ pos' = IF m.kind = "change" /\ cache = 0 THEN pos ELSE Advance(m)
    /\ UNCHANGED <<acked, lpc, inClosed, notLst>>

LoopEnds_ConnOnly ==                             \* mutant: the receive ignores ctx
    /\ lpc = "loop"
    /\ conn = "lost"
    /\ lpc' = "returned"
    /\ UNCHANGED <<acked, next, pos, cache, eventCounter, chVars, notLst>>
\* ctx is done, or the connection fails or reports an error.
LoopEnds ==
    /\ lpc = "loop"
    /\ ctxDone \/ conn = "lost"
    /\ lpc' = "returned"
    /\ UNCHANGED <<acked, next, pos, cache, eventCounter, chVars, notLst>>
------------------------------------------------------------------------------
(* Run and its forwarder. *)

notRun == <<pgVars, conn, acked, next, pos, cache, eventCounter, ctxDone>>

\* startDDLListener, then l.Start.  DDL may not be asked for; its setup may
\* fail, which DDLWarn turns into a log event.
Prepare ==
    /\ run = "prepare"
    /\ run' = "start" /\ lpc' = "setup"
    /\ \/ UNCHANGED <<dpc, side, pushed>>
       \/ dpc' = "wait" /\ UNCHANGED <<side, pushed>>
       \/ /\ side < MaxSide
          /\ side' = side + 1 /\ pushed' = Append(pushed, SideEvent) /\ UNCHANGED dpc
    /\ UNCHANGED <<notRun, chVars, fwdVars, lastLSN>>

RunCloses ==
    /\ run = "start" /\ lpc = "returned"
    /\ run' = "drain" /\ inClosed' = TRUE
    /\ UNCHANGED <<notRun, lpc, listenerIn, fwdVars, ddlVars, outVars>>

RunReturns_NoWait ==                             \* mutant: no <-forwardDone
    /\ run = "drain"
    /\ run' = "returned"
    /\ UNCHANGED <<notRun, lpc, chVars, fwdVars, ddlVars, outVars>>
RunReturns ==
    /\ run = "drain" /\ fpc = "done"
    /\ run' = "returned"
    /\ UNCHANGED <<notRun, lpc, chVars, fwdVars, ddlVars, outVars>>

\* The forwarder's select: with both cases ready either may be taken.
ForwardTake ==
    /\ fpc = "select" /\ listenerIn # <<>>
    /\ fpc' = "push" /\ hand' = Head(listenerIn) /\ listenerIn' = Tail(listenerIn)
    /\ UNCHANGED <<notRun, lpc, inClosed, run, ddlVars, outVars>>

ForwardEnds ==
    /\ fpc = "select"
    /\ ctxDone \/ (inClosed /\ listenerIn = <<>>)
    /\ fpc' = "done"
    /\ UNCHANGED <<notRun, lpc, chVars, hand, run, ddlVars, outVars>>

ForwardPush ==
    /\ fpc = "push"
    /\ fpc' = "call" /\ pushed' = Append(pushed, hand)
    /\ UNCHANGED <<notRun, lpc, chVars, hand, run, ddlVars, lastLSN>>

\* onEvent: lastLSN.Store(e.LSN)
ForwardCall ==
    /\ fpc = "call"
    /\ fpc' = "select" /\ lastLSN' = hand.lsn
    /\ UNCHANGED <<notRun, lpc, chVars, hand, run, ddlVars, pushed>>
------------------------------------------------------------------------------
(* The DDL goroutine, which Run does not wait for, and the marker API.     *)

notSide == <<notRun, lpc, chVars, fwdVars, run>>

DdlPush ==
    /\ dpc = "wait" /\ side < MaxSide
    /\ dpc' = "call" /\ side' = side + 1 /\ pushed' = Append(pushed, SideEvent)
    /\ UNCHANGED <<notSide, lastLSN>>

DdlCall ==
    /\ dpc = "call"
    /\ dpc' = "wait" /\ lastLSN' = SideEvent.lsn
    /\ UNCHANGED <<notSide, side, pushed>>

\* ctx is done, or its own connection cannot be made or fails.
DdlEnds ==
    /\ dpc = "wait"
    /\ dpc' = "off"
    /\ UNCHANGED <<notSide, side, outVars>>

MarkerPush ==
    /\ side < MaxSide
    /\ side' = side + 1 /\ pushed' = Append(pushed, SideEvent)
    /\ UNCHANGED <<notSide, dpc, lastLSN>>

Listener  == SetupDone \/ SetupFails \/ Ack \/ Receive \/ LoopEnds
Runner    == Prepare \/ RunCloses \/ RunReturns
Forwarder == ForwardTake \/ ForwardEnds \/ ForwardPush \/ ForwardCall
SideTasks == DdlPush \/ DdlCall \/ DdlEnds \/ MarkerPush
Postgres  == (\E x \in Txs : WriteChange(x) \/ CommitTx(x)) \/ AlterTable \/ WriteOther \/ Disconnect

Next == Postgres \/ Cancel \/ Listener \/ Runner \/ Forwarder \/ SideTasks

Spec == Init /\ [][Next]_vars
------------------------------------------------------------------------------
(***************************************************************************)
(* Properties.                                                             *)
(***************************************************************************)
IsDml(e) == e.id # 0

\* The events handed on so far, from the store back to the channel.
Handed == pushed \o (IF fpc = "push" THEN <<hand>> ELSE <<>>) \o listenerIn

\* Event e says what the change at k of the stream does.
IsFrom(e, k) ==
    /\ stream[k].kind = "change"
    /\ stream[k].lsn = e.lsn /\ stream[k].ver = e.ver

\* Changes reach the store in the order Postgres streams them, none twice, with
\* increasing IDs, each under the columns its table had when it was written,
\* however ALTERs, commits and the forwarder interleave (listener.go:183-212,
\* schema_cache.go:44-62, runner.go:34-50); and lastLSN never names a change that
\* is not in the store yet (main.go:495-497).
StoredAsWritten ==
    /\ \A i \in DOMAIN Handed : IsDml(Handed[i]) => \E k \in 1 .. next - 1 : IsFrom(Handed[i], k)
    /\ \A i, j \in DOMAIN Handed, k, l \in 1 .. next - 1 :
          i < j /\ IsFrom(Handed[i], k) /\ IsFrom(Handed[j], l) =>
             k < l /\ Handed[i].id < Handed[j].id
    /\ lastLSN # 0 => \E i \in DOMAIN pushed : pushed[i].lsn = lastLSN

\* A change the listener has received is missing only as the documented drop:
\* when it came, BufferSize earlier ones had been handed on already
\* (listener.go:205-211).
LostOnlyWhenFull ==
    \A k \in 1 .. next - 1 : stream[k].kind = "change" =>
        \/ \E i \in DOMAIN Handed : IsFrom(Handed[i], k)
        \/ \E earlier \in [1 .. BufferSize -> DOMAIN Handed] :
              /\ IsInjective(earlier)
              /\ \A n \in 1 .. BufferSize :
                    \E l \in 1 .. k - 1 : IsFrom(Handed[earlier[n]], l)

\* When Run returns its forwarder has ended, and unless ctx was cancelled every
\* change it had accepted is in the store: a failing listener loses nothing it
\* had delivered (runner.go:56-61).
ReturnsDrained ==
    run = "returned" => fpc = "done" /\ (~ctxDone => listenerIn = <<>>)

\* What is acknowledged has been received: Postgres resumes after the commits
\* that lie before the acknowledged position, so none of them may be still to
\* come.  Positions do not arrive in order, since a transaction's changes carry
\* the positions they were written at (listener.go:134-148, 214-216).
AckNeverSkips ==
    \A i \in DOMAIN stream : stream[i].kind = "commit" /\ stream[i].lsn <= acked => i < next

\* The acknowledged position never goes back.
AckNeverGoesBack == [][acked' >= acked]_vars
------------------------------------------------------------------------------
(***************************************************************************)
(* Fairness: the goroutines of Run go on running, and the timers and       *)
(* deadlines of readLoop come round.  Nothing is assumed of Postgres, of   *)
(* cancellation or of the DDL goroutine.                                   *)
(***************************************************************************)
Fairness ==
    /\ WF_vars(SetupDone \/ SetupFails) /\ WF_vars(Receive) /\ WF_vars(LoopEnds)
    /\ WF_vars(Ack)
    /\ WF_vars(Runner) /\ WF_vars(Forwarder)
    /\ SF_vars(ForwardEnds)         \* a select does not ignore a ready case for ever

FairSpec == Spec /\ Fairness

\* Run returns when ctx is cancelled or the connection is lost, whatever the
\* listener and the forwarder are doing at the time: the forwarder learns of a
\* listener that gave up although nobody cancelled anything (runner.go:34-61,
\* listener.go:158-161).
RunEnds == (ctxDone \/ conn = "lost") ~> run = "returned"

\* While replication runs, the acknowledgement catches up with the commits
\* streamed so far again and again: none waits for ever, be it the last one
\* (listener.go:138-143, 214-216).
CommittedIsAcked ==
    []<>(\/ lpc # "loop"
         \/ \A i \in DOMAIN stream : stream[i].kind = "commit" => stream[i].lsn <= acked)
=============================================================================
