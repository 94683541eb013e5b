---------------------------- MODULE PipelineProofs ---------------------------
(***************************************************************************)
(* Theorems about Pipeline, for every set of transactions, buffer size and *)
(* number of WAL records, table versions and side events.                  *)
(***************************************************************************)
EXTENDS Pipeline, SequenceTheorems, TLAPS

(* Types. *)

LEMMA EventFacts ==
    /\ SideEvent \in Event /\ SideEvent.id = 0 /\ SideEvent.lsn = 0
    /\ \A i \in Nat, l \in 0 .. MaxLsn + 1, v \in 0 .. MaxVer :
          /\ Dml(i, l, v) \in Event
          /\ Dml(i, l, v).id = i /\ Dml(i, l, v).lsn = l /\ Dml(i, l, v).ver = v
<1>1. /\ 0 \in 0 .. MaxLsn + 1 /\ 0 \in 0 .. MaxVer /\ 0 \in Nat
  BY PipelineAssumption
<1>2. \A i \in Nat, l \in 0 .. MaxLsn + 1, v \in 0 .. MaxVer :
          /\ Dml(i, l, v) \in Event
          /\ Dml(i, l, v).id = i /\ Dml(i, l, v).lsn = l /\ Dml(i, l, v).ver = v
  BY ZenonT(30) DEF Event, Dml
<1>3. SideEvent \in Event /\ SideEvent.id = 0 /\ SideEvent.lsn = 0
  BY <1>1, ZenonT(30) DEF Event, SideEvent
<1> QED BY <1>2, <1>3

LEMMA TypeInit == Init => TypeOK
<1> SUFFICES ASSUME Init PROVE TypeOK
  OBVIOUS
<1>1. << >> \in Seq(Message) /\ << >> \in Seq(Event) /\ Len(<< >>) = 0
  OBVIOUS
<1>2. /\ 0 \in 0 .. MaxVer /\ 1 \in 1 .. MaxVer /\ 0 \in 0 .. MaxSide /\ 0 \in 0 .. MaxLsn + 1
      /\ 1 \in 1 .. MaxLsn + 1 /\ 1 \in 1 .. 0 + 1 /\ 0 \in 0 .. 1 - 1 /\ 0 <= BufferSize
  BY PipelineAssumption
<1>3. open \in [Txs -> Seq(Message)]
  BY <1>1 DEF Init
<1> QED BY <1>1, <1>2, <1>3, EventFacts, ZenonT(60) DEF Init, TypeOK

\* What a commit adds to the stream: perhaps a Relation message, the
\* transaction's changes, the Commit.
Relation(x) ==
    IF Head(open[x]).ver = told THEN << >>
    ELSE <<Msg("relation", Head(open[x]).lsn, Head(open[x]).ver)>>
Streamed(x) == Relation(x) \o open[x] \o <<Msg("commit", lsn + 1, 0)>>

LEMMA ThreeParts ==
    ASSUME NEW S, NEW s \in Seq(S), NEW t \in Seq(S), NEW e \in S
    PROVE  /\ s \o t \o <<e>> \in Seq(S)
           /\ Len(s \o t \o <<e>>) = Len(s) + Len(t) + 1
           /\ \A i \in 1 .. Len(s) : (s \o t \o <<e>>)[i] = s[i]
           /\ \A i \in 1 .. Len(t) : (s \o t \o <<e>>)[Len(s) + i] = t[i]
           /\ (s \o t \o <<e>>)[Len(s) + Len(t) + 1] = e
OBVIOUS

LEMMA StreamedShape ==
    ASSUME TypeOK, NEW x \in Txs, CommitTx(x)
    PROVE  /\ Streamed(x) \in Seq(Message)
           /\ stream' = stream \o Streamed(x)
           /\ Relation(x) \in Seq(Message)
           /\ Len(Streamed(x)) = Len(Relation(x)) + Len(open[x]) + 1
           /\ \A i \in 1 .. Len(Relation(x)) : Streamed(x)[i] = Relation(x)[i]
           /\ \A i \in 1 .. Len(open[x]) : Streamed(x)[Len(Relation(x)) + i] = open[x][i]
           /\ Streamed(x)[Len(Relation(x)) + Len(open[x]) + 1] = Msg("commit", lsn + 1, 0)
<1>1. open[x] \in Seq(Message) /\ open[x] # << >> /\ Head(open[x]) \in Message
  BY DEF TypeOK, CommitTx
<1>2. Relation(x) \in Seq(Message)
  <2>1. Msg("relation", Head(open[x]).lsn, Head(open[x]).ver) \in Message
    BY <1>1 DEF Message, Msg
  <2> QED BY <2>1 DEF Relation
<1>3. Msg("commit", lsn + 1, 0) \in Message
  BY PipelineAssumption DEF Message, Msg, TypeOK, CommitTx
<1>4. <<Msg("commit", lsn + 1, 0)>> \in Seq(Message)
  BY <1>3
<1>5. Relation(x) \o open[x] \in Seq(Message)
  BY <1>1, <1>2
<1>7. stream' = stream \o Streamed(x)
  <2>1. stream' = ((stream \o Relation(x)) \o open[x]) \o <<Msg("commit", lsn + 1, 0)>>
    BY DEF CommitTx, Relation
  <2>2. stream \in Seq(Message) /\ stream \o Relation(x) \in Seq(Message)
    BY <1>2 DEF TypeOK
  <2>3. \A s, t, u \in Seq(Message) : (s \o t) \o u = s \o (t \o u)
    BY ConcatAssociative
  <2> DEFINE last == <<Msg("commit", lsn + 1, 0)>>
  <2>4. (stream \o Relation(x)) \o open[x] = stream \o (Relation(x) \o open[x])
    BY <1>1, <1>2, <2>2, <2>3, ZenonT(30)
  <2>5. (stream \o (Relation(x) \o open[x])) \o last = stream \o ((Relation(x) \o open[x]) \o last)
    BY <1>4, <1>5, <2>2, <2>3, ZenonT(30)
  <2> QED BY <2>1, <2>4, <2>5, ZenonT(30) DEF Streamed
<1> DEFINE s == Relation(x)
           t == open[x]
           e == Msg("commit", lsn + 1, 0)
<1>8. s \in Seq(Message) /\ t \in Seq(Message) /\ e \in Message /\ Streamed(x) = s \o t \o <<e>>
  BY <1>1, <1>2, <1>3 DEF Streamed
<1> HIDE DEF s, t, e
<1>9. /\ Streamed(x) \in Seq(Message)
      /\ Len(Streamed(x)) = Len(s) + Len(t) + 1
      /\ \A i \in 1 .. Len(s) : Streamed(x)[i] = s[i]
      /\ \A i \in 1 .. Len(t) : Streamed(x)[Len(s) + i] = t[i]
      /\ Streamed(x)[Len(s) + Len(t) + 1] = e
  BY <1>8, ThreeParts
<1> QED BY <1>2, <1>7, <1>9 DEF s, t, e

LEMMA AdvanceType ==
    ASSUME TypeOK, NEW m \in Message
    PROVE  Advance(m) \in 0 .. MaxLsn + 1
BY DEF TypeOK, Advance, Message

\* Every step keeps the variables in their types.
LEMMA TypeStep == TypeOK /\ [Next]_vars => TypeOK'
<1> SUFFICES ASSUME TypeOK, [Next]_vars PROVE TypeOK'
  OBVIOUS
<1> USE PipelineAssumption
<1>1. ASSUME NEW x \in Txs, WriteChange(x) PROVE TypeOK'
  <2>1. Msg("change", lsn, ver) \in Message
    BY <1>1 DEF WriteChange, TypeOK, Message, Msg
  <2>2. open' \in [Txs -> Seq(Message)] /\ lsn' \in 1 .. MaxLsn + 1
    BY <1>1, <2>1 DEF WriteChange, TypeOK
  <2> QED BY <1>1, <2>2 DEF WriteChange, TypeOK, notPg, lstVars, chVars, fwdVars, ddlVars, outVars
<1>2. ASSUME NEW x \in Txs, CommitTx(x) PROVE TypeOK'
  <2>1. stream' \in Seq(Message) /\ Len(stream') >= Len(stream)
    <3>1. Streamed(x) \in Seq(Message) /\ stream' = stream \o Streamed(x) /\ stream \in Seq(Message)
      BY <1>2, StreamedShape DEF TypeOK
    <3> QED BY <3>1, ConcatProperties
  <2>2. open' \in [Txs -> Seq(Message)] /\ lsn' \in 1 .. MaxLsn + 1 /\ told' \in 0 .. MaxVer
    <3>1. Head(open[x]) \in Message /\ << >> \in Seq(Message)
      BY <1>2 DEF CommitTx, TypeOK
    <3>2. open' \in [Txs -> Seq(Message)]
      BY <1>2, <3>1 DEF CommitTx, TypeOK
    <3>3. told' = Head(open[x]).ver /\ lsn' = lsn + 1 /\ lsn <= MaxLsn
      BY <1>2 DEF CommitTx
    <3>4. told' \in 0 .. MaxVer
      BY <3>1, <3>3 DEF Message
    <3> QED BY <3>2, <3>3, <3>4 DEF TypeOK
  <2>3. next \in 1 .. Len(stream') + 1
    BY <2>1 DEF TypeOK
  <2> QED BY <1>2, <2>1, <2>2, <2>3 DEF CommitTx, TypeOK, notPg, lstVars, chVars, fwdVars, ddlVars, outVars
<1>3. CASE AlterTable
  BY <1>3 DEF AlterTable, TypeOK, notPg, lstVars, chVars, fwdVars, ddlVars, outVars
<1>4. CASE WriteOther
  BY <1>4 DEF WriteOther, TypeOK, notPg, lstVars, chVars, fwdVars, ddlVars, outVars
<1>5. CASE Disconnect
  BY <1>5 DEF Disconnect, TypeOK, pgVars, lstVars, chVars, fwdVars, ddlVars, outVars
<1>6. CASE Cancel
  BY <1>6 DEF Cancel, TypeOK, pgVars, lstVars, chVars, fwdVars, ddlVars, outVars
<1>7. CASE Ack
  BY <1>7 DEF Ack, TypeOK, notLst, pgVars, lstVars, chVars, fwdVars, ddlVars, outVars
<1>8. CASE SetupDone
  BY <1>8 DEF SetupDone, TypeOK, notLst, pgVars, chVars, fwdVars, ddlVars, outVars
<1>8a. CASE SetupFails \/ LoopEnds
  <2>1. lpc' = "returned" /\ UNCHANGED <<acked, next, pos, cache, eventCounter, chVars, notLst>>
    BY <1>8a DEF SetupFails, LoopEnds
  <2> QED BY <2>1 DEF TypeOK, notLst, pgVars, chVars, fwdVars, ddlVars, outVars
<1>9. CASE Receive
  <2>1. stream[next] \in Message /\ next' = next + 1 /\ next' \in 1 .. Len(stream) + 1
    BY <1>9 DEF Receive, TypeOK
  <2>2. pos' \in 0 .. MaxLsn + 1
    BY <1>9, <2>1, AdvanceType DEF Receive, TypeOK
  <2>3. cache' \in 0 .. MaxVer
    BY <1>9, <2>1 DEF Receive, TypeOK, CacheUpdate, Message
  <2>4. eventCounter' \in 0 .. next' - 1
    BY <1>9, <2>1 DEF Receive, TypeOK
  <2>5. listenerIn' \in Seq(Event) /\ Len(listenerIn') <= BufferSize
    <3>1. /\ eventCounter + 1 \in Nat /\ stream[next].lsn \in 0 .. MaxLsn + 1
          /\ cache \in 0 .. MaxVer
      BY <2>1 DEF Message, TypeOK
    <3>2. Dml(eventCounter + 1, stream[next].lsn, cache) \in Event
      BY <3>1, EventFacts
    <3> DEFINE e == Dml(eventCounter + 1, stream[next].lsn, cache)
    <3>3. listenerIn' \in {listenerIn, Offer(e)}
      BY <1>9 DEF Receive
    <3> HIDE DEF e
    <3>4. ASSUME Len(listenerIn) < BufferSize
          PROVE  /\ Append(listenerIn, e) \in Seq(Event)
                 /\ Len(Append(listenerIn, e)) <= BufferSize
      BY <3>2, <3>4 DEF TypeOK, e
    <3> QED BY <3>3, <3>4 DEF TypeOK, Offer
  <2> QED BY <1>9, <2>1, <2>2, <2>3, <2>4, <2>5
          DEF Receive, TypeOK, notLst, pgVars, fwdVars, ddlVars, outVars
<1>s. SideEvent \in Event
  BY EventFacts
<1>10. CASE Prepare
  <2>1. pushed' \in Seq(Event) /\ side' \in 0 .. MaxSide /\ dpc' \in {"off", "wait", "call"}
    <3>1. pushed' \in {pushed, Append(pushed, SideEvent)}
      BY <1>10 DEF Prepare
    <3>2. pushed \in Seq(Event) /\ Append(pushed, SideEvent) \in Seq(Event)
      BY <1>s DEF TypeOK
    <3>3. side' \in 0 .. MaxSide /\ dpc' \in {"off", "wait", "call"}
      BY <1>10 DEF Prepare, TypeOK
    <3> QED BY <3>1, <3>2, <3>3, Zenon
  <2> QED BY <1>10, <2>1 DEF Prepare, TypeOK, notRun, pgVars, chVars, fwdVars
<1>11. CASE RunCloses \/ RunReturns
  BY <1>11 DEF RunCloses, RunReturns, TypeOK, notRun, pgVars, chVars, fwdVars, ddlVars, outVars
<1>12. CASE ForwardTake
  <2>1. hand' \in Event /\ listenerIn' \in Seq(Event) /\ Len(listenerIn') <= BufferSize
    BY <1>12, HeadTailProperties DEF ForwardTake, TypeOK
  <2> QED BY <1>12, <2>1 DEF ForwardTake, TypeOK, notRun, pgVars, ddlVars, outVars
<1>13. CASE ForwardEnds
  BY <1>13 DEF ForwardEnds, TypeOK, notRun, pgVars, chVars, ddlVars, outVars
<1>14. CASE ForwardPush
  BY <1>14 DEF ForwardPush, TypeOK, notRun, pgVars, chVars, ddlVars
<1>15. CASE ForwardCall
  BY <1>15 DEF ForwardCall, TypeOK, notRun, pgVars, chVars, ddlVars, Event
<1>16. CASE DdlPush \/ MarkerPush
  <2>1. pushed' \in Seq(Event) /\ side' \in 0 .. MaxSide /\ dpc' \in {"off", "wait", "call"}
    <3>1. pushed' = Append(pushed, SideEvent)
      BY <1>16 DEF DdlPush, MarkerPush
    <3>2. pushed \in Seq(Event) /\ Append(pushed, SideEvent) \in Seq(Event)
      BY <1>s DEF TypeOK
    <3>3. side' \in 0 .. MaxSide /\ dpc' \in {"off", "wait", "call"}
      BY <1>16 DEF DdlPush, MarkerPush, TypeOK, notSide
    <3> QED BY <3>1, <3>2, <3>3, Zenon
  <2> QED BY <1>16, <2>1 DEF DdlPush, MarkerPush, TypeOK, notSide, notRun, pgVars, chVars, fwdVars
<1>17. CASE DdlCall
  BY <1>17, EventFacts DEF DdlCall, TypeOK, notSide, notRun, pgVars, chVars, fwdVars, ddlVars
<1>17a. CASE DdlEnds
  BY <1>17a DEF DdlEnds, TypeOK, notSide, notRun, pgVars, chVars, fwdVars, outVars
<1>18. CASE UNCHANGED vars
  BY <1>18 DEF vars, TypeOK, pgVars, lstVars, chVars, fwdVars, ddlVars, outVars
<1> QED
  BY <1>1, <1>2, <1>3, <1>4, <1>5, <1>6, <1>7, <1>8, <1>8a, <1>9, <1>10, <1>11, <1>12, <1>13, <1>14,
     <1>15, <1>16, <1>17, <1>17a, <1>18
  DEF Next, Postgres, Listener, Runner, Forwarder, SideTasks

\* Every variable keeps its type: positions, versions, the channel its bound,
\* and IDs never run ahead of the messages received.
THEOREM TypeCorrect == Spec => []TypeOK
BY TypeInit, TypeStep, PTL DEF Spec
------------------------------------------------------------------------------
(* Run ends with everything delivered. *)

RunInv ==
    /\ run \in {"prepare", "start"} => ~inClosed
    /\ inClosed => lpc = "returned"
    /\ run = "prepare" <=> lpc = "idle"
    /\ fpc = "done" => ctxDone \/ (inClosed /\ listenerIn = << >>)
    /\ run = "returned" => fpc = "done"

LEMMA RunStep == RunInv /\ [Next]_vars => RunInv'
<1> SUFFICES ASSUME RunInv, [Next]_vars PROVE RunInv'
  OBVIOUS
<1> USE DEF RunInv, notPg, notLst, notRun, notSide, pgVars, lstVars, chVars, fwdVars, ddlVars, outVars
<1>1. CASE Postgres \/ Cancel
  <2>1. UNCHANGED <<run, lpc, inClosed, listenerIn, fpc>> /\ (ctxDone => ctxDone')
    BY <1>1 DEF Postgres, WriteChange, CommitTx, AlterTable, WriteOther, Disconnect, Cancel
  <2> QED BY <2>1
<1>2. CASE SetupDone \/ SetupFails \/ LoopEnds
  <2>1. /\ lpc \in {"setup", "loop"} /\ lpc' \in {"loop", "returned"}
        /\ UNCHANGED <<run, inClosed, listenerIn, fpc, ctxDone>>
    BY <1>2 DEF SetupDone, SetupFails, LoopEnds
  <2> QED BY <2>1
<1>3. CASE Ack
  BY <1>3 DEF Ack
<1>4. CASE Receive
  <2>1. ~inClosed /\ lpc = "loop"
    BY <1>4 DEF Receive
  <2>2. UNCHANGED <<run, inClosed, lpc, fpc, ctxDone>> /\ ~ctxDone
    BY <1>4 DEF Receive
  <2> QED BY <2>1, <2>2
<1>5. CASE Runner
  BY <1>5 DEF Runner, Prepare, RunCloses, RunReturns
<1>6. CASE Forwarder
  BY <1>6 DEF Forwarder, ForwardTake, ForwardEnds, ForwardPush, ForwardCall
<1>7. CASE SideTasks
  BY <1>7 DEF SideTasks, DdlPush, DdlCall, DdlEnds, MarkerPush
<1>8. CASE UNCHANGED vars
  BY <1>8 DEF vars
<1> QED BY <1>1, <1>2, <1>3, <1>4, <1>5, <1>6, <1>7, <1>8 DEF Next, Listener

\* When Run returns its forwarder has ended, and unless ctx was cancelled all
\* that the listener had accepted is in the store (runner.go:56-61).
THEOREM NothingLeftBehind == Spec => []ReturnsDrained
<1>1. Init => RunInv
  BY DEF Init, RunInv
<1>2. RunInv => ReturnsDrained
  BY DEF RunInv, ReturnsDrained
<1> QED BY <1>1, <1>2, RunStep, PTL DEF Spec
------------------------------------------------------------------------------
(* The steps, by what they do to Postgres and to the listener. *)

LEMMA Steps ==
    ASSUME [Next]_vars
    PROVE  \/ \E x \in Txs : WriteChange(x) \/ CommitTx(x)
           \/ AlterTable \/ WriteOther
           \/ SetupDone \/ SetupFails \/ Ack \/ Receive \/ LoopEnds \/ Prepare
           \/ UNCHANGED <<pgVars, acked, lstVars>>
<1> USE DEF notLst, notRun, notSide, lstVars
<1>1. CASE Disconnect \/ Cancel
  BY <1>1 DEF Disconnect, Cancel
<1>2. CASE RunCloses \/ RunReturns
  BY <1>2 DEF RunCloses, RunReturns
<1>3. CASE Forwarder
  BY <1>3 DEF Forwarder, ForwardTake, ForwardEnds, ForwardPush, ForwardCall
<1>4. CASE SideTasks
  BY <1>4 DEF SideTasks, DdlPush, DdlCall, DdlEnds, MarkerPush
<1>5. CASE UNCHANGED vars
  BY <1>5 DEF vars
<1> QED BY <1>1, <1>2, <1>3, <1>4, <1>5 DEF Next, Postgres, Listener, Runner

LEMMA PostgresSteps ==
    ASSUME [Next]_vars
    PROVE  \/ \E x \in Txs : WriteChange(x) \/ CommitTx(x)
           \/ AlterTable \/ WriteOther
           \/ UNCHANGED pgVars
BY Steps DEF SetupDone, SetupFails, Ack, Receive, LoopEnds, Prepare, notLst, notRun

LEMMA IndexParts ==
    ASSUME NEW n \in Nat, NEW o \in Nat, NEW r \in {0, 1}, NEW k \in 1 .. n + r + o + 1
    PROVE  \/ k \in 1 .. n \/ (r = 1 /\ k = n + 1)
           \/ \E i \in 1 .. o : k = n + r + i
           \/ k = n + r + o + 1
<1>1. CASE k > n + r /\ k <= n + r + o
  <2>1. k - n - r \in 1 .. o /\ k = n + r + (k - n - r)
    BY <1>1
  <2> QED BY <2>1
<1> QED BY <1>1

LEMMA MsgFacts ==
    \A k, l, v : Msg(k, l, v).kind = k /\ Msg(k, l, v).lsn = l /\ Msg(k, l, v).ver = v
BY DEF Msg

LEMMA MessageTypes ==
    ASSUME TypeOK
    PROVE  /\ lsn \in Int /\ stream \in Seq(Message) /\ Len(stream) \in Nat
           /\ \A k \in 1 .. Len(stream) : stream[k] \in Message /\ stream[k].lsn \in Int
           /\ \A x \in Txs : /\ open[x] \in Seq(Message) /\ Len(open[x]) \in Nat
                             /\ \A i \in 1 .. Len(open[x]) :
                                   open[x][i] \in Message /\ open[x][i].lsn \in Int
<1>1. /\ lsn \in Int /\ stream \in Seq(Message)
      /\ \A x \in Txs : open[x] \in Seq(Message)
  BY DEF TypeOK
<1>2. \A s \in Seq(Message) : Len(s) \in Nat /\ \A i \in 1 .. Len(s) : s[i] \in Message
  OBVIOUS
<1>3. \A m \in Message : m.lsn \in Int
  BY DEF Message
<1> QED BY <1>1, <1>2, <1>3

\* The stream after a commit: the n messages there were, r Relation messages,
\* the o changes of the transaction, the Commit.
CommitIs(x, n, o, r) ==
    /\ n = Len(stream) /\ o = Len(open[x]) /\ o >= 1
    /\ r = 0 <=> open[x][1].ver = told
    /\ Len(stream') = n + r + o + 1
    /\ \A k \in 1 .. n : stream'[k] = stream[k]
    /\ r = 1 => stream'[n + 1] = Msg("relation", open[x][1].lsn, open[x][1].ver)
    /\ \A i \in 1 .. o : stream'[n + r + i] = open[x][i]
    /\ stream'[n + r + o + 1] = Msg("commit", lsn + 1, 0)
    /\ \A k \in 1 .. Len(stream') :
          \/ k \in 1 .. n
          \/ r = 1 /\ k = n + 1
          \/ \E i \in 1 .. o : k = n + r + i
          \/ k = n + r + o + 1

LEMMA CommitShape ==
    ASSUME TypeOK, NEW x \in Txs, CommitTx(x)
    PROVE  \E n, o \in Nat, r \in {0, 1} : CommitIs(x, n, o, r)
<1> DEFINE n == Len(stream)
           o == Len(open[x])
           r == Len(Relation(x))
           t == Streamed(x)
<1>1. /\ stream \in Seq(Message) /\ open[x] \in Seq(Message) /\ n \in Nat /\ o \in Nat
  BY MessageTypes
<1>2. o >= 1 /\ Head(open[x]) = open[x][1]
  BY <1>1 DEF CommitTx
<1>3. /\ r \in {0, 1} /\ r \in Nat /\ (r = 0 <=> open[x][1].ver = told)
      /\ r = 1 => Relation(x)[1] = Msg("relation", open[x][1].lsn, open[x][1].ver)
  BY <1>2 DEF Relation
<1>4. /\ t \in Seq(Message) /\ stream' = stream \o t /\ Len(t) = r + o + 1
      /\ \A i \in 1 .. r : t[i] = Relation(x)[i]
      /\ \A i \in 1 .. o : t[r + i] = open[x][i]
      /\ t[r + o + 1] = Msg("commit", lsn + 1, 0)
  BY StreamedShape
<1>n. n \in Nat /\ o \in Nat /\ r \in Nat
  BY <1>1, <1>3
<1> HIDE DEF t, r
<1>5. /\ Len(stream') = n + Len(t)
      /\ \A k \in 1 .. n : stream'[k] = stream[k]
      /\ \A i \in 1 .. Len(t) : stream'[n + i] = t[i]
  BY <1>1, <1>4
<1>6. r = 1 => stream'[n + 1] = Msg("relation", open[x][1].lsn, open[x][1].ver)
  BY <1>1, <1>2, <1>3, <1>4, <1>5
<1>7. ASSUME NEW i \in 1 .. o PROVE stream'[n + r + i] = open[x][i]
  <2>1. r + i \in 1 .. Len(t)
    BY <1>1, <1>3, <1>4
  <2>2. stream'[n + (r + i)] = t[r + i] /\ t[r + i] = open[x][i]
    BY <1>4, <1>5, <2>1, Zenon
  <2>3. n + (r + i) = n + r + i
    BY <1>n
  <2> QED BY <2>2, <2>3, Zenon
<1>8. stream'[n + r + o + 1] = Msg("commit", lsn + 1, 0)
  <2>1. r + o + 1 \in 1 .. Len(t)
    BY <1>1, <1>3, <1>4
  <2>2. stream'[n + (r + o + 1)] = t[r + o + 1] /\ t[r + o + 1] = Msg("commit", lsn + 1, 0)
    BY <1>4, <1>5, <2>1, Zenon
  <2> HIDE DEF n, o
  <2>3. n + (r + o + 1) = n + r + o + 1
    BY <1>n
  <2> QED BY <2>2, <2>3
<1>9. Len(stream') = n + r + o + 1
  <2>1. Len(stream') = n + (r + o + 1)
    BY <1>4, <1>5, Zenon
  <2> HIDE DEF n, o
  <2> QED BY <1>n, <2>1
<1>10. ASSUME NEW k \in 1 .. Len(stream')
       PROVE  \/ k \in 1 .. n \/ (r = 1 /\ k = n + 1)
              \/ \E i \in 1 .. o : k = n + r + i
              \/ k = n + r + o + 1
  <2> HIDE DEF n, o
  <2> QED BY <1>n, <1>3, <1>9, IndexParts
<1>11. n = Len(stream) /\ o = Len(open[x])
  OBVIOUS
<1> HIDE DEF n, o
<1>12. r \in {0, 1}
  BY <1>3
<1>13. CommitIs(x, n, o, r)
  BY <1>2, <1>3, <1>5, <1>6, <1>7, <1>8, <1>9, <1>10, <1>11 DEF CommitIs
<1> QED BY <1>n, <1>12, <1>13
------------------------------------------------------------------------------
(* What Postgres writes and streams. *)

\* A transaction's changes are of the table as it is, and every record has a
\* position of its own.
OpenInv ==
    /\ \A x \in Txs : \A i \in 1 .. Len(open[x]) :
          /\ open[x][i].kind = "change" /\ open[x][i].ver = ver /\ open[x][i].lsn < lsn
    /\ \A x \in Txs : \A i, j \in 1 .. Len(open[x]) : open[x][i].lsn = open[x][j].lsn => i = j
    /\ \A x, y \in Txs : x # y =>
          \A i \in 1 .. Len(open[x]), j \in 1 .. Len(open[y]) : open[x][i].lsn # open[y][j].lsn

\* No change is streamed twice, and a Commit is behind all that came before it.
StreamInv ==
    /\ \A k \in 1 .. Len(stream) :
          stream[k].lsn <= lsn /\ (stream[k].kind = "change" => stream[k].lsn < lsn)
    /\ \A k \in 1 .. Len(stream), x \in Txs : \A i \in 1 .. Len(open[x]) :
          stream[k].kind = "change" => stream[k].lsn # open[x][i].lsn
    /\ \A k, l \in 1 .. Len(stream) :
          stream[k].kind = "change" /\ stream[l].kind = "change" /\ stream[k].lsn = stream[l].lsn
             => k = l
    /\ \A k, l \in 1 .. Len(stream) :
          k < l /\ stream[l].kind = "commit" => stream[k].lsn < stream[l].lsn

LEMMA OpenStep == TypeOK /\ OpenInv /\ [Next]_vars => OpenInv'
<1> SUFFICES ASSUME TypeOK, OpenInv, [Next]_vars PROVE OpenInv'
  OBVIOUS
<1>1. ASSUME NEW x \in Txs, WriteChange(x) PROVE OpenInv'
  <2> DEFINE m == Msg("change", lsn, ver)
  <2>1. /\ open' = [open EXCEPT ![x] = Append(@, m)] /\ lsn' = lsn + 1 /\ ver' = ver
        /\ m.kind = "change" /\ m.ver = ver /\ m.lsn = lsn
    BY <1>1 DEF WriteChange, Msg
  <2> HIDE DEF m
  <2>2. /\ open[x] \in Seq(Message) /\ lsn \in Nat
        /\ \A y \in Txs : y # x => open'[y] = open[y]
        /\ open'[x] = Append(open[x], m)
    BY <2>1 DEF TypeOK
  <2>3. /\ Len(open'[x]) = Len(open[x]) + 1 /\ Len(open[x]) \in Nat
        /\ \A i \in 1 .. Len(open'[x]) :
              open'[x][i] = IF i = Len(open[x]) + 1 THEN m ELSE open[x][i]
    BY <2>2
  <2>4. \A y \in Txs : \A i \in 1 .. Len(open[y]) : open[y][i].lsn < lsn /\ open[y][i].lsn \in Int
    BY MessageTypes DEF OpenInv
  <2>5. ASSUME NEW y \in Txs, NEW i \in 1 .. Len(open'[y])
        PROVE  /\ open'[y][i].kind = "change" /\ open'[y][i].ver = ver
               /\ open'[y][i].lsn < lsn'
    BY <2>1, <2>2, <2>3, <2>4 DEF OpenInv
  <2>6. ASSUME NEW y \in Txs, NEW i \in 1 .. Len(open'[y]), NEW j \in 1 .. Len(open'[y]),
               open'[y][i].lsn = open'[y][j].lsn
        PROVE  i = j
    BY <2>1, <2>2, <2>3, <2>4, <2>6 DEF OpenInv
  <2>7. ASSUME NEW y \in Txs, NEW z \in Txs, y # z,
               NEW i \in 1 .. Len(open'[y]), NEW j \in 1 .. Len(open'[z])
        PROVE  open'[y][i].lsn # open'[z][j].lsn
    BY <2>1, <2>2, <2>3, <2>4, <2>7 DEF OpenInv
  <2> QED BY <2>1, <2>5, <2>6, <2>7 DEF OpenInv
<1>2. ASSUME NEW x \in Txs, CommitTx(x) PROVE OpenInv'
  <2>1. /\ lsn' = lsn + 1 /\ ver' = ver /\ lsn \in Nat
        /\ \A y \in Txs : y # x => open'[y] = open[y]
        /\ open'[x] = << >> /\ Len(open'[x]) = 0
    BY <1>2 DEF CommitTx, TypeOK
  <2>2. \A y \in Txs : \A i \in 1 .. Len(open[y]) : open[y][i].lsn < lsn + 1
    BY <2>1, MessageTypes DEF OpenInv
  <2>3. ASSUME NEW y \in Txs, NEW i \in 1 .. Len(open'[y])
        PROVE  y # x /\ open'[y] = open[y]
    BY <2>1, <2>3
  <2>4. ASSUME NEW y \in Txs, NEW i \in 1 .. Len(open'[y])
        PROVE  /\ open'[y][i].kind = "change" /\ open'[y][i].ver = ver'
               /\ open'[y][i].lsn < lsn'
    BY <2>1, <2>2, <2>3 DEF OpenInv
  <2>5. ASSUME NEW y \in Txs, NEW i \in 1 .. Len(open'[y]), NEW j \in 1 .. Len(open'[y]),
               open'[y][i].lsn = open'[y][j].lsn
        PROVE  i = j
    BY <2>3, <2>5 DEF OpenInv
  <2>6. ASSUME NEW y \in Txs, NEW z \in Txs, y # z,
               NEW i \in 1 .. Len(open'[y]), NEW j \in 1 .. Len(open'[z])
        PROVE  open'[y][i].lsn # open'[z][j].lsn
    BY <2>3, <2>6 DEF OpenInv
  <2> QED BY <2>4, <2>5, <2>6 DEF OpenInv
<1>3. CASE AlterTable
  <2>1. open' = open /\ lsn' = lsn /\ \A x \in Txs : Len(open[x]) = 0
    BY <1>3 DEF AlterTable
  <2> QED BY <2>1 DEF OpenInv
<1>4. CASE WriteOther
  <2>1. open' = open /\ lsn' = lsn + 1 /\ ver' = ver /\ lsn \in Nat
    BY <1>4 DEF WriteOther, TypeOK
  <2>2. \A y \in Txs : \A i \in 1 .. Len(open[y]) : open[y][i].lsn < lsn + 1
    BY <2>1, MessageTypes DEF OpenInv
  <2> QED BY <2>1, <2>2 DEF OpenInv
<1>5. CASE UNCHANGED pgVars
  BY <1>5 DEF OpenInv, pgVars
<1> QED BY <1>1, <1>2, <1>3, <1>4, <1>5, PostgresSteps

LEMMA StreamStep == TypeOK /\ OpenInv /\ StreamInv /\ [Next]_vars => StreamInv'
<1> SUFFICES ASSUME TypeOK, OpenInv, StreamInv, [Next]_vars PROVE StreamInv'
  OBVIOUS
<1>t. /\ lsn \in Int /\ Len(stream) \in Nat
      /\ \A k \in 1 .. Len(stream) : stream[k].lsn \in Int
      /\ \A x \in Txs : Len(open[x]) \in Nat /\ \A i \in 1 .. Len(open[x]) : open[x][i].lsn \in Int
  BY MessageTypes
<1>1. ASSUME NEW x \in Txs, WriteChange(x) PROVE StreamInv'
  <2>1. /\ stream' = stream /\ lsn' = lsn + 1
        /\ \A y \in Txs : y # x => open'[y] = open[y]
        /\ Len(open'[x]) = Len(open[x]) + 1
        /\ \A i \in 1 .. Len(open[x]) : open'[x][i] = open[x][i]
        /\ open'[x][Len(open[x]) + 1].lsn = lsn
    BY <1>1, MessageTypes DEF WriteChange, TypeOK, Msg
  <2>2. \A i \in 1 .. Len(open'[x]) : i \in 1 .. Len(open[x]) \/ i = Len(open[x]) + 1
    BY <1>t, <2>1
  <2>3. ASSUME NEW k \in 1 .. Len(stream), NEW y \in Txs, NEW i \in 1 .. Len(open'[y]),
               stream[k].kind = "change"
        PROVE  stream[k].lsn # open'[y][i].lsn
    <3>1. CASE y # x
      BY <2>1, <2>3, <3>1 DEF StreamInv
    <3>2. CASE y = x /\ i \in 1 .. Len(open[x])
      BY <2>1, <2>3, <3>2 DEF StreamInv
    <3>3. CASE y = x /\ i = Len(open[x]) + 1
      BY <1>t, <2>1, <2>3, <3>3 DEF StreamInv
    <3> QED BY <2>2, <3>1, <3>2, <3>3
  <2> QED BY <1>t, <2>1, <2>3 DEF StreamInv
<1>2. ASSUME NEW x \in Txs, CommitTx(x) PROVE StreamInv'
  <2>s. PICK n, o \in Nat, r \in {0, 1} : CommitIs(x, n, o, r)
    BY <1>2, CommitShape
  <2>1. /\ n = Len(stream) /\ o = Len(open[x]) /\ o >= 1
        /\ Len(stream') = n + r + o + 1
        /\ \A k \in 1 .. n : stream'[k] = stream[k]
        /\ stream'[n + r + o + 1] = Msg("commit", lsn + 1, 0)
    BY <2>s DEF CommitIs
  <2>2. /\ lsn' = lsn + 1
        /\ \A y \in Txs : \A i \in 1 .. Len(open'[y]) : y # x /\ open'[y] = open[y]
    <3>1. open'[x] = << >> /\ \A y \in Txs : y # x => open'[y] = open[y]
      BY <1>2 DEF CommitTx, TypeOK
    <3>2. \A i \in 1 .. Len(<< >>) : FALSE
      OBVIOUS
    <3> QED BY <1>2, <3>1, <3>2 DEF CommitTx
  <2>3. \A i \in 1 .. o : /\ open[x][i].lsn < lsn /\ open[x][i].lsn \in Int
                          /\ open[x][i].kind = "change"
    BY <1>t, <2>1 DEF OpenInv
  <2>4. ASSUME NEW k \in 1 .. n
        PROVE  /\ stream'[k] = stream[k] /\ k \in 1 .. Len(stream)
               /\ stream[k].lsn \in Int /\ stream[k].lsn <= lsn
               /\ stream[k].kind = "change" => stream[k].lsn < lsn
    BY <1>t, <2>1 DEF StreamInv
  <2>5. r = 1 => /\ stream'[n + 1].kind = "relation"
                 /\ stream'[n + 1].lsn < lsn /\ stream'[n + 1].lsn \in Int
    <3>1. 1 \in 1 .. o
      BY <2>1
    <3>2. r = 1 => stream'[n + 1] = Msg("relation", open[x][1].lsn, open[x][1].ver)
      BY <2>s DEF CommitIs
    <3>3. open[x][1].lsn < lsn /\ open[x][1].lsn \in Int
      BY <2>3, <3>1
    <3> QED BY <3>2, <3>3 DEF Msg
  <2>e. \A i \in 1 .. o : stream'[n + r + i] = open[x][i]
    BY <2>s DEF CommitIs
  <2>p. \A k \in 1 .. Len(stream') :
           \/ k \in 1 .. n
           \/ r = 1 /\ k = n + 1
           \/ \E i \in 1 .. o : k = n + r + i
           \/ k = n + r + o + 1
    BY <2>s DEF CommitIs
  <2>6. stream'[n + r + o + 1].kind = "commit" /\ stream'[n + r + o + 1].lsn = lsn + 1
    BY <2>1 DEF Msg
  <2>7. ASSUME NEW k \in 1 .. Len(stream')
        PROVE  stream'[k].lsn <= lsn' /\ (stream'[k].kind = "change" => stream'[k].lsn < lsn')
    <3>1. CASE k \in 1 .. n
      BY <1>t, <2>2, <2>4, <3>1
    <3>2. CASE r = 1 /\ k = n + 1
      BY <1>t, <2>2, <2>5, <3>2
    <3>3. CASE \E i \in 1 .. o : k = n + r + i
      <4>1. PICK i \in 1 .. o : k = n + r + i
        BY <3>3
      <4>2. stream'[k] = open[x][i]
        BY <2>e, <4>1
      <4> QED BY <1>t, <2>2, <2>3, <4>2
    <3>4. CASE k = n + r + o + 1
      BY <1>t, <2>2, <2>6, <3>4
    <3> QED BY <2>p, <3>1, <3>2, <3>3, <3>4
  <2>8. ASSUME NEW k \in 1 .. Len(stream'), stream'[k].kind = "change"
        PROVE  k \in 1 .. n \/ \E i \in 1 .. o : k = n + r + i /\ stream'[k] = open[x][i]
    BY <2>p, <2>e, <2>5, <2>6, <2>8
  <2>9. ASSUME NEW k \in 1 .. Len(stream'), NEW y \in Txs, NEW i \in 1 .. Len(open'[y]),
               stream'[k].kind = "change"
        PROVE  stream'[k].lsn # open'[y][i].lsn
    <3>1. y # x /\ open'[y] = open[y] /\ i \in 1 .. Len(open[y])
      BY <2>2
    <3>2. CASE k \in 1 .. n
      BY <2>4, <2>9, <3>1, <3>2 DEF StreamInv
    <3>3. CASE \E j \in 1 .. o : k = n + r + j /\ stream'[k] = open[x][j]
      BY <2>1, <3>1, <3>3 DEF OpenInv
    <3> QED BY <2>8, <2>9, <3>2, <3>3
  <2>10. ASSUME NEW k \in 1 .. Len(stream'), NEW l \in 1 .. Len(stream'),
                stream'[k].kind = "change", stream'[l].kind = "change",
                stream'[k].lsn = stream'[l].lsn
         PROVE  k = l
    <3>1. \A j \in 1 .. n, i \in 1 .. o : stream[j].kind = "change" => stream[j].lsn # open[x][i].lsn
      BY <2>1 DEF StreamInv
    <3>2. \A i, j \in 1 .. o : open[x][i].lsn = open[x][j].lsn => i = j
      BY <2>1 DEF OpenInv
    <3>3. CASE k \in 1 .. n /\ l \in 1 .. n
      BY <2>4, <2>10, <3>3 DEF StreamInv
    <3>4. CASE k \in 1 .. n /\ \E i \in 1 .. o : l = n + r + i /\ stream'[l] = open[x][i]
      BY <2>4, <2>10, <3>1, <3>4
    <3>5. CASE l \in 1 .. n /\ \E i \in 1 .. o : k = n + r + i /\ stream'[k] = open[x][i]
      BY <2>4, <2>10, <3>1, <3>5
    <3>6. CASE /\ \E i \in 1 .. o : k = n + r + i /\ stream'[k] = open[x][i]
               /\ \E i \in 1 .. o : l = n + r + i /\ stream'[l] = open[x][i]
      BY <2>10, <3>2, <3>6
    <3> QED BY <2>8, <2>10, <3>3, <3>4, <3>5, <3>6
  <2>11. ASSUME NEW k \in 1 .. Len(stream'), NEW l \in 1 .. Len(stream'),
                k < l, stream'[l].kind = "commit"
         PROVE  stream'[k].lsn < stream'[l].lsn
    <3>1. l \in 1 .. n \/ l = n + r + o + 1
      BY <2>p, <2>e, <2>3, <2>5, <2>11
    <3>2. CASE l \in 1 .. n
      <4>1. k \in 1 .. n
        BY <2>11, <3>2
      <4> QED BY <2>4, <2>11, <3>2, <4>1 DEF StreamInv
    <3>3. CASE l = n + r + o + 1
      <4>1. k \in 1 .. n \/ (r = 1 /\ k = n + 1) \/ (\E i \in 1 .. o : k = n + r + i)
        <5>1. k # n + r + o + 1
          BY <2>11, <3>3
        <5> QED BY <2>p, <5>1
      <4>2. stream'[k].lsn <= lsn /\ stream'[k].lsn \in Int
        <5>1. CASE k \in 1 .. n
          BY <2>4, <5>1
        <5>2. CASE r = 1 /\ k = n + 1
          BY <1>t, <2>5, <5>2
        <5>3. CASE \E i \in 1 .. o : k = n + r + i
          <6>1. PICK i \in 1 .. o : k = n + r + i
            BY <5>3
          <6>2. stream'[k] = open[x][i]
            BY <2>e, <6>1
          <6> QED BY <1>t, <2>3, <6>2
        <5> QED BY <4>1, <5>1, <5>2, <5>3
      <4> QED BY <1>t, <2>6, <3>3, <4>2
    <3> QED BY <3>1, <3>2, <3>3
  <2> QED BY <2>7, <2>9, <2>10, <2>11 DEF StreamInv
<1>3. CASE AlterTable \/ UNCHANGED pgVars
  BY <1>3 DEF StreamInv, AlterTable, pgVars
<1>4. CASE WriteOther
  <2>1. UNCHANGED <<open, stream>> /\ lsn' = lsn + 1
    BY <1>4 DEF WriteOther
  <2> QED BY <1>t, <2>1 DEF StreamInv
<1> QED BY <1>1, <1>2, <1>3, <1>4, PostgresSteps
------------------------------------------------------------------------------
(* Acknowledgement. *)

\* Nothing is acknowledged beyond the position reached, and that lies before
\* every commit still to be received.
AckInv ==
    /\ lpc \in {"idle", "setup"} => stream = << >> /\ pos = 0
    /\ acked <= pos /\ pos <= lsn
    /\ \A k \in 1 .. Len(stream) : k >= next /\ stream[k].kind = "commit" => pos < stream[k].lsn

LEMMA AckStep == TypeOK /\ RunInv /\ OpenInv /\ StreamInv /\ AckInv /\ [Next]_vars => AckInv'
<1> SUFFICES ASSUME TypeOK, RunInv, OpenInv, StreamInv, AckInv, [Next]_vars PROVE AckInv'
  OBVIOUS
<1>t. /\ lsn \in Int /\ Len(stream) \in Nat /\ pos \in Nat /\ acked \in Nat /\ next \in Nat
      /\ \A k \in 1 .. Len(stream) : stream[k].lsn \in Int
  BY MessageTypes DEF TypeOK
<1>1. CASE (\E x \in Txs : WriteChange(x)) \/ WriteOther
  <2>1. /\ UNCHANGED <<stream, acked, lpc, next, pos>> /\ lsn' = lsn + 1
    BY <1>1 DEF WriteChange, WriteOther, notPg, lstVars
  <2> QED BY <1>t, <2>1 DEF AckInv
<1>2. ASSUME NEW x \in Txs, CommitTx(x) PROVE AckInv'
  <2>s. PICK n, o \in Nat, r \in {0, 1} : CommitIs(x, n, o, r)
    BY <1>2, CommitShape
  <2>1. /\ UNCHANGED <<acked, lpc, next, pos>> /\ lsn' = lsn + 1 /\ lpc = "loop"
    BY <1>2 DEF CommitTx, Followed, notPg, lstVars
  <2>2. \A i \in 1 .. o : open[x][i].kind = "change"
    BY <2>s DEF CommitIs, OpenInv
  <2>3. ASSUME NEW k \in 1 .. Len(stream'), k >= next, stream'[k].kind = "commit"
        PROVE  pos < stream'[k].lsn
    <3>1. k \in 1 .. n \/ k = n + r + o + 1
      <4>1. /\ \A i \in 1 .. o : stream'[n + r + i].kind = "change"
            /\ r = 1 => stream'[n + 1].kind = "relation"
        <5>1. /\ \A i \in 1 .. o : stream'[n + r + i] = open[x][i]
              /\ r = 1 => stream'[n + 1] = Msg("relation", open[x][1].lsn, open[x][1].ver)
          BY <2>s DEF CommitIs
        <5>2. \A i \in 1 .. o : stream'[n + r + i].kind = "change"
          BY <2>2, <5>1, Zenon
        <5>3. r = 1 => stream'[n + 1].kind = "relation"
          BY <5>1 DEF Msg
        <5> QED BY <5>2, <5>3
      <4>2. \/ k \in 1 .. n
            \/ r = 1 /\ k = n + 1
            \/ \E i \in 1 .. o : k = n + r + i
            \/ k = n + r + o + 1
        BY <2>s DEF CommitIs
      <4> QED BY <2>3, <4>1, <4>2
    <3>2. CASE k \in 1 .. n
      BY <2>s, <2>3, <3>2 DEF CommitIs, AckInv
    <3>3. CASE k = n + r + o + 1
      <4>1. stream'[k].lsn = lsn + 1
        <5>1. stream'[n + r + o + 1] = Msg("commit", lsn + 1, 0)
          BY <2>s DEF CommitIs
        <5> QED BY <3>3, <5>1, MsgFacts
      <4> QED BY <1>t, <4>1 DEF AckInv
    <3> QED BY <3>1, <3>2, <3>3
  <2> QED BY <1>t, <2>1, <2>3 DEF AckInv
<1>3. CASE AlterTable \/ UNCHANGED <<pgVars, acked, lstVars>>
  BY <1>3 DEF AckInv, AlterTable, notPg, pgVars, lstVars
<1>4. CASE SetupDone
  <2>1. /\ UNCHANGED <<stream, lsn, acked, next>> /\ lpc = "setup" /\ lpc' = "loop" /\ pos' = lsn
    BY <1>4 DEF SetupDone, notLst, pgVars
  <2>2. Len(<< >>) = 0
    OBVIOUS
  <2> QED BY <1>t, <2>1, <2>2 DEF AckInv
<1>5. CASE SetupFails \/ LoopEnds
  <2>1. UNCHANGED <<stream, lsn, acked, next, pos>> /\ lpc' = "returned"
    BY <1>5 DEF SetupFails, LoopEnds, notLst, pgVars
  <2> QED BY <2>1 DEF AckInv
<1>5a. CASE Prepare
  <2>1. /\ UNCHANGED <<stream, lsn, acked, next, pos>>
        /\ lpc = "idle" /\ lpc' = "setup"
    BY <1>5a DEF Prepare, RunInv, notRun, pgVars
  <2> QED BY <2>1 DEF AckInv
<1>6. CASE Ack
  <2>1. UNCHANGED <<stream, lsn, lpc, next, pos>> /\ acked' = pos
    BY <1>6 DEF Ack, notLst, pgVars, lstVars
  <2> QED BY <1>t, <2>1 DEF AckInv
<1>7. CASE Receive
  <2> DEFINE m == stream[next]
  <2>1. /\ UNCHANGED <<stream, lsn, acked, lpc>> /\ next' = next + 1 /\ lpc = "loop"
        /\ next \in 1 .. Len(stream) /\ pos' \in {pos, Advance(m)}
    BY <1>t, <1>7 DEF Receive, notLst, pgVars, TypeOK
  <2>2. m.lsn \in Int /\ m.lsn <= lsn
    BY <1>t, <2>1 DEF StreamInv
  <2>3. pos' \in Int /\ pos <= pos' /\ pos' <= lsn /\ (pos' = pos \/ pos' = m.lsn)
    BY <1>t, <2>1, <2>2 DEF Advance, AckInv
  <2>4. \A k \in 1 .. Len(stream) : k >= next + 1 /\ stream[k].kind = "commit" =>
           m.lsn < stream[k].lsn /\ pos < stream[k].lsn
    BY <1>t, <2>1 DEF StreamInv, AckInv
  <2> QED BY <1>t, <2>1, <2>3, <2>4 DEF AckInv
<1> QED BY <1>1, <1>2, <1>3, <1>4, <1>5, <1>5a, <1>6, <1>7, Steps

AckInvariants == TypeOK /\ RunInv /\ OpenInv /\ StreamInv /\ AckInv

LEMMA AckInvariant == Spec => []AckInvariants
<1>1. Init => AckInvariants
  <2> SUFFICES ASSUME Init PROVE AckInvariants
    OBVIOUS
  <2>1. Len(<< >>) = 0
    OBVIOUS
  <2>2. OpenInv /\ StreamInv /\ AckInv
    BY <2>1 DEF Init, OpenInv, StreamInv, AckInv
  <2> QED BY <2>2, TypeInit DEF Init, RunInv, AckInvariants
<1>2. AckInvariants /\ [Next]_vars => AckInvariants'
  BY TypeStep, RunStep, OpenStep, StreamStep, AckStep DEF AckInvariants
<1> QED BY <1>1, <1>2, PTL DEF Spec

\* An acknowledgement never passes a commit that is still to be received, in
\* whatever order positions arrive (listener.go:134-148, 214-216).
THEOREM AcksAreSafe == Spec => []AckNeverSkips
<1>1. AckInvariants => AckNeverSkips
  <2> SUFFICES ASSUME AckInvariants,
                      NEW i \in DOMAIN stream, stream[i].kind = "commit", stream[i].lsn <= acked
               PROVE  i < next
    BY DEF AckNeverSkips
  <2>1. i \in 1 .. Len(stream) /\ stream[i].lsn \in Int /\ acked \in Nat /\ pos \in Nat /\ next \in Nat
    BY MessageTypes DEF AckInvariants, TypeOK
  <2> QED BY <2>1 DEF AckInvariants, AckInv
<1> QED BY <1>1, AckInvariant, PTL

\* The acknowledged position never goes back (listener.go:138-143, 214-216).
THEOREM AcksGoForward == Spec => AckNeverGoesBack
<1>1. AckInvariants /\ [Next]_vars => [acked' >= acked]_vars
  <2> SUFFICES ASSUME AckInvariants, [Next]_vars PROVE acked' >= acked \/ UNCHANGED vars
    OBVIOUS
  <2>1. acked \in Nat /\ pos \in Nat /\ acked <= pos
    BY DEF AckInvariants, TypeOK, AckInv
  <2>2. acked' \in {acked, pos}
    BY Steps DEF WriteChange, CommitTx, AlterTable, WriteOther, SetupDone, SetupFails, Ack,
                 Receive, LoopEnds, Prepare, notPg, notRun
  <2> QED BY <2>1, <2>2
<1> QED BY <1>1, AckInvariant, PTL DEF Spec, AckNeverGoesBack
------------------------------------------------------------------------------
(* The columns a change is decoded with. *)

\* The last Relation message up to k is at r.
IsLast(r, k) ==
    /\ r \in 1 .. k /\ stream[r].kind = "relation"
    /\ \A s \in r + 1 .. k : stream[s].kind # "relation"

\* pgoutput sends a change behind the Relation message of its version, and
\* knows which one it sent last.
VersionInv ==
    /\ Len(stream) = 0 => told = 0
    /\ Len(stream) > 0 =>
          \E r \in 1 .. Len(stream) : IsLast(r, Len(stream)) /\ stream[r].ver = told
    /\ \A k \in 1 .. Len(stream) : stream[k].kind = "change" =>
          /\ stream[k].ver # 0
          /\ \E r \in 1 .. k - 1 : IsLast(r, k - 1) /\ stream[r].ver = stream[k].ver

\* The cache holds the version of the last Relation message received.
CacheInv == \A r \in 1 .. next - 1 : IsLast(r, next - 1) => cache = stream[r].ver

\* The stream only grows, by commits.
LEMMA StreamGrows ==
    ASSUME TypeOK, [Next]_vars
    PROVE  /\ Len(stream) \in Nat /\ Len(stream') \in Nat /\ Len(stream) <= Len(stream')
           /\ \A k \in 1 .. Len(stream) : stream'[k] = stream[k]
<1>1. Len(stream) \in Nat
  BY MessageTypes
<1>2. ASSUME NEW x \in Txs, CommitTx(x)
      PROVE  /\ Len(stream') \in Nat /\ Len(stream) <= Len(stream')
             /\ \A k \in 1 .. Len(stream) : stream'[k] = stream[k]
  <2>1. PICK n, o \in Nat, r \in {0, 1} : CommitIs(x, n, o, r)
    BY <1>2, CommitShape
  <2>2. /\ n = Len(stream) /\ Len(stream') = n + r + o + 1
        /\ \A k \in 1 .. n : stream'[k] = stream[k]
    BY <2>1 DEF CommitIs
  <2> QED BY <2>2
<1>3. CASE UNCHANGED stream
  BY <1>1, <1>3
<1> QED BY <1>2, <1>3, PostgresSteps DEF WriteChange, AlterTable, WriteOther, pgVars

LEMMA LastKept ==
    ASSUME TypeOK, [Next]_vars, NEW k \in 0 .. Len(stream), NEW r \in Nat
    PROVE  IsLast(r, k)' <=> IsLast(r, k)
BY StreamGrows DEF IsLast

LEMMA VersionStep == TypeOK /\ OpenInv /\ VersionInv /\ [Next]_vars => VersionInv'
<1> SUFFICES ASSUME TypeOK, OpenInv, VersionInv, [Next]_vars PROVE VersionInv'
  OBVIOUS
<1>t. Len(stream) \in Nat /\ ver \in Nat \ {0}
  BY MessageTypes DEF TypeOK
<1>1. CASE UNCHANGED <<stream, told>>
  BY <1>1 DEF VersionInv, IsLast
<1>2. ASSUME NEW x \in Txs, CommitTx(x) PROVE VersionInv'
  <2>1. PICK n, o \in Nat, r \in {0, 1} : CommitIs(x, n, o, r)
    BY <1>2, CommitShape
  <2>2. /\ n = Len(stream) /\ Len(stream') = n + r + o + 1 /\ o >= 1
        /\ \A k \in 1 .. n : stream'[k] = stream[k]
    BY <2>1 DEF CommitIs
  <2>3. \A i \in 1 .. o : open[x][i].ver = ver /\ open[x][i].kind = "change"
    BY <2>1 DEF CommitIs, OpenInv
  <2>4. \A i \in 1 .. o : stream'[n + r + i].kind = "change" /\ stream'[n + r + i].ver = ver
    <3>1. \A i \in 1 .. o : stream'[n + r + i] = open[x][i]
      BY <2>1 DEF CommitIs
    <3> QED BY <2>3, <3>1
  <2>5. stream'[n + r + o + 1].kind = "commit"
    BY <2>1 DEF CommitIs, Msg
  <2>6. told' = ver
    <3>1. Head(open[x]) = open[x][1]
      BY <1>2, MessageTypes DEF CommitTx
    <3> QED BY <1>2, <2>2, <2>3, <3>1 DEF CommitTx
  <2>7. PICK q \in 1 .. n + r :
           /\ stream'[q].kind = "relation" /\ stream'[q].ver = ver
           /\ \A s \in q + 1 .. n + r : stream'[s].kind # "relation"
    <3>1. CASE r = 1
      <4>1. stream'[n + 1].kind = "relation" /\ stream'[n + 1].ver = ver
        <5>1. stream'[n + 1] = Msg("relation", open[x][1].lsn, open[x][1].ver)
          BY <2>1, <3>1 DEF CommitIs
        <5> QED BY <2>2, <2>3, <5>1 DEF Msg
      <4> QED BY <3>1, <4>1
    <3>2. CASE r = 0
      <4>1. told = ver
        BY <2>1, <2>2, <2>3, <3>2 DEF CommitIs
      <4>2. PICK q \in 1 .. n : IsLast(q, n) /\ stream[q].ver = told
        <5>1. Len(stream) > 0
          BY <1>t, <4>1 DEF VersionInv
        <5> QED BY <2>2, <5>1 DEF VersionInv
      <4> QED BY <2>2, <3>2, <4>1, <4>2 DEF IsLast
    <3> QED BY <3>1, <3>2
  <2>8. ASSUME NEW s \in q + 1 .. Len(stream') PROVE stream'[s].kind # "relation"
    <3>1. \/ s \in q + 1 .. n + r
          \/ s - n - r \in 1 .. o /\ s = n + r + (s - n - r)
          \/ s = n + r + o + 1
      BY <2>2
    <3> QED BY <2>4, <2>5, <2>7, <3>1
  <2>9. \A k \in q .. Len(stream') : IsLast(q, k)'
    BY <2>2, <2>7, <2>8 DEF IsLast
  <2>10. ASSUME NEW k \in 1 .. Len(stream'), stream'[k].kind = "change"
         PROVE  /\ stream'[k].ver # 0
                /\ \E p \in 1 .. k - 1 : IsLast(p, k - 1)' /\ stream'[p].ver = stream'[k].ver
    <3>1. CASE k \in 1 .. n
      <4>1. stream'[k] = stream[k] /\ k - 1 \in 0 .. Len(stream)
        BY <2>2, <3>1
      <4>2. PICK p \in 1 .. k - 1 : IsLast(p, k - 1) /\ stream[p].ver = stream[k].ver
        BY <2>2, <2>10, <3>1, <4>1 DEF VersionInv
      <4>3. IsLast(p, k - 1)'
        BY <4>1, <4>2, LastKept
      <4>4. stream'[p].ver = stream'[k].ver
        BY <2>2, <3>1, <4>1, <4>2
      <4>5. stream'[k].ver # 0
        BY <2>2, <2>10, <3>1, <4>1 DEF VersionInv
      <4> QED BY <4>3, <4>4, <4>5
    <3>2. CASE k - n - r \in 1 .. o
      <4>1. k = n + r + (k - n - r) /\ q \in 1 .. k - 1 /\ k - 1 \in q .. Len(stream')
        BY <2>2, <3>2
      <4>2. stream'[k].ver = ver
        BY <2>4, <3>2, <4>1
      <4> QED BY <1>t, <2>7, <2>9, <4>1, <4>2
    <3>3. k \in 1 .. n \/ k - n - r \in 1 .. o
      <4>1. k # n + r + o + 1 /\ ~(k \in q .. q)
        BY <2>5, <2>7, <2>10
      <4>2. r = 1 => stream'[n + 1].kind = "relation"
        <5>1. r = 1 => stream'[n + 1] = Msg("relation", open[x][1].lsn, open[x][1].ver)
          BY <2>1 DEF CommitIs
        <5> QED BY <5>1 DEF Msg
      <4> QED BY <2>2, <2>10, <4>1, <4>2
    <3> QED BY <3>1, <3>2, <3>3
  <2>11. q \in 1 .. Len(stream') /\ IsLast(q, Len(stream))'
    BY <2>2, <2>9 DEF IsLast
  <2> QED BY <1>t, <2>6, <2>7, <2>10, <2>11 DEF VersionInv
<1> QED BY <1>1, <1>2, PostgresSteps DEF WriteChange, AlterTable, WriteOther, notPg, pgVars

LEMMA CacheStep == TypeOK /\ CacheInv /\ [Next]_vars => CacheInv'
<1> SUFFICES ASSUME TypeOK, CacheInv, [Next]_vars PROVE CacheInv'
  OBVIOUS
<1>t. next \in 1 .. Len(stream) + 1 /\ Len(stream) \in Nat
  BY MessageTypes DEF TypeOK
<1>1. CASE UNCHANGED <<next, cache>>
  <2>1. \A r \in 1 .. next - 1 : stream'[r] = stream[r] /\ (IsLast(r, next - 1)' <=> IsLast(r, next - 1))
    BY <1>t, <1>1, StreamGrows, LastKept
  <2> QED BY <1>1, <2>1 DEF CacheInv
<1>2. CASE Receive
  <2>1. /\ stream' = stream /\ next' = next + 1 /\ next \in 1 .. Len(stream)
        /\ cache' = CacheUpdate(stream[next])
    BY <1>t, <1>2 DEF Receive, notLst, pgVars
  <2>2. ASSUME NEW r \in 1 .. next, IsLast(r, next) PROVE cache' = stream[r].ver
    <3>1. CASE r = next
      BY <2>1, <2>2, <3>1 DEF IsLast, CacheUpdate
    <3>2. CASE r \in 1 .. next - 1
      <4>1. IsLast(r, next - 1) /\ stream[next].kind # "relation"
        BY <1>t, <2>2, <3>2 DEF IsLast
      <4> QED BY <2>1, <3>2, <4>1 DEF CacheInv, CacheUpdate
    <3> QED BY <1>t, <3>1, <3>2
  <2>3. PICK n \in Nat : n = next
    BY <1>t
  <2>4. next' - 1 = n /\ stream' = stream
    BY <1>t, <2>1, <2>3
  <2>5. ASSUME NEW r \in 1 .. next' - 1, IsLast(r, next' - 1) PROVE cache' = stream[r].ver
    BY <2>2, <2>3, <2>4, <2>5, Zenon
  <2> QED BY <2>4, <2>5 DEF CacheInv, IsLast
<1> QED BY <1>1, <1>2, Steps DEF WriteChange, CommitTx, AlterTable, WriteOther, SetupDone, SetupFails,
        Ack, LoopEnds, Prepare, notPg, notRun, lstVars
------------------------------------------------------------------------------
(* The events handed on.  The forwarder moves them from the channel to the *)
(* store; a step adds at most one, the listener at the end, the other      *)
(* producers anywhere.                                                     *)

Same == Len(Handed') = Len(Handed) /\ \A i \in 1 .. Len(Handed) : Handed'[i] = Handed[i]

Grown(e) ==
    /\ Len(Handed') = Len(Handed) + 1 /\ Handed'[Len(Handed) + 1] = e
    /\ \A i \in 1 .. Len(Handed) : Handed'[i] = Handed[i]

Inserted(n) ==
    /\ Len(Handed') = Len(Handed) + 1 /\ Handed'[n + 1] = SideEvent
    /\ \A i \in 1 .. n : Handed'[i] = Handed[i]
    /\ \A i \in n + 1 .. Len(Handed) : Handed'[i + 1] = Handed[i]

InHand == IF fpc = "push" THEN <<hand>> ELSE << >>

LEMMA HandedParts ==
    ASSUME TypeOK
    PROVE  /\ Handed \in Seq(Event)
           /\ Len(Handed) \in Nat /\ Len(pushed) \in Nat /\ Len(InHand) \in Nat /\ Len(listenerIn) \in Nat
           /\ Len(Handed) = Len(pushed) + Len(InHand) + Len(listenerIn)
           /\ \A i \in 1 .. Len(pushed) : Handed[i] = pushed[i]
           /\ \A i \in 1 .. Len(InHand) : Handed[Len(pushed) + i] = InHand[i]
           /\ \A i \in 1 .. Len(listenerIn) : Handed[Len(pushed) + Len(InHand) + i] = listenerIn[i]
<1>1. pushed \in Seq(Event) /\ InHand \in Seq(Event) /\ listenerIn \in Seq(Event)
  BY DEF TypeOK, InHand
<1>2. Handed = pushed \o InHand \o listenerIn
  BY DEF Handed, InHand
<1> QED BY <1>1, <1>2

LEMMA AppendedTo ==
    ASSUME NEW S, NEW s \in Seq(S), NEW e \in S
    PROVE  /\ Len(Append(s, e)) = Len(s) + 1
           /\ \A i \in 1 .. Len(s) : Append(s, e)[i] = s[i]
           /\ Append(s, e)[Len(s) + 1] = e
OBVIOUS

LEMMA Joined ==
    ASSUME NEW S, NEW a \in Seq(S), NEW b \in Seq(S), NEW c \in Seq(S)
    PROVE  /\ Len(a) \in Nat /\ Len(b) \in Nat /\ Len(c) \in Nat
           /\ Len(a \o b \o c) = Len(a) + Len(b) + Len(c)
           /\ \A i \in 1 .. Len(a) : (a \o b \o c)[i] = a[i]
           /\ \A i \in 1 .. Len(b) : (a \o b \o c)[Len(a) + i] = b[i]
           /\ \A i \in 1 .. Len(c) : (a \o b \o c)[Len(a) + Len(b) + i] = c[i]
OBVIOUS

\* The forwarder takes the first event of the channel.
LEMMA TakeSame ==
    ASSUME NEW S, NEW a \in Seq(S), NEW c \in Seq(S), c # << >>
    PROVE  a \o <<Head(c)>> \o Tail(c) = a \o << >> \o c
<1>1. Head(c) \in S /\ Tail(c) \in Seq(S) /\ c = <<Head(c)>> \o Tail(c)
  <2>1. Head(c) \in S /\ Tail(c) \in Seq(S)
    OBVIOUS
  <2>2. /\ <<Head(c)>> \o Tail(c) \in Seq(S) /\ Len(<<Head(c)>> \o Tail(c)) = Len(c)
        /\ \A i \in 1 .. Len(c) : (<<Head(c)>> \o Tail(c))[i] = c[i]
    BY <2>1
  <2> QED BY <2>1, <2>2, SeqEqual
<1>2. a \o << >> = a /\ <<Head(c)>> \in Seq(S)
  BY <1>1
<1>3. (a \o <<Head(c)>>) \o Tail(c) = a \o (<<Head(c)>> \o Tail(c))
  BY <1>1, <1>2, ConcatAssociative
<1> QED BY <1>1, <1>2, <1>3, Zenon

\* It pushes the event it holds.
LEMMA PushSame ==
    ASSUME NEW S, NEW a \in Seq(S), NEW e \in S, NEW c \in Seq(S)
    PROVE  Append(a, e) \o << >> \o c = a \o <<e>> \o c
<1>1. Append(a, e) = a \o <<e>>
  <2>1. /\ Append(a, e) \in Seq(S) /\ a \o <<e>> \in Seq(S) /\ Len(Append(a, e)) = Len(a \o <<e>>)
        /\ \A i \in 1 .. Len(Append(a, e)) : Append(a, e)[i] = (a \o <<e>>)[i]
    OBVIOUS
  <2> QED BY <2>1, SeqEqual
<1>2. (a \o <<e>>) \in Seq(S) /\ (a \o <<e>>) \o << >> = a \o <<e>>
  OBVIOUS
<1> QED BY <1>1, <1>2, Zenon

LEMMA SideInserted ==
    ASSUME TypeOK, pushed' = Append(pushed, SideEvent), UNCHANGED <<InHand, listenerIn>>
    PROVE  Len(pushed) \in 0 .. Len(Handed) /\ Inserted(Len(pushed))
<1> DEFINE a == pushed
           b == InHand
           c == listenerIn
           d == Append(pushed, SideEvent)
<1>1. a \in Seq(Event) /\ b \in Seq(Event) /\ c \in Seq(Event) /\ d \in Seq(Event)
  BY EventFacts DEF TypeOK, InHand
<1>2. Handed = a \o b \o c /\ Handed' = d \o b \o c
  BY DEF Handed, InHand
<1>3. /\ Len(d) = Len(a) + 1 /\ d[Len(a) + 1] = SideEvent
      /\ \A i \in 1 .. Len(a) : d[i] = a[i]
  BY <1>1, EventFacts, AppendedTo
<1>4. /\ Len(a) \in Nat /\ Len(b) \in Nat /\ Len(c) \in Nat
      /\ Len(Handed) = Len(a) + Len(b) + Len(c)
      /\ \A i \in 1 .. Len(a) : Handed[i] = a[i]
      /\ \A i \in 1 .. Len(b) : Handed[Len(a) + i] = b[i]
      /\ \A i \in 1 .. Len(c) : Handed[Len(a) + Len(b) + i] = c[i]
  BY <1>1, <1>2, Joined
<1>5. /\ Len(Handed') = Len(d) + Len(b) + Len(c)
      /\ \A i \in 1 .. Len(d) : Handed'[i] = d[i]
      /\ \A i \in 1 .. Len(b) : Handed'[Len(d) + i] = b[i]
      /\ \A i \in 1 .. Len(c) : Handed'[Len(d) + Len(b) + i] = c[i]
  BY <1>1, <1>2, Joined
<1> HIDE DEF a, b, c, d
<1>6. Len(Handed') = Len(Handed) + 1 /\ Handed'[Len(a) + 1] = SideEvent /\ Len(a) \in 0 .. Len(Handed)
  BY <1>3, <1>4, <1>5
<1>7. \A i \in 1 .. Len(a) : Handed'[i] = Handed[i]
  BY <1>3, <1>4, <1>5
<1>8. ASSUME NEW i \in Len(a) + 1 .. Len(Handed) PROVE Handed'[i + 1] = Handed[i]
  <2>1. CASE i <= Len(a) + Len(b)
    <3> DEFINE j == i - Len(a)
    <3>1. j \in 1 .. Len(b) /\ i = Len(a) + j /\ i + 1 = Len(d) + j
      BY <1>3, <1>4, <2>1
    <3> HIDE DEF j
    <3>2. Handed[Len(a) + j] = b[j] /\ Handed'[Len(d) + j] = b[j]
      BY <1>4, <1>5, <3>1
    <3> QED BY <3>1, <3>2, Zenon
  <2>2. CASE i > Len(a) + Len(b)
    <3> DEFINE j == i - Len(a) - Len(b)
    <3>1. j \in 1 .. Len(c) /\ i = Len(a) + Len(b) + j /\ i + 1 = Len(d) + Len(b) + j
      BY <1>3, <1>4, <2>2
    <3> HIDE DEF j
    <3>2. Handed[Len(a) + Len(b) + j] = c[j] /\ Handed'[Len(d) + Len(b) + j] = c[j]
      BY <1>4, <1>5, <3>1
    <3> QED BY <3>1, <3>2, Zenon
  <2> QED BY <1>4, <2>1, <2>2
<1>9. Len(pushed) = Len(a)
  BY DEF a
<1> QED BY <1>6, <1>7, <1>8, <1>9 DEF Inserted

LEMMA ListenerGrows ==
    ASSUME TypeOK, NEW e \in Event, listenerIn' = Append(listenerIn, e), UNCHANGED <<pushed, InHand>>
    PROVE  Grown(e)
<1> DEFINE a == pushed
           b == InHand
           c == listenerIn
           d == Append(listenerIn, e)
<1>1. a \in Seq(Event) /\ b \in Seq(Event) /\ c \in Seq(Event) /\ d \in Seq(Event)
  BY DEF TypeOK, InHand
<1>2. Handed = a \o b \o c /\ Handed' = a \o b \o d
  BY DEF Handed, InHand
<1>3. /\ Len(d) = Len(c) + 1 /\ d[Len(c) + 1] = e
      /\ \A i \in 1 .. Len(c) : d[i] = c[i]
  BY <1>1, AppendedTo
<1>4. /\ Len(a) \in Nat /\ Len(b) \in Nat /\ Len(c) \in Nat
      /\ Len(Handed) = Len(a) + Len(b) + Len(c)
      /\ \A i \in 1 .. Len(a) : Handed[i] = a[i]
      /\ \A i \in 1 .. Len(b) : Handed[Len(a) + i] = b[i]
      /\ \A i \in 1 .. Len(c) : Handed[Len(a) + Len(b) + i] = c[i]
  BY <1>1, <1>2, Joined
<1>5. /\ Len(Handed') = Len(a) + Len(b) + Len(d)
      /\ \A i \in 1 .. Len(a) : Handed'[i] = a[i]
      /\ \A i \in 1 .. Len(b) : Handed'[Len(a) + i] = b[i]
      /\ \A i \in 1 .. Len(d) : Handed'[Len(a) + Len(b) + i] = d[i]
  BY <1>1, <1>2, Joined
<1> HIDE DEF a, b, c, d
<1>6. Len(Handed') = Len(Handed) + 1
  BY <1>3, <1>4, <1>5
<1>7. Handed'[Len(Handed) + 1] = e
  <2>1. Len(c) + 1 \in 1 .. Len(d) /\ Len(Handed) + 1 = Len(a) + Len(b) + (Len(c) + 1)
    BY <1>3, <1>4
  <2> QED BY <1>3, <1>5, <2>1
<1>8. ASSUME NEW i \in 1 .. Len(Handed) PROVE Handed'[i] = Handed[i]
  <2>1. CASE i <= Len(a)
    BY <1>4, <1>5, <2>1
  <2>2. CASE i > Len(a) /\ i <= Len(a) + Len(b)
    <3>1. i - Len(a) \in 1 .. Len(b) /\ i = Len(a) + (i - Len(a))
      BY <1>4, <2>2
    <3> QED BY <1>4, <1>5, <3>1
  <2>3. CASE i > Len(a) + Len(b)
    <3> DEFINE j == i - Len(a) - Len(b)
    <3>1. j \in 1 .. Len(c) /\ j \in 1 .. Len(d) /\ i = Len(a) + Len(b) + j
      BY <1>3, <1>4, <2>3
    <3> HIDE DEF j
    <3>2. /\ Handed[Len(a) + Len(b) + j] = c[j] /\ Handed'[Len(a) + Len(b) + j] = d[j]
          /\ d[j] = c[j]
      BY <1>3, <1>4, <1>5, <3>1
    <3> QED BY <3>1, <3>2, Zenon
  <2> QED BY <1>4, <2>1, <2>2, <2>3
<1> QED BY <1>6, <1>7, <1>8 DEF Grown

\* What a step does to the events handed on.
LEMMA HandedSteps ==
    ASSUME TypeOK, [Next]_vars
    PROVE  \/ Same
           \/ /\ Receive /\ stream[next].kind = "change" /\ cache # 0
              /\ Grown(Dml(eventCounter + 1, stream[next].lsn, cache))
           \/ \E n \in 0 .. Len(Handed) : Inserted(n)
<1> USE DEF notPg, notLst, notRun, notSide, pgVars, lstVars, chVars, fwdVars, ddlVars, outVars
<1>s. Handed' = Handed => Same
  BY DEF Same
<1>1. CASE UNCHANGED <<pushed, listenerIn, fpc, hand>>
  <2>1. Handed' = Handed
    BY <1>1 DEF Handed
  <2> QED BY <1>s, <2>1
<1>2. CASE Receive
  <2>1. CASE /\ stream[next].kind = "change" /\ cache # 0 /\ Len(listenerIn) < BufferSize
    <3>1. Dml(eventCounter + 1, stream[next].lsn, cache) \in Event
      <4>1. stream[next] \in Message
        BY <1>2, MessageTypes DEF Receive, TypeOK
      <4>2. /\ eventCounter + 1 \in Nat /\ stream[next].lsn \in 0 .. MaxLsn + 1
            /\ cache \in 0 .. MaxVer
        BY <4>1 DEF TypeOK, Message
      <4> QED BY <4>2, EventFacts
    <3>2. /\ listenerIn' = Append(listenerIn, Dml(eventCounter + 1, stream[next].lsn, cache))
          /\ UNCHANGED <<pushed, fpc, hand>>
      BY <1>2, <2>1 DEF Receive, Offer
    <3> QED BY <1>2, <2>1, <3>1, <3>2, ListenerGrows DEF InHand
  <2>2. CASE ~(stream[next].kind = "change" /\ cache # 0 /\ Len(listenerIn) < BufferSize)
    BY <1>1, <1>2, <2>2 DEF Receive, Offer
  <2> QED BY <2>1, <2>2
<1>3. CASE ForwardTake
  <2>1. /\ InHand = << >> /\ InHand' = <<Head(listenerIn)>> /\ listenerIn' = Tail(listenerIn)
        /\ pushed' = pushed /\ listenerIn # << >>
    BY <1>3 DEF ForwardTake, InHand
  <2>2. /\ Handed = pushed \o << >> \o listenerIn
        /\ Handed' = pushed \o <<Head(listenerIn)>> \o Tail(listenerIn)
    BY <2>1 DEF Handed, InHand
  <2>3. pushed \in Seq(Event) /\ listenerIn \in Seq(Event)
    BY DEF TypeOK
  <2>4. Handed' = Handed
    BY <2>1, <2>2, <2>3, TakeSame, Zenon
  <2> QED BY <1>s, <2>4, Zenon
<1>4. CASE ForwardPush
  <2>1. /\ InHand = <<hand>> /\ InHand' = << >> /\ listenerIn' = listenerIn
        /\ pushed' = Append(pushed, hand)
    BY <1>4 DEF ForwardPush, InHand
  <2>2. /\ Handed = pushed \o <<hand>> \o listenerIn
        /\ Handed' = Append(pushed, hand) \o << >> \o listenerIn
    BY <2>1 DEF Handed, InHand
  <2>3. pushed \in Seq(Event) /\ hand \in Event /\ listenerIn \in Seq(Event)
    BY DEF TypeOK
  <2>4. Append(pushed, hand) \o << >> \o listenerIn = pushed \o <<hand>> \o listenerIn
    BY <2>3, PushSame
  <2>5. Handed' = Handed
    BY <2>2, <2>4, Zenon
  <2> QED BY <1>s, <2>5, Zenon
<1>5. CASE ForwardCall \/ ForwardEnds
  <2>1. UNCHANGED <<pushed, listenerIn>> /\ InHand' = InHand
    BY <1>5 DEF ForwardCall, ForwardEnds, InHand
  <2>2. Handed' = Handed
    BY <2>1 DEF Handed, InHand
  <2> QED BY <1>s, <2>2
<1>6. CASE DdlPush \/ MarkerPush
  <2>1. pushed' = Append(pushed, SideEvent) /\ UNCHANGED <<InHand, listenerIn>>
    BY <1>6 DEF DdlPush, MarkerPush, InHand
  <2> QED BY <2>1, SideInserted
<1>7. CASE Prepare
  <2>1. /\ UNCHANGED <<InHand, listenerIn, fpc, hand>>
        /\ pushed' = pushed \/ pushed' = Append(pushed, SideEvent)
    BY <1>7 DEF Prepare, InHand
  <2> QED BY <1>1, <2>1, SideInserted
<1>8. CASE RunCloses \/ RunReturns
  BY <1>1, <1>8 DEF RunCloses, RunReturns
<1>9. CASE Disconnect \/ Cancel
  BY <1>1, <1>9 DEF Disconnect, Cancel
<1>10. CASE DdlCall \/ DdlEnds
  BY <1>1, <1>10 DEF DdlCall, DdlEnds
<1>11. CASE SetupDone \/ SetupFails \/ Ack \/ LoopEnds
  BY <1>1, <1>11 DEF SetupDone, SetupFails, Ack, LoopEnds
<1>12. ASSUME NEW x \in Txs, WriteChange(x) \/ CommitTx(x) \/ AlterTable \/ WriteOther
       PROVE  UNCHANGED <<pushed, listenerIn, fpc, hand>>
  BY <1>12 DEF WriteChange, CommitTx, AlterTable, WriteOther
<1>13. CASE AlterTable \/ WriteOther
  BY <1>1, <1>13 DEF AlterTable, WriteOther
<1>14. CASE UNCHANGED vars
  BY <1>1, <1>14 DEF vars
<1> QED BY <1>1, <1>2, <1>3, <1>4, <1>5, <1>6, <1>7, <1>8, <1>9, <1>10, <1>11, <1>12, <1>13, <1>14
        DEF Next, Postgres, Listener, Runner, Forwarder, SideTasks
------------------------------------------------------------------------------
(* Order and columns. *)

\* Every event handed on is numbered and comes from a change received, or is
\* neither; changes are in the order of the stream and of their numbers.
HandedInv ==
    /\ \A i \in 1 .. Len(Handed) :
          \/ Handed[i].id = 0 /\ Handed[i].lsn = 0
          \/ Handed[i].id \in 1 .. eventCounter /\ \E k \in 1 .. next - 1 : IsFrom(Handed[i], k)
    /\ \A i, j \in 1 .. Len(Handed), k, l \in 1 .. next - 1 :
          i < j /\ IsFrom(Handed[i], k) /\ IsFrom(Handed[j], l) =>
             k < l /\ Handed[i].id < Handed[j].id

\* lastLSN is of an event in the store.
SeenInv ==
    /\ fpc = "call" => \E i \in 1 .. Len(pushed) : pushed[i] = hand
    /\ lastLSN # 0 => \E i \in 1 .. Len(pushed) : pushed[i].lsn = lastLSN

LEMMA SeenStep == TypeOK /\ SeenInv /\ [Next]_vars => SeenInv'
<1> SUFFICES ASSUME TypeOK, SeenInv, [Next]_vars PROVE SeenInv'
  OBVIOUS
<1> USE DEF notPg, notLst, notRun, notSide, pgVars, lstVars, chVars, fwdVars, ddlVars, outVars
<1>1. ASSUME NEW e \in Event, pushed' = Append(pushed, e)
      PROVE  /\ Len(pushed) \in Nat /\ Len(pushed') = Len(pushed) + 1
             /\ \A i \in 1 .. Len(pushed) : pushed'[i] = pushed[i]
             /\ pushed'[Len(pushed) + 1] = e
  BY <1>1 DEF TypeOK
<1>2. CASE UNCHANGED <<pushed, lastLSN, fpc, hand>>
  BY <1>2 DEF SeenInv
<1>3. CASE ForwardPush
  <2>1. pushed' = Append(pushed, hand) /\ hand \in Event /\ UNCHANGED <<lastLSN, hand>>
    BY <1>3 DEF ForwardPush, TypeOK
  <2>2. Len(pushed) + 1 \in 1 .. Len(pushed')
    BY <1>1, <2>1
  <2> QED BY <1>1, <2>1, <2>2 DEF SeenInv
<1>4. CASE ForwardCall
  <2>1. fpc = "call" /\ fpc' = "select" /\ lastLSN' = hand.lsn /\ pushed' = pushed
    BY <1>4 DEF ForwardCall
  <2> QED BY <2>1 DEF SeenInv
<1>5. CASE ForwardTake \/ ForwardEnds
  <2>1. fpc' # "call" /\ UNCHANGED <<pushed, lastLSN>>
    BY <1>5 DEF ForwardTake, ForwardEnds
  <2> QED BY <2>1 DEF SeenInv
<1>6. CASE DdlPush \/ MarkerPush \/ Prepare
  <2>1. /\ UNCHANGED <<lastLSN, fpc, hand>>
        /\ pushed' = pushed \/ pushed' = Append(pushed, SideEvent)
    BY <1>6 DEF DdlPush, MarkerPush, Prepare
  <2>2. CASE pushed' = Append(pushed, SideEvent)
    BY <1>1, <2>1, <2>2, EventFacts DEF SeenInv
  <2> QED BY <1>2, <2>1, <2>2
<1>7. CASE DdlCall
  <2>1. lastLSN' = 0 /\ UNCHANGED <<pushed, fpc, hand>>
    BY <1>7, EventFacts DEF DdlCall
  <2> QED BY <2>1 DEF SeenInv
<1>8. CASE RunCloses \/ RunReturns
  BY <1>2, <1>8 DEF RunCloses, RunReturns
<1>9. CASE Disconnect \/ Cancel \/ DdlEnds
  BY <1>2, <1>9 DEF Disconnect, Cancel, DdlEnds
<1>10. CASE Listener
  BY <1>2, <1>10 DEF Listener, SetupDone, SetupFails, Ack, LoopEnds, Receive
<1>11. ASSUME NEW x \in Txs, WriteChange(x) \/ CommitTx(x)
       PROVE  UNCHANGED <<pushed, lastLSN, fpc, hand>>
  BY <1>11 DEF WriteChange, CommitTx
<1>12. CASE AlterTable \/ WriteOther
  BY <1>2, <1>12 DEF AlterTable, WriteOther
<1>13. CASE UNCHANGED vars
  BY <1>2, <1>13 DEF vars
<1> QED BY <1>2, <1>3, <1>4, <1>5, <1>6, <1>7, <1>8, <1>9, <1>10, <1>11, <1>12, <1>13
        DEF Next, Postgres, Runner, Forwarder, SideTasks

\* What a step receives and numbers.
LEMMA ReceivedStep ==
    ASSUME TypeOK, [Next]_vars
    PROVE  /\ next \in 1 .. Len(stream) + 1 /\ Len(stream) \in Nat
           /\ next' = next \/ (Receive /\ next' = next + 1)
           /\ eventCounter \in Nat /\ eventCounter' \in Nat /\ eventCounter <= eventCounter'
<1>1. next \in 1 .. Len(stream) + 1 /\ Len(stream) \in Nat /\ eventCounter \in Nat
  BY MessageTypes DEF TypeOK
<1>2. \/ UNCHANGED <<next, eventCounter>>
      \/ Receive /\ next' = next + 1 /\ eventCounter' \in {eventCounter, eventCounter + 1}
  BY Steps DEF WriteChange, CommitTx, AlterTable, WriteOther, SetupDone, SetupFails, Ack, Receive,
        LoopEnds, Prepare, notPg, notRun, lstVars
<1>3. /\ next' = next \/ (Receive /\ next' = next + 1)
      /\ eventCounter' \in Nat /\ eventCounter <= eventCounter'
  BY <1>1, <1>2
<1> QED BY <1>1, <1>3

\* What is handed on was received before, and numbered.
LEMMA FromReceived ==
    ASSUME TypeOK, StreamInv, HandedInv,
           NEW i \in 1 .. Len(Handed), NEW k \in 1 .. Len(stream), IsFrom(Handed[i], k)
    PROVE  k \in 1 .. next - 1 /\ Handed[i].id \in 1 .. eventCounter
<1>1. /\ stream[k].kind = "change" /\ stream[k].lsn = Handed[i].lsn
      /\ stream[k].lsn \in 1 .. MaxLsn + 1
  BY MessageTypes DEF IsFrom, Message
<1>2. Handed[i].lsn # 0
  BY <1>1
<1>3. PICK l \in 1 .. next - 1 : IsFrom(Handed[i], l)
  BY <1>2 DEF HandedInv
<1>4. l \in 1 .. Len(stream) /\ stream[l].kind = "change" /\ stream[l].lsn = stream[k].lsn
  BY <1>1, <1>3, MessageTypes DEF IsFrom, TypeOK
<1>5. k = l
  BY <1>1, <1>4 DEF StreamInv
<1>6. Handed[i].id \in 1 .. eventCounter
  BY <1>2 DEF HandedInv
<1> QED BY <1>3, <1>5, <1>6

\* The version a change is decoded with is the one it was written under.
LEMMA DecodedRight ==
    ASSUME TypeOK, VersionInv, CacheInv, NEW k \in 1 .. Len(stream), k = next,
           stream[k].kind = "change"
    PROVE  cache = stream[k].ver
<1>1. PICK r \in 1 .. k - 1 : IsLast(r, k - 1) /\ stream[r].ver = stream[k].ver
  BY DEF VersionInv
<1> QED BY <1>1 DEF CacheInv

LEMMA HandedStep ==
    TypeOK /\ StreamInv /\ VersionInv /\ CacheInv /\ HandedInv /\ [Next]_vars => HandedInv'
<1> SUFFICES ASSUME TypeOK, StreamInv, VersionInv, CacheInv, HandedInv, [Next]_vars PROVE HandedInv'
  OBVIOUS
<1>n. PICK h \in Nat : h = Len(Handed)
  BY HandedParts
<1>r. PICK m \in Nat : m = Len(stream)
  BY MessageTypes
<1>1. /\ next \in 1 .. m + 1
      /\ next' = next \/ (next' = next + 1 /\ next \in 1 .. m)
      /\ eventCounter \in Nat /\ eventCounter' \in Nat /\ eventCounter <= eventCounter'
  <2>1. Receive => next <= m
    BY <1>r DEF Receive
  <2>2. /\ next \in 1 .. m + 1
        /\ next' = next \/ (Receive /\ next' = next + 1)
        /\ eventCounter \in Nat /\ eventCounter' \in Nat /\ eventCounter <= eventCounter'
    BY <1>r, ReceivedStep
  <2> QED BY <2>1, <2>2
<1>2. \A k \in 1 .. next' - 1 : k \in 1 .. m
  BY <1>1
<1>3. \A i \in 1 .. h, k \in 1 .. m : IsFrom(Handed[i], k) =>
         k \in 1 .. next - 1 /\ Handed[i].id \in 1 .. eventCounter
  BY <1>n, <1>r, FromReceived
<1>4. ASSUME NEW i \in 1 .. h
      PROVE  \/ Handed[i].id = 0 /\ Handed[i].lsn = 0
             \/ /\ Handed[i].id \in 1 .. eventCounter'
                /\ \E k \in 1 .. next' - 1 : IsFrom(Handed[i], k)
  <2>1. CASE Handed[i].id = 0 /\ Handed[i].lsn = 0
    BY <2>1
  <2>2. CASE Handed[i].id \in 1 .. eventCounter /\ \E k \in 1 .. next - 1 : IsFrom(Handed[i], k)
    <3>1. PICK k \in 1 .. next - 1 : IsFrom(Handed[i], k)
      BY <2>2
    <3>2. k \in 1 .. next' - 1 /\ Handed[i].id \in 1 .. eventCounter'
      BY <1>1, <2>2
    <3> QED BY <3>1, <3>2
  <2> QED BY <1>n, <2>1, <2>2 DEF HandedInv
<1>5. ASSUME NEW i \in 1 .. h, NEW j \in 1 .. h, i < j,
             NEW k \in 1 .. next' - 1, NEW l \in 1 .. next' - 1,
             IsFrom(Handed[i], k), IsFrom(Handed[j], l)
      PROVE  k < l /\ Handed[i].id < Handed[j].id
  BY <1>n, <1>2, <1>3, <1>5 DEF HandedInv
\* What is to be shown, of the stream as it was.
<1>6. ASSUME \A i \in 1 .. Len(Handed') :
                \/ Handed'[i].id = 0 /\ Handed'[i].lsn = 0
                \/ /\ Handed'[i].id \in 1 .. eventCounter'
                   /\ \E k \in 1 .. next' - 1 : IsFrom(Handed'[i], k),
             \A i, j \in 1 .. Len(Handed'), k, l \in 1 .. next' - 1 :
                i < j /\ IsFrom(Handed'[i], k) /\ IsFrom(Handed'[j], l) =>
                   k < l /\ Handed'[i].id < Handed'[j].id
      PROVE  HandedInv'
  <2>1. \A k \in 1 .. next' - 1 : stream'[k] = stream[k]
    BY <1>r, <1>2, StreamGrows
  <2>2. \A i \in 1 .. Len(Handed') :
           \/ Handed'[i].id = 0 /\ Handed'[i].lsn = 0
           \/ /\ Handed'[i].id \in 1 .. eventCounter'
              /\ \E k \in 1 .. next' - 1 :
                    /\ stream'[k].kind = "change"
                    /\ stream'[k].lsn = Handed'[i].lsn /\ stream'[k].ver = Handed'[i].ver
    BY <1>6, <2>1, Zenon DEF IsFrom
  <2>3. ASSUME NEW i \in 1 .. Len(Handed'), NEW j \in 1 .. Len(Handed'), i < j,
               NEW k \in 1 .. next' - 1, NEW l \in 1 .. next' - 1,
               stream'[k].kind = "change",
               stream'[k].lsn = Handed'[i].lsn, stream'[k].ver = Handed'[i].ver,
               stream'[l].kind = "change",
               stream'[l].lsn = Handed'[j].lsn, stream'[l].ver = Handed'[j].ver
        PROVE  k < l /\ Handed'[i].id < Handed'[j].id
    <3>1. IsFrom(Handed'[i], k) /\ IsFrom(Handed'[j], l)
      BY <2>1, <2>3, Zenon DEF IsFrom
    <3> QED BY <1>6, <2>3, <3>1, Zenon
  <2>4. (\A i \in 1 .. Len(Handed) :
          \/ Handed[i].id = 0 /\ Handed[i].lsn = 0
          \/ Handed[i].id \in 1 .. eventCounter /\ \E k \in 1 .. next - 1 : IsFrom(Handed[i], k))'
    BY <2>2 DEF IsFrom
  <2>5. (\A i, j \in 1 .. Len(Handed), k, l \in 1 .. next - 1 :
          i < j /\ IsFrom(Handed[i], k) /\ IsFrom(Handed[j], l) =>
             k < l /\ Handed[i].id < Handed[j].id)'
    BY <2>3 DEF IsFrom
  <2> QED BY <2>4, <2>5 DEF HandedInv
<1>7. CASE Same
  <2>1. Len(Handed') = h /\ \A i \in 1 .. h : Handed'[i] = Handed[i]
    BY <1>n, <1>7 DEF Same
  <2> QED BY <1>4, <1>5, <1>6, <2>1, Zenon
<1>8. CASE \E n \in 0 .. h : Inserted(n)
  <2>1. PICK n \in 0 .. h : Inserted(n)
    BY <1>8
  <2>2. /\ Len(Handed') = h + 1 /\ Handed'[n + 1] = SideEvent
        /\ \A i \in 1 .. n : Handed'[i] = Handed[i]
        /\ \A i \in n + 1 .. h : Handed'[i + 1] = Handed[i]
    BY <1>n, <2>1 DEF Inserted
  <2> DEFINE old(i) == IF i <= n THEN i ELSE i - 1
  <2>3. \A i \in 1 .. Len(Handed') : i # n + 1 => old(i) \in 1 .. h /\ Handed'[i] = Handed[old(i)]
    <3>1. \A i \in 1 .. h + 1 : i > n + 1 => i - 1 \in n + 1 .. h /\ i = (i - 1) + 1
      OBVIOUS
    <3>2. \A i \in 1 .. h + 1 : i > n + 1 => Handed'[i] = Handed[i - 1]
      BY <2>2, <3>1
    <3> QED BY <2>2, <3>2
  <2>4. \A k \in 1 .. m : ~IsFrom(SideEvent, k)
    BY <1>r, MessageTypes, EventFacts DEF IsFrom, Message
  <2>5. ASSUME NEW i \in 1 .. Len(Handed')
        PROVE  \/ Handed'[i].id = 0 /\ Handed'[i].lsn = 0
               \/ /\ Handed'[i].id \in 1 .. eventCounter'
                  /\ \E k \in 1 .. next' - 1 : IsFrom(Handed'[i], k)
    <3>1. CASE i = n + 1
      BY <2>2, <3>1, EventFacts
    <3>2. CASE i # n + 1
      BY <1>4, <2>3, <3>2, Zenon
    <3> QED BY <3>1, <3>2
  <2>6. ASSUME NEW i \in 1 .. Len(Handed'), NEW j \in 1 .. Len(Handed'), i < j,
               NEW k \in 1 .. next' - 1, NEW l \in 1 .. next' - 1,
               IsFrom(Handed'[i], k), IsFrom(Handed'[j], l)
        PROVE  k < l /\ Handed'[i].id < Handed'[j].id
    <3>1. i # n + 1 /\ j # n + 1
      BY <1>2, <2>2, <2>4, <2>6, Zenon
    <3>2. old(i) < old(j)
      BY <2>2, <2>6, <3>1
    <3>3. /\ old(i) \in 1 .. h /\ old(j) \in 1 .. h
          /\ Handed'[i] = Handed[old(i)] /\ Handed'[j] = Handed[old(j)]
      BY <2>3, <3>1
    <3> HIDE DEF old
    <3>4. IsFrom(Handed[old(i)], k) /\ IsFrom(Handed[old(j)], l)
      BY <2>6, <3>3, Zenon
    <3>5. k < l /\ Handed[old(i)].id < Handed[old(j)].id
      BY <1>5, <3>2, <3>3, <3>4
    <3> QED BY <3>3, <3>5, Zenon
  <2> QED BY <1>6, <2>5, <2>6, Zenon
<1>9. ASSUME Receive, stream[next].kind = "change", cache # 0,
             Grown(Dml(eventCounter + 1, stream[next].lsn, cache))
      PROVE  HandedInv'
  <2>1. /\ next \in 1 .. m /\ next' = next + 1 /\ eventCounter' = eventCounter + 1
    BY <1>1, <1>r, <1>9 DEF Receive
  <2>2. PICK e : e = Dml(eventCounter + 1, stream[next].lsn, cache)
    OBVIOUS
  <2>3. e.id = eventCounter + 1 /\ IsFrom(e, next)
    <3>1. cache = stream[next].ver
      BY <1>r, <1>9, <2>1, DecodedRight
    <3> QED BY <1>9, <2>2, <3>1 DEF Dml, IsFrom
  <2>4. /\ Len(Handed') = h + 1 /\ Handed'[h + 1] = e
        /\ \A i \in 1 .. h : Handed'[i] = Handed[i]
    BY <1>n, <1>9, <2>2 DEF Grown
  <2>5. \A k \in 1 .. m : IsFrom(e, k) => k = next
    BY <1>r, <2>1, <2>3 DEF IsFrom, StreamInv
  <2>6. ASSUME NEW i \in 1 .. Len(Handed')
        PROVE  \/ Handed'[i].id = 0 /\ Handed'[i].lsn = 0
               \/ /\ Handed'[i].id \in 1 .. eventCounter'
                  /\ \E k \in 1 .. next' - 1 : IsFrom(Handed'[i], k)
    <3>1. CASE i \in 1 .. h
      BY <1>4, <2>4, <3>1, Zenon
    <3>2. CASE i = h + 1
      <4>1. next \in 1 .. next' - 1 /\ e.id \in 1 .. eventCounter'
        BY <1>1, <2>1, <2>3
      <4> QED BY <2>3, <2>4, <3>2, <4>1, Zenon
    <3> QED BY <2>4, <3>1, <3>2
  <2>7. ASSUME NEW i \in 1 .. Len(Handed'), NEW j \in 1 .. Len(Handed'), i < j,
               NEW k \in 1 .. next' - 1, NEW l \in 1 .. next' - 1,
               IsFrom(Handed'[i], k), IsFrom(Handed'[j], l)
        PROVE  k < l /\ Handed'[i].id < Handed'[j].id
    <3>1. i \in 1 .. h /\ (j \in 1 .. h \/ j = h + 1)
      BY <2>4, <2>7
    <3>2. Handed'[i] = Handed[i] /\ IsFrom(Handed[i], k)
      BY <2>4, <2>7, <3>1, Zenon
    <3>3. CASE j \in 1 .. h
      <4>1. Handed'[j] = Handed[j] /\ IsFrom(Handed[j], l)
        BY <2>4, <2>7, <3>3, Zenon
      <4>2. k < l /\ Handed[i].id < Handed[j].id
        BY <1>5, <2>7, <3>1, <3>2, <3>3, <4>1
      <4> QED BY <3>2, <4>1, <4>2, Zenon
    <3>4. CASE j = h + 1
      <4>1. Handed'[j] = e /\ IsFrom(e, l)
        BY <2>4, <2>7, <3>4, Zenon
      <4>2. l = next /\ k \in 1 .. next - 1 /\ Handed[i].id \in 1 .. eventCounter
        BY <1>2, <1>3, <2>5, <3>1, <3>2, <4>1
      <4>3. k < l /\ Handed[i].id < e.id
        BY <1>1, <2>1, <2>3, <4>2
      <4> QED BY <3>2, <4>1, <4>3, Zenon
    <3> QED BY <3>1, <3>3, <3>4
  <2> QED BY <1>6, <2>6, <2>7, Zenon
<1> QED BY <1>n, <1>7, <1>8, <1>9, HandedSteps

StoreInvariants == AckInvariants /\ VersionInv /\ CacheInv /\ HandedInv /\ SeenInv

LEMMA StoreInvariant == Spec => []StoreInvariants
<1>1. Init => VersionInv /\ CacheInv /\ HandedInv /\ SeenInv
  <2> SUFFICES ASSUME Init PROVE VersionInv /\ CacheInv /\ HandedInv /\ SeenInv
    OBVIOUS
  <2>1. /\ stream = << >> /\ told = 0 /\ next = 1 /\ Handed = << >> \o << >> \o << >>
        /\ fpc # "call" /\ lastLSN = 0
    BY DEF Init, Handed
  <2>2. Len(stream) = 0 /\ Len(Handed) = 0
    BY <2>1
  <2> QED BY <2>1, <2>2 DEF VersionInv, CacheInv, HandedInv, SeenInv
<1>2. VersionInv /\ CacheInv /\ HandedInv /\ SeenInv /\ AckInvariants /\ [Next]_vars =>
         (VersionInv /\ CacheInv /\ HandedInv /\ SeenInv)'
  BY VersionStep, CacheStep, HandedStep, SeenStep DEF AckInvariants
<1> QED BY <1>1, <1>2, AckInvariant, PTL DEF Spec, StoreInvariants

\* Changes are handed on in the order of the stream, none twice, with increasing
\* IDs, each with the version of the table it was written under, and lastLSN
\* names nothing the store lacks (listener.go:183-212, schema_cache.go:44-62,
\* runner.go:34-50, main.go:495-497).
THEOREM ChangesStoredAsWritten == Spec => []StoredAsWritten
<1>1. StoreInvariants => StoredAsWritten
  <2> SUFFICES ASSUME StoreInvariants PROVE StoredAsWritten
    OBVIOUS
  <2>1. DOMAIN Handed = 1 .. Len(Handed) /\ DOMAIN pushed = 1 .. Len(pushed)
    BY HandedParts DEF StoreInvariants, AckInvariants, TypeOK
  <2> QED BY <2>1 DEF StoreInvariants, HandedInv, SeenInv, StoredAsWritten, IsDml
<1> QED BY <1>1, StoreInvariant, PTL
------------------------------------------------------------------------------
(* Loss. *)

\* The channel carries numbered events only.
QueueInv == \A i \in 1 .. Len(listenerIn) : listenerIn[i].id # 0

\* A change received is handed on, or BufferSize earlier ones are.
LossInv ==
    \A k \in 1 .. next - 1 : stream[k].kind = "change" =>
        \/ \E i \in 1 .. Len(Handed) : IsFrom(Handed[i], k)
        \/ \E earlier \in [1 .. BufferSize -> 1 .. Len(Handed)] :
              /\ IsInjective(earlier)
              /\ \A n \in 1 .. BufferSize :
                    \E l \in 1 .. k - 1 : IsFrom(Handed[earlier[n]], l)

LEMMA QueueStep == TypeOK /\ QueueInv /\ [Next]_vars => QueueInv'
<1> SUFFICES ASSUME TypeOK, QueueInv, [Next]_vars PROVE QueueInv'
  OBVIOUS
<1> USE DEF notPg, notLst, notRun, notSide, pgVars, lstVars, chVars, fwdVars, ddlVars, outVars
<1>1. CASE UNCHANGED listenerIn
  BY <1>1 DEF QueueInv
<1>2. CASE Receive
  <2>1. PICK e : e = Dml(eventCounter + 1, stream[next].lsn, cache)
    OBVIOUS
  <2>2. e \in Event /\ e.id # 0
    <3>1. stream[next] \in Message
      BY <1>2, MessageTypes DEF Receive, TypeOK
    <3>2. /\ eventCounter + 1 \in Nat /\ eventCounter + 1 # 0 /\ cache \in 0 .. MaxVer
          /\ stream[next].lsn \in 0 .. MaxLsn + 1
      BY <3>1 DEF TypeOK, Message
    <3> QED BY <2>1, <3>2, EventFacts
  <2>3. listenerIn' = listenerIn \/ listenerIn' = Append(listenerIn, e)
    BY <1>2, <2>1 DEF Receive, Offer
  <2>4. CASE listenerIn' = Append(listenerIn, e)
    <3>1. /\ Len(listenerIn) \in Nat /\ Len(listenerIn') = Len(listenerIn) + 1
          /\ \A i \in 1 .. Len(listenerIn) : listenerIn'[i] = listenerIn[i]
          /\ listenerIn'[Len(listenerIn) + 1] = e
      BY <2>2, <2>4, AppendedTo DEF TypeOK
    <3> QED BY <2>2, <3>1 DEF QueueInv
  <2> QED BY <1>1, <2>3, <2>4
<1>3. CASE ForwardTake
  <2>1. /\ listenerIn' = Tail(listenerIn) /\ Len(listenerIn) \in Nat
        /\ Len(listenerIn') = Len(listenerIn) - 1
        /\ \A i \in 1 .. Len(listenerIn') : listenerIn'[i] = listenerIn[i + 1]
    BY <1>3 DEF ForwardTake, TypeOK
  <2> QED BY <2>1 DEF QueueInv
<1>4. CASE ForwardEnds \/ ForwardPush \/ ForwardCall
  BY <1>1, <1>4 DEF ForwardEnds, ForwardPush, ForwardCall
<1>5. CASE SideTasks
  BY <1>1, <1>5 DEF SideTasks, DdlPush, DdlCall, DdlEnds, MarkerPush
<1>6. CASE Runner
  BY <1>1, <1>6 DEF Runner, Prepare, RunCloses, RunReturns
<1>7. CASE SetupDone \/ SetupFails \/ Ack \/ LoopEnds
  BY <1>1, <1>7 DEF SetupDone, SetupFails, Ack, LoopEnds
<1>8. CASE Postgres \/ Cancel
  BY <1>1, <1>8 DEF Postgres, WriteChange, CommitTx, AlterTable, WriteOther, Disconnect, Cancel
<1>9. CASE UNCHANGED vars
  BY <1>1, <1>9 DEF vars
<1> QED BY <1>2, <1>3, <1>4, <1>5, <1>6, <1>7, <1>8, <1>9 DEF Next, Listener, Forwarder

\* No event handed on is lost again: it only moves.
LEMMA HandedKept ==
    ASSUME TypeOK, [Next]_vars
    PROVE  \E f \in [1 .. Len(Handed) -> 1 .. Len(Handed')] :
              /\ IsInjective(f)
              /\ \A i \in 1 .. Len(Handed) : Handed'[f[i]] = Handed[i]
<1>1. PICK h \in Nat : h = Len(Handed)
  BY HandedParts
<1>2. CASE \E e : Same \/ Grown(e)
  <2> DEFINE f == [i \in 1 .. h |-> i]
  <2>1. /\ Len(Handed') \in {h, h + 1}
        /\ \A i \in 1 .. h : Handed'[i] = Handed[i]
    BY <1>1, <1>2 DEF Same, Grown
  <2>2. f \in [1 .. h -> 1 .. Len(Handed')] /\ IsInjective(f)
    BY <2>1 DEF IsInjective
  <2>3. \A i \in 1 .. h : Handed'[f[i]] = Handed[i]
    BY <2>1
  <2> QED BY <1>1, <2>2, <2>3
<1>3. CASE \E n \in 0 .. h : Inserted(n)
  <2>1. PICK n \in 0 .. h : Inserted(n)
    BY <1>3
  <2>2. /\ Len(Handed') = h + 1
        /\ \A i \in 1 .. n : Handed'[i] = Handed[i]
        /\ \A i \in n + 1 .. h : Handed'[i + 1] = Handed[i]
    BY <1>1, <2>1 DEF Inserted
  <2> DEFINE f == [i \in 1 .. h |-> IF i <= n THEN i ELSE i + 1]
  <2>3. f \in [1 .. h -> 1 .. Len(Handed')] /\ IsInjective(f)
    BY <2>2 DEF IsInjective
  <2>4. \A i \in 1 .. h : Handed'[f[i]] = Handed[i]
    BY <2>2
  <2> QED BY <1>1, <2>3, <2>4
<1> QED BY <1>1, <1>2, <1>3, HandedSteps

LEMMA LossStep ==
    TypeOK /\ VersionInv /\ CacheInv /\ HandedInv /\ QueueInv /\ LossInv /\ [Next]_vars => LossInv'
<1> SUFFICES ASSUME TypeOK, VersionInv, CacheInv, HandedInv, QueueInv, LossInv, [Next]_vars
             PROVE  LossInv'
  OBVIOUS
<1>0. \A l \in 1 .. next' - 1 : stream'[l] = stream[l]
  <2>1. \A l \in 1 .. next' - 1 : l \in 1 .. Len(stream)
    BY ReceivedStep DEF Receive
  <2> QED BY <2>1, StreamGrows
\* What is to be shown, of the stream as it was.
<1> SUFFICES ASSUME NEW k \in 1 .. next' - 1, stream'[k].kind = "change"
             PROVE  \/ \E i \in 1 .. Len(Handed') : IsFrom(Handed'[i], k)
                    \/ \E earlier \in [1 .. BufferSize -> 1 .. Len(Handed')] :
                          /\ IsInjective(earlier)
                          /\ \A n \in 1 .. BufferSize :
                                \E l \in 1 .. k - 1 : IsFrom(Handed'[earlier[n]], l)
  <2>1. ASSUME NEW m \in 1 .. next' - 1, NEW e, IsFrom(e, m)
        PROVE  /\ stream'[m].kind = "change"
               /\ stream'[m].lsn = e.lsn /\ stream'[m].ver = e.ver
    BY <1>0, <2>1 DEF IsFrom
  <2>2. \A m \in 1 .. next' - 1 : \A l \in 1 .. m - 1 : l \in 1 .. next' - 1
    BY ReceivedStep
  <2> QED BY <2>1, <2>2 DEF LossInv, IsFrom
<1>1. /\ k \in 1 .. Len(stream) /\ stream[k].kind = "change"
      /\ k \in 1 .. next - 1 \/ (Receive /\ k = next)
  BY ReceivedStep, StreamGrows DEF Receive
<1>2. PICK f \in [1 .. Len(Handed) -> 1 .. Len(Handed')] :
         /\ IsInjective(f)
         /\ \A i \in 1 .. Len(Handed) : Handed'[f[i]] = Handed[i]
  BY HandedKept
\* What holds of the events handed on before the step holds after it.
<1>3. ASSUME NEW i \in 1 .. Len(Handed), IsFrom(Handed[i], k)
      PROVE  \E j \in 1 .. Len(Handed') : IsFrom(Handed'[j], k)
  <2>1. f[i] \in 1 .. Len(Handed') /\ IsFrom(Handed'[f[i]], k)
    BY <1>2, <1>3
  <2> QED BY <2>1
<1>4. ASSUME NEW earlier \in [1 .. BufferSize -> 1 .. Len(Handed)], IsInjective(earlier),
             \A n \in 1 .. BufferSize : \E l \in 1 .. k - 1 : IsFrom(Handed[earlier[n]], l)
      PROVE  \E later \in [1 .. BufferSize -> 1 .. Len(Handed')] :
                /\ IsInjective(later)
                /\ \A n \in 1 .. BufferSize :
                      \E l \in 1 .. k - 1 : IsFrom(Handed'[later[n]], l)
  <2> DEFINE later == [n \in 1 .. BufferSize |-> f[earlier[n]]]
  <2>1. later \in [1 .. BufferSize -> 1 .. Len(Handed')]
    BY <1>2
  <2>2. IsInjective(later)
    BY <1>2, <1>4 DEF IsInjective
  <2>3. ASSUME NEW n \in 1 .. BufferSize
        PROVE  \E l \in 1 .. k - 1 : IsFrom(Handed'[later[n]], l)
    <3>1. Handed'[later[n]] = Handed[earlier[n]]
      BY <1>2
    <3> QED BY <1>4, <3>1, Zenon
  <2> HIDE DEF later
  <2> QED BY <2>1, <2>2, <2>3
<1>5. CASE k \in 1 .. next - 1
  BY <1>1, <1>3, <1>4, <1>5, Zenon DEF LossInv
<1>6. CASE Receive /\ k = next
  <2>1. cache = stream[k].ver /\ cache # 0
    BY <1>1, <1>6, DecodedRight DEF VersionInv
  <2>2. PICK e : e = Dml(eventCounter + 1, stream[next].lsn, cache)
    OBVIOUS
  <2>3. /\ listenerIn' = Offer(e) /\ UNCHANGED <<pushed, InHand>>
        /\ IsFrom(e, k)
    BY <1>1, <1>6, <2>1, <2>2 DEF Receive, notLst, fwdVars, outVars, InHand, IsFrom, Dml
  <2>4. CASE Len(listenerIn) < BufferSize
    <3>1. e \in Event
      <4>1. stream[next] \in Message
        BY <1>1, <1>6, MessageTypes
      <4>2. stream[next].lsn \in 0 .. MaxLsn + 1
        BY <4>1, PipelineAssumption DEF Message
      <4>3. eventCounter + 1 \in Nat
        BY ReceivedStep
      <4>4. cache \in 0 .. MaxVer
        BY DEF TypeOK
      <4> QED BY <2>2, <4>2, <4>3, <4>4, EventFacts
    <3>2. Grown(e)
      BY <2>3, <2>4, <3>1, ListenerGrows DEF Offer
    <3>3. Len(Handed) + 1 \in 1 .. Len(Handed') /\ Handed'[Len(Handed) + 1] = e
      BY <3>2, HandedParts DEF Grown
    <3> QED BY <2>3, <3>3
  <2>5. CASE ~(Len(listenerIn) < BufferSize)
    <3> DEFINE b == Len(pushed) + Len(InHand)
               earlier == [n \in 1 .. BufferSize |-> b + n]
    <3>1. Len(listenerIn) = BufferSize
      BY <2>5, PipelineAssumption DEF TypeOK
    <3>2. /\ b \in Nat /\ Len(Handed) = b + BufferSize /\ BufferSize \in Nat
          /\ \A n \in 1 .. BufferSize : Handed[b + n] = listenerIn[n]
      BY <3>1, HandedParts, PipelineAssumption
    <3> HIDE DEF b
    <3>3. earlier \in [1 .. BufferSize -> 1 .. Len(Handed)] /\ IsInjective(earlier)
      BY <3>2 DEF IsInjective
    <3>4. ASSUME NEW n \in 1 .. BufferSize
          PROVE  \E l \in 1 .. k - 1 : IsFrom(Handed[earlier[n]], l)
      <4>1. b + n \in 1 .. Len(Handed) /\ Handed[b + n].id # 0 /\ earlier[n] = b + n
        BY <3>1, <3>2 DEF QueueInv
      <4>2. \E l \in 1 .. next - 1 : IsFrom(Handed[b + n], l)
        BY <4>1 DEF HandedInv
      <4> QED BY <1>6, <4>1, <4>2, Zenon
    <3> HIDE DEF earlier
    <3> QED BY <1>4, <3>3, <3>4
  <2> QED BY <2>4, <2>5
<1> QED BY <1>1, <1>5, <1>6

\* A change received is missing only when the channel was full of earlier ones
\* (listener.go:205-211).
THEOREM NothingElseIsLost == Spec => []LostOnlyWhenFull
<1>1. Init => QueueInv /\ LossInv
  <2> SUFFICES ASSUME Init PROVE QueueInv /\ LossInv
    OBVIOUS
  <2>1. listenerIn = << >> /\ next = 1 /\ Len(<< >>) = 0
    BY DEF Init
  <2> QED BY <2>1 DEF QueueInv, LossInv
<1>2. StoreInvariants /\ QueueInv /\ LossInv /\ [Next]_vars => (QueueInv /\ LossInv)'
  BY QueueStep, LossStep DEF StoreInvariants, AckInvariants
<1>3. StoreInvariants /\ LossInv => LostOnlyWhenFull
  <2> SUFFICES ASSUME StoreInvariants, LossInv PROVE LostOnlyWhenFull
    OBVIOUS
  <2>1. DOMAIN Handed = 1 .. Len(Handed)
    BY HandedParts DEF StoreInvariants, AckInvariants
  <2> QED BY <2>1 DEF LossInv, LostOnlyWhenFull
<1> QED BY <1>1, <1>2, <1>3, StoreInvariant, PTL DEF Spec
=============================================================================
