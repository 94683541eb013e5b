-------------------------------- MODULE Attach ---------------------------------
(***************************************************************************)
(* `dbwatch attach`: internal/ipc/client.go and, in cmd/dbwatch/main.go,   *)
(* runAttach with the two front ends runJSONMode and runTUIMode.           *)
(*                                                                         *)
(* Events travel  wire -> readLoop -> Client.events -> source goroutine -> *)
(* local store -> subscription -> front end.  The local store is the one   *)
(* EventStore implements (EventWindow).  The daemon is the environment: a  *)
(* snapshot, then events in the order of their numbers, then perhaps the   *)
(* end of the connection.                                                  *)
(***************************************************************************)
EXTENDS SequencesExt

CONSTANTS
    Capacity,       \* --buffer: capacity of the local store
    SubChanCap,     \* events a subscription buffers, 100 in the code
    EventsCap,      \* capacity of Client.events, 100 in the code
    MaxEvent        \* bound: events of the daemon

ASSUME AttachAssumption ==
    /\ Capacity \in Nat \ {0} /\ SubChanCap \in Nat \ {0} /\ EventsCap \in Nat \ {0}
    /\ MaxEvent \in Nat \ {0}

VARIABLES
    (* the daemon *)
    sent,           \* number of the last event it has sent, snapshot included
    wire,           \* events on their way to the client
    ended,          \* the connection has ended on the daemon's side
    (* Client *)
    reader,         \* readLoop: "off", "read", "failed", "done"
    events,         \* contents of Client.events
    eventsClosed,
    errs,           \* contents of Client.errs: "empty", "error"
    dropped,        \* Client.dropped
    (* the source goroutine of runAttach *)
    source,         \* "off", "select", "push", "done"
    hand,           \* the event it is about to push
    sourceErr,      \* contents of sourceErr: "empty", "nil", "EOF", "error"
    (* the local store *)
    window, subs, closed, filter, queue,
    pushed,         \* history: what was pushed into it
    (* the front end *)
    mode,           \* "json" or "tui"
    front,          \* "dial", "subscribe", "history", "loop", "wait", "returned"
    shown,          \* what it has printed, or given to the TUI
    result,         \* what runJSONMode or runTUIMode returns
    skipped,        \* history: Len(pushed) when the front end took the history
    ctxDone

daemonVars == <<sent, wire, ended>>
clientVars == <<reader, events, eventsClosed, errs, dropped>>
sourceVars == <<source, hand, sourceErr>>
storeVars  == <<window, subs, closed, filter, queue, pushed>>
frontVars  == <<mode, front, shown, result, skipped>>
vars       == <<daemonVars, clientVars, sourceVars, storeVars, frontVars, ctxDone>>

Tables == {"any"}
Sub    == "sub"                         \* the front end's subscription
Event(n) == [seq |-> n, table |-> "any"]
Events == {Event(n) : n \in 1 .. MaxEvent}
Store  == INSTANCE EventWindow WITH Chans <- {Sub}

TypeOK ==
    /\ sent \in 0 .. MaxEvent /\ wire \in Seq(Events) /\ ended \in BOOLEAN
    /\ reader \in {"off", "read", "failed", "done"}
    /\ events \in Seq(Events) /\ Len(events) <= EventsCap
    /\ eventsClosed \in BOOLEAN /\ errs \in {"empty", "error"}
    /\ dropped \in 0 .. MaxEvent
    /\ source \in {"off", "select", "push", "done"} /\ hand \in Events
    /\ sourceErr \in {"empty", "nil", "EOF", "error"}
    /\ window \in Seq(Events) /\ Len(window) <= Capacity /\ pushed \in Seq(Events)
    /\ subs \subseteq {Sub} /\ closed = {} /\ filter \in [{Sub} -> SUBSET Tables]
    /\ queue \in [{Sub} -> Seq(Events)] /\ Len(queue[Sub]) <= SubChanCap
    /\ mode \in {"json", "tui"}
    /\ front \in {"dial", "subscribe", "history", "loop", "wait", "returned"}
    /\ shown \in Seq(Events) /\ skipped \in 0 .. MaxEvent
    /\ result \in {"none", "nil", "EOF", "error"} /\ ctxDone \in BOOLEAN
------------------------------------------------------------------------------
Init ==
    /\ sent = 0 /\ wire = <<>> /\ ended = FALSE
    /\ reader = "off" /\ events = <<>> /\ eventsClosed = FALSE /\ errs = "empty" /\ dropped = 0
    /\ source = "off" /\ hand = Event(1) /\ sourceErr = "empty"
    /\ Store!Init /\ pushed = <<>>
    /\ mode \in {"json", "tui"}
    /\ front = "dial" /\ shown = <<>> /\ result = "none" /\ skipped = 0
    /\ ctxDone = FALSE

\* mutant: the JSON mode prints the history before it subscribes, as the TUI does
After_HistoryFirst(m) ==
    IF front = "dial" THEN "history" ELSE IF front = "history" THEN "subscribe" ELSE "loop"
\* The order of Subscribe and Snapshot, which is not the same in the two modes.
After(m) ==
    CASE front = "dial"      -> IF m = "json" THEN "subscribe" ELSE "history"
      [] front = "subscribe" -> IF m = "json" THEN "history" ELSE "loop"
      [] front = "history"   -> IF m = "json" THEN "loop" ELSE "subscribe"
------------------------------------------------------------------------------
(* The daemon. *)

DaemonSends ==
    /\ front \notin {"dial", "returned"} /\ ~ended /\ sent < MaxEvent
    /\ sent' = sent + 1
    /\ wire' = Append(wire, Event(sent + 1))
    /\ UNCHANGED <<ended, clientVars, sourceVars, storeVars, frontVars, ctxDone>>

DaemonEnds ==
    /\ front \notin {"dial", "returned"} /\ ~ended
    /\ ended' = TRUE
    /\ UNCHANGED <<sent, wire, clientVars, sourceVars, storeVars, frontVars, ctxDone>>

\* SIGINT or SIGTERM to the attached process.
Cancel ==
    /\ front \notin {"dial", "returned"} /\ ~ctxDone
    /\ ctxDone' = TRUE
    /\ UNCHANGED <<daemonVars, clientVars, sourceVars, storeVars, frontVars>>
------------------------------------------------------------------------------
(* Dial, and the load of the daemon's snapshot into the local store. *)

Dial(n) ==
    /\ front = "dial"
    /\ sent' = n
    /\ pushed' = [i \in 1 .. n |-> Event(i)]
    /\ window' = IF n <= Capacity THEN pushed' ELSE SubSeq(pushed', n - Capacity + 1, n)
    /\ reader' = "read" /\ source' = "select"
    /\ front' = After(mode)
    /\ UNCHANGED <<wire, ended, events, eventsClosed, errs, dropped, hand, sourceErr,
                   subs, closed, filter, queue, mode, shown, result, skipped, ctxDone>>
------------------------------------------------------------------------------
(* Client.readLoop. *)

notReader == <<sent, ended, sourceVars, storeVars, frontVars, ctxDone>>

ReadEvent_Uncounted ==                       \* mutant: a drop is not counted
    /\ reader = "read" /\ wire # <<>>
    /\ wire' = Tail(wire)
    /\ events' = IF Len(events) < EventsCap THEN Append(events, Head(wire)) ELSE events
    /\ UNCHANGED <<reader, eventsClosed, errs, dropped, notReader>>
ReadEvent_OneMore ==                         \* mutant: room for one more than the channel has
    /\ reader = "read" /\ wire # <<>>
    /\ wire' = Tail(wire)
    /\ IF Len(events) <= EventsCap
       THEN events' = Append(events, Head(wire)) /\ UNCHANGED dropped
       ELSE dropped' = dropped + 1 /\ UNCHANGED events
    /\ UNCHANGED <<reader, eventsClosed, errs, notReader>>
\* select { case c.events <- e: default: c.dropped.Add(1) }
ReadEvent ==
    /\ reader = "read" /\ wire # <<>>
    /\ wire' = Tail(wire)
    /\ IF Len(events) < EventsCap
       THEN events' = Append(events, Head(wire)) /\ UNCHANGED dropped
       ELSE dropped' = dropped + 1 /\ UNCHANGED events
    /\ UNCHANGED <<reader, eventsClosed, errs, notReader>>

ReadFails ==
    /\ reader = "read" /\ wire = <<>> /\ ended
    /\ reader' = "failed" /\ errs' = "error"
    /\ UNCHANGED <<wire, events, eventsClosed, dropped, notReader>>

\* The defers.  That errs is closed too is never seen: the error sent before is
\* taken first, and whoever takes it does not look again.
CloseChannels ==
    /\ reader = "failed"
    /\ reader' = "done" /\ eventsClosed' = TRUE
    /\ UNCHANGED <<wire, events, errs, dropped, notReader>>

Reader == ReadEvent \/ ReadFails \/ CloseChannels
------------------------------------------------------------------------------
(* The source goroutine of runAttach: one select over ctx and two channels. *)

notSource == <<daemonVars, reader, eventsClosed, dropped, frontVars, ctxDone>>

SourceEnds(err) == source' = "done" /\ sourceErr' = err

SourceCancelled_Silently ==                  \* mutant: nothing is sent to sourceErr
    /\ source = "select" /\ ctxDone
    /\ source' = "done"
    /\ UNCHANGED <<notSource, events, errs, hand, sourceErr, storeVars>>
SourceCancelled ==
    /\ source = "select" /\ ctxDone
    /\ SourceEnds("nil")
    /\ UNCHANGED <<notSource, events, errs, hand, storeVars>>

SourceTakes ==
    /\ source = "select" /\ events # <<>>
    /\ source' = "push" /\ hand' = Head(events) /\ events' = Tail(events)
    /\ UNCHANGED <<notSource, errs, sourceErr, storeVars>>

SourcePushes ==
    /\ source = "push"
    /\ source' = "select"
    /\ Store!Put(hand)
    /\ pushed' = Append(pushed, hand)
    /\ UNCHANGED <<notSource, events, errs, hand, sourceErr>>

SourceSeesEnd ==
    /\ source = "select"
    /\ \/ eventsClosed /\ events = <<>> /\ SourceEnds("EOF") /\ UNCHANGED errs
       \/ errs = "error" /\ SourceEnds("error") /\ errs' = "empty"
    /\ UNCHANGED <<notSource, events, hand, storeVars>>

Source == SourceCancelled \/ SourceTakes \/ SourcePushes \/ SourceSeesEnd
------------------------------------------------------------------------------
(* The front ends. *)

notFront == <<daemonVars, clientVars, source, hand, mode>>

Subscribe ==
    /\ front = "subscribe"
    /\ Store!Join(Sub, Tables)
    /\ front' = After(mode)
    /\ UNCHANGED <<notFront, sourceErr, pushed, shown, result, skipped, ctxDone>>

\* Snapshot: printed, or given to the TUI's model.
TakeHistory ==
    /\ front = "history"
    /\ shown' = window
    /\ skipped' = Len(pushed)
    /\ front' = After(mode)
    /\ UNCHANGED <<notFront, sourceErr, storeVars, result, ctxDone>>

\* One event from the subscription.
Show ==
    /\ front = "loop"
    /\ Store!Take(Sub)
    /\ shown' = Append(shown, Head(queue[Sub]))
    /\ UNCHANGED <<notFront, sourceErr, pushed, front, result, skipped, ctxDone>>

Returns(err) == front' = "returned" /\ result' = err

\* case err := <-sourceErr
JsonSourceEnds ==
    /\ mode = "json" /\ front \in {"loop", "wait"}
    /\ sourceErr # "empty"
    /\ Returns(sourceErr) /\ sourceErr' = "empty"
    /\ UNCHANGED <<notFront, storeVars, shown, skipped, ctxDone>>

\* case <-ctx.Done(): waitSourceOnShutdown
JsonCancelled ==
    /\ mode = "json" /\ front = "loop" /\ ctxDone
    /\ front' = "wait"
    /\ UNCHANGED <<notFront, sourceErr, storeVars, shown, result, skipped, ctxDone>>

\* QuitMsg, because the source has failed or ctx is done, or the user's q: p.Run
\* returns and the mode with it, whatever the source's error was.
TuiQuits ==
    /\ mode = "tui" /\ front = "loop"
    /\ Returns("nil")
    /\ ctxDone' = TRUE                                          \* stop()
    /\ UNCHANGED <<notFront, sourceErr, storeVars, shown, skipped>>

FrontEnd == Subscribe \/ TakeHistory \/ Show \/ JsonSourceEnds \/ JsonCancelled \/ TuiQuits

Next ==
    \/ \E n \in 0 .. MaxEvent : Dial(n)
    \/ DaemonSends \/ DaemonEnds \/ Cancel
    \/ front # "returned" /\ (Reader \/ Source \/ FrontEnd)

Spec == Init /\ [][Next]_vars
------------------------------------------------------------------------------
(***************************************************************************)
(* Properties.                                                             *)
(***************************************************************************)
Seqs(es) == [i \in DOMAIN es |-> es[i].seq]
Increasing(s) == \A i, j \in DOMAIN s : i < j => s[i] < s[j]

\* What the front end has shown or still holds in its subscription.
Feed == shown \o queue[Sub]

HistoryLen == IF skipped < Capacity THEN skipped ELSE Capacity

\* Shown or held; or gone from the ring before the history was taken; or dropped
\* because SubChanCap events waited in the subscription when it came.
Accounted(i) ==
    \/ Contains(Feed, pushed[i])
    \/ skipped - i >= Capacity
    \/ \E k \in DOMAIN Feed : k - HistoryLen >= SubChanCap /\ Feed[k].seq < pushed[i].seq

\* The two front ends join history and stream in opposite orders, and each keeps
\* what its order can give: the JSON mode loses no event of the local store
\* between them (main.go:245-277), the TUI shows none twice or out of order
\* (main.go:187-205).
HistoryJoinsStream ==
    /\ mode = "json" /\ front \in {"loop", "wait"} => \A i \in DOMAIN pushed : Accounted(i)
    /\ mode = "tui" /\ front \in {"loop", "returned"} => Increasing(Seqs(Feed))

\* Every event read from the daemon is handed on or counted as dropped
\* (CHANGELOG.md:89): Dropped() is exact.
DropsAreCounted ==
    sent = Len(wire) + dropped + Len(events) + (IF source = "push" THEN 1 ELSE 0) + Len(pushed)
------------------------------------------------------------------------------
(***************************************************************************)
(* Fairness: the goroutines of the process run, and a select does not      *)
(* ignore a ready case for ever.  Nothing is assumed of the daemon.        *)
(***************************************************************************)
FairSpec ==
    /\ Spec
    /\ WF_vars(front # "returned" /\ Reader)
    /\ WF_vars(front # "returned" /\ Source) /\ SF_vars(SourceCancelled) /\ SF_vars(SourceSeesEnd)
    /\ WF_vars(front # "returned" /\ (Subscribe \/ TakeHistory \/ Show))
    /\ SF_vars(JsonSourceEnds) /\ SF_vars(JsonCancelled)

\* When the daemon goes away, or on Ctrl-C, `attach` in JSON mode ends, and it ends
\* without an error only when it was interrupted (main.go:271-275, 285-293).
JsonEnds ==
    mode = "json" /\ (ended \/ ctxDone) ~>
        front = "returned" /\ (ctxDone \/ result \in {"EOF", "error"})
=============================================================================
