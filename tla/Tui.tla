---------------------------------- MODULE Tui -----------------------------------
(***************************************************************************)
(* internal/tui/app.go and filter.go: the Bubble Tea model of the live     *)
(* feed.  Bubble Tea calls Update with one message at a time, an event     *)
(* from the store or a key, so each message is one action.                 *)
(*                                                                         *)
(* An item of the feed is id, the number of its arrival, and what: the     *)
(* table of a database change, or "marker", or "log" for the log and DDL   *)
(* entries, which the model treats alike.  Cursors count from 0 as in the  *)
(* code; sequences count from 1.                                           *)
(***************************************************************************)
EXTENDS Integers, SequencesExt, FiniteSetsExt

CONSTANTS
    Tables,         \* values of Event.Table
    MaxHistory,     \* bound: items the model is created with
    MaxItems        \* bound: items altogether

ASSUME TuiAssumption ==
    /\ {"marker", "log"} \cap Tables = {}
    /\ MaxHistory \in 0 .. MaxItems /\ MaxItems \in Nat

VARIABLES
    allEvents, tables, active, cursor, expanded, paused, pending,
    focus, filterCursor, confirmClear, showHelp,
    quit,           \* tea.Quit was returned
    arrived         \* history: items received so far

feedVars   == <<allEvents, pending, cursor, expanded, paused>>
filterVars == <<tables, active, focus, filterCursor>>
modeVars   == <<confirmClear, showHelp, quit>>
vars       == <<feedVars, filterVars, modeVars, arrived>>

Whats == Tables \cup {"marker", "log"}
Item(id, what) == [id |-> id, what |-> what]
Items == [id : 1 .. MaxItems, what : Whats]

IsDBEvent(e) == e.what \in Tables
IsMarker(e)  == e.what = "marker"

\* filterEvents: its loop over the items, and what it does with an empty map.
Passes(e, act) == IsDBEvent(e) => (e.what \in DOMAIN act /\ act[e.what])
FilterEvents(es, act) ==
    LET out[i \in 0 .. Len(es)] ==
            IF i = 0 THEN <<>>
            ELSE IF Passes(es[i], act) THEN Append(out[i - 1], es[i]) ELSE out[i - 1]
    IN  IF DOMAIN act = {} THEN es ELSE out[Len(es)]

Visible == FilterEvents(allEvents, active)
Bottom(es) == IF es = <<>> THEN 0 ELSE Len(es) - 1        \* max(0, len(es)-1)

AddTable(ts, t) == IF Contains(ts, t) THEN ts ELSE Append(ts, t)
\* The tables of the items the model is created with, by the loop over them.
TablesOf(whats) ==
    LET listed[i \in 0 .. Len(whats)] ==
            IF i = 0 THEN <<>>
            ELSE IF whats[i] \in Tables THEN AddTable(listed[i - 1], whats[i]) ELSE listed[i - 1]
    IN  listed[Len(whats)]
Seen(act, t) == [x \in DOMAIN act \cup {t} |-> IF x \in DOMAIN act THEN act[x] ELSE TRUE]

TypeOK ==
    /\ allEvents \in Seq(Items) /\ pending \in Seq(Items)
    /\ tables \in Seq(Tables) /\ IsInjective(tables)
    /\ active \in [ToSet(tables) -> BOOLEAN]
    /\ cursor \in 0 .. MaxItems /\ filterCursor \in Nat
    /\ focus \in {"feed", "filter"}
    /\ {expanded, paused, confirmClear, showHelp, quit} \subseteq BOOLEAN
    /\ arrived \in 0 .. MaxItems
------------------------------------------------------------------------------
\* NewWithEvents
Init ==
    /\ \E whats \in SeqOf(Whats, MaxHistory) :
          /\ allEvents = [i \in DOMAIN whats |-> Item(i, whats[i])]
          /\ tables = TablesOf(whats)
          /\ cursor = Bottom(whats)
          /\ arrived = Len(whats)
    /\ active = [t \in ToSet(tables) |-> TRUE]
    /\ pending = <<>> /\ expanded = FALSE /\ paused = FALSE
    /\ focus = "feed" /\ filterCursor = 0
    /\ confirmClear = FALSE /\ showHelp = FALSE /\ quit = FALSE
------------------------------------------------------------------------------
(* Update: an event. *)

Lists(e) ==
    IF IsDBEvent(e)
    THEN tables' = AddTable(tables, e.what) /\ active' = Seen(active, e.what)
    ELSE UNCHANGED <<tables, active>>

Scrolls ==
    LET n == Len(FilterEvents(allEvents', active'))
    IN  cursor' = IF cursor >= n - 2 THEN (IF n = 0 THEN 0 ELSE n - 1) ELSE cursor

Arrives(e) ==
    /\ ~quit /\ arrived < MaxItems
    /\ arrived' = arrived + 1
    /\ UNCHANGED <<expanded, paused, focus, filterCursor, modeVars>>

EventArrives_PausedUnlisted(e) ==            \* mutant: a paused feed lists no table
    /\ Arrives(e)
    /\ IF paused
       THEN pending' = Append(pending, e) /\ UNCHANGED <<allEvents, cursor, tables, active>>
       ELSE Lists(e) /\ allEvents' = Append(allEvents, e) /\ Scrolls /\ UNCHANGED pending
EventArrives(e) ==
    /\ Arrives(e) /\ Lists(e)
    /\ IF paused
       THEN pending' = Append(pending, e) /\ UNCHANGED <<allEvents, cursor>>
       ELSE allEvents' = Append(allEvents, e) /\ Scrolls /\ UNCHANGED pending
------------------------------------------------------------------------------
(* Update: a key while the clear is to be confirmed, or under the help.    *)

\* A second 'c', or any other key, q and ctrl+c included.
AnswerClear(yes) ==
    /\ ~quit /\ confirmClear /\ confirmClear' = FALSE
    /\ IF yes THEN allEvents' = <<>> /\ pending' = <<>> /\ cursor' = 0 /\ expanded' = FALSE
              ELSE UNCHANGED <<allEvents, pending, cursor, expanded>>
    /\ UNCHANGED <<paused, filterVars, showHelp, quit, arrived>>

CloseHelp ==
    /\ ~quit /\ ~confirmClear /\ showHelp
    /\ showHelp' = FALSE
    /\ UNCHANGED <<feedVars, filterVars, confirmClear, quit, arrived>>
------------------------------------------------------------------------------
(* updateFeed *)

InFeed == ~quit /\ ~confirmClear /\ ~showHelp /\ focus = "feed"
restOfFeed == <<allEvents, pending, paused, filterVars, modeVars, arrived>>

CursorTo(i) == InFeed /\ cursor' = i

Down   == cursor < Len(Visible) - 1 /\ CursorTo(cursor + 1) /\ UNCHANGED <<expanded, restOfFeed>>
Up_ToMinusOne ==                             \* mutant: no test for the top
    CursorTo(cursor - 1) /\ UNCHANGED <<expanded, restOfFeed>>
Up     == cursor > 0 /\ CursorTo(cursor - 1) /\ UNCHANGED <<expanded, restOfFeed>>
Oldest == CursorTo(0) /\ expanded' = FALSE /\ UNCHANGED restOfFeed
Newest == CursorTo(Bottom(Visible)) /\ UNCHANGED <<expanded, restOfFeed>>

Expand ==
    /\ InFeed /\ Visible # <<>>
    /\ expanded' = ~expanded
    /\ UNCHANGED <<cursor, restOfFeed>>

\* '[' and ']'
MarkersAt(is) == {i \in is : i + 1 \in DOMAIN Visible /\ IsMarker(Visible[i + 1])}
JumpTo(is, i) == i \in is /\ CursorTo(i) /\ expanded' = FALSE /\ UNCHANGED restOfFeed
PreviousMarker == LET is == MarkersAt(0 .. cursor - 1) IN is # {} /\ JumpTo(is, Max(is))
NextMarker     == LET is == MarkersAt(cursor + 1 .. Len(Visible) - 1) IN is # {} /\ JumpTo(is, Min(is))

Pause_PendingFirst ==                        \* mutant: what waited is put before what was there
    /\ InFeed /\ paused' = ~paused
    /\ IF paused /\ pending # <<>>
       THEN /\ allEvents' = pending \o allEvents /\ pending' = <<>>
            /\ cursor' = Bottom(FilterEvents(allEvents', active))
       ELSE UNCHANGED <<allEvents, pending, cursor>>
    /\ UNCHANGED <<expanded, filterVars, modeVars, arrived>>
Pause ==
    /\ InFeed /\ paused' = ~paused
    /\ IF paused /\ pending # <<>>
       THEN /\ allEvents' = allEvents \o pending /\ pending' = <<>>
            /\ cursor' = Bottom(FilterEvents(allEvents', active))
       ELSE UNCHANGED <<allEvents, pending, cursor>>
    /\ UNCHANGED <<expanded, filterVars, modeVars, arrived>>

LastMarker == Max({i \in DOMAIN allEvents : IsMarker(allEvents[i])} \cup {0})

\* 'M'
DropBeforeMarker ==
    /\ InFeed /\ LastMarker > 1
    /\ allEvents' = SubSeq(allEvents, LastMarker, Len(allEvents))
    /\ cursor' = 0 /\ expanded' = FALSE
    /\ UNCHANGED <<pending, paused, filterVars, modeVars, arrived>>

ToFilter ==
    /\ InFeed
    /\ focus' = "filter" /\ filterCursor' = 0
    /\ UNCHANGED <<feedVars, tables, active, modeVars, arrived>>

AskClear == InFeed /\ confirmClear' = TRUE /\ UNCHANGED <<feedVars, filterVars, showHelp, quit, arrived>>
Help     == InFeed /\ showHelp' = TRUE /\ UNCHANGED <<feedVars, filterVars, confirmClear, quit, arrived>>

UpdateFeed ==
    \/ Down \/ Up \/ Oldest \/ Newest \/ Expand \/ PreviousMarker \/ NextMarker
    \/ Pause \/ DropBeforeMarker \/ ToFilter \/ AskClear \/ Help
------------------------------------------------------------------------------
(* updateFilter *)

InFilter == ~quit /\ ~confirmClear /\ ~showHelp /\ focus = "filter"

ToFeed ==
    /\ InFilter /\ focus' = "feed"
    /\ UNCHANGED <<feedVars, tables, active, filterCursor, modeVars, arrived>>

FilterDown ==
    /\ InFilter /\ filterCursor < Len(tables) - 1
    /\ filterCursor' = filterCursor + 1
    /\ UNCHANGED <<feedVars, tables, active, focus, modeVars, arrived>>

FilterUp ==
    /\ InFilter /\ filterCursor > 0
    /\ filterCursor' = filterCursor - 1
    /\ UNCHANGED <<feedVars, tables, active, focus, modeVars, arrived>>

Toggled == [active EXCEPT ![tables[filterCursor + 1]] = ~@]

ToggleTable_NoClamp ==                       \* mutant: the cursor stays where it was
    /\ InFilter /\ tables # <<>>
    /\ active' = Toggled
    /\ UNCHANGED <<feedVars, tables, focus, filterCursor, modeVars, arrived>>
ToggleTable ==
    /\ InFilter /\ tables # <<>>
    /\ active' = Toggled
    /\ LET visible == FilterEvents(allEvents, Toggled)
       IN  cursor' = IF cursor >= Len(visible) THEN Bottom(visible) ELSE cursor
    /\ UNCHANGED <<allEvents, pending, expanded, paused, tables, focus, filterCursor, modeVars, arrived>>

UpdateFilter == ToFeed \/ FilterDown \/ FilterUp \/ ToggleTable
------------------------------------------------------------------------------
Quit ==
    /\ InFeed \/ InFilter
    /\ quit' = TRUE
    /\ UNCHANGED <<feedVars, filterVars, confirmClear, showHelp, arrived>>

Next ==
    \/ \E w \in Whats : EventArrives(Item(arrived + 1, w))
    \/ \E yes \in BOOLEAN : AnswerClear(yes)
    \/ CloseHelp \/ UpdateFeed \/ UpdateFilter \/ Quit

Spec == Init /\ [][Next]_vars
------------------------------------------------------------------------------
(***************************************************************************)
(* Properties.                                                             *)
(***************************************************************************)
\* No sequence of keys and arrivals leaves either cursor outside the list it
\* indexes (visible[i] in app.go:200-216, tables[m.filterCursor] in app.go:258).
IndexesInRange ==
    /\ cursor \in 0 .. Bottom(Visible)
    /\ filterCursor \in 0 .. Bottom(tables)

\* The feed and what waits behind it while paused.
Held == allEvents \o pending

Latest      == \A i \in DOMAIN Held : Held[i].id = arrived - Len(Held) + i
UserRemoves == \/ Len(Held') >= Len(Held)
               \/ confirmClear /\ Held' = <<>>
               \/ Held' # <<>> /\ IsMarker(Held'[1]) /\ pending' = pending

\* What the model holds is always the latest items, each once and in the order
\* they came, across pause and resume, M and clear (app.go:109-131, 180-186,
\* 218-232): "events arriving while paused appear after resume".  An item leaves
\* only because the user confirmed a clear, or by M from before a marker that stays.
HeldIsLatest == [][Latest' /\ UserRemoves]_vars

\* Every database change held has its table in the sidebar, so what is hidden
\* was switched off there and can be switched on again (app.go:100-107,
\* filter.go:79-94).
HiddenOnlyByFilter ==
    \A i \in DOMAIN Held : IsDBEvent(Held[i]) => Contains(tables, Held[i].what)
=============================================================================
