------------------------------- MODULE LiveFeed --------------------------------
(* The dashboard's event feeds: the useSSE hooks of one browser tab            *)
(* (hooks/useSSE.js) over EventStream, with the pages that show them           *)
(* (components/Layout.jsx, pages/Activity.jsx, pages/Topology.jsx).            *)
(* The header's indicator has a feed of its own as long as the tab is open; a  *)
(* page's feed begins and ends with the page, and a page is mounted anew       *)
(* whenever the path changes.                                                  *)
EXTENDS EventStream, EventView, Pages

CONSTANTS
    Window,         \* the maxEvents of each feed (1, 50 and 200)
    Recent,         \* how many events the Topology page lists (10)
    FirstDelay,     \* of the backoff, in seconds (1)
    LongestDelay,   \* its limit (10)
    EventType,      \* the type of each event
    Filters,        \* the filters the user tries
    NoStream, NoFeed,   \* nothing
    MaxMoves,       \* bound: navigations
    MaxPauses       \* bound: clicks on Pause

Feeds == {"indicator", "topology", "activity"}

ASSUME FeedAssumption ==
    /\ Window \in [Feeds -> Nat \ {0}]
    /\ Recent \in Nat
    /\ FirstDelay \in Nat \ {0}
    /\ LongestDelay \in Nat
    /\ FirstDelay =< LongestDelay
    /\ EventType \in [Events -> Types]
    /\ Filters \subseteq FilterGroups
    /\ NoStream \notin Streams
    /\ NoFeed \notin Feeds
    /\ MaxMoves \in Nat
    /\ MaxPauses \in Nat

VARIABLES
    path,       \* location.pathname
    moves,      \* navigations so far
    hook,       \* where the effect of each feed stands
    events,     \* its list, newest first
    connected,  \* its flag
    delay,      \* its backoff
    source,     \* its sourceRef
    owner,      \* whose callbacks an EventSource calls until it is closed
    late,       \* pending timeouts of effects that were cancelled
    filter, paused, snapshot, pauses    \* the Activity page

pageVars == <<filter, paused, snapshot, pauses>>
vars == <<streamVars, path, moves, hook, events, connected, delay, source, owner,
          late, pageVars>>

(* off: not mounted; mounted: the effect is about to run; open: it has a       *)
(* source; waiting: its timeout is pending.                                    *)
HookStates == {"off", "mounted", "open", "waiting"}

(* The feed of the page a path shows; Inference has none. *)
FeedsOn(p) ==
    {"indicator"} \cup CASE PageAt(p) = "Topology"  -> {"topology"}
                         [] PageAt(p) = "Activity"  -> {"activity"}
                         [] PageAt(p) = "Inference" -> {}

Free(s) == conn[s] = "none" /\ owner[s] = NoFeed

Fresh == CHOOSE s \in Streams : Free(s)

(* A broken variant: slice(0, n - 1). *)
FirstButOne(n, list) == SubSeq(list, 1, IF Len(list) < n - 1 THEN Len(list) ELSE n - 1)

FirstOf(n, list) == SubSeq(list, 1, IF Len(list) < n THEN Len(list) ELSE n)

--------------------------------------------------------------------------------
(* The hook. *)

(* open(): a new EventSource, unless the effect was cancelled. *)
Open(f) ==
    /\ \E s \in Streams : Free(s)
    /\ Asked(Fresh)
    /\ source' = [source EXCEPT ![f] = Fresh]
    /\ owner' = [owner EXCEPT ![Fresh] = f]
    /\ hook' = [hook EXCEPT ![f] = "open"]
    /\ UNCHANGED <<server, stops, emitted, clients, queue, wire, path, moves,
                   events, connected, pageVars>>

Effect(f) ==
    /\ hook[f] = "mounted"
    /\ Open(f)
    /\ UNCHANGED <<delay, late>>

(* The timeout of an effect that is still there. *)
DoubledForever(d) == 2 * d    \* a broken variant
Doubled(d) == IF 2 * d < LongestDelay THEN 2 * d ELSE LongestDelay

Retry(f) ==
    /\ hook[f] = "waiting"
    /\ delay' = [delay EXCEPT ![f] = Doubled(@)]
    /\ Open(f)
    /\ UNCHANGED late

(* The timeout of one that was cancelled: open() returns at once. *)
LateRetry ==
    /\ late > 0
    /\ late' = late - 1
    /\ UNCHANGED <<streamVars, path, moves, hook, events, connected, delay, source,
                   owner, pageVars>>

(* A callback of the feed's source that has something to read. *)
Reads(s, headers) ==
    /\ owner[s] # NoFeed
    /\ wire[s] # <<>>
    /\ (Head(wire[s]) = Headers) <=> headers
    /\ wire' = [wire EXCEPT ![s] = Tail(@)]
    /\ UNCHANGED <<server, stops, emitted, conn, clients, queue, path, moves,
                   hook, source, owner, late, pageVars>>

(* Broken variants: the backoff stays long; the list starts anew. *)
OnOpenSlow(s) ==
    /\ Reads(s, TRUE)
    /\ connected' = [connected EXCEPT ![owner[s]] = TRUE]
    /\ UNCHANGED <<events, delay>>
OnOpenCleared(s) ==
    /\ Reads(s, TRUE)
    /\ connected' = [connected EXCEPT ![owner[s]] = TRUE]
    /\ delay' = [delay EXCEPT ![owner[s]] = FirstDelay]
    /\ events' = [events EXCEPT ![owner[s]] = <<>>]

OnOpen(s) ==
    /\ Reads(s, TRUE)
    /\ connected' = [connected EXCEPT ![owner[s]] = TRUE]
    /\ delay' = [delay EXCEPT ![owner[s]] = FirstDelay]
    /\ UNCHANGED events

(* A broken variant: oldest first. *)
OnMessageAppended(s) ==
    /\ Reads(s, FALSE)
    /\ events' = [events EXCEPT ![owner[s]] =
                     FirstOf(Window[owner[s]], @ \o <<Head(wire[s])>>)]
    /\ UNCHANGED <<connected, delay>>

OnMessage(s) ==
    /\ Reads(s, FALSE)
    /\ events' = [events EXCEPT ![owner[s]] =
                     FirstOf(Window[owner[s]], <<Head(wire[s])>> \o @)]
    /\ UNCHANGED <<connected, delay>>

(* close() of what sourceRef names: its callbacks are not called any more. *)
Closed(f) == {s \in Streams : s = source[f]}

CloseSources(fs) ==
    LET gone == UNION {Closed(f) : f \in fs} IN
    /\ conn' = [s \in Streams |-> IF s \in gone THEN LetGo(s) ELSE conn[s]]
    /\ wire' = [s \in Streams |-> IF s \in gone THEN <<>> ELSE wire[s]]
    /\ owner' = [s \in Streams |-> IF s \in gone THEN NoFeed ELSE owner[s]]
    /\ source' = [f \in Feeds |-> IF f \in fs THEN NoStream ELSE source[f]]

(* src.close() in onerror; without it, as in the broken variant, the browser   *)
(* asks again by itself.                                                       *)
LeftToBrowser(s) ==
    /\ conn' = [conn EXCEPT ![s] = "asked"]
    /\ UNCHANGED <<owner, source>>

CloseOnError(s) ==
    /\ conn' = [conn EXCEPT ![s] = LetGo(s)]
    /\ owner' = [owner EXCEPT ![s] = NoFeed]
    /\ source' = [source EXCEPT ![owner[s]] = NoStream]

(* The timeout onerror sets; a broken variant sets none. *)
GivesUp(f) == UNCHANGED hook
TriesLater(f) == hook' = [hook EXCEPT ![f] = "waiting"]

OnError(s) ==
    /\ owner[s] # NoFeed
    /\ Refused(s) \/ AtEnd(s)
    /\ connected' = [connected EXCEPT ![owner[s]] = FALSE]
    /\ TriesLater(owner[s])
    /\ CloseOnError(s)
    /\ UNCHANGED <<server, stops, emitted, clients, queue, wire, path, moves,
                   events, delay, late, pageVars>>

--------------------------------------------------------------------------------
(* The pages. *)

(* main's key is the path: the old page is unmounted, which cancels its effect *)
(* and closes its source, and the new one starts with empty state.             *)
Remounted(old, empty) ==
    [f \in Feeds |-> IF f = "indicator" THEN old[f] ELSE empty]

Navigate(p) ==
    /\ p # path
    /\ moves < MaxMoves
    /\ path' = p
    /\ moves' = moves + 1
    /\ CloseSources(FeedsOn(path) \ {"indicator"})
    /\ hook' = [f \in Feeds |-> IF f = "indicator" THEN hook[f]
                              ELSE IF f \in FeedsOn(p) THEN "mounted" ELSE "off"]
    /\ events' = Remounted(events, <<>>)
    /\ connected' = Remounted(connected, FALSE)
    /\ delay' = Remounted(delay, FirstDelay)
    /\ late' = late + Cardinality({f \in Feeds \ {"indicator"} : hook[f] = "waiting"})
    /\ filter' = "all"
    /\ paused' = FALSE
    /\ snapshot' = <<>>
    /\ UNCHANGED <<server, stops, emitted, clients, queue, pauses>>

SetFilter(g) ==
    /\ path = "/activity"
    /\ filter # g
    /\ filter' = g
    /\ UNCHANGED <<streamVars, path, moves, hook, events, connected, delay, source,
                   owner, late, paused, snapshot, pauses>>

(* The list is kept on the click that pauses; a broken variant keeps it on     *)
(* the click that resumes.                                                     *)
SnapshotLate(was) == IF was THEN events["activity"] ELSE snapshot
SnapshotAfter(was) == IF was THEN snapshot ELSE events["activity"]

TogglePause ==
    /\ path = "/activity"
    /\ pauses < MaxPauses
    /\ pauses' = pauses + 1
    /\ snapshot' = SnapshotAfter(paused)
    /\ paused' = ~paused
    /\ UNCHANGED <<streamVars, path, moves, hook, events, connected, delay, source,
                   owner, late, filter>>

--------------------------------------------------------------------------------
(* What is on the screen. *)

TypeOf(e) == EventType[e]

Matches(group, list) ==
    Selected(list, {i \in DOMAIN list : TypeOf(list[i]) \in Matching(group)})

Visible == Matches(filter, IF paused THEN snapshot ELSE events["activity"])

GroupCounts ==
    [g \in FilterGroups |-> Len(Matches(g, events["activity"]))]

Activity ==
    [title    |-> IF connected["activity"] THEN "Live event stream" ELSE "Reconnecting",
     button   |-> IF paused THEN "Resume" ELSE "Pause",
     counts   |-> GroupCounts,
     cards    |-> EventCards(Visible, EventType, paused),
     showing  |-> Len(Visible),
     buffered |-> Len(events["activity"])]

ActivityFeed == EventCards(FirstOf(Recent, events["topology"]), EventType, FALSE)

ConnectionIndicator == IF connected["indicator"] THEN "live" ELSE "reconnecting"

--------------------------------------------------------------------------------
Init ==
    /\ StreamInit
    /\ conn = [s \in Streams |-> "none"]
    /\ path \in Paths
    /\ moves = 0
    /\ hook = [f \in Feeds |-> IF f \in FeedsOn(path) THEN "mounted" ELSE "off"]
    /\ events = [f \in Feeds |-> <<>>]
    /\ connected = [f \in Feeds |-> FALSE]
    /\ delay = [f \in Feeds |-> FirstDelay]
    /\ source = [f \in Feeds |-> NoStream]
    /\ owner = [s \in Streams |-> NoFeed]
    /\ late = 0
    /\ filter = "all"
    /\ paused = FALSE
    /\ snapshot = <<>>
    /\ pauses = 0

browserVars == <<path, moves, hook, events, connected, delay, source, owner, late,
                 pageVars>>

Handler(s) == Accept(s) \/ WriteEvent(s) \/ ReadClose(s) \/ WriteFails(s)

Daemon ==
    /\ UNCHANGED browserVars
    /\ \/ PushEvent \/ Stop \/ Cleanup \/ Crash \/ Boot
       \/ \E s \in Streams : Handler(s)

Callback(s) == OnOpen(s) \/ OnMessage(s) \/ OnError(s)

Hook(f) == Effect(f) \/ Retry(f)

User ==
    \/ \E p \in Paths : Navigate(p)
    \/ \E g \in Filters : SetFilter(g)
    \/ TogglePause

Next ==
    \/ Daemon
    \/ \E s \in Streams : Callback(s)
    \/ \E f \in Feeds : Hook(f)
    \/ LateRetry
    \/ User

Fairness ==
    /\ \A s \in Streams : WF_vars(Handler(s) /\ UNCHANGED browserVars)
    /\ \A s \in Streams : WF_vars(Callback(s))
    /\ \A f \in Feeds : WF_vars(Hook(f))
    /\ WF_vars(Cleanup /\ UNCHANGED browserVars)

Spec == Init /\ [][Next]_vars /\ Fairness

--------------------------------------------------------------------------------
(* TypeOK: the shape of the state. *)
TypeOK ==
    /\ server \in {"up", "stopping", "down"}
    /\ stops \in 0..MaxStops
    /\ emitted \in 0..MaxEvents
    /\ conn \in [Streams -> Phases]
    /\ clients \subseteq Streams
    /\ queue \in [Streams -> Seq(Events \cup {Close})]
    /\ wire \in [Streams -> Seq(Events \cup {Headers})]
    /\ path \in Paths
    /\ moves \in 0..MaxMoves
    /\ hook \in [Feeds -> HookStates]
    /\ events \in [Feeds -> Seq(Events)]
    /\ connected \in [Feeds -> BOOLEAN]
    /\ delay \in [Feeds -> FirstDelay..LongestDelay]
    /\ source \in [Feeds -> Streams \cup {NoStream}]
    /\ owner \in [Streams -> Feeds \cup {NoFeed}]
    /\ late \in Nat
    /\ filter \in FilterGroups
    /\ paused \in BOOLEAN
    /\ snapshot \in Seq(Events)
    /\ pauses \in 0..MaxPauses

(* OneSource: however often the stream breaks and the user moves between the   *)
(* pages, a feed has one EventSource that is not closed, namely that of its    *)
(* sourceRef, or none while it waits for its timeout, or none because it is    *)
(* not mounted; and the browser holds no request that nobody listens to.       *)
OneSource ==
    /\ \A f \in Feeds :
          /\ (hook[f] = "off") <=> (f \notin FeedsOn(path))
          /\ {s \in Streams : owner[s] = f} =
                IF hook[f] = "open" THEN {source[f]} ELSE {}
    /\ \A s \in Streams : (owner[s] # NoFeed) <=> (conn[s] \in {"asked", "served", "cut"})

(* ClientsAreServed: while the daemon is up, events are queued for exactly the *)
(* handlers that run: a stream that ended leaves no queue behind in            *)
(* _sse_clients, and one that runs is not forgotten.                           *)
ClientsAreServed == server = "up" => clients = Handled

(* LiveIsTrue: a feed that calls itself connected has a source the daemon has  *)
(* answered, and its backoff is back at the start.                             *)
LiveIsTrue ==
    \A f \in Feeds : connected[f] =>
        /\ hook[f] = "open"
        /\ conn[source[f]] \in {"served", "cut"}
        /\ delay[f] = FirstDelay

(* FooterHonest: "Showing X of Y buffered events": what is listed is part of   *)
(* what is buffered, also when the list is a snapshot taken long ago, and      *)
(* unless it is, the number on the chosen filter is the length of the list.    *)
FooterHonest ==
    /\ Activity.showing =< Activity.buffered
    /\ ~paused => Activity.showing = Activity.counts[filter]

(* PausedHolds: Pause freezes the list as it is on the screen, whatever        *)
(* arrives, breaks or reconnects until Resume.                                 *)
PausedHolds == [][paused' /\ filter' = filter => Visible' = Visible]_vars

(* FeedsImplemented: every feed implements FeedWindow: no event twice and none *)
(* after a later one, over reconnections and restarts of the daemon.           *)
IndicatorFeed == INSTANCE FeedWindow
    WITH shown <- events["indicator"], Size <- Window["indicator"]
TopologyFeed == INSTANCE FeedWindow
    WITH shown <- events["topology"], Size <- Window["topology"]
ActivityFeeds == INSTANCE FeedWindow
    WITH shown <- events["activity"], Size <- Window["activity"]

FeedsImplemented ==
    /\ IndicatorFeed!Spec
    /\ TopologyFeed!Spec
    /\ ActivityFeeds!Spec

(* Reconnects: once the daemon stays up, every feed on the screen becomes and  *)
(* remains connected.                                                          *)
Reconnects ==
    <>[](server = "up") =>
        <>[](\A f \in Feeds : hook[f] # "off" => connected[f])

(* DeadIsNoticed: once the daemon stays down, no feed calls itself connected.  *)
DeadIsNoticed ==
    <>[](server = "down") => <>[](\A f \in Feeds : ~connected[f])

(* LastArrives: an event that was queued for a feed is shown by it, unless its *)
(* stream breaks first or the user moves on (claimed of the last event, which  *)
(* no later one pushes out).                                                   *)
InItems(e, list) == \E i \in DOMAIN list : list[i] = e

UnderWay(f) ==
    \E s \in Streams : /\ owner[s] = f
                       /\ InItems(MaxEvents, queue[s]) \/ InItems(MaxEvents, wire[s])

LastArrives ==
    \A f \in Feeds :
        UnderWay(f) ~> (hook[f] # "open" \/ InItems(MaxEvents, events[f]))
================================================================================
