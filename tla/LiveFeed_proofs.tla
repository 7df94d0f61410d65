----------------------------- MODULE LiveFeed_proofs ----------------------------
(* For any number of streams, any sizes of queues and windows, and without     *)
(* bound on stops and navigations: the hooks keep one source each, the daemon  *)
(* serves whom it lists, every feed implements FeedWindow, and the footer of   *)
(* the list counts what there is.                                              *)
EXTENDS LiveFeed, FiniteSetTheorems, SequenceTheorems, TLAPS

--------------------------------------------------------------------------------
(* Lists. *)

LEMMA FirstOfType ==
    ASSUME NEW S, NEW list \in Seq(S), NEW n \in Nat
    PROVE  /\ FirstOf(n, list) \in Seq(S)
           /\ \A i \in DOMAIN FirstOf(n, list) :
                 i \in DOMAIN list /\ FirstOf(n, list)[i] = list[i]
BY DEF FirstOf

LEMMA FeedsFinite == \A S \in SUBSET Feeds : IsFiniteSet(S) /\ Cardinality(S) \in Nat
<1>1. IsFiniteSet({"indicator"})
  BY FS_Singleton
<1>2. IsFiniteSet({"indicator"} \cup {"topology"})
  BY <1>1, FS_AddElement
<1>3. IsFiniteSet(({"indicator"} \cup {"topology"}) \cup {"activity"})
  BY <1>2, FS_AddElement
<1>4. Feeds = ({"indicator"} \cup {"topology"}) \cup {"activity"}
  BY DEF Feeds
<1>5. QED
  BY <1>3, <1>4, FS_Subset, FS_CardinalityType

LEMMA DoubledType ==
    ASSUME NEW d \in FirstDelay..LongestDelay
    PROVE  Doubled(d) \in FirstDelay..LongestDelay
BY FeedAssumption DEF Doubled

LEMMA FilledType ==
    ASSUME NEW item \in Events \cup {Close}, queue \in [Streams -> Seq(Events \cup {Close})]
    PROVE  Filled(item) \in [Streams -> Seq(Events \cup {Close})]
BY DEF Filled

LEMMA LetGoType ==
    ASSUME NEW s \in Streams
    PROVE  LetGo(s) \in {"left", "none"}
BY DEF LetGo

--------------------------------------------------------------------------------
(* The shape of the state. *)

LEMMA TypeInit == Init => TypeOK
<1> SUFFICES ASSUME Init PROVE TypeOK
  OBVIOUS
<1>1. FirstDelay \in FirstDelay..LongestDelay
  BY FeedAssumption
<1>2. 0 \in 0..MaxEvents /\ 0 \in 0..MaxStops /\ 0 \in 0..MaxMoves /\ 0 \in 0..MaxPauses
  BY StreamAssumption, FeedAssumption
<1>3. \A S : <<>> \in Seq(S)
  OBVIOUS
<1>4. /\ server \in {"up", "stopping", "down"} /\ clients \subseteq Streams
      /\ conn \in [Streams -> Phases]
      /\ queue \in [Streams -> Seq(Events \cup {Close})]
      /\ wire \in [Streams -> Seq(Events \cup {Headers})]
      /\ owner \in [Streams -> Feeds \cup {NoFeed}]
  BY <1>3 DEF Init, StreamInit, Phases
<1>5. /\ hook \in [Feeds -> HookStates]
      /\ events \in [Feeds -> Seq(Events)]
      /\ connected \in [Feeds -> BOOLEAN]
      /\ delay \in [Feeds -> FirstDelay..LongestDelay]
      /\ source \in [Feeds -> Streams \cup {NoStream}]
  BY <1>1, <1>3 DEF Init, HookStates
<1>6. filter \in FilterGroups /\ snapshot \in Seq(Events)
  BY <1>3 DEF Init, FilterGroups
<1>7. QED
  BY <1>2, <1>4, <1>5, <1>6 DEF Init, StreamInit, TypeOK

LEMMA DaemonType == ASSUME TypeOK, Daemon PROVE TypeOK'
<1> USE DEF TypeOK, browserVars, pageVars
<1>1. CASE PushEvent
  <2>1. emitted + 1 \in Events /\ emitted' \in 0..MaxEvents
    BY <1>1, StreamAssumption DEF PushEvent, Events
  <2>2. Filled(emitted + 1) \in [Streams -> Seq(Events \cup {Close})]
    BY <2>1, FilledType
  <2>3. QED
    BY <1>1, <2>1, <2>2 DEF PushEvent, Daemon
<1>2. CASE Stop
  <2>1. Filled(Close) \in [Streams -> Seq(Events \cup {Close})]
    BY FilledType
  <2>2. stops' \in 0..MaxStops
    BY <1>2, StreamAssumption DEF Stop
  <2>3. QED
    BY <1>2, <2>1, <2>2 DEF Stop, Daemon
<1>3. CASE Cleanup \/ Crash
  <2>1. AllEnd /\ stops' \in 0..MaxStops
    BY <1>3, StreamAssumption DEF Cleanup, Crash
  <2>2. conn' \in [Streams -> Phases] /\ queue' \in [Streams -> Seq(Events \cup {Close})]
    BY <2>1 DEF AllEnd, Phases
  <2>3. QED
    BY <2>1, <2>2 DEF AllEnd, Daemon
<1>4. CASE Boot
  BY <1>4 DEF Boot, Daemon
<1>5. ASSUME NEW s \in Streams, Accept(s) PROVE TypeOK'
  BY <1>5 DEF Accept, Phases, Daemon
<1>6. ASSUME NEW s \in Streams, WriteEvent(s) PROVE TypeOK'
  <2>1. Head(queue[s]) \in Events /\ Tail(queue[s]) \in Seq(Events \cup {Close})
    BY <1>6 DEF WriteEvent
  <2>2. QED
    BY <1>6, <2>1 DEF WriteEvent, Daemon
<1>7. ASSUME NEW s \in Streams, ReadClose(s) \/ WriteFails(s) PROVE TypeOK'
  <2>1. PICK phase \in {"cut", "none"} : Returns(s, phase) /\ UNCHANGED wire
    BY <1>7 DEF ReadClose, WriteFails
  <2>2. conn' \in [Streams -> Phases] /\ clients' \subseteq Streams
    BY <2>1 DEF Returns, Phases
  <2>3. queue' \in [Streams -> Seq(Events \cup {Close})]
    BY <2>1 DEF Returns
  <2>4. QED
    BY <2>1, <2>2, <2>3 DEF Returns, Daemon
<1>8. QED
  BY <1>1, <1>2, <1>3, <1>4, <1>5, <1>6, <1>7 DEF Daemon, Handler

LEMMA OpenType == ASSUME TypeOK, NEW f \in Feeds, Open(f)
                  PROVE  /\ TypeOK' <=> (delay' \in [Feeds -> FirstDelay..LongestDelay]
                                           /\ late' \in Nat)
                         /\ Fresh \in Streams /\ Free(Fresh)
<1>1. Fresh \in Streams /\ Free(Fresh)
  BY DEF Open, Fresh
<1>2. QED
  BY <1>1 DEF Open, Asked, TypeOK, pageVars, Phases, HookStates

LEMMA HookType == ASSUME TypeOK, NEW f \in Feeds, Hook(f) PROVE TypeOK'
<1>1. CASE Effect(f)
  BY <1>1, OpenType DEF Effect, TypeOK
<1>2. CASE Retry(f)
  <2>1. Doubled(delay[f]) \in FirstDelay..LongestDelay
    BY DoubledType DEF TypeOK
  <2>2. delay' \in [Feeds -> FirstDelay..LongestDelay] /\ late' \in Nat
    BY <1>2, <2>1 DEF Retry, TypeOK
  <2>3. QED
    BY <1>2, <2>2, OpenType DEF Retry
<1>3. QED
  BY <1>1, <1>2 DEF Hook

LEMMA ReadsType ==
    ASSUME TypeOK, NEW s \in Streams, NEW headers \in BOOLEAN, Reads(s, headers)
    PROVE  /\ owner[s] \in Feeds
           /\ Head(wire[s]) \in Events \cup {Headers}
           /\ ~headers => Head(wire[s]) \in Events
           /\ wire' \in [Streams -> Seq(Events \cup {Headers})]
BY DEF Reads, TypeOK

LEMMA CallbackType == ASSUME TypeOK, NEW s \in Streams, Callback(s) PROVE TypeOK'
<1>1. CASE OnOpen(s)
  <2>1. owner[s] \in Feeds /\ wire' \in [Streams -> Seq(Events \cup {Headers})]
    BY <1>1, ReadsType DEF OnOpen
  <2>2. FirstDelay \in FirstDelay..LongestDelay
    BY FeedAssumption
  <2>3. QED
    BY <1>1, <2>1, <2>2 DEF OnOpen, Reads, TypeOK, pageVars
<1>2. CASE OnMessage(s)
  <2>1. /\ owner[s] \in Feeds /\ Head(wire[s]) \in Events
        /\ wire' \in [Streams -> Seq(Events \cup {Headers})]
    BY <1>2, ReadsType DEF OnMessage
  <2>2. Window[owner[s]] \in Nat /\ events[owner[s]] \in Seq(Events)
    BY <2>1, FeedAssumption DEF TypeOK
  <2>3. <<Head(wire[s])>> \o events[owner[s]] \in Seq(Events)
    BY <2>1, <2>2
  <2>4. FirstOf(Window[owner[s]], <<Head(wire[s])>> \o events[owner[s]]) \in Seq(Events)
    BY <2>2, <2>3, FirstOfType
  <2>5. QED
    BY <1>2, <2>1, <2>4 DEF OnMessage, Reads, TypeOK, pageVars
<1>3. CASE OnError(s)
  <2>1. owner[s] \in Feeds /\ LetGo(s) \in Phases
    BY <1>3, LetGoType DEF OnError, TypeOK, Phases
  <2>2. QED
    BY <1>3, <2>1 DEF OnError, TriesLater, CloseOnError, TypeOK, pageVars, HookStates
<1>4. QED
  BY <1>1, <1>2, <1>3 DEF Callback

LEMMA NavigateType == ASSUME TypeOK, NEW p \in Paths, Navigate(p) PROVE TypeOK'
<1>1. moves' \in 0..MaxMoves
  BY FeedAssumption DEF Navigate, TypeOK
<1>2. late' \in Nat
  <2>1. {f \in Feeds \ {"indicator"} : hook[f] = "waiting"} \in SUBSET Feeds
    OBVIOUS
  <2>2. Cardinality({f \in Feeds \ {"indicator"} : hook[f] = "waiting"}) \in Nat
    BY <2>1, FeedsFinite
  <2>3. QED
    BY <2>2 DEF Navigate, TypeOK
<1>3. /\ conn' \in [Streams -> Phases]
      /\ wire' \in [Streams -> Seq(Events \cup {Headers})]
      /\ owner' \in [Streams -> Feeds \cup {NoFeed}]
      /\ source' \in [Feeds -> Streams \cup {NoStream}]
  BY LetGoType DEF Navigate, CloseSources, TypeOK, Phases
<1>4. /\ hook' \in [Feeds -> HookStates]
      /\ events' \in [Feeds -> Seq(Events)]
      /\ connected' \in [Feeds -> BOOLEAN]
      /\ delay' \in [Feeds -> FirstDelay..LongestDelay]
  <2>1. FirstDelay \in FirstDelay..LongestDelay
    BY FeedAssumption
  <2>2. hook' \in [Feeds -> HookStates]
    BY DEF Navigate, TypeOK, HookStates
  <2>3. <<>> \in Seq(Events)
    OBVIOUS
  <2>4. events' \in [Feeds -> Seq(Events)]
    BY <2>3 DEF Navigate, Remounted, TypeOK
  <2>5. connected' \in [Feeds -> BOOLEAN]
    BY DEF Navigate, Remounted, TypeOK
  <2>6. delay' \in [Feeds -> FirstDelay..LongestDelay]
    BY <2>1 DEF Navigate, Remounted, TypeOK
  <2>7. QED
    BY <2>2, <2>4, <2>5, <2>6
<1>5. filter' \in FilterGroups /\ paused' \in BOOLEAN /\ snapshot' \in Seq(Events)
  <2>1. <<>> \in Seq(Events)
    OBVIOUS
  <2>2. QED
    BY <2>1 DEF Navigate, FilterGroups
<1>6. QED
  BY <1>1, <1>2, <1>3, <1>4, <1>5 DEF Navigate, TypeOK

LEMMA UserType == ASSUME TypeOK, User PROVE TypeOK'
<1>1. ASSUME NEW g \in Filters, SetFilter(g) PROVE TypeOK'
  BY <1>1, FeedAssumption DEF SetFilter, TypeOK, streamVars
<1>2. CASE TogglePause
  <2>1. events["activity"] \in Seq(Events)
    BY DEF TypeOK, Feeds
  <2>2. QED
    BY <1>2, <2>1, FeedAssumption DEF TogglePause, SnapshotAfter, TypeOK, streamVars
<1>3. QED
  BY <1>1, <1>2, NavigateType DEF User

LEMMA TypeNext == TypeOK /\ [Next]_vars => TypeOK'
<1> SUFFICES ASSUME TypeOK, [Next]_vars PROVE TypeOK'
  OBVIOUS
<1>1. CASE LateRetry
  BY <1>1 DEF LateRetry, TypeOK, streamVars, pageVars
<1>2. CASE UNCHANGED vars
  BY <1>2 DEF vars, TypeOK, streamVars, pageVars
<1>3. QED
  BY <1>1, <1>2, DaemonType, CallbackType, HookType, UserType DEF Next

(* FeedTypeCorrect: server, wires, hooks and pages keep their shape for any    *)
(* sizes; a backoff stays within its limits.                                   *)
THEOREM FeedTypeCorrect == Spec => []TypeOK
BY TypeInit, TypeNext, PTL DEF Spec

--------------------------------------------------------------------------------
(* The sources.  OneSource is inductive once it is said that a hook without a  *)
(* source has none to close, and that nothing lies on the wire of a stream     *)
(* that no handler has answered: a feed becomes connected by what lies there.  *)

Sourced ==
    /\ \A f \in Feeds : (hook[f] = "off") <=> (f \notin FeedsOn(path))
    /\ \A f \in Feeds : (hook[f] = "open") <=> (source[f] # NoStream)
    /\ \A f \in Feeds, s \in Streams : (owner[s] = f) <=> (source[f] = s)
    /\ \A s \in Streams : (owner[s] # NoFeed) <=> (conn[s] \in {"asked", "served", "cut"})

Unwritten == \A s \in Streams : conn[s] \notin {"served", "cut"} => wire[s] = <<>>

SourceInv == TypeOK /\ Sourced /\ Unwritten /\ LiveIsTrue

LEMMA FeedsOnType ==
    ASSUME NEW p \in Paths
    PROVE  "indicator" \in FeedsOn(p) /\ FeedsOn(p) \subseteq Feeds
BY DEF FeedsOn, Paths, PageAt, Feeds

LEMMA SourceInvOneSource == ASSUME SourceInv PROVE OneSource
<1>1. ASSUME NEW f \in Feeds
      PROVE  {s \in Streams : owner[s] = f} = IF hook[f] = "open" THEN {source[f]} ELSE {}
  <2>1. \A s \in Streams : (owner[s] = f) <=> (source[f] = s)
    BY DEF SourceInv, Sourced
  <2>2. CASE hook[f] = "open"
    <3>1. source[f] \in Streams
      BY <2>2 DEF SourceInv, Sourced, TypeOK
    <3>2. QED
      BY <2>1, <2>2, <3>1
  <2>3. CASE hook[f] # "open"
    <3>1. source[f] \notin Streams
      BY <2>3, FeedAssumption DEF SourceInv, Sourced
    <3>2. QED
      BY <2>1, <2>3, <3>1
  <2>4. QED
    BY <2>2, <2>3
<1>2. QED
  BY <1>1 DEF SourceInv, Sourced, OneSource

LEMMA SourceInit == Init => SourceInv
<1> SUFFICES ASSUME Init PROVE SourceInv
  OBVIOUS
<1>1. TypeOK
  BY TypeInit
<1>2. Sourced
  <2>1. \A f \in Feeds : (hook[f] = "off") <=> (f \notin FeedsOn(path))
    BY DEF Init
  <2>2. \A f \in Feeds : hook[f] # "open" /\ source[f] = NoStream
    BY DEF Init
  <2>3. \A s \in Streams : owner[s] = NoFeed /\ conn[s] = "none"
    BY DEF Init
  <2>4. QED
    BY <2>1, <2>2, <2>3, FeedAssumption DEF Sourced
<1>3. Unwritten /\ LiveIsTrue
  BY DEF Init, StreamInit, Unwritten, LiveIsTrue
<1>4. QED
  BY <1>1, <1>2, <1>3 DEF SourceInv

LEMMA DaemonSource == ASSUME SourceInv, Daemon PROVE SourceInv'
<1>1. TypeOK' /\ TypeOK
  BY DaemonType DEF SourceInv
<1>2. UNCHANGED <<path, hook, source, owner, connected, delay>>
  BY DEF Daemon, browserVars
<1>3. \A s \in Streams :
         /\ \/ conn'[s] = conn[s]
            \/ conn[s] = "asked" /\ conn'[s] = "served"
            \/ conn[s] = "served" /\ conn'[s] = "cut"
            \/ conn[s] = "left" /\ conn'[s] = "none"
         /\ wire'[s] = wire[s] \/ conn'[s] = "served"
  <2>1. CASE PushEvent \/ Stop \/ Boot
    BY <2>1 DEF PushEvent, Stop, Boot
  <2>2. CASE Cleanup \/ Crash
    BY <1>1, <2>2 DEF Cleanup, Crash, AllEnd, TypeOK
  <2>3. ASSUME NEW t \in Streams, Accept(t) PROVE <1>3
    <3>1. /\ conn[t] = "asked"
          /\ \A s \in Streams : conn'[s] = IF s = t THEN "served" ELSE conn[s]
          /\ \A s \in Streams : s # t => wire'[s] = wire[s]
      BY <1>1, <2>3 DEF Accept, TypeOK
    <3>2. QED
      BY <3>1
  <2>4. ASSUME NEW t \in Streams, WriteEvent(t) PROVE <1>3
    <3>1. conn'[t] = "served" /\ \A s \in Streams : s # t => wire'[s] = wire[s]
      BY <1>1, <2>4 DEF WriteEvent, TypeOK
    <3>2. QED
      BY <2>4, <3>1 DEF WriteEvent
  <2>5. ASSUME NEW t \in Streams, ReadClose(t) \/ WriteFails(t) PROVE <1>3
    <3>1. /\ wire' = wire
          /\ \A s \in Streams : s # t => conn'[s] = conn[s]
          /\ \/ conn[t] = "served" /\ conn'[t] = "cut"
             \/ conn[t] = "left" /\ conn'[t] = "none"
      BY <1>1, <2>5 DEF ReadClose, WriteFails, Returns, TypeOK
    <3>2. QED
      BY <3>1
  <2>6. QED
    BY <2>1, <2>2, <2>3, <2>4, <2>5 DEF Daemon, Handler
<1>4. Sourced'
  BY <1>2, <1>3 DEF SourceInv, Sourced
<1>5. Unwritten'
  BY <1>3 DEF SourceInv, Unwritten
<1>6. LiveIsTrue'
  <2>1. ASSUME NEW f \in Feeds, connected[f]
        PROVE  source[f] \in Streams /\ conn[source[f]] \in {"served", "cut"}
    BY <1>1, <2>1 DEF SourceInv, LiveIsTrue, Sourced, TypeOK
  <2>2. QED
    BY <1>2, <1>3, <2>1 DEF SourceInv, LiveIsTrue
<1>7. QED
  BY <1>1, <1>4, <1>5, <1>6 DEF SourceInv

LEMMA HookSource == ASSUME SourceInv, NEW f \in Feeds, Hook(f) PROVE SourceInv'
<1>1. TypeOK' /\ TypeOK
  BY HookType DEF SourceInv
<1>2. Open(f) /\ hook[f] \in {"mounted", "waiting"}
  BY DEF Hook, Effect, Retry
<1>3. /\ Fresh \in Streams /\ conn[Fresh] = "none" /\ owner[Fresh] = NoFeed
      /\ source' = [source EXCEPT ![f] = Fresh]
      /\ owner' = [owner EXCEPT ![Fresh] = f]
      /\ hook' = [hook EXCEPT ![f] = "open"]
      /\ conn' = [conn EXCEPT ![Fresh] = "asked"]
      /\ UNCHANGED <<wire, path, connected>>
  BY <1>1, <1>2, OpenType DEF Open, Asked, Free
<1> HIDE DEF Fresh
<1>4. source[f] = NoStream /\ ~connected[f] /\ f \in FeedsOn(path)
  BY <1>2 DEF SourceInv, Sourced, LiveIsTrue
<1>5. \A g \in Feeds : source[g] # Fresh
  BY <1>3, FeedAssumption DEF SourceInv, Sourced
<1>6a. \A g \in Feeds : hook'[g] = IF g = f THEN "open" ELSE hook[g]
  BY <1>1, <1>3 DEF TypeOK
<1>6. Sourced'
  <2>1. \A g \in Feeds : (hook'[g] = "off") <=> (g \notin FeedsOn(path'))
    <3>1. \A g \in Feeds : (hook[g] = "off") <=> (g \notin FeedsOn(path))
      BY DEF SourceInv, Sourced
    <3>2. FeedsOn(path') = FeedsOn(path)
      BY <1>3
    <3>3. QED
      BY <1>4, <1>6a, <3>1, <3>2
  <2>2. \A g \in Feeds : (hook'[g] = "open") <=> (source'[g] # NoStream)
    <3>1. \A g \in Feeds : (hook[g] = "open") <=> (source[g] # NoStream)
      BY DEF SourceInv, Sourced
    <3>2. \A g \in Feeds : source'[g] = IF g = f THEN Fresh ELSE source[g]
      BY <1>1, <1>3 DEF TypeOK
    <3>3. Fresh # NoStream
      BY <1>3, FeedAssumption
    <3>4. QED
      BY <1>6a, <3>1, <3>2, <3>3
  <2>3. \A g \in Feeds, s \in Streams : (owner'[s] = g) <=> (source'[g] = s)
    <3>1. \A g \in Feeds : source'[g] = IF g = f THEN Fresh ELSE source[g]
      BY <1>1, <1>3 DEF TypeOK
    <3>2. \A s \in Streams : owner'[s] = IF s = Fresh THEN f ELSE owner[s]
      BY <1>1, <1>3 DEF TypeOK
    <3>3. \A s \in Streams : owner[s] # f
      BY <1>4, FeedAssumption DEF SourceInv, Sourced
    <3>4. \A g \in Feeds, s \in Streams : (owner[s] = g) <=> (source[g] = s)
      BY DEF SourceInv, Sourced
    <3>5. QED
      BY <1>3, <1>5, <3>1, <3>2, <3>3, <3>4
  <2>4. \A s \in Streams : (owner'[s] # NoFeed) <=> (conn'[s] \in {"asked", "served", "cut"})
    <3>1. \A s \in Streams : (owner[s] # NoFeed) <=> (conn[s] \in {"asked", "served", "cut"})
      BY DEF SourceInv, Sourced
    <3>2. \A s \in Streams : owner'[s] = IF s = Fresh THEN f ELSE owner[s]
      BY <1>1, <1>3 DEF TypeOK
    <3>3. \A s \in Streams : conn'[s] = IF s = Fresh THEN "asked" ELSE conn[s]
      BY <1>1, <1>3 DEF TypeOK
    <3>4. f # NoFeed
      BY FeedAssumption
    <3>5. QED
      BY <3>1, <3>2, <3>3, <3>4
  <2>5. QED
    BY <2>1, <2>2, <2>3, <2>4 DEF Sourced
<1>7. Unwritten'
  BY <1>1, <1>3 DEF SourceInv, Unwritten, TypeOK
<1>8. LiveIsTrue'
  <2>1. ASSUME NEW g \in Feeds, connected'[g]
        PROVE  /\ hook'[g] = "open" /\ conn'[source'[g]] \in {"served", "cut"}
               /\ delay'[g] = FirstDelay
    <3>1. g # f /\ connected[g]
      BY <1>3, <1>4, <2>1
    <3>2. hook[g] = "open" /\ conn[source[g]] \in {"served", "cut"} /\ delay[g] = FirstDelay
      BY <3>1 DEF SourceInv, LiveIsTrue
    <3>3. source'[g] = source[g] /\ source[g] # Fresh /\ source[g] \in Streams
      BY <1>1, <1>3, <1>5, <3>1, <3>2 DEF SourceInv, Sourced, TypeOK
    <3>4. delay'[g] = delay[g]
      BY <1>1, <3>1 DEF Hook, Effect, Retry, TypeOK
    <3>5. QED
      BY <1>1, <1>3, <3>1, <3>2, <3>3, <3>4 DEF TypeOK
  <2>2. QED
    BY <2>1 DEF LiveIsTrue
<1>9. QED
  BY <1>1, <1>6, <1>7, <1>8 DEF SourceInv

(* Reading takes from the wire of a source that is being served. *)
LEMMA ReadsSource ==
    ASSUME SourceInv, NEW s \in Streams, NEW headers \in BOOLEAN, Reads(s, headers)
    PROVE  /\ owner[s] \in Feeds /\ source[owner[s]] = s /\ hook[owner[s]] = "open"
           /\ conn[s] \in {"served", "cut"}
           /\ Sourced' /\ Unwritten'
<1>1. owner[s] \in Feeds /\ conn[s] \in {"served", "cut"}
  BY DEF Reads, SourceInv, TypeOK, Unwritten
<1>2. source[owner[s]] = s /\ hook[owner[s]] = "open"
  BY <1>1, FeedAssumption DEF SourceInv, Sourced
<1>3. Sourced'
  BY DEF Reads, SourceInv, Sourced
<1>4. Unwritten'
  BY <1>1 DEF Reads, SourceInv, Unwritten, TypeOK
<1>5. QED
  BY <1>1, <1>2, <1>3, <1>4

LEMMA CallbackSource == ASSUME SourceInv, NEW s \in Streams, Callback(s) PROVE SourceInv'
<1>1. TypeOK' /\ TypeOK
  BY CallbackType DEF SourceInv
<1>2. CASE OnOpen(s)
  <2>1. /\ owner[s] \in Feeds /\ source[owner[s]] = s /\ hook[owner[s]] = "open"
        /\ conn[s] \in {"served", "cut"} /\ Sourced' /\ Unwritten'
    BY <1>2, ReadsSource DEF OnOpen
  <2>2. /\ \A f \in Feeds : connected'[f] = IF f = owner[s] THEN TRUE ELSE connected[f]
        /\ \A f \in Feeds : delay'[f] = IF f = owner[s] THEN FirstDelay ELSE delay[f]
        /\ UNCHANGED <<hook, conn, source>>
    BY <1>1, <1>2 DEF OnOpen, Reads, TypeOK
  <2>3. LiveIsTrue'
    BY <2>1, <2>2 DEF SourceInv, LiveIsTrue
  <2>4. QED
    BY <1>1, <2>1, <2>3 DEF SourceInv
<1>3. CASE OnMessage(s)
  <2>1. Sourced' /\ Unwritten'
    BY <1>3, ReadsSource DEF OnMessage
  <2>2. LiveIsTrue'
    BY <1>3 DEF OnMessage, Reads, SourceInv, LiveIsTrue
  <2>3. QED
    BY <1>1, <2>1, <2>2 DEF SourceInv
<1>4. CASE OnError(s)
  <2>1. /\ owner[s] \in Feeds /\ source[owner[s]] = s /\ hook[owner[s]] = "open"
        /\ conn[s] \in {"asked", "cut"} /\ wire[s] = <<>> /\ LetGo(s) = "none"
    BY <1>4, FeedAssumption
       DEF OnError, Refused, AtEnd, LetGo, SourceInv, Sourced, Unwritten, TypeOK
  <2> DEFINE o == owner[s]
  <2>2. /\ \A f \in Feeds : connected'[f] = IF f = o THEN FALSE ELSE connected[f]
        /\ \A f \in Feeds : hook'[f] = IF f = o THEN "waiting" ELSE hook[f]
        /\ \A f \in Feeds : source'[f] = IF f = o THEN NoStream ELSE source[f]
        /\ \A t \in Streams : owner'[t] = IF t = s THEN NoFeed ELSE owner[t]
        /\ \A t \in Streams : conn'[t] = IF t = s THEN "none" ELSE conn[t]
        /\ UNCHANGED <<wire, path, delay>>
    BY <1>1, <1>4, <2>1 DEF OnError, TriesLater, CloseOnError, TypeOK
  <2>3. \A f \in Feeds, t \in Streams : (owner[t] = f) <=> (source[f] = t)
    BY DEF SourceInv, Sourced
  <2>4. \A f \in Feeds : (hook[f] = "off") <=> (f \notin FeedsOn(path))
    BY DEF SourceInv, Sourced
  <2>5. Sourced'
    <3>1. \A f \in Feeds : (hook'[f] = "off") <=> (f \notin FeedsOn(path'))
      BY <2>1, <2>2, <2>4
    <3>2. \A f \in Feeds : (hook'[f] = "open") <=> (source'[f] # NoStream)
      BY <2>2 DEF SourceInv, Sourced
    <3>3. \A f \in Feeds, t \in Streams : (owner'[t] = f) <=> (source'[f] = t)
      BY <2>1, <2>2, <2>3, FeedAssumption
    <3>4. \A t \in Streams : (owner'[t] # NoFeed) <=> (conn'[t] \in {"asked", "served", "cut"})
      BY <2>2 DEF SourceInv, Sourced
    <3>5. QED
      BY <3>1, <3>2, <3>3, <3>4 DEF Sourced
  <2>6. Unwritten'
    BY <2>1, <2>2 DEF SourceInv, Unwritten
  <2>7. LiveIsTrue'
    <3>1. ASSUME NEW f \in Feeds, connected'[f]
          PROVE  /\ hook'[f] = "open" /\ conn'[source'[f]] \in {"served", "cut"}
                 /\ delay'[f] = FirstDelay
      <4>1. f # o /\ connected[f]
        BY <2>2, <3>1
      <4>2. hook[f] = "open" /\ conn[source[f]] \in {"served", "cut"} /\ delay[f] = FirstDelay
        BY <4>1 DEF SourceInv, LiveIsTrue
      <4>3. source[f] \in Streams /\ source[f] # s
        BY <1>1, <2>3, <4>1, <4>2 DEF SourceInv, Sourced, TypeOK
      <4>4. QED
        BY <2>2, <4>1, <4>2, <4>3
    <3>2. QED
      BY <3>1 DEF LiveIsTrue
  <2>8. QED
    BY <1>1, <2>5, <2>6, <2>7 DEF SourceInv
<1>5. QED
  BY <1>2, <1>3, <1>4 DEF Callback

LEMMA NavigateSource == ASSUME SourceInv, NEW p \in Paths, Navigate(p) PROVE SourceInv'
<1>1. TypeOK' /\ TypeOK
  BY NavigateType DEF SourceInv
<1> DEFINE left == FeedsOn(path) \ {"indicator"}
           gone == UNION {Closed(f) : f \in left}
<1>2. \A s \in Streams : s \in gone <=> (owner[s] \in left)
  <2>1. left \subseteq Feeds
    BY <1>1, FeedsOnType DEF TypeOK
  <2>2. \A s \in Streams, f \in left : (owner[s] = f) <=> (source[f] = s)
    BY <2>1 DEF SourceInv, Sourced
  <2>3. \A s \in Streams : s \in gone <=> (\E f \in left : s = source[f])
    BY DEF Closed
  <2>4. QED
    BY <2>2, <2>3
<1>3. \A f \in Feeds \ {"indicator"} : f \notin left => source[f] = NoStream
  BY DEF SourceInv, Sourced
<1>4. /\ \A s \in Streams : conn'[s] = IF owner[s] \in left THEN LetGo(s) ELSE conn[s]
      /\ \A s \in Streams : wire'[s] = IF owner[s] \in left THEN <<>> ELSE wire[s]
      /\ \A s \in Streams : owner'[s] = IF owner[s] \in left THEN NoFeed ELSE owner[s]
  BY <1>2 DEF Navigate, CloseSources
<1>5. \A f \in Feeds : source'[f] = IF f = "indicator" THEN source[f] ELSE NoStream
  BY <1>3 DEF Navigate, CloseSources
<1>6. /\ path' = p
      /\ \A f \in Feeds : hook'[f] = IF f = "indicator" THEN hook[f]
                                     ELSE IF f \in FeedsOn(p) THEN "mounted" ELSE "off"
      /\ \A f \in Feeds : connected'[f] = IF f = "indicator" THEN connected[f] ELSE FALSE
      /\ delay'["indicator"] = delay["indicator"]
  <2>1. path' = p /\ "indicator" \in Feeds
    BY DEF Navigate, Feeds
  <2>2. \A f \in Feeds : hook'[f] = IF f = "indicator" THEN hook[f]
                                   ELSE IF f \in FeedsOn(p) THEN "mounted" ELSE "off"
    BY DEF Navigate
  <2>3. \A f \in Feeds : connected'[f] = IF f = "indicator" THEN connected[f] ELSE FALSE
    BY DEF Navigate, Remounted
  <2>4. delay'["indicator"] = delay["indicator"]
    BY <2>1 DEF Navigate, Remounted
  <2>5. QED
    BY <2>1, <2>2, <2>3, <2>4
<1>7. \A s \in Streams : owner[s] \in Feeds => (owner[s] \in left <=> owner[s] # "indicator")
  BY <1>3, FeedAssumption DEF SourceInv, Sourced
<1>8. NoFeed \notin left
  BY <1>1, FeedsOnType, FeedAssumption DEF TypeOK
<1>9. \A s \in Streams : LetGo(s) \in {"left", "none"}
  BY LetGoType
<1>10. "indicator" \in FeedsOn(p) /\ "indicator" \in FeedsOn(path)
  BY <1>1, FeedsOnType DEF TypeOK
<1>11. Sourced'
  <2>1. \A f \in Feeds : (hook'[f] = "off") <=> (f \notin FeedsOn(path'))
    <3>1. hook["indicator"] # "off"
      BY <1>10 DEF SourceInv, Sourced, Feeds
    <3>2. QED
      BY <1>6, <1>10, <3>1
  <2>2. \A f \in Feeds : (hook'[f] = "open") <=> (source'[f] # NoStream)
    BY <1>5, <1>6 DEF SourceInv, Sourced
  <2>3. \A f \in Feeds, s \in Streams : (owner'[s] = f) <=> (source'[f] = s)
    <3>1. \A f \in Feeds, s \in Streams : (owner[s] = f) <=> (source[f] = s)
      BY DEF SourceInv, Sourced
    <3>2. \A s \in Streams : owner[s] \in Feeds \cup {NoFeed}
      BY <1>1 DEF TypeOK
    <3>3. QED
      BY <1>4, <1>5, <1>7, <3>1, <3>2, FeedAssumption
  <2>4. \A s \in Streams : (owner'[s] # NoFeed) <=> (conn'[s] \in {"asked", "served", "cut"})
    BY <1>4, <1>9, <1>8 DEF SourceInv, Sourced
  <2>5. QED
    BY <2>1, <2>2, <2>3, <2>4 DEF Sourced
<1>12. Unwritten'
  BY <1>4 DEF SourceInv, Unwritten
<1>13. LiveIsTrue'
  <2>1. ASSUME NEW f \in Feeds, connected'[f]
        PROVE  /\ hook'[f] = "open" /\ conn'[source'[f]] \in {"served", "cut"}
               /\ delay'[f] = FirstDelay
    <3>1. f = "indicator" /\ connected[f]
      BY <1>6, <2>1
    <3>2. hook[f] = "open" /\ conn[source[f]] \in {"served", "cut"} /\ delay[f] = FirstDelay
      BY <3>1 DEF SourceInv, LiveIsTrue
    <3>3. source[f] \in Streams /\ owner[source[f]] = f
      BY <1>1, <3>2 DEF SourceInv, Sourced, TypeOK
    <3>4. QED
      BY <1>4, <1>5, <1>6, <3>1, <3>2, <3>3
  <2>2. QED
    BY <2>1 DEF LiveIsTrue
<1>14. QED
  BY <1>1, <1>11, <1>12, <1>13 DEF SourceInv

LEMMA SourceNext == SourceInv /\ [Next]_vars => SourceInv'
<1> SUFFICES ASSUME SourceInv, [Next]_vars PROVE SourceInv'
  OBVIOUS
<1>1. TypeOK'
  BY TypeNext DEF SourceInv
<1>2. ASSUME UNCHANGED <<conn, wire, path, hook, connected, delay, source, owner>>
      PROVE  SourceInv'
  BY <1>1, <1>2 DEF SourceInv, Sourced, Unwritten, LiveIsTrue
<1>3. CASE LateRetry \/ TogglePause \/ UNCHANGED vars
  BY <1>2, <1>3 DEF LateRetry, TogglePause, vars, streamVars
<1>4. ASSUME NEW g \in Filters, SetFilter(g) PROVE SourceInv'
  BY <1>2, <1>4 DEF SetFilter, streamVars
<1>5. QED
  BY <1>3, <1>4, DaemonSource, CallbackSource, HookSource, NavigateSource DEF Next, User

LEMMA SourceInvariant == Spec => []SourceInv
BY SourceInit, SourceNext, PTL DEF Spec

(* SourcesSingle: for any number of streams, breaks and navigations a feed has *)
(* one open EventSource or none, as its hook says, and none is left behind.    *)
THEOREM SourcesSingle == Spec => []OneSource
<1>1. SourceInv => OneSource
  BY SourceInvOneSource
<1>2. QED
  BY <1>1, SourceInvariant, PTL

(* LiveAlwaysTrue: whenever a feed calls itself connected, the daemon has      *)
(* answered the source it reads, and its backoff has been reset.               *)
THEOREM LiveAlwaysTrue == Spec => []LiveIsTrue
<1>1. SourceInv => LiveIsTrue
  BY DEF SourceInv
<1>2. QED
  BY <1>1, SourceInvariant, PTL

--------------------------------------------------------------------------------
(* The clients.  While the daemon stops, handlers run that are not listed any  *)
(* more; none is left when it starts again.                                    *)

Listed ==
    /\ server = "up" => clients = Handled
    /\ server # "up" => clients = {}
    /\ server = "down" => Handled = {}

(* A queue is filled and kept for a handler only. *)
QueuesHandled == \A s \in Streams : s \notin Handled => queue[s] = <<>>

ClientsInv == TypeOK /\ Listed /\ QueuesHandled

LEMMA ListedHandled == ASSUME ClientsInv PROVE clients \subseteq Handled
BY DEF ClientsInv, Listed, TypeOK

LEMMA ClientsInit == Init => ClientsInv
<1> SUFFICES ASSUME Init PROVE ClientsInv
  OBVIOUS
<1>1. Listed /\ QueuesHandled
  BY DEF Init, StreamInit, Handled, Listed, QueuesHandled
<1>2. QED
  BY <1>1, TypeInit DEF ClientsInv

(* Steps of the browser neither start nor end a handler. *)
LEMMA BrowserClients ==
    ASSUME ClientsInv, TypeOK', UNCHANGED <<server, clients, queue>>, Handled' = Handled
    PROVE  ClientsInv'
BY DEF ClientsInv, Listed, QueuesHandled

LEMMA DaemonClients == ASSUME ClientsInv, Daemon PROVE ClientsInv'
<1>1. TypeOK /\ TypeOK'
  BY DaemonType DEF ClientsInv
<1>2. ASSUME NEW item, queue' = Filled(item), UNCHANGED conn
      PROVE  QueuesHandled'
  <2>1. \A s \in Streams : s \notin clients => queue'[s] = queue[s]
    BY <1>2 DEF Filled
  <2>2. Handled' = Handled
    BY <1>2 DEF Handled
  <2>3. QED
    BY <2>1, <2>2, ListedHandled DEF ClientsInv, QueuesHandled
<1>3. CASE PushEvent
  <2>1. QueuesHandled'
    BY <1>2, <1>3 DEF PushEvent
  <2>2. QED
    BY <1>1, <1>3, <2>1 DEF PushEvent, ClientsInv, Listed, Handled
<1>4. CASE Stop
  <2>1. QueuesHandled'
    BY <1>2, <1>4 DEF Stop
  <2>2. Listed'
    BY <1>4 DEF Stop, Listed
  <2>3. QED
    BY <1>1, <2>1, <2>2 DEF ClientsInv
<1>5. CASE Cleanup \/ Crash
  <2>1. AllEnd
    BY <1>5 DEF Cleanup, Crash
  <2>2. \A s \in Streams : conn'[s] \notin {"served", "left"}
    BY <2>1 DEF AllEnd
  <2>3. Handled' = {}
    BY <2>2 DEF Handled
  <2>4. Listed' /\ QueuesHandled'
    BY <2>1, <2>3 DEF AllEnd, Listed, QueuesHandled
  <2>5. QED
    BY <1>1, <2>4 DEF ClientsInv
<1>6. CASE Boot
  BY <1>1, <1>6 DEF Boot, ClientsInv, Listed, QueuesHandled, Handled
<1>7. ASSUME NEW s \in Streams, Accept(s) PROVE ClientsInv'
  <2>1. Handled' = Handled \cup {s}
    BY <1>1, <1>7 DEF Accept, Handled, TypeOK
  <2>2. Listed'
    BY <1>7, <2>1 DEF Accept, ClientsInv, Listed
  <2>3. QueuesHandled'
    BY <1>1, <1>7, <2>1 DEF Accept, ClientsInv, QueuesHandled, TypeOK
  <2>4. QED
    BY <1>1, <2>2, <2>3 DEF ClientsInv
<1>8. ASSUME NEW s \in Streams, WriteEvent(s) PROVE ClientsInv'
  <2>1. Handled' = Handled /\ s \in Handled
    BY <1>8 DEF WriteEvent, Handled
  <2>2. QueuesHandled'
    BY <1>1, <1>8, <2>1 DEF WriteEvent, ClientsInv, QueuesHandled, TypeOK
  <2>3. QED
    BY <1>1, <1>8, <2>1, <2>2 DEF WriteEvent, ClientsInv, Listed
<1>9. ASSUME NEW s \in Streams, ReadClose(s) \/ WriteFails(s) PROVE ClientsInv'
  <2>1. PICK phase \in {"cut", "none"} : Returns(s, phase)
    BY <1>9 DEF ReadClose, WriteFails
  <2>2. Handled' = Handled \ {s}
    BY <1>1, <2>1 DEF Returns, Handled, TypeOK
  <2>3. Listed'
    BY <2>1, <2>2 DEF Returns, ClientsInv, Listed
  <2>4. QueuesHandled'
    BY <1>1, <2>1, <2>2 DEF Returns, ClientsInv, QueuesHandled, TypeOK
  <2>5. QED
    BY <1>1, <2>3, <2>4 DEF ClientsInv
<1>10. QED
  BY <1>3, <1>4, <1>5, <1>6, <1>7, <1>8, <1>9 DEF Daemon, Handler

LEMMA ClientsNext == ClientsInv /\ [Next]_vars => ClientsInv'
<1> SUFFICES ASSUME ClientsInv, [Next]_vars PROVE ClientsInv'
  OBVIOUS
<1>1. TypeOK /\ TypeOK'
  BY TypeNext DEF ClientsInv
<1>2. ASSUME UNCHANGED <<server, clients, queue, conn>> PROVE ClientsInv'
  BY <1>1, <1>2, BrowserClients DEF Handled
<1>3. CASE LateRetry \/ TogglePause \/ UNCHANGED vars
  BY <1>2, <1>3 DEF LateRetry, TogglePause, vars, streamVars
<1>4. ASSUME NEW g \in Filters, SetFilter(g) PROVE ClientsInv'
  BY <1>2, <1>4 DEF SetFilter, streamVars
<1>5. ASSUME NEW s \in Streams, Callback(s) PROVE ClientsInv'
  <2>1. CASE OnOpen(s) \/ OnMessage(s)
    BY <1>2, <2>1 DEF OnOpen, OnMessage, Reads
  <2>2. CASE OnError(s)
    <3>1. \A t \in Streams : conn'[t] = IF t = s THEN "none" ELSE conn[t]
      BY <1>1, <2>2 DEF OnError, Refused, AtEnd, CloseOnError, LetGo, TypeOK
    <3>2. conn[s] \in {"asked", "cut"}
      BY <2>2 DEF OnError, Refused, AtEnd
    <3>3. Handled' = Handled
      BY <3>1, <3>2 DEF Handled
    <3>4. QED
      BY <1>1, <2>2, <3>3, BrowserClients DEF OnError
  <2>3. QED
    BY <1>5, <2>1, <2>2 DEF Callback
<1>6. ASSUME NEW f \in Feeds, Hook(f) PROVE ClientsInv'
  <2>1. Open(f)
    BY <1>6 DEF Hook, Effect, Retry
  <2>2. conn[Fresh] = "none" /\ conn' = [conn EXCEPT ![Fresh] = "asked"]
    BY <2>1 DEF Open, Asked
  <2> HIDE DEF Fresh
  <2>3. Handled' = Handled
    BY <1>1, <2>2 DEF Handled, TypeOK
  <2>4. QED
    BY <1>1, <2>1, <2>3, BrowserClients DEF Open
<1>7. ASSUME NEW p \in Paths, Navigate(p) PROVE ClientsInv'
  <2>1. PICK gone : conn' = [s \in Streams |-> IF s \in gone THEN LetGo(s) ELSE conn[s]]
    BY <1>7 DEF Navigate, CloseSources
  <2>2. Handled' = Handled
    BY <2>1 DEF LetGo, Handled
  <2>3. QED
    BY <1>1, <1>7, <2>2, BrowserClients DEF Navigate
<1>8. QED
  BY <1>3, <1>4, <1>5, <1>6, <1>7, DaemonClients DEF Next, User

LEMMA ClientsInvariant == Spec => []ClientsInv
BY ClientsInit, ClientsNext, PTL DEF Spec

(* ClientsAlwaysServed: _sse_clients holds the queues of the handlers that run *)
(* and no others, however streams end, the daemon stops, dies and comes back.  *)
THEOREM ClientsAlwaysServed == Spec => []ClientsAreServed
<1>1. ClientsInv => ClientsAreServed
  BY DEF ClientsInv, Listed, ClientsAreServed
<1>2. QED
  BY <1>1, ClientsInvariant, PTL

--------------------------------------------------------------------------------
(* The feeds.  What is under way to a feed, on the wire and in the queue       *)
(* behind it, is in order, newer than all the feed shows, and nothing is newer *)
(* than the last event emitted.  Headers and Close are both 0 and no event.    *)

Pending(s) == wire[s] \o queue[s]

Numbers == Events \cup {0}

InOrder(list) ==
    \A i, j \in DOMAIN list : i < j /\ list[j] # 0 => list[i] < list[j]

NewerThan(list, old) ==
    \A i \in DOMAIN list, j \in DOMAIN old : list[i] # 0 => old[j] < list[i]

UpTo(n, list) == \A i \in DOMAIN list : list[i] =< n

Follows(old, list, n) == InOrder(list) /\ UpTo(n, list) /\ NewerThan(list, old)

Ordered ==
    /\ \A s \in Streams : owner[s] # NoFeed =>
          Follows(events[owner[s]], Pending(s), emitted)
    /\ \A f \in Feeds : UpTo(emitted, events[f])

FeedInv == SourceInv /\ ClientsInv /\ Ordered

LEMMA PendingType ==
    ASSUME TypeOK, NEW s \in Streams
    PROVE  /\ Pending(s) \in Seq(Numbers)
           /\ wire[s] \in Seq(Numbers) /\ queue[s] \in Seq(Numbers)
BY DEF TypeOK, Pending, Numbers, Headers, Close

LEMMA NumbersType == Numbers \subseteq Nat /\ Events \subseteq Numbers
BY StreamAssumption DEF Numbers, Events

LEMMA NumbersInLists ==
    ASSUME NEW list, list \in Seq(Events) \/ list \in Seq(Numbers)
    PROVE  list \in Seq(Numbers) /\ \A i \in DOMAIN list : list[i] \in Nat
<1>1. list \in Seq(Numbers)
  BY NumbersType, SeqMonotonic
<1>2. \A i \in DOMAIN list : list[i] \in Numbers
  BY <1>1
<1>3. QED
  BY <1>1, <1>2, NumbersType

(* What the steps do with a list in order. *)
LEMMA OrderAppended ==
    ASSUME NEW list \in Seq(Numbers), NEW n \in Nat, NEW item \in Numbers,
           NEW old \in Seq(Numbers),
           item = 0 \/ item > n,
           InOrder(list), UpTo(n, list), UpTo(n, old), NewerThan(list, old)
    PROVE  LET longer == Append(list, item) IN
           /\ InOrder(longer)
           /\ NewerThan(longer, old)
           /\ \A m \in Nat : m >= n /\ m >= item => UpTo(m, longer)
<1> DEFINE longer == Append(list, item)
<1>1. /\ DOMAIN longer = 1..(Len(list) + 1)
      /\ longer[Len(list) + 1] = item
      /\ \A i \in DOMAIN list : longer[i] = list[i] /\ list[i] \in Nat
      /\ DOMAIN list = 1..Len(list) /\ Len(list) \in Nat
  <2>1. \A i \in DOMAIN list : list[i] \in Nat
    BY NumbersInLists
  <2>2. DOMAIN list = 1..Len(list) /\ Len(list) \in Nat
    OBVIOUS
  <2>3. QED
    BY <2>1, <2>2
<1>2. \A j \in DOMAIN old : old[j] \in Nat
  BY NumbersInLists
<1> HIDE DEF longer
<1>3. item \in Nat
  BY NumbersType
<1>4. InOrder(longer)
  BY <1>1, <1>3 DEF InOrder, UpTo
<1>5. NewerThan(longer, old)
  BY <1>1, <1>2, <1>3 DEF NewerThan, UpTo
<1>6. \A m \in Nat : m >= n /\ m >= item => UpTo(m, longer)
  BY <1>1, <1>3 DEF UpTo
<1>7. QED
  BY <1>4, <1>5, <1>6 DEF longer

LEMMA OrderOfTail ==
    ASSUME NEW list \in Seq(Numbers), list # <<>>, NEW n \in Nat, NEW old \in Seq(Numbers),
           InOrder(list), UpTo(n, list), NewerThan(list, old)
    PROVE  /\ InOrder(Tail(list)) /\ UpTo(n, Tail(list)) /\ NewerThan(Tail(list), old)
           /\ \A i \in DOMAIN Tail(list) : Tail(list)[i] # 0 => Head(list) < Tail(list)[i]
<1> DEFINE tail == Tail(list)
<1>1. /\ DOMAIN tail = 1..(Len(list) - 1) /\ Len(list) \in Nat
      /\ \A i \in DOMAIN tail : i \in Nat /\ i + 1 \in DOMAIN list /\ tail[i] = list[i + 1]
      /\ 1 \in DOMAIN list /\ Head(list) = list[1]
  OBVIOUS
<1> HIDE DEF tail
<1>2. InOrder(tail)
  BY <1>1 DEF InOrder
<1>3. UpTo(n, tail) /\ NewerThan(tail, old)
  BY <1>1 DEF UpTo, NewerThan
<1>4. \A i \in DOMAIN tail : tail[i] # 0 => Head(list) < tail[i]
  <2>1. \A i \in DOMAIN tail : 1 < i + 1
    BY <1>1
  <2>2. QED
    BY <1>1, <2>1 DEF InOrder
<1>5. QED
  BY <1>2, <1>3, <1>4 DEF tail

LEMMA OrderOfPrefix ==
    ASSUME NEW list \in Seq(Numbers), NEW rest \in Seq(Numbers), NEW n \in Nat,
           NEW old \in Seq(Numbers),
           InOrder(list \o rest), UpTo(n, list \o rest), NewerThan(list \o rest, old)
    PROVE  InOrder(list) /\ UpTo(n, list) /\ NewerThan(list, old)
<1>1. \A i \in DOMAIN list : i \in DOMAIN (list \o rest) /\ (list \o rest)[i] = list[i]
  OBVIOUS
<1>2. QED
  BY <1>1 DEF InOrder, UpTo, NewerThan

LEMMA OrderOfNothing ==
    ASSUME NEW n \in Nat, NEW old
    PROVE  /\ InOrder(<<>>) /\ UpTo(n, <<>>) /\ NewerThan(<<>>, old)
           /\ InOrder(<<0>>) /\ UpTo(n, <<0>>) /\ NewerThan(<<0>>, old)
BY DEF InOrder, UpTo, NewerThan

LEMMA Joins ==
    ASSUME NEW a \in Seq(Numbers), NEW b \in Seq(Numbers)
    PROVE  /\ a \o <<>> = a
           /\ <<>> \o b = b
           /\ \A x \in Numbers : a \o Append(b, x) = Append(a \o b, x)
           /\ a # <<>> => Head(a \o b) = Head(a) /\ Tail(a) \o b = Tail(a \o b) /\ a \o b # <<>>
           /\ b # <<>> => Append(a, Head(b)) \o Tail(b) = a \o b
<1>1. a \o <<>> = a /\ <<>> \o b = b
  OBVIOUS
<1>2. ASSUME NEW x \in Numbers PROVE a \o Append(b, x) = Append(a \o b, x)
  OBVIOUS
<1>3. ASSUME a # <<>>
      PROVE  Head(a \o b) = Head(a) /\ Tail(a) \o b = Tail(a \o b) /\ a \o b # <<>>
  BY <1>3
<1>4. ASSUME b # <<>> PROVE Append(a, Head(b)) \o Tail(b) = a \o b
  BY <1>4
<1>5. QED
  BY <1>1, <1>2, <1>3, <1>4

LEMMA FeedInit == Init => FeedInv
<1> SUFFICES ASSUME Init PROVE FeedInv
  OBVIOUS
<1>1. Ordered
  BY DEF Init, Ordered, UpTo
<1>2. QED
  BY <1>1, SourceInit, ClientsInit DEF FeedInv

LEMMA DaemonFeeds == ASSUME FeedInv, Daemon PROVE Ordered'
<1>1. TypeOK /\ TypeOK' /\ SourceInv /\ ClientsInv
  BY DaemonType DEF FeedInv, SourceInv
<1>2. UNCHANGED <<owner, events>>
  BY DEF Daemon, browserVars
<1>3. emitted \in Nat /\ emitted' \in Nat /\ emitted =< emitted'
  BY <1>1 DEF TypeOK, Daemon, PushEvent, Stop, Cleanup, Crash, AllEnd, Boot,
              Handler, Accept, WriteEvent, ReadClose, WriteFails, Returns
<1>4. ASSUME NEW s \in Streams, owner[s] # NoFeed
      PROVE  Follows(events[owner[s]], Pending(s)', emitted')
  <2> DEFINE old == events[owner[s]]
  <2>1. /\ Pending(s) \in Seq(Numbers) /\ wire[s] \in Seq(Numbers)
        /\ queue[s] \in Seq(Numbers) /\ old \in Seq(Numbers)
        /\ wire[s] \in [DOMAIN wire[s] -> Numbers]
    <3>1. old \in Seq(Events)
      BY <1>1, <1>4 DEF TypeOK
    <3>2. old \in Seq(Numbers)
      BY <3>1, NumbersInLists
    <3>3. QED
      BY <1>1, <3>2, PendingType
  <2>2. InOrder(Pending(s)) /\ UpTo(emitted, Pending(s)) /\ NewerThan(Pending(s), old)
    BY <1>4 DEF FeedInv, Ordered, Follows
  <2>3. UpTo(emitted, old)
    BY <1>1, <1>4 DEF FeedInv, Ordered, TypeOK
  <2>4. 0 \in Numbers
    BY DEF Numbers
  <2>5. CASE Pending(s)' = Pending(s)
    <3>1. \A i \in DOMAIN Pending(s) : Pending(s)[i] \in Nat
      BY <2>1, NumbersInLists
    <3>2. UpTo(emitted', Pending(s))
      BY <1>3, <2>2, <3>1 DEF UpTo
    <3>3. QED
      BY <2>2, <2>5, <3>2 DEF Follows
  <2>6. ASSUME NEW item \in Numbers, item = 0 \/ item > emitted, item =< emitted',
               Pending(s)' = Append(Pending(s), item)
        PROVE  Follows(old, Pending(s)', emitted')
    BY <1>3, <2>1, <2>2, <2>3, <2>6, OrderAppended DEF Follows
  <2>7. CASE Pending(s)' = wire[s]
    <3>1. InOrder(wire[s]) /\ UpTo(emitted, wire[s]) /\ NewerThan(wire[s], old)
      BY <1>3, <2>1, <2>2, OrderOfPrefix DEF Pending
    <3>2. \A i \in DOMAIN wire[s] : wire[s][i] \in Nat
      BY <2>1, NumbersInLists
    <3>3. UpTo(emitted', wire[s])
      BY <1>3, <3>1, <3>2 DEF UpTo
    <3>4. QED
      BY <2>7, <3>1, <3>3 DEF Follows
  <2>8. ASSUME NEW item \in Numbers, queue' = Filled(item), wire' = wire
        PROVE  Pending(s)' = Pending(s) \/ Pending(s)' = Append(Pending(s), item)
    <3>1. queue'[s] = queue[s] \/ queue'[s] = Append(queue[s], item)
      BY <2>8 DEF Filled
    <3>2. wire[s] \in Seq(Numbers) /\ queue[s] \in Seq(Numbers) /\ item \in Numbers
      BY <2>1, <2>8
    <3>3. wire[s] \o Append(queue[s], item) = Append(wire[s] \o queue[s], item)
      BY <3>2, Joins, ZenonT(30)
    <3>4. QED
      BY <2>8, <3>1, <3>3 DEF Pending
  <2>9. CASE PushEvent
    <3>1. emitted + 1 \in Numbers /\ emitted' = emitted + 1
      BY <1>3, <2>9, StreamAssumption DEF PushEvent, Numbers, Events
    <3>2. queue' = Filled(emitted + 1) /\ wire' = wire
      BY <2>9 DEF PushEvent
    <3>3. QED
      BY <1>3, <2>5, <2>6, <2>8, <3>1, <3>2
  <2>10. CASE Stop
    <3>1. queue' = Filled(0) /\ wire' = wire
      BY <2>10 DEF Stop, Close
    <3>2. QED
      BY <1>3, <2>4, <2>5, <2>6, <2>8, <3>1
  <2>11. CASE Cleanup \/ Crash
    <3>1. queue'[s] = <<>> /\ wire' = wire
      BY <2>11 DEF Cleanup, Crash, AllEnd
    <3>2. QED
      BY <2>1, <2>7, <3>1, Joins DEF Pending
  <2>12. CASE Boot
    BY <2>5, <2>12 DEF Boot, Pending
  <2>13. ASSUME NEW t \in Streams, Accept(t) PROVE Follows(old, Pending(s)', emitted')
    <3>1. CASE s = t
      <4>1. queue'[s] = <<>> /\ wire'[s] = <<0>>
        BY <1>1, <2>13, <3>1 DEF Accept, TypeOK, Headers
      <4>2. Pending(s)' = <<0>>
        BY <4>1 DEF Pending
      <4>3. QED
        BY <1>3, <4>2, OrderOfNothing DEF Follows
    <3>2. CASE s # t
      BY <1>1, <2>5, <2>13, <3>2 DEF Accept, TypeOK, Pending
    <3>3. QED
      BY <3>1, <3>2
  <2>14. ASSUME NEW t \in Streams, WriteEvent(t) PROVE Follows(old, Pending(s)', emitted')
    <3>1. CASE s = t
      <4>1. /\ queue[s] # <<>> /\ queue'[s] = Tail(queue[s])
            /\ wire'[s] = Append(wire[s], Head(queue[s]))
        BY <1>1, <2>14, <3>1 DEF WriteEvent, TypeOK
      <4>2. Append(wire[s], Head(queue[s])) \o Tail(queue[s]) = wire[s] \o queue[s]
        BY <2>1, <4>1, Joins
      <4>3. QED
        BY <2>5, <4>1, <4>2 DEF Pending
    <3>2. CASE s # t
      BY <1>1, <2>5, <2>14, <3>2 DEF WriteEvent, TypeOK, Pending
    <3>3. QED
      BY <3>1, <3>2
  <2>15. ASSUME NEW t \in Streams, ReadClose(t) \/ WriteFails(t)
         PROVE  Follows(old, Pending(s)', emitted')
    <3>1. PICK phase : Returns(t, phase) /\ wire' = wire
      BY <2>15 DEF ReadClose, WriteFails
    <3>2. queue'[s] = IF s = t THEN <<>> ELSE queue[s]
      BY <1>1, <3>1 DEF Returns, TypeOK
    <3>3. QED
      BY <2>1, <2>5, <2>7, <3>1, <3>2, Joins DEF Pending
  <2>16. QED
    BY <2>9, <2>10, <2>11, <2>12, <2>13, <2>14, <2>15 DEF Daemon, Handler
<1>5. ASSUME NEW f \in Feeds PROVE UpTo(emitted', events[f])
  <2>1. UpTo(emitted, events[f]) /\ events[f] \in Seq(Events)
    BY <1>1 DEF FeedInv, Ordered, TypeOK
  <2>2. \A i \in DOMAIN events[f] : events[f][i] \in Nat
    BY <2>1, NumbersInLists
  <2>3. QED
    BY <1>3, <2>1, <2>2 DEF UpTo
<1>6. QED
  BY <1>2, <1>4, <1>5 DEF Ordered

(* What a message does to the list it comes before. *)
LEMMA FirstWithNew ==
    ASSUME NEW h \in Events, NEW old \in Seq(Events), NEW n \in Nat
    PROVE  \A j \in DOMAIN FirstOf(n, <<h>> \o old) :
              \/ FirstOf(n, <<h>> \o old)[j] = h
              \/ \E k \in DOMAIN old : FirstOf(n, <<h>> \o old)[j] = old[k]
<1> DEFINE list == <<h>> \o old
<1>1. list \in Seq(Events)
  OBVIOUS
<1>2. \A j \in DOMAIN list : list[j] = h \/ \E k \in DOMAIN old : list[j] = old[k]
  <2>1. /\ <<h>> \in Seq(Events) /\ Len(<<h>>) = 1 /\ <<h>>[1] = h
        /\ DOMAIN old = 1..Len(old) /\ Len(old) \in Nat
    OBVIOUS
  <2>2. /\ DOMAIN list = 1..(1 + Len(old))
        /\ \A j \in 1..(1 + Len(old)) : list[j] = IF j =< 1 THEN h ELSE old[j - 1]
    BY <2>1, ConcatProperties, LenProperties
  <2>3. \A j \in 1..(1 + Len(old)) : j =< 1 \/ j - 1 \in DOMAIN old
    BY <2>1
  <2>4. QED
    BY <2>2, <2>3
<1>3. QED
  BY <1>1, <1>2, FirstOfType

(* A feed reads what is newer than all it shows. *)
LEMMA MessageIsNew ==
    ASSUME FeedInv, NEW s \in Streams, OnMessage(s)
    PROVE  LET f == owner[s]
               h == Head(wire[s]) IN
           /\ f \in Feeds /\ h \in Events /\ h =< emitted /\ events[f] \in Seq(Events)
           /\ \A i \in DOMAIN events[f] : events[f][i] < h
           /\ events' = [events EXCEPT ![f] = FirstOf(Window[f], <<h>> \o events[f])]
           /\ InOrder(Pending(s)') /\ UpTo(emitted, Pending(s)')
           /\ NewerThan(Pending(s)', events[f])
           /\ \A i \in DOMAIN Pending(s)' : Pending(s)'[i] # 0 => h < Pending(s)'[i]
<1> DEFINE f == owner[s]
           h == Head(wire[s])
<1>1. TypeOK /\ f \in Feeds /\ h \in Events /\ wire[s] # <<>> /\ h # 0
  <2>1. f \in Feeds /\ h \in Events /\ wire[s] # <<>>
    BY ReadsType DEF FeedInv, SourceInv, OnMessage, Reads
  <2>2. QED
    BY <2>1 DEF FeedInv, SourceInv, Events
<1>2. events[f] \in Seq(Events) /\ emitted \in Nat
  BY <1>1 DEF TypeOK
<1>3. events' = [events EXCEPT ![f] = FirstOf(Window[f], <<h>> \o events[f])]
  BY DEF OnMessage
<1>4. /\ Pending(s) \in Seq(Numbers) /\ wire[s] \in Seq(Numbers)
      /\ queue[s] \in Seq(Numbers) /\ events[f] \in Seq(Numbers)
  BY <1>1, <1>2, PendingType, NumbersInLists
<1>5. wire'[s] = Tail(wire[s]) /\ queue' = queue
  BY <1>1 DEF OnMessage, Reads, TypeOK
<1>6. Pending(s)' = Tail(Pending(s)) /\ Head(Pending(s)) = h /\ Pending(s) # <<>>
  <2>1. /\ Head(wire[s] \o queue[s]) = h
        /\ Tail(wire[s]) \o queue[s] = Tail(wire[s] \o queue[s])
        /\ wire[s] \o queue[s] # <<>>
    BY <1>1, <1>4, Joins
  <2>2. QED
    BY <1>5, <2>1 DEF Pending
<1>7. /\ InOrder(Pending(s)) /\ UpTo(emitted, Pending(s)) /\ NewerThan(Pending(s), events[f])
  BY <1>1, FeedAssumption DEF FeedInv, Ordered, Follows
<1>8. 1 \in DOMAIN Pending(s) /\ Pending(s)[1] = h
  BY <1>4, <1>6
<1>9. h =< emitted /\ \A i \in DOMAIN events[f] : events[f][i] < h
  BY <1>1, <1>7, <1>8 DEF UpTo, NewerThan
<1>10. QED
  BY <1>1, <1>2, <1>3, <1>4, <1>6, <1>7, <1>9, OrderOfTail

LEMMA CallbackFeeds == ASSUME FeedInv, NEW s \in Streams, Callback(s) PROVE Ordered'
<1>1. TypeOK /\ Ordered
  BY DEF FeedInv, SourceInv
<1>2. emitted' = emitted /\ emitted \in Nat
  BY <1>1 DEF Callback, OnOpen, OnMessage, Reads, OnError, TypeOK
<1>3. CASE OnOpen(s)
  <2>1. /\ owner[s] \in Feeds /\ wire[s] # <<>>
        /\ wire' = [wire EXCEPT ![s] = Tail(wire[s])]
        /\ UNCHANGED <<owner, events, queue>>
    BY <1>1, <1>3 DEF OnOpen, Reads, TypeOK
  <2>2. /\ Pending(s) \in Seq(Numbers) /\ wire[s] \in Seq(Numbers)
        /\ queue[s] \in Seq(Numbers) /\ events[owner[s]] \in Seq(Numbers)
    <3>1. events[owner[s]] \in Seq(Events)
      BY <1>1, <2>1 DEF TypeOK
    <3>2. QED
      BY <1>1, <3>1, PendingType, NumbersInLists
  <2>3. Pending(s)' = Tail(Pending(s)) /\ Pending(s) # <<>>
    <3>1. wire'[s] = Tail(wire[s])
      BY <1>1, <2>1 DEF TypeOK
    <3>2. /\ Tail(wire[s]) \o queue[s] = Tail(wire[s] \o queue[s])
          /\ wire[s] \o queue[s] # <<>>
      BY <2>1, <2>2, Joins
    <3>3. QED
      BY <2>1, <3>1, <3>2 DEF Pending
  <2>4. \A t \in Streams : t # s => Pending(t)' = Pending(t)
    BY <1>1, <2>1 DEF Pending, TypeOK
  <2>5. Follows(events[owner[s]], Pending(s), emitted)
    BY <1>1, <2>1, FeedAssumption DEF Ordered
  <2>6. Follows(events[owner[s]], Pending(s)', emitted)
    BY <1>2, <2>2, <2>3, <2>5, OrderOfTail DEF Follows
  <2>7. QED
    BY <1>1, <1>2, <2>1, <2>4, <2>6 DEF Ordered
<1>4. CASE OnMessage(s)
  <2> DEFINE f == owner[s]
             h == Head(wire[s])
             new == FirstOf(Window[f], <<h>> \o events[f])
  <2>1. /\ f \in Feeds /\ h \in Events /\ h =< emitted /\ events[f] \in Seq(Events)
        /\ events' = [events EXCEPT ![f] = new]
        /\ InOrder(Pending(s)') /\ UpTo(emitted, Pending(s)')
        /\ NewerThan(Pending(s)', events[f])
        /\ \A i \in DOMAIN Pending(s)' : Pending(s)'[i] # 0 => h < Pending(s)'[i]
    BY <1>4, MessageIsNew
  <2>2. \A j \in DOMAIN new : new[j] = h \/ \E k \in DOMAIN events[f] : new[j] = events[f][k]
    BY <2>1, FeedAssumption, FirstWithNew
  <2> HIDE DEF new
  <2>3. UpTo(emitted, events[f])
    BY <1>1, <2>1 DEF Ordered
  <2>4. UpTo(emitted, new) /\ NewerThan(Pending(s)', new)
    BY <2>1, <2>2, <2>3 DEF UpTo, NewerThan
  <2>5. events'[f] = new /\ \A g \in Feeds : g # f => events'[g] = events[g]
    BY <1>1, <2>1 DEF TypeOK
  <2>6. \A t \in Streams : t # s => Pending(t)' = Pending(t) /\ owner[t] # f
    <3>1. \A t \in Streams : t # s => Pending(t)' = Pending(t)
      BY <1>1, <1>4 DEF OnMessage, Reads, Pending, TypeOK
    <3>2. \A t \in Streams : (owner[t] = f) <=> (source[f] = t)
      BY <2>1 DEF FeedInv, SourceInv, Sourced
    <3>3. QED
      BY <3>1, <3>2
  <2>7. owner' = owner /\ \A t \in Streams : owner[t] # NoFeed => owner[t] \in Feeds
    BY <1>1, <1>4 DEF OnMessage, Reads, TypeOK
  <2>8. Follows(events'[f], Pending(s)', emitted)
    BY <2>1, <2>4, <2>5 DEF Follows
  <2>9. \A t \in Streams : owner[t] # NoFeed => Follows(events'[owner[t]], Pending(t)', emitted)
    BY <1>1, <2>5, <2>6, <2>7, <2>8 DEF Ordered
  <2>10. \A g \in Feeds : UpTo(emitted, events'[g])
    BY <1>1, <2>4, <2>5 DEF Ordered
  <2>11. QED
    BY <1>2, <2>7, <2>9, <2>10 DEF Ordered
<1>5. CASE OnError(s)
  <2>1. \A t \in Streams : owner'[t] # NoFeed => owner'[t] = owner[t]
    BY <1>1, <1>5 DEF OnError, CloseOnError, TypeOK
  <2>2. UNCHANGED <<events, wire, queue>>
    BY <1>5 DEF OnError
  <2>3. QED
    BY <1>1, <1>2, <2>1, <2>2 DEF Ordered, Pending
<1>6. QED
  BY <1>3, <1>4, <1>5 DEF Callback

LEMMA HookFeeds == ASSUME FeedInv, NEW f \in Feeds, Hook(f) PROVE Ordered'
<1>1. TypeOK /\ Ordered /\ Unwritten /\ QueuesHandled
  BY DEF FeedInv, SourceInv, ClientsInv
<1>2. Open(f)
  BY DEF Hook, Effect, Retry
<1>3. /\ Fresh \in Streams /\ conn[Fresh] = "none"
      /\ owner' = [owner EXCEPT ![Fresh] = f]
      /\ UNCHANGED <<events, wire, queue, emitted>>
  BY <1>1, <1>2, OpenType DEF Open, Free
<1> HIDE DEF Fresh
<1>4. Pending(Fresh) = <<>>
  <2>1. wire[Fresh] = <<>> /\ queue[Fresh] = <<>>
    BY <1>1, <1>3 DEF Unwritten, QueuesHandled, Handled
  <2>2. QED
    BY <2>1 DEF Pending
<1>5. \A s \in Streams : owner'[s] = IF s = Fresh THEN f ELSE owner[s]
  BY <1>1, <1>3 DEF TypeOK
<1>6. Follows(events[f], <<>>, emitted)
  <2>1. emitted \in Nat
    BY <1>1 DEF TypeOK
  <2>2. QED
    BY <2>1, OrderOfNothing DEF Follows
<1>7. \A s \in Streams : owner'[s] # NoFeed => Follows(events[owner'[s]], Pending(s), emitted)
  BY <1>1, <1>4, <1>5, <1>6 DEF Ordered
<1>8. QED
  BY <1>1, <1>3, <1>7 DEF Ordered, Pending

LEMMA NavigateFeeds == ASSUME FeedInv, NEW p \in Paths, Navigate(p) PROVE Ordered'
<1>1. TypeOK /\ Ordered /\ emitted' = emitted /\ emitted \in Nat
  BY DEF FeedInv, SourceInv, Navigate, TypeOK
<1> DEFINE left == FeedsOn(path) \ {"indicator"}
           gone == UNION {Closed(f) : f \in left}
<1>2. /\ \A s \in Streams : s \notin gone => owner'[s] = owner[s] /\ wire'[s] = wire[s]
      /\ \A s \in Streams : s \in gone => owner'[s] = NoFeed
      /\ queue' = queue
  BY DEF Navigate, CloseSources
<1>3. \A f \in Feeds : events'[f] = IF f = "indicator" THEN events[f] ELSE <<>>
  BY DEF Navigate, Remounted
<1>4. \A s \in Streams : owner[s] # NoFeed => owner[s] \in Feeds
  BY <1>1 DEF TypeOK
<1>5. ASSUME NEW s \in Streams, owner'[s] # NoFeed
      PROVE  Follows(events'[owner'[s]], Pending(s)', emitted)
  <2>1. owner'[s] = owner[s] /\ Pending(s)' = Pending(s) /\ owner[s] \in Feeds
    BY <1>2, <1>4, <1>5 DEF Pending
  <2>2. Follows(events[owner[s]], Pending(s), emitted)
    BY <1>1, <1>5, <2>1 DEF Ordered
  <2>3. NewerThan(Pending(s), <<>>)
    BY DEF NewerThan
  <2>4. events'[owner[s]] = events[owner[s]] \/ events'[owner[s]] = <<>>
    BY <1>3, <2>1
  <2>5. QED
    BY <2>1, <2>2, <2>3, <2>4 DEF Follows
<1>6. ASSUME NEW f \in Feeds PROVE UpTo(emitted, events'[f])
  BY <1>1, <1>3 DEF Ordered, UpTo
<1>7. QED
  BY <1>1, <1>5, <1>6 DEF Ordered

LEMMA FeedNext == FeedInv /\ [Next]_vars => FeedInv'
<1> SUFFICES ASSUME FeedInv, [Next]_vars PROVE FeedInv'
  OBVIOUS
<1>1. SourceInv' /\ ClientsInv'
  BY SourceNext, ClientsNext DEF FeedInv
<1>2. ASSUME UNCHANGED <<owner, events, wire, queue, emitted>> PROVE Ordered'
  BY <1>2 DEF FeedInv, Ordered, Pending
<1>3. ASSUME LateRetry \/ TogglePause \/ UNCHANGED vars PROVE Ordered'
  BY <1>2, <1>3 DEF LateRetry, TogglePause, vars, streamVars
<1>4. ASSUME NEW g \in Filters, SetFilter(g) PROVE Ordered'
  BY <1>2, <1>4 DEF SetFilter, streamVars
<1>5. Ordered'
  BY <1>3, <1>4, DaemonFeeds, CallbackFeeds, HookFeeds, NavigateFeeds DEF Next, User
<1>6. QED
  BY <1>1, <1>5 DEF FeedInv

LEMMA FeedInvariant == Spec => []FeedInv
BY FeedInit, FeedNext, PTL DEF Spec

--------------------------------------------------------------------------------
(* The refinement.  A message is FeedWindow's Arrive, a navigation its Clear,  *)
(* every other step leaves the lists alone.                                    *)

Arrives(f) ==
    \E e \in Events :
        /\ \A i \in DOMAIN events[f] : events[f][i] < e
        /\ events'[f] = FirstOf(Window[f], <<e>> \o events[f])

FeedStep(f) == events'[f] = events[f] \/ events'[f] = <<>> \/ Arrives(f)

LEMMA FeedSteps == FeedInv /\ [Next]_vars => \A f \in Feeds : FeedStep(f)
<1> SUFFICES ASSUME FeedInv, [Next]_vars, NEW f \in Feeds PROVE FeedStep(f)
  OBVIOUS
<1>1. ASSUME UNCHANGED events PROVE FeedStep(f)
  BY <1>1 DEF FeedStep
<1>2. CASE Daemon \/ LateRetry \/ TogglePause \/ UNCHANGED vars
  BY <1>1, <1>2 DEF Daemon, browserVars, LateRetry, TogglePause, vars
<1>3. ASSUME NEW g \in Filters, SetFilter(g) PROVE FeedStep(f)
  BY <1>1, <1>3 DEF SetFilter
<1>4. ASSUME NEW g \in Feeds, Hook(g) PROVE FeedStep(f)
  BY <1>1, <1>4 DEF Hook, Effect, Retry, Open
<1>5. ASSUME NEW p \in Paths, Navigate(p) PROVE FeedStep(f)
  BY <1>5 DEF Navigate, Remounted, FeedStep
<1>6. ASSUME NEW s \in Streams, OnOpen(s) \/ OnError(s) PROVE FeedStep(f)
  BY <1>1, <1>6 DEF OnOpen, OnError
<1>7. ASSUME NEW s \in Streams, OnMessage(s) PROVE FeedStep(f)
  <2> DEFINE o == owner[s]
             h == Head(wire[s])
  <2>1. /\ h \in Events /\ \A i \in DOMAIN events[o] : events[o][i] < h
        /\ events' = [events EXCEPT ![o] = FirstOf(Window[o], <<h>> \o events[o])]
    BY <1>7, MessageIsNew
  <2>2. events \in [Feeds -> Seq(Events)]
    BY DEF FeedInv, SourceInv, TypeOK
  <2>3. CASE f # o
    BY <2>1, <2>2, <2>3 DEF FeedStep
  <2>4. CASE f = o
    <3>1. events'[f] = FirstOf(Window[f], <<h>> \o events[f])
      BY <2>1, <2>2, <2>4
    <3>2. QED
      BY <2>1, <2>4, <3>1 DEF FeedStep, Arrives
  <2>5. QED
    BY <2>3, <2>4
<1>8. QED
  BY <1>2, <1>3, <1>4, <1>5, <1>6, <1>7 DEF Next, Callback, User

(* FeedsRefine: each of the three feeds implements FeedWindow, whatever        *)
(* breaks: the events it shows are the latest it received, newest first, and   *)
(* no reconnection or restart makes it show one twice or out of order.         *)
THEOREM FeedsRefine == Spec => FeedsImplemented
<1>1. "indicator" \in Feeds /\ "topology" \in Feeds /\ "activity" \in Feeds
  BY DEF Feeds
<1>2. Init => IndicatorFeed!Init /\ TopologyFeed!Init /\ ActivityFeeds!Init
  BY <1>1 DEF Init, IndicatorFeed!Init, TopologyFeed!Init, ActivityFeeds!Init
<1>3. FeedInv /\ [Next]_vars => [IndicatorFeed!Next]_(events["indicator"])
  BY <1>1, FeedSteps DEF FeedStep, Arrives, FirstOf, IndicatorFeed!Next,
        IndicatorFeed!Arrive, IndicatorFeed!Clear, IndicatorFeed!FirstOf
<1>4. FeedInv /\ [Next]_vars => [TopologyFeed!Next]_(events["topology"])
  BY <1>1, FeedSteps DEF FeedStep, Arrives, FirstOf, TopologyFeed!Next,
        TopologyFeed!Arrive, TopologyFeed!Clear, TopologyFeed!FirstOf
<1>5. FeedInv /\ [Next]_vars => [ActivityFeeds!Next]_(events["activity"])
  BY <1>1, FeedSteps DEF FeedStep, Arrives, FirstOf, ActivityFeeds!Next,
        ActivityFeeds!Arrive, ActivityFeeds!Clear, ActivityFeeds!FirstOf
<1>6. QED
  BY <1>2, <1>3, <1>4, <1>5, FeedInvariant, PTL
     DEF Spec, FeedsImplemented, IndicatorFeed!Spec, TopologyFeed!Spec, ActivityFeeds!Spec

--------------------------------------------------------------------------------
(* The Activity page. *)

LEMMA PausedStep == [Next]_vars => (paused' /\ filter' = filter => Visible' = Visible)
<1> SUFFICES ASSUME [Next]_vars, paused', filter' = filter PROVE Visible' = Visible
  OBVIOUS
<1> DEFINE list == IF paused THEN snapshot ELSE events["activity"]
<1>1. CASE TogglePause
  <2>1. ~paused /\ snapshot' = events["activity"]
    BY <1>1 DEF TogglePause, SnapshotAfter
  <2>2. list' = list
    BY <2>1
  <2>3. QED
    BY <2>2 DEF Visible
<1>2. CASE ~TogglePause
  <2>1. UNCHANGED <<paused, snapshot>>
    BY <1>2 DEF Next, Daemon, browserVars, Callback, OnOpen, OnMessage, Reads, OnError,
                Hook, Effect, Retry, Open, LateRetry, User, Navigate, SetFilter, vars,
                pageVars
  <2>2. list' = list
    BY <2>1
  <2>3. QED
    BY <2>2 DEF Visible
<1>3. QED
  BY <1>1, <1>2

(* PausedAlwaysHolds: from Pause to Resume the cards of a filter stand still,  *)
(* whatever arrives, breaks, reconnects or restarts behind them.               *)
THEOREM PausedAlwaysHolds == Spec => PausedHolds
BY PausedStep, PTL DEF Spec, PausedHolds

--------------------------------------------------------------------------------
(* A finite set of numbers has an increasing enumeration: its members in the   *)
(* order of how many stand before each.                                        *)

RankIn(kept, i) == Cardinality({j \in kept : j < i}) + 1

LEMMA RankInType ==
    ASSUME NEW kept \in SUBSET Nat, IsFiniteSet(kept), NEW i \in kept
    PROVE  /\ RankIn(kept, i) \in 1..Cardinality(kept)
           /\ IsFiniteSet({j \in kept : j < i})
           /\ RankIn(kept, i) - 1 = Cardinality({j \in kept : j < i})
<1> DEFINE below == {j \in kept : j < i}
<1>1. below \subseteq kept \ {i}
  OBVIOUS
<1>2. /\ IsFiniteSet(kept \ {i}) /\ Cardinality(kept \ {i}) = Cardinality(kept) - 1
      /\ Cardinality(kept) \in Nat
  BY FS_RemoveElement, FS_CardinalityType
<1>3. IsFiniteSet(below) /\ Cardinality(below) =< Cardinality(kept) - 1
  BY <1>1, <1>2, FS_Subset
<1>4. Cardinality(below) \in Nat
  BY <1>3, FS_CardinalityType
<1>5. RankIn(kept, i) = Cardinality(below) + 1
  BY DEF RankIn
<1> HIDE DEF below
<1>6. RankIn(kept, i) \in 1..Cardinality(kept) /\ RankIn(kept, i) - 1 = Cardinality(below)
  BY <1>2, <1>3, <1>4, <1>5
<1>7. QED
  BY <1>3, <1>6 DEF below

LEMMA RanksGrow ==
    ASSUME NEW kept \in SUBSET Nat, IsFiniteSet(kept), NEW i \in kept, NEW j \in kept, i < j
    PROVE  RankIn(kept, i) < RankIn(kept, j)
<1> DEFINE lower  == {h \in kept : h < i}
           higher == {h \in kept : h < j}
<1>1. IsFiniteSet(lower) /\ IsFiniteSet(higher)
  BY RankInType
<1>2. lower \cup {i} \subseteq higher /\ i \notin lower
  <2>1. \A h \in kept : h \in Nat
    OBVIOUS
  <2>2. \A h \in kept : h < i => h < j
    BY <2>1
  <2>3. ~(i < i)
    BY <2>1
  <2>4. QED
    BY <2>2, <2>3
<1>3. /\ RankIn(kept, i) = Cardinality(lower) + 1
      /\ RankIn(kept, j) = Cardinality(higher) + 1
  BY DEF RankIn
<1> HIDE DEF lower, higher
<1>4. Cardinality(lower \cup {i}) = Cardinality(lower) + 1
  BY <1>1, <1>2, FS_AddElement
<1>5. Cardinality(lower \cup {i}) =< Cardinality(higher)
  BY <1>1, <1>2, FS_Subset
<1>6. Cardinality(lower) \in Nat /\ Cardinality(higher) \in Nat
  BY <1>1, FS_CardinalityType
<1>7. QED
  BY <1>3, <1>4, <1>5, <1>6

LEMMA UpwardsExists ==
    ASSUME NEW kept \in SUBSET Nat, IsFiniteSet(kept)
    PROVE  \E at \in [1..Cardinality(kept) -> kept] : Increasing(at)
<1> DEFINE n    == Cardinality(kept)
           rank == [i \in kept |-> RankIn(kept, i)]
           at   == [p \in 1..n |-> CHOOSE i \in kept : rank[i] = p]
<1>1. n \in Nat /\ \A i \in kept : i \in Nat
  BY FS_CardinalityType
<1>2. rank \in [kept -> 1..n] /\ \A i, j \in kept : i < j => rank[i] < rank[j]
  BY RankInType, RanksGrow
<1> HIDE DEF rank
<1>3. \A i, j \in kept : rank[i] = rank[j] => i = j
  <2> SUFFICES ASSUME NEW i \in kept, NEW j \in kept, rank[i] = rank[j] PROVE i = j
    OBVIOUS
  <2>1. rank[i] \in Nat /\ rank[j] \in Nat /\ i \in Nat /\ j \in Nat
    BY <1>1, <1>2
  <2>2. ~(i < j) /\ ~(j < i)
    BY <1>2, <2>1
  <2>3. QED
    BY <2>1, <2>2
<1>4. rank \in Injection(kept, 1..n)
  BY <1>2, <1>3 DEF Injection, IsInjective
<1>5. IsFiniteSet(1..n) /\ Cardinality(1..n) = n
  BY <1>1, FS_Interval
<1>6. rank \in Surjection(kept, 1..n)
  BY <1>4, <1>5, FS_Injection
<1>7. \A p \in 1..n : \E i \in kept : rank[i] = p
  BY <1>6 DEF Surjection
<1>8. \A p \in 1..n : at[p] \in kept /\ rank[at[p]] = p
  BY <1>7
<1>9. at \in [1..n -> kept] /\ DOMAIN at = 1..n
  BY <1>8
<1> HIDE DEF at
<1>10. ASSUME NEW p \in 1..n, NEW q \in 1..n, p < q PROVE at[p] < at[q]
  <2>1. at[p] \in Nat /\ at[q] \in Nat /\ p \in Nat /\ q \in Nat
    <3>1. p \in Nat /\ q \in Nat
      BY <1>1
    <3>2. at[p] \in kept /\ at[q] \in kept
      BY <1>8
    <3> HIDE DEF n
    <3>3. QED
      BY <1>1, <3>1, <3>2
  <2>2. at[p] # at[q]
    BY <1>8, <1>10, <2>1
  <2>3. ~(at[q] < at[p])
    BY <1>2, <1>8, <1>10, <2>1
  <2>4. QED
    BY <2>1, <2>2, <2>3
<1>11. Increasing(at)
  BY <1>9, <1>10 DEF Increasing
<1>12. QED
  BY <1>9, <1>11

--------------------------------------------------------------------------------
(* The footer.  What a paused list was taken from has since only grown: an     *)
(* event that pushes another out of a full window leaves as many.              *)

SnapshotPart == paused => Len(snapshot) =< Len(events["activity"])

FooterInv ==
    /\ TypeOK
    /\ \A f \in Feeds : Len(events[f]) =< Window[f]
    /\ SnapshotPart

LEMMA FirstOfGrows ==
    ASSUME NEW n \in Nat \ {0}, NEW list \in Seq(Events), Len(list) =< n, NEW e \in Events
    PROVE  /\ Len(FirstOf(n, <<e>> \o list)) =< n
           /\ Len(list) =< Len(FirstOf(n, <<e>> \o list))
<1> DEFINE new == <<e>> \o list
<1>1. new \in Seq(Events) /\ Len(new) = Len(list) + 1
  OBVIOUS
<1> HIDE DEF new
<1>2. Len(FirstOf(n, new)) = IF Len(new) < n THEN Len(new) ELSE n
  BY <1>1 DEF FirstOf
<1>3. QED
  BY <1>1, <1>2 DEF new

LEMMA FooterInit == ASSUME Init PROVE FooterInv
<1>1. \A f \in Feeds : Window[f] \in Nat /\ events[f] = <<>>
  BY FeedAssumption DEF Init
<1>2. QED
  BY <1>1, TypeInit DEF Init, FooterInv, SnapshotPart

LEMMA FooterUnmoved ==
    ASSUME FooterInv, UNCHANGED <<events, paused, snapshot>>, TypeOK'
    PROVE  FooterInv'
BY DEF FooterInv, SnapshotPart

LEMMA FooterMessage ==
    ASSUME FooterInv, NEW s \in Streams, OnMessage(s), TypeOK'
    PROVE  FooterInv'
<1> DEFINE o == owner[s]
           h == Head(wire[s])
<1>1. TypeOK /\ o \in Feeds /\ h \in Events
  BY ReadsType DEF OnMessage, FooterInv
<1>2. events' = [events EXCEPT ![o] = FirstOf(Window[o], <<h>> \o events[o])]
  BY DEF OnMessage
<1>3. \A f \in Feeds : events'[f] = IF f = o THEN FirstOf(Window[o], <<h>> \o events[o])
                                             ELSE events[f]
  BY <1>1, <1>2 DEF TypeOK
<1>4. /\ Window[o] \in Nat \ {0} /\ events[o] \in Seq(Events)
      /\ Len(events[o]) =< Window[o]
  BY <1>1, FeedAssumption DEF FooterInv, TypeOK
<1> HIDE DEF o, h
<1>5. /\ Len(events'[o]) =< Window[o]
      /\ Len(events[o]) =< Len(events'[o])
  BY <1>1, <1>3, <1>4, FirstOfGrows
<1>6. \A f \in Feeds : Len(events'[f]) =< Window[f]
  BY <1>3, <1>5 DEF FooterInv
<1>7. SnapshotPart'
  <2>1. "activity" \in Feeds
    BY DEF Feeds
  <2>2. UNCHANGED <<paused, snapshot>>
    BY DEF OnMessage, Reads, pageVars
  <2>3. /\ Len(snapshot) \in Nat /\ Len(events["activity"]) \in Nat
        /\ Len(events'["activity"]) \in Nat
    <3>1. snapshot \in Seq(Events) /\ events["activity"] \in Seq(Events)
      BY <1>1, <2>1 DEF TypeOK
    <3>2. events'["activity"] \in Seq(Events)
      BY <2>1 DEF TypeOK
    <3>3. QED
      BY <3>1, <3>2
  <2>4. Len(events["activity"]) =< Len(events'["activity"])
    BY <1>3, <1>5, <2>1, <2>3
  <2>5. QED
    BY <2>2, <2>3, <2>4 DEF FooterInv, SnapshotPart
<1>8. QED
  BY <1>6, <1>7 DEF FooterInv

LEMMA FooterNext == FooterInv /\ [Next]_vars => FooterInv'
<1> SUFFICES ASSUME FooterInv, [Next]_vars PROVE FooterInv'
  OBVIOUS
<1>1. TypeOK'
  BY TypeNext DEF FooterInv
<1>2. CASE Daemon \/ LateRetry \/ UNCHANGED vars
  BY <1>1, <1>2, FooterUnmoved DEF Daemon, browserVars, LateRetry, vars, pageVars
<1>3. ASSUME NEW s \in Streams, Callback(s) PROVE FooterInv'
  <2>1. CASE OnMessage(s)
    BY <1>1, <2>1, FooterMessage
  <2>2. CASE OnOpen(s) \/ OnError(s)
    BY <1>1, <2>2, FooterUnmoved DEF OnOpen, OnError, Reads, pageVars
  <2>3. QED
    BY <1>3, <2>1, <2>2 DEF Callback
<1>4. ASSUME NEW f \in Feeds, Hook(f) PROVE FooterInv'
  BY <1>1, <1>4, FooterUnmoved DEF Hook, Effect, Retry, Open, pageVars
<1>5. ASSUME NEW g \in Filters, SetFilter(g) PROVE FooterInv'
  BY <1>1, <1>5, FooterUnmoved DEF SetFilter
<1>6. ASSUME NEW p \in Paths, Navigate(p) PROVE FooterInv'
  <2>1. paused' = FALSE /\ \A f \in Feeds : events'[f] = events[f] \/ events'[f] = <<>>
    BY <1>6 DEF Navigate, Remounted
  <2>2. \A f \in Feeds : Len(events'[f]) =< Window[f]
    BY <2>1, FeedAssumption DEF FooterInv
  <2>3. QED
    BY <1>1, <2>1, <2>2 DEF FooterInv, SnapshotPart
<1>7. CASE TogglePause
  <2>1. events' = events /\ paused' = ~paused
    BY <1>7 DEF TogglePause
  <2>2. paused' => snapshot' = events["activity"]
    BY <1>7 DEF TogglePause, SnapshotAfter
  <2>3. Len(events["activity"]) \in Nat
    BY DEF FooterInv, TypeOK, Feeds
  <2>4. QED
    BY <1>1, <2>1, <2>2, <2>3 DEF FooterInv, SnapshotPart
<1>8. QED
  BY <1>2, <1>3, <1>4, <1>5, <1>6, <1>7 DEF Next, User

(* What a filter keeps has as many items as it keeps positions. *)
LEMMA MatchesLength ==
    ASSUME NEW g, NEW list \in Seq(Events)
    PROVE  /\ Len(Matches(g, list)) \in Nat
           /\ Len(Matches(g, list)) =< Len(list)
<1> DEFINE kept == {i \in DOMAIN list : TypeOf(list[i]) \in Matching(g)}
           at   == Upwards(kept)
<1>1. /\ IsFiniteSet(1..Len(list)) /\ Cardinality(1..Len(list)) = Len(list)
      /\ kept \subseteq 1..Len(list) /\ Len(list) \in Nat
  BY FS_Interval
<1>2. /\ IsFiniteSet(kept) /\ Cardinality(kept) =< Len(list)
      /\ Cardinality(kept) \in Nat
  BY <1>1, FS_Subset, FS_CardinalityType
<1>3. kept \subseteq Nat
  BY <1>1
<1> HIDE DEF kept
<1>4. at \in [1..Cardinality(kept) -> kept]
  BY <1>2, <1>3, UpwardsExists DEF Upwards
<1>5. Matches(g, list) = [p \in DOMAIN at |-> list[at[p]]]
  BY DEF Matches, Selected, kept
<1> HIDE DEF at
<1>6. Len(Matches(g, list)) = Cardinality(kept)
  BY <1>2, <1>4, <1>5
<1>7. QED
  BY <1>2, <1>6

(* FooterAlwaysHonest: with any window, however long ago the list was paused   *)
(* and whatever came since, it shows no more than is buffered, and unpaused as *)
(* many as the chosen filter's number says (pages/Activity.jsx).               *)
THEOREM FooterAlwaysHonest == Spec => []FooterHonest
<1>1. ASSUME FooterInv PROVE FooterHonest
  <2> DEFINE list == IF paused THEN snapshot ELSE events["activity"]
  <2>1. /\ list \in Seq(Events) /\ events["activity"] \in Seq(Events)
        /\ Len(list) =< Len(events["activity"])
        /\ filter \in FilterGroups /\ paused \in BOOLEAN
    BY <1>1 DEF FooterInv, SnapshotPart, TypeOK, Feeds
  <2>2. ~paused => list = events["activity"]
    OBVIOUS
  <2>3. Visible = Matches(filter, list)
    BY DEF Visible
  <2> HIDE DEF list
  <2>4. Len(Visible) \in Nat /\ Len(Visible) =< Len(list)
    BY <2>1, <2>3, MatchesLength
  <2>5. Len(list) \in Nat /\ Len(events["activity"]) \in Nat
    BY <2>1
  <2>6. /\ Activity.showing = Len(Visible)
        /\ Activity.buffered = Len(events["activity"])
        /\ Activity.counts[filter] = Len(Matches(filter, events["activity"]))
    BY <2>1 DEF Activity, GroupCounts
  <2>7. QED
    BY <2>1, <2>2, <2>3, <2>4, <2>5, <2>6 DEF FooterHonest
<1>2. QED
  BY <1>1, FooterInit, FooterNext, PTL DEF Spec
================================================================================
