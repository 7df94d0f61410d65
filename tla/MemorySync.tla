------------------------------ MODULE MemorySync ------------------------------
(* The replicated memory of a household: every device's MemoryStore            *)
(* (memory/store.py), the MemorySyncService that exchanges differences         *)
(* (memory/sync.py), and the connections they run over (Transport).            *)
(*                                                                             *)
(* Between two awaits a handler runs alone, so each action is one such stretch *)
(* with everything it does: merge, clock, change callback, save and reply.     *)
(* written and appended are history: every entry and record ever created.      *)
EXTENDS Transport, LWW, AppendLog

CONSTANTS
    RegKeys,        \* keys used as registers
    LogKeys,        \* keys used as append logs
    Contents,       \* what a log record may carry
    DefaultTTL,     \* DEFAULT_TTLS of each register key's namespace
    TTLArgs,        \* the ttl arguments callers pass
    Unset,          \* ttl=None: use the namespace's default
    Tombstone,      \* the None that delete writes
    PushTasks,      \* {"debounce", "periodic"}, or the one a run looks at
    Openers,        \* the devices that discover the others and connect
    Writers,        \* the devices that append to each log
    Skew,           \* how far each device's wall clock runs ahead
    TornWrites,     \* whether a crash may interrupt the write of memory.json
    Torn,           \* a memory.json that no longer parses
    MaxWrites,      \* bounds: entries created,
    MaxAppends,     \*         log records created,
    MaxNow,         \*         time passed,
    MaxRestarts,    \*         crashes,
    MaxOutstanding  \*         unanswered pushes per connection and sender

ASSUME MemorySyncAssumption ==
    /\ Tombstone \in Values
    /\ DefaultTTL \in [RegKeys -> TTLs]
    /\ Unset \notin TTLs
    /\ TTLArgs \subseteq TTLs \cup {Unset}
    /\ "debounce" \in PushTasks
    /\ PushTasks \subseteq {"debounce", "periodic"}
    /\ Openers \subseteq Devices
    /\ Writers \in [LogKeys -> SUBSET Devices]
    /\ Skew \in [Devices -> Nat]
    /\ TornWrites \in BOOLEAN
    /\ MaxNow \in Nat
    /\ MaxRestarts \in Nat
    /\ IsFiniteSet(RegKeys)

VARIABLES
    clock,      \* _lamport_clock
    registers,  \* _registers
    logs,       \* _logs, a missing key being the empty log
    disk,       \* what memory.json holds
    task,       \* the debounce and the periodic push task
    greeting,   \* connections whose opener has still to send its first request
    now,        \* true time
    restarts,   \* crashes so far
    written,    \* history: every register entry created, with its key
    appended    \* history: every log record created, with its key

storeVars == <<clock, registers, logs, disk>>
envVars == <<now, restarts>>
history == <<written, appended>>
vars == <<transportVars, storeVars, task, greeting, envVars, history>>

-------------------------------------------------------------------------------
(* Messages and state shapes *)

Record == LogRecord(Devices, Contents)

SyncStates == [registers : [RegKeys -> Digest \cup {NoEntry}], logs : [LogKeys -> Nat]]

(* A key a diff does not carry is NoEntry, or no records, here. *)
Diffs == [registers : [RegKeys -> Entry \cup {NoEntry}], logs : [LogKeys -> Seq(Record)]]

Message ==
         [type : {"announce"}]
    \cup [type : {"request"}, state : SyncStates]
    \cup [type : {"response"}, state : SyncStates, diff : Diffs]
    \cup [type : {"update"}, diff : Diffs]

Memory == [clock : Nat,
           registers : [RegKeys -> Entry \cup {NoEntry}],
           logs : [LogKeys -> Seq(Record)]]

EmptyMemory == [clock |-> 0,
                registers |-> [k \in RegKeys |-> NoEntry],
                logs |-> [l \in LogKeys |-> <<>>]]

ASSUME TornAssumption == Torn \notin Memory

(* A push task sleeps, or walks a snapshot of the connection table sending the *)
(* request it built when it woke up.  The debounce task ends after its push.   *)
NoState == [registers |-> [k \in RegKeys |-> NoEntry], logs |-> [l \in LogKeys |-> 0]]
Resting(pc) == [pc |-> pc, state |-> NoState, todo |-> {}]
AfterPush(t) == IF t = "periodic" THEN "sleep" ELSE "idle"

Tasks == [pc : {"idle", "sleep", "push"}, state : SyncStates,
          todo : SUBSET (Devices \X Conns)]

-------------------------------------------------------------------------------
(* Reading a store *)

Time(d) == now + Skew[d]

Readable(e, time) == e # NoEntry /\ ~Expired(e, time)

SyncStateOf(regs, lgs, time) ==
    [registers |-> [k \in RegKeys |-> IF Readable(regs[k], time)
                                      THEN DigestOf(regs[k]) ELSE NoEntry],
     logs |-> [l \in LogKeys |-> Len(lgs[l])]]

DiffOf(regs, lgs, time, state) ==
    [registers |->
        [k \in RegKeys |->
            IF Readable(regs[k], time) /\ WorthSending(regs[k], state.registers[k])
            THEN regs[k] ELSE NoEntry],
     logs |->
        [l \in LogKeys |-> IF Len(lgs[l]) > state.logs[l]
                           THEN Since(lgs[l], state.logs[l]) ELSE <<>>]]

SentKeys(diff) == {k \in RegKeys : diff.registers[k] # NoEntry}
SentLogs(diff) == {l \in LogKeys : diff.logs[l] # <<>>}
IsEmpty(diff)  == SentKeys(diff) = {} /\ SentLogs(diff) = {}

IsPrefix(s, t) == Len(s) <= Len(t) /\ s = SubSeq(t, 1, Len(s))

-------------------------------------------------------------------------------
(* Changing a store *)

(* Broken variant: the service does not listen to its store. *)
NotifyNobody(d) == UNCHANGED task

(* _notify reaches _on_local_change: a push is scheduled unless the debounce   *)
(* task is still sleeping or pushing.                                          *)
Notify(d) ==
    task' = IF task[d]["debounce"].pc = "idle"
            THEN [task EXCEPT ![d]["debounce"] = Resting("sleep")]
            ELSE task

(* Broken variant: the payload is put together before the change.              *)
SaveTooEarly(d, savedClock) ==
    disk' = [disk EXCEPT ![d] = [clock |-> savedClock, registers |-> registers[d],
                                 logs |-> logs[d]]]

(* _save, of the memory the step leaves behind, with the clock at the moment   *)
(* of the save.                                                                *)
Save(d, savedClock) ==
    disk' = [disk EXCEPT ![d] = [clock |-> savedClock, registers |-> registers'[d],
                                 logs |-> logs'[d]]]

Set(d, k, v, ttl) ==
    LET e == [value |-> v, ts |-> clock[d] + 1, device |-> d, wall |-> Time(d),
              ttl |-> IF ttl = Unset THEN DefaultTTL[k] ELSE ttl]
    IN  /\ Cardinality(written) < MaxWrites
        /\ clock' = [clock EXCEPT ![d] = @ + 1]
        /\ IF Accepts(registers[d][k], e)
           THEN /\ registers' = [registers EXCEPT ![d][k] = e]
                /\ Notify(d)
                /\ UNCHANGED logs
                /\ Save(d, clock'[d])
                /\ written' = written \cup {[key |-> k, entry |-> e]}
           ELSE UNCHANGED <<registers, logs, task, disk, written>>
        /\ UNCHANGED <<transportVars, greeting, envVars, appended>>

Delete(d, k) == Set(d, k, Tombstone, Unset)

(* get and get_entry drop an expired entry from memory, and do not save. *)
Get(d, k) ==
    /\ registers[d][k] # NoEntry
    /\ Expired(registers[d][k], Time(d))
    /\ registers' = [registers EXCEPT ![d][k] = NoEntry]
    /\ UNCHANGED <<transportVars, clock, logs, disk, task, greeting, envVars, history>>

LogAppend(d, l, x) ==
    /\ Cardinality(appended) < MaxAppends
    /\ logs' = [logs EXCEPT ![d][l] = Appended(@, x, d, Time(d))]
    /\ appended' = appended \cup {[key |-> l, rec |-> logs'[d][l][Len(logs'[d][l])]]}
    /\ Notify(d)
    /\ UNCHANGED <<clock, registers>>
    /\ Save(d, clock[d])
    /\ UNCHANGED <<transportVars, greeting, envVars, written>>

(* apply_diff walks the diff's registers in some order, pos; every entry, kept *)
(* or not, first moves the clock to max(clock, its timestamp) + 1.  The clock  *)
(* after i of them is the highest of what each of them forces by then.         *)
MergeOrders(K) ==
    {pos \in [K -> 1..Cardinality(K)] : \A j, k \in K : pos[j] = pos[k] => j = k}

Highest(S) == {x \in S : \A y \in S : y <= x}

ClockAfter(start, entries, pos, i) ==
    Highest({start + i} \cup
            {entries[k].ts + 1 + (i - pos[k]) : k \in {j \in DOMAIN pos : pos[j] <= i}})

MergedRegisters(d, diff) ==
    [k \in RegKeys |-> IF k \in SentKeys(diff)
                       THEN Merged(registers[d][k], diff.registers[k])
                       ELSE registers[d][k]]

MergedLogs(d, diff) ==
    [l \in LogKeys |-> IF l \in SentLogs(diff)
                       THEN LogMerged(logs[d][l], diff.logs[l])
                       ELSE logs[d][l]]

(* Only an accepted entry or a merged log is saved, so the clock on disk is    *)
(* the one of the last such merge; the logs come after the registers.          *)
ApplyDiff(d, diff) ==
    LET K        == SentKeys(diff)
        accepted == {k \in K : Accepts(registers[d][k], diff.registers[k])}
        n        == Cardinality(K)
    IN  \E pos \in MergeOrders(K) :
        \E final \in ClockAfter(clock[d], diff.registers, pos, n) :
            /\ registers' = [registers EXCEPT ![d] = MergedRegisters(d, diff)]
            /\ logs' = [logs EXCEPT ![d] = MergedLogs(d, diff)]
            /\ clock' = [clock EXCEPT ![d] = final]
            /\ IF SentLogs(diff) # {} THEN Notify(d) /\ Save(d, final)
               ELSE IF accepted # {}
               THEN \E last \in Highest({pos[k] : k \in accepted}) :
                    \E saved \in ClockAfter(clock[d], diff.registers, pos, last) :
                        Notify(d) /\ Save(d, saved)
               ELSE UNCHANGED <<task, disk>>

-------------------------------------------------------------------------------
(* Outgoing synchronisation *)

(* _connect_and_announce, up to its ANNOUNCE ... *)
ConnectToPeer(d, e, c) ==
    /\ Connect(d, e, c, <<[type |-> "announce"]>>)
    /\ greeting' = greeting \cup {c}
    /\ UNCHANGED <<storeVars, task, envVars, history>>

(* ... and its last step, sync_with_peer. *)
SyncWithPeer(d, c) ==
    /\ c \in greeting
    /\ d = ends[c].opener
    /\ greeting' = greeting \ {c}
    /\ inbox' = IF d \in openAt[c]
                THEN Sent(inbox, c, d, [type |-> "request",
                         state |-> SyncStateOf(registers[d], logs[d], Time(d))])
                ELSE inbox
    /\ UNCHANGED <<ends, openAt, broken, bound, table, storeVars, task, envVars, history>>

(* A push task wakes up: _push_to_peers builds the request and broadcast       *)
(* copies the table.                                                           *)
Wake(d, t) ==
    LET todo == {<<e, table[d][e]>> : e \in {p \in Devices : table[d][p] # NoConn}}
    IN  /\ task[d][t].pc = "sleep"
        /\ task' = [task EXCEPT ![d][t] =
               IF todo = {} THEN Resting(AfterPush(t))
               ELSE [pc |-> "push", todo |-> todo,
                     state |-> SyncStateOf(registers[d], logs[d], Time(d))]]
        /\ UNCHANGED <<transportVars, storeVars, greeting, envVars, history>>

(* Requests of d on c that are unanswered: the window stands for the stream's  *)
(* back-pressure and keeps the queues finite.                                  *)
Outstanding(d, c) ==
    Len(SelectSeq(inbox[c][Peer(c, d)], LAMBDA m : m.type = "request"))
    + Len(SelectSeq(inbox[c][d], LAMBDA m : m.type = "response"))

(* The next send of the broadcast.  Other tasks run while one is awaited. *)
PushSend(d, t, e, c) ==
    LET left == task[d][t].todo \ {<<e, c>>}
    IN  /\ task[d][t].pc = "push"
        /\ <<e, c>> \in task[d][t].todo
        /\ Outstanding(d, c) < MaxOutstanding
        /\ BroadcastSend(d, e, c, [type |-> "request", state |-> task[d][t].state])
        /\ task' = IF left = {} THEN [task EXCEPT ![d][t] = Resting(AfterPush(t))]
                   ELSE [task EXCEPT ![d][t].todo = left]
        /\ UNCHANGED <<ends, openAt, broken, bound, storeVars, greeting, envVars, history>>

-------------------------------------------------------------------------------
(* Incoming synchronisation *)

HandleAnnounce(d, c) ==
    /\ Dispatch(d, c)
    /\ Head(inbox[c][d]).type = "announce"
    /\ inbox' = Consumed(c, d)
    /\ UNCHANGED <<storeVars, task, greeting, envVars, history>>

(* _handle_sync, phase "request": it carries no diff of its own. *)
HandleRequest(d, c) ==
    LET m == Head(inbox[c][d])
    IN  /\ Dispatch(d, c)
        /\ m.type = "request"
        /\ inbox' = Sent(Consumed(c, d), c, d,
               [type |-> "response",
                diff |-> DiffOf(registers[d], logs[d], Time(d), m.state),
                state |-> SyncStateOf(registers[d], logs[d], Time(d))])
        /\ UNCHANGED <<storeVars, task, greeting, envVars, history>>

(* _handle_sync, phase "response": what the peer lacks is computed after its   *)
(* diff is in. *)
HandleResponse(d, c) ==
    LET m    == Head(inbox[c][d])
        ours == DiffOf(registers'[d], logs'[d], Time(d), m.state)
    IN  /\ Dispatch(d, c)
        /\ m.type = "response"
        /\ ApplyDiff(d, m.diff)
        /\ inbox' = IF IsEmpty(ours) THEN Consumed(c, d)
                    ELSE Sent(Consumed(c, d), c, d, [type |-> "update", diff |-> ours])
        /\ UNCHANGED <<greeting, envVars, history>>

HandleUpdate(d, c) ==
    LET m == Head(inbox[c][d])
    IN  /\ Dispatch(d, c)
        /\ m.type = "update"
        /\ ApplyDiff(d, m.diff)
        /\ inbox' = Consumed(c, d)
        /\ UNCHANGED <<greeting, envVars, history>>

-------------------------------------------------------------------------------
(* The environment *)

DropConn(c) == Drop(c) /\ UNCHANGED <<storeVars, task, greeting, envVars, history>>

ReceiveLoopEnds(d, c) ==
    LoopEnds(d, c) /\ UNCHANGED <<storeVars, task, greeting, envVars, history>>

(* Broken variant: _load forgets the clock. *)
LoadedUnclocked(file) == IF file = Torn THEN EmptyMemory ELSE [file EXCEPT !.clock = 0]

(* The process dies and starts again: _load reads memory.json, and takes a     *)
(* file that does not parse for no memory at all.                              *)
Loaded(file) == IF file = Torn THEN EmptyMemory ELSE file

StartFrom(d, file) ==
    /\ restarts < MaxRestarts
    /\ restarts' = restarts + 1
    /\ Reset(d)
    /\ greeting' = greeting \ {c \in Conns : Opened(c) /\ ends[c].opener = d}
    /\ disk' = [disk EXCEPT ![d] = file]
    /\ clock' = [clock EXCEPT ![d] = Loaded(file).clock]
    /\ registers' = [registers EXCEPT ![d] = Loaded(file).registers]
    /\ logs' = [logs EXCEPT ![d] = Loaded(file).logs]
    /\ task' = [task EXCEPT ![d] = [t \in PushTasks |-> Resting(AfterPush(t))]]
    /\ UNCHANGED <<now, history>>

Restart(d) == StartFrom(d, disk[d])

(* The crash comes while _save is writing.  write_text empties the file before *)
(* it writes, so neither the old memory nor the new one is there to be read.   *)
RestartTorn(d) ==
    /\ TornWrites
    /\ StartFrom(d, Torn)

Tick ==
    /\ now < MaxNow
    /\ now' = now + 1
    /\ UNCHANGED <<transportVars, storeVars, task, greeting, restarts, history>>

-------------------------------------------------------------------------------

Init ==
    /\ TransportInit
    /\ clock = [d \in Devices |-> 0]
    /\ registers = [d \in Devices |-> EmptyMemory.registers]
    /\ logs = [d \in Devices |-> EmptyMemory.logs]
    /\ disk = [d \in Devices |-> EmptyMemory]
    /\ task = [d \in Devices |-> [t \in PushTasks |-> Resting(AfterPush(t))]]
    /\ greeting = {}
    /\ now = 0
    /\ restarts = 0
    /\ written = {}
    /\ appended = {}

Local(d) ==
    \/ \E k \in RegKeys, v \in Values \ {Tombstone}, ttl \in TTLArgs : Set(d, k, v, ttl)
    \/ \E k \in RegKeys : Delete(d, k)
    \/ \E k \in RegKeys : Get(d, k)
    \/ \E l \in LogKeys, x \in Contents : d \in Writers[l] /\ LogAppend(d, l, x)

Receive(d, c) ==
    \/ HandleAnnounce(d, c)
    \/ HandleRequest(d, c)
    \/ HandleResponse(d, c)
    \/ HandleUpdate(d, c)

Push(d, t) ==
    \/ Wake(d, t)
    \/ \E e \in Devices, c \in Conns : PushSend(d, t, e, c)

Next ==
    \/ \E d \in Devices : Local(d) \/ Restart(d) \/ RestartTorn(d)
    \/ \E d \in Devices, t \in PushTasks : Push(d, t)
    \/ \E d \in Openers, e \in Devices, c \in Conns : ConnectToPeer(d, e, c)
    \/ \E d \in Devices, c \in Conns :
          SyncWithPeer(d, c) \/ Receive(d, c) \/ ReceiveLoopEnds(d, c)
    \/ \E c \in Conns : DropConn(c)
    \/ Tick

(* The event loop runs every task that can go on: the receive loops, the two   *)
(* push tasks, the greeting of a new connection.  Nothing makes a caller       *)
(* write, a device connect, a stream break or a process die.                   *)
Fairness ==
    /\ \A d \in Devices, t \in PushTasks : WF_vars(Push(d, t))
    /\ \A d \in Devices, c \in Conns :
          WF_vars(Receive(d, c)) /\ WF_vars(SyncWithPeer(d, c))
                                 /\ WF_vars(ReceiveLoopEnds(d, c))
    /\ WF_vars(Tick)

Spec == Init /\ [][Next]_vars /\ Fairness

-------------------------------------------------------------------------------
(* Invariants *)

(* Every variable has its shape: MemoryStore's fields, memory.json, the push   *)
(* tasks of MemorySyncService and the messages of the sync protocol.           *)
TypeOK ==
    /\ TransportTypeOK(Message)
    /\ clock \in [Devices -> Nat]
    /\ registers \in [Devices -> [RegKeys -> Entry \cup {NoEntry}]]
    /\ logs \in [Devices -> [LogKeys -> Seq(Record)]]
    /\ disk \in [Devices -> Memory \cup {Torn}]
    /\ task \in [Devices -> [PushTasks -> Tasks]]
    /\ greeting \subseteq Conns
    /\ now \in Nat
    /\ restarts \in Nat
    /\ written \subseteq [key : RegKeys, entry : Entry]
    /\ appended \subseteq [key : LogKeys, rec : Record]

(* A register never holds an entry stamped later than its device's clock: so   *)
(* the entry set creates always supersedes the one it finds, and the branch of *)
(* set that returns the existing entry instead is never taken.                 *)
ClockDominates ==
    \A d \in Devices, k \in RegKeys :
        registers[d][k] # NoEntry => registers[d][k].ts <= clock[d]

(* No two writes, of whatever keys and across crashes, carry the same          *)
(* timestamp and device: on this rests that supersedes decides between any two *)
(* entries, and the same way everywhere.                                       *)
UniqueStamps ==
    \A x, y \in written :
        x.entry.ts = y.entry.ts /\ x.entry.device = y.entry.device => x = y

(* Of two different values held for a key, one supersedes the other: the       *)
(* devices that meet can tell which of them stays.                             *)
ConflictsResolved ==
    \A d, e \in Devices, k \in RegKeys :
        LET mine == registers[d][k]  theirs == registers[e][k]
        IN  mine # NoEntry /\ theirs # NoEntry /\ mine.value # theirs.value
            => Supersedes(mine, theirs) \/ Supersedes(theirs, mine)

(* Whatever a device holds in memory, and may have told a peer of, a crash     *)
(* finds in memory.json: every path that changes a register or a log saves it  *)
(* before the device answers anyone.                                           *)
SavedBeforeSeen ==
    \A d \in Devices :
        /\ \A k \in RegKeys :
              registers[d][k] # NoEntry => Loaded(disk[d]).registers[k] = registers[d][k]
        /\ \A l \in LogKeys : Loaded(disk[d]).logs[l] = logs[d][l]

NeverExpires(k) == \A x \in written : x.key = k => x.entry.ttl = Forever

(* A device keeps what it wrote itself, or a later entry: neither a late or    *)
(* repeated diff of a peer nor a crash takes it back.  (Of keys that nobody    *)
(* gave an expiry; get forgets an expired entry together with its timestamp.)  *)
ReadYourWrites ==
    \A x \in written : NeverExpires(x.key) =>
        LET held == registers[x.entry.device][x.key]
        IN  held # NoEntry /\ (held = x.entry \/ Supersedes(held, x.entry))

-------------------------------------------------------------------------------
(* Why the invariants above hold: the facts about a store, its file and what   *)
(* is on its way that every step preserves together.                           *)

(* The file, too, holds no entry stamped later than the clock beside it. *)
SavedClockDominates ==
    \A d \in Devices, k \in RegKeys :
        LET file == Loaded(disk[d])
        IN  file.registers[k] # NoEntry => file.registers[k].ts <= file.clock

(* Neither in memory nor from its file does a device know a clock behind a     *)
(* stamp it has given out.                                                     *)
StampsOnRecord ==
    \A x \in written : /\ x.entry.ts <= clock[x.entry.device]
                       /\ x.entry.ts <= Loaded(disk[x.entry.device]).clock

Known(regs) ==
    \A k \in RegKeys : regs[k] # NoEntry => [key |-> k, entry |-> regs[k]] \in written

KnownMessage(m) == m.type \in {"response", "update"} => Known(m.diff.registers)

(* Every entry held, saved or on its way in a diff is one that somebody wrote. *)
NothingInvented ==
    /\ \A d \in Devices : Known(registers[d]) /\ Known(Loaded(disk[d]).registers)
    /\ \A c \in Conns, d \in Devices : \A i \in DOMAIN inbox[c][d] :
          KnownMessage(inbox[c][d][i])

(* The inductive invariant: what makes a device's stamps fresh, its reads      *)
(* durable and its register the work of ReplicatedRegister's steps.  Only the  *)
(* stamps depend on memory.json being written whole.                           *)
SyncInv ==
    /\ ClockDominates
    /\ SavedClockDominates
    /\ SavedBeforeSeen
    /\ NothingInvented
    /\ TornWrites \/ StampsOnRecord

-------------------------------------------------------------------------------
(* The registers implement ReplicatedRegister. *)

RR == INSTANCE ReplicatedRegister WITH
          Keys <- RegKeys, current <- registers, written <- written

(* Every step of stores, sync protocol, connections and crashes is a write of  *)
(* a fresh entry, the adoption of entries somebody wrote that supersede those  *)
(* held, the loss of an entry that may expire, or nothing at all.              *)
RegistersImplemented == RR!Spec

-------------------------------------------------------------------------------
(* Liveness *)

(* Two devices have a connection that works and that both of them push on. *)
Linked(d, e) ==
    \E c \in Conns : /\ Opened(c)
                     /\ {ends[c].opener, ends[c].acceptor} = {d, e}
                     /\ Live(c)
                     /\ table[d][e] = c /\ table[e][d] = c

Shown(d, k) == IF Readable(registers[d][k], Time(d)) THEN registers[d][k].value ELSE Tombstone

(* Devices that stay linked end up showing the same values, whatever was       *)
(* written, lost and repeated before: claimed of keys that nobody gave an      *)
(* expiry, since an expired entry keeps others out until somebody reads it.    *)
RegistersConverge ==
    \A d, e \in Devices, k \in RegKeys :
        <>[](Linked(d, e) /\ NeverExpires(k)) => <>[](Shown(d, k) = Shown(e, k))

(* ... and with the same records in their logs. *)
SameLogEventually(l) ==
    \A d, e \in Devices : <>[]Linked(d, e) => <>[](logs[d][l] = logs[e][l])

LogsConverge == \A l \in LogKeys : SameLogEventually(l)

(* What the exchange of log lengths does achieve: a log that only one device   *)
(* appends to becomes the same everywhere.                                     *)
OwnLogsConverge ==
    \A l \in LogKeys, w \in Devices : Writers[l] = {w} => SameLogEventually(l)

-------------------------------------------------------------------------------
(* Logs *)

(* When only one device appends, every replica of a log is a beginning of that *)
(* device's own: nothing is missing in the middle, nothing twice, in order.    *)
LogsArePrefixes ==
    \A l \in LogKeys, w \in Devices : Writers[l] = {w} =>
        \A d \in Devices : IsPrefix(logs[d][l], logs[w][l])

(* No log holds two records with the same identity, and no two records ever    *)
(* created share one: merge drops a record only because it is there already.   *)
RecordIdsUnique ==
    /\ \A x, y \in appended :
          x.key = y.key /\ RecordId(x.rec) = RecordId(y.rec) => x = y
    /\ \A d \in Devices, l \in LogKeys : \A i, j \in DOMAIN logs[d][l] :
          RecordId(logs[d][l][i]) = RecordId(logs[d][l][j]) => i = j

(* A record, once in a device's log, stays there through merges and crashes.   *)
RecordsKept ==
    [][\A d \in Devices, l \in LogKeys :
          {logs[d][l][i] : i \in DOMAIN logs[d][l]}
              \subseteq {logs'[d][l][i] : i \in DOMAIN logs'[d][l]}]_vars
================================================================================
