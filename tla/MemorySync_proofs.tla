--------------------------- MODULE MemorySync_proofs ---------------------------
(* What holds of the replicated memory for every household, every choice of    *)
(* values and lifetimes, and any number of writes, messages and crashes.       *)
EXTENDS MemorySync, Transport_proofs, AppendLog_proofs

Registers == [RegKeys -> Entry \cup {NoEntry}]
Logs      == [LogKeys -> Seq(Record)]

-------------------------------------------------------------------------------
(* The operators on stores *)

LEMMA RecordsAreRecords == IsRecordSet(Record)
  BY DEF IsRecordSet, Record, LogRecord

LEMMA TimeType ==
    ASSUME TypeOK, NEW d \in Devices
    PROVE  Time(d) \in Nat
  BY MemorySyncAssumption DEF TypeOK, Time

LEMMA EmptyMemoryType == EmptyMemory \in Memory
  BY DEF EmptyMemory, Memory

LEMMA LoadedType ==
    ASSUME NEW file \in Memory \cup {Torn}
    PROVE  Loaded(file) \in Memory
  BY EmptyMemoryType DEF Loaded

LEMMA SyncStateType ==
    ASSUME NEW regs \in Registers, NEW lgs \in Logs, NEW time
    PROVE  SyncStateOf(regs, lgs, time) \in SyncStates
<1>1. \A e \in Entry : DigestOf(e) \in Digest
  BY DEF DigestOf, Digest, Entry
<1>2. \A k \in RegKeys : (IF Readable(regs[k], time) THEN DigestOf(regs[k]) ELSE NoEntry)
                            \in Digest \cup {NoEntry}
  BY <1>1 DEF Registers, Readable
<1>3. \A l \in LogKeys : Len(lgs[l]) \in Nat
  BY DEF Logs
<1>4. QED
  BY <1>2, <1>3 DEF SyncStateOf, SyncStates

LEMMA SinceType ==
    ASSUME NEW R, NEW log \in Seq(R), NEW n \in Nat
    PROVE  Since(log, n) \in Seq(R)
  BY DEF Since

LEMMA DiffType ==
    ASSUME NEW regs \in Registers, NEW lgs \in Logs, NEW time, NEW state \in SyncStates
    PROVE  DiffOf(regs, lgs, time, state) \in Diffs
<1>1. \A l \in LogKeys : (IF Len(lgs[l]) > state.logs[l]
                          THEN Since(lgs[l], state.logs[l]) ELSE <<>>) \in Seq(Record)
  <2> TAKE l \in LogKeys
  <2>1. lgs[l] \in Seq(Record) /\ state.logs[l] \in Nat
    BY DEF Logs, SyncStates
  <2>2. Since(lgs[l], state.logs[l]) \in Seq(Record)
    BY <2>1, SinceType
  <2>3. QED
    BY <2>2
<1>2. \A k \in RegKeys : regs[k] \in Entry \cup {NoEntry}
  BY DEF Registers
<1>3. QED
  BY <1>1, <1>2 DEF DiffOf, Diffs

LEMMA NotifyType ==
    ASSUME TypeOK, NEW d \in Devices, Notify(d)
    PROVE  task' \in [Devices -> [PushTasks -> Tasks]]
<1>1. NoState \in SyncStates
  BY DEF NoState, SyncStates
<1>2. Resting("sleep") \in Tasks
  BY <1>1 DEF Resting, Tasks
<1>3. QED
  BY <1>2 DEF Notify, TypeOK

LEMMA SaveType ==
    ASSUME TypeOK, NEW d \in Devices, NEW n \in Nat, Save(d, n),
           registers' \in [Devices -> Registers], logs' \in [Devices -> Logs]
    PROVE  /\ disk' \in [Devices -> Memory \cup {Torn}]
           /\ disk'[d] = [clock |-> n, registers |-> registers'[d], logs |-> logs'[d]]
           /\ \A e \in Devices \ {d} : disk'[e] = disk[e]
           /\ disk'[d] # Torn
<1> DEFINE m == [clock |-> n, registers |-> registers'[d], logs |-> logs'[d]]
<1>1. m \in Memory
  BY DEF Memory, Registers, Logs
<1>2. disk' = [disk EXCEPT ![d] = m]
  BY DEF Save
<1> HIDE DEF m
<1>3. disk \in [Devices -> Memory \cup {Torn}]
  BY DEF TypeOK
<1>4. disk'[d] = m /\ disk' \in [Devices -> Memory \cup {Torn}]
      /\ \A e \in Devices \ {d} : disk'[e] = disk[e]
  BY <1>1, <1>2, <1>3
<1>5. QED
  BY <1>1, <1>4, TornAssumption DEF m

(* Every merge moves the clock to one past the higher of itself and the stamp  *)
(* it merges, so it ends past all of them.                                     *)
LEMMA ClockAfterBounds ==
    ASSUME NEW start \in Nat, NEW K, NEW entries, NEW n \in Nat, NEW i \in Nat,
           NEW pos \in [K -> 1..n], \A k \in K : entries[k].ts \in Nat,
           NEW c \in ClockAfter(start, entries, pos, i)
    PROVE  /\ c \in Nat
           /\ c >= start
           /\ \A k \in K : pos[k] <= i => entries[k].ts < c
<1> DEFINE S == {start + i} \cup
                {entries[k].ts + 1 + (i - pos[k]) : k \in {j \in DOMAIN pos : pos[j] <= i}}
<1>1. c \in S /\ \A y \in S : y <= c
  BY DEF ClockAfter, Highest
<1>2. start + i \in S
  OBVIOUS
<1>3. \A k \in K : pos[k] <= i => entries[k].ts + 1 + (i - pos[k]) \in S
  OBVIOUS
<1>4. \A k \in K : pos[k] \in Nat
  OBVIOUS
<1>5. S \subseteq Int
  BY <1>4
<1> HIDE DEF S
<1>6. start + i <= c /\ c \in Int
  BY <1>1, <1>2, <1>5
<1>7. ASSUME NEW k \in K, pos[k] <= i
      PROVE  entries[k].ts < c
  <2>1. entries[k].ts + 1 + (i - pos[k]) <= c
    BY <1>1, <1>3, <1>7
  <2>2. QED
    BY <1>4, <1>6, <1>7, <2>1
<1>8. QED
  BY <1>6, <1>7

LEMMA MergedType ==
    ASSUME TypeOK, NEW d \in Devices, NEW diff \in Diffs
    PROVE  /\ MergedRegisters(d, diff) \in Registers
           /\ MergedLogs(d, diff) \in Logs
<1>1. registers[d] \in Registers /\ logs[d] \in Logs
  BY DEF TypeOK, Registers, Logs
<1>2. diff.registers \in Registers /\ diff.logs \in Logs
  BY DEF Diffs, Registers, Logs
<1>3. \A k \in RegKeys : Merged(registers[d][k], diff.registers[k]) \in Entry \cup {NoEntry}
  BY <1>1, <1>2 DEF Merged, Registers
<1>4. \A l \in LogKeys : LogMerged(logs[d][l], diff.logs[l]) \in Seq(Record)
  BY <1>1, <1>2, LogMergedType, RecordsAreRecords DEF Logs
<1>5. QED
  BY <1>1, <1>3, <1>4 DEF MergedRegisters, MergedLogs, Registers, Logs

(* What applying a diff does to the stores: it either saves all it changed,    *)
(* with a clock no lower than before and above the stamps it took over, or it  *)
(* changed neither registers nor logs.                                         *)
LEMMA ApplyDiffEffect ==
    ASSUME TypeOK, NEW d \in Devices, NEW diff \in Diffs, ApplyDiff(d, diff)
    PROVE  /\ registers' = [registers EXCEPT ![d] = MergedRegisters(d, diff)]
           /\ logs' = [logs EXCEPT ![d] = MergedLogs(d, diff)]
           /\ \E final \in Nat : /\ clock' = [clock EXCEPT ![d] = final]
                                 /\ final >= clock[d]
                                 /\ \A k \in SentKeys(diff) : diff.registers[k].ts < final
           /\ \/ \E saved \in Nat :
                    /\ Notify(d)
                    /\ Save(d, saved)
                    /\ saved >= clock[d]
                    /\ \A k \in SentKeys(diff) :
                          Accepts(registers[d][k], diff.registers[k])
                             => diff.registers[k].ts < saved
              \/ /\ UNCHANGED <<task, disk>>
                 /\ MergedRegisters(d, diff) = registers[d]
                 /\ MergedLogs(d, diff) = logs[d]
<1> DEFINE K == SentKeys(diff)
           n == Cardinality(K)
           accepted == {k \in K : Accepts(registers[d][k], diff.registers[k])}
           Effect(pos, final) ==
              /\ registers' = [registers EXCEPT ![d] = MergedRegisters(d, diff)]
              /\ logs' = [logs EXCEPT ![d] = MergedLogs(d, diff)]
              /\ clock' = [clock EXCEPT ![d] = final]
              /\ IF SentLogs(diff) # {} THEN Notify(d) /\ Save(d, final)
                 ELSE IF accepted # {}
                 THEN \E last \in Highest({pos[k] : k \in accepted}) :
                      \E saved \in ClockAfter(clock[d], diff.registers, pos, last) :
                          Notify(d) /\ Save(d, saved)
                 ELSE UNCHANGED <<task, disk>>
<1>1. K \subseteq RegKeys /\ n \in Nat
  <2>1. K \subseteq RegKeys
    BY DEF SentKeys
  <2>2. IsFiniteSet(K)
    BY <2>1, FS_Subset, MemorySyncAssumption
  <2>3. QED
    BY <2>1, <2>2, FS_CardinalityType
<1>2. \A k \in K : diff.registers[k].ts \in Nat
  BY DEF SentKeys, Diffs, Entry
<1>3. clock[d] \in Nat
  BY DEF TypeOK
<1>4. PICK pos \in MergeOrders(K) :
         \E final \in ClockAfter(clock[d], diff.registers, pos, n) : Effect(pos, final)
  BY DEF ApplyDiff
<1>5. PICK final \in ClockAfter(clock[d], diff.registers, pos, n) : Effect(pos, final)
  BY <1>4
<1>6. pos \in [K -> 1..n]
  BY DEF MergeOrders
<1> HIDE DEF K, n
<1>7. /\ final \in Nat
      /\ final >= clock[d]
      /\ \A k \in K : diff.registers[k].ts < final
  <2>1. \A k \in K : pos[k] <= n
    BY <1>1, <1>6
  <2>2. QED
    BY <1>1, <1>2, <1>3, <1>6, <2>1, ClockAfterBounds
<1>8. CASE SentLogs(diff) # {}
  BY <1>5, <1>7, <1>8 DEF K
<1>9. CASE SentLogs(diff) = {} /\ accepted # {}
  <2>0. PICK last \in Highest({pos[k] : k \in accepted}) :
           \E saved \in ClockAfter(clock[d], diff.registers, pos, last) :
              Notify(d) /\ Save(d, saved)
    BY <1>5, <1>9
  <2>1. PICK saved \in ClockAfter(clock[d], diff.registers, pos, last) :
           Notify(d) /\ Save(d, saved)
    BY <2>0
  <2>2. last \in Nat /\ \A k \in accepted : pos[k] <= last
    BY <1>1, <1>6 DEF Highest
  <2>3. /\ saved \in Nat
        /\ saved >= clock[d]
        /\ \A k \in K : pos[k] <= last => diff.registers[k].ts < saved
    BY <1>1, <1>2, <1>3, <1>6, <2>2, ClockAfterBounds
  <2>4. \A k \in K : Accepts(registers[d][k], diff.registers[k])
                       => diff.registers[k].ts < saved
    BY <2>2, <2>3
  <2>5. QED
    BY <1>5, <1>7, <2>1, <2>3, <2>4 DEF K
<1>10. CASE SentLogs(diff) = {} /\ accepted = {}
  <2>1. UNCHANGED <<task, disk>>
    BY <1>5, <1>10
  <2>2. MergedRegisters(d, diff) = registers[d]
    <3>1. \A k \in K : Merged(registers[d][k], diff.registers[k]) = registers[d][k]
      BY <1>10 DEF Merged
    <3>2. registers[d] = [k \in RegKeys |-> registers[d][k]]
      BY DEF TypeOK
    <3>3. QED
      BY <3>1, <3>2 DEF MergedRegisters, K
  <2>3. MergedLogs(d, diff) = logs[d]
    BY <1>10 DEF MergedLogs, TypeOK
  <2>4. QED
    BY <1>5, <1>7, <2>1, <2>2, <2>3 DEF K
<1>11. QED
  BY <1>8, <1>9, <1>10

LEMMA ApplyDiffType ==
    ASSUME TypeOK, NEW d \in Devices, NEW diff \in Diffs, ApplyDiff(d, diff)
    PROVE  /\ clock' \in [Devices -> Nat]
           /\ registers' \in [Devices -> Registers]
           /\ logs' \in [Devices -> Logs]
           /\ disk' \in [Devices -> Memory \cup {Torn}]
           /\ task' \in [Devices -> [PushTasks -> Tasks]]
<1>1. /\ registers \in [Devices -> Registers]
      /\ logs \in [Devices -> Logs]
      /\ clock \in [Devices -> Nat]
  BY DEF TypeOK, Registers, Logs
<1>2. registers' \in [Devices -> Registers] /\ logs' \in [Devices -> Logs]
  BY <1>1, MergedType, ApplyDiffEffect
<1>3. clock' \in [Devices -> Nat]
  BY <1>1, ApplyDiffEffect
<1>4. CASE UNCHANGED <<task, disk>>
  BY <1>2, <1>3, <1>4 DEF TypeOK
<1>5. CASE \E saved \in Nat : Notify(d) /\ Save(d, saved)
  <2>1. PICK saved \in Nat : Notify(d) /\ Save(d, saved)
    BY <1>5
  <2>2. QED
    BY <1>2, <1>3, <2>1, NotifyType, SaveType
<1>6. QED
  BY <1>4, <1>5, ApplyDiffEffect

-------------------------------------------------------------------------------
(* Type correctness *)

LEMMA DispatchedMessage ==
    ASSUME TypeOK, NEW d \in Devices, NEW c \in Conns, Dispatch(d, c)
    PROVE  LET m == Head(inbox[c][d])
           IN  /\ m \in Message
               /\ m.type = "request" => m.state \in SyncStates
               /\ m.type = "response" => m.state \in SyncStates /\ m.diff \in Diffs
               /\ m.type = "update" => m.diff \in Diffs
<1>1. Head(inbox[c][d]) \in Message
  BY ConsumedType DEF TypeOK
<1>2. \A m \in Message : /\ m.type = "request" => m.state \in SyncStates
                         /\ m.type = "response" => m.state \in SyncStates /\ m.diff \in Diffs
                         /\ m.type = "update" => m.diff \in Diffs
  BY DEF Message
<1>3. QED
  BY <1>1, <1>2

LEMMA TypeInit == Init => TypeOK
<1> SUFFICES ASSUME Init PROVE TypeOK
  OBVIOUS
<1>1. TransportTypeOK(Message)
  BY TransportInitType DEF Init
<1>2. \A t : Resting(AfterPush(t)) \in Tasks
  <2>1. NoState \in SyncStates
    BY DEF NoState, SyncStates
  <2>2. QED
    BY <2>1 DEF Resting, AfterPush, Tasks
<1>3. task \in [Devices -> [PushTasks -> Tasks]]
  BY <1>2 DEF Init
<1>4. EmptyMemory \in Memory
  BY EmptyMemoryType
<1>5. registers \in [Devices -> Registers] /\ logs \in [Devices -> Logs]
  BY <1>4 DEF Init, Memory, Registers, Logs
<1>6. disk \in [Devices -> Memory \cup {Torn}]
  BY <1>4 DEF Init
<1>7. QED
  BY <1>1, <1>3, <1>5, <1>6 DEF Init, TypeOK, Registers, Logs

LEMMA TypeSet ==
    ASSUME TypeOK, NEW d \in Devices, NEW k \in RegKeys, NEW v \in Values,
           NEW ttl \in TTLs \cup {Unset}, Set(d, k, v, ttl)
    PROVE  TypeOK'
<1> DEFINE e == [value |-> v, ts |-> clock[d] + 1, device |-> d, wall |-> Time(d),
                 ttl |-> IF ttl = Unset THEN DefaultTTL[k] ELSE ttl]
<1>1. e \in Entry
  BY TimeType, MemorySyncAssumption DEF TypeOK, Entry
<1>2. clock' \in [Devices -> Nat] /\ clock'[d] \in Nat
  BY DEF TypeOK, Set
<1>3. TransportTypeOK(Message)'
  BY DEF TypeOK, TransportTypeOK, Set, transportVars
<1>4. CASE Accepts(registers[d][k], e)
  <2>1. /\ registers' = [registers EXCEPT ![d][k] = e]
        /\ Notify(d) /\ UNCHANGED logs /\ Save(d, clock'[d])
        /\ written' = written \cup {[key |-> k, entry |-> e]}
    BY <1>4 DEF Set
  <2> HIDE DEF e
  <2>2. registers' \in [Devices -> Registers]
    BY <1>1, <2>1 DEF TypeOK, Registers
  <2>3. logs' \in [Devices -> Logs]
    BY <2>1 DEF TypeOK, Logs
  <2>4. disk' \in [Devices -> Memory \cup {Torn}]
    BY <1>2, <2>1, <2>2, <2>3, SaveType
  <2>5. written' \subseteq [key : RegKeys, entry : Entry]
    BY <1>1, <2>1 DEF TypeOK
  <2>6. task' \in [Devices -> [PushTasks -> Tasks]]
    BY <2>1, NotifyType
  <2>7. QED
    BY <1>2, <1>3, <2>2, <2>3, <2>4, <2>5, <2>6
    DEF TypeOK, Set, envVars, Registers, Logs
<1>5. CASE ~Accepts(registers[d][k], e)
  BY <1>2, <1>3, <1>5 DEF TypeOK, Set, envVars
<1>6. QED
  BY <1>4, <1>5

LEMMA TypeGet ==
    ASSUME TypeOK, NEW d \in Devices, NEW k \in RegKeys, Get(d, k)
    PROVE  TypeOK'
<1>1. TransportTypeOK(Message)'
  BY DEF TypeOK, TransportTypeOK, Get, transportVars
<1>2. QED
  BY <1>1 DEF TypeOK, Get, envVars, history

LEMMA TypeLogAppend ==
    ASSUME TypeOK, NEW d \in Devices, NEW l \in LogKeys, NEW x \in Contents,
           LogAppend(d, l, x)
    PROVE  TypeOK'
<1> DEFINE r == [content |-> x, seq |-> Len(logs[d][l]), device |-> d, ts |-> Time(d)]
<1>1. logs[d][l] \in Seq(Record) /\ r \in Record
  <2>1. logs[d][l] \in Seq(Record)
    BY DEF TypeOK
  <2>2. Len(logs[d][l]) \in Nat
    BY <2>1
  <2>3. r \in Record
    BY <2>2, TimeType DEF Record, LogRecord
  <2>4. QED
    BY <2>1, <2>3
<1>2. Appended(logs[d][l], x, d, Time(d)) = Append(logs[d][l], r)
  BY DEF Appended
<1>3. logs' = [logs EXCEPT ![d][l] = Append(logs[d][l], r)]
  BY <1>2 DEF LogAppend
<1> HIDE DEF r
<1>4. Append(logs[d][l], r) \in Seq(Record)
  BY <1>1
<1>5. logs' \in [Devices -> Logs]
  BY <1>3, <1>4 DEF TypeOK, Logs
<1>6. logs'[d][l] = Append(logs[d][l], r)
  BY <1>3 DEF TypeOK
<1>7. logs'[d][l][Len(logs'[d][l])] = r
  BY <1>1, <1>6
<1>8. appended' \subseteq [key : LogKeys, rec : Record]
  BY <1>1, <1>7 DEF LogAppend, TypeOK
<1>9. registers' \in [Devices -> Registers] /\ clock[d] \in Nat
  BY DEF LogAppend, TypeOK, Registers
<1>10. disk' \in [Devices -> Memory \cup {Torn}]
  BY <1>5, <1>9, SaveType DEF LogAppend
<1>11. task' \in [Devices -> [PushTasks -> Tasks]]
  BY NotifyType DEF LogAppend
<1>12. TransportTypeOK(Message)'
  BY DEF TypeOK, TransportTypeOK, LogAppend, transportVars
<1>13. QED
  BY <1>5, <1>8, <1>10, <1>11, <1>12 DEF TypeOK, LogAppend, envVars, Logs

LEMMA TypeConnect ==
    ASSUME TypeOK, NEW d \in Devices, NEW e \in Devices, NEW c \in Conns,
           ConnectToPeer(d, e, c)
    PROVE  TypeOK'
<1>1. <<[type |-> "announce"]>> \in Seq(Message)
  BY DEF Message
<1>2. TransportTypeOK(Message)'
  BY <1>1, ConnectType DEF TypeOK, ConnectToPeer
<1>3. QED
  BY <1>2 DEF TypeOK, ConnectToPeer, storeVars, envVars, history

LEMMA RequestType ==
    ASSUME TypeOK, NEW d \in Devices
    PROVE  /\ SyncStateOf(registers[d], logs[d], Time(d)) \in SyncStates
           /\ \A state \in SyncStates :
                 [type |-> "request", state |-> state] \in Message
<1>1. registers[d] \in Registers /\ logs[d] \in Logs
  BY DEF TypeOK, Registers, Logs
<1>2. QED
  BY <1>1, SyncStateType DEF Message

LEMMA TypeSyncWithPeer ==
    ASSUME TypeOK, NEW d \in Devices, NEW c \in Conns, SyncWithPeer(d, c)
    PROVE  TypeOK'
<1> DEFINE m == [type |-> "request", state |-> SyncStateOf(registers[d], logs[d], Time(d))]
<1>1. m \in Message
  BY RequestType
<1>2. inbox' = Sent(inbox, c, d, m) \/ inbox' = inbox
  BY DEF SyncWithPeer
<1> HIDE DEF m
<1>3. inbox' \in Inboxes(Message)
  BY <1>1, <1>2, SentType DEF TypeOK, TransportTypeOK, Inboxes
<1>4. TransportTypeOK(Message)'
  BY <1>3 DEF TypeOK, TransportTypeOK, SyncWithPeer, Inboxes
<1>5. QED
  BY <1>4 DEF TypeOK, SyncWithPeer, storeVars, envVars, history

LEMMA TypeWake ==
    ASSUME TypeOK, NEW d \in Devices, NEW t \in PushTasks, Wake(d, t)
    PROVE  TypeOK'
<1> DEFINE todo == {<<e, table[d][e]>> : e \in {p \in Devices : table[d][p] # NoConn}}
           pushing == [pc |-> "push", todo |-> todo,
                       state |-> SyncStateOf(registers[d], logs[d], Time(d))]
<1>1. todo \in SUBSET (Devices \X Conns)
  BY DEF TypeOK, TransportTypeOK
<1>2. SyncStateOf(registers[d], logs[d], Time(d)) \in SyncStates
  BY RequestType
<1> HIDE DEF todo
<1>3. pushing \in Tasks
  BY <1>1, <1>2 DEF Tasks
<1>4. Resting(AfterPush(t)) \in Tasks
  BY DEF Resting, AfterPush, Tasks, NoState, SyncStates
<1>5. task' \in [Devices -> [PushTasks -> Tasks]]
  <2>1. PICK x \in Tasks : task' = [task EXCEPT ![d][t] = x]
    BY <1>3, <1>4 DEF Wake, todo
  <2>2. QED
    BY <2>1 DEF TypeOK
<1>6. TransportTypeOK(Message)'
  BY DEF TypeOK, TransportTypeOK, Wake, transportVars
<1>7. QED
  BY <1>5, <1>6 DEF TypeOK, Wake, storeVars, envVars, history

LEMMA TypePushSend ==
    ASSUME TypeOK, NEW d \in Devices, NEW t \in PushTasks, NEW e \in Devices,
           NEW c \in Conns, PushSend(d, t, e, c)
    PROVE  TypeOK'
<1>1. task[d][t] \in Tasks
  BY DEF TypeOK
<1>2. [type |-> "request", state |-> task[d][t].state] \in Message
  BY <1>1, RequestType DEF Tasks
<1>3. TransportTypeOK(Message)'
  BY <1>2, BroadcastSendType DEF TypeOK, PushSend
<1>4. Resting(AfterPush(t)) \in Tasks
  BY DEF Resting, AfterPush, Tasks, NoState, SyncStates
<1>5. [task[d][t] EXCEPT !.todo = task[d][t].todo \ {<<e, c>>}] \in Tasks
  BY <1>1 DEF Tasks
<1>6. task' \in [Devices -> [PushTasks -> Tasks]]
  <2>1. \/ task' = [task EXCEPT ![d][t] = Resting(AfterPush(t))]
        \/ task' = [task EXCEPT ![d][t].todo = task[d][t].todo \ {<<e, c>>}]
    BY DEF PushSend
  <2>2. CASE task' = [task EXCEPT ![d][t] = Resting(AfterPush(t))]
    BY <1>4, <2>2 DEF TypeOK
  <2>3. CASE task' = [task EXCEPT ![d][t].todo = task[d][t].todo \ {<<e, c>>}]
    <3>1. [task[d] EXCEPT ![t].todo = task[d][t].todo \ {<<e, c>>}] \in [PushTasks -> Tasks]
      BY <1>5 DEF TypeOK
    <3>2. QED
      BY <2>3, <3>1 DEF TypeOK
  <2>4. QED
    BY <2>1, <2>2, <2>3
<1>7. QED
  BY <1>3, <1>6 DEF TypeOK, PushSend, storeVars, envVars, history

LEMMA TypeAnnounce ==
    ASSUME TypeOK, NEW d \in Devices, NEW c \in Conns, HandleAnnounce(d, c)
    PROVE  TypeOK'
<1>1. TransportTypeOK(Message)'
  BY ConsumedType, DispatchType DEF TypeOK, HandleAnnounce
<1>2. QED
  BY <1>1 DEF TypeOK, HandleAnnounce, storeVars, envVars, history

LEMMA TypeRequest ==
    ASSUME TypeOK, NEW d \in Devices, NEW c \in Conns, HandleRequest(d, c)
    PROVE  TypeOK'
<1> DEFINE m == Head(inbox[c][d])
           reply == [type |-> "response",
                     diff |-> DiffOf(registers[d], logs[d], Time(d), m.state),
                     state |-> SyncStateOf(registers[d], logs[d], Time(d))]
<1>1. Dispatch(d, c) /\ m.type = "request" /\ inbox' = Sent(Consumed(c, d), c, d, reply)
  BY DEF HandleRequest
<1>2. m.state \in SyncStates
  BY <1>1, DispatchedMessage
<1>3. registers[d] \in Registers /\ logs[d] \in Logs
  BY DEF TypeOK, Registers, Logs
<1>4. DiffOf(registers[d], logs[d], Time(d), m.state) \in Diffs
  BY <1>2, <1>3, DiffType
<1>5. reply \in Message
  BY <1>4, RequestType DEF Message
<1> HIDE DEF reply
<1>6. inbox' \in Inboxes(Message)
  BY <1>1, <1>5, ConsumedType, SentType DEF TypeOK
<1>7. TransportTypeOK(Message)'
  BY <1>1, <1>6, DispatchType DEF TypeOK
<1>8. QED
  BY <1>7 DEF TypeOK, HandleRequest, storeVars, envVars, history

LEMMA TypeResponse ==
    ASSUME TypeOK, NEW d \in Devices, NEW c \in Conns, HandleResponse(d, c)
    PROVE  TypeOK'
<1> DEFINE m == Head(inbox[c][d])
           ours == DiffOf(registers'[d], logs'[d], Time(d), m.state)
           update == [type |-> "update", diff |-> ours]
<1>1. /\ Dispatch(d, c) /\ m.type = "response" /\ ApplyDiff(d, m.diff)
      /\ inbox' = Consumed(c, d) \/ inbox' = Sent(Consumed(c, d), c, d, update)
  BY DEF HandleResponse
<1>2. m.state \in SyncStates /\ m.diff \in Diffs
  BY <1>1, DispatchedMessage
<1> HIDE DEF m
<1>3. /\ clock' \in [Devices -> Nat]
      /\ registers' \in [Devices -> Registers]
      /\ logs' \in [Devices -> Logs]
      /\ disk' \in [Devices -> Memory \cup {Torn}]
      /\ task' \in [Devices -> [PushTasks -> Tasks]]
  BY <1>1, <1>2, ApplyDiffType
<1>4. ours \in Diffs
  <2>1. registers'[d] \in Registers /\ logs'[d] \in Logs
    BY <1>3
  <2>2. QED
    BY <1>2, <2>1, DiffType
<1> HIDE DEF ours
<1>5. update \in Message
  BY <1>4 DEF Message
<1> HIDE DEF update
<1>6. inbox' \in Inboxes(Message)
  BY <1>1, <1>5, ConsumedType, SentType DEF TypeOK
<1>7. TransportTypeOK(Message)'
  BY <1>1, <1>6, DispatchType DEF TypeOK
<1>8. QED
  BY <1>3, <1>7 DEF TypeOK, HandleResponse, envVars, history, Registers, Logs

LEMMA TypeUpdate ==
    ASSUME TypeOK, NEW d \in Devices, NEW c \in Conns, HandleUpdate(d, c)
    PROVE  TypeOK'
<1> DEFINE m == Head(inbox[c][d])
<1>1. Dispatch(d, c) /\ m.type = "update" /\ ApplyDiff(d, m.diff) /\ inbox' = Consumed(c, d)
  BY DEF HandleUpdate
<1>2. m.diff \in Diffs
  BY <1>1, DispatchedMessage
<1> HIDE DEF m
<1>3. /\ clock' \in [Devices -> Nat]
      /\ registers' \in [Devices -> Registers]
      /\ logs' \in [Devices -> Logs]
      /\ disk' \in [Devices -> Memory \cup {Torn}]
      /\ task' \in [Devices -> [PushTasks -> Tasks]]
  BY <1>1, <1>2, ApplyDiffType
<1>4. TransportTypeOK(Message)'
  BY <1>1, ConsumedType, DispatchType DEF TypeOK
<1>5. QED
  BY <1>3, <1>4 DEF TypeOK, HandleUpdate, envVars, history, Registers, Logs

LEMMA TypeDropConn ==
    ASSUME TypeOK, NEW c \in Conns, DropConn(c)
    PROVE  TypeOK'
<1>1. TransportTypeOK(Message)'
  BY DropType DEF TypeOK, DropConn
<1>2. QED
  BY <1>1 DEF TypeOK, DropConn, storeVars, envVars, history

LEMMA TypeReceiveLoopEnds ==
    ASSUME TypeOK, NEW d \in Devices, NEW c \in Conns, ReceiveLoopEnds(d, c)
    PROVE  TypeOK'
<1>1. TransportTypeOK(Message)'
  BY LoopEndsType DEF TypeOK, ReceiveLoopEnds
<1>2. QED
  BY <1>1 DEF TypeOK, ReceiveLoopEnds, storeVars, envVars, history

LEMMA TypeStartFrom ==
    ASSUME TypeOK, NEW d \in Devices, NEW file \in Memory \cup {Torn}, StartFrom(d, file)
    PROVE  TypeOK'
<1>1. TransportTypeOK(Message)'
  BY ResetType DEF TypeOK, StartFrom
<1>2. Loaded(file) \in Memory
  BY LoadedType
<1>3. clock' \in [Devices -> Nat]
  BY <1>2 DEF TypeOK, StartFrom, Memory
<1>4. Loaded(file).registers \in Registers /\ Loaded(file).logs \in Logs
  BY <1>2 DEF Memory, Registers, Logs
<1>5. registers' \in [Devices -> Registers] /\ logs' \in [Devices -> Logs]
  BY <1>4 DEF TypeOK, StartFrom, Registers, Logs
<1>6. disk' \in [Devices -> Memory \cup {Torn}]
  BY DEF TypeOK, StartFrom
<1>7. task' \in [Devices -> [PushTasks -> Tasks]]
  <2>1. \A t : Resting(AfterPush(t)) \in Tasks
    BY DEF Resting, AfterPush, Tasks, NoState, SyncStates
  <2>2. QED
    BY <2>1 DEF TypeOK, StartFrom
<1>8. QED
  BY <1>1, <1>3, <1>5, <1>6, <1>7 DEF TypeOK, StartFrom, history, Registers, Logs

LEMMA TypeTick ==
    ASSUME TypeOK, Tick
    PROVE  TypeOK'
<1>1. TransportTypeOK(Message)'
  BY DEF TypeOK, TransportTypeOK, Tick, transportVars
<1>2. QED
  BY <1>1 DEF TypeOK, Tick, storeVars, history

LEMMA TypeStutter ==
    ASSUME TypeOK, UNCHANGED vars
    PROVE  TypeOK'
<1>1. TransportTypeOK(Message)'
  BY DEF TypeOK, TransportTypeOK, vars, transportVars
<1>2. QED
  BY <1>1 DEF TypeOK, vars, storeVars, envVars, history

(* The steps of the system, one by one: a fact about [Next]_vars is shown by   *)
(* showing it of each.                                                         *)
LEMMA NextCases ==
    ASSUME [Next]_vars
    PROVE  \/ \E d \in Devices, k \in RegKeys, v \in Values, ttl \in TTLs \cup {Unset} :
                 Set(d, k, v, ttl)
           \/ \E d \in Devices, k \in RegKeys : Get(d, k)
           \/ \E d \in Devices, l \in LogKeys, x \in Contents :
                 d \in Writers[l] /\ LogAppend(d, l, x)
           \/ \E d \in Devices : Restart(d) \/ RestartTorn(d)
           \/ \E d \in Devices, t \in PushTasks : Wake(d, t)
           \/ \E d \in Devices, t \in PushTasks, e \in Devices, c \in Conns :
                 PushSend(d, t, e, c)
           \/ \E d \in Devices, e \in Devices, c \in Conns : ConnectToPeer(d, e, c)
           \/ \E d \in Devices, c \in Conns :
                 \/ SyncWithPeer(d, c) \/ ReceiveLoopEnds(d, c)
                 \/ HandleAnnounce(d, c) \/ HandleRequest(d, c)
                 \/ HandleResponse(d, c) \/ HandleUpdate(d, c)
           \/ \E c \in Conns : DropConn(c)
           \/ Tick
           \/ UNCHANGED vars
<1>1. \A d \in Devices : Local(d) =>
         \/ \E k \in RegKeys, v \in Values, ttl \in TTLs \cup {Unset} : Set(d, k, v, ttl)
         \/ \E k \in RegKeys : Get(d, k)
         \/ \E l \in LogKeys, x \in Contents : d \in Writers[l] /\ LogAppend(d, l, x)
  BY MemorySyncAssumption DEF Local, Delete
<1>2. Openers \subseteq Devices
  BY MemorySyncAssumption
<1>3. QED
  BY <1>1, <1>2 DEF Next, Push, Receive

LEMMA TypeNext == TypeOK /\ [Next]_vars => TypeOK'
<1> SUFFICES ASSUME TypeOK, [Next]_vars PROVE TypeOK'
  OBVIOUS
<1>1. \A d \in Devices : disk[d] \in Memory \cup {Torn}
  BY DEF TypeOK
<1>2. ASSUME NEW d \in Devices, Restart(d) \/ RestartTorn(d) PROVE TypeOK'
  BY <1>1, <1>2, TypeStartFrom DEF Restart, RestartTorn
<1>3. QED
  BY <1>2, NextCases, TypeSet, TypeGet, TypeLogAppend, TypeWake, TypePushSend,
     TypeConnect, TypeSyncWithPeer, TypeReceiveLoopEnds, TypeAnnounce, TypeRequest,
     TypeResponse, TypeUpdate, TypeDropConn, TypeTick, TypeStutter

(* MemoryStore, its file, the push tasks and every message of the protocol     *)
(* keep their shape through any sequence of calls, messages and crashes.       *)
THEOREM TypeCorrect == Spec => []TypeOK
<1>1. QED
  BY TypeInit, TypeNext, PTL DEF Spec

-------------------------------------------------------------------------------
(* The stores and their files *)

(* The conjuncts of SyncInv about clocks, registers and files, of one device. *)
StoreOK(d) ==
    LET file == Loaded(disk[d])
    IN  /\ \A k \in RegKeys : /\ registers[d][k] # NoEntry => registers[d][k].ts <= clock[d]
                              /\ file.registers[k] # NoEntry => file.registers[k].ts <= file.clock
                              /\ registers[d][k] # NoEntry => file.registers[k] = registers[d][k]
        /\ \A l \in LogKeys : file.logs[l] = logs[d][l]

StampsOK(d) ==
    \A x \in written : x.entry.device = d => /\ x.entry.ts <= clock[d]
                                            /\ x.entry.ts <= Loaded(disk[d]).clock

OnlyChanges(d) ==
    \A e \in Devices \ {d} : /\ clock'[e] = clock[e]
                             /\ registers'[e] = registers[e]
                             /\ logs'[e] = logs[e]
                             /\ disk'[e] = disk[e]

LEMMA StoreCases ==
    ASSUME TypeOK, [Next]_vars
    PROVE  \/ UNCHANGED <<clock, registers, logs, disk, written>>
           \/ \E d \in Devices, k \in RegKeys, v \in Values, ttl \in TTLs \cup {Unset} :
                 Set(d, k, v, ttl)
           \/ \E d \in Devices, k \in RegKeys : Get(d, k)
           \/ \E d \in Devices, l \in LogKeys, x \in Contents : LogAppend(d, l, x)
           \/ \E d \in Devices : Restart(d) \/ RestartTorn(d)
           \/ \E d \in Devices, c \in Conns : HandleResponse(d, c) \/ HandleUpdate(d, c)
<1>1. \A d \in Devices, t \in PushTasks : Wake(d, t) =>
         UNCHANGED <<clock, registers, logs, disk, written>>
  BY DEF Wake, storeVars, history
<1>2. \A d \in Devices, t \in PushTasks, e \in Devices, c \in Conns : PushSend(d, t, e, c) =>
         UNCHANGED <<clock, registers, logs, disk, written>>
  BY DEF PushSend, storeVars, history
<1>3. \A d \in Devices, e \in Devices, c \in Conns : ConnectToPeer(d, e, c) =>
         UNCHANGED <<clock, registers, logs, disk, written>>
  BY DEF ConnectToPeer, storeVars, history
<1>4. \A d \in Devices, c \in Conns :
         SyncWithPeer(d, c) \/ ReceiveLoopEnds(d, c) \/ HandleAnnounce(d, c)
         \/ HandleRequest(d, c) \/ DropConn(c)
            => UNCHANGED <<clock, registers, logs, disk, written>>
  BY DEF SyncWithPeer, ReceiveLoopEnds, HandleAnnounce, HandleRequest, DropConn,
         storeVars, history
<1>5. Tick \/ UNCHANGED vars => UNCHANGED <<clock, registers, logs, disk, written>>
  BY DEF Tick, vars, storeVars, history
<1>6. \A c \in Conns : DropConn(c) => UNCHANGED <<clock, registers, logs, disk, written>>
  BY DEF DropConn, storeVars, history
<1>7. QED
  BY <1>1, <1>2, <1>3, <1>4, <1>5, <1>6, NextCases

(* A save leaves in the file what the step leaves in memory. *)
LEMMA SavedIsLoaded ==
    ASSUME TypeOK, NEW d \in Devices, NEW n \in Nat, Save(d, n),
           registers' \in [Devices -> Registers], logs' \in [Devices -> Logs]
    PROVE  /\ Loaded(disk'[d]).clock = n
           /\ Loaded(disk'[d]).registers = registers'[d]
           /\ Loaded(disk'[d]).logs = logs'[d]
           /\ \A e \in Devices \ {d} : disk'[e] = disk[e]
<1> DEFINE m == [clock |-> n, registers |-> registers'[d], logs |-> logs'[d]]
<1>1. disk'[d] = m /\ disk'[d] # Torn /\ \A e \in Devices \ {d} : disk'[e] = disk[e]
  BY SaveType
<1>2. Loaded(disk'[d]) = m
  BY <1>1, Zenon DEF Loaded
<1>3. m.clock = n /\ m.registers = registers'[d] /\ m.logs = logs'[d]
  OBVIOUS
<1> HIDE DEF m
<1>4. QED
  BY <1>1, <1>2, <1>3

LEMMA SetStore ==
    ASSUME TypeOK, TypeOK', NEW d \in Devices, NEW k \in RegKeys, NEW v \in Values,
           NEW ttl \in TTLs \cup {Unset}, Set(d, k, v, ttl), StoreOK(d)
    PROVE  /\ OnlyChanges(d)
           /\ StoreOK(d)'
           /\ StampsOK(d) => StampsOK(d)'
           /\ written \subseteq written'
           /\ \A x \in written' \ written : x.entry.device = d
<1> DEFINE e == [value |-> v, ts |-> clock[d] + 1, device |-> d, wall |-> Time(d),
                 ttl |-> IF ttl = Unset THEN DefaultTTL[k] ELSE ttl]
<1>1. /\ clock' = [clock EXCEPT ![d] = @ + 1]
      /\ e.ts = clock[d] + 1 /\ e.device = d
  BY DEF Set
<1>2. /\ clock[d] \in Nat /\ clock'[d] = clock[d] + 1
      /\ \A f \in Devices \ {d} : clock'[f] = clock[f]
  BY <1>1 DEF TypeOK
<1>3. \A x \in written : x.entry.ts \in Nat
  BY DEF TypeOK, Entry
<1>4. registers[d] \in Registers /\ Loaded(disk[d]).clock \in Nat
      /\ \A j \in RegKeys : registers[d][j] # NoEntry => registers[d][j].ts \in Nat
  <2>1. disk[d] \in Memory \cup {Torn} /\ registers[d] \in Registers
    BY DEF TypeOK, Registers
  <2>2. Loaded(disk[d]).clock \in Nat
    BY <2>1, LoadedType DEF Memory
  <2>3. QED
    BY <2>1, <2>2 DEF Registers, Entry
<1>5. CASE Accepts(registers[d][k], e)
  <2>1. /\ registers' = [registers EXCEPT ![d][k] = e]
        /\ UNCHANGED logs /\ Save(d, clock'[d])
        /\ written' = written \cup {[key |-> k, entry |-> e]}
    BY <1>5 DEF Set
  <2> HIDE DEF e
  <2>2. /\ registers'[d] = [registers[d] EXCEPT ![k] = e]
        /\ \A f \in Devices \ {d} : registers'[f] = registers[f]
    BY <2>1 DEF TypeOK
  <2>3. registers' \in [Devices -> Registers] /\ logs' \in [Devices -> Logs]
    BY DEF TypeOK, Registers, Logs
  <2>4. /\ Loaded(disk'[d]).clock = clock'[d]
        /\ Loaded(disk'[d]).registers = registers'[d]
        /\ Loaded(disk'[d]).logs = logs'[d]
        /\ \A f \in Devices \ {d} : disk'[f] = disk[f]
    <3>1. PICK n \in Nat : n = clock'[d]
      BY <1>2
    <3>2. Save(d, n)
      BY <2>1, <3>1
    <3>3. QED
      BY <2>3, <3>1, <3>2, SavedIsLoaded
  <2>5. \A j \in RegKeys : registers'[d][j] # NoEntry => registers'[d][j].ts <= clock'[d]
    <3>1. registers'[d][k] = e
      BY <1>4, <2>2 DEF Registers
    <3>2. \A j \in RegKeys \ {k} : registers'[d][j] = registers[d][j]
      BY <1>4, <2>2 DEF Registers
    <3>3. \A j \in RegKeys : registers[d][j] # NoEntry => registers[d][j].ts <= clock[d]
      BY DEF StoreOK
    <3>4. QED
      BY <1>1, <1>2, <1>4, <3>1, <3>2, <3>3
  <2>6. StoreOK(d)'
    BY <2>4, <2>5 DEF StoreOK
  <2>7. StampsOK(d) => StampsOK(d)'
    BY <1>1, <1>2, <1>3, <2>1, <2>4 DEF StampsOK
  <2>8. QED
    BY <1>1, <1>2, <2>1, <2>2, <2>4, <2>6, <2>7 DEF OnlyChanges
<1>6. CASE ~Accepts(registers[d][k], e)
  <2>1. UNCHANGED <<registers, logs, disk, written>>
    BY <1>6 DEF Set
  <2>2. StoreOK(d)'
    BY <1>2, <1>4, <2>1 DEF StoreOK
  <2>3. StampsOK(d) => StampsOK(d)'
    BY <1>2, <1>3, <2>1 DEF StampsOK
  <2>4. QED
    BY <1>2, <2>1, <2>2, <2>3 DEF OnlyChanges
<1>7. QED
  BY <1>5, <1>6

LEMMA GetStore ==
    ASSUME TypeOK, NEW d \in Devices, NEW k \in RegKeys, Get(d, k), StoreOK(d)
    PROVE  OnlyChanges(d) /\ StoreOK(d)' /\ (StampsOK(d) => StampsOK(d)')
<1>1. /\ registers' = [registers EXCEPT ![d][k] = NoEntry]
      /\ UNCHANGED <<clock, logs, disk, written>>
  BY DEF Get, history
<1>2. /\ registers'[d] = [registers[d] EXCEPT ![k] = NoEntry]
      /\ \A e \in Devices \ {d} : registers'[e] = registers[e]
  BY <1>1 DEF TypeOK
<1>3. \A j \in RegKeys : registers'[d][j] # NoEntry => registers'[d][j] = registers[d][j]
  BY <1>2 DEF TypeOK
<1>4. StoreOK(d)'
  BY <1>1, <1>3 DEF StoreOK
<1>5. QED
  BY <1>1, <1>2, <1>4 DEF OnlyChanges, StampsOK

LEMMA LogAppendStore ==
    ASSUME TypeOK, TypeOK', NEW d \in Devices, NEW l \in LogKeys, NEW x \in Contents,
           LogAppend(d, l, x), StoreOK(d)
    PROVE  OnlyChanges(d) /\ StoreOK(d)' /\ (StampsOK(d) => StampsOK(d)')
<1>1. /\ logs' = [logs EXCEPT ![d][l] = Appended(@, x, d, Time(d))]
      /\ UNCHANGED <<clock, registers, written>>
      /\ Save(d, clock[d])
  BY DEF LogAppend
<1>2. \A e \in Devices \ {d} : logs'[e] = logs[e]
  BY <1>1 DEF TypeOK
<1>3. registers' \in [Devices -> Registers] /\ logs' \in [Devices -> Logs] /\ clock[d] \in Nat
  BY DEF TypeOK, Registers, Logs
<1>4. /\ Loaded(disk'[d]).clock = clock[d]
      /\ Loaded(disk'[d]).registers = registers'[d]
      /\ Loaded(disk'[d]).logs = logs'[d]
      /\ \A e \in Devices \ {d} : disk'[e] = disk[e]
  BY <1>1, <1>3, SavedIsLoaded
<1>5. StoreOK(d)'
  BY <1>1, <1>4 DEF StoreOK
<1>6. QED
  BY <1>1, <1>2, <1>4, <1>5 DEF OnlyChanges, StampsOK

LEMMA RestartStore ==
    ASSUME TypeOK, NEW d \in Devices, Restart(d) \/ RestartTorn(d), StoreOK(d)
    PROVE  /\ OnlyChanges(d) /\ StoreOK(d)' /\ UNCHANGED written
           /\ ~TornWrites /\ StampsOK(d) => StampsOK(d)'
           /\ registers'[d] = Loaded(disk'[d]).registers
           /\ disk'[d] = disk[d] \/ disk'[d] = Torn
<1>1. PICK file \in {disk[d], Torn} : StartFrom(d, file) /\ (file = disk[d] \/ TornWrites)
  BY DEF Restart, RestartTorn
<1>2. /\ disk'[d] = file
      /\ clock'[d] = Loaded(file).clock
      /\ registers'[d] = Loaded(file).registers
      /\ logs'[d] = Loaded(file).logs
      /\ UNCHANGED written
      /\ OnlyChanges(d)
  BY <1>1 DEF StartFrom, TypeOK, OnlyChanges, history
<1>3. \A k \in RegKeys : Loaded(file).registers[k] # NoEntry
         => Loaded(file).registers[k].ts <= Loaded(file).clock
  BY <1>1 DEF StoreOK, Loaded, EmptyMemory
<1>4. StoreOK(d)'
  BY <1>2, <1>3 DEF StoreOK
<1>5. ~TornWrites /\ StampsOK(d) => StampsOK(d)'
  BY <1>1, <1>2 DEF StampsOK
<1>6. QED
  BY <1>1, <1>2, <1>4, <1>5

LEMMA ApplyDiffStore ==
    ASSUME TypeOK, NEW d \in Devices, NEW diff \in Diffs, ApplyDiff(d, diff),
           UNCHANGED written, StoreOK(d)
    PROVE  /\ OnlyChanges(d) /\ StoreOK(d)' /\ (StampsOK(d) => StampsOK(d)')
           /\ registers'[d] = MergedRegisters(d, diff)
           /\ Loaded(disk'[d]).registers \in {Loaded(disk[d]).registers, registers'[d]}
<1> DEFINE regs == MergedRegisters(d, diff)
<1>1. /\ registers' = [registers EXCEPT ![d] = regs]
      /\ logs' = [logs EXCEPT ![d] = MergedLogs(d, diff)]
  BY ApplyDiffEffect
<1>2. PICK final \in Nat : /\ clock' = [clock EXCEPT ![d] = final]
                          /\ final >= clock[d]
                          /\ \A k \in SentKeys(diff) : diff.registers[k].ts < final
  BY ApplyDiffEffect
<1>3. registers' \in [Devices -> Registers] /\ logs' \in [Devices -> Logs]
  BY ApplyDiffType
<1>4. /\ registers'[d] = regs /\ logs'[d] = MergedLogs(d, diff)
      /\ clock'[d] = final /\ clock[d] \in Nat
      /\ \A e \in Devices \ {d} : registers'[e] = registers[e] /\ logs'[e] = logs[e]
                                   /\ clock'[e] = clock[e]
  BY <1>1, <1>2 DEF TypeOK
<1>5. \A k \in RegKeys :
         \/ regs[k] = registers[d][k]
         \/ /\ k \in SentKeys(diff)
            /\ Accepts(registers[d][k], diff.registers[k])
            /\ regs[k] = diff.registers[k]
  BY DEF MergedRegisters, Merged
<1>6. \A k \in RegKeys : registers[d][k] # NoEntry =>
         registers[d][k].ts \in Nat /\ registers[d][k].ts <= clock[d]
  BY DEF StoreOK, TypeOK, Entry
<1>7. \A k \in SentKeys(diff) : diff.registers[k].ts \in Nat
  BY DEF SentKeys, Diffs, Entry
<1>8. \A x \in written : x.entry.ts \in Nat
  BY DEF TypeOK, Entry
<1> HIDE DEF regs
<1>9. \A k \in RegKeys : regs[k] # NoEntry => regs[k].ts <= final
  BY <1>2, <1>4, <1>5, <1>6, <1>7
<1>10. CASE \E saved \in Nat : /\ Save(d, saved)
                               /\ saved >= clock[d]
                               /\ \A k \in SentKeys(diff) :
                                     Accepts(registers[d][k], diff.registers[k])
                                        => diff.registers[k].ts < saved
  <2>1. PICK saved \in Nat : /\ Save(d, saved)
                            /\ saved >= clock[d]
                            /\ \A k \in SentKeys(diff) :
                                  Accepts(registers[d][k], diff.registers[k])
                                     => diff.registers[k].ts < saved
    BY <1>10
  <2>2. /\ Loaded(disk'[d]).clock = saved
        /\ Loaded(disk'[d]).registers = registers'[d]
        /\ Loaded(disk'[d]).logs = logs'[d]
        /\ \A e \in Devices \ {d} : disk'[e] = disk[e]
    BY <1>3, <2>1, SavedIsLoaded
  <2>3. \A k \in RegKeys : regs[k] # NoEntry => regs[k].ts <= saved
    BY <1>4, <1>5, <1>6, <1>7, <2>1
  <2>4. StoreOK(d)'
    BY <1>4, <1>9, <2>2, <2>3 DEF StoreOK
  <2>5. StampsOK(d) => StampsOK(d)'
    BY <1>2, <1>4, <1>8, <2>1, <2>2 DEF StampsOK
  <2>6. QED
    BY <1>4, <2>2, <2>4, <2>5 DEF OnlyChanges, regs
<1>11. CASE UNCHANGED disk /\ regs = registers[d] /\ MergedLogs(d, diff) = logs[d]
  <2>1. StoreOK(d)'
    BY <1>4, <1>9, <1>11 DEF StoreOK
  <2>2. StampsOK(d) => StampsOK(d)'
    BY <1>2, <1>4, <1>8, <1>11 DEF StampsOK
  <2>3. QED
    BY <1>4, <1>11, <2>1, <2>2 DEF OnlyChanges, regs
<1>12. QED
  BY <1>10, <1>11, ApplyDiffEffect DEF regs

-------------------------------------------------------------------------------
(* Nothing is invented *)

KnownMessages == {m \in Message : KnownMessage(m)}

KnownIn(regs, W) ==
    \A k \in RegKeys : regs[k] # NoEntry => [key |-> k, entry |-> regs[k]] \in W

LEMMA KnownGrows ==
    ASSUME written \subseteq written'
    PROVE  /\ \A regs : KnownIn(regs, written) => KnownIn(regs, written')
           /\ \A m : KnownMessage(m) => KnownMessage(m)'
  BY DEF Known, KnownIn, KnownMessage

LEMMA KnownDiff ==
    ASSUME NEW regs, NEW lgs, NEW time, NEW state, Known(regs)
    PROVE  Known(DiffOf(regs, lgs, time, state).registers)
  BY DEF Known, DiffOf

LEMMA KnownMerge ==
    ASSUME NEW d \in Devices, NEW diff, Known(registers[d]), Known(diff.registers)
    PROVE  Known(MergedRegisters(d, diff))
  BY DEF Known, MergedRegisters, Merged, SentKeys

(* The messages under way are known: the transport's own type invariant, for   *)
(* the set of known messages. *)
LEMMA InboxesKnown ==
    ASSUME TypeOK, NothingInvented, NEW S, S = KnownMessages
    PROVE  TransportTypeOK(S)
<1>1. \A c \in Conns, d \in Devices : inbox[c][d] \in Seq(S)
  <2> TAKE c \in Conns, d \in Devices
  <2>1. inbox[c][d] \in Seq(Message)
    BY DEF TypeOK, TransportTypeOK
  <2>2. \A i \in 1..Len(inbox[c][d]) : inbox[c][d][i] \in S
    BY <2>1 DEF NothingInvented, KnownMessages
  <2>3. QED
    BY <2>1, <2>2
<1>2. inbox \in [Conns -> [Devices -> Seq(S)]]
  BY <1>1 DEF TypeOK, TransportTypeOK
<1>3. QED
  BY <1>2 DEF TypeOK, TransportTypeOK

LEMMA KnownDispatched ==
    ASSUME TypeOK, NothingInvented, NEW d \in Devices, NEW c \in Conns, Dispatch(d, c)
    PROVE  LET m == Head(inbox[c][d])
           IN  m.type \in {"response", "update"} => Known(m.diff.registers)
<1>1. PICK S : S = KnownMessages
  OBVIOUS
<1>2. Head(inbox[c][d]) \in S
  BY <1>1, InboxesKnown, ConsumedType
<1>3. QED
  BY <1>1, <1>2 DEF KnownMessages, KnownMessage

(* What a step puts under way carries no diff, one of the store as it is, or   *)
(* one of the store as a step leaves it that creates nothing.                  *)
LEMMA NextInboxOf ==
    ASSUME TypeOK, TypeOK', [Next]_vars, NEW S, TransportTypeOK(S),
           \A m \in Message :
              m.type = "response" =>
                 \A d \in Devices, state \in SyncStates :
                    m.diff = DiffOf(registers[d], logs[d], Time(d), state) => m \in S,
           UNCHANGED history =>
              \A m \in Message :
                 m.type = "update" =>
                    \A d \in Devices, state \in SyncStates :
                       m.diff = DiffOf(registers'[d], logs'[d], Time(d), state) => m \in S,
           \A m \in Message : m.type \in {"announce", "request"} => m \in S
    PROVE  inbox' \in Inboxes(S)
<1>1. TransportTypeOK(S) /\ inbox \in Inboxes(S)
  BY DEF TransportTypeOK, Inboxes
<1>2. \A m \in Message : m.type \in {"announce", "request"} => m \in S
  OBVIOUS
<1>3. CASE UNCHANGED inbox
  BY <1>1, <1>3
<1>4. ASSUME NEW d \in Devices, NEW e \in Devices, NEW c \in Conns, ConnectToPeer(d, e, c)
      PROVE  inbox' \in Inboxes(S)
  <2>1. <<[type |-> "announce"]>> \in Seq(S)
    BY <1>2 DEF Message
  <2>2. TransportTypeOK(S)'
    BY <1>1, <1>4, <2>1, ConnectType DEF ConnectToPeer
  <2>3. QED
    BY <2>2 DEF TransportTypeOK, Inboxes
<1>5. ASSUME NEW d \in Devices, NEW c \in Conns, SyncWithPeer(d, c)
      PROVE  inbox' \in Inboxes(S)
  <2> DEFINE m == [type |-> "request", state |-> SyncStateOf(registers[d], logs[d], Time(d))]
  <2>1. m \in S
    BY <1>2, RequestType
  <2>2. inbox' = Sent(inbox, c, d, m) \/ inbox' = inbox
    BY <1>5 DEF SyncWithPeer
  <2> HIDE DEF m
  <2>3. QED
    BY <1>1, <2>1, <2>2, SentType
<1>6. ASSUME NEW d \in Devices, NEW t \in PushTasks, NEW e \in Devices, NEW c \in Conns,
             PushSend(d, t, e, c)
      PROVE  inbox' \in Inboxes(S)
  <2> DEFINE m == [type |-> "request", state |-> task[d][t].state]
  <2>1. task[d][t].state \in SyncStates
    BY DEF TypeOK, Tasks
  <2>2. m \in S
    BY <1>2, <2>1, RequestType
  <2>3. inbox' = Sent(inbox, c, d, m) \/ inbox' = inbox
    BY <1>6 DEF PushSend, BroadcastSend
  <2> HIDE DEF m
  <2>4. QED
    BY <1>1, <2>2, <2>3, SentType
<1>7. ASSUME NEW d \in Devices, NEW c \in Conns, HandleAnnounce(d, c) \/ HandleUpdate(d, c)
      PROVE  inbox' \in Inboxes(S)
  <2>1. Dispatch(d, c) /\ inbox' = Consumed(c, d)
    BY <1>7 DEF HandleAnnounce, HandleUpdate
  <2>2. QED
    BY <1>1, <2>1, ConsumedType
<1>8. ASSUME NEW d \in Devices, NEW c \in Conns, HandleRequest(d, c)
      PROVE  inbox' \in Inboxes(S)
  <2> DEFINE m == Head(inbox[c][d])
             diff == DiffOf(registers[d], logs[d], Time(d), m.state)
             state == SyncStateOf(registers[d], logs[d], Time(d))
             reply == [type |-> "response", diff |-> diff, state |-> state]
  <2>1. Dispatch(d, c) /\ m.type = "request" /\ inbox' = Sent(Consumed(c, d), c, d, reply)
    BY <1>8 DEF HandleRequest
  <2>2. m.state \in SyncStates
    BY <2>1, DispatchedMessage
  <2>3. registers[d] \in Registers /\ logs[d] \in Logs
    BY DEF TypeOK, Registers, Logs
  <2>4. diff \in Diffs /\ state \in SyncStates
    BY <2>2, <2>3, DiffType, RequestType
  <2>5. reply \in Message /\ reply.type = "response" /\ reply.diff = diff
    <3> HIDE DEF diff, state
    <3>1. QED
      BY <2>4 DEF Message
  <2>6. reply \in S
    BY <2>2, <2>5
  <2> HIDE DEF diff, state
  <2> HIDE DEF reply
  <2>7. Consumed(c, d) \in Inboxes(S)
    BY <1>1, <2>1, ConsumedType
  <2>8. QED
    BY <2>1, <2>6, <2>7, SentType
<1>9. ASSUME NEW d \in Devices, NEW c \in Conns, HandleResponse(d, c)
      PROVE  inbox' \in Inboxes(S)
  <2> DEFINE m == Head(inbox[c][d])
  <2>1. PICK ours : ours = DiffOf(registers'[d], logs'[d], Time(d), m.state)
    OBVIOUS
  <2> DEFINE update == [type |-> "update", diff |-> ours]
  <2>2. /\ Dispatch(d, c) /\ m.type = "response" /\ UNCHANGED history
        /\ inbox' = Consumed(c, d) \/ inbox' = Sent(Consumed(c, d), c, d, update)
    BY <1>9, <2>1 DEF HandleResponse
  <2>3. m.state \in SyncStates
    BY <2>2, DispatchedMessage
  <2>4. PICK regs, lgs : regs = registers'[d] /\ lgs = logs'[d]
    OBVIOUS
  <2>5. regs \in Registers /\ lgs \in Logs
    BY <2>4 DEF TypeOK, Registers, Logs
  <2>6. ours \in Diffs
    BY <2>1, <2>3, <2>4, <2>5, DiffType
  <2>7. update \in Message /\ update.type = "update" /\ update.diff = ours
    BY <2>6 DEF Message
  <2>8. update \in S
    BY <2>1, <2>2, <2>3, <2>7
  <2> HIDE DEF update
  <2>9. Consumed(c, d) \in Inboxes(S)
    BY <1>1, <2>2, ConsumedType
  <2>10. QED
    BY <2>2, <2>8, <2>9, SentType
<1>10. ASSUME NEW d \in Devices, NEW c \in Conns, ReceiveLoopEnds(d, c)
       PROVE  inbox' \in Inboxes(S)
  <2>1. TransportTypeOK(S)'
    BY <1>1, <1>10, LoopEndsType DEF ReceiveLoopEnds
  <2>2. QED
    BY <2>1 DEF TransportTypeOK, Inboxes
<1>11. ASSUME NEW d \in Devices, Restart(d) \/ RestartTorn(d)
       PROVE  inbox' \in Inboxes(S)
  <2>1. TransportTypeOK(S)'
    BY <1>1, <1>11, ResetType DEF Restart, RestartTorn, StartFrom
  <2>2. QED
    BY <2>1 DEF TransportTypeOK, Inboxes
<1>12. \A d \in Devices, k \in RegKeys, v \in Values, ttl \in TTLs \cup {Unset} :
          Set(d, k, v, ttl) \/ Get(d, k) => UNCHANGED inbox
  BY DEF Set, Get, transportVars
<1>13. \A d \in Devices, l \in LogKeys, x \in Contents : LogAppend(d, l, x) => UNCHANGED inbox
  BY DEF LogAppend, transportVars
<1>14. \A d \in Devices, k \in RegKeys : Get(d, k) => UNCHANGED inbox
  BY DEF Get, transportVars
<1>15. \A d \in Devices, t \in PushTasks : Wake(d, t) => UNCHANGED inbox
  BY DEF Wake, transportVars
<1>16. \A c \in Conns : DropConn(c) => UNCHANGED inbox
  BY DEF DropConn, Drop
<1>17. Tick \/ UNCHANGED vars => UNCHANGED inbox
  BY DEF Tick, vars, transportVars
<1>18. QED
  BY <1>3, <1>4, <1>5, <1>6, <1>7, <1>8, <1>9, <1>10, <1>11, <1>12, <1>13, <1>14,
     <1>15, <1>16, <1>17, NextCases

(* What a step puts under way is known, if what it leaves in the registers is. *)
LEMMA NextInbox ==
    ASSUME TypeOK, TypeOK', NothingInvented, [Next]_vars, NEW S, S = KnownMessages,
           UNCHANGED written => \A d \in Devices : Known(registers'[d])
    PROVE  inbox' \in Inboxes(S)
<1>1. TransportTypeOK(S)
  BY InboxesKnown
<1>2. \A m \in Message : m.type \in {"announce", "request"} => m \in S
  BY DEF KnownMessages, KnownMessage
<1>3. ASSUME NEW m \in Message, NEW d \in Devices, NEW state \in SyncStates,
             m.diff = DiffOf(registers[d], logs[d], Time(d), state)
      PROVE  m \in S
  BY <1>3, KnownDiff DEF NothingInvented, KnownMessages, KnownMessage
<1>4. ASSUME UNCHANGED history, NEW m \in Message, NEW d \in Devices,
             NEW state \in SyncStates,
             m.diff = DiffOf(registers'[d], logs'[d], Time(d), state)
      PROVE  m \in S
  <2>1. PICK regs, lgs : regs = registers'[d] /\ lgs = logs'[d]
    OBVIOUS
  <2>2. Known(regs)
    BY <1>4, <2>1 DEF history
  <2>3. Known(m.diff.registers)
    BY <1>4, <2>1, <2>2, KnownDiff
  <2>4. QED
    BY <2>3 DEF KnownMessages, KnownMessage
<1>5. QED
  BY <1>1, <1>2, <1>3, <1>4, NextInboxOf

-------------------------------------------------------------------------------
(* The inductive invariant *)

LEMMA StoresAreOK ==
    ClockDominates /\ SavedClockDominates /\ SavedBeforeSeen <=> \A d \in Devices : StoreOK(d)
  BY DEF ClockDominates, SavedClockDominates, SavedBeforeSeen, StoreOK

LEMMA StampsAreOK ==
    ASSUME TypeOK
    PROVE  StampsOnRecord <=> \A d \in Devices : StampsOK(d)
<1>1. \A x \in written : x.entry.device \in Devices
  BY DEF TypeOK, Entry
<1>2. QED
  BY <1>1 DEF StampsOnRecord, StampsOK

(* What a step of one store does to what is known of it and of the others. *)
Preserved(d) ==
    /\ OnlyChanges(d)
    /\ StoreOK(d)'
    /\ ~TornWrites /\ StampsOK(d) => StampsOK(d)'
    /\ written \subseteq written'
    /\ \A x \in written' \ written : x.entry.device = d
    /\ KnownIn(registers[d], written) /\ KnownIn(Loaded(disk[d]).registers, written)
          => KnownIn(registers'[d], written') /\ KnownIn(Loaded(disk'[d]).registers, written')

LEMMA SetKnown ==
    ASSUME TypeOK, NEW d \in Devices, NEW k \in RegKeys, NEW v \in Values,
           NEW ttl \in TTLs \cup {Unset}, Set(d, k, v, ttl), KnownIn(registers[d], written)
    PROVE  KnownIn(registers'[d], written')
<1> DEFINE e == [value |-> v, ts |-> clock[d] + 1, device |-> d, wall |-> Time(d),
                 ttl |-> IF ttl = Unset THEN DefaultTTL[k] ELSE ttl]
<1>1. CASE Accepts(registers[d][k], e)
  <2>1. /\ registers' = [registers EXCEPT ![d][k] = e]
        /\ written' = written \cup {[key |-> k, entry |-> e]}
    BY <1>1 DEF Set
  <2> HIDE DEF e
  <2>2. registers'[d] = [registers[d] EXCEPT ![k] = e] /\ registers[d] \in Registers
    BY <2>1 DEF TypeOK, Registers
  <2>3. QED
    BY <2>1, <2>2 DEF KnownIn, Registers
<1>2. CASE ~Accepts(registers[d][k], e)
  BY <1>2 DEF Set, KnownIn
<1>3. QED
  BY <1>1, <1>2

LEMMA StorePreserved ==
    ASSUME TypeOK, TypeOK', NothingInvented, \A d \in Devices : StoreOK(d), [Next]_vars
    PROVE  UNCHANGED <<clock, registers, logs, disk, written>> \/ \E d \in Devices : Preserved(d)
<1>1. ASSUME NEW d \in Devices, NEW k \in RegKeys, NEW v \in Values,
             NEW ttl \in TTLs \cup {Unset}, Set(d, k, v, ttl)
      PROVE  Preserved(d)
  <2>1. Loaded(disk'[d]).registers \in {Loaded(disk[d]).registers, registers'[d]}
    <3>1. registers' \in [Devices -> Registers] /\ logs' \in [Devices -> Logs]
          /\ clock'[d] \in Nat
      BY DEF TypeOK, Registers, Logs
    <3>2. PICK n \in Nat : n = clock'[d]
      BY <3>1
    <3>3. UNCHANGED disk \/ Save(d, n)
      BY <1>1, <3>2 DEF Set
    <3>4. CASE Save(d, n)
      BY <3>1, <3>4, SavedIsLoaded
    <3>5. QED
      BY <3>3, <3>4
  <2>2. /\ OnlyChanges(d) /\ StoreOK(d)' /\ (StampsOK(d) => StampsOK(d)')
        /\ written \subseteq written'
        /\ \A x \in written' \ written : x.entry.device = d
    BY <1>1, SetStore
  <2>3. KnownIn(registers[d], written) => KnownIn(registers'[d], written')
    BY <1>1, SetKnown
  <2>4. KnownIn(Loaded(disk[d]).registers, written) => KnownIn(Loaded(disk[d]).registers, written')
    BY <2>2, KnownGrows
  <2>5. QED
    BY <2>1, <2>2, <2>3, <2>4 DEF Preserved
<1>2. ASSUME NEW d \in Devices, NEW k \in RegKeys, Get(d, k)
      PROVE  Preserved(d)
  <2>1. /\ UNCHANGED <<disk, written>>
        /\ registers'[d] = [registers[d] EXCEPT ![k] = NoEntry]
    BY <1>2 DEF Get, TypeOK, history
  <2>2. KnownIn(registers[d], written) => KnownIn(registers'[d], written')
    BY <2>1 DEF KnownIn, TypeOK
  <2>3. OnlyChanges(d) /\ StoreOK(d)' /\ (StampsOK(d) => StampsOK(d)')
    BY <1>2, GetStore
  <2>4. KnownIn(Loaded(disk[d]).registers, written) => KnownIn(Loaded(disk'[d]).registers, written')
    BY <2>1 DEF KnownIn
  <2>5. QED
    BY <2>1, <2>2, <2>3, <2>4 DEF Preserved
<1>3. ASSUME NEW d \in Devices, NEW l \in LogKeys, NEW x \in Contents, LogAppend(d, l, x)
      PROVE  Preserved(d)
  <2>1. UNCHANGED <<registers, written>> /\ Save(d, clock[d])
    BY <1>3 DEF LogAppend
  <2>2. registers' \in [Devices -> Registers] /\ logs' \in [Devices -> Logs] /\ clock[d] \in Nat
    BY DEF TypeOK, Registers, Logs
  <2>3. Loaded(disk'[d]).registers = registers[d]
    BY <2>1, <2>2, SavedIsLoaded
  <2>4. OnlyChanges(d) /\ StoreOK(d)' /\ (StampsOK(d) => StampsOK(d)')
    BY <1>3, LogAppendStore
  <2>5. KnownIn(registers[d], written) => KnownIn(registers'[d], written') /\ KnownIn(Loaded(disk'[d]).registers, written')
    BY <2>1, <2>3 DEF KnownIn
  <2>6. QED
    BY <2>1, <2>4, <2>5 DEF Preserved
<1>4. ASSUME NEW d \in Devices, Restart(d) \/ RestartTorn(d)
      PROVE  Preserved(d)
  <2>1. /\ OnlyChanges(d) /\ StoreOK(d)' /\ UNCHANGED written
        /\ ~TornWrites /\ StampsOK(d) => StampsOK(d)'
        /\ registers'[d] = Loaded(disk'[d]).registers
        /\ disk'[d] = disk[d] \/ disk'[d] = Torn
    BY <1>4, RestartStore
  <2>2. KnownIn(Loaded(Torn).registers, written)
    BY DEF KnownIn, Loaded, EmptyMemory
  <2>3. KnownIn(Loaded(disk[d]).registers, written) => KnownIn(Loaded(disk'[d]).registers, written)
    BY <2>1, <2>2
  <2>4. KnownIn(Loaded(disk[d]).registers, written) => KnownIn(Loaded(disk'[d]).registers, written')
    BY <2>1, <2>3 DEF KnownIn
  <2>5. QED
    BY <2>1, <2>4 DEF Preserved
<1>5. ASSUME NEW d \in Devices, NEW c \in Conns, HandleResponse(d, c) \/ HandleUpdate(d, c)
      PROVE  Preserved(d)
  <2>1. PICK diff : diff = Head(inbox[c][d]).diff
    OBVIOUS
  <2>2. /\ Dispatch(d, c) /\ ApplyDiff(d, diff) /\ UNCHANGED written
        /\ Head(inbox[c][d]).type \in {"response", "update"}
    BY <1>5, <2>1 DEF HandleResponse, HandleUpdate, history
  <2>3. diff \in Diffs /\ Known(diff.registers)
    BY <2>1, <2>2, DispatchedMessage, KnownDispatched
  <2>4. /\ OnlyChanges(d) /\ StoreOK(d)' /\ (StampsOK(d) => StampsOK(d)')
        /\ registers'[d] = MergedRegisters(d, diff)
        /\ Loaded(disk'[d]).registers \in {Loaded(disk[d]).registers, registers'[d]}
    BY <2>2, <2>3, ApplyDiffStore
  <2>5. KnownIn(registers[d], written) => KnownIn(MergedRegisters(d, diff), written)
    BY <2>3, KnownMerge DEF Known, KnownIn
  <2>6. \A regs : KnownIn(regs, written) => KnownIn(regs, written')
    BY <2>2, KnownGrows
  <2>7. KnownIn(registers[d], written) => KnownIn(registers'[d], written')
    BY <2>2, <2>4, <2>5 DEF KnownIn
  <2>8. KnownIn(Loaded(disk[d]).registers, written) => KnownIn(Loaded(disk[d]).registers, written')
    BY <2>6
  <2>9. QED
    BY <2>2, <2>4, <2>7, <2>8 DEF Preserved
<1>6. QED
  BY <1>1, <1>2, <1>3, <1>4, <1>5, StoreCases

LEMMA InvInit == Init => SyncInv
<1> SUFFICES ASSUME Init PROVE SyncInv
  OBVIOUS
<1>1. /\ registers = [d \in Devices |-> [k \in RegKeys |-> NoEntry]]
      /\ logs = [d \in Devices |-> [l \in LogKeys |-> <<>>]]
      /\ written = {}
      /\ \A d \in Devices : Loaded(disk[d]) = EmptyMemory
      /\ \A c \in Conns, d \in Devices : inbox[c][d] = <<>>
  BY DEF Init, TransportInit, Loaded, EmptyMemory
<1>2. \A d \in Devices : StoreOK(d)
  <2>1. /\ \A k \in RegKeys : EmptyMemory.registers[k] = NoEntry
        /\ \A l \in LogKeys : EmptyMemory.logs[l] = <<>>
    BY DEF EmptyMemory
  <2>2. /\ \A d \in Devices, k \in RegKeys : registers[d][k] = NoEntry
        /\ \A d \in Devices, l \in LogKeys : logs[d][l] = <<>>
    BY <1>1
  <2>3. QED
    BY <1>1, <2>1, <2>2 DEF StoreOK
<1>3. NothingInvented
  BY <1>1 DEF NothingInvented, Known, EmptyMemory
<1>4. StampsOnRecord
  BY <1>1 DEF StampsOnRecord
<1>5. QED
  BY <1>2, <1>3, <1>4, StoresAreOK DEF SyncInv

LEMMA InvNext == TypeOK /\ TypeOK' /\ SyncInv /\ [Next]_vars => SyncInv'
<1> SUFFICES ASSUME TypeOK, TypeOK', SyncInv, [Next]_vars PROVE SyncInv'
  OBVIOUS
<1>1. NothingInvented /\ \A d \in Devices : StoreOK(d)
  BY StoresAreOK DEF SyncInv
<1>2. \A d \in Devices : ~TornWrites => StampsOK(d)
  BY StampsAreOK DEF SyncInv
<1>3. \A d \in Devices : KnownIn(registers[d], written) /\ KnownIn(Loaded(disk[d]).registers, written)
  BY <1>1 DEF NothingInvented, Known, KnownIn
<1>4. /\ written \subseteq written'
      /\ \A d \in Devices : /\ StoreOK(d)'
                            /\ ~TornWrites => StampsOK(d)'
                            /\ KnownIn(registers'[d], written')
                            /\ KnownIn(Loaded(disk'[d]).registers, written')
  <2>1. CASE UNCHANGED <<clock, registers, logs, disk, written>>
    BY <1>1, <1>2, <1>3, <2>1 DEF StoreOK, StampsOK, KnownIn
  <2>2. ASSUME NEW d \in Devices, Preserved(d)
        PROVE  /\ written \subseteq written'
               /\ \A f \in Devices : /\ StoreOK(f)'
                                     /\ ~TornWrites => StampsOK(f)'
                                     /\ KnownIn(registers'[f], written')
                                     /\ KnownIn(Loaded(disk'[f]).registers, written')
    <3>1. /\ written \subseteq written' /\ OnlyChanges(d)
          /\ \A x \in written' \ written : x.entry.device = d
      BY <2>2 DEF Preserved
    <3>2. ASSUME NEW e \in Devices, e # d
          PROVE  /\ StoreOK(e)'
                 /\ ~TornWrites => StampsOK(e)'
                 /\ KnownIn(registers'[e], written') /\ KnownIn(Loaded(disk'[e]).registers, written')
      <4>1. clock'[e] = clock[e] /\ registers'[e] = registers[e]
            /\ logs'[e] = logs[e] /\ disk'[e] = disk[e]
        BY <3>1, <3>2 DEF OnlyChanges
      <4>2. StoreOK(e)'
        BY <1>1, <4>1 DEF StoreOK
      <4>3. ~TornWrites => StampsOK(e)'
        BY <1>2, <3>1, <3>2, <4>1 DEF StampsOK
      <4>4. KnownIn(registers'[e], written') /\ KnownIn(Loaded(disk'[e]).registers, written')
        BY <1>3, <3>1, <4>1 DEF KnownIn
      <4>5. QED
        BY <4>2, <4>3, <4>4
    <3>3. QED
      BY <1>2, <1>3, <2>2, <3>1, <3>2 DEF Preserved
  <2>3. QED
    BY <1>1, <2>1, <2>2, StorePreserved
<1>5. PICK S : S = KnownMessages
  OBVIOUS
<1>6. UNCHANGED written => \A d \in Devices : Known(registers'[d])
  BY <1>4 DEF Known, KnownIn
<1>7. inbox' \in Inboxes(S)
  BY <1>1, <1>5, <1>6, NextInbox
<1>8. \A m \in S : KnownMessage(m)'
  BY <1>4, <1>5, KnownGrows DEF KnownMessages
<1>9. \A c \in Conns, d \in Devices : \A i \in DOMAIN inbox'[c][d] : KnownMessage(inbox[c][d][i])'
  <2> TAKE c \in Conns, d \in Devices
  <2>1. inbox'[c][d] \in Seq(S)
    BY <1>7 DEF Inboxes
  <2>2. \A i \in DOMAIN inbox'[c][d] : inbox'[c][d][i] \in S
    BY <2>1
  <2>3. QED
    BY <1>8, <2>2
<1>10. NothingInvented'
  BY <1>4, <1>9 DEF NothingInvented, Known, KnownIn
<1>11. StampsOnRecord' \/ TornWrites
  <2>1. \A x \in written' : x.entry.device \in Devices
    BY DEF TypeOK, Entry
  <2>2. QED
    BY <1>4, <2>1 DEF StampsOnRecord, StampsOK
<1>12. (ClockDominates /\ SavedClockDominates /\ SavedBeforeSeen)'
  BY <1>4 DEF ClockDominates, SavedClockDominates, SavedBeforeSeen, StoreOK
<1>13. QED
  BY <1>10, <1>11, <1>12 DEF SyncInv

(* Clocks, files, messages and the history of writes stay consistent whatever  *)
(* is lost, repeated, reordered or interrupted.                                *)
THEOREM SyncInvariant == Spec => []SyncInv
  BY TypeCorrect, InvInit, InvNext, PTL DEF Spec

(* set always wins over what its register holds: its branch for an entry that  *)
(* is not superseded is dead code, even after a torn save.                     *)
THEOREM ClockAlwaysDominates == Spec => []ClockDominates
<1>1. SyncInv => ClockDominates
  BY DEF SyncInv
<1>2. QED
  BY <1>1, SyncInvariant, PTL

(* A restart finds in memory.json all that was in memory, unless it is torn.   *)
THEOREM AlwaysSavedBeforeSeen == Spec => []SavedBeforeSeen
<1>1. SyncInv => SavedBeforeSeen
  BY DEF SyncInv
<1>2. QED
  BY <1>1, SyncInvariant, PTL

-------------------------------------------------------------------------------
(* Stamps *)

(* A step creates one entry, stamped past its device's clock, or none. *)
LEMMA WrittenStep ==
    ASSUME TypeOK, [Next]_vars
    PROVE  \/ UNCHANGED written
           \/ \E d \in Devices : \E x : /\ written' = written \cup {x}
                                        /\ x.entry.device = d
                                        /\ x.entry.ts = clock[d] + 1
<1>1. ASSUME NEW d \in Devices, NEW k \in RegKeys, NEW v \in Values,
             NEW ttl \in TTLs \cup {Unset}, Set(d, k, v, ttl), ~UNCHANGED written
      PROVE  \E x : /\ written' = written \cup {x}
                    /\ x.entry.device = d
                    /\ x.entry.ts = clock[d] + 1
  <2> DEFINE e == [value |-> v, ts |-> clock[d] + 1, device |-> d, wall |-> Time(d),
                   ttl |-> IF ttl = Unset THEN DefaultTTL[k] ELSE ttl]
             x == [key |-> k, entry |-> e]
  <2>1. written' = written \cup {x}
    BY <1>1 DEF Set
  <2>2. x.entry.device = d /\ x.entry.ts = clock[d] + 1
    OBVIOUS
  <2> HIDE DEF x
  <2>3. QED
    BY <2>1, <2>2
<1>2. \A d \in Devices, k \in RegKeys : Get(d, k) => UNCHANGED written
  BY DEF Get, history
<1>3. \A d \in Devices, l \in LogKeys, x \in Contents : LogAppend(d, l, x) => UNCHANGED written
  BY DEF LogAppend
<1>4. \A d \in Devices : Restart(d) \/ RestartTorn(d) => UNCHANGED written
  BY DEF Restart, RestartTorn, StartFrom, history
<1>5. \A d \in Devices, c \in Conns : HandleResponse(d, c) \/ HandleUpdate(d, c) => UNCHANGED written
  BY DEF HandleResponse, HandleUpdate, history
<1>6. QED
  BY <1>1, <1>2, <1>3, <1>4, <1>5, StoreCases

LEMMA UniqueNext ==
    ASSUME TypeOK, SyncInv, ~TornWrites, UniqueStamps, [Next]_vars
    PROVE  UniqueStamps'
<1>1. \A x \in written : x.entry.ts <= clock[x.entry.device] /\ x.entry.ts \in Nat
                        /\ clock[x.entry.device] \in Nat
  BY DEF SyncInv, StampsOnRecord, TypeOK, Entry
<1>2. CASE UNCHANGED written
  BY <1>2 DEF UniqueStamps
<1>3. ASSUME NEW d \in Devices, NEW x, written' = written \cup {x},
             x.entry.device = d, x.entry.ts = clock[d] + 1
      PROVE  UniqueStamps'
  <2>1. \A y \in written : y.entry.device = d => y.entry.ts # x.entry.ts
    BY <1>1, <1>3
  <2>2. QED
    BY <1>3, <2>1 DEF UniqueStamps
<1>4. QED
  BY <1>2, <1>3, WrittenStep

(* Unless a save is torn, no two writes of the whole history carry the same    *)
(* timestamp and device.                                                       *)
THEOREM StampsUnique ==
    ASSUME ~TornWrites
    PROVE  Spec => []UniqueStamps
<1>1. Init => UniqueStamps
  BY DEF Init, UniqueStamps
<1>2. TypeOK /\ SyncInv /\ UniqueStamps /\ [Next]_vars => UniqueStamps'
  BY UniqueNext
<1>3. QED
  BY <1>1, <1>2, TypeCorrect, SyncInvariant, PTL DEF Spec

(* ConflictsResolved: unless a save is torn, of two different values that two  *)
(* devices hold for a key one supersedes the other, so that the devices take   *)
(* the same side when they meet.                                               *)
THEOREM ConflictsAlwaysResolved ==
    ASSUME ~TornWrites
    PROVE  Spec => []ConflictsResolved
<1>1. TypeOK /\ SyncInv /\ UniqueStamps => ConflictsResolved
  <2> SUFFICES ASSUME TypeOK, SyncInv, UniqueStamps,
                      NEW d \in Devices, NEW e \in Devices, NEW k \in RegKeys,
                      registers[d][k] # NoEntry, registers[e][k] # NoEntry,
                      registers[d][k].value # registers[e][k].value
               PROVE  \/ Supersedes(registers[d][k], registers[e][k])
                      \/ Supersedes(registers[e][k], registers[d][k])
    BY DEF ConflictsResolved
  <2>1. PICK f, g : f = registers[d][k] /\ g = registers[e][k]
    OBVIOUS
  <2>2. [key |-> k, entry |-> f] \in written /\ [key |-> k, entry |-> g] \in written
    BY <2>1 DEF SyncInv, NothingInvented, Known
  <2>3. f.ts = g.ts /\ f.device = g.device => f = g
    BY <2>2 DEF UniqueStamps
  <2>4. f.ts \in Nat /\ g.ts \in Nat /\ f.device \in Nat /\ g.device \in Nat
    <3>1. f \in Entry /\ g \in Entry
      BY <2>2 DEF TypeOK
    <3>2. QED
      BY <3>1, DevicesAssumption DEF Entry
  <2>5. QED
    BY <2>1, <2>3, <2>4 DEF Supersedes
<1>2. QED
  BY <1>1, TypeCorrect, SyncInvariant, StampsUnique, PTL

-------------------------------------------------------------------------------
(* The registers implement ReplicatedRegister *)

LEMMA SetImplements ==
    ASSUME TypeOK, SyncInv, ~TornWrites, NEW d \in Devices, NEW k \in RegKeys,
           NEW v \in Values, NEW ttl \in TTLs \cup {Unset}, Set(d, k, v, ttl)
    PROVE  RR!Next \/ UNCHANGED <<registers, written>>
<1> DEFINE e == [value |-> v, ts |-> clock[d] + 1, device |-> d, wall |-> Time(d),
                 ttl |-> IF ttl = Unset THEN DefaultTTL[k] ELSE ttl]
           x == [key |-> k, entry |-> e]
<1>1. CASE Accepts(registers[d][k], e)
  <2>1. /\ registers' = [registers EXCEPT ![d][k] = e]
        /\ written' = written \cup {x}
    BY <1>1 DEF Set
  <2>2. x.key = k /\ x.entry = e /\ e.device = d /\ e.ts = clock[d] + 1
    OBVIOUS
  <2> HIDE DEF e, x
  <2>3. \A y \in written : y.entry.ts <= clock[y.entry.device] /\ y.entry.ts \in Nat
                          /\ clock[y.entry.device] \in Nat
    BY DEF SyncInv, StampsOnRecord, TypeOK, Entry
  <2>4. \A y \in written : y.entry.device = d => y.entry.ts # x.entry.ts
    BY <2>2, <2>3
  <2>5. x \in written' \ written
    BY <2>1, <2>2, <2>4
  <2>6. RR!Accepts(registers[d][k], e)
    BY <1>1 DEF Accepts, Supersedes, RR!Accepts, RR!Supersedes
  <2>7. RR!Write(d, k)
    BY <2>1, <2>2, <2>4, <2>5, <2>6 DEF RR!Write, RR!Holds
  <2>8. QED
    BY <2>7 DEF RR!Next
<1>2. CASE ~Accepts(registers[d][k], e)
  BY <1>2 DEF Set
<1>3. QED
  BY <1>1, <1>2

LEMMA GetImplements ==
    ASSUME TypeOK, NEW d \in Devices, NEW k \in RegKeys, Get(d, k)
    PROVE  RR!Next
<1>1. RR!Forget(d, k)
  BY DEF Get, Expired, history, RR!Forget, RR!Holds
<1>2. QED
  BY <1>1 DEF RR!Next

LEMMA ApplyImplements ==
    ASSUME TypeOK, TypeOK', NothingInvented, NEW d \in Devices, NEW c \in Conns,
           HandleResponse(d, c) \/ HandleUpdate(d, c)
    PROVE  RR!Next
<1>1. PICK diff : diff = Head(inbox[c][d]).diff
  OBVIOUS
<1>2. /\ Dispatch(d, c) /\ ApplyDiff(d, diff) /\ UNCHANGED written
      /\ Head(inbox[c][d]).type \in {"response", "update"}
  BY <1>1 DEF HandleResponse, HandleUpdate, history
<1>3. diff \in Diffs /\ Known(diff.registers)
  BY <1>1, <1>2, DispatchedMessage, KnownDispatched
<1>4. registers' = [registers EXCEPT ![d] = MergedRegisters(d, diff)]
  BY <1>2, <1>3, ApplyDiffEffect
<1>5. /\ registers'[d] = MergedRegisters(d, diff)
      /\ \A e \in Devices \ {d} : registers'[e] = registers[e]
  BY <1>4 DEF TypeOK
<1>6. \A k \in RegKeys :
         \/ registers'[d][k] = registers[d][k]
         \/ \E x \in written : /\ x.key = k
                               /\ registers'[d][k] = x.entry
                               /\ RR!Accepts(registers[d][k], x.entry)
  <2> TAKE k \in RegKeys
  <2> DEFINE x == [key |-> k, entry |-> diff.registers[k]]
  <2>1. \/ registers'[d][k] = registers[d][k]
        \/ /\ diff.registers[k] # NoEntry
           /\ Accepts(registers[d][k], diff.registers[k])
           /\ registers'[d][k] = diff.registers[k]
    BY <1>5 DEF MergedRegisters, Merged, SentKeys
  <2>2. diff.registers[k] # NoEntry => x \in written
    BY <1>3 DEF Known
  <2>3. Accepts(registers[d][k], diff.registers[k]) => RR!Accepts(registers[d][k], diff.registers[k])
    BY DEF Accepts, Supersedes, RR!Accepts, RR!Supersedes
  <2>4. x.key = k /\ x.entry = diff.registers[k]
    OBVIOUS
  <2> HIDE DEF x
  <2>5. QED
    BY <2>1, <2>2, <2>3, <2>4
<1>7. DOMAIN registers' = Devices /\ DOMAIN registers'[d] = RegKeys
  BY DEF TypeOK
<1>8. RR!Adopt(d)
  BY <1>2, <1>5, <1>6, <1>7 DEF RR!Adopt
<1>9. QED
  BY <1>8 DEF RR!Next

LEMMA RestartImplements ==
    ASSUME TypeOK, TypeOK', SyncInv, ~TornWrites, NEW d \in Devices, Restart(d) \/ RestartTorn(d)
    PROVE  RR!Next
<1>1. /\ OnlyChanges(d) /\ UNCHANGED written
      /\ registers'[d] = Loaded(disk[d]).registers
  BY DEF Restart, RestartTorn, StartFrom, TypeOK, OnlyChanges, history
<1>2. \A k \in RegKeys :
         \/ registers'[d][k] = registers[d][k]
         \/ \E x \in written : /\ x.key = k
                               /\ registers'[d][k] = x.entry
                               /\ RR!Accepts(registers[d][k], x.entry)
  <2> TAKE k \in RegKeys
  <2> DEFINE loaded == Loaded(disk[d]).registers[k]
             x == [key |-> k, entry |-> loaded]
  <2>1. registers[d][k] # NoEntry => loaded = registers[d][k]
    BY DEF SyncInv, SavedBeforeSeen
  <2>2. loaded # NoEntry => x \in written
    BY DEF SyncInv, NothingInvented, Known
  <2>3. RR!Accepts(NoEntry, loaded)
    BY DEF RR!Accepts
  <2>4. x.key = k /\ x.entry = loaded /\ registers'[d][k] = loaded
    BY <1>1
  <2> HIDE DEF x, loaded
  <2>5. QED
    BY <2>1, <2>2, <2>3, <2>4
<1>3. DOMAIN registers' = Devices /\ DOMAIN registers'[d] = RegKeys
  BY DEF TypeOK
<1>4. RR!Adopt(d)
  BY <1>1, <1>2, <1>3 DEF RR!Adopt, OnlyChanges
<1>5. QED
  BY <1>4 DEF RR!Next

LEMMA NextImplements ==
    ASSUME TypeOK, TypeOK', SyncInv, ~TornWrites, [Next]_vars
    PROVE  RR!Next \/ UNCHANGED <<registers, written>>
<1>1. \A d \in Devices, l \in LogKeys, x \in Contents :
         LogAppend(d, l, x) => UNCHANGED <<registers, written>>
  BY DEF LogAppend
<1>2. NothingInvented
  BY DEF SyncInv
<1>3. QED
  BY <1>1, <1>2, StoreCases, SetImplements, GetImplements, ApplyImplements,
     RestartImplements

(* The registers of a household whose saves are not torn are a replicated      *)
(* register: every step of calls, messages and crashes is one of the abstract  *)
(* specification's, or leaves registers and writes alone.                      *)
THEOREM RegistersRefine ==
    ASSUME ~TornWrites
    PROVE  Spec => RegistersImplemented
<1>1. Init => RR!Init
  BY DEF Init, EmptyMemory, RR!Init
<1>2. TypeOK /\ TypeOK' /\ SyncInv /\ [Next]_vars => [RR!Next]_<<registers, written>>
  BY NextImplements
<1>3. QED
  BY <1>1, <1>2, TypeCorrect, SyncInvariant, PTL DEF Spec, RegistersImplemented, RR!Spec

-------------------------------------------------------------------------------
(* Reading one's writes *)

LEMMA SupersedesTransitive ==
    ASSUME NEW e \in Entry, NEW f \in Entry, NEW g \in Entry,
           Supersedes(e, f), Supersedes(f, g)
    PROVE  Supersedes(e, g)
<1>1. /\ e.ts \in Nat /\ f.ts \in Nat /\ g.ts \in Nat
      /\ e.device \in Nat /\ f.device \in Nat /\ g.device \in Nat
  BY DevicesAssumption DEF Entry
<1>2. QED
  BY <1>1 DEF Supersedes

(* The argument is about the steps of ReplicatedRegister. *)
LEMMA OwnWritesKept ==
    ASSUME TypeOK, TypeOK', SyncInv, ReadYourWrites, RR!Next
    PROVE  ReadYourWrites'
<1>1. /\ \A x \in written : x.entry \in Entry /\ x.entry.device \in Devices /\ x.key \in RegKeys
      /\ \A x \in written' : x.entry \in Entry
      /\ \A d \in Devices, k \in RegKeys : registers[d][k] # NoEntry => registers[d][k] \in Entry
      /\ \A d \in Devices, k \in RegKeys : registers[d][k] # NoEntry /\ NeverExpires(k) =>
            registers[d][k].ttl = Forever
  <2>1. /\ \A x \in written : x.entry \in Entry /\ x.entry.device \in Devices /\ x.key \in RegKeys
        /\ \A x \in written' : x.entry \in Entry
        /\ \A d \in Devices, k \in RegKeys : registers[d][k] # NoEntry => registers[d][k] \in Entry
    BY DEF TypeOK, Entry
  <2>2. ASSUME NEW d \in Devices, NEW k \in RegKeys, registers[d][k] # NoEntry, NeverExpires(k)
        PROVE  registers[d][k].ttl = Forever
    <3>1. PICK x \in written : x = [key |-> k, entry |-> registers[d][k]]
      BY <2>2 DEF SyncInv, NothingInvented, Known
    <3>2. x.key = k /\ x.entry = registers[d][k]
      BY <3>1
    <3>3. QED
      BY <2>2, <3>2 DEF NeverExpires
  <2>3. QED
    BY <2>1, <2>2
<1>2. ASSUME NEW d \in Devices, NEW k \in RegKeys, NEW old \in written, NEW e \in Entry,
             old.entry.device = d, old.key = k, NeverExpires(k), RR!Accepts(registers[d][k], e)
      PROVE  e # NoEntry /\ Supersedes(e, old.entry)
  <2>1. registers[d][k] # NoEntry
        /\ (registers[d][k] = old.entry \/ Supersedes(registers[d][k], old.entry))
    BY <1>2 DEF ReadYourWrites
  <2>2. Supersedes(e, registers[d][k])
    BY <1>2, <2>1 DEF Supersedes, RR!Accepts, RR!Supersedes
  <2>3. Supersedes(e, old.entry)
    BY <1>1, <2>1, <2>2, SupersedesTransitive
  <2>4. QED
    BY <2>3, LWWAssumption
<1>3. ASSUME NEW d \in Devices, NEW k \in RegKeys, RR!Write(d, k)
      PROVE  ReadYourWrites'
  <2>1. PICK x \in written' \ written :
           /\ written' = written \cup {x}
           /\ x.key = k /\ x.entry.device = d
           /\ RR!Accepts(registers[d][k], x.entry)
           /\ registers' = [registers EXCEPT ![d][k] = x.entry]
    BY <1>3 DEF RR!Write, RR!Holds
  <2>2. /\ registers'[d][k] = x.entry
        /\ \A f \in Devices, j \in RegKeys : <<f, j>> # <<d, k>> => registers'[f][j] = registers[f][j]
    BY <2>1 DEF TypeOK
  <2>3. x.entry \in Entry /\ x.entry # NoEntry
    BY <1>1, LWWAssumption
  <2>4. ASSUME NEW old \in written', NeverExpires(old.key)'
        PROVE  LET held == registers'[old.entry.device][old.key]
               IN  held # NoEntry /\ (held = old.entry \/ Supersedes(held, old.entry))
    <3>1. CASE old = x
      BY <2>1, <2>2, <2>3, <3>1
    <3>2. CASE old # x
      <4>1. old \in written /\ NeverExpires(old.key)
        BY <2>1, <2>4, <3>2 DEF NeverExpires
      <4>2. CASE old.entry.device = d /\ old.key = k
        BY <1>2, <2>1, <2>2, <2>3, <4>1, <4>2
      <4>3. CASE ~(old.entry.device = d /\ old.key = k)
        <5>1. registers'[old.entry.device][old.key] = registers[old.entry.device][old.key]
          BY <1>1, <2>2, <4>1, <4>3
        <5>2. QED
          BY <4>1, <5>1 DEF ReadYourWrites
      <4>4. QED
        BY <4>2, <4>3
    <3>3. QED
      BY <3>1, <3>2
  <2>5. QED
    BY <2>4 DEF ReadYourWrites
<1>4. ASSUME NEW d \in Devices, RR!Adopt(d)
      PROVE  ReadYourWrites'
  <2>1. /\ written' = written
        /\ \A f \in Devices \ {d} : registers'[f] = registers[f]
        /\ \A k \in RegKeys : \/ registers'[d][k] = registers[d][k]
                              \/ \E x \in written : /\ registers'[d][k] = x.entry
                                                    /\ RR!Accepts(registers[d][k], x.entry)
    BY <1>4 DEF RR!Adopt
  <2>2. ASSUME NEW old \in written, NeverExpires(old.key)
        PROVE  LET held == registers'[old.entry.device][old.key]
               IN  held # NoEntry /\ (held = old.entry \/ Supersedes(held, old.entry))
    <3>1. CASE registers'[old.entry.device][old.key] = registers[old.entry.device][old.key]
      BY <2>2, <3>1 DEF ReadYourWrites
    <3>2. CASE old.entry.device = d /\ \E x \in written :
                  /\ registers'[d][old.key] = x.entry
                  /\ RR!Accepts(registers[d][old.key], x.entry)
      <4>1. PICK x \in written : /\ registers'[d][old.key] = x.entry
                                 /\ RR!Accepts(registers[d][old.key], x.entry)
        BY <3>2
      <4>2. x.entry \in Entry /\ old.key \in RegKeys
        BY <1>1
      <4>3. QED
        BY <1>2, <2>2, <3>2, <4>1, <4>2
    <3>3. QED
      BY <1>1, <2>1, <3>1, <3>2
  <2>3. \A old \in written : NeverExpires(old.key)' => NeverExpires(old.key)
    BY <2>1 DEF NeverExpires
  <2>4. QED
    BY <2>1, <2>2, <2>3 DEF ReadYourWrites
<1>5. ASSUME NEW d \in Devices, NEW k \in RegKeys, RR!Forget(d, k)
      PROVE  ReadYourWrites'
  <2>1. /\ written' = written /\ registers[d][k] # NoEntry /\ registers[d][k].ttl # Forever
        /\ registers' = [registers EXCEPT ![d][k] = NoEntry]
    BY <1>5 DEF RR!Forget, RR!Holds
  <2>2. \A f \in Devices, j \in RegKeys : j # k => registers'[f][j] = registers[f][j]
    BY <2>1 DEF TypeOK
  <2>3. ~NeverExpires(k)
    BY <1>1, <2>1
  <2>4. ASSUME NEW old \in written, NeverExpires(old.key)'
        PROVE  LET held == registers'[old.entry.device][old.key]
               IN  held # NoEntry /\ (held = old.entry \/ Supersedes(held, old.entry))
    <3>1. NeverExpires(old.key)
      BY <2>1, <2>4 DEF NeverExpires
    <3>2. old.key # k
      BY <2>3, <3>1
    <3>3. registers'[old.entry.device][old.key] = registers[old.entry.device][old.key]
      BY <1>1, <2>2, <3>2
    <3>4. QED
      BY <3>1, <3>3 DEF ReadYourWrites
  <2>5. QED
    BY <2>1, <2>4 DEF ReadYourWrites
<1>6. QED
  BY <1>3, <1>4, <1>5 DEF RR!Next

(* Where no save is torn, a device keeps what it wrote under a key that nobody *)
(* gave an expiry, or a later entry.                                           *)
THEOREM OwnWritesRead ==
    ASSUME ~TornWrites
    PROVE  Spec => []ReadYourWrites
<1>1. Init => ReadYourWrites
  BY DEF Init, ReadYourWrites
<1>2. TypeOK /\ TypeOK' /\ SyncInv /\ ReadYourWrites /\ [Next]_vars => ReadYourWrites'
  <2> SUFFICES ASSUME TypeOK, TypeOK', SyncInv, ReadYourWrites, [Next]_vars PROVE ReadYourWrites'
    OBVIOUS
  <2>1. CASE RR!Next
    BY <2>1, OwnWritesKept
  <2>2. CASE UNCHANGED <<registers, written>>
    BY <2>2 DEF ReadYourWrites, NeverExpires
  <2>3. QED
    BY <2>1, <2>2, NextImplements
<1>3. QED
  BY <1>1, <1>2, TypeCorrect, SyncInvariant, PTL DEF Spec

-------------------------------------------------------------------------------
(* The logs, unless a save is torn: a crash finds the log as it was, so a      *)
(* position that append has handed out stays taken by what it was handed to.   *)

LEMMA LogCases ==
    ASSUME TypeOK, SyncInv, ~TornWrites, [Next]_vars
    PROVE  \/ UNCHANGED <<logs, appended>>
           \/ \E d \in Devices, l \in LogKeys, x \in Contents :
                 d \in Writers[l] /\ LogAppend(d, l, x)
           \/ \E d \in Devices : \E c \in Conns, diff \in Diffs :
                 /\ Dispatch(d, c) /\ diff = Head(inbox[c][d]).diff
                 /\ Head(inbox[c][d]).type \in {"response", "update"}
                 /\ logs' = [logs EXCEPT ![d] = MergedLogs(d, diff)]
                 /\ UNCHANGED appended
<1>1. \A d \in Devices, k \in RegKeys, v \in Values, ttl \in TTLs \cup {Unset} :
         Set(d, k, v, ttl) => UNCHANGED <<logs, appended>>
  BY DEF Set
<1>2. \A d \in Devices, k \in RegKeys : Get(d, k) => UNCHANGED <<logs, appended>>
  BY DEF Get, history
<1>3. ASSUME NEW d \in Devices, Restart(d) \/ RestartTorn(d)
      PROVE  UNCHANGED <<logs, appended>>
  <2>1. /\ logs' = [logs EXCEPT ![d] = Loaded(disk[d]).logs]
        /\ UNCHANGED appended
    BY <1>3 DEF Restart, RestartTorn, StartFrom, history
  <2>2. \A l \in LogKeys : Loaded(disk[d]).logs[l] = logs[d][l]
    BY DEF SyncInv, SavedBeforeSeen
  <2>3. Loaded(disk[d]).logs \in Logs /\ logs \in [Devices -> Logs]
    <3>1. Loaded(disk[d]) \in Memory
      BY LoadedType DEF TypeOK
    <3>2. QED
      BY <3>1 DEF Memory, Logs, TypeOK
  <2>4. Loaded(disk[d]).logs = logs[d]
    BY <2>2, <2>3 DEF Logs
  <2>5. QED
    BY <2>1, <2>3, <2>4
<1>4. ASSUME NEW d \in Devices, NEW c \in Conns, HandleResponse(d, c) \/ HandleUpdate(d, c)
      PROVE  \E diff \in Diffs :
                 /\ Dispatch(d, c) /\ diff = Head(inbox[c][d]).diff
                 /\ Head(inbox[c][d]).type \in {"response", "update"}
                 /\ logs' = [logs EXCEPT ![d] = MergedLogs(d, diff)]
                 /\ UNCHANGED appended
  <2>1. PICK diff : diff = Head(inbox[c][d]).diff
    OBVIOUS
  <2>2. /\ Dispatch(d, c) /\ ApplyDiff(d, diff) /\ UNCHANGED appended
        /\ Head(inbox[c][d]).type \in {"response", "update"}
    BY <1>4, <2>1 DEF HandleResponse, HandleUpdate, history
  <2>3. diff \in Diffs
    BY <2>1, <2>2, DispatchedMessage
  <2>4. logs' = [logs EXCEPT ![d] = MergedLogs(d, diff)]
    BY <2>2, <2>3, ApplyDiffEffect
  <2>5. QED
    BY <2>1, <2>2, <2>3, <2>4
<1>5. ASSUME NEW d \in Devices, NEW t \in PushTasks, Wake(d, t)
      PROVE  UNCHANGED <<logs, appended>>
  BY <1>5 DEF Wake, storeVars, history
<1>6. ASSUME NEW d \in Devices, NEW t \in PushTasks, NEW e \in Devices, NEW c \in Conns,
             PushSend(d, t, e, c)
      PROVE  UNCHANGED <<logs, appended>>
  BY <1>6 DEF PushSend, storeVars, history
<1>7. ASSUME NEW d \in Devices, NEW e \in Devices, NEW c \in Conns, ConnectToPeer(d, e, c)
      PROVE  UNCHANGED <<logs, appended>>
  BY <1>7 DEF ConnectToPeer, storeVars, history
<1>8. \A d \in Devices, c \in Conns :
         SyncWithPeer(d, c) \/ ReceiveLoopEnds(d, c) \/ HandleAnnounce(d, c)
         \/ HandleRequest(d, c) \/ DropConn(c) => UNCHANGED <<logs, appended>>
  BY DEF SyncWithPeer, ReceiveLoopEnds, HandleAnnounce, HandleRequest, DropConn,
         storeVars, history
<1>9. Tick \/ UNCHANGED vars => UNCHANGED <<logs, appended>>
  BY DEF Tick, vars, storeVars, history
<1>10. \A c \in Conns : DropConn(c) => UNCHANGED <<logs, appended>>
  BY DEF DropConn, storeVars, history
<1>11. QED
  BY <1>1, <1>2, <1>3, <1>4, <1>5, <1>6, <1>7, <1>8, <1>9, <1>10, NextCases

RecordsOf(log) == {log[i] : i \in DOMAIN log}

LEMMA AppendKeeps ==
    ASSUME NEW log \in Seq(Record), NEW x, NEW d, NEW time
    PROVE  LET longer == Appended(log, x, d, time)
               rec == [content |-> x, seq |-> Len(log), device |-> d, ts |-> time] IN
           /\ Len(longer) = Len(log) + 1
           /\ DOMAIN longer = 1..(Len(log) + 1)
           /\ \A i \in DOMAIN log : longer[i] = log[i]
           /\ longer[Len(log) + 1] = rec
           /\ RecordsOf(log) \subseteq RecordsOf(longer)
<1> DEFINE longer == Appended(log, x, d, time)
           rec == [content |-> x, seq |-> Len(log), device |-> d, ts |-> time]
<1>1. longer = Append(log, rec)
  BY DEF Appended
<1>2. PICK r : r = rec
  OBVIOUS
<1> HIDE DEF rec, longer
<1>3. /\ Len(longer) = Len(log) + 1
      /\ DOMAIN longer = 1..(Len(log) + 1)
      /\ \A i \in DOMAIN log : i \in DOMAIN longer /\ longer[i] = log[i]
      /\ longer[Len(log) + 1] = r
  BY <1>1, <1>2
<1>4. RecordsOf(log) \subseteq RecordsOf(longer)
  BY <1>3 DEF RecordsOf
<1>5. QED
  BY <1>2, <1>3, <1>4 DEF rec, longer

LEMMA MergedKeepsRecords ==
    ASSUME NEW log \in Seq(Record), NEW remote \in Seq(Record)
    PROVE  /\ LogMerged(log, remote) \in Seq(Record)
           /\ RecordsOf(log) \subseteq RecordsOf(LogMerged(log, remote))
           /\ RecordsOf(LogMerged(log, remote)) \subseteq RecordsOf(log) \cup RecordsOf(remote)
           /\ Len(LogMerged(log, remote)) >= Len(log)
<1>1. PICK merged : merged = LogMerged(log, remote)
  OBVIOUS
<1>2. merged \in Seq(Record) /\ Len(merged) >= Len(log)
  BY <1>1, RecordsAreRecords, LogMergedType, LogMergedGrows
<1>3. {log[i] : i \in DOMAIN log} \subseteq {merged[p] : p \in DOMAIN merged}
  BY <1>1, RecordsAreRecords, LogMergedKeeps
<1>4. \A p \in DOMAIN merged : \/ \E i \in DOMAIN log : merged[p] = log[i]
                               \/ \E i \in DOMAIN remote : merged[p] = remote[i]
  BY <1>1, RecordsAreRecords, LogMergedInvents
<1>5. QED
  BY <1>1, <1>2, <1>3, <1>4 DEF RecordsOf

(* RecordsAlwaysKept: unless a save is torn, a record a device holds stays in  *)
(* its log through every append, merge and crash.                              *)
THEOREM RecordsAlwaysKept ==
    ASSUME ~TornWrites
    PROVE  Spec => RecordsKept
<1>1. ASSUME TypeOK, SyncInv, [Next]_vars, NEW d \in Devices, NEW l \in LogKeys
      PROVE  RecordsOf(logs[d][l]) \subseteq RecordsOf(logs'[d][l])
  <2>1. logs \in [Devices -> [LogKeys -> Seq(Record)]]
    BY <1>1 DEF TypeOK
  <2>2. CASE UNCHANGED logs
    BY <2>2
  <2>3. ASSUME NEW e \in Devices, NEW m \in LogKeys, NEW x \in Contents, LogAppend(e, m, x)
        PROVE  RecordsOf(logs[d][l]) \subseteq RecordsOf(logs'[d][l])
    <3>1. logs' = [logs EXCEPT ![e][m] = Appended(logs[e][m], x, e, Time(e))]
      BY <2>3 DEF LogAppend
    <3>2. logs'[d][l] = IF d = e /\ l = m THEN Appended(logs[e][m], x, e, Time(e))
                        ELSE logs[d][l]
      BY <2>1, <3>1
    <3>3. RecordsOf(logs[e][m]) \subseteq RecordsOf(Appended(logs[e][m], x, e, Time(e)))
      BY <2>1, AppendKeeps
    <3>4. QED
      BY <3>2, <3>3
  <2>4. ASSUME NEW e \in Devices, NEW diff \in Diffs,
               logs' = [logs EXCEPT ![e] = MergedLogs(e, diff)]
        PROVE  RecordsOf(logs[d][l]) \subseteq RecordsOf(logs'[d][l])
    <3>1. \/ logs'[d][l] = logs[d][l]
          \/ logs'[d][l] = LogMerged(logs[d][l], diff.logs[l])
      BY <2>1, <2>4 DEF MergedLogs
    <3>2. diff.logs[l] \in Seq(Record)
      BY DEF Diffs
    <3>3. RecordsOf(logs[d][l]) \subseteq RecordsOf(LogMerged(logs[d][l], diff.logs[l]))
      BY <2>1, <3>2, MergedKeepsRecords
    <3>4. QED
      BY <3>1, <3>3
  <2>5. QED
    BY <1>1, <2>2, <2>3, <2>4, LogCases
<1>2. TypeOK /\ SyncInv /\ [Next]_vars =>
         [\A d \in Devices, l \in LogKeys :
             {logs[d][l][i] : i \in DOMAIN logs[d][l]}
                 \subseteq {logs'[d][l][i] : i \in DOMAIN logs'[d][l]}]_vars
  BY <1>1 DEF RecordsOf
<1>3. QED
  BY <1>2, TypeCorrect, SyncInvariant, PTL DEF Spec, RecordsKept

(* What is known of a log: its records were appended by somebody, and no two   *)
(* have one identity; what a device has appended lies below its log's length.  *)
KnownRecords(l, log) == \A r \in RecordsOf(log) : [key |-> l, rec |-> r] \in appended

RecordMessage(m) ==
    m.type \in {"response", "update"} =>
        \A l \in LogKeys : KnownRecords(l, m.diff.logs[l])

PositionsTaken ==
    \A x \in appended : x.rec.seq < Len(logs[x.rec.device][x.key])

LogInv ==
    /\ \A d \in Devices, l \in LogKeys : KnownRecords(l, logs[d][l])
    /\ \A c \in Conns, d \in Devices : \A i \in DOMAIN inbox[c][d] :
          RecordMessage(inbox[c][d][i])
    /\ PositionsTaken
    /\ RecordIdsUnique

RecordMessages == {m \in Message : RecordMessage(m)}

LEMMA RecordsGrow ==
    ASSUME appended \subseteq appended'
    PROVE  /\ \A l, log : KnownRecords(l, log) => KnownRecords(l, log)'
           /\ \A m : RecordMessage(m) => RecordMessage(m)'
  BY DEF KnownRecords, RecordMessage

LEMMA KnownSince ==
    ASSUME NEW l, NEW log \in Seq(Record), NEW n \in Nat, KnownRecords(l, log)
    PROVE  KnownRecords(l, Since(log, n))
<1>1. \A i \in DOMAIN Since(log, n) : \E j \in DOMAIN log : Since(log, n)[i] = log[j]
  <2>1. PICK since : since = SubSeq(log, n + 1, Len(log))
    OBVIOUS
  <2>2. Len(log) \in Nat /\ DOMAIN log = 1..Len(log)
    OBVIOUS
  <2>3. \A i \in DOMAIN since : /\ i + n \in DOMAIN log
                                /\ since[i] = log[i + n]
    BY <2>1, <2>2
  <2>4. QED
    BY <2>1, <2>3 DEF Since
<1>2. QED
  BY <1>1 DEF KnownRecords, RecordsOf

LEMMA KnownLogDiff ==
    ASSUME NEW regs, NEW lgs \in Logs, NEW time, NEW state \in SyncStates,
           \A l \in LogKeys : KnownRecords(l, lgs[l]),
           NEW l \in LogKeys
    PROVE  KnownRecords(l, DiffOf(regs, lgs, time, state).logs[l])
<1>1. lgs[l] \in Seq(Record) /\ state.logs[l] \in Nat
  BY DEF Logs, SyncStates
<1>2. KnownRecords(l, <<>>)
  BY DEF KnownRecords, RecordsOf
<1>3. KnownRecords(l, Since(lgs[l], state.logs[l]))
  BY <1>1, KnownSince
<1>4. DiffOf(regs, lgs, time, state).logs[l] \in {Since(lgs[l], state.logs[l]), <<>>}
  BY DEF DiffOf
<1>5. QED
  BY <1>2, <1>3, <1>4

LEMMA InboxesRecorded ==
    ASSUME TypeOK, LogInv, NEW S, S = RecordMessages
    PROVE  TransportTypeOK(S)
<1>1. \A c \in Conns, d \in Devices : inbox[c][d] \in Seq(S)
  <2> TAKE c \in Conns, d \in Devices
  <2>1. inbox[c][d] \in Seq(Message)
    BY DEF TypeOK, TransportTypeOK
  <2>2. \A i \in 1..Len(inbox[c][d]) : inbox[c][d][i] \in S
    BY <2>1 DEF LogInv, RecordMessages
  <2>3. QED
    BY <2>1, <2>2
<1>2. inbox \in [Conns -> [Devices -> Seq(S)]]
  BY <1>1 DEF TypeOK, TransportTypeOK
<1>3. QED
  BY <1>2 DEF TypeOK, TransportTypeOK

(* append: the identity it gives out is new. *)
LEMMA AppendIsNew ==
    ASSUME TypeOK, TypeOK', LogInv, NEW d \in Devices, NEW l \in LogKeys, NEW x \in Contents,
           LogAppend(d, l, x)
    PROVE  /\ appended \subseteq appended'
           /\ \A e \in Devices, m \in LogKeys : KnownRecords(m, logs[e][m])'
           /\ PositionsTaken' /\ RecordIdsUnique'
<1> DEFINE rec == [content |-> x, seq |-> Len(logs[d][l]), device |-> d, ts |-> Time(d)]
           longer == Appended(logs[d][l], x, d, Time(d))
           new == [key |-> l, rec |-> rec]
<1>1. logs \in [Devices -> [LogKeys -> Seq(Record)]]
  BY DEF TypeOK
<1>2. logs' = [logs EXCEPT ![d][l] = longer]
  BY DEF LogAppend
<1>3. logs'[d][l] = longer
  BY <1>1, <1>2
<1>4. \A e \in Devices, m \in LogKeys : e # d \/ m # l => logs'[e][m] = logs[e][m]
  BY <1>1, <1>2
<1>5. /\ Len(longer) = Len(logs[d][l]) + 1 /\ Len(logs[d][l]) \in Nat
      /\ DOMAIN longer = 1..(Len(logs[d][l]) + 1) /\ DOMAIN logs[d][l] = 1..Len(logs[d][l])
      /\ \A i \in DOMAIN logs[d][l] : longer[i] = logs[d][l][i]
      /\ longer[Len(logs[d][l]) + 1] = rec
  BY <1>1, AppendKeeps
<1>6. appended' = appended \cup {new}
  BY <1>3, <1>5 DEF LogAppend
<1>7. new.key = l /\ new.rec = rec /\ rec.seq = Len(logs[d][l]) /\ rec.device = d
  OBVIOUS
<1> HIDE DEF longer, new, rec
<1>8. \A y \in appended : y.rec.seq \in Nat /\ y.rec.device \in Devices /\ y.key \in LogKeys
  BY DEF TypeOK, Record, LogRecord
<1>9. \A y \in appended : y.key = l => RecordId(y.rec) # RecordId(rec)
  BY <1>5, <1>7, <1>8 DEF LogInv, PositionsTaken, RecordId
<1>10. \A e \in Devices, m \in LogKeys : KnownRecords(m, logs[e][m])'
  <2>1. \A e \in Devices, m \in LogKeys : \A r \in RecordsOf(logs[e][m]) :
           [key |-> m, rec |-> r] \in appended'
    BY <1>6 DEF LogInv, KnownRecords
  <2>2. \A r \in RecordsOf(longer) : r \in RecordsOf(logs[d][l]) \/ r = rec
    BY <1>5 DEF RecordsOf
  <2>3. [key |-> l, rec |-> rec] \in appended'
    BY <1>6 DEF new
  <2>4. \A e \in Devices, m \in LogKeys : \A r \in RecordsOf(logs'[e][m]) :
           [key |-> m, rec |-> r] \in appended'
    BY <1>3, <1>4, <2>1, <2>2, <2>3
  <2>5. QED
    BY <2>4 DEF KnownRecords, RecordsOf
<1>11. PositionsTaken'
  <2>1. ASSUME NEW y \in appended' PROVE y.rec.seq < Len(logs'[y.rec.device][y.key])
    <3>1. CASE y = new
      BY <1>3, <1>5, <1>7, <3>1
    <3>2. CASE y \in appended
      <4>1. y.rec.seq < Len(logs[y.rec.device][y.key])
        BY <3>2 DEF LogInv, PositionsTaken
      <4>2. QED
        BY <1>3, <1>4, <1>5, <1>8, <3>2, <4>1
    <3>3. QED
      BY <1>6, <3>1, <3>2
  <2>2. QED
    BY <2>1 DEF PositionsTaken
<1>12. \A y, z \in appended' : y.key = z.key /\ RecordId(y.rec) = RecordId(z.rec) => y = z
  <2>1. \A y, z \in appended : y.key = z.key /\ RecordId(y.rec) = RecordId(z.rec) => y = z
    BY DEF LogInv, RecordIdsUnique
  <2>2. QED
    BY <1>6, <1>7, <1>9, <2>1
<1>13. ASSUME NEW e \in Devices, NEW m \in LogKeys, NEW i \in DOMAIN logs'[e][m],
              NEW j \in DOMAIN logs'[e][m], RecordId(logs'[e][m][i]) = RecordId(logs'[e][m][j])
       PROVE  i = j
  <2>1. \A p, q \in DOMAIN logs[e][m] : RecordId(logs[e][m][p]) = RecordId(logs[e][m][q]) => p = q
    BY DEF LogInv, RecordIdsUnique
  <2>2. CASE e = d /\ m = l
    <3>1. \A p \in DOMAIN logs[d][l] : RecordId(logs[d][l][p]) # RecordId(rec)
      <4>1. \A p \in DOMAIN logs[d][l] : [key |-> l, rec |-> logs[d][l][p]] \in appended
        BY DEF LogInv, KnownRecords, RecordsOf
      <4>2. QED
        BY <1>9, <4>1
    <3>2. PICK old, grown, k : /\ old = logs[d][l] /\ grown = logs'[d][l]
                               /\ k = Len(logs[d][l]) + 1
      OBVIOUS
    <3>3. /\ DOMAIN grown = DOMAIN old \cup {k} /\ grown[k] = rec
          /\ \A p \in DOMAIN old : grown[p] = old[p]
      BY <1>3, <1>5, <3>2
    <3>4. i \in DOMAIN grown /\ j \in DOMAIN grown /\ RecordId(grown[i]) = RecordId(grown[j])
      BY <1>13, <2>2, <3>2
    <3>5. /\ \A p, q \in DOMAIN old : RecordId(old[p]) = RecordId(old[q]) => p = q
          /\ \A p \in DOMAIN old : RecordId(old[p]) # RecordId(rec)
      BY <2>1, <2>2, <3>1, <3>2
    <3>6. QED
      BY <3>3, <3>4, <3>5
  <2>3. CASE ~(e = d /\ m = l)
    BY <1>4, <1>13, <2>1, <2>3
  <2>4. QED
    BY <2>2, <2>3
<1>14. QED
  BY <1>6, <1>10, <1>11, <1>12, <1>13 DEF RecordIdsUnique

(* A merge keeps the positions taken and the identities apart. *)
LEMMA MergeKeepsIds ==
    ASSUME TypeOK, LogInv, NEW d \in Devices, NEW c \in Conns, NEW diff \in Diffs,
           Dispatch(d, c), diff = Head(inbox[c][d]).diff,
           Head(inbox[c][d]).type \in {"response", "update"},
           logs' = [logs EXCEPT ![d] = MergedLogs(d, diff)], UNCHANGED appended
    PROVE  /\ \A e \in Devices, m \in LogKeys : KnownRecords(m, logs[e][m])'
           /\ PositionsTaken' /\ RecordIdsUnique'
<1>1. logs \in [Devices -> [LogKeys -> Seq(Record)]]
  BY DEF TypeOK
<1>2. \A m \in LogKeys : diff.logs[m] \in Seq(Record)
  BY DEF Diffs
<1>3. \A m \in LogKeys : KnownRecords(m, diff.logs[m])
  <2>1. PICK S : S = RecordMessages
    OBVIOUS
  <2>2. Head(inbox[c][d]) \in S
    BY <2>1, InboxesRecorded, ConsumedType
  <2>3. QED
    BY <2>1, <2>2 DEF RecordMessages, RecordMessage
<1>4. \A e \in Devices, m \in LogKeys :
         \/ logs'[e][m] = logs[e][m]
         \/ logs'[e][m] = LogMerged(logs[e][m], diff.logs[m])
  BY <1>1 DEF MergedLogs
<1>5. ASSUME NEW e \in Devices, NEW m \in LogKeys
      PROVE  /\ KnownRecords(m, logs'[e][m])
             /\ Len(logs'[e][m]) >= Len(logs[e][m])
             /\ \A i, j \in DOMAIN logs'[e][m] :
                   RecordId(logs'[e][m][i]) = RecordId(logs'[e][m][j]) => i = j
  <2>1. PICK log, remote : log = logs[e][m] /\ remote = diff.logs[m]
    OBVIOUS
  <2>2. log \in Seq(Record) /\ remote \in Seq(Record)
    BY <1>1, <1>2, <2>1
  <2>3. KnownRecords(m, log) /\ KnownRecords(m, remote)
    BY <1>3, <2>1 DEF LogInv
  <2>4. \A i, j \in DOMAIN log : RecordId(log[i]) = RecordId(log[j]) => i = j
    BY <2>1 DEF LogInv, RecordIdsUnique
  <2>5. CASE logs'[e][m] = logs[e][m]
    BY <2>1, <2>2, <2>3, <2>4, <2>5
  <2>6. CASE logs'[e][m] = LogMerged(log, remote)
    <3>1. PICK merged : merged = LogMerged(log, remote)
      OBVIOUS
    <3>2. /\ RecordsOf(merged) \subseteq RecordsOf(log) \cup RecordsOf(remote)
          /\ Len(merged) >= Len(log)
      BY <2>2, <3>1, MergedKeepsRecords
    <3>3. KnownRecords(m, merged)
      BY <2>3, <3>2 DEF KnownRecords
    <3>4. \A i, j \in DOMAIN merged : RecordId(merged[i]) = RecordId(merged[j]) => i = j
      BY <2>2, <2>4, <3>1, RecordsAreRecords, LogMergedIdsUnique
    <3>5. logs'[e][m] = merged
      BY <2>6, <3>1
    <3>6. QED
      BY <2>1, <3>2, <3>3, <3>4, <3>5
  <2>7. QED
    BY <1>4, <2>1, <2>5, <2>6
<1>6. \A e \in Devices, m \in LogKeys : KnownRecords(m, logs[e][m])'
  BY <1>5 DEF KnownRecords, RecordsOf
<1>7. PositionsTaken'
  <2>1. ASSUME NEW y \in appended PROVE y.rec.seq < Len(logs'[y.rec.device][y.key])
    <3>1. y.rec.device \in Devices /\ y.key \in LogKeys /\ y.rec.seq \in Nat
      BY DEF TypeOK, Record, LogRecord
    <3>2. y.rec.seq < Len(logs[y.rec.device][y.key])
      BY DEF LogInv, PositionsTaken
    <3>3. PICK e \in Devices, m \in LogKeys : e = y.rec.device /\ m = y.key
      BY <3>1
    <3>4. Len(logs[e][m]) \in Nat /\ Len(logs'[e][m]) >= Len(logs[e][m])
      BY <1>1, <1>5
    <3>5. Len(logs'[e][m]) \in Nat
      <4>1. LogMerged(logs[e][m], diff.logs[m]) \in Seq(Record)
        BY <1>1, <1>2, MergedKeepsRecords
      <4>2. logs'[e][m] \in Seq(Record)
        BY <1>1, <1>4, <4>1
      <4>3. QED
        BY <4>2
    <3>6. QED
      BY <3>1, <3>2, <3>3, <3>4, <3>5
  <2>2. QED
    BY <2>1 DEF PositionsTaken
<1>8. RecordIdsUnique'
  BY <1>5 DEF LogInv, RecordIdsUnique
<1>9. QED
  BY <1>6, <1>7, <1>8

LEMMA LogInvNext ==
    ASSUME TypeOK, TypeOK', SyncInv, ~TornWrites, LogInv, [Next]_vars
    PROVE  LogInv'
<1>1. /\ appended \subseteq appended'
      /\ \A e \in Devices, m \in LogKeys : KnownRecords(m, logs[e][m])'
      /\ PositionsTaken' /\ RecordIdsUnique'
  <2>1. CASE UNCHANGED <<logs, appended>>
    BY <2>1 DEF LogInv, KnownRecords, RecordsOf, PositionsTaken, RecordIdsUnique
  <2>2. QED
    BY <2>1, LogCases, AppendIsNew, MergeKeepsIds
<1>2. PICK S : S = RecordMessages
  OBVIOUS
<1>3. \A m \in Message : m.type \in {"announce", "request"} => m \in S
  BY <1>2 DEF RecordMessages, RecordMessage
<1>4. ASSUME NEW m \in Message, NEW d \in Devices, NEW state \in SyncStates,
             m.diff = DiffOf(registers[d], logs[d], Time(d), state)
      PROVE  m \in S
  <2>1. logs[d] \in Logs /\ \A l \in LogKeys : KnownRecords(l, logs[d][l])
    BY DEF TypeOK, Logs, LogInv
  <2>2. \A l \in LogKeys : KnownRecords(l, m.diff.logs[l])
    BY <1>4, <2>1, KnownLogDiff
  <2>3. QED
    BY <1>2, <2>2 DEF RecordMessages, RecordMessage
<1>5. ASSUME UNCHANGED history, NEW m \in Message, NEW d \in Devices,
             NEW state \in SyncStates,
             m.diff = DiffOf(registers'[d], logs'[d], Time(d), state)
      PROVE  m \in S
  <2>1. PICK regs, lgs : regs = registers'[d] /\ lgs = logs'[d]
    OBVIOUS
  <2>2. lgs \in Logs
    BY <2>1 DEF TypeOK, Logs
  <2>3. \A l \in LogKeys : KnownRecords(l, lgs[l])
    BY <1>1, <1>5, <2>1 DEF KnownRecords, RecordsOf, history
  <2>4. \A l \in LogKeys : KnownRecords(l, m.diff.logs[l])
    BY <1>5, <2>1, <2>2, <2>3, KnownLogDiff
  <2>5. QED
    BY <1>2, <2>4 DEF RecordMessages, RecordMessage
<1>6. inbox' \in Inboxes(S)
  BY <1>2, <1>3, <1>4, <1>5, InboxesRecorded, NextInboxOf
<1>7. \A m \in S : RecordMessage(m)'
  BY <1>1, <1>2, RecordsGrow DEF RecordMessages
<1>8. \A c \in Conns, d \in Devices : \A i \in DOMAIN inbox'[c][d] : RecordMessage(inbox[c][d][i])'
  <2> TAKE c \in Conns, d \in Devices
  <2>1. inbox'[c][d] \in Seq(S)
    BY <1>6 DEF Inboxes
  <2>2. \A i \in DOMAIN inbox'[c][d] : inbox'[c][d][i] \in S
    BY <2>1
  <2>3. QED
    BY <1>7, <2>2
<1>9. QED
  BY <1>1, <1>8 DEF LogInv

(* RecordsUnique: unless a save is torn, a device and a position identify one  *)
(* record for good, so a merge that skips a record has it already.             *)
THEOREM RecordsUnique ==
    ASSUME ~TornWrites
    PROVE  Spec => []RecordIdsUnique
<1>1. Init => LogInv
  <2> SUFFICES ASSUME Init PROVE LogInv
    OBVIOUS
  <2>1. /\ \A d \in Devices, l \in LogKeys : logs[d][l] = <<>>
        /\ \A c \in Conns, d \in Devices : inbox[c][d] = <<>>
        /\ appended = {}
    BY DEF Init, EmptyMemory, TransportInit
  <2>2. QED
    BY <2>1 DEF LogInv, KnownRecords, RecordsOf, PositionsTaken, RecordIdsUnique
<1>2. TypeOK /\ TypeOK' /\ SyncInv /\ LogInv /\ [Next]_vars => LogInv'
  BY LogInvNext
<1>3. LogInv => RecordIdsUnique
  BY DEF LogInv
<1>4. QED
  BY <1>1, <1>2, <1>3, TypeCorrect, SyncInvariant, PTL DEF Spec

-------------------------------------------------------------------------------
(* Who has put what under way.                                                 *)

(* A message d may put on c: a request or response reports d's store as it is  *)
(* or, in a push, as it was when the push woke up; a diff answers what the     *)
(* peer has reported.                                                          *)
NewMail(m, d, c) ==
    \/ m.type = "announce"
    \/ /\ m.type = "request"
       /\ \/ m.state = SyncStateOf(registers[d], logs[d], Time(d))
          \/ \E t \in PushTasks : m.state = task[d][t].state
    \/ /\ m.type = "response"
       /\ m.state = SyncStateOf(registers[d], logs[d], Time(d))
       /\ \E r \in Waiting(inbox, c, d) :
             /\ r.type = "request" /\ r.state \in SyncStates
             /\ m.diff = DiffOf(registers[d], logs[d], Time(d), r.state)
    \/ /\ m.type = "update"
       /\ \E r \in Waiting(inbox, c, d) :
             /\ r.type = "response" /\ r.state \in SyncStates
             /\ m.diff = DiffOf(registers'[d], logs'[d], Time(d), r.state)

AddsMail ==
    \E c \in Conns, d \in Devices : \E m :
        /\ Opened(c) /\ d \in {ends[c].opener, ends[c].acceptor}
        /\ NewMail(m, d, c) /\ AddsOnly(c, d, m)

LEMMA SendAdds ==
    ASSUME TypeOK, OnlyEnds, NEW c \in Conns, NEW d \in Devices, NEW m,
           d \in openAt[c], NewMail(m, d, c),
           \/ UNCHANGED inbox
           \/ inbox' = Sent(inbox, c, d, m)
    PROVE  AddsNothing \/ AddsMail
<1>1. inbox \in Inboxes(Message)
  BY DEF TypeOK, TransportTypeOK, Inboxes
<1>2. CASE UNCHANGED inbox
  BY <1>2 DEF AddsNothing
<1>3. CASE inbox' = Sent(inbox, c, d, m)
  <2>1. AddsOnly(c, d, m)
    BY <1>1, <1>3, SentAdds DEF AddsOnly
  <2>2. QED
    BY <2>1 DEF OnlyEnds, AddsMail
<1>4. QED
  BY <1>2, <1>3

LEMMA ReplyAdds ==
    ASSUME TypeOK, OnlyEnds, NEW c \in Conns, NEW d \in Devices, NEW m, Dispatch(d, c),
           \/ inbox' = Consumed(c, d)
           \/ NewMail(m, d, c) /\ inbox' = Sent(Consumed(c, d), c, d, m)
    PROVE  AddsNothing \/ AddsMail
<1>1. /\ TransportTypeOK(Message) /\ inbox[c][d] # <<>>
      /\ Consumed(c, d) \in Inboxes(Message)
  BY ConsumedType DEF TypeOK, Dispatch
<1>2. \A x \in Conns, p \in Devices : Waiting(Consumed(c, d), x, p) \subseteq Waiting(inbox, x, p)
  BY <1>1, ConsumedLeaves
<1>3. CASE inbox' = Consumed(c, d)
  BY <1>2, <1>3 DEF AddsNothing
<1>4. CASE NewMail(m, d, c) /\ inbox' = Sent(Consumed(c, d), c, d, m)
  <2>1. AddsOnly(c, d, m)
    <3>1. ASSUME NEW x \in Conns, NEW p \in Devices, NEW k \in Waiting(inbox', x, p)
          PROVE  k \in Waiting(inbox, x, p) \/ (x = c /\ p = Peer(c, d) /\ k = m)
      <4>1. k \in Waiting(Consumed(c, d), x, p) \/ (x = c /\ p = Peer(c, d) /\ k = m)
        BY <1>1, <1>4, <3>1, SentAdds
      <4>2. QED
        BY <1>2, <4>1
    <3>2. QED
      BY <3>1 DEF AddsOnly
  <2>2. Opened(c) /\ d \in {ends[c].opener, ends[c].acceptor}
    BY DispatchedWaits DEF TypeOK
  <2>3. QED
    BY <1>4, <2>1, <2>2 DEF AddsMail
<1>5. QED
  BY <1>3, <1>4

(* Apart from a new connection, a step leaves the ends where they are and puts *)
(* at most one message under way. *)
LEMMA MailCases ==
    ASSUME TypeOK, OnlyEnds, [Next]_vars
    PROVE  \/ \E d \in Devices, e \in Devices, c \in Conns :
                 Connect(d, e, c, <<[type |-> "announce"]>>)
           \/ /\ UNCHANGED ends
              /\ \A c \in Conns : openAt'[c] \subseteq openAt[c]
              /\ AddsNothing \/ AddsMail
<1> DEFINE Quiet == UNCHANGED ends /\ (\A c \in Conns : openAt'[c] \subseteq openAt[c])
           Goal == Quiet /\ (AddsNothing \/ AddsMail)
<1>1. UNCHANGED <<ends, openAt, inbox>> => Goal
  BY DEF AddsNothing
<1>2. \A d \in Devices, k \in RegKeys, v \in Values, ttl \in TTLs \cup {Unset} :
         Set(d, k, v, ttl) => UNCHANGED <<ends, openAt, inbox>>
  BY DEF Set, transportVars
<1>3. \A d \in Devices, k \in RegKeys : Get(d, k) => UNCHANGED <<ends, openAt, inbox>>
  BY DEF Get, transportVars
<1>4. \A d \in Devices, l \in LogKeys, x \in Contents :
         LogAppend(d, l, x) => UNCHANGED <<ends, openAt, inbox>>
  BY DEF LogAppend, transportVars
<1>5. \A d \in Devices, t \in PushTasks : Wake(d, t) => UNCHANGED <<ends, openAt, inbox>>
  BY DEF Wake, transportVars
<1>6. \A c \in Conns : DropConn(c) => UNCHANGED <<ends, openAt, inbox>>
  BY DEF DropConn, Drop
<1>7. Tick \/ UNCHANGED vars => UNCHANGED <<ends, openAt, inbox>>
  BY DEF Tick, vars, transportVars
<1>8. ASSUME NEW d \in Devices, Restart(d) \/ RestartTorn(d) PROVE Goal
  BY <1>8, ResetAdds DEF Restart, RestartTorn, StartFrom, TypeOK
<1>9. ASSUME NEW d \in Devices, NEW c \in Conns, ReceiveLoopEnds(d, c) PROVE Goal
  BY <1>9, LoopEndsAdds DEF ReceiveLoopEnds, TypeOK
<1>10. ASSUME NEW d \in Devices, NEW c \in Conns, SyncWithPeer(d, c) PROVE Goal
  <2>1. PICK m : m = [type |-> "request",
                      state |-> SyncStateOf(registers[d], logs[d], Time(d))]
    OBVIOUS
  <2>2. NewMail(m, d, c)
    BY <2>1 DEF NewMail
  <2>3. Quiet
    BY <1>10 DEF SyncWithPeer
  <2>4. CASE d \in openAt[c]
    <3>1. inbox' = Sent(inbox, c, d, m)
      BY <1>10, <2>1, <2>4 DEF SyncWithPeer
    <3>2. QED
      BY <2>2, <2>3, <2>4, <3>1, SendAdds
  <2>5. CASE d \notin openAt[c]
    BY <1>10, <2>3, <2>5 DEF SyncWithPeer, AddsNothing
  <2>6. QED
    BY <2>4, <2>5
<1>11. ASSUME NEW d \in Devices, NEW t \in PushTasks, NEW e \in Devices, NEW c \in Conns,
              PushSend(d, t, e, c)
       PROVE  Goal
  <2>1. PICK m : m = [type |-> "request", state |-> task[d][t].state]
    OBVIOUS
  <2>2. NewMail(m, d, c)
    BY <2>1 DEF NewMail
  <2>3. Quiet
    BY <1>11 DEF PushSend
  <2>4. (d \in openAt[c] /\ inbox' = Sent(inbox, c, d, m)) \/ UNCHANGED inbox
    BY <1>11, <2>1 DEF PushSend, BroadcastSend
  <2>5. QED
    BY <2>2, <2>3, <2>4, SendAdds DEF AddsNothing
<1>12. ASSUME NEW d \in Devices, NEW c \in Conns, HandleAnnounce(d, c) \/ HandleUpdate(d, c)
       PROVE  Goal
  <2>1. Dispatch(d, c) /\ inbox' = Consumed(c, d)
    BY <1>12 DEF HandleAnnounce, HandleUpdate
  <2>2. Quiet
    BY <2>1 DEF Dispatch
  <2>3. QED
    BY <2>1, <2>2, ReplyAdds
<1>13. ASSUME NEW d \in Devices, NEW c \in Conns, HandleRequest(d, c) PROVE Goal
  <2>1. PICK r : r = Head(inbox[c][d])
    OBVIOUS
  <2>2. PICK m : m = [type |-> "response",
                      diff |-> DiffOf(registers[d], logs[d], Time(d), r.state),
                      state |-> SyncStateOf(registers[d], logs[d], Time(d))]
    OBVIOUS
  <2>3. /\ Dispatch(d, c) /\ r.type = "request"
        /\ inbox' = Sent(Consumed(c, d), c, d, m)
    BY <1>13, <2>1, <2>2 DEF HandleRequest
  <2>4. r \in Waiting(inbox, c, d) /\ r.state \in SyncStates
    BY <2>1, <2>3, DispatchedWaits, DispatchedMessage DEF TypeOK
  <2>5. NewMail(m, d, c)
    BY <2>2, <2>3, <2>4 DEF NewMail
  <2>6. Quiet
    BY <2>3 DEF Dispatch
  <2>7. QED
    BY <2>3, <2>5, <2>6, ReplyAdds
<1>14. ASSUME NEW d \in Devices, NEW c \in Conns, HandleResponse(d, c) PROVE Goal
  <2>1. PICK r : r = Head(inbox[c][d])
    OBVIOUS
  <2>2. PICK m : m = [type |-> "update",
                      diff |-> DiffOf(registers'[d], logs'[d], Time(d), r.state)]
    OBVIOUS
  <2>3. /\ Dispatch(d, c) /\ r.type = "response"
        /\ inbox' = Consumed(c, d) \/ inbox' = Sent(Consumed(c, d), c, d, m)
    BY <1>14, <2>1, <2>2 DEF HandleResponse
  <2>4. r \in Waiting(inbox, c, d) /\ r.state \in SyncStates
    BY <2>1, <2>3, DispatchedWaits, DispatchedMessage DEF TypeOK
  <2>5. NewMail(m, d, c)
    BY <2>2, <2>3, <2>4 DEF NewMail
  <2>6. Quiet
    BY <2>3 DEF Dispatch
  <2>7. QED
    BY <2>3, <2>5, <2>6, ReplyAdds
<1>15. \A d \in Devices, e \in Devices, c \in Conns : ConnectToPeer(d, e, c) =>
          Connect(d, e, c, <<[type |-> "announce"]>>)
  BY DEF ConnectToPeer
<1> HIDE DEF Goal
<1>16. Goal \/ \E d \in Devices, e \in Devices, c \in Conns : ConnectToPeer(d, e, c)
  BY <1>1, <1>2, <1>3, <1>4, <1>5, <1>6, <1>7, <1>8, <1>9, <1>10, <1>11, <1>12, <1>13,
     <1>14, NextCases
<1>17. QED
  BY <1>15, <1>16 DEF Goal

(* TransportInv, of this protocol's steps. *)
LEMMA TransportNext ==
    ASSUME TypeOK, TransportInv, [Next]_vars
    PROVE  TransportInv'
<1>1. UNCHANGED <<ends, openAt, bound, table>> => TransportInv'
  BY DEF TransportInv, Opened, Peer
<1>2. \A d \in Devices, k \in RegKeys, v \in Values, ttl \in TTLs \cup {Unset} :
         Set(d, k, v, ttl) => UNCHANGED <<ends, openAt, bound, table>>
  BY DEF Set, transportVars
<1>3. \A d \in Devices, k \in RegKeys : Get(d, k) => UNCHANGED <<ends, openAt, bound, table>>
  BY DEF Get, transportVars
<1>4. \A d \in Devices, l \in LogKeys, x \in Contents :
         LogAppend(d, l, x) => UNCHANGED <<ends, openAt, bound, table>>
  BY DEF LogAppend, transportVars
<1>5. \A d \in Devices, t \in PushTasks : Wake(d, t) => UNCHANGED <<ends, openAt, bound, table>>
  BY DEF Wake, transportVars
<1>6. \A c \in Conns : DropConn(c) => UNCHANGED <<ends, openAt, bound, table>>
  BY DEF DropConn, Drop
<1>7. Tick \/ UNCHANGED vars => UNCHANGED <<ends, openAt, bound, table>>
  BY DEF Tick, vars, transportVars
<1>8. ASSUME NEW d \in Devices, Restart(d) \/ RestartTorn(d) PROVE TransportInv'
  BY <1>8, ResetInv DEF Restart, RestartTorn, StartFrom, TypeOK
<1>9. ASSUME NEW d \in Devices, NEW c \in Conns, ReceiveLoopEnds(d, c) PROVE TransportInv'
  BY <1>9, LoopEndsInv DEF ReceiveLoopEnds, TypeOK
<1>10. \A d \in Devices, c \in Conns : SyncWithPeer(d, c) =>
          UNCHANGED <<ends, openAt, bound, table>>
  BY DEF SyncWithPeer
<1>11. ASSUME NEW d \in Devices, NEW t \in PushTasks, NEW e \in Devices, NEW c \in Conns,
              PushSend(d, t, e, c)
       PROVE  TransportInv'
  <2>1. UNCHANGED <<ends, openAt, bound>>
    BY <1>11 DEF PushSend
  <2>2. table' = table \/ table' = [table EXCEPT ![d][e] = NoConn]
    BY <1>11 DEF PushSend, BroadcastSend, BroadcastFails
  <2>3. \A p, q \in Devices : table'[p][q] \in {table[p][q], NoConn}
    <3>1. table \in [Devices -> [Devices -> Conns \cup {NoConn}]]
      BY DEF TypeOK, TransportTypeOK
    <3>2. QED
      BY <2>2, <3>1
  <2>4. QED
    BY <2>1, <2>3, FewerEntriesInv
<1>12. ASSUME NEW d \in Devices, NEW c \in Conns,
              \/ HandleAnnounce(d, c) \/ HandleUpdate(d, c)
              \/ HandleRequest(d, c) \/ HandleResponse(d, c)
       PROVE  TransportInv'
  <2>1. Dispatch(d, c)
    BY <1>12 DEF HandleAnnounce, HandleUpdate, HandleRequest, HandleResponse
  <2>2. QED
    BY <2>1, DispatchInv DEF TypeOK
<1>13. ASSUME NEW d \in Devices, NEW e \in Devices, NEW c \in Conns, ConnectToPeer(d, e, c)
       PROVE  TransportInv'
  BY <1>13, ConnectInv DEF ConnectToPeer, TypeOK
<1>14. QED
  BY <1>1, <1>2, <1>3, <1>4, <1>5, <1>6, <1>7, <1>8, <1>9, <1>10, <1>11, <1>12, <1>13,
     NextCases

-------------------------------------------------------------------------------
(* Logs with one writer.  A device that reports a length keeps at least that   *)
(* many records, so what it is sent in answer starts no later than its own log *)
(* ends, however late it comes and whatever came in between.                   *)

OnlyWriter(l, w) == Writers[l] = {w}

OwnLog(l, w) ==
    AppendedBy(logs[w][l], w) /\ \A i \in DOMAIN logs[w][l] : logs[w][l][i].ts <= Time(w)

Reported(state, d) == \A l \in LogKeys : state.logs[l] <= Len(logs[d][l])

Continues(diff, d) ==
    \A l \in LogKeys, w \in Devices : OnlyWriter(l, w) =>
        ContinuationOf(diff.logs[l], Len(logs[d][l]), logs[w][l])

PrefixMessage(m, from, to) ==
    /\ m.type \in {"request", "response"} => Reported(m.state, from)
    /\ m.type \in {"response", "update"} => Continues(m.diff, to)

PrefixInv ==
    /\ TransportInv
    /\ OnlyEnds
    /\ \A l \in LogKeys, w \in Devices : OnlyWriter(l, w) =>
          OwnLog(l, w) /\ \A d \in Devices : BeginningOf(logs[d][l], logs[w][l])
    /\ \A d \in Devices, t \in PushTasks : Reported(task[d][t].state, d)
    /\ \A c \in Conns, d \in Devices : \A m \in Waiting(inbox, c, d) :
          PrefixMessage(m, Peer(c, d), d)

(* The facts of PrefixInv about the logs themselves, and that none gets shorter. *)
LogsExtended ==
    /\ \A d \in Devices, l \in LogKeys : Len(logs[d][l]) <= Len(logs'[d][l])
    /\ \A l \in LogKeys, w \in Devices : OnlyWriter(l, w) =>
          /\ OwnLog(l, w)'
          /\ BeginningOf(logs[w][l], logs'[w][l])
          /\ \A d \in Devices : BeginningOf(logs'[d][l], logs'[w][l])

LEMMA NowGrows ==
    ASSUME TypeOK, [Next]_vars
    PROVE  \A d \in Devices :
              Time(d) \in Nat /\ Time(d)' \in Nat /\ Time(d) <= Time(d)'
<1>1. now' = now \/ now' = now + 1
  <2>1. \A d \in Devices, k \in RegKeys, v \in Values, ttl \in TTLs \cup {Unset} :
           Set(d, k, v, ttl) => now' = now
    BY DEF Set, envVars
  <2>2. \A d \in Devices, k \in RegKeys : Get(d, k) => now' = now
    BY DEF Get, envVars
  <2>3. \A d \in Devices, l \in LogKeys, x \in Contents : LogAppend(d, l, x) => now' = now
    BY DEF LogAppend, envVars
  <2>4. \A d \in Devices : Restart(d) \/ RestartTorn(d) => now' = now
    BY DEF Restart, RestartTorn, StartFrom
  <2>5. \A d \in Devices, t \in PushTasks : Wake(d, t) => now' = now
    BY DEF Wake, envVars
  <2>6. \A d \in Devices, t \in PushTasks, e \in Devices, c \in Conns :
           PushSend(d, t, e, c) => now' = now
    BY DEF PushSend, envVars
  <2>7. \A d \in Devices, e \in Devices, c \in Conns : ConnectToPeer(d, e, c) => now' = now
    BY DEF ConnectToPeer, envVars
  <2>8. \A d \in Devices, c \in Conns :
           (\/ SyncWithPeer(d, c) \/ ReceiveLoopEnds(d, c)
            \/ HandleAnnounce(d, c) \/ HandleRequest(d, c)
            \/ HandleResponse(d, c) \/ HandleUpdate(d, c)) => now' = now
    BY DEF SyncWithPeer, ReceiveLoopEnds, HandleAnnounce, HandleRequest, HandleResponse,
           HandleUpdate, envVars
  <2>9. \A c \in Conns : DropConn(c) => now' = now
    BY DEF DropConn, envVars
  <2>10. Tick => now' = now + 1
    BY DEF Tick
  <2>11. UNCHANGED vars => now' = now
    BY DEF vars, envVars
  <2>12. QED
    BY <2>1, <2>2, <2>3, <2>4, <2>5, <2>6, <2>7, <2>8, <2>9, <2>10, <2>11, NextCases
<1>2. now \in Nat /\ \A d \in Devices : Skew[d] \in Nat
  BY MemorySyncAssumption DEF TypeOK
<1>3. QED
  BY <1>1, <1>2 DEF Time

(* append, by the only device that may. *)
LEMMA AppendExtends ==
    ASSUME TypeOK, TypeOK', PrefixInv, [Next]_vars,
           NEW e \in Devices, NEW k \in LogKeys, NEW x \in Contents,
           e \in Writers[k], LogAppend(e, k, x)
    PROVE  LogsExtended
<1> DEFINE old == logs[e][k]
           longer == Appended(old, x, e, Time(e))
           n == Len(old)
<1>1. logs \in [Devices -> [LogKeys -> Seq(Record)]] /\ old \in Seq(Record) /\ n \in Nat
  BY DEF TypeOK
<1>2. logs' = [logs EXCEPT ![e][k] = longer]
  BY DEF LogAppend
<1>3. \A d \in Devices, l \in LogKeys :
         logs'[d][l] = IF d = e /\ l = k THEN longer ELSE logs[d][l]
  BY <1>1, <1>2
<1>4. /\ Len(longer) = n + 1 /\ DOMAIN longer = 1..(n + 1) /\ DOMAIN old = 1..n
      /\ \A i \in DOMAIN old : longer[i] = old[i]
      /\ longer[n + 1].device = e /\ longer[n + 1].seq = n /\ longer[n + 1].ts = Time(e)
  <2>1. PICK rec : rec = [content |-> x, seq |-> Len(old), device |-> e, ts |-> Time(e)]
    OBVIOUS
  <2>2. rec.device = e /\ rec.seq = Len(old) /\ rec.ts = Time(e)
    BY <2>1
  <2>3. /\ Len(longer) = Len(old) + 1
        /\ DOMAIN longer = 1..(Len(old) + 1)
        /\ \A i \in DOMAIN old : longer[i] = old[i]
        /\ longer[Len(old) + 1] = rec
    BY <1>1, <2>1, AppendKeeps
  <2>4. DOMAIN old = 1..n
    BY <1>1
  <2> HIDE DEF longer, old
  <2>5. QED
    BY <2>2, <2>3, <2>4
<1>5. \A d \in Devices, l \in LogKeys : Len(logs[d][l]) \in Nat
  BY <1>1
<1>6. Time(e) \in Nat /\ Time(e) <= Time(e)'
  BY NowGrows
<1> HIDE DEF longer, old, n
<1>7. BeginningOf(old, longer)
  BY <1>1, <1>4 DEF BeginningOf, n
<1>8. \A d \in Devices, l \in LogKeys : Len(logs[d][l]) <= Len(logs'[d][l])
  BY <1>1, <1>3, <1>4, <1>5 DEF old, n
<1>9. ASSUME NEW l \in LogKeys, NEW w \in Devices, OnlyWriter(l, w)
      PROVE  /\ OwnLog(l, w)'
             /\ BeginningOf(logs[w][l], logs'[w][l])
             /\ \A d \in Devices : BeginningOf(logs'[d][l], logs'[w][l])
  <2>1. /\ OwnLog(l, w)
        /\ \A d \in Devices : BeginningOf(logs[d][l], logs[w][l])
    BY <1>9 DEF PrefixInv
  <2>2. Time(w) \in Nat /\ Time(w)' \in Nat /\ Time(w) <= Time(w)'
    BY NowGrows
  <2>3. CASE l = k
    <3>1. w = e /\ logs[w][l] = old
      BY <1>9, <2>3 DEF OnlyWriter, old
    <3>2. logs'[w][l] = longer
      BY <1>3, <2>3, <3>1
    <3>3. /\ \A i \in DOMAIN old : /\ old[i].device = e /\ old[i].seq = i - 1
                                   /\ old[i].ts <= Time(e) /\ old[i].ts \in Nat
          /\ \A i, j \in DOMAIN old : i <= j => old[i].ts <= old[j].ts
      <4>1. \A i \in DOMAIN old : old[i] \in Record
        BY <1>1
      <4>2. QED
        BY <2>1, <3>1, <4>1 DEF OwnLog, AppendedBy, Record, LogRecord
    <3>4. \A i \in DOMAIN longer : i \in DOMAIN old \/ i = n + 1
      BY <1>1, <1>4
    <3>5. AppendedBy(longer, e)
      <4>1. \A i \in DOMAIN longer : longer[i].device = e /\ longer[i].seq = i - 1
        <5>1. \A i \in DOMAIN old : longer[i].device = e /\ longer[i].seq = i - 1
          BY <1>4, <3>3
        <5>2. longer[n + 1].device = e /\ longer[n + 1].seq = (n + 1) - 1
          BY <1>1, <1>4
        <5>3. QED
          BY <3>4, <5>1, <5>2
      <4>2. \A i, j \in DOMAIN longer : i <= j => longer[i].ts <= longer[j].ts
        <5>1. \A i \in DOMAIN old : longer[i].ts = old[i].ts /\ i \in Nat /\ i <= n
          BY <1>1, <1>4
        <5>2. \A i, j \in DOMAIN old : i <= j => longer[i].ts <= longer[j].ts
          BY <3>3, <5>1
        <5>3. \A i \in DOMAIN longer : longer[i].ts <= longer[n + 1].ts
          BY <1>4, <1>6, <3>3, <3>4, <5>1
        <5>4. \A i \in DOMAIN old : ~(n + 1 <= i)
          BY <1>1, <5>1
        <5>5. QED
          BY <3>4, <5>2, <5>3, <5>4
      <4>3. QED
        BY <4>1, <4>2 DEF AppendedBy
    <3>6. \A i \in DOMAIN longer : longer[i].ts <= Time(e)'
      BY <1>4, <2>2, <3>1, <3>3, <3>4
    <3>7. OwnLog(l, w)'
      BY <3>1, <3>2, <3>5, <3>6 DEF OwnLog
    <3>8. \A d \in Devices : BeginningOf(logs'[d][l], longer)
      <4>1. \A d \in Devices : d # e => logs'[d][l] = logs[d][l] /\ BeginningOf(logs[d][l], old)
        BY <1>3, <2>1, <3>1
      <4>2. \A d \in Devices : d # e => BeginningOf(logs'[d][l], longer)
        <5>1. ASSUME NEW s \in Seq(Record), BeginningOf(s, old) PROVE BeginningOf(s, longer)
          BY <1>1, <1>4, <5>1 DEF BeginningOf, n
        <5>2. QED
          BY <1>1, <4>1, <5>1
      <4>3. BeginningOf(longer, longer)
        BY <1>1, <1>4 DEF BeginningOf
      <4>4. QED
        BY <3>1, <3>2, <4>2, <4>3
    <3>9. QED
      BY <1>7, <3>1, <3>2, <3>7, <3>8
  <2>4. CASE l # k
    <3>1. \A d \in Devices : logs'[d][l] = logs[d][l]
      BY <1>3, <2>4
    <3>2. PICK own : own = logs[w][l]
      OBVIOUS
    <3>3. own \in Seq(Record) /\ \A i \in DOMAIN own : own[i].ts \in Nat
      <4>1. own \in Seq(Record) /\ \A i \in DOMAIN own : own[i] \in Record
        BY <1>1, <3>2
      <4>2. QED
        BY <4>1 DEF Record, LogRecord
    <3>4. logs'[w][l] = own /\ AppendedBy(own, w) /\ \A i \in DOMAIN own : own[i].ts <= Time(w)
      BY <2>1, <3>1, <3>2 DEF OwnLog
    <3>5. \A i \in DOMAIN own : own[i].ts <= Time(w)'
      BY <2>2, <3>3, <3>4
    <3>6. OwnLog(l, w)'
      BY <3>4, <3>5 DEF OwnLog
    <3>7. QED
      BY <2>1, <3>1, <3>6
  <2>5. QED
    BY <2>3, <2>4
<1>10. QED
  BY <1>8, <1>9 DEF LogsExtended

(* A merge of a diff that was waiting, or no change of the logs. *)
LEMMA MergeExtends ==
    ASSUME TypeOK, TypeOK', PrefixInv, [Next]_vars,
           \/ UNCHANGED logs
           \/ \E e \in Devices : \E diff \in Diffs :
                 Continues(diff, e) /\ logs' = [logs EXCEPT ![e] = MergedLogs(e, diff)]
    PROVE  LogsExtended
<1>1. logs \in [Devices -> [LogKeys -> Seq(Record)]]
  BY DEF TypeOK
<1>2. ASSUME NEW d \in Devices, NEW l \in LogKeys
      PROVE  /\ logs'[d][l] \in Seq(Record)
             /\ Len(logs[d][l]) <= Len(logs'[d][l])
             /\ \A w \in Devices : OnlyWriter(l, w) => BeginningOf(logs'[d][l], logs[w][l])
  <2>1. logs[d][l] \in Seq(Record)
        /\ \A w \in Devices : OnlyWriter(l, w) =>
              OwnLog(l, w) /\ BeginningOf(logs[d][l], logs[w][l])
    BY <1>1 DEF PrefixInv
  <2>2. CASE logs'[d][l] = logs[d][l]
    BY <2>1, <2>2
  <2>3. ASSUME NEW diff \in Diffs, Continues(diff, d),
               logs'[d][l] = LogMerged(logs[d][l], diff.logs[l])
        PROVE  /\ logs'[d][l] \in Seq(Record)
               /\ Len(logs[d][l]) <= Len(logs'[d][l])
               /\ \A w \in Devices : OnlyWriter(l, w) => BeginningOf(logs'[d][l], logs[w][l])
    <3>1. PICK log, remote : log = logs[d][l] /\ remote = diff.logs[l]
      OBVIOUS
    <3>2. log \in Seq(Record) /\ remote \in Seq(Record)
      BY <2>1, <3>1 DEF Diffs
    <3>3. /\ LogMerged(log, remote) \in Seq(Record)
          /\ Len(LogMerged(log, remote)) >= Len(log)
      BY <3>2, MergedKeepsRecords
    <3>4. ASSUME NEW w \in Devices, OnlyWriter(l, w)
          PROVE  BeginningOf(LogMerged(log, remote), logs[w][l])
      <4>1. logs[w][l] \in Seq(Record) /\ AppendedBy(logs[w][l], w)
        BY <1>1, <2>1, <3>4 DEF OwnLog
      <4>2. BeginningOf(log, logs[w][l]) /\ ContinuationOf(remote, Len(log), logs[w][l])
        BY <2>1, <2>3, <3>1, <3>4 DEF Continues
      <4>3. QED
        BY <3>2, <4>1, <4>2, RecordsAreRecords, LogMergedExtends
    <3>5. Len(log) \in Nat /\ Len(LogMerged(log, remote)) \in Nat
      BY <3>2, <3>3
    <3>6. QED
      BY <2>3, <3>1, <3>3, <3>4, <3>5
  <2>4. \/ logs'[d][l] = logs[d][l]
        \/ \E diff \in Diffs : /\ Continues(diff, d)
                               /\ logs'[d][l] = LogMerged(logs[d][l], diff.logs[l])
    <3>1. CASE UNCHANGED logs
      BY <3>1
    <3>2. ASSUME NEW e \in Devices, NEW diff \in Diffs, Continues(diff, e),
                 logs' = [logs EXCEPT ![e] = MergedLogs(e, diff)]
          PROVE  \/ logs'[d][l] = logs[d][l]
                 \/ Continues(diff, d) /\ logs'[d][l] = LogMerged(logs[d][l], diff.logs[l])
      BY <1>1, <3>2 DEF MergedLogs
    <3>3. QED
      BY <3>1, <3>2
  <2>5. QED
    BY <2>2, <2>3, <2>4
<1>3. ASSUME NEW l \in LogKeys, NEW w \in Devices, OnlyWriter(l, w)
      PROVE  /\ OwnLog(l, w)'
             /\ BeginningOf(logs[w][l], logs'[w][l])
             /\ \A d \in Devices : BeginningOf(logs'[d][l], logs'[w][l])
  <2>1. PICK own, new : own = logs[w][l] /\ new = logs'[w][l]
    OBVIOUS
  <2>2. own \in Seq(Record) /\ new \in Seq(Record) /\ Len(own) <= Len(new)
        /\ BeginningOf(new, own)
    BY <1>1, <1>2, <1>3, <2>1
  <2>3. new = own
    <3>1. Len(new) = Len(own) /\ \A i \in 1..Len(own) : new[i] = own[i]
      BY <2>2 DEF BeginningOf
    <3>2. QED
      BY <2>2, <3>1
  <2>4. Time(w) \in Nat /\ Time(w)' \in Nat /\ Time(w) <= Time(w)'
    BY NowGrows
  <2>5. OwnLog(l, w)
    BY <1>3 DEF PrefixInv
  <2>6. \A i \in DOMAIN own : own[i].ts \in Nat
    <3>1. \A i \in DOMAIN own : own[i] \in Record
      BY <2>2
    <3>2. QED
      BY <3>1 DEF Record, LogRecord
  <2>7. AppendedBy(own, w) /\ \A i \in DOMAIN own : own[i].ts <= Time(w)
    BY <2>1, <2>5 DEF OwnLog
  <2>8. \A i \in DOMAIN own : own[i].ts <= Time(w)'
    BY <2>4, <2>6, <2>7
  <2>9. OwnLog(l, w)'
    BY <2>1, <2>3, <2>7, <2>8 DEF OwnLog
  <2>10. BeginningOf(own, own)
    BY <2>2 DEF BeginningOf
  <2>11. QED
    BY <1>2, <1>3, <2>1, <2>3, <2>9, <2>10
<1>4. QED
  BY <1>2, <1>3 DEF LogsExtended

(* What a diff in answer to a report holds continues the reporter's logs. *)
LEMMA DiffContinues ==
    ASSUME TypeOK, NEW lgs \in Logs, NEW regs, NEW time, NEW state \in SyncStates,
           NEW e \in Devices, Reported(state, e),
           NEW owner \in [Devices -> Logs],
           \A l \in LogKeys, w \in Devices : OnlyWriter(l, w) =>
              BeginningOf(lgs[l], owner[w][l]),
           NEW l \in LogKeys, NEW w \in Devices, OnlyWriter(l, w)
    PROVE  ContinuationOf(DiffOf(regs, lgs, time, state).logs[l], Len(logs[e][l]), owner[w][l])
<1>1. PICK log, t, m, n : /\ log = lgs[l] /\ t = owner[w][l]
                          /\ m = state.logs[l] /\ n = Len(logs[e][l])
  OBVIOUS
<1>2. log \in Seq(Record) /\ t \in Seq(Record) /\ m \in Nat /\ n \in Nat /\ m <= n
  BY <1>1 DEF TypeOK, Logs, SyncStates, Reported
<1>3. BeginningOf(log, t)
  BY <1>1
<1>4. DiffOf(regs, lgs, time, state).logs[l] = IF Len(log) > m THEN Since(log, m) ELSE <<>>
  BY <1>1 DEF DiffOf
<1>5. CASE Len(log) > m
  <2>1. m < Len(log)
    BY <1>2, <1>5
  <2>2. ContinuationOf(Since(log, m), n, t)
    BY <1>2, <1>3, <2>1, SinceContinues
  <2>3. QED
    BY <1>1, <1>4, <1>5, <2>2
<1>6. CASE ~(Len(log) > m)
  <2>1. ContinuationOf(<<>>, n, t)
    BY <1>2, EmptyContinues
  <2>2. QED
    BY <1>1, <1>4, <1>6, <2>1
<1>7. QED
  BY <1>5, <1>6

(* What was true of a message stays true while logs only grow. *)
LEMMA PrefixMessageStays ==
    ASSUME TypeOK, TypeOK', LogsExtended, NEW m \in Message,
           NEW from \in Devices, NEW to \in Devices, PrefixMessage(m, from, to)
    PROVE  PrefixMessage(m, from, to)'
<1>1. /\ logs \in [Devices -> [LogKeys -> Seq(Record)]]
      /\ logs' \in [Devices -> [LogKeys -> Seq(Record)]]
  BY DEF TypeOK
<1>2. \A d \in Devices, l \in LogKeys : /\ Len(logs[d][l]) \in Nat /\ Len(logs'[d][l]) \in Nat
                                        /\ Len(logs[d][l]) <= Len(logs'[d][l])
  BY <1>1 DEF LogsExtended
<1>3. ASSUME m.type \in {"request", "response"} PROVE Reported(m.state, from)'
  <2>1. m.state \in SyncStates
    BY <1>3 DEF Message
  <2>2. \A l \in LogKeys : m.state.logs[l] \in Nat /\ m.state.logs[l] <= Len(logs[from][l])
    BY <1>3, <2>1 DEF PrefixMessage, Reported, SyncStates
  <2>3. \A l \in LogKeys : m.state.logs[l] <= Len(logs'[from][l])
    BY <1>2, <2>2
  <2>4. QED
    BY <2>3 DEF Reported
<1>4. ASSUME m.type \in {"response", "update"} PROVE Continues(m.diff, to)'
  <2>1. m.diff \in Diffs
    BY <1>4 DEF Message
  <2>2. ASSUME NEW l \in LogKeys, NEW w \in Devices, OnlyWriter(l, w)
        PROVE  ContinuationOf(m.diff.logs[l], Len(logs'[to][l]), logs'[w][l])
    <3>1. ContinuationOf(m.diff.logs[l], Len(logs[to][l]), logs[w][l])
      BY <1>4, <2>2 DEF PrefixMessage, Continues
    <3>2. BeginningOf(logs[w][l], logs'[w][l])
      BY <2>2 DEF LogsExtended
    <3>3. m.diff.logs[l] \in Seq(Record)
      BY <2>1 DEF Diffs
    <3>4. QED
      BY <1>1, <1>2, <3>1, <3>2, <3>3, ContinuationGrows
  <2>3. QED
    BY <2>2 DEF Continues, OnlyWriter
<1>5. QED
  BY <1>3, <1>4 DEF PrefixMessage

(* A new message is true of the logs the step leaves behind. *)
LEMMA PrefixMessageNew ==
    ASSUME TypeOK, TypeOK', PrefixInv, LogsExtended,
           NEW m, NEW c \in Conns, NEW d \in Devices, Opened(c),
           d \in {ends[c].opener, ends[c].acceptor}, NewMail(m, d, c),
           NEW e \in Devices, e = Peer(c, d)
    PROVE  PrefixMessage(m, d, e)'
<1>1. Peer(c, e) = d
  BY PeerOfPeer DEF PrefixInv, TypeOK
<1>2. /\ logs \in [Devices -> Logs] /\ logs' \in [Devices -> Logs]
      /\ registers \in [Devices -> Registers] /\ registers' \in [Devices -> Registers]
  BY DEF TypeOK, Logs, Registers
<1>3. \A p \in Devices, l \in LogKeys : /\ Len(logs[p][l]) \in Nat /\ Len(logs'[p][l]) \in Nat
                                        /\ Len(logs[p][l]) <= Len(logs'[p][l])
  BY <1>2 DEF LogsExtended, Logs
<1>4. \A r \in Waiting(inbox, c, d) :
         r.type \in {"request", "response"} => Reported(r.state, e)
  BY DEF PrefixInv, PrefixMessage
<1>5. ASSUME NEW state, \A l \in LogKeys : state.logs[l] \in Nat, Reported(state, d)
      PROVE  \A l \in LogKeys : state.logs[l] <= Len(logs'[d][l])
  BY <1>3, <1>5 DEF Reported
<1>6. ASSUME NEW state, state = SyncStateOf(registers[d], logs[d], Time(d))
      PROVE  \A l \in LogKeys : state.logs[l] <= Len(logs'[d][l])
  <2>1. \A l \in LogKeys : state.logs[l] = Len(logs[d][l])
    BY <1>6 DEF SyncStateOf
  <2>2. QED
    BY <1>3, <2>1
<1>7. ASSUME NEW diff \in Diffs,
             \A l \in LogKeys, w \in Devices : OnlyWriter(l, w) =>
                ContinuationOf(diff.logs[l], Len(logs[e][l]), logs'[w][l])
      PROVE  Continues(diff, e)'
  <2>1. ASSUME NEW l \in LogKeys, NEW w \in Devices, OnlyWriter(l, w)
        PROVE  ContinuationOf(diff.logs[l], Len(logs'[e][l]), logs'[w][l])
    <3>1. diff.logs[l] \in Seq(Record) /\ logs'[w][l] \in Seq(Record)
      BY <1>2 DEF Diffs, Logs
    <3>2. BeginningOf(logs'[w][l], logs'[w][l])
      BY <3>1 DEF BeginningOf
    <3>3. ContinuationOf(diff.logs[l], Len(logs[e][l]), logs'[w][l])
      BY <1>7, <2>1
    <3>4. QED
      BY <1>3, <3>1, <3>2, <3>3, ContinuationGrows
  <2>2. QED
    BY <2>1 DEF Continues, OnlyWriter
<1>8. ASSUME m.type \in {"request", "response"} PROVE Reported(m.state, d)'
  <2>1. \A l \in LogKeys : m.state.logs[l] <= Len(logs'[d][l])
    <3>1. CASE m.state = SyncStateOf(registers[d], logs[d], Time(d))
      BY <1>6, <3>1
    <3>2. ASSUME NEW t \in PushTasks, m.state = task[d][t].state
          PROVE  \A l \in LogKeys : m.state.logs[l] <= Len(logs'[d][l])
      <4>1. task[d][t].state \in SyncStates /\ Reported(task[d][t].state, d)
        BY DEF TypeOK, Tasks, PrefixInv
      <4>2. m.state \in SyncStates /\ Reported(m.state, d)
        BY <3>2, <4>1
      <4>3. \A l \in LogKeys : m.state.logs[l] \in Nat
        BY <4>2 DEF SyncStates
      <4>4. QED
        BY <1>5, <4>2, <4>3
    <3>3. QED
      BY <1>8, <3>1, <3>2 DEF NewMail
  <2>2. QED
    BY <2>1 DEF Reported
<1>9. ASSUME m.type \in {"response", "update"} PROVE Continues(m.diff, e)'
  <2>1. CASE m.type = "response"
    <3>1. PICK r \in Waiting(inbox, c, d) :
             /\ r.type = "request" /\ r.state \in SyncStates
             /\ m.diff = DiffOf(registers[d], logs[d], Time(d), r.state)
      BY <2>1 DEF NewMail
    <3>2. Reported(r.state, e)
      BY <1>4, <3>1
    <3>3. m.diff \in Diffs
      BY <1>2, <3>1, DiffType
    <3>4. ASSUME NEW l \in LogKeys, NEW w \in Devices, OnlyWriter(l, w)
          PROVE  ContinuationOf(m.diff.logs[l], Len(logs[e][l]), logs'[w][l])
      <4>1. \A k \in LogKeys, v \in Devices : OnlyWriter(k, v) =>
               BeginningOf(logs[d][k], logs[v][k])
        BY DEF PrefixInv
      <4>2. logs[d] \in Logs
        BY <1>2
      <4>3. ContinuationOf(DiffOf(registers[d], logs[d], Time(d), r.state).logs[l],
                           Len(logs[e][l]), logs[w][l])
        BY <1>2, <3>1, <3>2, <3>4, <4>1, <4>2, DiffContinues
      <4>4. BeginningOf(logs[w][l], logs'[w][l])
        BY <3>4 DEF LogsExtended
      <4>5. /\ m.diff.logs[l] \in Seq(Record) /\ logs[w][l] \in Seq(Record)
            /\ logs'[w][l] \in Seq(Record) /\ Len(logs[e][l]) <= Len(logs[e][l])
        BY <1>2, <1>3, <3>3 DEF Diffs, Logs
      <4>6. QED
        BY <1>3, <3>1, <4>3, <4>4, <4>5, ContinuationGrows
    <3>5. QED
      BY <1>7, <3>3, <3>4
  <2>2. CASE m.type = "update"
    <3>1. PICK r \in Waiting(inbox, c, d) :
             /\ r.type = "response" /\ r.state \in SyncStates
             /\ m.diff = DiffOf(registers'[d], logs'[d], Time(d), r.state)
      BY <2>2 DEF NewMail
    <3>2. Reported(r.state, e)
      BY <1>4, <3>1
    <3>3. PICK regs, owner : regs = registers'[d] /\ owner = logs'
      OBVIOUS
    <3>4. regs \in Registers /\ owner \in [Devices -> Logs] /\ owner[d] \in Logs
      BY <1>2, <3>3
    <3>5. m.diff = DiffOf(regs, owner[d], Time(d), r.state)
      BY <3>1, <3>3
    <3>6. m.diff \in Diffs
      BY <3>1, <3>4, <3>5, DiffType
    <3>7. ASSUME NEW l \in LogKeys, NEW w \in Devices, OnlyWriter(l, w)
          PROVE  ContinuationOf(m.diff.logs[l], Len(logs[e][l]), logs'[w][l])
      <4>1. \A k \in LogKeys, v \in Devices : OnlyWriter(k, v) =>
               BeginningOf(owner[d][k], owner[v][k])
        BY <3>3 DEF LogsExtended
      <4>2. ContinuationOf(DiffOf(regs, owner[d], Time(d), r.state).logs[l],
                           Len(logs[e][l]), owner[w][l])
        BY <3>1, <3>2, <3>4, <3>7, <4>1, DiffContinues
      <4>3. QED
        BY <3>3, <3>5, <4>2
    <3>8. QED
      BY <1>7, <3>6, <3>7
  <2>3. QED
    BY <1>9, <2>1, <2>2
<1>10. QED
  BY <1>8, <1>9 DEF PrefixMessage

(* A push task keeps the state it reports, takes the store's, or rests. *)
LEMMA TaskStates ==
    ASSUME TypeOK, [Next]_vars, NEW p \in Devices, NEW u \in PushTasks
    PROVE  \/ task'[p][u].state = task[p][u].state
           \/ task'[p][u].state = NoState
           \/ task'[p][u].state = SyncStateOf(registers[p], logs[p], Time(p))
<1> DEFINE Goal == \/ task'[p][u].state = task[p][u].state
                   \/ task'[p][u].state = NoState
                   \/ task'[p][u].state = SyncStateOf(registers[p], logs[p], Time(p))
<1>1. task \in [Devices -> [PushTasks -> Tasks]]
  BY DEF TypeOK
<1>2. UNCHANGED task => Goal
  OBVIOUS
<1>3. \A pc : Resting(pc).state = NoState
  BY DEF Resting
<1>4. ASSUME NEW d \in Devices, Notify(d) PROVE Goal
  <2>1. PICK rest : rest = Resting("sleep")
    OBVIOUS
  <2>2. task' = task \/ task' = [task EXCEPT ![d]["debounce"] = rest]
    BY <1>4, <2>1 DEF Notify
  <2>3. task'[p][u] = task[p][u] \/ task'[p][u] = rest
    BY <1>1, <2>2
  <2>4. QED
    BY <1>3, <2>1, <2>3
<1>5. ASSUME NEW d \in Devices, NEW k \in RegKeys, NEW v \in Values,
             NEW ttl \in TTLs \cup {Unset}, Set(d, k, v, ttl)
      PROVE  Goal
  <2>1. Notify(d) \/ UNCHANGED task
    BY <1>5 DEF Set
  <2>2. QED
    BY <1>2, <1>4, <2>1
<1>6. \A d \in Devices, k \in RegKeys : Get(d, k) => UNCHANGED task
  BY DEF Get
<1>7. \A d \in Devices, l \in LogKeys, x \in Contents : LogAppend(d, l, x) => Notify(d)
  BY DEF LogAppend
<1>8. ASSUME NEW d \in Devices, Restart(d) \/ RestartTorn(d) PROVE Goal
  <2>1. PICK row : row = [t \in PushTasks |-> Resting(AfterPush(t))]
    OBVIOUS
  <2>2. task' = [task EXCEPT ![d] = row]
    BY <1>8, <2>1 DEF Restart, RestartTorn, StartFrom
  <2>3. task'[p][u] = task[p][u] \/ task'[p][u] = row[u]
    BY <1>1, <2>2
  <2>4. row[u].state = NoState
    BY <1>3, <2>1
  <2>5. QED
    BY <2>3, <2>4
<1>9. ASSUME NEW d \in Devices, NEW t \in PushTasks, Wake(d, t) PROVE Goal
  <2>1. PICK new : /\ task' = [task EXCEPT ![d][t] = new]
                   /\ new.state = NoState
                      \/ new.state = SyncStateOf(registers[d], logs[d], Time(d))
    <3> DEFINE todo == {<<e, table[d][e]>> : e \in {q \in Devices : table[d][q] # NoConn}}
               woken == [pc |-> "push", todo |-> todo,
                         state |-> SyncStateOf(registers[d], logs[d], Time(d))]
               rest == Resting(AfterPush(t))
    <3>1. task' = [task EXCEPT ![d][t] = rest] \/ task' = [task EXCEPT ![d][t] = woken]
      BY <1>9 DEF Wake
    <3>2. rest.state = NoState
      BY <1>3
    <3>3. woken.state = SyncStateOf(registers[d], logs[d], Time(d))
      OBVIOUS
    <3> HIDE DEF woken, rest
    <3>4. QED
      BY <3>1, <3>2, <3>3
  <2>2. task'[p][u] = task[p][u] \/ (p = d /\ task'[p][u] = new)
    BY <1>1, <2>1
  <2>3. QED
    BY <2>1, <2>2
<1>10. ASSUME NEW d \in Devices, NEW t \in PushTasks, NEW e \in Devices, NEW c \in Conns,
              PushSend(d, t, e, c)
       PROVE  Goal
  <2>1. PICK rest, left : rest = Resting(AfterPush(t)) /\ left = task[d][t].todo \ {<<e, c>>}
    OBVIOUS
  <2>2. task' = [task EXCEPT ![d][t] = rest] \/ task' = [task EXCEPT ![d][t].todo = left]
    BY <1>10, <2>1 DEF PushSend
  <2>3. \/ task'[p][u] = task[p][u] \/ task'[p][u] = rest
        \/ task'[p][u] = [task[p][u] EXCEPT !.todo = left]
    BY <1>1, <2>2
  <2>4. [task[p][u] EXCEPT !.todo = left].state = task[p][u].state
    BY <1>1 DEF Tasks
  <2>5. QED
    BY <1>3, <2>1, <2>3, <2>4
<1>11. ASSUME NEW d \in Devices, NEW c \in Conns, HandleResponse(d, c) \/ HandleUpdate(d, c)
       PROVE  Goal
  <2>1. PICK diff : ApplyDiff(d, diff) /\ Dispatch(d, c) /\ diff \in Diffs
    BY <1>11, DispatchedMessage DEF HandleResponse, HandleUpdate
  <2>2. Notify(d) \/ UNCHANGED task
    BY <2>1, ApplyDiffEffect
  <2>3. QED
    BY <1>2, <1>4, <2>2
<1>12. \A d \in Devices, e \in Devices, c \in Conns : ConnectToPeer(d, e, c) => UNCHANGED task
  BY DEF ConnectToPeer
<1>13. \A d \in Devices, c \in Conns :
          (\/ SyncWithPeer(d, c) \/ ReceiveLoopEnds(d, c)
           \/ HandleAnnounce(d, c) \/ HandleRequest(d, c)) => UNCHANGED task
  BY DEF SyncWithPeer, ReceiveLoopEnds, HandleAnnounce, HandleRequest
<1>14. \A c \in Conns : DropConn(c) => UNCHANGED task
  BY DEF DropConn
<1>15. Tick \/ UNCHANGED vars => UNCHANGED task
  BY DEF Tick, vars
<1> HIDE DEF Goal
<1>16. Goal
  BY <1>2, <1>4, <1>5, <1>6, <1>7, <1>8, <1>9, <1>10, <1>11, <1>12, <1>13, <1>14, <1>15,
     NextCases
<1>17. QED
  BY <1>16 DEF Goal

LEMMA TasksReport ==
    ASSUME TypeOK, TypeOK', PrefixInv, LogsExtended, [Next]_vars,
           NEW d \in Devices, NEW t \in PushTasks
    PROVE  Reported(task[d][t].state, d)'
<1>1. \A l \in LogKeys : /\ Len(logs[d][l]) \in Nat /\ Len(logs'[d][l]) \in Nat
                         /\ Len(logs[d][l]) <= Len(logs'[d][l])
  <2>1. \A l \in LogKeys : logs[d][l] \in Seq(Record) /\ logs'[d][l] \in Seq(Record)
    BY DEF TypeOK
  <2>2. QED
    BY <2>1 DEF LogsExtended
<1>2. PICK state : state = task'[d][t].state
  OBVIOUS
<1>3. CASE state = task[d][t].state
  <2>1. \A l \in LogKeys : state.logs[l] \in Nat /\ state.logs[l] <= Len(logs[d][l])
    <3>1. task[d][t].state \in SyncStates /\ Reported(task[d][t].state, d)
      BY DEF TypeOK, Tasks, PrefixInv
    <3>2. QED
      BY <1>3, <3>1 DEF SyncStates, Reported
  <2>2. QED
    BY <1>1, <1>2, <2>1 DEF Reported
<1>4. CASE state = NoState
  BY <1>1, <1>2, <1>4 DEF Reported, NoState
<1>5. CASE state = SyncStateOf(registers[d], logs[d], Time(d))
  <2>1. \A l \in LogKeys : state.logs[l] = Len(logs[d][l])
    BY <1>5 DEF SyncStateOf
  <2>2. QED
    BY <1>1, <1>2, <2>1 DEF Reported
<1>6. QED
  BY <1>2, <1>3, <1>4, <1>5, TaskStates

LEMMA PrefixNext ==
    ASSUME TypeOK, TypeOK', SyncInv, ~TornWrites, PrefixInv, [Next]_vars
    PROVE  PrefixInv'
<1>1. TransportInv'
  BY TransportNext DEF PrefixInv
<1>2. LogsExtended
  <2>1. CASE UNCHANGED <<logs, appended>>
    BY <2>1, MergeExtends
  <2>2. ASSUME NEW d \in Devices, NEW l \in LogKeys, NEW x \in Contents,
               d \in Writers[l], LogAppend(d, l, x)
        PROVE  LogsExtended
    BY <2>2, AppendExtends
  <2>3. ASSUME NEW d \in Devices, NEW c \in Conns, NEW diff \in Diffs,
               Dispatch(d, c), diff = Head(inbox[c][d]).diff,
               Head(inbox[c][d]).type \in {"response", "update"},
               logs' = [logs EXCEPT ![d] = MergedLogs(d, diff)]
        PROVE  LogsExtended
    <3>1. Head(inbox[c][d]) \in Waiting(inbox, c, d)
      BY <2>3, DispatchedWaits DEF TypeOK, PrefixInv
    <3>2. Continues(diff, d)
      BY <2>3, <3>1 DEF PrefixInv, PrefixMessage
    <3>3. QED
      BY <2>3, <3>2, MergeExtends
  <2>4. QED
    BY <2>1, <2>2, <2>3, LogCases
<1>3. ASSUME NEW c \in Conns, NEW d \in Devices, NEW m \in Waiting(inbox, c, d)
      PROVE  /\ m \in Message /\ Opened(c)
             /\ Peer(c, d) \in Devices /\ PrefixMessage(m, Peer(c, d), d)
             /\ \A from \in Devices : from = Peer(c, d) => PrefixMessage(m, from, d)'
  <2>1. m \in Message
    <3>1. inbox[c][d] \in Seq(Message)
      BY DEF TypeOK, TransportTypeOK
    <3>2. QED
      BY <3>1 DEF Waiting
  <2>2. Opened(c) /\ PrefixMessage(m, Peer(c, d), d)
    BY DEF PrefixInv, OnlyEnds
  <2>3. Peer(c, d) \in Devices
    BY <2>2, PeerType DEF TypeOK
  <2>4. QED
    BY <1>2, <2>1, <2>2, <2>3, PrefixMessageStays
<1>4. CASE UNCHANGED ends /\ (\A c \in Conns : openAt'[c] \subseteq openAt[c])
           /\ (AddsNothing \/ AddsMail)
  <2>1. OnlyEnds'
    BY <1>4, OnlyEndsNext DEF PrefixInv, TypeOK, AddsMail
  <2>2. \A c \in Conns, d \in Devices : Peer(c, d)' = Peer(c, d)
    BY <1>4 DEF Peer
  <2>3. ASSUME NEW c \in Conns, NEW d \in Devices, NEW m \in Waiting(inbox', c, d),
               NEW from, from = Peer(c, d)
        PROVE  PrefixMessage(m, from, d)'
    <3>1. CASE m \in Waiting(inbox, c, d)
      BY <1>3, <2>3, <3>1
    <3>2. CASE m \notin Waiting(inbox, c, d)
      <4>1. AddsMail
        BY <1>4, <2>3, <3>2 DEF AddsNothing
      <4>2. PICK x \in Conns, p \in Devices : \E k :
               /\ Opened(x) /\ p \in {ends[x].opener, ends[x].acceptor}
               /\ NewMail(k, p, x) /\ AddsOnly(x, p, k)
        BY <4>1 DEF AddsMail
      <4>3. PICK k : NewMail(k, p, x) /\ AddsOnly(x, p, k)
        BY <4>2
      <4>4. c = x /\ d = Peer(x, p) /\ m = k
        BY <2>3, <3>2, <4>3 DEF AddsOnly
      <4>5. PrefixMessage(k, p, d)'
        BY <1>2, <4>2, <4>3, <4>4, PrefixMessageNew
      <4>6. from = p
        BY <2>3, <4>2, <4>4, PeerOfPeer DEF TypeOK, PrefixInv
      <4>7. QED
        BY <4>4, <4>5, <4>6
    <3>3. QED
      BY <3>1, <3>2
  <2>4. ASSUME NEW c \in Conns, NEW d \in Devices, NEW m \in Waiting(inbox', c, d)
        PROVE  PrefixMessage(m, Peer(c, d), d)'
    <3>1. PICK from : from = Peer(c, d) /\ from = Peer(c, d)'
      BY <2>2
    <3>2. PrefixMessage(m, from, d)'
      BY <2>3, <3>1
    <3>3. QED
      BY <3>1, <3>2
  <2>5. QED
    BY <1>1, <1>2, <2>1, <2>4, TasksReport DEF PrefixInv, LogsExtended, OnlyWriter
<1>5. ASSUME NEW d \in Devices, NEW e \in Devices, NEW x \in Conns,
             Connect(d, e, x, <<[type |-> "announce"]>>)
      PROVE  PrefixInv'
  <2>1. PICK k : k = [type |-> "announce"]
    OBVIOUS
  <2>2. k \in Message /\ Connect(d, e, x, <<k>>)
    BY <1>5, <2>1 DEF Message
  <2>3. /\ OnlyEnds'
        /\ \A c \in Conns, p \in Devices : \A m \in Waiting(inbox', c, p) :
              m \in Waiting(inbox, c, p) \/ (c = x /\ p = e /\ m = k)
        /\ \A c \in Conns : Opened(c) => ends'[c] = ends[c]
    BY <2>2, ConnectAdds DEF TypeOK, PrefixInv
  <2>4. ASSUME NEW c \in Conns, NEW p \in Devices, NEW m \in Waiting(inbox', c, p)
        PROVE  PrefixMessage(m, Peer(c, p), p)'
    <3>1. CASE m \in Waiting(inbox, c, p)
      <4>1. PICK from : from = Peer(c, p)
        OBVIOUS
      <4>2. PrefixMessage(m, from, p)' /\ Opened(c)
        BY <1>3, <3>1, <4>1
      <4>3. Peer(c, p)' = from
        BY <2>3, <4>1, <4>2 DEF Peer
      <4>4. QED
        BY <4>2, <4>3
    <3>2. CASE m = k
      BY <2>1, <3>2 DEF PrefixMessage
    <3>3. QED
      BY <2>3, <2>4, <3>1, <3>2
  <2>5. QED
    BY <1>1, <1>2, <2>3, <2>4, TasksReport DEF PrefixInv, LogsExtended, OnlyWriter
<1>6. QED
  BY <1>4, <1>5, MailCases DEF PrefixInv

LEMMA PrefixInit == Init => PrefixInv
<1> SUFFICES ASSUME Init PROVE PrefixInv
  OBVIOUS
<1>1. TransportInv /\ OnlyEnds
  BY TransportInitInv, OnlyEndsInit DEF Init
<1>2. /\ \A d \in Devices, l \in LogKeys : logs[d][l] = <<>>
      /\ \A c \in Conns, d \in Devices : inbox[c][d] = <<>>
      /\ \A d \in Devices, t \in PushTasks : task[d][t].state = NoState
  BY DEF Init, EmptyMemory, TransportInit, Resting
<1>3. \A l \in LogKeys, w \in Devices :
         OwnLog(l, w) /\ \A d \in Devices : BeginningOf(logs[d][l], logs[w][l])
  BY <1>2 DEF OwnLog, AppendedBy, BeginningOf
<1>4. \A d \in Devices, t \in PushTasks : Reported(task[d][t].state, d)
  BY <1>2 DEF Reported, NoState
<1>5. QED
  BY <1>1, <1>2, <1>3, <1>4 DEF PrefixInv, Waiting

(* Unless a save is torn, what is reported never exceeds what is kept, and     *)
(* every diff under way continues its receiver's logs.                         *)
THEOREM PrefixInvariant ==
    ASSUME ~TornWrites
    PROVE  Spec => []PrefixInv
<1>1. TypeOK /\ TypeOK' /\ SyncInv /\ PrefixInv /\ [Next]_vars => PrefixInv'
  BY PrefixNext
<1>2. QED
  BY <1>1, PrefixInit, TypeCorrect, SyncInvariant, PTL DEF Spec

(* LogsArePrefixes: unless a save is torn, a log that only one device appends  *)
(* to is on every other device a beginning of that device's own, whatever was  *)
(* lost, repeated, reordered or crashed on the way.                            *)
THEOREM LogsAlwaysPrefixes ==
    ASSUME ~TornWrites
    PROVE  Spec => []LogsArePrefixes
<1>1. TypeOK /\ PrefixInv => LogsArePrefixes
  <2> SUFFICES ASSUME TypeOK, PrefixInv, NEW l \in LogKeys, NEW w \in Devices,
                      Writers[l] = {w}, NEW d \in Devices
               PROVE  IsPrefix(logs[d][l], logs[w][l])
    BY DEF LogsArePrefixes
  <2>1. PICK s, t : s = logs[d][l] /\ t = logs[w][l]
    OBVIOUS
  <2>2. s \in Seq(Record) /\ t \in Seq(Record) /\ BeginningOf(s, t)
    BY <2>1 DEF TypeOK, PrefixInv, OnlyWriter
  <2>3. PICK u : u = SubSeq(t, 1, Len(s))
    OBVIOUS
  <2>4. Len(s) <= Len(t) /\ Len(s) \in Nat /\ \A i \in 1..Len(s) : s[i] = t[i]
    BY <2>2 DEF BeginningOf
  <2>5. u \in Seq(Record) /\ Len(u) = Len(s) /\ \A i \in 1..Len(s) : u[i] = t[i]
    BY <2>2, <2>3, <2>4
  <2>6. u = s
    BY <2>2, <2>4, <2>5
  <2>7. QED
    BY <2>1, <2>3, <2>4, <2>6 DEF IsPrefix
<1>2. QED
  BY <1>1, TypeCorrect, PrefixInvariant, PTL

-------------------------------------------------------------------------------
(* What one exchange achieves.  d asks e, e answers, d takes the answer and    *)
(* sends what e lacks: when nothing comes between, the two agree.  This is the *)
(* safety half of RegistersConverge and OwnLogsConverge.                       *)

AnswerTo(d, e) ==
    DiffOf(registers[e], logs[e], Time(e), SyncStateOf(registers[d], logs[d], Time(d)))

UpdateTo(e, d) ==
    DiffOf(MergedRegisters(d, AnswerTo(d, e)), MergedLogs(d, AnswerTo(d, e)), Time(d),
           SyncStateOf(registers[e], logs[e], Time(e)))

SameValue(x, y) == \/ x = NoEntry /\ y = NoEntry
                   \/ x # NoEntry /\ y # NoEntry /\ x.value = y.value

RegistersAgreeAfter(d, e, k) ==
    SameValue(MergedRegisters(d, AnswerTo(d, e))[k], MergedRegisters(e, UpdateTo(e, d))[k])

LogsAgreeAfter(d, e, l) ==
    MergedLogs(d, AnswerTo(d, e))[l] = MergedLogs(e, UpdateTo(e, d))[l]

ExchangesAgree ==
    \A d, e \in Devices :
        /\ \A k \in RegKeys : NeverExpires(k) => RegistersAgreeAfter(d, e, k)
        /\ \A l \in LogKeys, w \in Devices : OnlyWriter(l, w) => LogsAgreeAfter(d, e, l)

(* An entry's digest, what is sent of y to one that reported s of x, and what  *)
(* x makes of it.                                                              *)
ReportOf(x) == IF x # NoEntry THEN DigestOf(x) ELSE NoEntry
SentOf(y, report) == IF y # NoEntry /\ WorthSending(y, report) THEN y ELSE NoEntry
Takes(x, y) == IF y # NoEntry THEN Merged(x, y) ELSE x

LEMMA EntriesAgree ==
    ASSUME NEW x \in Entry \cup {NoEntry}, NEW y \in Entry \cup {NoEntry},
           x # NoEntry /\ y # NoEntry /\ x.value # y.value
               => Supersedes(x, y) \/ Supersedes(y, x)
    PROVE  LET mine == Takes(x, SentOf(y, ReportOf(x)))
           IN  SameValue(mine, Takes(y, SentOf(mine, ReportOf(y))))
<1> DEFINE mine   == Takes(x, SentOf(y, ReportOf(x)))
           theirs == Takes(y, SentOf(mine, ReportOf(y)))
<1>1. \A e \in Entry : /\ e # NoEntry /\ e.ts \in Nat /\ e.device \in Nat
                       /\ ~Supersedes(e, e)
  <2>1. \A e \in Entry : e # NoEntry /\ e.ts \in Nat /\ e.device \in Nat
    BY LWWAssumption, DevicesAssumption DEF Entry
  <2>2. QED
    BY <2>1 DEF Supersedes
<1>2. \A e \in Entry : Takes(e, SentOf(e, ReportOf(e))) = e
  BY <1>1 DEF Takes, SentOf, Merged, Accepts
<1>3. CASE x = NoEntry
  <2>1. mine = y
    BY <1>3 DEF Takes, SentOf, ReportOf, WorthSending, Merged, Accepts
  <2>2. theirs = y
    BY <1>2, <2>1 DEF Takes, SentOf
  <2>3. QED
    BY <2>1, <2>2 DEF SameValue
<1>4. CASE x # NoEntry /\ y = NoEntry
  <2>1. mine = x
    BY <1>4 DEF Takes, SentOf
  <2>2. theirs = x
    BY <1>4, <2>1 DEF Takes, SentOf, ReportOf, WorthSending, Merged, Accepts
  <2>3. QED
    BY <1>4, <2>1, <2>2 DEF SameValue
<1>5. ASSUME x \in Entry, y \in Entry PROVE SameValue(mine, theirs)
  <2>1. mine \in {x, y} /\ theirs \in {x, y}
    BY DEF Takes, SentOf, Merged
  <2>2. CASE x.value = y.value
    BY <1>1, <1>5, <2>1, <2>2 DEF SameValue
  <2>3. ASSUME x.value # y.value, Supersedes(x, y) PROVE SameValue(mine, theirs)
    <3>1. ~Supersedes(y, x)
      BY <1>1, <1>5, <2>3 DEF Supersedes
    <3>2. mine = x
      BY <1>1, <1>5, <3>1 DEF Takes, SentOf, Merged, Accepts
    <3>3. WorthSending(x, ReportOf(y))
      <4>1. ReportOf(y) = DigestOf(y)
        BY <1>1, <1>5 DEF ReportOf
      <4>2. ContentHash(x.value) # ContentHash(y.value)
        BY <2>3 DEF ContentHash
      <4>3. x.ts > y.ts \/ x.ts = y.ts
        BY <2>3 DEF Supersedes
      <4>4. DigestOf(y).ts = y.ts /\ DigestOf(y).hash = ContentHash(y.value)
        BY DEF DigestOf
      <4>5. QED
        BY <4>1, <4>2, <4>3, <4>4 DEF WorthSending
    <3>4. theirs = x
      BY <1>1, <1>5, <2>3, <3>2, <3>3 DEF Takes, SentOf, Merged, Accepts
    <3>5. QED
      BY <1>1, <1>5, <3>2, <3>4 DEF SameValue
  <2>4. ASSUME x.value # y.value, Supersedes(y, x) PROVE SameValue(mine, theirs)
    <3>1. ~Supersedes(x, y)
      BY <1>1, <1>5, <2>4 DEF Supersedes
    <3>2. WorthSending(y, ReportOf(x))
      <4>1. ReportOf(x) = DigestOf(x)
        BY <1>1, <1>5 DEF ReportOf
      <4>2. ContentHash(x.value) # ContentHash(y.value)
        BY <2>4 DEF ContentHash
      <4>3. y.ts > x.ts \/ x.ts = y.ts
        BY <2>4 DEF Supersedes
      <4>4. DigestOf(x).ts = x.ts /\ DigestOf(x).hash = ContentHash(x.value)
        BY DEF DigestOf
      <4>5. QED
        BY <4>1, <4>2, <4>3, <4>4 DEF WorthSending
    <3>3. mine = y
      BY <1>1, <1>5, <2>4, <3>2 DEF Takes, SentOf, Merged, Accepts
    <3>4. theirs = y
      BY <1>2, <1>5, <3>3
    <3>5. QED
      BY <1>1, <1>5, <3>3, <3>4 DEF SameValue
  <2>5. QED
    BY <1>1, <1>5, <2>2, <2>3, <2>4
<1>6. QED
  BY <1>3, <1>4, <1>5

(* Merging is a choice of the entry that supersedes the others: entries that   *)
(* are told apart by timestamp and device may come in any order, and again.    *)
Distinct(e, f) == e # f => e.ts # f.ts \/ e.device # f.device

THEOREM MergeOrderIrrelevant ==
    ASSUME NEW old \in Entry \cup {NoEntry}, NEW e \in Entry, NEW f \in Entry,
           Distinct(e, f), old # NoEntry => Distinct(old, e) /\ Distinct(old, f)
    PROVE  /\ Merged(Merged(old, e), f) = Merged(Merged(old, f), e)
           /\ Merged(Merged(old, e), e) = Merged(old, e)
           /\ Merged(Merged(Merged(old, e), f), e) = Merged(Merged(old, e), f)
<1>1. \A g \in Entry : g # NoEntry /\ g.ts \in Nat /\ g.device \in Nat
  BY LWWAssumption, DevicesAssumption DEF Entry
<1>2. \A g \in Entry, h \in Entry :
         Distinct(g, h) /\ g # h => (Supersedes(g, h) <=> ~Supersedes(h, g))
  BY <1>1 DEF Supersedes, Distinct
<1>3. \A g \in Entry : ~Supersedes(g, g)
  BY <1>1 DEF Supersedes
<1>4. \A g \in Entry, h \in Entry : Merged(g, h) = IF Supersedes(h, g) THEN h ELSE g
  BY <1>1 DEF Merged, Accepts
<1>5. \A g \in Entry : Merged(NoEntry, g) = g
  BY DEF Merged, Accepts
<1>6. CASE old = NoEntry
  <2>1. Merged(old, e) = e /\ Merged(old, f) = f
    BY <1>5, <1>6
  <2>2. Merged(e, f) = Merged(f, e) /\ Merged(e, e) = e
    BY <1>2, <1>3, <1>4
  <2>3. Merged(Merged(e, f), e) = Merged(e, f)
    BY <1>2, <1>3, <1>4
  <2>4. QED
    BY <2>1, <2>2, <2>3
<1>7. CASE old \in Entry
  <2>1. Distinct(old, e) /\ Distinct(old, f)
    BY <1>1, <1>7
  <2>2. /\ Supersedes(e, f) /\ Supersedes(f, old) => Supersedes(e, old)
        /\ Supersedes(f, e) /\ Supersedes(e, old) => Supersedes(f, old)
        /\ Supersedes(e, old) /\ Supersedes(old, f) => Supersedes(e, f)
        /\ Supersedes(f, old) /\ Supersedes(old, e) => Supersedes(f, e)
    BY <1>7, SupersedesTransitive
  <2>3. /\ e # f => (Supersedes(e, f) <=> ~Supersedes(f, e))
        /\ old # e => (Supersedes(e, old) <=> ~Supersedes(old, e))
        /\ old # f => (Supersedes(f, old) <=> ~Supersedes(old, f))
    BY <1>2, <1>7, <2>1 DEF Distinct
  <2>4. QED
    BY <1>3, <1>4, <1>7, <2>2, <2>3
<1>8. QED
  BY <1>6, <1>7

LEMMA MergedIsTaken ==
    ASSUME NEW d \in Devices, NEW diff, NEW k \in RegKeys
    PROVE  MergedRegisters(d, diff)[k] = Takes(registers[d][k], diff.registers[k])
  BY DEF MergedRegisters, SentKeys, Takes

(* A key that never expires is reported and sent whenever it holds an entry. *)
LEMMA LastingIsReported ==
    ASSUME NEW regs, NEW lgs, NEW time, NEW k \in RegKeys,
           regs[k] # NoEntry => regs[k].ttl = Forever
    PROVE  SyncStateOf(regs, lgs, time).registers[k] = ReportOf(regs[k])
  BY DEF SyncStateOf, Readable, Expired, ReportOf

LEMMA LastingIsSent ==
    ASSUME NEW regs, NEW lgs, NEW time, NEW state, NEW k \in RegKeys,
           regs[k] # NoEntry => regs[k].ttl = Forever
    PROVE  DiffOf(regs, lgs, time, state).registers[k]
              = SentOf(regs[k], state.registers[k])
  BY DEF DiffOf, Readable, Expired, SentOf

LEMMA RegistersAgree ==
    ASSUME TypeOK, SyncInv, ConflictsResolved,
           NEW d \in Devices, NEW e \in Devices, NEW k \in RegKeys, NeverExpires(k)
    PROVE  RegistersAgreeAfter(d, e, k)
<1>1. PICK x, y : x = registers[d][k] /\ y = registers[e][k]
  OBVIOUS
<1>2. x \in Entry \cup {NoEntry} /\ y \in Entry \cup {NoEntry}
  BY <1>1 DEF TypeOK
<1>3. (x # NoEntry => x.ttl = Forever) /\ (y # NoEntry => y.ttl = Forever)
  <2>1. ASSUME NEW p \in Devices, registers[p][k] # NoEntry
        PROVE  registers[p][k].ttl = Forever
    <3>1. PICK w \in written : w = [key |-> k, entry |-> registers[p][k]]
      BY <2>1 DEF SyncInv, NothingInvented, Known
    <3>2. w.key = k /\ w.entry = registers[p][k]
      BY <3>1
    <3>3. QED
      BY <3>2 DEF NeverExpires
  <2>2. QED
    BY <1>1, <2>1
<1>4. PICK mine : mine = Takes(x, SentOf(y, ReportOf(x)))
  OBVIOUS
<1>5. MergedRegisters(d, AnswerTo(d, e))[k] = mine
  <2>1. AnswerTo(d, e).registers[k] = SentOf(y, ReportOf(x))
    <3>1. PICK state : state = SyncStateOf(registers[d], logs[d], Time(d))
      OBVIOUS
    <3>2. state.registers[k] = ReportOf(x)
      BY <1>1, <1>3, <3>1, LastingIsReported
    <3>3. DiffOf(registers[e], logs[e], Time(e), state).registers[k]
             = SentOf(y, state.registers[k])
      BY <1>1, <1>3, LastingIsSent
    <3>4. QED
      BY <3>1, <3>2, <3>3 DEF AnswerTo
  <2>2. QED
    BY <1>1, <1>4, <2>1, MergedIsTaken
<1>6. mine # NoEntry => mine.ttl = Forever
  BY <1>3, <1>4 DEF Takes, SentOf, Merged
<1>7. MergedRegisters(e, UpdateTo(e, d))[k] = Takes(y, SentOf(mine, ReportOf(y)))
  <2>1. PICK merged : merged = MergedRegisters(d, AnswerTo(d, e))
    OBVIOUS
  <2>2. merged[k] = mine
    BY <1>5, <2>1
  <2>3. UpdateTo(e, d).registers[k] = SentOf(mine, ReportOf(y))
    <3>1. PICK state : state = SyncStateOf(registers[e], logs[e], Time(e))
      OBVIOUS
    <3>2. state.registers[k] = ReportOf(y)
      BY <1>1, <1>3, <3>1, LastingIsReported
    <3>3. PICK lgs : lgs = MergedLogs(d, AnswerTo(d, e))
      OBVIOUS
    <3>4. DiffOf(merged, lgs, Time(d), state).registers[k] = SentOf(mine, state.registers[k])
      BY <1>6, <2>2, LastingIsSent
    <3>5. QED
      BY <2>1, <3>1, <3>2, <3>3, <3>4 DEF UpdateTo
  <2>4. QED
    BY <1>1, <2>3, MergedIsTaken
<1>8. x # NoEntry /\ y # NoEntry /\ x.value # y.value => Supersedes(x, y) \/ Supersedes(y, x)
  BY <1>1 DEF ConflictsResolved
<1>9. SameValue(mine, Takes(y, SentOf(mine, ReportOf(y))))
  BY <1>2, <1>4, <1>8, EntriesAgree
<1>10. QED
  BY <1>5, <1>7, <1>9 DEF RegistersAgreeAfter

(* What of t goes to one that reported n records, and what s makes of it. *)
RecordsSent(t, n) == IF Len(t) > n THEN Since(t, n) ELSE <<>>
TakesRecords(s, remote) == IF remote # <<>> THEN LogMerged(s, remote) ELSE s

LEMMA MergedIsTakenRecords ==
    ASSUME NEW d \in Devices, NEW diff, NEW l \in LogKeys
    PROVE  MergedLogs(d, diff)[l] = TakesRecords(logs[d][l], diff.logs[l])
  BY DEF MergedLogs, SentLogs, TakesRecords

(* The shorter beginning of a log becomes the longer one, and no other. *)
LEMMA BeginningsLevel ==
    ASSUME NEW W \in Seq(Record), NEW w, AppendedBy(W, w),
           NEW s \in Seq(Record), NEW t \in Seq(Record), BeginningOf(s, W), BeginningOf(t, W)
    PROVE  TakesRecords(s, RecordsSent(t, Len(s))) = IF Len(t) > Len(s) THEN t ELSE s
<1>1. Len(s) \in Nat /\ Len(t) \in Nat
  OBVIOUS
<1>2. CASE ~(Len(t) > Len(s))
  BY <1>2 DEF TakesRecords, RecordsSent
<1>3. CASE Len(t) > Len(s)
  <2>1. PICK remote : remote = Since(t, Len(s))
    OBVIOUS
  <2>2. remote \in Seq(Record) /\ Len(remote) = Len(t) - Len(s)
        /\ \A i \in 1..(Len(t) - Len(s)) : remote[i] = t[Len(s) + i]
    BY <1>1, <1>3, <2>1 DEF Since
  <2>3. remote # <<>>
    BY <1>1, <1>3, <2>2
  <2>4. s \o remote = t
    <3>1. PICK all : all = s \o remote
      OBVIOUS
    <3>2. all \in Seq(Record) /\ Len(all) = Len(t)
      BY <1>1, <1>3, <2>2, <3>1
    <3>3. ASSUME NEW i \in 1..Len(t) PROVE all[i] = t[i]
      <4>1. CASE i <= Len(s)
        <5>1. i \in DOMAIN s /\ i \in DOMAIN t /\ all[i] = s[i]
          BY <1>1, <2>2, <3>1, <4>1
        <5>2. QED
          BY <5>1 DEF BeginningOf
      <4>2. CASE i > Len(s)
        <5>1. i - Len(s) \in 1..(Len(t) - Len(s)) /\ Len(s) + (i - Len(s)) = i
          BY <1>1, <4>2
        <5>2. all[i] = remote[i - Len(s)]
          BY <1>1, <2>2, <3>1, <4>2
        <5>3. QED
          BY <2>2, <5>1, <5>2
      <4>3. QED
        BY <1>1, <4>1, <4>2
    <3>4. all = t
      BY <3>2, <3>3
    <3>5. QED
      BY <3>1, <3>4
  <2>5. Kept(s, remote) = 1..Len(t)
    <3>1. ASSUME NEW i \in 1..Len(t), NEW j \in 1..(i - 1) PROVE RecordId(t[j]) # RecordId(t[i])
      <4>1. i \in DOMAIN W /\ j \in DOMAIN W /\ t[i] = W[i] /\ t[j] = W[j] /\ i # j
        BY <1>1 DEF BeginningOf
      <4>2. W[i].seq = i - 1 /\ W[j].seq = j - 1
        BY <4>1 DEF AppendedBy
      <4>3. QED
        BY <4>1, <4>2 DEF RecordId
    <3>2. QED
      BY <2>4, <3>1 DEF Kept
  <2>6. Cardinality(Kept(s, remote)) = Len(t)
    BY <1>1, <2>5, SizeOfInterval
  <2>7. PICK merged : merged = LogMerged(s, remote)
    OBVIOUS
  <2>8. merged \in Seq(Record) /\ Len(merged) = Len(t)
    <3>1. merged \in Seq(Record)
      BY <2>2, <2>7, RecordsAreRecords, LogMergedType
    <3>2. Len(merged) = Len(t)
      BY <1>1, <2>6, <2>7, <3>1 DEF LogMerged
    <3>3. QED
      BY <3>1, <3>2
  <2>9. BeginningOf(merged, W)
    <3>1. ContinuationOf(remote, Len(s), W)
      BY <1>1, <1>3, <2>1, SinceContinues
    <3>2. QED
      BY <2>2, <2>7, <3>1, RecordsAreRecords, LogMergedExtends
  <2>10. merged = t
    BY <1>1, <2>8, <2>9 DEF BeginningOf
  <2>11. QED
    BY <1>3, <2>1, <2>3, <2>7, <2>10 DEF TakesRecords, RecordsSent
<1>4. QED
  BY <1>2, <1>3

LEMMA LogsAgree ==
    ASSUME TypeOK, PrefixInv, NEW d \in Devices, NEW e \in Devices,
           NEW l \in LogKeys, NEW w \in Devices, OnlyWriter(l, w)
    PROVE  LogsAgreeAfter(d, e, l)
<1>1. PICK s, t, W : s = logs[d][l] /\ t = logs[e][l] /\ W = logs[w][l]
  OBVIOUS
<1>2. s \in Seq(Record) /\ t \in Seq(Record) /\ W \in Seq(Record)
  BY <1>1 DEF TypeOK
<1>3. AppendedBy(W, w) /\ BeginningOf(s, W) /\ BeginningOf(t, W)
  BY <1>1 DEF PrefixInv, OwnLog
<1>4. PICK mine : mine = IF Len(t) > Len(s) THEN t ELSE s
  OBVIOUS
<1>5. MergedLogs(d, AnswerTo(d, e))[l] = mine
  <2>1. AnswerTo(d, e).logs[l] = RecordsSent(t, Len(s))
    BY <1>1 DEF AnswerTo, DiffOf, SyncStateOf, RecordsSent
  <2>2. QED
    BY <1>1, <1>2, <1>3, <1>4, <2>1, MergedIsTakenRecords, BeginningsLevel
<1>6. MergedLogs(e, UpdateTo(e, d))[l] = IF Len(mine) > Len(t) THEN mine ELSE t
  <2>1. UpdateTo(e, d).logs[l] = RecordsSent(mine, Len(t))
    BY <1>1, <1>5 DEF UpdateTo, DiffOf, SyncStateOf, RecordsSent
  <2>2. mine \in Seq(Record) /\ BeginningOf(mine, W)
    BY <1>2, <1>3, <1>4
  <2>3. QED
    BY <1>1, <1>2, <1>3, <2>1, <2>2, MergedIsTakenRecords, BeginningsLevel
<1>7. Len(s) \in Nat /\ Len(t) \in Nat
  BY <1>2
<1>8. CASE Len(mine) > Len(t)
  BY <1>5, <1>6, <1>8 DEF LogsAgreeAfter
<1>9. CASE ~(Len(mine) > Len(t))
  <2>1. Len(mine) = Len(t)
    BY <1>4, <1>7, <1>9
  <2>2. mine = t
    BY <1>2, <1>3, <1>4, <2>1 DEF BeginningOf
  <2>3. QED
    BY <1>5, <1>6, <1>9, <2>2 DEF LogsAgreeAfter
<1>10. QED
  BY <1>8, <1>9

(* Unless a save is torn, from every state the household can reach, one        *)
(* exchange without interference - request, response, update - leaves its two  *)
(* devices with the same value for every key that nobody gave an expiry, and   *)
(* with the same records of every log that one device appends to.              *)
THEOREM OneExchangeSettles ==
    ASSUME ~TornWrites
    PROVE  Spec => []ExchangesAgree
<1>1. TypeOK /\ SyncInv /\ PrefixInv /\ ConflictsResolved => ExchangesAgree
  BY RegistersAgree, LogsAgree DEF ExchangesAgree
<1>2. QED
  BY <1>1, TypeCorrect, SyncInvariant, PrefixInvariant, ConflictsAlwaysResolved, PTL
================================================================================
