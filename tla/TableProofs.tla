---------------------------- MODULE TableProofs -----------------------------
(***************************************************************************)
(* Proofs about AuditLog and DependencyGraph, which read tables that others*)
(* write meanwhile, for any values of their constants.                     *)
(***************************************************************************)
EXTENDS AuditLog, DependencyGraph, SequenceTheorems, FiniteSetTheorems, TLAPS

-----------------------------------------------------------------------------
(***************************************************************************)
(* AuditLog, for any set of tasks and any bounds: however commands, unlocks,*)
(* locks, failures and restarts interleave, the chain of every device      *)
(* verifies, no chain forks, and a device keeps its keys.                  *)
(***************************************************************************)

\* The row of the pair's id carries the public key of the pair.
Known(p) == p \in Pair /\ p.id \in DOMAIN devices /\ devices[p.id] = p.key

\* Every copy of the device keys matches its row.
PairsKnown ==
  /\ \A p \in {saved, mem, identity} : p # NoPair => Known(p)
  /\ \A t \in Tasks : pc[t] \in {"last", "insert", "store", "publish"} => Known(me[t])

\* record_lock and the vault write lock are held across the awaits.
RecorderAlone == \A t \in Tasks : pc[t] \in {"last", "insert"} => recorder = t
EnsureAlone   == \A t \in Tasks : pc[t] \in {"row", "store"}
                                    => vaultLock = t /\ open /\ mem = NoPair

\* What a task read before its insert is still the end of the chain.
LastStillLast ==
  \A t \in Tasks : pc[t] = "insert" => last[t] \in LastForDevice(me[t].id)

\* An entry points at the entry of its device inserted before it.
Linked ==
  \A i \in DOMAIN log :
    /\ log[i].device \in DOMAIN devices /\ log[i].key = devices[log[i].device]
    /\ log[i].seq < i
    /\ log[i].prev = Genesis
         => \A j \in DOMAIN log : j < i => log[j].device # log[i].device
    /\ log[i].prev # Genesis
         => /\ log[i].prev \in DOMAIN log /\ log[i].prev < i
            /\ log[log[i].prev].device = log[i].device
            /\ \A j \in DOMAIN log :
                 log[i].prev < j /\ j < i => log[j].device # log[i].device

\* The pair in memory is the saved one, or the first one, not saved yet.
SavedInMemory == open /\ saved # NoPair => mem = saved

ChainInv ==
  /\ TypeOK
  /\ PairsKnown /\ RecorderAlone /\ EnsureAlone
  /\ LastStillLast /\ Linked /\ NoFork /\ SavedInMemory

-----------------------------------------------------------------------------
(* The log and the rows only grow.                                         *)

\* What TypeOK says of the log, entry by entry.
LEMMA LogTyped ==
  ASSUME AuditAssumption, TypeOK
  PROVE  /\ Len(log) \in Nat /\ DOMAIN log = 1..Len(log)
         /\ \A i \in DOMAIN log : /\ log[i] \in Entry
                                 /\ log[i].seq \in Nat /\ log[i].prev \in Nat
                                 /\ log[i].device \in 1..MaxDevices
<1>1. log \in Seq(Entry)
  BY DEF TypeOK
<1>2. Len(log) \in Nat /\ DOMAIN log = 1..Len(log)
  BY <1>1, LenProperties
<1>3. \A i \in DOMAIN log : log[i] \in Entry
  BY <1>1, <1>2, ElementOfSeq
<1>4. QED BY <1>2, <1>3 DEF Entry, AuditAssumption

LEMMA InitChainInv == AuditAssumption /\ Init => ChainInv
<1> SUFFICES ASSUME AuditAssumption, Init PROVE ChainInv
  OBVIOUS
<1>1. TypeOK
  <2>1. << >> \in Seq(1..MaxDevices) /\ << >> \in Seq(Entry) /\ Len(<< >>) = 0
    OBVIOUS
  <2>2. 0 \in 0..MaxFaults /\ 0 \in 0..MaxEntries /\ 0 <= MaxDevices /\ 0 <= MaxEntries
    BY DEF AuditAssumption
  <2>3. pc \in [Tasks -> Steps] /\ op \in [Tasks -> Commands]
    BY DEF Init, Steps, Commands
  <2>4. me \in [Tasks -> Pair \cup {NoPair}] /\ last \in [Tasks -> 0..MaxEntries]
    BY <2>2 DEF Init
  <2>5. QED BY <2>1, <2>2, <2>3, <2>4 DEF Init, TypeOK
<1>2. QED
  <2>1. DOMAIN log = {}
    BY DEF Init
  <2>2. PairsKnown /\ RecorderAlone /\ EnsureAlone /\ LastStillLast /\ SavedInMemory
    BY DEF Init, PairsKnown, RecorderAlone, EnsureAlone, LastStillLast, SavedInMemory
  <2>3. QED BY <1>1, <2>1, <2>2 DEF ChainInv, Linked, NoFork

\* A new row leaves every known pair and every entry as it was.
LEMMA RowsGrow ==
  ASSUME AuditAssumption, ChainInv, NEW n \in 1..MaxDevices,
         devices' = Append(devices, n), UNCHANGED log
  PROVE  /\ \A p : Known(p) => Known(p)'
         /\ Linked'
         /\ NoFork'
<1>1. devices \in Seq(1..MaxDevices)
  BY DEF ChainInv, TypeOK
<1>2. \A d \in DOMAIN devices : d \in DOMAIN devices' /\ devices'[d] = devices[d]
  BY <1>1, AppendProperties
<1>3. \A p : Known(p) => Known(p)'
  BY <1>2 DEF Known
<1>4. Linked'
  BY <1>2 DEF ChainInv, Linked
<1>5. NoFork'
  BY DEF ChainInv, NoFork
<1>6. QED BY <1>3, <1>4, <1>5

\* The entry with the highest seq of a device is the last one inserted.
LEMMA LastIsLatest ==
  ASSUME AuditAssumption, ChainInv, NEW d \in 1..MaxDevices, NEW i \in LastForDevice(d)
  PROVE  /\ i = Genesis => \A j \in DOMAIN log : log[j].device # d
         /\ i # Genesis => /\ i \in DOMAIN log /\ log[i].device = d
                           /\ \A j \in DOMAIN log : j > i => log[j].device # d
<1>2. /\ DOMAIN log = 1..Len(log) /\ Len(log) \in Nat
      /\ \A j \in DOMAIN log : log[j].seq \in Nat
  BY LogTyped DEF ChainInv
<1>3. CASE EntriesOf(d) = {}
  BY <1>3, <1>2 DEF LastForDevice, EntriesOf, Genesis
<1>4. CASE EntriesOf(d) # {}
  <2>1. i \in EntriesOf(d) /\ \A j \in EntriesOf(d) : log[j].seq <= log[i].seq
    BY <1>4 DEF LastForDevice
  <2>2. i \in DOMAIN log /\ log[i].device = d /\ i # Genesis
    BY <2>1, <1>2 DEF EntriesOf, Genesis
  <2>3. ASSUME NEW j \in DOMAIN log, j > i, log[j].device = d PROVE FALSE
    <3>1. log[i].seq < log[j].seq
      BY <2>2, <2>3, <1>2 DEF ChainInv, NoFork
    <3>2. log[j].seq <= log[i].seq
      BY <2>1, <2>3 DEF EntriesOf
    <3>3. log[i].seq \in Nat /\ log[j].seq \in Nat
      BY <1>2, <2>2, <2>3
    <3>4. QED BY <3>1, <3>2, <3>3
  <2>4. QED BY <2>2, <2>3
<1>5. QED BY <1>3, <1>4

\* Inserting after the end of the chain extends it.
LEMMA InsertLinked ==
  ASSUME AuditAssumption, ChainInv, NEW t \in Tasks, Insert(t)
  PROVE  /\ log' \in Seq(Entry) /\ Len(log') <= MaxEntries
         /\ Linked' /\ NoFork'
<1> DEFINE e == AppendTo(t)
           n == Len(log) + 1
<1>1. /\ Len(log) \in Nat /\ DOMAIN log = 1..Len(log) /\ log \in Seq(Entry)
      /\ \A i \in DOMAIN log : log[i].seq \in Nat /\ log[i].device \in 1..MaxDevices
  BY LogTyped DEF ChainInv, TypeOK
<1>2. /\ pc[t] = "insert" /\ Len(log) < MaxEntries /\ log' = Append(log, e)
      /\ devices' = devices
  BY DEF Insert
<1>3. /\ me[t] \in Pair /\ me[t].id \in DOMAIN devices /\ devices[me[t].id] = me[t].key
      /\ last[t] \in LastForDevice(me[t].id)
  BY <1>2 DEF ChainInv, PairsKnown, LastStillLast, Known
<1>4. /\ me[t].id \in 1..MaxDevices /\ me[t].key \in 1..MaxDevices
  BY <1>3 DEF Pair
<1>5. /\ last[t] = Genesis => \A j \in DOMAIN log : log[j].device # e.device
      /\ last[t] # Genesis
           => /\ last[t] \in DOMAIN log /\ log[last[t]].device = e.device
              /\ \A j \in DOMAIN log : j > last[t] => log[j].device # e.device
  BY <1>3, <1>4, LastIsLatest DEF AppendTo
<1>6. /\ e.device = me[t].id /\ e.key = me[t].key /\ e.prev = last[t]
      /\ e.seq = IF last[t] = Genesis THEN 0 ELSE log[last[t]].seq + 1
  BY DEF AppendTo
<1>7. e.seq \in Nat /\ e.seq < n
  BY <1>1, <1>5, <1>6 DEF ChainInv, Linked
<1>8. e.prev \in 0..MaxEntries
  BY <1>6 DEF ChainInv, TypeOK
<1>9. e \in Entry
  <2>1. e.seq \in 0..MaxEntries
    BY <1>1, <1>2, <1>7 DEF AuditAssumption
  <2>2. e = [device |-> e.device, key |-> e.key, seq |-> e.seq, prev |-> e.prev]
    BY DEF AppendTo
  <2>3. QED BY <2>1, <2>2, <1>4, <1>6, <1>8 DEF Entry
<1>10. /\ log' \in Seq(Entry) /\ Len(log') = n /\ DOMAIN log' = 1..n
       /\ log'[n] = e /\ \A i \in DOMAIN log : log'[i] = log[i]
  BY <1>1, <1>2, <1>9, AppendProperties, LenProperties
<1>11. \A i \in DOMAIN log' : i = n \/ (i \in DOMAIN log /\ i < n)
  BY <1>1, <1>10
<1>12. Linked'
  <2>1. ASSUME NEW i \in DOMAIN log' PROVE Linked!(i)'
    <3>1. CASE i = n
      <4>1. log'[i].prev # Genesis => log'[i].prev \in DOMAIN log /\ log'[i].prev < i
        BY <3>1, <1>1, <1>5, <1>6, <1>10
      <4>2. ASSUME NEW j \in DOMAIN log', j < i, log'[i].prev = Genesis \/ log'[i].prev < j
            PROVE  log'[j].device # log'[i].device
        BY <3>1, <4>2, <1>1, <1>5, <1>6, <1>10, <1>11
      <4>3. log'[i].prev # Genesis => log'[log'[i].prev].device = log'[i].device
        BY <3>1, <1>5, <1>6, <1>10
      <4>4. /\ log'[i].device \in DOMAIN devices' /\ log'[i].key = devices'[log'[i].device]
            /\ log'[i].seq < i
        BY <3>1, <1>2, <1>3, <1>6, <1>7, <1>10
      <4>5. log'[i].prev # Genesis => log'[i].prev \in DOMAIN log'
        BY <4>1, <1>1, <1>10
      <4>6. QED BY <4>1, <4>2, <4>3, <4>4, <4>5
    <3>2. CASE i \in DOMAIN log /\ i < n
      <4>1. \A j \in DOMAIN log' : j < i => j \in DOMAIN log
        BY <3>2, <1>1, <1>10
      <4>2. log'[i] = log[i]
        BY <3>2, <1>10
      <4>3. QED BY <3>2, <4>1, <4>2, <1>1, <1>2, <1>10 DEF ChainInv, Linked
    <3>3. QED BY <3>1, <3>2, <1>11
  <2>2. QED BY <2>1 DEF Linked
<1>13. NoFork'
  <2>1. ASSUME NEW i \in DOMAIN log', NEW j \in DOMAIN log',
               log'[i].device = log'[j].device, i < j
        PROVE  log'[i].seq < log'[j].seq
    <3>1. i \in DOMAIN log
      BY <2>1, <1>1, <1>10
    <3>2. CASE j \in DOMAIN log
      BY <2>1, <3>1, <3>2, <1>10 DEF ChainInv, NoFork
    <3>3. CASE j = n
      <4>1. last[t] # Genesis /\ i <= last[t] /\ last[t] \in DOMAIN log
        BY <2>1, <3>1, <3>3, <1>1, <1>5, <1>10
      <4>2. i = last[t] \/ log[i].seq < log[last[t]].seq
        <5>1. log'[i] = log[i] /\ log'[j] = e
          BY <3>1, <3>3, <1>10
        <5>2. log[i].device = log[last[t]].device
          BY <5>1, <4>1, <2>1, <1>5
        <5>3. CASE i < last[t]
          BY <5>2, <5>3, <4>1, <3>1 DEF ChainInv, NoFork
        <5>4. CASE ~(i < last[t])
          BY <5>4, <4>1, <3>1, <1>1
        <5>5. QED BY <5>3, <5>4
      <4>3. log[i].seq <= log[last[t]].seq
        BY <4>1, <4>2, <3>1, <1>1
      <4>4. QED BY <4>1, <4>3, <3>1, <3>3, <1>1, <1>6, <1>10
    <3>4. QED BY <3>2, <3>3, <1>11
  <2>2. QED BY <2>1 DEF NoFork
<1>14. QED BY <1>1, <1>2, <1>10, <1>12, <1>13 DEF AuditAssumption, ChainInv, TypeOK

-----------------------------------------------------------------------------
(* Every step keeps the invariant.                                         *)

\* Steps that leave both tables alone keep what is said of them.
LEMMA SameTables ==
  ASSUME ChainInv, UNCHANGED <<devices, log>>
  PROVE  /\ Linked' /\ NoFork'
         /\ \A p : Known(p) => Known(p)'
         /\ \A d : LastForDevice(d)' = LastForDevice(d)
BY DEF ChainInv, Linked, NoFork, Known, LastForDevice, EntriesOf

LEMMA NextChainInv ==
  AuditAssumption /\ NoPairAssumption /\ ChainInv /\ [Next]_vars => ChainInv'
<1> SUFFICES ASSUME AuditAssumption, NoPairAssumption, ChainInv, [Next]_vars
             PROVE  ChainInv'
  OBVIOUS
<1> USE DEF vault, Goto, Recorded, Fault
<1>1. ASSUME NEW t \in Tasks, Command(t) PROVE ChainInv'
  <2>1. UNCHANGED <<devices, log>>
    BY <1>1 DEF Command
  <2>2. TypeOK'
    BY <1>1 DEF Command, ChainInv, TypeOK, Steps, Commands
  <2>3. PairsKnown'
    BY <1>1, <2>1, SameTables DEF Command, ChainInv, TypeOK, PairsKnown
  <2>4. RecorderAlone' /\ EnsureAlone'
    BY <1>1 DEF Command, ChainInv, TypeOK, RecorderAlone, EnsureAlone, AuditAssumption
  <2>5. LastStillLast' /\ SavedInMemory'
    BY <1>1, <2>1, SameTables DEF Command, ChainInv, TypeOK, LastStillLast, SavedInMemory,
       EnsureAlone, RecorderAlone
  <2>6. QED BY <2>1, <2>2, <2>3, <2>4, <2>5, SameTables DEF ChainInv
<1>2. ASSUME NEW t \in Tasks, BeginLock(t) PROVE ChainInv'
  <2>1. UNCHANGED <<devices, log>>
    BY <1>2 DEF BeginLock
  <2>2. TypeOK'
    BY <1>2 DEF BeginLock, ChainInv, TypeOK, Steps, Commands
  <2>3. PairsKnown'
    BY <1>2, <2>1, SameTables DEF BeginLock, ChainInv, TypeOK, PairsKnown
  <2>4. RecorderAlone' /\ EnsureAlone'
    BY <1>2 DEF BeginLock, ChainInv, TypeOK, RecorderAlone, EnsureAlone, AuditAssumption
  <2>5. LastStillLast' /\ SavedInMemory'
    BY <1>2, <2>1, SameTables DEF BeginLock, ChainInv, TypeOK, LastStillLast, SavedInMemory,
       EnsureAlone, RecorderAlone
  <2>6. QED BY <2>1, <2>2, <2>3, <2>4, <2>5, SameTables DEF ChainInv
<1>3. ASSUME NEW t \in Tasks, OpenVault(t) PROVE ChainInv'
  <2>1. UNCHANGED <<devices, log>>
    BY <1>3 DEF OpenVault
  <2>2. TypeOK'
    BY <1>3 DEF OpenVault, ChainInv, TypeOK, Steps, Commands
  <2>3. PairsKnown'
    BY <1>3, <2>1, SameTables DEF OpenVault, ChainInv, TypeOK, PairsKnown
  <2>4. RecorderAlone' /\ EnsureAlone'
    BY <1>3 DEF OpenVault, ChainInv, TypeOK, RecorderAlone, EnsureAlone, AuditAssumption
  <2>5. LastStillLast' /\ SavedInMemory'
    BY <1>3, <2>1, SameTables DEF OpenVault, ChainInv, TypeOK, LastStillLast, SavedInMemory,
       EnsureAlone, RecorderAlone
  <2>6. QED BY <2>1, <2>2, <2>3, <2>4, <2>5, SameTables DEF ChainInv
<1>4. ASSUME NEW t \in Tasks, StartRecord(t) PROVE ChainInv'
  <2>1. UNCHANGED <<devices, log>>
    BY <1>4 DEF StartRecord
  <2>2. TypeOK'
    BY <1>4 DEF StartRecord, ChainInv, TypeOK, Steps, Commands
  <2>3. PairsKnown'
    BY <1>4, <2>1, SameTables DEF StartRecord, ChainInv, TypeOK, PairsKnown
  <2>4. RecorderAlone' /\ EnsureAlone'
    BY <1>4 DEF StartRecord, ChainInv, TypeOK, RecorderAlone, EnsureAlone, AuditAssumption
  <2>5. LastStillLast' /\ SavedInMemory'
    BY <1>4, <2>1, SameTables DEF StartRecord, ChainInv, TypeOK, LastStillLast, SavedInMemory,
       EnsureAlone, RecorderAlone
  <2>6. QED BY <2>1, <2>2, <2>3, <2>4, <2>5, SameTables DEF ChainInv
<1>5. ASSUME NEW t \in Tasks, ReadLast(t) PROVE ChainInv'
  <2>1. UNCHANGED <<devices, log>>
    BY <1>5 DEF ReadLast
  <2>2. TypeOK'
    <3>1. \A i \in LastForDevice(me[t].id) : i \in 0..MaxEntries
      BY LogTyped DEF ChainInv, TypeOK, LastForDevice, EntriesOf, Genesis, AuditAssumption
    <3>2. last' \in [Tasks -> 0..MaxEntries]
      BY <1>5, <3>1 DEF ReadLast, ChainInv, TypeOK
    <3>3. QED BY <1>5, <3>2 DEF ReadLast, ChainInv, TypeOK, Steps
  <2>3. PairsKnown'
    BY <1>5, <2>1, SameTables DEF ReadLast, ChainInv, TypeOK, PairsKnown
  <2>4. RecorderAlone' /\ EnsureAlone'
    BY <1>5 DEF ReadLast, ChainInv, TypeOK, RecorderAlone, EnsureAlone, AuditAssumption
  <2>5. LastStillLast' /\ SavedInMemory'
    BY <1>5, <2>1, SameTables DEF ReadLast, ChainInv, TypeOK, LastStillLast, SavedInMemory,
       EnsureAlone, RecorderAlone
  <2>6. QED BY <2>1, <2>2, <2>3, <2>4, <2>5, SameTables DEF ChainInv
<1>6. ASSUME NEW t \in Tasks, RecordFails(t) PROVE ChainInv'
  <2>1. UNCHANGED <<devices, log>>
    BY <1>6 DEF RecordFails
  <2>2. TypeOK'
    BY <1>6 DEF RecordFails, ChainInv, TypeOK, Steps, Commands
  <2>3. PairsKnown'
    BY <1>6, <2>1, SameTables DEF RecordFails, ChainInv, TypeOK, PairsKnown
  <2>4. RecorderAlone' /\ EnsureAlone'
    BY <1>6 DEF RecordFails, ChainInv, TypeOK, RecorderAlone, EnsureAlone, AuditAssumption
  <2>5. LastStillLast' /\ SavedInMemory'
    BY <1>6, <2>1, SameTables DEF RecordFails, ChainInv, TypeOK, LastStillLast, SavedInMemory,
       EnsureAlone, RecorderAlone
  <2>6. QED BY <2>1, <2>2, <2>3, <2>4, <2>5, SameTables DEF ChainInv
<1>7. ASSUME NEW t \in Tasks, FindKeys(t) PROVE ChainInv'
  <2>1. UNCHANGED <<devices, log>>
    BY <1>7 DEF FindKeys
  <2>2. TypeOK'
    BY <1>7 DEF FindKeys, ChainInv, TypeOK, Steps, Commands
  <2>3. PairsKnown'
    BY <1>7, <2>1, SameTables DEF FindKeys, ChainInv, TypeOK, PairsKnown
  <2>4. RecorderAlone' /\ EnsureAlone'
    BY <1>7 DEF FindKeys, ChainInv, TypeOK, RecorderAlone, EnsureAlone, AuditAssumption
  <2>5. LastStillLast' /\ SavedInMemory'
    BY <1>7, <2>1, SameTables DEF FindKeys, ChainInv, TypeOK, LastStillLast, SavedInMemory,
       EnsureAlone, RecorderAlone
  <2>6. QED BY <2>1, <2>2, <2>3, <2>4, <2>5, SameTables DEF ChainInv
<1>8. ASSUME NEW t \in Tasks, StoreKeys(t) PROVE ChainInv'
  <2>1. UNCHANGED <<devices, log>>
    BY <1>8 DEF StoreKeys
  <2>2. TypeOK'
    BY <1>8 DEF StoreKeys, ChainInv, TypeOK, Steps, Commands
  <2>3. PairsKnown'
    BY <1>8, <2>1, SameTables DEF StoreKeys, ChainInv, TypeOK, PairsKnown
  <2>4. RecorderAlone' /\ EnsureAlone'
    BY <1>8 DEF StoreKeys, ChainInv, TypeOK, RecorderAlone, EnsureAlone, AuditAssumption
  <2>5. LastStillLast' /\ SavedInMemory'
    BY <1>8, <2>1, SameTables DEF StoreKeys, ChainInv, TypeOK, LastStillLast, SavedInMemory,
       EnsureAlone, RecorderAlone
  <2>6. QED BY <2>1, <2>2, <2>3, <2>4, <2>5, SameTables DEF ChainInv
<1>9. ASSUME NEW t \in Tasks, EnsureFails(t) PROVE ChainInv'
  <2>1. UNCHANGED <<devices, log>>
    BY <1>9 DEF EnsureFails
  <2>2. TypeOK'
    BY <1>9 DEF EnsureFails, ChainInv, TypeOK, Steps, Commands
  <2>3. PairsKnown'
    BY <1>9, <2>1, SameTables DEF EnsureFails, ChainInv, TypeOK, PairsKnown
  <2>4. RecorderAlone' /\ EnsureAlone'
    BY <1>9 DEF EnsureFails, ChainInv, TypeOK, RecorderAlone, EnsureAlone, AuditAssumption
  <2>5. LastStillLast' /\ SavedInMemory'
    BY <1>9, <2>1, SameTables DEF EnsureFails, ChainInv, TypeOK, LastStillLast, SavedInMemory,
       EnsureAlone, RecorderAlone
  <2>6. QED BY <2>1, <2>2, <2>3, <2>4, <2>5, SameTables DEF ChainInv
<1>10. ASSUME NEW t \in Tasks, Publish(t) PROVE ChainInv'
  <2>1. UNCHANGED <<devices, log>>
    BY <1>10 DEF Publish
  <2>2. TypeOK'
    BY <1>10 DEF Publish, ChainInv, TypeOK, Steps, Commands
  <2>3. PairsKnown'
    BY <1>10, <2>1, SameTables DEF Publish, ChainInv, TypeOK, PairsKnown
  <2>4. RecorderAlone' /\ EnsureAlone'
    BY <1>10 DEF Publish, ChainInv, TypeOK, RecorderAlone, EnsureAlone, AuditAssumption
  <2>5. LastStillLast' /\ SavedInMemory'
    BY <1>10, <2>1, SameTables DEF Publish, ChainInv, TypeOK, LastStillLast, SavedInMemory,
       EnsureAlone, RecorderAlone
  <2>6. QED BY <2>1, <2>2, <2>3, <2>4, <2>5, SameTables DEF ChainInv
<1>11. ASSUME NEW t \in Tasks, ClearIdentity(t) PROVE ChainInv'
  <2>1. UNCHANGED <<devices, log>>
    BY <1>11 DEF ClearIdentity
  <2>2. TypeOK'
    BY <1>11 DEF ClearIdentity, ChainInv, TypeOK, Steps, Commands
  <2>3. PairsKnown'
    BY <1>11, <2>1, SameTables DEF ClearIdentity, ChainInv, TypeOK, PairsKnown
  <2>4. RecorderAlone' /\ EnsureAlone'
    BY <1>11 DEF ClearIdentity, ChainInv, TypeOK, RecorderAlone, EnsureAlone, AuditAssumption
  <2>5. LastStillLast' /\ SavedInMemory'
    BY <1>11, <2>1, SameTables DEF ClearIdentity, ChainInv, TypeOK, LastStillLast,
       SavedInMemory, EnsureAlone, RecorderAlone
  <2>6. QED BY <2>1, <2>2, <2>3, <2>4, <2>5, SameTables DEF ChainInv
<1>12. ASSUME NEW t \in Tasks, CloseVault(t) PROVE ChainInv'
  <2>1. UNCHANGED <<devices, log>>
    BY <1>12 DEF CloseVault
  <2>2. TypeOK'
    <3>1. /\ saved' \in Pair \cup {NoPair} /\ mem' \in Pair \cup {NoPair}
          /\ open' \in BOOLEAN /\ faults' \in 0..MaxFaults
      <4>1. faults' \in 0..MaxFaults
        BY <1>12 DEF CloseVault, ChainInv, TypeOK, AuditAssumption
      <4>2. saved' \in {saved, mem} /\ mem' \in {mem, NoPair} /\ open' \in {open, FALSE}
        BY <1>12, Zenon DEF CloseVault
      <4>3. QED BY <4>1, <4>2 DEF ChainInv, TypeOK
    <3>2. QED BY <1>12, <3>1 DEF CloseVault, ChainInv, TypeOK, Steps
  <2>3. PairsKnown'
    BY <1>12, <2>1, SameTables DEF CloseVault, ChainInv, TypeOK, PairsKnown
  <2>4. RecorderAlone' /\ EnsureAlone'
    BY <1>12 DEF CloseVault, ChainInv, TypeOK, RecorderAlone, EnsureAlone, AuditAssumption
  <2>5. LastStillLast' /\ SavedInMemory'
    BY <1>12, <2>1, SameTables DEF CloseVault, ChainInv, TypeOK, LastStillLast, SavedInMemory,
       EnsureAlone, RecorderAlone
  <2>6. QED BY <2>1, <2>2, <2>3, <2>4, <2>5, SameTables DEF ChainInv
<1>13. ASSUME NEW t \in Tasks, Insert(t) PROVE ChainInv'
  <2>1. log' \in Seq(Entry) /\ Len(log') <= MaxEntries /\ Linked' /\ NoFork'
    BY <1>13, InsertLinked
  <2>2. TypeOK'
    BY <1>13, <2>1 DEF Insert, ChainInv, TypeOK, Steps
  <2>3. PairsKnown'
    BY <1>13 DEF Insert, ChainInv, TypeOK, PairsKnown, Known
  <2>4. RecorderAlone' /\ EnsureAlone'
    BY <1>13 DEF Insert, ChainInv, TypeOK, RecorderAlone, EnsureAlone, AuditAssumption
  <2>5. \A u \in Tasks : pc'[u] # "insert"
    BY <1>13 DEF Insert, ChainInv, TypeOK, RecorderAlone
  <2>6. LastStillLast' /\ SavedInMemory'
    BY <1>13, <2>5 DEF Insert, ChainInv, LastStillLast, SavedInMemory
  <2>7. QED BY <2>1, <2>2, <2>3, <2>4, <2>6 DEF ChainInv
<1>14. ASSUME NEW t \in Tasks, InsertRow(t) PROVE ChainInv'
  <2> PICK n : n = Len(devices) + 1
    OBVIOUS
  <2>1. /\ devices \in Seq(1..MaxDevices) /\ Len(devices) \in Nat
        /\ n \in 1..MaxDevices /\ n <= MaxDevices
    BY <1>14, LenProperties DEF InsertRow, ChainInv, TypeOK, AuditAssumption
  <2>2. devices' = Append(devices, n) /\ UNCHANGED log
    BY <1>14 DEF InsertRow
  <2>3. (\A p : Known(p) => Known(p)') /\ Linked' /\ NoFork'
    BY <2>1, <2>2, RowsGrow
  <2>4. /\ devices' \in Seq(1..MaxDevices) /\ Len(devices') = n
        /\ n \in DOMAIN devices' /\ devices'[n] = n
    BY <2>1, <2>2, AppendProperties, LenProperties
  <2>5. me' = [me EXCEPT ![t] = [id |-> n, key |-> n]] /\ [id |-> n, key |-> n] \in Pair
    BY <1>14, <2>1 DEF InsertRow, Pair
  <2>6. TypeOK'
    BY <1>14, <2>1, <2>4, <2>5 DEF InsertRow, ChainInv, TypeOK, Steps
  <2>7. PairsKnown'
    <3>1. Known([id |-> n, key |-> n])'
      BY <2>4, <2>5 DEF Known
    <3>2. \A u \in Tasks : me'[u] = IF u = t THEN [id |-> n, key |-> n] ELSE me[u]
      BY <2>5 DEF ChainInv, TypeOK
    <3>3. \A u \in Tasks : pc'[u] = IF u = t THEN "store" ELSE pc[u]
      BY <1>14 DEF InsertRow, ChainInv, TypeOK
    <3>4. QED BY <1>14, <2>3, <3>1, <3>2, <3>3 DEF InsertRow, ChainInv, PairsKnown
  <2>8. RecorderAlone' /\ EnsureAlone'
    BY <1>14 DEF InsertRow, ChainInv, TypeOK, RecorderAlone, EnsureAlone, AuditAssumption
  <2>9. LastStillLast' /\ SavedInMemory'
    <3>1. \A u \in Tasks : pc'[u] = "insert" => u # t /\ pc[u] = "insert"
      BY <1>14 DEF InsertRow, ChainInv, TypeOK
    <3>2. \A d : LastForDevice(d)' = LastForDevice(d)
      BY <2>2 DEF LastForDevice, EntriesOf
    <3>3. \A u \in Tasks : u # t => me'[u] = me[u]
      BY <2>5 DEF ChainInv, TypeOK
    <3>4. QED BY <1>14, <3>1, <3>2, <3>3 DEF InsertRow, ChainInv, LastStillLast, SavedInMemory
  <2>10. QED BY <2>3, <2>6, <2>7, <2>8, <2>9 DEF ChainInv
<1>15. CASE FlushVault
  <2>1. TypeOK' /\ PairsKnown' /\ RecorderAlone' /\ EnsureAlone' /\ SavedInMemory'
    BY <1>15 DEF FlushVault, ChainInv, TypeOK, PairsKnown, Known, RecorderAlone, EnsureAlone,
       SavedInMemory
  <2>2. LastStillLast' /\ Linked' /\ NoFork'
    BY <1>15, SameTables DEF FlushVault, ChainInv, LastStillLast
  <2>3. QED BY <2>1, <2>2 DEF ChainInv
<1>16. CASE Restart
  <2>1. TypeOK'
    BY <1>16 DEF Restart, ChainInv, TypeOK, Steps
  <2>2. PairsKnown' /\ RecorderAlone' /\ EnsureAlone' /\ LastStillLast' /\ SavedInMemory'
    BY <1>16 DEF Restart, ChainInv, PairsKnown, Known, RecorderAlone, EnsureAlone,
                 LastStillLast, SavedInMemory
  <2>3. QED BY <1>16, <2>1, <2>2, SameTables DEF Restart, ChainInv
<1>17. CASE UNCHANGED vars
  <2>1. TypeOK' /\ PairsKnown' /\ RecorderAlone' /\ EnsureAlone' /\ SavedInMemory'
    BY <1>17 DEF vars, ChainInv, TypeOK, PairsKnown, Known, RecorderAlone, EnsureAlone,
       SavedInMemory
  <2>2. LastStillLast' /\ Linked' /\ NoFork'
    BY <1>17, SameTables DEF vars, ChainInv, LastStillLast
  <2>3. QED BY <2>1, <2>2 DEF ChainInv
<1>18. QED
  BY <1>1, <1>2, <1>3, <1>4, <1>5, <1>6, <1>7, <1>8, <1>9, <1>10, <1>11, <1>12,
     <1>13, <1>14, <1>15, <1>16, <1>17 DEF Next

-----------------------------------------------------------------------------
(* The theorems.                                                           *)

LEMMA ChainInvariant == Spec => []ChainInv
<1>1. AuditAssumption /\ NoPairAssumption
  BY AuditAssumption, NoPairAssumption
<1>2. QED BY <1>1, InitChainInv, NextChainInv, PTL DEF Spec

\* No state the program reaches has two entries of one device with the same
\* seq, for any number of concurrent commands.
THEOREM ChainsNeverFork == Spec => []NoFork
<1>1. ChainInv => NoFork
  BY DEF ChainInv
<1>2. QED BY <1>1, ChainInvariant, PTL

\* audit_verify_chain finds every chain valid in every reachable state.
THEOREM ChainsAlwaysVerify == Spec => []AllValid
<1>1. ChainInv => AllValid
  <2> SUFFICES ASSUME ChainInv, NEW x \in DOMAIN log PROVE VerifyChain(log[x].device)
    BY DEF AllValid
  <2> DEFINE d == log[x].device
  <2>1. d \in DOMAIN devices
    BY DEF ChainInv, Linked
  <2>2. /\ DOMAIN log = 1..Len(log) /\ Len(log) \in Nat
        /\ \A i \in DOMAIN log : log[i].seq \in Nat /\ log[i].prev \in Nat
    BY AuditAssumption, LogTyped DEF ChainInv
  <2>3. \A i, j \in EntriesOf(d) : Before(i, j) <=> i < j
    <3> SUFFICES ASSUME NEW i \in EntriesOf(d), NEW j \in EntriesOf(d)
                 PROVE  Before(i, j) <=> i < j
      OBVIOUS
    <3>1. i \in DOMAIN log /\ j \in DOMAIN log /\ log[i].device = log[j].device
      BY DEF EntriesOf
    <3>2. i < j => log[i].seq < log[j].seq
      BY <3>1 DEF ChainInv, NoFork
    <3>3. j < i => log[j].seq < log[i].seq
      BY <3>1 DEF ChainInv, NoFork
    <3>4. QED BY <3>1, <3>2, <3>3, <2>2 DEF Before
  <2>4. ASSUME NEW i \in EntriesOf(d) PROVE EntryValid(d, i)
    <3>1. i \in DOMAIN log /\ log[i].device = d /\ log[i].key = devices[d]
      BY DEF EntriesOf, ChainInv, Linked
    <3>2. CASE log[i].prev = Genesis
      <4>1. \A j \in EntriesOf(d) : ~(j < i)
        BY <3>1, <3>2 DEF ChainInv, Linked, EntriesOf
      <4>2. QED BY <4>1, <3>1, <3>2, <2>3 DEF EntryValid
    <3>3. CASE log[i].prev # Genesis
      <4>1. /\ log[i].prev \in EntriesOf(d) /\ log[i].prev < i
            /\ \A j \in EntriesOf(d) : ~(log[i].prev < j /\ j < i)
        BY <3>1, <3>3 DEF ChainInv, Linked, EntriesOf
      <4>2. QED BY <4>1, <3>1, <2>3 DEF EntryValid
    <3>4. QED BY <3>2, <3>3
  <2>5. QED BY <2>1, <2>4 DEF VerifyChain
<1>2. QED BY <1>1, ChainInvariant, PTL

\* Device keys that reached the vault file are never replaced.
THEOREM DeviceKeysKept == Spec => DeviceKept
<1>1. ChainInv /\ [Next]_vars => [saved # NoPair => saved' = saved]_saved
  <2> SUFFICES ASSUME ChainInv, Next, saved # NoPair PROVE saved' = saved
    BY DEF vars
  <2> USE DEF vault
  <2>1. ASSUME NEW t \in Tasks, StoreKeys(t) PROVE FALSE
    BY <2>1 DEF StoreKeys, ChainInv, EnsureAlone, SavedInMemory
  <2>2. ASSUME NEW t \in Tasks, CloseVault(t) PROVE saved' = saved
    BY <2>2 DEF CloseVault, ChainInv, SavedInMemory
  <2>3. CASE FlushVault
    BY <2>3 DEF FlushVault, ChainInv, SavedInMemory
  <2>4. QED
    BY <2>1, <2>2, <2>3 DEF Next, Command, BeginLock, OpenVault, StartRecord, ReadLast, Insert,
       RecordFails, FindKeys, InsertRow, EnsureFails, Publish, ClearIdentity, Restart
<1>2. QED BY <1>1, ChainInvariant, PTL DEF Spec, DeviceKept

-----------------------------------------------------------------------------
(***************************************************************************)
(* DependencyGraph, for any rows, databases to begin with and bounds: each *)
(* list a call holds is that of a moment of the call (GotInv), so an answer*)
(* has no edge that never was, and misses none that was there all along.   *)
(***************************************************************************)

\* The ids of all rows have been given.
UsedInv ==
  /\ \A u \in db.usages : u.usage \in used
  /\ \A d \in db.deploys : d.deploy \in used

\* The tables have been like this at a moment of the call.
Moment(s) == s \in Tables /\ Consistent(s) /\ Edges(s) \in seen

ListNames == {"issuers", "creds", "usages", "projects", "deploys"}
ReadBefore(L) == {k \in 1..5 : Lists[k] = L /\ k < call.step}

\* Each list is empty or that of a moment; one that has been read, if no read was
\* passed over, is that of a moment.
GotInv ==
  \A L \in ListNames :
    /\ got[L] # {} => \E s \in Tables : Moment(s) /\ got[L] = s[L]
    /\ call.step \in 1..6 /\ ~call.partial /\ ReadBefore(L) # {} =>
         \E s \in Tables : Moment(s) /\ got[L] = s[L]

\* A call asks about one credential, except graph_fetch.
CallInv ==
  /\ call.step = 0 => got = NoTables
  /\ call.step # 0 => Edges(db) \in seen
  /\ call.step \in {1, 2, 3, 4, 5, 6, 8, 9, 10} /\ call.kind # "graph_fetch" => call.cred \in Creds
  /\ call.step \in 7..10 => call.kind = "blast_radius_for_host"

\* The projects and deployments that depended on the credential throughout.
Direct(c, es) == {n \in Projects : \A e \in es : <<c, n>> \in e}
Behind(c, es) == {n \in Deploys : \A e \in es : \E p \in Direct(c, es) : <<p, n>> \in e}

RadiusInv ==
  call.step \in 8..10 /\ ~call.partial =>
    Direct(call.cred, seen) \cup Behind(call.cred, seen) \subseteq call.radius

GraphInv ==
  GraphTypeOK /\ UsedInv /\ GotInv /\ CallInv /\ RadiusInv /\ GraphHeld /\ NothingMissed

-----------------------------------------------------------------------------
(* The tables.                                                             *)

\* An edge leads from an issuer to a credential, from there to a project, and on
\* to a deployment.
LEMMA EdgeKinds ==
  ASSUME GraphAssumption, NEW s \in Tables, NEW e \in Edges(s)
  PROVE  e \in (Issuers \X Creds) \cup (Creds \X Projects) \cup (Projects \X Deploys)
<1> USE DEF Edges, Tables, Links, Hosted, GraphAssumption
<1>1. ASSUME NEW c \in s.creds, e = <<IssuerOf[c], c>> PROVE e \in Issuers \X Creds
  BY <1>1
<1>2. ASSUME NEW u \in s.usages, e = <<u.cred, u.project>> PROVE e \in Creds \X Projects
  BY <1>2
<1>3. ASSUME NEW d \in s.deploys, e = <<d.project, d.deploy>> PROVE e \in Projects \X Deploys
  BY <1>3
<1>4. QED BY <1>1, <1>2, <1>3

\* An edge is one of its kind only.
LEMMA UsageEdges ==
  ASSUME GraphAssumption, NEW s \in Tables, NEW c \in Creds, NEW p, <<c, p>> \in Edges(s)
  PROVE  p \in Projects /\ \E u \in s.usages : u.cred = c /\ u.project = p
<1> USE DEF Edges, Tables, Links, Hosted, GraphAssumption
<1>1. ASSUME NEW x \in s.creds PROVE <<c, p>> # <<IssuerOf[x], x>>
  <2>1. IssuerOf[x] \in Issuers
    OBVIOUS
  <2>2. QED BY <2>1
<1>2. ASSUME NEW d \in s.deploys PROVE <<c, p>> # <<d.project, d.deploy>>
  <2>1. d.project \in Projects
    OBVIOUS
  <2>2. QED BY <2>1
<1>3. PICK u \in s.usages : <<c, p>> = <<u.cred, u.project>>
  BY <1>1, <1>2
<1>4. u.cred = c /\ u.project = p /\ u.project \in Projects
  BY <1>3
<1>5. QED BY <1>4

LEMMA DeployEdges ==
  ASSUME GraphAssumption, NEW s \in Tables, NEW p \in Projects, NEW n, <<p, n>> \in Edges(s)
  PROVE  n \in Deploys /\ \E d \in s.deploys : d.project = p /\ d.deploy = n
<1> USE DEF Edges, Tables, Links, Hosted, GraphAssumption
<1>1. ASSUME NEW x \in s.creds PROVE <<p, n>> # <<IssuerOf[x], x>>
  <2>1. IssuerOf[x] \in Issuers
    OBVIOUS
  <2>2. QED BY <2>1
<1>2. ASSUME NEW u \in s.usages PROVE <<p, n>> # <<u.cred, u.project>>
  <2>1. u.cred \in Creds
    OBVIOUS
  <2>2. QED BY <2>1
<1>3. PICK d \in s.deploys : <<p, n>> = <<d.project, d.deploy>>
  BY <1>1, <1>2
<1>4. d.project = p /\ d.deploy = n /\ d.deploy \in Deploys
  BY <1>3
<1>5. QED BY <1>4

LEMMA LastEdges ==
  ASSUME GraphAssumption, NEW s \in Tables, NEW d \in Deploys, NEW n
  PROVE  <<d, n>> \notin Edges(s)
<1>1. SUFFICES ASSUME <<d, n>> \in Edges(s) PROVE FALSE
  OBVIOUS
<1>2. d \in Issuers \cup Creds \cup Projects
  BY <1>1, EdgeKinds
<1>3. QED BY <1>2 DEF GraphAssumption

\* A command leaves the tables consistent, and the ids of its rows given.
LEMMA WriteIs ==
  ASSUME GraphAssumption, GraphTypeOK, UsedInv, Write
  PROVE  \E s \in Tables : /\ Consistent(s) /\ Change(s)
                           /\ \A u \in s.usages : u.usage \in used'
                           /\ \A d \in s.deploys : d.deploy \in used'
<1> DEFINE Good(s) == /\ Consistent(s) /\ s \in Tables
                      /\ \A u \in s.usages : u.usage \in used'
                      /\ \A d \in s.deploys : d.deploy \in used'
           P == \E s \in Tables : Good(s) /\ Change(s)
<1>0. SUFFICES P
  OBVIOUS
<1> USE DEF GraphAssumption, GraphTypeOK, UsedInv
<1>1. ASSUME NEW i \in Issuers, IssuerCreate(i) PROVE P
  <2> DEFINE s == [db EXCEPT !.issuers = @ \cup {i}]
  <2>1. Change(s) /\ used' = used \cup {i}
    BY <1>1 DEF IssuerCreate, Fresh
  <2>2. s \in Tables /\ s.creds = db.creds /\ s.usages = db.usages /\ s.deploys = db.deploys
        /\ s.projects = db.projects /\ s.issuers = db.issuers \cup {i}
    BY DEF Tables
  <2>3. Good(s)
    BY <2>1, <2>2 DEF Consistent
  <2>4. QED BY <2>1, <2>2, <2>3
<1>2. ASSUME NEW c \in Creds, CredentialCreate(c) PROVE P
  <2> DEFINE s == [db EXCEPT !.creds = @ \cup {c}]
  <2>1. Change(s) /\ used' = used \cup {c} /\ IssuerOf[c] \in db.issuers
    BY <1>2 DEF CredentialCreate, Fresh
  <2>2. s \in Tables /\ s.creds = db.creds \cup {c} /\ s.usages = db.usages /\ s.deploys = db.deploys
        /\ s.projects = db.projects /\ s.issuers = db.issuers
    BY DEF Tables
  <2>3. Good(s)
    BY <2>1, <2>2 DEF Consistent
  <2>4. QED BY <2>1, <2>2, <2>3
<1>3. ASSUME NEW c \in Creds, CredentialDelete(c) PROVE P
  <2> DEFINE us == {u \in db.usages : u.cred # c}
             s == [db EXCEPT !.creds = @ \ {c}, !.usages = us]
  <2>1. Change(s) /\ used' = used
    BY <1>3 DEF CredentialDelete, Tables
  <2>2. s \in Tables /\ s.creds = db.creds \ {c} /\ s.usages = us /\ s.deploys = db.deploys
        /\ s.projects = db.projects /\ s.issuers = db.issuers
    BY DEF Tables
  <2>3. Good(s)
    BY <2>1, <2>2 DEF Consistent
  <2>4. QED BY <2>1, <2>2, <2>3
<1>4. ASSUME NEW p \in Projects, ProjectCreate(p) PROVE P
  <2> DEFINE s == [db EXCEPT !.projects = @ \cup {p}]
  <2>1. Change(s) /\ used' = used \cup {p}
    BY <1>4 DEF ProjectCreate, Fresh
  <2>2. s \in Tables /\ s.creds = db.creds /\ s.usages = db.usages /\ s.deploys = db.deploys
        /\ s.projects = db.projects \cup {p} /\ s.issuers = db.issuers
    BY DEF Tables
  <2>3. Good(s)
    BY <2>1, <2>2 DEF Consistent
  <2>4. QED BY <2>1, <2>2, <2>3
<1>5. ASSUME NEW p \in Projects, ProjectDelete(p) PROVE P
  <2> DEFINE us == {u \in db.usages : u.project # p}
             ds == {d \in db.deploys : d.project # p}
             s == [db EXCEPT !.projects = @ \ {p}, !.usages = us, !.deploys = ds]
  <2>1. Change(s) /\ used' = used
    BY <1>5 DEF ProjectDelete, Tables
  <2>2. s \in Tables /\ s.creds = db.creds /\ s.usages = us /\ s.deploys = ds
        /\ s.projects = db.projects \ {p} /\ s.issuers = db.issuers
    BY DEF Tables
  <2>3. Good(s)
    BY <2>1, <2>2 DEF Consistent
  <2>4. QED BY <2>1, <2>2, <2>3
<1>6. ASSUME NEW d \in Deploys, NEW p \in Projects, DeploymentCreate(d, p) PROVE P
  <2> DEFINE r == [deploy |-> d, project |-> p]
             s == [db EXCEPT !.deploys = @ \cup {r}]
  <2>1. Change(s) /\ d \notin used /\ used' = used \cup {d} /\ p \in db.projects
    BY <1>6 DEF DeploymentCreate, Fresh
  <2>2. s \in Tables /\ s.creds = db.creds /\ s.usages = db.usages /\ s.deploys = db.deploys \cup {r}
        /\ s.projects = db.projects /\ s.issuers = db.issuers
    BY DEF Tables, Hosted
  <2>3. \A x, y \in s.deploys : x.deploy = y.deploy => x = y
    BY <2>1, <2>2 DEF Consistent
  <2>4. Good(s)
    BY <2>1, <2>2, <2>3 DEF Consistent
  <2>5. QED BY <2>1, <2>2, <2>4
<1>7. ASSUME NEW u \in Usages, NEW c \in Creds, NEW p \in Projects, UsageCreate(u, c, p) PROVE P
  <2> DEFINE r == [usage |-> u, cred |-> c, project |-> p]
             s == [db EXCEPT !.usages = @ \cup {r}]
  <2>1. Change(s) /\ u \notin used /\ used' = used \cup {u} /\ c \in db.creds /\ p \in db.projects
    BY <1>7 DEF UsageCreate, Fresh
  <2>2. s \in Tables /\ s.creds = db.creds /\ s.usages = db.usages \cup {r} /\ s.deploys = db.deploys
        /\ s.projects = db.projects /\ s.issuers = db.issuers
    BY DEF Tables, Links
  <2>3. \A x, y \in s.usages : x.usage = y.usage => x = y
    BY <2>1, <2>2 DEF Consistent
  <2>4. Good(s)
    BY <2>1, <2>2, <2>3 DEF Consistent
  <2>5. QED BY <2>1, <2>2, <2>4
<1>8. ASSUME NEW n \in Deploys, DeploymentDelete(n) PROVE P
  <2> DEFINE ds == {d \in db.deploys : d.deploy # n}
             s == [db EXCEPT !.deploys = ds]
  <2>1. Change(s) /\ used' = used
    BY <1>8 DEF DeploymentDelete, Tables
  <2>2. s \in Tables /\ s.creds = db.creds /\ s.usages = db.usages /\ s.deploys = ds
        /\ s.projects = db.projects /\ s.issuers = db.issuers
    BY DEF Tables
  <2>3. Good(s)
    BY <2>1, <2>2 DEF Consistent
  <2>4. QED BY <2>1, <2>2, <2>3
<1>9. ASSUME NEW n \in Usages, UsageDelete(n) PROVE P
  <2> DEFINE us == {u \in db.usages : u.usage # n}
             s == [db EXCEPT !.usages = us]
  <2>1. Change(s) /\ used' = used
    BY <1>9 DEF UsageDelete, Tables
  <2>2. s \in Tables /\ s.creds = db.creds /\ s.usages = us /\ s.deploys = db.deploys
        /\ s.projects = db.projects /\ s.issuers = db.issuers
    BY DEF Tables
  <2>3. Good(s)
    BY <2>1, <2>2 DEF Consistent
  <2>4. QED BY <2>1, <2>2, <2>3
<1>10. QED BY <1>1, <1>2, <1>3, <1>4, <1>5, <1>6, <1>7, <1>8, <1>9 DEF Write

-----------------------------------------------------------------------------
(* What a graph reaches, and what is cut off.                              *)

LEMMA BuildEdges ==
  ASSUME NEW s
  PROVE  Build(s).edges = {e \in Edges(s) : e[1] \in Nodes(s) /\ e[2] \in Nodes(s)}
         /\ Build(s).nodes = Nodes(s)
BY DEF Build

LEMMA OutIs ==
  ASSUME NEW edges, NEW from, NEW n
  PROVE  n \in Out(edges, from) <=> \E e \in edges : e[1] \in from /\ e[2] = n
BY DEF Out

\* One hop from a credential are projects, from projects deployments, and from
\* there nothing.
LEMMA Hops ==
  ASSUME GraphAssumption, NEW s \in Tables, NEW c \in Creds
  PROVE  /\ Out(Build(s).edges, {c}) \subseteq Projects
         /\ \A ps \in SUBSET Projects : Out(Build(s).edges, ps) \subseteq Deploys
         /\ \A ds \in SUBSET Deploys : Out(Build(s).edges, ds) = {}
<1>1. ASSUME NEW e \in Build(s).edges
      PROVE  e \in Edges(s) /\ e \in (Issuers \X Creds) \cup (Creds \X Projects) \cup (Projects \X Deploys)
  BY <1>1, BuildEdges, EdgeKinds
<1>2. ASSUME NEW n \in Out(Build(s).edges, {c}) PROVE n \in Projects
  <2>1. PICK e \in Build(s).edges : e[1] = c /\ e[2] = n
    BY OutIs
  <2>2. e = <<c, n>> /\ e \in Edges(s)
    BY <1>1, <2>1
  <2>3. QED BY <2>2, UsageEdges
<1>3. ASSUME NEW ps \in SUBSET Projects, NEW n \in Out(Build(s).edges, ps) PROVE n \in Deploys
  <2>1. PICK e \in Build(s).edges : e[1] \in ps /\ e[2] = n
    BY OutIs
  <2>2. e = <<e[1], n>> /\ e \in Edges(s) /\ e[1] \in Projects
    BY <1>1, <2>1
  <2>3. QED BY <2>2, DeployEdges
<1>4. ASSUME NEW ds \in SUBSET Deploys, NEW n \in Out(Build(s).edges, ds) PROVE FALSE
  <2>1. PICK e \in Build(s).edges : e[1] \in ds /\ e[2] = n
    BY OutIs
  <2>2. e = <<e[1], n>> /\ e \in Edges(s) /\ e[1] \in Deploys
    BY <1>1, <2>1
  <2>3. QED BY <2>2, LastEdges
<1>5. QED BY <1>2, <1>3, <1>4

\* The blast radius is of projects and deployments.
LEMMA RadiusIs ==
  ASSUME GraphAssumption, NEW s \in Tables, NEW c \in Creds
  PROVE  /\ Primary(Build(s), c) = Out(Build(s).edges, {c})
         /\ Secondary(Build(s), c) = Out(Build(s).edges, Out(Build(s).edges, {c}))
         /\ Primary(Build(s), c) \subseteq Projects /\ Secondary(Build(s), c) \subseteq Deploys
         /\ BlastRadius(Build(s), c) =
              IF c \in Nodes(s) THEN Primary(Build(s), c) \cup Secondary(Build(s), c) ELSE {}
<1> DEFINE g == Build(s)
           ps == Out(g.edges, {c})
<1>0. Creds \cap (Projects \cup Deploys) = {} /\ Projects \cap Deploys = {}
  BY DEF GraphAssumption
<1>1. ps \subseteq Projects /\ Primary(g, c) = ps
  BY <1>0, Hops DEF Primary
<1>2. Out(g.edges, ps) \subseteq Deploys
  BY <1>1, Hops
<1>3. Secondary(g, c) = Out(g.edges, ps)
  BY <1>0, <1>1, <1>2 DEF Secondary
<1>4. Tertiary(g, c) = {}
  BY <1>2, <1>3, Hops DEF Tertiary
<1>5. QED BY <1>1, <1>2, <1>3, <1>4, BuildEdges DEF BlastRadius

\* Of a finite set, the shown part and the number of the others count all.
LEMMA CutCounts ==
  ASSUME GraphAssumption, NEW all \in SUBSET (Projects \cup Deploys), NEW part \in SUBSET all,
         NEW shown \in Cut(all)
  PROVE  Cardinality(part) <= Cardinality(shown) + (Cardinality(all) - Cardinality(shown))
<1>1. IsFiniteSet(all)
  BY FS_Union, FS_Subset DEF GraphAssumption
<1>2. IsFiniteSet(part) /\ IsFiniteSet(shown) /\ Cardinality(part) <= Cardinality(all)
  BY <1>1, FS_Subset DEF Cut
<1>3. Cardinality(all) \in Nat /\ Cardinality(shown) \in Nat /\ Cardinality(part) \in Nat
  BY <1>1, <1>2, FS_CardinalityType
<1>4. QED BY <1>2, <1>3

LEMMA WholeCounts ==
  ASSUME GraphAssumption, NEW all \in SUBSET (Projects \cup Deploys), NEW part \in SUBSET all
  PROVE  Cardinality(part) <= Cardinality(all) + 0
<1>1. IsFiniteSet(all)
  BY FS_Union, FS_Subset DEF GraphAssumption
<1>2. IsFiniteSet(part) /\ Cardinality(part) <= Cardinality(all)
  BY <1>1, FS_Subset
<1>3. QED BY <1>1, <1>2, FS_CardinalityType

\* What depends on the credential for longer is less.
LEMMA DependsLess ==
  ASSUME NEW c, NEW es, NEW fs, es \subseteq fs
  PROVE  Direct(c, fs) \subseteq Direct(c, es) /\ Behind(c, fs) \subseteq Behind(c, es)
BY DEF Direct, Behind

-----------------------------------------------------------------------------
(* The lists of a call make a graph of what was there.                     *)

\* Once all lists are read, each is that of a moment.
LEMMA AllRead ==
  ASSUME GotInv, call.step = 6, ~call.partial, NEW L \in ListNames
  PROVE  \E s \in Tables : Moment(s) /\ got[L] = s[L]
<1>1. \E k \in 1..5 : Lists[k] = L
  <2>1. Lists[1] = "issuers" /\ Lists[2] = "creds" /\ Lists[3] = "usages"
        /\ Lists[4] = "projects" /\ Lists[5] = "deploys"
    BY DEF Lists
  <2>2. QED BY <2>1 DEF ListNames
<1>2. ReadBefore(L) # {}
  BY <1>1 DEF ReadBefore
<1>3. QED BY <1>2 DEF GotInv

\* Each edge of the graph was there.
LEMMA EdgesSeen ==
  ASSUME GraphAssumption, GraphTypeOK, GotInv, NEW e \in Build(got).edges
  PROVE  e[1] \in Build(got).nodes /\ e[2] \in Build(got).nodes /\ e \in UNION seen
<1>1. e \in Edges(got) /\ e[1] \in Nodes(got) /\ e[2] \in Nodes(got)
  BY BuildEdges
<1>2. ASSUME NEW L \in ListNames, got[L] # {}
      PROVE  \E s \in Tables : Edges(s) \in seen /\ got[L] = s[L]
  BY <1>2 DEF GotInv, Moment
<1>3. ASSUME NEW c \in got.creds, e = <<IssuerOf[c], c>> PROVE e \in UNION seen
  <2>1. PICK s \in Tables : Edges(s) \in seen /\ got["creds"] = s["creds"]
    BY <1>2 DEF ListNames
  <2>2. QED BY <1>3, <2>1 DEF Edges
<1>4. ASSUME NEW u \in got.usages, e = <<u.cred, u.project>> PROVE e \in UNION seen
  <2>1. PICK s \in Tables : Edges(s) \in seen /\ got["usages"] = s["usages"]
    BY <1>2 DEF ListNames
  <2>2. QED BY <1>4, <2>1 DEF Edges
<1>5. ASSUME NEW d \in got.deploys, e = <<d.project, d.deploy>> PROVE e \in UNION seen
  <2>1. PICK s \in Tables : Edges(s) \in seen /\ got["deploys"] = s["deploys"]
    BY <1>2 DEF ListNames
  <2>2. QED BY <1>5, <2>1 DEF Edges
<1>6. e \in UNION seen
  BY <1>1, <1>3, <1>4, <1>5 DEF Edges
<1>7. QED BY <1>1, <1>6, BuildEdges

\* A project that depended on the credential throughout is one hop away ...
LEMMA DirectFound ==
  ASSUME GraphAssumption, GraphTypeOK, GotInv, call.step = 6, ~call.partial,
         NEW c \in Creds, NEW n \in Direct(c, seen)
  PROVE  c \in Nodes(got) /\ n \in Projects /\ n \in got.projects /\ n \in Out(Build(got).edges, {c})
<1>1. \A e \in seen : <<c, n>> \in e
  BY DEF Direct
<1>2. n \in Projects
  BY DEF Direct
<1>3. PICK s \in Tables : Moment(s) /\ got["creds"] = s["creds"]
  BY AllRead DEF ListNames
<1>4. c \in got.creds
  BY <1>1, <1>3, UsageEdges DEF Moment, Consistent
<1>5. PICK t \in Tables : Moment(t) /\ got["usages"] = t["usages"]
  BY AllRead DEF ListNames
<1>6. <<c, n>> \in Edges(got)
  <2>1. PICK u \in t.usages : u.cred = c /\ u.project = n
    BY <1>1, <1>5, UsageEdges DEF Moment
  <2>2. u \in got.usages
    BY <1>5
  <2>3. QED BY <2>1, <2>2 DEF Edges
<1>7. PICK v \in Tables : Moment(v) /\ got["projects"] = v["projects"]
  BY AllRead DEF ListNames
<1>8. n \in got.projects
  BY <1>1, <1>7, UsageEdges DEF Moment, Consistent
<1>9. <<c, n>> \in Build(got).edges
  <2>1. c \in Nodes(got) /\ n \in Nodes(got)
    BY <1>4, <1>8 DEF Nodes
  <2>2. QED BY <1>6, <2>1, BuildEdges
<1>10. QED BY <1>2, <1>4, <1>8, <1>9, OutIs DEF Nodes

\* ... and a deployment behind such projects, two.
LEMMA BehindFound ==
  ASSUME GraphAssumption, GraphTypeOK, GotInv, call.step = 6, ~call.partial,
         NEW c \in Creds, NEW n \in Behind(c, seen)
  PROVE  c \in Nodes(got) /\ n \in Out(Build(got).edges, Out(Build(got).edges, {c}))
<1>1. PICK s \in Tables : Moment(s) /\ got["deploys"] = s["deploys"]
  BY AllRead DEF ListNames
<1>2. PICK p \in Direct(c, seen) : <<p, n>> \in Edges(s)
  BY <1>1 DEF Behind, Moment
<1>3. c \in Nodes(got) /\ p \in Projects /\ p \in got.projects /\ p \in Out(Build(got).edges, {c})
  BY <1>2, DirectFound
<1>4. PICK d \in s.deploys : d.project = p /\ d.deploy = n
  BY <1>2, <1>3, DeployEdges
<1>5. d \in got.deploys
  BY <1>1, <1>4
<1>6. <<p, n>> \in Edges(got) /\ p \in Nodes(got) /\ n \in Nodes(got)
  BY <1>3, <1>4, <1>5 DEF Edges, Nodes
<1>7. <<p, n>> \in Build(got).edges
  BY <1>6, BuildEdges
<1>8. QED BY <1>3, <1>7, OutIs

LEMMA AffectedIs ==
  ASSUME GraphAssumption, GraphTypeOK, call.cred \in Creds
  PROVE  /\ Affected = BlastRadius(Build(got), call.cred)
         /\ Affected = IF call.cred \in Nodes(got)
                       THEN Primary(Build(got), call.cred) \cup Secondary(Build(got), call.cred)
                       ELSE {}
<1> DEFINE c == call.cred
           g == Build(got)
<1>1. got \in Tables
  BY DEF GraphTypeOK
<1>2. g.nodes = Nodes(got)
  BY BuildEdges
<1>3. Affected = IF c \in Nodes(got) THEN Primary(g, c) \cup Secondary(g, c) ELSE {}
  BY <1>2, Zenon DEF Affected
<1>4. BlastRadius(g, c) = IF c \in Nodes(got) THEN Primary(g, c) \cup Secondary(g, c) ELSE {}
  BY <1>1, RadiusIs, Zenon
<1>5. QED BY <1>3, <1>4, Zenon

\* So what the previews of a host list takes in all of these.
LEMMA AffectedFound ==
  ASSUME GraphAssumption, GraphTypeOK, GotInv, call.step = 6, ~call.partial, call.cred \in Creds
  PROVE  /\ Direct(call.cred, seen) \cup Behind(call.cred, seen) \subseteq Affected
         /\ Affected = BlastRadius(Build(got), call.cred)
<1> DEFINE c == call.cred
<1>0. got \in Tables
  BY DEF GraphTypeOK
<1>1. BlastRadius(Build(got), c) = Affected
  BY AffectedIs
<1>2. ASSUME NEW n \in Direct(c, seen) PROVE n \in Affected
  <2>1. c \in Nodes(got) /\ n \in Out(Build(got).edges, {c})
    BY DirectFound
  <2>2. n \in Primary(Build(got), c)
    BY <1>0, <2>1, RadiusIs, Zenon
  <2>3. QED BY <2>1, <2>2, AffectedIs
<1>3. ASSUME NEW n \in Behind(c, seen) PROVE n \in Affected
  <2>1. c \in Nodes(got) /\ n \in Out(Build(got).edges, Out(Build(got).edges, {c}))
    BY BehindFound
  <2>2. n \in Secondary(Build(got), c)
    BY <1>0, <2>1, RadiusIs, Zenon
  <2>3. QED BY <2>1, <2>2, AffectedIs
<1>4. QED BY <1>1, <1>2, <1>3

LEMMA AffectedTyped ==
  ASSUME GraphAssumption, GraphTypeOK, call.cred \in Creds
  PROVE  /\ Affected \subseteq Projects \cup Deploys
         /\ BlastRadius(Build(got), call.cred) \subseteq Projects \cup Deploys
<1>1. got \in Tables
  BY DEF GraphTypeOK
<1>2. Primary(Build(got), call.cred) \subseteq Projects /\ Secondary(Build(got), call.cred) \subseteq Deploys
  BY <1>1, RadiusIs
<1>3. QED BY <1>2, AffectedIs

-----------------------------------------------------------------------------
(* The calls.                                                              *)

CallsInv == GraphTypeOK /\ UsedInv /\ GotInv /\ CallInv /\ RadiusInv
RepliesInv == GraphHeld /\ NothingMissed

LEMMA NothingRead ==
  NoTables \in Tables /\ \A L \in ListNames : NoTables[L] = {}
BY DEF NoTables, Tables, ListNames

\* What a moment was, it stays for as long as the call goes on.
LEMMA MomentStays ==
  ASSUME NEW s, Moment(s), seen \subseteq seen'
  PROVE  Moment(s)'
BY DEF Moment

LEMMA InitGraphInv == GraphAssumption /\ GraphInit => GraphInv
<1> SUFFICES ASSUME GraphAssumption, GraphInit PROVE GraphInv
  OBVIOUS
<1>1. GraphTypeOK
  <2>1. db \in Tables /\ Consistent(db) /\ got \in Tables
    BY NothingRead DEF GraphInit, GraphAssumption
  <2>2. call \in Call
    BY DEF GraphInit, Idle, Call, Kinds, NoCred
  <2>3. QED BY <2>1, <2>2 DEF GraphInit, GraphTypeOK, GraphAssumption
<1>2. UsedInv
  BY DEF GraphInit, UsedInv, Nodes
<1>3. GotInv /\ CallInv /\ RadiusInv
  BY NothingRead DEF GraphInit, Idle, GotInv, CallInv, RadiusInv
<1>4. GraphHeld /\ NothingMissed
  BY DEF GraphInit, NoReply, GraphHeld, NothingMissed
<1>5. QED BY <1>1, <1>2, <1>3, <1>4 DEF GraphInv

LEMMA WriteStep ==
  ASSUME GraphAssumption, CallsInv, Write
  PROVE  CallsInv' /\ reply' = reply
<1> USE DEF CallsInv
<1>1. PICK s \in Tables : /\ Consistent(s) /\ Change(s)
                          /\ \A u \in s.usages : u.usage \in used'
                          /\ \A d \in s.deploys : d.deploy \in used'
  BY WriteIs
<1>2. db' = s /\ UNCHANGED <<graphFaults, call, got, reply>> /\ edits' = edits + 1 /\ edits < MaxEdits
  BY <1>1 DEF Change
<1>3. GraphTypeOK'
  BY <1>1, <1>2 DEF GraphTypeOK, GraphAssumption
<1>4. UsedInv'
  BY <1>1, <1>2 DEF UsedInv
<1>5. CASE call.step = 0
  <2>1. got' = NoTables /\ call'.step = 0
    BY <1>2, <1>5 DEF CallInv
  <2>2. GotInv' /\ CallInv' /\ RadiusInv'
    BY <2>1, NothingRead DEF GotInv, CallInv, RadiusInv
  <2>3. QED BY <1>2, <1>3, <1>4, <2>2
<1>6. CASE call.step # 0
  <2>1. seen' = seen \cup {Edges(s)}
    BY <1>1, <1>6 DEF Change
  <2>2. CallInv'
    BY <1>2, <2>1 DEF CallInv
  <2>3. GotInv'
    <3>1. \A x \in Tables : Moment(x) => Moment(x)'
      BY <2>1, MomentStays
    <3>2. \A L \in ListNames : ReadBefore(L)' = ReadBefore(L)
      BY <1>2 DEF ReadBefore
    <3>3. QED BY <1>2, <3>1, <3>2 DEF GotInv
  <2>4. RadiusInv'
    <3>1. Direct(call.cred, seen') \subseteq Direct(call.cred, seen)
          /\ Behind(call.cred, seen') \subseteq Behind(call.cred, seen)
      BY <2>1, DependsLess
    <3>2. QED BY <1>2, <3>1 DEF RadiusInv
  <2>5. QED BY <1>2, <1>3, <1>4, <2>2, <2>3, <2>4
<1>7. QED BY <1>5, <1>6

\* A call that begins.
Asks ==
  \/ Ask("graph_fetch", NoCred) \/ AskTool("graph_fetch", NoCred)
  \/ \E c \in Creds :
       \/ \E kind \in {"blast_radius_for_credential", "graph_for_credential"} : Ask(kind, c)
       \/ AskExtension(c) \/ AskTool("blast_radius_for_credential", c)
  \/ \E by \in {"window", "extension"}, i \in Issuers : AskHost(by, i)

LEMMA AskIs ==
  ASSUME GraphAssumption, Asks
  PROVE  \E r \in Call : /\ Begin(r)
                         /\ \/ r.step = 1 /\ (r.kind # "graph_fetch" => r.cred \in Creds)
                            \/ r.step = 7 /\ r.kind = "blast_radius_for_host"
<1> DEFINE P == \E r \in Call : /\ Begin(r)
                         /\ \/ r.step = 1 /\ (r.kind # "graph_fetch" => r.cred \in Creds)
                            \/ r.step = 7 /\ r.kind = "blast_radius_for_host"
<1> SUFFICES P
  OBVIOUS
<1>0. Idle \in Call
  BY DEF Idle, Call, Kinds, NoCred
<1>1. ASSUME NEW kind \in Kinds, NEW by \in {"window", "extension", "tool"}, NEW c \in Creds \cup {NoCred},
             kind = "graph_fetch" \/ c \in Creds,
             Begin([Idle EXCEPT !.kind = kind, !.by = by, !.step = 1, !.cred = c])
      PROVE  P
  <2> DEFINE r == [Idle EXCEPT !.kind = kind, !.by = by, !.step = 1, !.cred = c]
  <2>1. r \in Call /\ r.step = 1 /\ r.kind = kind /\ r.cred = c
    <3> DEFINE x == [Idle EXCEPT !.kind = kind, !.by = by]
               y == [x EXCEPT !.step = 1, !.cred = c]
    <3>1. x \in Call /\ x.kind = kind
      BY <1>0 DEF Call
    <3>2. y \in Call /\ y.step = 1 /\ y.kind = kind /\ y.cred = c
      <4> HIDE DEF x
      <4>0. 1 \in 0..10 /\ 7 \in 0..10
        OBVIOUS
      <4>1. y \in Call
        BY <3>1, <4>0 DEF Call
      <4>2. QED BY <3>1, <4>1 DEF Call
    <3>3. QED BY <3>2
  <2>2. QED BY <1>1, <2>1
<1>2. ASSUME NEW kind \in Kinds, NEW c \in Creds \cup {NoCred}, kind = "graph_fetch" \/ c \in Creds,
             Ask(kind, c)
      PROVE  P
  <2>1. [Idle EXCEPT !.kind = kind, !.step = 1, !.cred = c]
          = [Idle EXCEPT !.kind = kind, !.by = "window", !.step = 1, !.cred = c]
    <3>1. [Idle EXCEPT !.kind = kind].by = "window" /\ [Idle EXCEPT !.kind = kind] \in Call
      BY <1>0 DEF Idle, Call
    <3> DEFINE k == [Idle EXCEPT !.kind = kind]
    <3>2. k = [k EXCEPT !.by = "window"]
      BY <3>1 DEF Call
    <3>3. QED BY <3>2
  <2>2. QED BY <1>1, <1>2, <2>1 DEF Ask
<1>3. ASSUME NEW c \in Creds, AskExtension(c) PROVE P
  BY <1>1, <1>3 DEF AskExtension, Kinds
<1>4. ASSUME NEW kind \in Kinds, NEW c \in Creds \cup {NoCred}, kind = "graph_fetch" \/ c \in Creds,
             AskTool(kind, c)
      PROVE  P
  BY <1>1, <1>4 DEF AskTool
<1>5. ASSUME NEW by \in {"window", "extension"}, NEW i \in Issuers, AskHost(by, i) PROVE P
  <2> DEFINE r == [Idle EXCEPT !.kind = "blast_radius_for_host", !.by = by, !.step = 7, !.issuer = i]
  <2>1. r \in Call /\ r.step = 7 /\ r.kind = "blast_radius_for_host"
    <3> DEFINE x == [Idle EXCEPT !.kind = "blast_radius_for_host", !.by = by]
               y == [x EXCEPT !.step = 7, !.issuer = i]
    <3>1. x \in Call /\ x.kind = "blast_radius_for_host"
      BY <1>0 DEF Call, Kinds
    <3>2. y \in Call /\ y.step = 7 /\ y.kind = "blast_radius_for_host"
      <4> HIDE DEF x
      <4>0. 1 \in 0..10 /\ 7 \in 0..10
        OBVIOUS
      <4>1. y \in Call
        BY <3>1, <4>0 DEF Call
      <4>2. QED BY <3>1, <4>1 DEF Call
    <3>3. QED BY <3>2
  <2>2. QED BY <1>5, <2>1 DEF AskHost
<1>6. QED BY <1>2, <1>3, <1>4, <1>5 DEF Asks, Kinds

LEMMA AskStep ==
  ASSUME GraphAssumption, CallsInv, Asks
  PROVE  CallsInv' /\ reply' = NoReply
<1> USE DEF CallsInv
<1>1. PICK r \in Call : /\ Begin(r)
                        /\ \/ r.step = 1 /\ (r.kind # "graph_fetch" => r.cred \in Creds)
                           \/ r.step = 7 /\ r.kind = "blast_radius_for_host"
  BY AskIs
<1>2. /\ call.step = 0 /\ call' = r /\ seen' = {Edges(db)} /\ reply' = NoReply
      /\ UNCHANGED <<db, used, edits, graphFaults, got>>
  BY <1>1 DEF Begin
<1>3. GraphTypeOK' /\ UsedInv'
  BY <1>1, <1>2 DEF GraphTypeOK, UsedInv
<1>4. got' = NoTables
  BY <1>2 DEF CallInv
<1>5. CallInv' /\ RadiusInv'
  BY <1>1, <1>2 DEF CallInv, RadiusInv
<1>6. GotInv'
  <2>1. call'.step = 1 \/ call'.step = 7
    BY <1>1, <1>2
  <2>2. call'.step = 1 => \A L \in ListNames : ReadBefore(L)' = {}
    BY DEF ReadBefore
  <2>3. QED BY <1>4, <2>1, <2>2, NothingRead DEF GotInv
<1>7. QED BY <1>2, <1>3, <1>5, <1>6

LEMMA EndStep ==
  ASSUME GraphAssumption, CallsInv, NEW r, End(r), graphFaults' \in 0..MaxGraphFaults
  PROVE  CallsInv' /\ reply' = r
<1> USE DEF CallsInv
<1>1. call' = Idle /\ got' = NoTables /\ reply' = r /\ UNCHANGED <<db, used, edits>>
  BY DEF End
<1>2. call' \in Call /\ call'.step = 0
  BY <1>1 DEF Idle, Call, Kinds, NoCred
<1>3. GraphTypeOK' /\ UsedInv'
  BY <1>1, <1>2, NothingRead DEF GraphTypeOK, UsedInv
<1>4. GotInv' /\ CallInv' /\ RadiusInv'
  BY <1>1, <1>2, NothingRead DEF GotInv, CallInv, RadiusInv
<1>5. QED BY <1>1, <1>3, <1>4

LEMMA NextStepTyped ==
  ASSUME GraphTypeOK, NEW k \in 0..10
  PROVE  [call EXCEPT !.step = k] \in Call
BY DEF GraphTypeOK, Call

LEMMA ReadStep ==
  ASSUME GraphAssumption, CallsInv, Read
  PROVE  CallsInv' /\ reply' = reply
<1> USE DEF CallsInv
<1> DEFINE list == Lists[call.step]
<1>0. call \in Call /\ call.step \in 1..5 /\ call.step + 1 \in 0..10
  BY DEF Read, GraphTypeOK, Call
<1>1. /\ got' = [got EXCEPT ![list] = db[list]]
      /\ call' = [call EXCEPT !.step = call.step + 1]
      /\ UNCHANGED <<db, used, edits, graphFaults, seen, reply>>
  BY <1>0 DEF Read, Call
<1>2. list \in ListNames
  BY <1>0 DEF Lists, ListNames
<1>3. got' \in Tables /\ got'[list] = db[list] /\ \A L \in ListNames \ {list} : got'[L] = got[L]
  BY <1>1, <1>2 DEF GraphTypeOK, Tables, ListNames
<1>4. call' \in Call /\ call'.step = call.step + 1 /\ call'.partial = call.partial
      /\ call'.kind = call.kind /\ call'.cred = call.cred
  <2>1. call' \in Call
    BY <1>0, <1>1, NextStepTyped
  <2>2. QED BY <1>0, <1>1, <2>1 DEF Call
<1>5. GraphTypeOK' /\ UsedInv'
  BY <1>1, <1>3, <1>4 DEF GraphTypeOK, UsedInv
<1>6. Edges(db) \in seen /\ Moment(db)
  BY <1>0 DEF CallInv, Moment, GraphTypeOK
<1>7. \A s : Moment(s) => Moment(s)'
  BY <1>1, MomentStays
<1>8. ASSUME NEW L \in ListNames \ {list} PROVE ReadBefore(L)' = ReadBefore(L)
  BY <1>0, <1>4, <1>8 DEF ReadBefore
<1>9. GotInv'
  <2> DEFINE G(L) == /\ got[L] # {} => \E s \in Tables : Moment(s) /\ got[L] = s[L]
                     /\ call.step \in 1..6 /\ ~call.partial /\ ReadBefore(L) # {} =>
                          \E s \in Tables : Moment(s) /\ got[L] = s[L]
  <2>1. ASSUME NEW L \in ListNames, L = list PROVE G(L)'
    <3>1. PICK s \in Tables : s = db /\ Moment(s)
      BY <1>6 DEF GraphTypeOK
    <3>2. Moment(s)' /\ got'[L] = s[L]
      BY <1>3, <1>7, <2>1, <3>1
    <3>3. QED BY <3>2
  <2>2. ASSUME NEW L \in ListNames, L # list PROVE G(L)'
    <3>1. G(L) /\ ReadBefore(L)' = ReadBefore(L) /\ got'[L] = got[L]
      BY <1>3, <1>8, <2>2 DEF GotInv
    <3>2. call.step \in 1..6
      BY <1>0
    <3>3. QED BY <1>4, <1>7, <3>1, <3>2
  <2>3. \A L \in ListNames : G(L)'
    BY <2>1, <2>2
  <2>4. QED BY <2>3 DEF GotInv
<1>10. CallInv' /\ RadiusInv'
  BY <1>0, <1>1, <1>4, <1>6 DEF CallInv, RadiusInv
<1>11. QED BY <1>1, <1>5, <1>9, <1>10

\* A step of the call that reads nothing, up to the answer.
LEMMA GoOn ==
  ASSUME GraphAssumption, CallsInv, call.step \in 1..7, call' \in Call, call'.step \in 1..6,
         call'.kind = call.kind, call'.kind # "graph_fetch" => call'.cred \in Creds,
         call'.partial \/ call'.step = 1,
         UNCHANGED <<db, used, edits, got, seen, reply>>, graphFaults' \in 0..MaxGraphFaults
  PROVE  CallsInv' /\ reply' = reply
<1> USE DEF CallsInv
<1>1. GraphTypeOK' /\ UsedInv'
  BY DEF GraphTypeOK, UsedInv
<1>2. CallInv' /\ RadiusInv'
  BY DEF CallInv, RadiusInv
<1>3. \A s : Moment(s) => Moment(s)'
  BY MomentStays
<1>4. call'.step = 1 => \A L \in ListNames : ReadBefore(L)' = {}
  BY DEF ReadBefore
<1>5. GotInv'
  BY <1>3, <1>4 DEF GotInv
<1>6. QED BY <1>1, <1>2, <1>5

LEMMA ReadDefaultStep ==
  ASSUME GraphAssumption, CallsInv, ReadDefault
  PROVE  CallsInv' /\ reply' = reply
<1>1. /\ call \in Call /\ call.step \in 1..5 /\ call.step + 1 \in 1..6
      /\ call' = [call EXCEPT !.step = call.step + 1, !.partial = TRUE]
      /\ graphFaults' = graphFaults + 1 /\ graphFaults < MaxGraphFaults
      /\ UNCHANGED <<db, used, edits, got, seen, reply>>
  BY DEF ReadDefault, SelectFails, CallsInv, GraphTypeOK, Call
<1>2. call' \in Call
  <2> DEFINE x == [call EXCEPT !.step = call.step + 1]
  <2>1. x \in Call
    BY <1>1, NextStepTyped DEF CallsInv
  <2>2. call' = [x EXCEPT !.partial = TRUE]
    BY <1>1
  <2> HIDE DEF x
  <2>3. QED BY <2>1, <2>2 DEF Call
<1>3. call'.step = call.step + 1 /\ call'.partial = TRUE /\ call'.kind = call.kind /\ call'.cred = call.cred
  BY <1>1, <1>2 DEF Call
<1>4. call.kind # "graph_fetch" => call.cred \in Creds
  BY <1>1 DEF CallsInv, CallInv
<1>5. graphFaults' \in 0..MaxGraphFaults
  BY <1>1 DEF CallsInv, GraphTypeOK, GraphAssumption
<1>6. QED BY <1>1, <1>2, <1>3, <1>4, <1>5, GoOn

LEMMA ChooseStep ==
  ASSUME GraphAssumption, CallsInv, Choose
  PROVE  CallsInv' /\ (reply' = reply \/ reply' = NoReply)
<1> DEFINE cs == {c \in db.creds \cap Passwords : IssuerOf[c] = call.issuer}
<1>0. call \in Call /\ graphFaults' \in 0..MaxGraphFaults /\ call.step = 7
  BY DEF Choose, CallsInv, GraphTypeOK
<1>1. CASE cs = {}
  <2>1. End(NoReply)
    BY <1>1 DEF Choose
  <2>2. QED BY <1>0, <2>1, EndStep
<1>2. CASE cs # {}
  <2>1. PICK c \in cs : call' = [call EXCEPT !.step = 1, !.cred = c]
    BY <1>2 DEF Choose
  <2>2. UNCHANGED <<db, used, edits, got, seen, reply>>
    BY <1>2 DEF Choose
  <2>3. c \in Creds
    BY DEF CallsInv, GraphTypeOK, Tables
  <2>4. call' \in Call
    <3> DEFINE x == [call EXCEPT !.step = 1]
    <3>1. x \in Call
      BY NextStepTyped DEF CallsInv
    <3>2. call' = [x EXCEPT !.cred = c]
      BY <2>1
    <3> HIDE DEF x
    <3>3. QED BY <2>3, <3>1, <3>2 DEF Call
  <2>5. call'.step = 1 /\ call'.kind = call.kind /\ call'.cred = c
    BY <1>0, <2>1, <2>4 DEF Call
  <2>6. QED BY <1>0, <2>2, <2>3, <2>4, <2>5, GoOn
<1>3. QED BY <1>1, <1>2

LEMMA TakeRadiusStep ==
  ASSUME GraphAssumption, CallsInv, TakeRadius
  PROVE  CallsInv' /\ reply' = reply
<1> USE DEF CallsInv
<1>1. /\ call \in Call /\ call.step = 6 /\ call.kind = "blast_radius_for_host"
      /\ call' = [call EXCEPT !.step = 8, !.radius = Affected] /\ got' = NoTables
      /\ UNCHANGED <<db, used, edits, graphFaults, seen, reply>>
  BY DEF TakeRadius, GraphTypeOK
<1>2. call.cred \in Creds
  BY <1>1 DEF CallInv
<1>3. Affected \in SUBSET (Projects \cup Deploys)
  BY <1>2, AffectedTyped
<1>4. call' \in Call
  <2> DEFINE x == [call EXCEPT !.step = 8]
  <2>1. x \in Call
    BY NextStepTyped
  <2>2. call' = [x EXCEPT !.radius = Affected]
    BY <1>1
  <2> HIDE DEF x
  <2>3. QED BY <1>3, <2>1, <2>2 DEF Call
<1>5. call'.step = 8 /\ call'.radius = Affected /\ call'.partial = call.partial
      /\ call'.kind = call.kind /\ call'.cred = call.cred
  BY <1>1, <1>4 DEF Call
<1>6. GraphTypeOK' /\ UsedInv'
  BY <1>1, <1>4, NothingRead DEF GraphTypeOK, UsedInv
<1>7. CallInv' /\ GotInv'
  BY <1>1, <1>2, <1>5, NothingRead DEF CallInv, GotInv
<1>8. RadiusInv'
  BY <1>1, <1>2, <1>5, AffectedFound DEF RadiusInv
<1>9. QED BY <1>1, <1>6, <1>7, <1>8

LEMMA RelistStep ==
  ASSUME GraphAssumption, CallsInv, Relist
  PROVE  CallsInv' /\ reply' = reply
<1> USE DEF CallsInv
<1> DEFINE list == Lists[call.step - 4]
<1>1. /\ call \in Call /\ call.step \in 8..9 /\ call.step + 1 \in 9..10
      /\ call' = [call EXCEPT !.step = call.step + 1]
      /\ UNCHANGED <<db, used, edits, seen, reply>>
  BY DEF Relist, GraphTypeOK, Call
<1>2. \/ got' = [got EXCEPT ![list] = db[list]] /\ UNCHANGED graphFaults
      \/ SelectFails /\ UNCHANGED got
  BY DEF Relist
<1>3. list \in ListNames
  BY <1>1 DEF Lists, ListNames
<1>4. got' \in Tables /\ \A L \in ListNames : got'[L] = db[L] \/ got'[L] = got[L]
  BY <1>2, <1>3 DEF GraphTypeOK, Tables, ListNames
<1>5. graphFaults' \in 0..MaxGraphFaults
  BY <1>2 DEF GraphTypeOK, SelectFails, GraphAssumption
<1>6. call' \in Call
  BY <1>1, NextStepTyped
<1>7. call'.step = call.step + 1 /\ call'.radius = call.radius /\ call'.partial = call.partial
      /\ call'.kind = call.kind /\ call'.cred = call.cred
  BY <1>1, <1>6 DEF Call
<1>8. GraphTypeOK' /\ UsedInv'
  BY <1>1, <1>4, <1>5, <1>6 DEF GraphTypeOK, UsedInv
<1>9. Moment(db) /\ db \in Tables /\ \A s : Moment(s) => Moment(s)'
  BY <1>1, MomentStays DEF CallInv, Moment, GraphTypeOK
<1>10. GotInv'
  <2>1. call'.step \notin 1..6
    BY <1>1, <1>7
  <2>2. \A L \in ListNames : got'[L] # {} => \E s \in Tables : Moment(s) /\ got'[L] = s[L]
    BY <1>4, <1>9 DEF GotInv
  <2>3. QED BY <1>9, <2>1, <2>2 DEF GotInv
<1>11. CallInv' /\ RadiusInv'
  BY <1>1, <1>7 DEF CallInv, RadiusInv
<1>12. QED BY <1>1, <1>8, <1>10, <1>11

-----------------------------------------------------------------------------
(* The answers.                                                            *)

LEMMA NoReplyHolds ==
  ASSUME RepliesInv, reply' = reply \/ reply' = NoReply
  PROVE  RepliesInv'
<1>1. CASE reply' = reply
  BY <1>1 DEF RepliesInv, GraphHeld, NothingMissed
<1>2. CASE reply' = NoReply
  <2>1. reply'.kind = "none" /\ reply'.graph.edges = {}
    BY <1>2 DEF NoReply
  <2>2. QED BY <2>1 DEF RepliesInv, GraphHeld, NothingMissed
<1>3. QED BY <1>1, <1>2

\* The answer to a call, and what has to hold of it.
LEMMA AnswerHolds ==
  ASSUME GraphAssumption, CallsInv, NEW g, NEW shown, NEW hidden, NEW named,
         Answer(g, shown, hidden, named), UNCHANGED graphFaults,
         \A e \in g.edges : e[1] \in g.nodes /\ e[2] \in g.nodes /\ e \in UNION seen,
         call.kind = "graph_fetch" => g.nodes \subseteq named,
         call.kind # "graph_fetch" /\ ~call.partial =>
           \A part : part \subseteq Direct(call.cred, seen) \cup
                       (IF call.kind = "graph_for_credential" THEN {} ELSE Behind(call.cred, seen))
             => Cardinality(part) <= Cardinality(shown) + hidden
  PROVE  CallsInv' /\ RepliesInv'
<1> DEFINE r == [kind |-> call.kind, cred |-> call.cred, graph |-> g, shown |-> shown,
                 hidden |-> hidden, named |-> named, partial |-> call.partial, seen |-> seen]
<1>1. CallsInv' /\ reply' = r
  <2>1. graphFaults' \in 0..MaxGraphFaults
    BY DEF CallsInv, GraphTypeOK
  <2>2. QED BY <2>1, EndStep DEF Answer
<1>2. GraphHeld'
  BY <1>1 DEF GraphHeld
<1>3. NothingMissed'
  <2> DEFINE direct == Direct(call.cred, seen)
             behind == Behind(call.cred, seen)
  <2>1. /\ reply'.kind = call.kind /\ reply'.cred = call.cred /\ reply'.shown = shown
        /\ reply'.hidden = hidden /\ reply'.partial = call.partial /\ reply'.seen = seen
    BY <1>1
  <2>2. direct = {n \in Projects : \A e \in reply'.seen : <<reply'.cred, n>> \in e}
    BY <2>1 DEF Direct
  <2>3. behind = {n \in Deploys : \A e \in reply'.seen : \E p \in direct : <<p, n>> \in e}
    BY <2>1 DEF Behind
  <2>4. call.kind # "graph_fetch" /\ ~call.partial =>
          Cardinality(direct \cup (IF call.kind = "graph_for_credential" THEN {} ELSE behind))
            <= Cardinality(shown) + hidden
    OBVIOUS
  <2> HIDE DEF direct, behind, r
  <2>5. QED BY <2>1, <2>2, <2>3, <2>4 DEF NothingMissed
<1>4. QED BY <1>1, <1>2, <1>3 DEF RepliesInv

LEMMA WholeGraph ==
  ASSUME GraphAssumption, CallsInv, ReplyFetch \/ ToolGraph
  PROVE  CallsInv' /\ RepliesInv'
<1>1. call.kind = "graph_fetch" /\ UNCHANGED graphFaults
      /\ Answer(Build(got), {}, 0, Named(got, Build(got).nodes))
  BY DEF ReplyFetch, ToolGraph
<1>2. \A e \in Build(got).edges :
        e[1] \in Build(got).nodes /\ e[2] \in Build(got).nodes /\ e \in UNION seen
  BY EdgesSeen DEF CallsInv
<1>3. Build(got).nodes \subseteq Named(got, Build(got).nodes)
  BY BuildEdges DEF Named
<1>4. QED BY <1>1, <1>2, <1>3, AnswerHolds

\* An answer without a graph.
LEMMA ItemsHold ==
  ASSUME GraphAssumption, CallsInv, NEW all \in SUBSET (Projects \cup Deploys),
         call.kind # "graph_fetch", UNCHANGED graphFaults,
         ~call.partial => Direct(call.cred, seen) \cup Behind(call.cred, seen) \subseteq all,
         ReplyItems(all) \/ Answer(NoGraph, all, 0, {})
  PROVE  CallsInv' /\ RepliesInv'
<1> DEFINE Due == Direct(call.cred, seen) \cup
                  (IF call.kind = "graph_for_credential" THEN {} ELSE Behind(call.cred, seen))
<1>1. NoGraph.edges = {}
  BY DEF NoGraph, NoReply
<1>2. ASSUME ~call.partial, NEW part, part \subseteq Due PROVE part \in SUBSET all
  BY <1>2
<1>3. CASE ReplyItems(all)
  <2>1. PICK shown \in Cut(all) :
          Answer(NoGraph, shown, Cardinality(all) - Cardinality(shown), Named(got, shown))
    BY <1>3 DEF ReplyItems
  <2>2. ~call.partial => \A part : part \subseteq Due =>
          Cardinality(part) <= Cardinality(shown) + (Cardinality(all) - Cardinality(shown))
    BY <1>2, CutCounts
  <2>3. QED BY <1>1, <2>1, <2>2, AnswerHolds
<1>4. CASE Answer(NoGraph, all, 0, {})
  <2>1. ~call.partial => \A part : part \subseteq Due => Cardinality(part) <= Cardinality(all) + 0
    BY <1>2, WholeCounts
  <2>2. QED BY <1>1, <1>4, <2>1, AnswerHolds
<1>5. QED BY <1>3, <1>4

LEMMA BlastHolds ==
  ASSUME GraphAssumption, CallsInv, ReplyBlast \/ ToolBlast
  PROVE  CallsInv' /\ RepliesInv'
<1> DEFINE all == BlastRadius(Build(got), call.cred)
<1>1. call.step = 6 /\ call.kind = "blast_radius_for_credential" /\ UNCHANGED graphFaults
      /\ Answer(NoGraph, all, 0, {})
  BY DEF ReplyBlast, ToolBlast
<1>2. call.cred \in Creds
  BY <1>1 DEF CallsInv, CallInv
<1>3. all \in SUBSET (Projects \cup Deploys)
  BY <1>2, AffectedTyped DEF CallsInv
<1>4. ~call.partial => Direct(call.cred, seen) \cup Behind(call.cred, seen) \subseteq all
  BY <1>1, <1>2, AffectedFound DEF CallsInv
<1> HIDE DEF all
<1>5. QED BY <1>1, <1>3, <1>4, ItemsHold

LEMMA HostHolds ==
  ASSUME GraphAssumption, CallsInv, ReplyHost
  PROVE  CallsInv' /\ RepliesInv'
<1>1. call.step = 6 /\ call.kind = "blast_radius_for_host" /\ UNCHANGED graphFaults /\ ReplyItems(Affected)
  BY DEF ReplyHost
<1>2. call.cred \in Creds
  BY <1>1 DEF CallsInv, CallInv
<1>3. Affected \in SUBSET (Projects \cup Deploys)
  BY <1>2, AffectedTyped DEF CallsInv
<1>4. ~call.partial => Direct(call.cred, seen) \cup Behind(call.cred, seen) \subseteq Affected
  BY <1>1, <1>2, AffectedFound DEF CallsInv
<1>5. QED BY <1>1, <1>3, <1>4, ItemsHold

LEMMA WindowHostHolds ==
  ASSUME GraphAssumption, CallsInv, ReplyWindowHost
  PROVE  CallsInv' /\ RepliesInv'
<1>1. call.step = 10 /\ UNCHANGED graphFaults /\ ReplyItems(call.radius)
  BY DEF ReplyWindowHost
<1>2. call.kind = "blast_radius_for_host" /\ call.radius \in SUBSET (Projects \cup Deploys)
  BY <1>1 DEF CallsInv, CallInv, GraphTypeOK, Call
<1>3. ~call.partial => Direct(call.cred, seen) \cup Behind(call.cred, seen) \subseteq call.radius
  BY <1>1 DEF CallsInv, RadiusInv
<1>4. QED BY <1>1, <1>2, <1>3, ItemsHold

LEMMA MiniHolds ==
  ASSUME GraphAssumption, CallsInv, ReplyMini
  PROVE  CallsInv' /\ RepliesInv'
<1> DEFINE hop == Out(Build(got).edges, {call.cred})
           G(shown) == [nodes |-> {call.cred} \cup shown,
                        edges |-> {<<call.cred, p>> : p \in shown}]
<1>1. call.step = 6 /\ call.kind = "graph_for_credential" /\ UNCHANGED graphFaults
  BY DEF ReplyMini
<1>2. PICK shown \in Cut(hop) :
        Answer(G(shown), shown, Cardinality(hop) - Cardinality(shown), Named(got, shown))
  BY DEF ReplyMini
<1>3. call.cred \in Creds
  BY <1>1 DEF CallsInv, CallInv
<1>4. hop \in SUBSET (Projects \cup Deploys)
  BY <1>3, Hops DEF CallsInv, GraphTypeOK
<1>5. ~call.partial => Direct(call.cred, seen) \subseteq hop
  BY <1>1, <1>3, DirectFound DEF CallsInv
<1>6. ASSUME NEW e \in G(shown).edges
      PROVE  e[1] \in G(shown).nodes /\ e[2] \in G(shown).nodes /\ e \in UNION seen
  <2>1. PICK p \in shown : e = <<call.cred, p>>
    BY <1>6
  <2>2. PICK f \in Build(got).edges : f[1] = call.cred /\ f[2] = p
    BY <2>1, OutIs DEF Cut
  <2>3. f \in UNION seen
    BY EdgesSeen DEF CallsInv
  <2>4. f = e
    <3>1. f \in (Issuers \X Creds) \cup (Creds \X Projects) \cup (Projects \X Deploys)
      BY EdgeKinds, BuildEdges DEF CallsInv, GraphTypeOK
    <3>2. QED BY <2>1, <2>2, <3>1
  <2>5. QED BY <2>1, <2>3, <2>4
<1>7. ~call.partial => \A part : part \subseteq Direct(call.cred, seen) \cup {} =>
        Cardinality(part) <= Cardinality(shown) + (Cardinality(hop) - Cardinality(shown))
  BY <1>4, <1>5, CutCounts
<1> HIDE DEF hop, G
<1>8. QED BY <1>1, <1>2, <1>6, <1>7, AnswerHolds

LEMMA FailHolds ==
  ASSUME GraphAssumption, CallsInv, RepliesInv, ReadFails
  PROVE  CallsInv' /\ RepliesInv'
<1>1. End(NoReply) /\ graphFaults' \in 0..MaxGraphFaults
  BY DEF ReadFails, SelectFails, CallsInv, GraphTypeOK, GraphAssumption
<1>2. QED BY <1>1, EndStep, NoReplyHolds

-----------------------------------------------------------------------------

LEMMA GraphStep == GraphAssumption /\ GraphInv /\ [GraphNext]_graphVars => GraphInv'
<1>1. GraphInv <=> CallsInv /\ RepliesInv
  BY DEF GraphInv, CallsInv, RepliesInv
<1>2. GraphInv' <=> CallsInv' /\ RepliesInv'
  BY DEF GraphInv, CallsInv, RepliesInv
<1> SUFFICES ASSUME GraphAssumption, CallsInv, RepliesInv, [GraphNext]_graphVars PROVE CallsInv' /\ RepliesInv'
  BY <1>1, <1>2
<1> DEFINE P == CallsInv' /\ RepliesInv'
<1> SUFFICES P
  OBVIOUS
<1>3. CASE Write
  BY <1>3, WriteStep, NoReplyHolds
<1>4. CASE Asks
  BY <1>4, AskStep, NoReplyHolds
<1>5. CASE Choose
  BY <1>5, ChooseStep, NoReplyHolds
<1>6. CASE Read
  BY <1>6, ReadStep, NoReplyHolds
<1>7. CASE ReadDefault
  BY <1>7, ReadDefaultStep, NoReplyHolds
<1>8. CASE ReadFails
  BY <1>8, FailHolds
<1>9. CASE TakeRadius \/ Relist
  BY <1>9, TakeRadiusStep, RelistStep, NoReplyHolds
<1>10. CASE ReplyFetch \/ ToolGraph
  BY <1>10, WholeGraph
<1>11. CASE ReplyBlast \/ ToolBlast
  BY <1>11, BlastHolds
<1>12. CASE ReplyMini
  BY <1>12, MiniHolds
<1>13. CASE ReplyHost \/ ReplyWindowHost
  BY <1>13, HostHolds, WindowHostHolds
<1>14. CASE UNCHANGED graphVars
  BY <1>14 DEF graphVars, CallsInv, RepliesInv, GraphTypeOK, UsedInv, GotInv, Moment, ReadBefore, CallInv, RadiusInv,
              Direct, Behind, GraphHeld, NothingMissed
<1>15. QED BY <1>3, <1>4, <1>5, <1>6, <1>7, <1>8, <1>9, <1>10, <1>11, <1>12, <1>13, <1>14 DEF GraphNext, Asks

LEMMA GraphInvHolds == GraphSpec => []GraphInv
<1>1. GraphInit => GraphInv
  BY InitGraphInv, GraphAssumption
<1>2. GraphInv /\ [GraphNext]_graphVars => GraphInv'
  BY GraphStep, GraphAssumption
<1>3. QED BY <1>1, <1>2, PTL DEF GraphSpec

\* The tables keep their keys through every cascade, and a call its lists.
THEOREM GraphTyped == GraphSpec => []GraphTypeOK
<1>1. GraphInv => GraphTypeOK
  BY DEF GraphInv
<1>2. QED BY <1>1, GraphInvHolds, PTL

\* graph_fetch, graph_for_credential and `graph` of the tool: each edge of a
\* drawn graph joins two of its nodes and was there at some moment of the call,
\* and each node of a whole graph has its label, whatever is edited between the
\* five SELECTs.
THEOREM GraphAlwaysHeld == GraphSpec => []GraphHeld
<1>1. GraphInv => GraphHeld
  BY DEF GraphInv
<1>2. QED BY <1>1, GraphInvHolds, PTL

\* blast_radius and the previews of a host: whatever depended on the credential
\* throughout the call is counted, however many rows there are and however few
\* of them are shown.
THEOREM NothingEverMissed == GraphSpec => []NothingMissed
<1>1. GraphInv => NothingMissed
  BY DEF GraphInv
<1>2. QED BY <1>1, GraphInvHolds, PTL
=============================================================================
