------------------------------ MODULE AuditLog ------------------------------
(***************************************************************************)
(* The tamper-evident audit log: AuditCtx::record (secretbank-app/         *)
(* audit_ctx.rs) appends to the hash chain of the device that              *)
(* ensure_device_keys (services/device_identity.rs) set up at unlock, and  *)
(* audit_verify_chain (commands/audit.rs, secretbank-audit/chain.rs)       *)
(* checks the chains.  The rows live in SQLite, where every statement is   *)
(* durable; the device keys live in the vault, where only a flush is.      *)
(***************************************************************************)
EXTENDS Naturals, Sequences

CONSTANTS
  Tasks,        \* commands that may run at the same time
  NoPair,       \* no device keys
  Nobody,       \* nobody holds a lock
  MaxDevices,   \* bound: device rows
  MaxEntries,   \* bound: audit entries
  MaxFaults     \* bound: failed statements, failed flushes

ASSUME AuditAssumption ==
  /\ MaxDevices \in Nat /\ MaxEntries \in Nat /\ MaxFaults \in Nat
  /\ Nobody \notin Tasks

VARIABLES
  devices,             \* device table: the public key of the row, by id
  log,                 \* audit_log table, in the order of the inserts
  saved, open, mem,    \* vault: pair in the file, unlocked, pair in memory
  vaultLock,           \* holder of the vault write lock
  identity,            \* AppContext::device_identity
  recorder,            \* holder of AuditCtx::record_lock
  pc, op, me, last,    \* per task: step, command, its pair, entry it read
  faults

vault == <<saved, open, mem>>
vars  == <<devices, log, saved, open, mem, vaultLock, identity, recorder,
           pc, op, me, last, faults>>

(***************************************************************************)
(* A key pair is drawn together with the row it is inserted with, so the   *)
(* number of the row stands for it.  An entry's hash covers all of it and  *)
(* its place in the chain; entries get distinct hashes, so the index in    *)
(* the log stands for the hash.                                            *)
(***************************************************************************)
Genesis == 0
Pair  == [id : 1..MaxDevices, key : 1..MaxDevices]
Entry == [device : 1..MaxDevices, key : 1..MaxDevices, seq : 0..MaxEntries, prev : 0..MaxEntries]

ASSUME NoPairAssumption == NoPair \notin Pair

Commands == {"command", "unlock", "lock"}
Steps == {"idle", "record", "last", "insert", "ensure", "row", "store", "publish", "clear", "close"}

TypeOK ==
  /\ devices \in Seq(1..MaxDevices) /\ Len(devices) <= MaxDevices
  /\ log \in Seq(Entry) /\ Len(log) <= MaxEntries
  /\ saved \in Pair \cup {NoPair} /\ mem \in Pair \cup {NoPair} /\ open \in BOOLEAN
  /\ identity \in Pair \cup {NoPair}
  /\ vaultLock \in Tasks \cup {Nobody} /\ recorder \in Tasks \cup {Nobody}
  /\ pc \in [Tasks -> Steps] /\ op \in [Tasks -> Commands]
  /\ me \in [Tasks -> Pair \cup {NoPair}]
  /\ last \in [Tasks -> 0..MaxEntries]
  /\ faults \in 0..MaxFaults

\* A locked vault without device keys, as vault_init leaves it.
Init ==
  /\ devices = << >> /\ log = << >>
  /\ saved = NoPair /\ open = FALSE /\ mem = NoPair
  /\ vaultLock = Nobody /\ identity = NoPair /\ recorder = Nobody
  /\ pc = [t \in Tasks |-> "idle"] /\ op = [t \in Tasks |-> "command"]
  /\ me = [t \in Tasks |-> NoPair] /\ last = [t \in Tasks |-> 0]
  /\ faults = 0

Goto(t, step) == pc' = [pc EXCEPT ![t] = step]
Fault == faults < MaxFaults /\ faults' = faults + 1

-----------------------------------------------------------------------------
(* AuditCtx::record, under record_lock from StartRecord to Recorded.       *)

\* The command goes on whether or not an entry was written.
Recorded(t) == Goto(t, IF op[t] = "lock" THEN "clear" ELSE "idle")

\* The identity is copied and its lock released; without one nothing is
\* recorded.
StartRecordUnlocked(t) ==
  /\ pc[t] = "record"
  /\ IF identity = NoPair
       THEN Recorded(t) /\ UNCHANGED <<recorder, me>>
       ELSE Goto(t, "last") /\ recorder' = t /\ me' = [me EXCEPT ![t] = identity]
  /\ UNCHANGED <<devices, log, vault, vaultLock, identity, op, last, faults>>

StartRecord(t) ==
  /\ pc[t] = "record" /\ recorder = Nobody
  /\ IF identity = NoPair
       THEN Recorded(t) /\ UNCHANGED <<recorder, me>>
       ELSE Goto(t, "last") /\ recorder' = t /\ me' = [me EXCEPT ![t] = identity]
  /\ UNCHANGED <<devices, log, vault, vaultLock, identity, op, last, faults>>

EntriesOf(d) == {i \in DOMAIN log : log[i].device = d}

LastOfLog(d) == {Len(log)}

\* Highest seq of the device; with equal seqs the database may return any.
LastForDevice(d) ==
  IF EntriesOf(d) = {} THEN {Genesis}
  ELSE {i \in EntriesOf(d) : \A j \in EntriesOf(d) : log[j].seq <= log[i].seq}

ReadLast(t) ==
  /\ pc[t] = "last"
  /\ \E i \in LastForDevice(me[t].id) : last' = [last EXCEPT ![t] = i]
  /\ Goto(t, "insert")
  /\ UNCHANGED <<devices, log, vault, vaultLock, identity, recorder, op, me, faults>>

AppendTo(t) == [device |-> me[t].id,
                key    |-> me[t].key,
                seq    |-> IF last[t] = Genesis THEN 0 ELSE log[last[t]].seq + 1,
                prev   |-> last[t]]

Insert(t) ==
  /\ pc[t] = "insert" /\ Len(log) < MaxEntries
  /\ log' = Append(log, AppendTo(t))
  /\ recorder' = Nobody /\ Recorded(t)
  /\ UNCHANGED <<devices, vault, vaultLock, identity, op, me, last, faults>>

\* A failed query or insert is a warning; the lock guard is dropped.
RecordFails(t) ==
  /\ pc[t] \in {"last", "insert"} /\ Fault
  /\ recorder' = Nobody /\ Recorded(t)
  /\ UNCHANGED <<devices, log, vault, vaultLock, identity, op, me, last>>

-----------------------------------------------------------------------------
(* The commands.                                                           *)

\* A command that changes something and then records it.
Command(t) ==
  /\ pc[t] = "idle"
  /\ op' = [op EXCEPT ![t] = "command"] /\ Goto(t, "record")
  /\ UNCHANGED <<devices, log, vault, vaultLock, identity, recorder, me, last, faults>>

\* vault_lock first records itself.
BeginLock(t) ==
  /\ pc[t] = "idle"
  /\ op' = [op EXCEPT ![t] = "lock"] /\ Goto(t, "record")
  /\ UNCHANGED <<devices, log, vault, vaultLock, identity, recorder, me, last, faults>>

\* vault_unlock: Ok as well when the vault is open already.
OpenVault(t) ==
  /\ pc[t] = "idle" /\ vaultLock = Nobody
  /\ op' = [op EXCEPT ![t] = "unlock"] /\ Goto(t, "ensure")
  /\ open' = TRUE /\ mem' = IF open THEN mem ELSE saved
  /\ UNCHANGED <<devices, log, saved, vaultLock, identity, recorder, me, last, faults>>

\* Any command that flushes the vault writes the device keys as well.
FlushVault ==
  /\ open /\ vaultLock = Nobody
  /\ saved' = mem
  /\ UNCHANGED <<devices, log, open, mem, vaultLock, identity, recorder, pc, op, me, last, faults>>

FindKeysUnlocked(t) ==
  /\ pc[t] = "ensure"
  /\ CASE ~open
            -> Goto(t, "record") /\ UNCHANGED <<vaultLock, me>>
       [] open /\ mem = NoPair
            -> Goto(t, "row") /\ vaultLock' = vaultLock /\ UNCHANGED me
       [] OTHER
            -> Goto(t, "publish") /\ me' = [me EXCEPT ![t] = mem] /\ UNCHANGED vaultLock
  /\ UNCHANGED <<devices, log, vault, identity, recorder, op, last, faults>>

(***************************************************************************)
(* ensure_device_keys holds the vault write lock from the look at the pair *)
(* to the flush.  Both halves of the pair are put under that lock, so a    *)
(* vault with one half never reaches the code that wipes it.               *)
(***************************************************************************)
FindKeys(t) ==
  /\ pc[t] = "ensure" /\ vaultLock = Nobody
  /\ CASE ~open                              \* VaultLocked
            -> Goto(t, "record") /\ UNCHANGED <<vaultLock, me>>
       [] open /\ mem = NoPair
            -> Goto(t, "row") /\ vaultLock' = t /\ UNCHANGED me
       [] OTHER                              \* its row exists and is active
            -> Goto(t, "publish") /\ me' = [me EXCEPT ![t] = mem] /\ UNCHANGED vaultLock
  /\ UNCHANGED <<devices, log, vault, identity, recorder, op, last, faults>>

InsertRow(t) ==
  /\ pc[t] = "row" /\ Len(devices) < MaxDevices
  /\ LET n == Len(devices) + 1
     IN  devices' = Append(devices, n) /\ me' = [me EXCEPT ![t] = [id |-> n, key |-> n]]
  /\ Goto(t, "store")
  /\ UNCHANGED <<log, vault, vaultLock, identity, recorder, op, last, faults>>

StoreKeysIdOnly(t) ==
  /\ pc[t] = "store"
  /\ mem' = [id |-> me[t].id] /\ saved' = [id |-> me[t].id]
  /\ vaultLock' = Nobody /\ Goto(t, "publish")
  /\ UNCHANGED <<devices, log, open, identity, recorder, op, me, last, faults>>

StoreKeys(t) ==
  /\ pc[t] = "store"
  /\ mem' = me[t] /\ saved' = me[t]
  /\ vaultLock' = Nobody /\ Goto(t, "publish")
  /\ UNCHANGED <<devices, log, open, identity, recorder, op, me, last, faults>>

\* The insert fails, or the flush does after the pair was put: unlock goes on
\* without an identity.
EnsureFails(t) ==
  /\ pc[t] \in {"row", "store"} /\ Fault
  /\ mem' = IF pc[t] = "store" THEN me[t] ELSE mem
  /\ vaultLock' = Nobody /\ Goto(t, "record")
  /\ UNCHANGED <<devices, log, saved, open, identity, recorder, op, me, last>>

Publish(t) ==
  /\ pc[t] = "publish"
  /\ identity' = me[t] /\ Goto(t, "record")
  /\ UNCHANGED <<devices, log, vault, vaultLock, recorder, op, me, last, faults>>

ClearIdentity(t) ==
  /\ pc[t] = "clear"
  /\ identity' = NoPair /\ Goto(t, "close")
  /\ UNCHANGED <<devices, log, vault, vaultLock, recorder, op, me, last, faults>>

\* lock flushes what is not on disk yet; when that fails the vault stays open.
CloseVault(t) ==
  /\ pc[t] = "close" /\ vaultLock = Nobody
  /\ Goto(t, "idle")
  /\ \/ /\ saved' = IF open THEN mem ELSE saved
        /\ open' = FALSE /\ mem' = NoPair /\ UNCHANGED faults
     \/ open /\ Fault /\ UNCHANGED vault
  /\ UNCHANGED <<devices, log, vaultLock, identity, recorder, op, me, last>>

\* The process ends and starts again: SQLite and the vault file remain.
Restart ==
  /\ open' = FALSE /\ mem' = NoPair /\ vaultLock' = Nobody
  /\ identity' = NoPair /\ recorder' = Nobody
  /\ pc' = [t \in Tasks |-> "idle"]
  /\ UNCHANGED <<devices, log, saved, op, me, last, faults>>

Next ==
  \/ \E t \in Tasks :
       \/ Command(t) \/ BeginLock(t) \/ OpenVault(t)
       \/ StartRecord(t) \/ ReadLast(t) \/ Insert(t) \/ RecordFails(t)
       \/ FindKeys(t) \/ InsertRow(t) \/ StoreKeys(t) \/ EnsureFails(t) \/ Publish(t)
       \/ ClearIdentity(t) \/ CloseVault(t)
  \/ FlushVault
  \/ Restart

Spec == Init /\ [][Next]_vars

-----------------------------------------------------------------------------
(* audit_verify_chain.  list_for_verify orders the rows of a device by seq *)
(* and, as far as the statement says, rows of equal seq anyhow: here by    *)
(* insertion.                                                              *)

Before(i, j) == log[i].seq < log[j].seq \/ (log[i].seq = log[j].seq /\ i < j)

\* verify: the entry names the hash of the one listed before it, the first one
\* the genesis hash, and the public key of the row checks its signature.
EntryValid(d, i) ==
  /\ log[i].key = devices[d]
  /\ IF \E j \in EntriesOf(d) : Before(j, i)
       THEN /\ log[i].prev \in EntriesOf(d) /\ Before(log[i].prev, i)
            /\ ~ \E j \in EntriesOf(d) : Before(log[i].prev, j) /\ Before(j, i)
       ELSE log[i].prev = Genesis

VerifyChain(d) == d \in DOMAIN devices /\ \A i \in EntriesOf(d) : EntryValid(d, i)

-----------------------------------------------------------------------------
(* Properties.                                                             *)

\* audit_verify_chain reports all_valid in every state the program can reach:
\* no interleaving of commands, lock, unlock, failure or restart breaks the
\* chain of a device.
AllValid == \A i \in DOMAIN log : VerifyChain(log[i].device)

\* The seq of a device is its entry counter (0001_init.sql, "monotonic
\* per-device counter"): no fork, although no index of the table forbids one.
NoFork ==
  \A i, j \in DOMAIN log :
    log[i].device = log[j].device /\ i < j => log[i].seq < log[j].seq

\* A device keeps its identity: once its keys are in the vault file they are
\* never replaced, whatever unlocks overlap, fail or are cut off.
DeviceKept == [][saved # NoPair => saved' = saved]_saved

\* Read as a promise of the sources; TLC refutes it (see README.md).
\* audit_ctx.rs: the identity is missing when the vault is locked, and only then.
SkippedOnlyWhenLocked ==
  (\A t \in Tasks : pc[t] = "idle") /\ open => identity # NoPair
=============================================================================
