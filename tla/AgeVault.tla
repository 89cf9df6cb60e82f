------------------------------ MODULE AgeVault ------------------------------
(***************************************************************************)
(* The age vault of crates/secretbank-storage (age_vault/mod.rs and        *)
(* age_vault/file.rs) as AppContext (secretbank-app/context.rs) holds it:  *)
(* one file vault.age rewritten through vault.age.tmp, its rotating        *)
(* backups, and the storage object behind the vault RwLock.  flush and     *)
(* lock write while holding that lock; initialize and recover work on a    *)
(* storage object of their own and take the lock only to install it.       *)
(***************************************************************************)
EXTENDS Naturals, Sequences, FiniteSets

CONSTANTS
  Procs,        \* tasks that may run a vault command at the same time
  Passwords,    \* master passwords
  Paths,        \* secret paths of the record map
  Values,       \* secret values
  Absent,       \* a path with no record
  NoFile,       \* the file does not exist
  Torn,         \* the file holds part of an image
  NoHeader,     \* the storage object has no header: NotInitialized
  NoKey,        \* no identity in memory
  NoEnvelope,   \* a header without charter envelope
  Nobody,       \* nobody holds the vault write lock
  KeepBackups,  \* backups that prune_backups keeps (5 in the code)
  MaxSalt,      \* bound: key generations
  MaxFaults     \* bound: I/O errors, and process ends during a write

ASSUME VaultAssumption ==
  /\ KeepBackups \in Nat \ {0} /\ MaxSalt \in Nat /\ MaxFaults \in Nat
  /\ Absent \notin Values
  /\ Nobody \notin Procs

(***************************************************************************)
(* The X25519 identity is a function of the password and of salt_enc; the  *)
(* charter envelope wraps the key it comes from.  A salt is drawn afresh   *)
(* for each key generation, so the number of the generation stands for it. *)
(***************************************************************************)
Salts   == 1..MaxSalt
KeyOfUnsalted(pw, s) == <<pw, 0>>
KeyOf(pw, s) == <<pw, s>>
Key     == Passwords \X Salts
Header  == [salt : Salts, envelope : Key \cup {NoEnvelope}]
Records == [Paths -> Values \cup {Absent}]
Image   == [header : Header, key : Key, records : Records]
Content == Image \cup {NoFile, Torn}

ASSUME MarkersAssumption ==
  /\ NoFile # Torn /\ NoFile \notin Image /\ Torn \notin Image
  /\ NoEnvelope \notin Key /\ NoKey \notin Key /\ NoHeader \notin Header

EmptyMap == [q \in Paths |-> Absent]

VARIABLES
  windows,                            \* the destination is removed before the rename
  ordered,                            \* initialize and recover come from the lock
                                      \* screen only, as in the interface
  file, tmp, backups,                 \* the directory: vault.age, .tmp, .bak-*
  mode, header, key, records, dirty,  \* VaultState of the installed storage
  owner,                              \* holder of the vault write lock
  pc, op, img, fd,                    \* write_vault_file in progress, per task
  salt, faults,                       \* counters
  committed, floor                    \* history: last image a rename acknowledged,
                                      \* generation of the last recovery that ended

disk    == <<file, tmp, backups>>
setup   == <<windows, ordered>>
memory  == <<mode, header, key, records, dirty>>
history == <<committed, floor>>
vars    == <<setup, file, tmp, backups, mode, header, key, records, dirty, owner,
             pc, op, img, fd, salt, faults, committed, floor>>

Modes  == {"NotInitialized", "Locked", "Unlocked", "OpenFailed"}
Steps  == {"backup", "open", "fill", "remove", "rename", "prune"}
Ops    == {"flush", "lock", "initialize", "recover"}

TypeOK ==
  /\ windows \in BOOLEAN /\ ordered \in BOOLEAN
  /\ file \in Content /\ tmp \in Content
  /\ backups \in Seq(Image \cup {Torn})
  /\ mode \in Modes
  /\ header \in Header \cup {NoHeader}
  /\ key \in Key \cup {NoKey}
  /\ records \in Records
  /\ dirty \in BOOLEAN
  /\ owner \in Procs \cup {Nobody}
  /\ pc \in [Procs -> Steps \cup {"idle", "install"}]
  /\ op \in [Procs -> Ops]
  /\ img \in [Procs -> Image \cup {NoFile}]
  /\ fd \in [Procs -> {"tmp", "file", "gone"}]
  /\ salt \in 0..MaxSalt
  /\ faults \in 0..MaxFaults
  /\ committed \in Image \cup {NoFile}
  /\ floor \in 0..MaxSalt

(***************************************************************************)
(* AgeVaultStorage::open: Locked with the header found, NotInitialized     *)
(* without a file, an error (AppContext::new fails) on a torn file.        *)
(***************************************************************************)
OpenMode(f)   == CASE f = NoFile -> "NotInitialized"
                   [] f = Torn   -> "OpenFailed"
                   [] OTHER      -> "Locked"
OpenHeader(f) == IF f \in Image THEN f.header ELSE NoHeader

\* A fresh installation.
Init ==
  /\ windows \in BOOLEAN /\ ordered \in BOOLEAN
  /\ file = NoFile /\ tmp = NoFile /\ backups = << >>
  /\ mode = OpenMode(file) /\ header = OpenHeader(file)
  /\ key = NoKey /\ records = EmptyMap /\ dirty = FALSE
  /\ owner = Nobody
  /\ pc = [p \in Procs |-> "idle"] /\ op = [p \in Procs |-> "flush"]
  /\ img = [p \in Procs |-> NoFile] /\ fd = [p \in Procs |-> "gone"]
  /\ salt = 0 /\ faults = 0
  /\ committed = NoFile /\ floor = 0

-----------------------------------------------------------------------------
(* Commands on the installed storage: each needs the vault lock.           *)

Installing == \E p \in Procs : pc[p] # "idle" /\ op[p] \in {"initialize", "recover"}
AllIdle    == \A p \in Procs : pc[p] = "idle"

\* unlock: the payload is read again, the key comes from the header in memory.
Unlock(pw) ==
  /\ ordered => ~Installing
  /\ owner = Nobody /\ mode = "Locked"
  /\ file \in Image /\ file.key = KeyOf(pw, header.salt)
  /\ mode' = "Unlocked" /\ key' = KeyOf(pw, header.salt)
  /\ records' = file.records /\ dirty' = FALSE
  /\ UNCHANGED <<disk, header, owner, pc, op, img, fd, salt, faults, history>>

PutSecret(q, v) ==
  /\ owner = Nobody /\ mode = "Unlocked"
  /\ records' = [records EXCEPT ![q] = v] /\ dirty' = TRUE
  /\ UNCHANGED <<disk, mode, header, key, owner, pc, op, img, fd, salt, faults, history>>

DeleteSecret(q) ==
  /\ owner = Nobody /\ mode = "Unlocked" /\ records[q] # Absent
  /\ records' = [records EXCEPT ![q] = Absent] /\ dirty' = TRUE
  /\ UNCHANGED <<disk, mode, header, key, owner, pc, op, img, fd, salt, faults, history>>

Snapshot == [header |-> header, key |-> key, records |-> records]

StartWrite(p, o, image) ==
  /\ pc[p] = "idle"
  /\ pc' = [pc EXCEPT ![p] = "backup"]
  /\ op' = [op EXCEPT ![p] = o]
  /\ img' = [img EXCEPT ![p] = image]
  /\ UNCHANGED <<disk, memory, fd, faults, history>>

Flush(p) ==
  /\ owner = Nobody /\ mode = "Unlocked"
  /\ StartWrite(p, "flush", Snapshot)
  /\ owner' = p /\ UNCHANGED salt

LockDirty(p) ==
  /\ owner = Nobody /\ mode = "Unlocked" /\ dirty
  /\ StartWrite(p, "lock", Snapshot)
  /\ owner' = p /\ UNCHANGED salt

LockClean ==
  /\ owner = Nobody /\ mode = "Unlocked" /\ ~dirty
  /\ mode' = "Locked" /\ key' = NoKey /\ records' = EmptyMap
  /\ UNCHANGED <<disk, header, dirty, owner, pc, op, img, fd, salt, faults, history>>

(***************************************************************************)
(* initialize_with_charter and recover_with_charter on a storage opened    *)
(* for the occasion: no vault lock is held from here to Install.           *)
(***************************************************************************)
FromAnywhere == mode = mode
FromLockScreen == ordered => AllIdle /\ mode # "Unlocked"

NewImage(pw, charter, recs) ==
  LET k == KeyOf(pw, salt + 1)
  IN  [header  |-> [salt |-> salt + 1, envelope |-> IF charter THEN k ELSE NoEnvelope],
       key     |-> k,
       records |-> recs]

Initialize(p, pw, charter) ==
  /\ FromLockScreen /\ mode # "OpenFailed"
  /\ file = NoFile
  /\ salt < MaxSalt
  /\ StartWrite(p, "initialize", NewImage(pw, charter, EmptyMap))
  /\ salt' = salt + 1 /\ UNCHANGED owner

RecoverKeepingEnvelope(p, pw, charter) ==
  /\ FromLockScreen /\ mode # "OpenFailed"
  /\ file \in Image /\ file.header.envelope = file.key
  /\ salt < MaxSalt
  /\ StartWrite(p, "recover", [NewImage(pw, charter, file.records) EXCEPT
                                !.header.envelope = file.header.envelope])
  /\ salt' = salt + 1 /\ UNCHANGED owner

RecoverEmpty(p, pw, charter) ==
  /\ FromLockScreen /\ mode # "OpenFailed"
  /\ file \in Image /\ file.header.envelope = file.key
  /\ salt < MaxSalt
  /\ StartWrite(p, "recover", NewImage(pw, charter, EmptyMap))
  /\ salt' = salt + 1 /\ UNCHANGED owner

\* The envelope of the file must unwrap to the key of its payload.
Recover(p, pw, charter) ==
  /\ FromLockScreen /\ mode # "OpenFailed"
  /\ file \in Image /\ file.header.envelope = file.key
  /\ salt < MaxSalt
  /\ StartWrite(p, "recover", NewImage(pw, charter, file.records))
  /\ salt' = salt + 1 /\ UNCHANGED owner

Install(p) ==
  /\ pc[p] = "install" /\ owner = Nobody
  /\ mode' = "Locked" /\ header' = img[p].header
  /\ key' = NoKey /\ records' = EmptyMap /\ dirty' = FALSE
  /\ pc' = [pc EXCEPT ![p] = "idle"]
  /\ floor' = IF op[p] = "recover" /\ img[p].header.salt > floor
                THEN img[p].header.salt ELSE floor
  /\ UNCHANGED <<disk, owner, op, img, fd, salt, faults, committed>>

-----------------------------------------------------------------------------
(* write_vault_file, one action per system call that changes the directory.*)

\* A backup named by the millisecond: a new one, or the last one overwritten.
BackupAs(c) == {Append(backups, c)}
               \cup {[backups EXCEPT ![i] = c] : i \in {Len(backups)} \ {0}}

CreateBackupOnce(p) ==
  /\ pc[p] = "backup"
  /\ backups' \in IF file = NoFile \/ backups # << >> THEN {backups} ELSE BackupAs(file)
  /\ pc' = [pc EXCEPT ![p] = "open"]
  /\ UNCHANGED <<file, tmp, memory, owner, op, img, fd, salt, faults, history>>

CreateBackup(p) ==
  /\ pc[p] = "backup"
  /\ backups' \in IF file = NoFile THEN {backups} ELSE BackupAs(file)
  /\ pc' = [pc EXCEPT ![p] = "open"]
  /\ UNCHANGED <<file, tmp, memory, owner, op, img, fd, salt, faults, history>>

OpenTmpRenameFirst(p) ==
  /\ pc[p] = "open"
  /\ tmp' = Torn
  /\ fd' = [fd EXCEPT ![p] = "tmp"]
  /\ pc' = [pc EXCEPT ![p] = "rename"]
  /\ UNCHANGED <<file, backups, memory, owner, op, img, salt, faults, history>>

OpenTmp(p) ==
  /\ pc[p] = "open"
  /\ tmp' = Torn
  /\ fd' = [fd EXCEPT ![p] = "tmp"]
  /\ pc' = [pc EXCEPT ![p] = "fill"]
  /\ UNCHANGED <<file, backups, memory, owner, op, img, salt, faults, history>>

\* Writing over what another handle wrote leaves this image or a mixture.
Overlay(old, p) == IF old = Torn THEN {img[p]} ELSE {img[p], Torn}

FillTmp(p) ==
  /\ pc[p] = "fill"
  /\ tmp'  \in IF fd[p] = "tmp"  THEN Overlay(tmp, p)  ELSE {tmp}
  /\ file' \in IF fd[p] = "file" THEN Overlay(file, p) ELSE {file}
  /\ fd' = [fd EXCEPT ![p] = "gone"]
  /\ pc' = [pc EXCEPT ![p] = IF windows THEN "remove" ELSE "rename"]
  /\ UNCHANGED <<backups, memory, owner, op, img, salt, faults, history>>

\* Where the open handles point once vault.age is unlinked.
Unlinked(h) == IF h = "file" THEN "gone" ELSE h

RemoveOld(p) ==
  /\ pc[p] = "remove"
  /\ file' = NoFile
  /\ fd' = [q \in Procs |-> Unlinked(fd[q])]
  /\ pc' = [pc EXCEPT ![p] = "rename"]
  /\ UNCHANGED <<tmp, backups, memory, owner, op, img, salt, faults, history>>

Rename(p) ==
  /\ pc[p] = "rename" /\ tmp # NoFile
  /\ file' = tmp /\ tmp' = NoFile /\ committed' = img[p]
  /\ fd' = [q \in Procs |-> IF fd[q] = "tmp" THEN "file" ELSE Unlinked(fd[q])]
  /\ pc' = [pc EXCEPT ![p] = "prune"]
  /\ UNCHANGED <<backups, memory, owner, op, img, salt, faults, floor>>

\* The newest KeepBackups stay.  A failed deletion is ignored.
Newest(b) == IF Len(b) > KeepBackups
               THEN SubSeq(b, Len(b) - KeepBackups + 1, Len(b)) ELSE b

PruneBackups ==
  \/ backups' = Newest(backups) /\ UNCHANGED faults
  \/ /\ Len(backups) > KeepBackups /\ faults < MaxFaults
     /\ faults' = faults + 1 /\ UNCHANGED backups

FinishFlush(p) ==
  /\ pc[p] = "prune" /\ op[p] = "flush"
  /\ PruneBackups
  /\ dirty' = FALSE
  /\ owner' = Nobody /\ pc' = [pc EXCEPT ![p] = "idle"]
  /\ UNCHANGED <<file, tmp, mode, header, key, records, op, img, fd, salt, history>>

FinishLock(p) ==
  /\ pc[p] = "prune" /\ op[p] = "lock"
  /\ PruneBackups
  /\ mode' = "Locked" /\ key' = NoKey /\ records' = EmptyMap /\ dirty' = FALSE
  /\ owner' = Nobody /\ pc' = [pc EXCEPT ![p] = "idle"]
  /\ UNCHANGED <<file, tmp, header, op, img, fd, salt, history>>

FinishInstaller(p) ==
  /\ pc[p] = "prune" /\ op[p] \in {"initialize", "recover"}
  /\ PruneBackups
  /\ pc' = [pc EXCEPT ![p] = "install"]
  /\ UNCHANGED <<file, tmp, memory, owner, op, img, fd, salt, history>>

-----------------------------------------------------------------------------
(* Failures.                                                               *)

AbandonClean(p) ==
  /\ pc' = [pc EXCEPT ![p] = "idle"]
  /\ owner' = IF owner = p THEN Nobody ELSE owner
  /\ dirty' = FALSE
  /\ UNCHANGED <<mode, header, key, records, op, img, salt, history>>

Abandon(p) ==
  /\ pc' = [pc EXCEPT ![p] = "idle"]
  /\ owner' = IF owner = p THEN Nobody ELSE owner
  /\ UNCHANGED <<memory, op, img, salt, history>>

\* The rename finds no tmp file: another writer has renamed it away.
RenameMissing(p) ==
  /\ pc[p] = "rename" /\ tmp = NoFile
  /\ Abandon(p)
  /\ UNCHANGED <<disk, fd, faults>>

\* An I/O error at any step is returned to the caller at once.
WriteFails(p) ==
  /\ pc[p] \in Steps /\ faults < MaxFaults
  /\ pc[p] = "remove" => windows
  /\ faults' = faults + 1
  /\ backups' \in IF pc[p] = "backup" /\ file # NoFile
                    THEN BackupAs(Torn) \cup {backups} ELSE {backups}
  /\ tmp'  = IF pc[p] = "fill" /\ fd[p] = "tmp"  THEN Torn ELSE tmp
  /\ file' = IF pc[p] = "fill" /\ fd[p] = "file" THEN Torn ELSE file
  /\ fd' = [fd EXCEPT ![p] = "gone"]
  /\ Abandon(p)

\* The process ends, killed or by RunEvent::Exit, which does not lock the
\* vault, and starts again with AppContext::new.
Restart ==
  /\ IF AllIdle THEN UNCHANGED faults ELSE faults < MaxFaults /\ faults' = faults + 1
  /\ backups' \in IF file # NoFile /\ \E p \in Procs : pc[p] = "backup"
                    THEN BackupAs(Torn) \cup {backups} ELSE {backups}
  /\ mode' = OpenMode(file) /\ header' = OpenHeader(file)
  /\ key' = NoKey /\ records' = EmptyMap /\ dirty' = FALSE
  /\ owner' = Nobody
  /\ pc' = [p \in Procs |-> "idle"] /\ fd' = [p \in Procs |-> "gone"]
  /\ UNCHANGED <<file, tmp, op, img, salt, history>>

-----------------------------------------------------------------------------
Step(p) ==
  \/ CreateBackup(p) \/ OpenTmp(p) \/ FillTmp(p) \/ RemoveOld(p) \/ Rename(p)
  \/ FinishFlush(p) \/ FinishLock(p) \/ FinishInstaller(p) \/ Install(p)
  \/ RenameMissing(p)

Next ==
  /\ UNCHANGED setup
  /\ \/ \E pw \in Passwords : Unlock(pw)
     \/ \E q \in Paths, v \in Values : PutSecret(q, v)
     \/ \E q \in Paths : DeleteSecret(q)
     \/ LockClean
     \/ \E p \in Procs :
          \/ Flush(p) \/ LockDirty(p)
          \/ \E pw \in Passwords, c \in BOOLEAN : Initialize(p, pw, c) \/ Recover(p, pw, c)
          \/ Step(p) \/ WriteFails(p)
     \/ Restart

Spec == Init /\ [][Next]_vars

-----------------------------------------------------------------------------
(* Properties.                                                             *)

\* What is left of the vault on disk: vault.age, or while it is missing the
\* newest backup.
Survivor == IF file # NoFile THEN file
            ELSE IF backups # << >> THEN backups[Len(backups)] ELSE NoFile

\* file.rs promises that a failed or interrupted write costs nothing: the last
\* image that was renamed into place is always still on disk, as vault.age or
\* as the newest backup.
Recoverable == ordered /\ committed # NoFile => Survivor = committed

\* flush and lock clear or trust the dirty flag: an unlocked vault that is not
\* dirty has all it holds in memory on disk, under the key it was opened with.
CleanMeansSaved == ordered /\ mode = "Unlocked" /\ ~dirty => Survivor = Snapshot

\* lock drops the records only when they are on disk (a process end aside).
LockKeepsEdits ==
  [][ordered /\ mode = "Unlocked" /\ mode' # "Unlocked" /\ ~Restart
       => Survivor'.records = records]_vars

\* The charter the user keeps opens the file: the envelope of the header wraps
\* the key that encrypts the payload next to it, whatever writes overlap.
EnvelopeOpensFile ==
  file \in Image /\ file.header.envelope # NoEnvelope => file.header.envelope = file.key

\* recover_with_charter: once it has succeeded the old passphrase and the old
\* charter no longer open the vault.
OldKeysRetired == file \in Image => file.header.salt >= floor
RetiredStaysRetired == ordered => OldKeysRetired

(***************************************************************************)
(* Where the rename replaces the file in one step and the lock screen      *)
(* orders initialize and recover, the vault implements VaultStore with     *)
(* vault.age for the stored image.                                         *)
(***************************************************************************)
Store == INSTANCE VaultStore WITH stored <- file, Headers <- Header, Keys <- Key
ImplementsStore == Store!Init /\ [][~windows /\ ordered => Store!Next]_(Store!vars)

\* Read as promises of the sources; TLC refutes them (see README.md).

\* file.rs, "Atomic write": the file is replaced, never absent in between.
FileNeverVanishes == [][file # NoFile => file' # NoFile]_file

\* unlock re-reads the file "for the latest content": when no command runs, the
\* password under which the file is encrypted opens it.
CurrentPasswordUnlocks ==
  mode = "Locked" /\ AllIdle /\ file \in Image
    => file.key = KeyOf(file.key[1], header.salt)
=============================================================================
