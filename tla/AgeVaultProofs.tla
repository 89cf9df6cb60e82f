--------------------------- MODULE AgeVaultProofs ---------------------------
(***************************************************************************)
(* Proofs about AgeVault for any set of tasks, passwords, paths and values *)
(* and any bounds, with and without the order the lock screen imposes:     *)
(* types, what an envelope opens (EnvelopeInv), what is on disk and in     *)
(* memory while files are written (StorageInv), and, from these, that the  *)
(* vault implements the store that is replaced as a whole.                 *)
(***************************************************************************)
EXTENDS AgeVault, SequenceTheorems, TLAPS

-----------------------------------------------------------------------------
(* Type correctness.                                                       *)

\* flush and lock write with the vault lock held, and the storage stays unlocked
\* until they are done.
LockHeld ==
  \A p \in Procs : pc[p] # "idle" /\ op[p] \in {"flush", "lock"}
                     => owner = p /\ mode = "Unlocked"

\* What the type invariant needs to be inductive: a task that writes has an
\* image, an open storage has a header and, unlocked, a key.
TypeInv ==
  /\ TypeOK
  /\ \A p \in Procs : pc[p] # "idle" => img[p] \in Image
  /\ mode \in {"Locked", "Unlocked"} => header \in Header
  /\ mode = "Unlocked" => key \in Key
  /\ LockHeld

\* A backup is appended or written over the last one.
LEMMA BackupsTyped ==
  ASSUME TypeOK, NEW c \in Image \cup {Torn}, NEW b \in BackupAs(c)
  PROVE  b \in Seq(Image \cup {Torn})
<1> DEFINE S == Image \cup {Torn}
<1>1. backups \in Seq(S)
  BY DEF TypeOK
<1>2. CASE b = Append(backups, c)
  BY <1>1, <1>2, AppendProperties
<1>3. ASSUME NEW i \in {Len(backups)} \ {0}, b = [backups EXCEPT ![i] = c]
      PROVE  b \in Seq(S)
  BY <1>1, <1>3, ExceptSeq
<1>4. QED BY <1>2, <1>3 DEF BackupAs

\* Pruning keeps a suffix.
LEMMA NewestTyped ==
  ASSUME VaultAssumption, TypeOK
  PROVE  Newest(backups) \in Seq(Image \cup {Torn})
<1> DEFINE S == Image \cup {Torn}
<1>1. backups \in Seq(S) /\ Len(backups) \in Nat
  BY LenProperties DEF TypeOK
<1>2. CASE Len(backups) > KeepBackups
  <2>1. Newest(backups) = SubSeq(backups, Len(backups) - KeepBackups + 1, Len(backups))
    BY <1>2 DEF Newest
  <2>2. Len(backups) - KeepBackups + 1 \in 1..Len(backups) + 1
    BY <1>1, <1>2 DEF VaultAssumption
  <2>3. QED BY <1>1, <2>1, <2>2, SubSeqProperties
<1>3. CASE ~(Len(backups) > KeepBackups)
  BY <1>1, <1>3 DEF Newest
<1>4. QED BY <1>2, <1>3

LEMMA PruneTyped ==
  ASSUME VaultAssumption, TypeOK, PruneBackups
  PROVE  backups' \in Seq(Image \cup {Torn}) /\ faults' \in 0..MaxFaults
BY NewestTyped DEF PruneBackups, TypeOK, VaultAssumption

\* A new image is typed as long as the salt counter is below its bound.
LEMMA NewImageTyped ==
  ASSUME VaultAssumption, TypeOK, NEW pw \in Passwords, NEW c \in BOOLEAN,
         NEW recs \in Records, salt < MaxSalt
  PROVE  /\ NewImage(pw, c, recs) \in Image
         /\ salt + 1 \in 0..MaxSalt
<1>1. salt + 1 \in Salts
  BY DEF TypeOK, VaultAssumption, Salts
<1>2. KeyOf(pw, salt + 1) \in Key
  BY <1>1 DEF Key, KeyOf
<1>3. QED BY <1>1, <1>2 DEF NewImage, Image, Header, Salts, VaultAssumption

LEMMA InitTypeInv == VaultAssumption /\ MarkersAssumption /\ Init => TypeInv
<1> SUFFICES ASSUME VaultAssumption, MarkersAssumption, Init PROVE TypeInv
  OBVIOUS
<1>1. file = NoFile /\ OpenMode(file) = "NotInitialized" /\ OpenHeader(file) = NoHeader
  BY DEF Init, OpenMode, OpenHeader, MarkersAssumption
<1>2. EmptyMap \in Records /\ << >> \in Seq(Image \cup {Torn})
  BY DEF EmptyMap, Records
<1>3. 0 \in 0..MaxSalt /\ 0 \in 0..MaxFaults
  BY DEF VaultAssumption
<1>4. /\ pc \in [Procs -> Steps \cup {"idle", "install"}]
      /\ op \in [Procs -> Ops]
      /\ img \in [Procs -> Image \cup {NoFile}]
      /\ fd \in [Procs -> {"tmp", "file", "gone"}]
  BY DEF Init, Ops, Steps
<1>5. mode \in Modes
  BY <1>1 DEF Init, Modes
<1>6. TypeOK
  BY <1>1, <1>2, <1>3, <1>4, <1>5 DEF Init, TypeOK, Content
<1>7. QED BY <1>1, <1>6 DEF Init, TypeInv, LockHeld

\* The image a flush or a lock writes is the open storage itself.
LEMMA SnapshotTyped ==
  ASSUME TypeInv, mode = "Unlocked" PROVE Snapshot \in Image
BY DEF TypeInv, TypeOK, Snapshot, Image

LEMMA StartWriteTyped ==
  ASSUME VaultAssumption, TypeInv, NEW p \in Procs, NEW o \in Ops, NEW image \in Image,
         StartWrite(p, o, image), salt' \in 0..MaxSalt, UNCHANGED setup,
         \/ o \in {"flush", "lock"} /\ owner = Nobody /\ owner' = p /\ mode = "Unlocked"
         \/ o \notin {"flush", "lock"} /\ owner' = owner
  PROVE  TypeInv'
<1> USE DEF StartWrite, disk, memory, history, setup
<1>1. pc' \in [Procs -> Steps \cup {"idle", "install"}] /\ op' \in [Procs -> Ops]
  BY DEF TypeInv, TypeOK, Steps
<1>2. img' \in [Procs -> Image \cup {NoFile}]
  BY DEF TypeInv, TypeOK
<1>3. TypeOK'
  BY <1>1, <1>2 DEF TypeInv, TypeOK
<1>4. ASSUME NEW q \in Procs, pc'[q] # "idle" PROVE img'[q] \in Image
  BY <1>4 DEF TypeInv, TypeOK
<1>5. ASSUME NEW q \in Procs, pc'[q] # "idle", op'[q] \in {"flush", "lock"}
      PROVE  owner' = q /\ mode' = "Unlocked"
  <2>1. CASE q = p
    BY <1>5, <2>1 DEF TypeInv, TypeOK
  <2>2. CASE q # p
    BY <1>5, <2>2, VaultAssumption DEF TypeInv, TypeOK, LockHeld, VaultAssumption
  <2>3. QED BY <2>1, <2>2
<1>6. QED BY <1>3, <1>4, <1>5 DEF TypeInv, LockHeld

LEMMA NextTypeInv ==
  VaultAssumption /\ MarkersAssumption /\ TypeInv /\ [Next]_vars => TypeInv'
<1> SUFFICES ASSUME VaultAssumption, MarkersAssumption, TypeInv, [Next]_vars
             PROVE  TypeInv'
  OBVIOUS
<1>0. UNCHANGED setup
  BY DEF Next, vars
<1> USE <1>0 DEF disk, memory, history, setup
<1>1. ASSUME NEW pw \in Passwords, Unlock(pw) PROVE TypeInv'
  <2>1. file \in Image /\ header \in Header
    BY <1>1 DEF Unlock, TypeInv
  <2>2. key' \in Key /\ records' \in Records
    BY <1>1, <2>1 DEF Unlock, Image
  <2>3. QED BY <1>1, <2>1, <2>2 DEF Unlock, TypeInv, TypeOK, LockHeld, Modes
<1>2. ASSUME NEW q \in Paths, NEW v \in Values, PutSecret(q, v) PROVE TypeInv'
  BY <1>2 DEF PutSecret, TypeInv, TypeOK, LockHeld, Records
<1>3. ASSUME NEW q \in Paths, DeleteSecret(q) PROVE TypeInv'
  BY <1>3 DEF DeleteSecret, TypeInv, TypeOK, LockHeld, Records
<1>4. CASE LockClean
  BY <1>4 DEF LockClean, TypeInv, TypeOK, LockHeld, Records, EmptyMap, Modes
<1>5. ASSUME NEW p \in Procs, Flush(p) PROVE TypeInv'
  <2>1. "flush" \in Ops /\ salt' \in 0..MaxSalt
    BY <1>5 DEF Flush, Ops, TypeInv, TypeOK
  <2>2. QED BY <1>5, <2>1, SnapshotTyped, StartWriteTyped DEF Flush
<1>6. ASSUME NEW p \in Procs, LockDirty(p) PROVE TypeInv'
  <2>1. "lock" \in Ops /\ salt' \in 0..MaxSalt
    BY <1>6 DEF LockDirty, Ops, TypeInv, TypeOK
  <2>2. QED BY <1>6, <2>1, SnapshotTyped, StartWriteTyped DEF LockDirty
<1>7. ASSUME NEW p \in Procs, NEW pw \in Passwords, NEW c \in BOOLEAN, Initialize(p, pw, c)
      PROVE  TypeInv'
  <2>1. EmptyMap \in Records
    BY DEF EmptyMap, Records
  <2>2. NewImage(pw, c, EmptyMap) \in Image /\ salt + 1 \in 0..MaxSalt
    BY <1>7, <2>1, NewImageTyped DEF Initialize, TypeInv
  <2>3. "initialize" \in Ops /\ "initialize" \notin {"flush", "lock"} /\ owner' = owner
    BY <1>7 DEF Initialize, Ops
  <2>4. QED BY <1>7, <2>2, <2>3, StartWriteTyped DEF Initialize
<1>8. ASSUME NEW p \in Procs, NEW pw \in Passwords, NEW c \in BOOLEAN, Recover(p, pw, c)
      PROVE  TypeInv'
  <2>1. file.records \in Records
    BY <1>8 DEF Recover, Image
  <2>2. NewImage(pw, c, file.records) \in Image /\ salt + 1 \in 0..MaxSalt
    BY <1>8, <2>1, NewImageTyped DEF Recover, TypeInv
  <2>3. "recover" \in Ops /\ "recover" \notin {"flush", "lock"} /\ owner' = owner
    BY <1>8 DEF Recover, Ops
  <2>4. QED BY <1>8, <2>2, <2>3, StartWriteTyped DEF Recover
<1>9. ASSUME NEW p \in Procs, CreateBackup(p) PROVE TypeInv'
  <2>1. backups' \in Seq(Image \cup {Torn})
    <3>1. CASE file = NoFile
      BY <1>9, <3>1 DEF CreateBackup, TypeInv, TypeOK
    <3>2. CASE file # NoFile
      BY <1>9, <3>2, BackupsTyped DEF CreateBackup, TypeInv, TypeOK, Content
    <3>3. QED BY <3>1, <3>2
  <2>2. pc' \in [Procs -> Steps \cup {"idle", "install"}]
    BY <1>9 DEF CreateBackup, TypeInv, TypeOK, Steps
  <2>3. TypeOK'
    BY <1>9, <2>1, <2>2 DEF CreateBackup, TypeInv, TypeOK
  <2>4. QED BY <1>9, <2>3 DEF CreateBackup, TypeInv, TypeOK, LockHeld
<1>10. ASSUME NEW p \in Procs, OpenTmp(p) PROVE TypeInv'
  <2>1. pc' \in [Procs -> Steps \cup {"idle", "install"}]
    BY <1>10 DEF OpenTmp, TypeInv, TypeOK, Steps
  <2>2. fd' \in [Procs -> {"tmp", "file", "gone"}]
    BY <1>10 DEF OpenTmp, TypeInv, TypeOK
  <2>3. TypeOK'
    BY <1>10, <2>1, <2>2 DEF OpenTmp, TypeInv, TypeOK, Content
  <2>4. QED BY <1>10, <2>3 DEF OpenTmp, TypeInv, TypeOK, LockHeld
<1>11. ASSUME NEW p \in Procs, FillTmp(p) PROVE TypeInv'
  <2>1. img[p] \in Image
    BY <1>11 DEF FillTmp, TypeInv
  <2>2. tmp' \in Content /\ file' \in Content
    BY <1>11, <2>1 DEF FillTmp, Overlay, TypeInv, TypeOK, Content
  <2>3. pc' \in [Procs -> Steps \cup {"idle", "install"}]
    BY <1>11 DEF FillTmp, TypeInv, TypeOK, Steps
  <2>4. fd' \in [Procs -> {"tmp", "file", "gone"}]
    BY <1>11 DEF FillTmp, TypeInv, TypeOK
  <2>5. TypeOK'
    BY <1>11, <2>2, <2>3, <2>4 DEF FillTmp, TypeInv, TypeOK
  <2>6. QED BY <1>11, <2>5 DEF FillTmp, TypeInv, TypeOK, LockHeld
<1>12. ASSUME NEW p \in Procs, RemoveOld(p) PROVE TypeInv'
  <2>1. pc' \in [Procs -> Steps \cup {"idle", "install"}]
    BY <1>12 DEF RemoveOld, TypeInv, TypeOK, Steps
  <2>2. fd' \in [Procs -> {"tmp", "file", "gone"}]
    BY <1>12 DEF RemoveOld, TypeInv, TypeOK, Unlinked
  <2>3. TypeOK'
    BY <1>12, <2>1, <2>2 DEF RemoveOld, TypeInv, TypeOK, Content
  <2>4. QED BY <1>12, <2>3 DEF RemoveOld, TypeInv, TypeOK, LockHeld
<1>13. ASSUME NEW p \in Procs, Rename(p) PROVE TypeInv'
  <2>1. committed' \in Image \cup {NoFile}
    BY <1>13 DEF Rename, TypeInv
  <2>2. pc' \in [Procs -> Steps \cup {"idle", "install"}]
    BY <1>13 DEF Rename, TypeInv, TypeOK, Steps
  <2>3. fd' \in [Procs -> {"tmp", "file", "gone"}]
    BY <1>13 DEF Rename, TypeInv, TypeOK, Unlinked
  <2>4. TypeOK'
    BY <1>13, <2>1, <2>2, <2>3 DEF Rename, TypeInv, TypeOK, Content
  <2>5. QED BY <1>13, <2>4 DEF Rename, TypeInv, TypeOK, LockHeld
<1>14. ASSUME NEW p \in Procs, FinishFlush(p) \/ FinishLock(p) \/ FinishInstaller(p)
       PROVE  TypeInv'
  <2>1. backups' \in Seq(Image \cup {Torn}) /\ faults' \in 0..MaxFaults
    BY <1>14, PruneTyped DEF FinishFlush, FinishLock, FinishInstaller, TypeInv
  <2>2. pc' \in [Procs -> Steps \cup {"idle", "install"}]
    BY <1>14 DEF FinishFlush, FinishLock, FinishInstaller, TypeInv, TypeOK, Steps
  <2>3. EmptyMap \in Records
    BY DEF EmptyMap, Records
  <2>4. TypeOK'
    BY <1>14, <2>1, <2>2, <2>3
    DEF FinishFlush, FinishLock, FinishInstaller, TypeInv, TypeOK, Modes
  <2>5. img[p] \in Image /\ UNCHANGED <<img, header>>
    BY <1>14 DEF FinishFlush, FinishLock, FinishInstaller, TypeInv
  <2>6. LockHeld'
    BY <1>14, VaultAssumption
    DEF FinishFlush, FinishLock, FinishInstaller, TypeInv, TypeOK, LockHeld, VaultAssumption
  <2>7. QED
    BY <1>14, <2>4, <2>5, <2>6
    DEF FinishFlush, FinishLock, FinishInstaller, TypeInv, TypeOK, LockHeld
<1>15. ASSUME NEW p \in Procs, Install(p) PROVE TypeInv'
  <2>1. img[p].header \in Header /\ img[p].header.salt \in 0..MaxSalt
    BY <1>15 DEF Install, TypeInv, Image, Header, Salts, VaultAssumption
  <2>2. pc' \in [Procs -> Steps \cup {"idle", "install"}]
    BY <1>15 DEF Install, TypeInv, TypeOK, Steps
  <2>3. EmptyMap \in Records
    BY DEF EmptyMap, Records
  <2>4. TypeOK'
    BY <1>15, <2>1, <2>2, <2>3 DEF Install, TypeInv, TypeOK, Modes
  <2>5. QED BY <1>15, <2>1, <2>4 DEF Install, TypeInv, TypeOK, LockHeld
<1>16. ASSUME NEW p \in Procs, RenameMissing(p) PROVE TypeInv'
  <2>1. pc' \in [Procs -> Steps \cup {"idle", "install"}]
    BY <1>16 DEF RenameMissing, Abandon, TypeInv, TypeOK, Steps
  <2>2. TypeOK'
    BY <1>16, <2>1 DEF RenameMissing, Abandon, TypeInv, TypeOK
  <2>3. QED BY <1>16, <2>2 DEF RenameMissing, Abandon, TypeInv, TypeOK, LockHeld
<1>17. ASSUME NEW p \in Procs, WriteFails(p) PROVE TypeInv'
  <2>1. backups' \in Seq(Image \cup {Torn})
    BY <1>17, BackupsTyped DEF WriteFails, TypeInv, TypeOK
  <2>2. pc' \in [Procs -> Steps \cup {"idle", "install"}]
    BY <1>17 DEF WriteFails, Abandon, TypeInv, TypeOK, Steps
  <2>3. fd' \in [Procs -> {"tmp", "file", "gone"}]
    BY <1>17 DEF WriteFails, TypeInv, TypeOK
  <2>4. tmp' \in Content /\ file' \in Content /\ faults' \in 0..MaxFaults
    BY <1>17 DEF WriteFails, TypeInv, TypeOK, Content, VaultAssumption
  <2>5. TypeOK'
    BY <1>17, <2>1, <2>2, <2>3, <2>4 DEF WriteFails, Abandon, TypeInv, TypeOK
  <2>6. QED BY <1>17, <2>5 DEF WriteFails, Abandon, TypeInv, TypeOK, LockHeld
<1>18. CASE Restart
  <2>1. backups' \in Seq(Image \cup {Torn})
    BY <1>18, BackupsTyped DEF Restart, TypeInv, TypeOK
  <2>2. faults' \in 0..MaxFaults
    BY <1>18 DEF Restart, TypeInv, TypeOK, VaultAssumption
  <2>3. /\ mode' \in Modes /\ header' \in Header \cup {NoHeader}
        /\ mode' # "Unlocked" /\ (mode' = "Locked" => header' \in Header)
    <3>1. mode' = OpenMode(file) /\ header' = OpenHeader(file)
      BY <1>18 DEF Restart
    <3>2. CASE file = NoFile
      BY <3>1, <3>2 DEF OpenMode, OpenHeader, Modes, MarkersAssumption
    <3>3. CASE file = Torn
      BY <3>1, <3>3 DEF OpenMode, OpenHeader, Modes, MarkersAssumption
    <3>4. CASE file \in Image
      <4>1. mode' = "Locked" /\ header' = file.header
        BY <3>1, <3>4 DEF OpenMode, OpenHeader, MarkersAssumption
      <4>2. QED BY <3>4, <4>1 DEF Modes, Image
    <3>5. QED BY <3>2, <3>3, <3>4 DEF TypeInv, TypeOK, LockHeld, Content
  <2>4. /\ pc' \in [Procs -> Steps \cup {"idle", "install"}]
        /\ fd' \in [Procs -> {"tmp", "file", "gone"}]
        /\ records' \in Records
    BY <1>18 DEF Restart, EmptyMap, Records
  <2>5. TypeOK'
    BY <1>18, <2>1, <2>2, <2>3, <2>4 DEF Restart, TypeInv, TypeOK
  <2>6. QED BY <1>18, <2>3, <2>5 DEF Restart, TypeInv, LockHeld
<1>19. CASE UNCHANGED vars
  BY <1>19 DEF vars, TypeInv, TypeOK, LockHeld
<1>20. QED
  BY <1>1, <1>2, <1>3, <1>4, <1>5, <1>6, <1>7, <1>8, <1>9, <1>10, <1>11, <1>12, <1>13,
     <1>14, <1>15, <1>16, <1>17, <1>18, <1>19 DEF Next, Step

\* Every reachable state is well typed, with any number of tasks, failures and
\* restarts: the handlers never store anything but what the next one expects.
THEOREM TypeCorrect == Spec => []TypeOK
<1>1. Init => TypeInv
  BY VaultAssumption, MarkersAssumption, InitTypeInv
<1>2. TypeInv /\ [Next]_vars => TypeInv'
  BY VaultAssumption, MarkersAssumption, NextTypeInv
<1>3. TypeInv => TypeOK
  BY DEF TypeInv
<1>4. QED BY <1>1, <1>2, <1>3, PTL DEF Spec
-----------------------------------------------------------------------------
(* The envelope of the file wraps the key of its payload.  unlock derives  *)
(* its key from the header in memory and takes the payload of the file, so *)
(* the proof needs that a salt belongs to one header only.                 *)

\* Header and key were made together.
Matched(h, k) == h.salt = k[2] /\ h.envelope \in {k, NoEnvelope}

\* The headers a later write or unlock can still use.
InUse(h) ==
  \/ file \in Image /\ h = file.header
  \/ tmp \in Image /\ h = tmp.header
  \/ \E p \in Procs : img[p] \in Image /\ h = img[p].header
  \/ header \in Header /\ h = header

OneHeaderPerSalt ==
  \A h, g \in Header : InUse(h) /\ InUse(g) => h.salt <= salt /\ (h.salt = g.salt => h = g)

EnvelopeInv ==
  /\ file \in Image => Matched(file.header, file.key)
  /\ tmp \in Image => Matched(tmp.header, tmp.key)
  /\ \A p \in Procs : img[p] \in Image => Matched(img[p].header, img[p].key)
  /\ mode = "Unlocked" => Matched(header, key)
  /\ OneHeaderPerSalt

\* A step that brings no new header into use keeps the salts unique.
LEMMA NoNewHeader ==
  ASSUME OneHeaderPerSalt, salt' = salt, \A h \in Header : InUse(h)' => InUse(h)
  PROVE  OneHeaderPerSalt'
BY DEF OneHeaderPerSalt

\* initialize and recover bring one header into use, under the next salt.
LEMMA NewHeader ==
  ASSUME VaultAssumption, TypeInv, EnvelopeInv, NEW p \in Procs, NEW pw \in Passwords,
         NEW c \in BOOLEAN, NEW recs \in Records, NEW o \in Ops, salt < MaxSalt,
         StartWrite(p, o, NewImage(pw, c, recs)), salt' = salt + 1
  PROVE  EnvelopeInv'
<1> DEFINE I == NewImage(pw, c, recs)
<1> USE DEF StartWrite, disk, memory, history
<1>1. I \in Image /\ I.header \in Header /\ I.header.salt = salt + 1
  BY NewImageTyped DEF TypeInv, NewImage, Image
<1>2. Matched(I.header, I.key)
  BY DEF NewImage, KeyOf, Matched
<1>3. \A q \in Procs : img'[q] = IF q = p THEN I ELSE img[q]
  BY DEF TypeInv, TypeOK
<1>4. \A h \in Header : InUse(h)' => InUse(h) \/ h = I.header
  BY <1>3 DEF InUse
<1>5. OneHeaderPerSalt'
  <2> SUFFICES ASSUME NEW h \in Header, NEW g \in Header, InUse(h)', InUse(g)'
               PROVE  h.salt <= salt' /\ (h.salt = g.salt => h = g)
    BY DEF OneHeaderPerSalt
  <2>1. salt \in Nat /\ salt' = salt + 1 /\ h.salt \in Nat /\ g.salt \in Nat
    BY DEF TypeInv, TypeOK, VaultAssumption, Header, Salts
  <2>2. InUse(h) => h.salt <= salt
    BY DEF EnvelopeInv, OneHeaderPerSalt
  <2>3. InUse(g) => g.salt <= salt
    BY DEF EnvelopeInv, OneHeaderPerSalt
  <2>4. InUse(h) /\ InUse(g) /\ h.salt = g.salt => h = g
    BY DEF EnvelopeInv, OneHeaderPerSalt
  <2>5. QED BY <1>1, <1>4, <2>1, <2>2, <2>3, <2>4
<1>6. QED BY <1>2, <1>3, <1>5 DEF EnvelopeInv

\* flush and lock write the header and the key of the open storage.
LEMMA OldHeader ==
  ASSUME TypeInv, EnvelopeInv, NEW p \in Procs, NEW o \in Ops, mode = "Unlocked",
         StartWrite(p, o, Snapshot), salt' = salt
  PROVE  EnvelopeInv'
<1> USE DEF StartWrite, disk, memory, history
<1>1. Matched(Snapshot.header, Snapshot.key) /\ Snapshot.header = header /\ header \in Header
  BY DEF EnvelopeInv, Snapshot, TypeInv
<1>2. \A q \in Procs : img'[q] = IF q = p THEN Snapshot ELSE img[q]
  BY DEF TypeInv, TypeOK
<1>3. \A h \in Header : InUse(h)' => InUse(h)
  BY <1>1, <1>2 DEF InUse
<1>4. OneHeaderPerSalt'
  BY <1>3, NoNewHeader DEF EnvelopeInv
<1>5. QED BY <1>1, <1>2, <1>4 DEF EnvelopeInv

LEMMA NextEnvelopeInv ==
  VaultAssumption /\ MarkersAssumption /\ TypeInv /\ EnvelopeInv /\ [Next]_vars => EnvelopeInv'
<1> SUFFICES ASSUME VaultAssumption, MarkersAssumption, TypeInv, EnvelopeInv, [Next]_vars
             PROVE  EnvelopeInv'
  OBVIOUS
<1> USE DEF disk, memory, history
<1>1. ASSUME NEW pw \in Passwords, Unlock(pw) PROVE EnvelopeInv'
  <2>1. header \in Header /\ file.header \in Header /\ Matched(file.header, file.key)
    BY <1>1 DEF Unlock, TypeInv, EnvelopeInv, Image
  <2>2. file.header.salt = header.salt
    BY <1>1, <2>1 DEF Unlock, Matched, KeyOf
  <2>3. file.header = header
    BY <1>1, <2>1, <2>2 DEF Unlock, EnvelopeInv, OneHeaderPerSalt, InUse
  <2>4. Matched(header, key')
    BY <1>1, <2>1, <2>3 DEF Unlock
  <2>5. OneHeaderPerSalt'
    BY <1>1, NoNewHeader DEF Unlock, InUse, EnvelopeInv
  <2>6. QED BY <1>1, <2>4, <2>5 DEF Unlock, EnvelopeInv
<1>2. CASE /\ UNCHANGED <<file, tmp, img, header, salt>>
           /\ mode' = "Unlocked" => mode = "Unlocked" /\ key' = key
  <2>1. OneHeaderPerSalt'
    BY <1>2, NoNewHeader DEF InUse, EnvelopeInv
  <2>2. QED BY <1>2, <2>1 DEF EnvelopeInv
<1>3. ASSUME NEW p \in Procs, Flush(p) \/ LockDirty(p) PROVE EnvelopeInv'
  BY <1>3, OldHeader DEF Flush, LockDirty, Ops
<1>4. ASSUME NEW p \in Procs, NEW pw \in Passwords, NEW c \in BOOLEAN, Initialize(p, pw, c)
      PROVE  EnvelopeInv'
  <2>1. EmptyMap \in Records /\ "initialize" \in Ops
    BY DEF EmptyMap, Records, Ops
  <2>2. QED BY <1>4, <2>1, NewHeader DEF Initialize
<1>5. ASSUME NEW p \in Procs, NEW pw \in Passwords, NEW c \in BOOLEAN, Recover(p, pw, c)
      PROVE  EnvelopeInv'
  <2>1. file.records \in Records /\ "recover" \in Ops
    BY <1>5 DEF Recover, Image, Ops
  <2>2. QED BY <1>5, <2>1, NewHeader DEF Recover
<1>6. ASSUME NEW p \in Procs, Install(p) PROVE EnvelopeInv'
  <2>1. OneHeaderPerSalt'
    BY <1>6, NoNewHeader DEF Install, InUse, EnvelopeInv, TypeInv
  <2>2. QED BY <1>6, <2>1 DEF Install, EnvelopeInv
<1>7. CASE /\ UNCHANGED <<img, header, salt>>
           /\ mode' = "Unlocked" => mode = "Unlocked" /\ key' = key
           /\ file' \in Image => \/ file' \in {file, tmp}
                                  \/ \E p \in Procs : file' = img[p]
           /\ tmp' \in Image => \/ tmp' = tmp
                                 \/ \E p \in Procs : tmp' = img[p]
  <2>1. \A h \in Header : InUse(h)' => InUse(h)
    BY <1>7 DEF InUse
  <2>2. OneHeaderPerSalt'
    BY <1>7, <2>1, NoNewHeader DEF EnvelopeInv
  <2>3. QED BY <1>7, <2>2 DEF EnvelopeInv
<1>8. ASSUME NEW p \in Procs,
             OpenTmp(p) \/ FillTmp(p) \/ RemoveOld(p) \/ Rename(p) \/ WriteFails(p)
      PROVE  EnvelopeInv'
  <2>1. UNCHANGED <<img, header, salt, mode, key>>
    BY <1>8 DEF OpenTmp, FillTmp, RemoveOld, Rename, WriteFails, Abandon
  <2>2. /\ file' \in {file, tmp, img[p], NoFile, Torn}
        /\ tmp' \in {tmp, img[p], NoFile, Torn}
    BY <1>8 DEF OpenTmp, FillTmp, RemoveOld, Rename, WriteFails, Abandon, Overlay
  <2>3. QED BY <1>7, <2>1, <2>2 DEF MarkersAssumption
<1>9. CASE Restart
  <2>1. mode' # "Unlocked"
    BY <1>9 DEF Restart, OpenMode
  <2>2. \A h \in Header : InUse(h)' => InUse(h)
    BY <1>9 DEF Restart, InUse, OpenHeader, MarkersAssumption
  <2>3. OneHeaderPerSalt'
    BY <1>9, <2>2, NoNewHeader DEF Restart, EnvelopeInv
  <2>4. QED BY <1>9, <2>1, <2>3 DEF Restart, EnvelopeInv
<1>10. ASSUME NEW q \in Paths, NEW v \in Values, PutSecret(q, v) PROVE EnvelopeInv'
  BY <1>2, <1>10 DEF PutSecret
<1>11. ASSUME NEW q \in Paths, DeleteSecret(q) PROVE EnvelopeInv'
  BY <1>2, <1>11 DEF DeleteSecret
<1>12. CASE LockClean
  BY <1>2, <1>12 DEF LockClean
<1>13. ASSUME NEW p \in Procs,
              \/ CreateBackup(p) \/ FinishFlush(p) \/ FinishLock(p) \/ FinishInstaller(p)
              \/ RenameMissing(p)
       PROVE  EnvelopeInv'
  BY <1>2, <1>13 DEF CreateBackup, FinishFlush, FinishLock, FinishInstaller, RenameMissing,
     Abandon
<1>14. CASE UNCHANGED vars
  BY <1>2, <1>14 DEF vars
<1>15. QED
  BY <1>1, <1>3, <1>4, <1>5, <1>6, <1>8, <1>9, <1>10, <1>11, <1>12, <1>13, <1>14 DEF Next,
     Step

\* The charter the user keeps opens the vault: in every reachable state the
\* envelope in the header of vault.age wraps the key that encrypts its payload,
\* also when recovery, initialization and flushes overlap and fail.
THEOREM EnvelopeAlwaysOpensFile == Spec => []EnvelopeOpensFile
<1>1. Init => TypeInv /\ EnvelopeInv
  <2>1. Init => TypeInv
    BY VaultAssumption, MarkersAssumption, InitTypeInv
  <2>2. Init => EnvelopeInv
    BY MarkersAssumption
    DEF Init, EnvelopeInv, OneHeaderPerSalt, InUse, OpenMode, OpenHeader, MarkersAssumption
  <2>3. QED BY <2>1, <2>2
<1>2. (TypeInv /\ EnvelopeInv) /\ [Next]_vars => (TypeInv /\ EnvelopeInv)'
  BY VaultAssumption, MarkersAssumption, NextTypeInv, NextEnvelopeInv
<1>3. TypeInv /\ EnvelopeInv => EnvelopeOpensFile
  <2> SUFFICES ASSUME TypeInv, EnvelopeInv, file \in Image, file.header.envelope # NoEnvelope
               PROVE  file.header.envelope = file.key
    BY DEF EnvelopeOpensFile
  <2>1. QED BY DEF EnvelopeInv, Matched
<1>4. QED BY <1>1, <1>2, <1>3, PTL DEF Spec
-----------------------------------------------------------------------------
(* Where the lock screen orders initialize and recover, one task writes at *)
(* a time, and each of its system calls keeps the last acknowledged image  *)
(* as vault.age or as the newest backup.                                   *)

Busy(p) == pc[p] # "idle"
Newest1 == backups[Len(backups)]

\* The only writer, and what it has put in the directory at each step.
WriterInv ==
  /\ \A p, q \in Procs : Busy(p) /\ Busy(q) => p = q
  /\ \A p \in Procs : Busy(p) /\ op[p] \in {"initialize", "recover"} => mode # "Unlocked"
  /\ \A p \in Procs : Busy(p) /\ op[p] \in {"flush", "lock"} => img[p] = Snapshot
  /\ \A p \in Procs : fd[p] = IF pc[p] = "fill" THEN "tmp" ELSE "gone"
  /\ \A p \in Procs : pc[p] = "fill" => tmp = Torn
  /\ \A p \in Procs : pc[p] \in {"remove", "rename"} => tmp = img[p]
  /\ \A p \in Procs : pc[p] = "remove" => windows
  /\ \A p \in Procs : pc[p] \in {"prune", "install"} => file = img[p]
  /\ \A p \in Procs : pc[p] \in {"open", "fill", "remove"} /\ file # NoFile
                        => backups # << >> /\ Newest1 = file

\* What is on disk is what was acknowledged last, and what a clean view holds.
SavedInv ==
  /\ Survivor = committed
  /\ ~windows => file = committed
  /\ mode = "Unlocked" /\ ~dirty => Survivor = Snapshot

\* Nothing that can still be written goes back behind the last recovery.
RetiredInv ==
  /\ floor <= salt
  /\ OldKeysRetired
  /\ header \in Header => header.salt >= floor
  /\ \A p \in Procs : Busy(p) => img[p].header.salt >= floor

\* The image of an installer is the one of the abstract command.
InstallerInv ==
  \A p \in Procs : pc[p] \in {"backup", "open", "fill", "rename"} =>
    /\ op[p] = "initialize" => file = NoFile /\ img[p].records = EmptyMap
    /\ op[p] = "recover" => file \in Image /\ img[p].records = file.records

StorageInv ==
  ordered => WriterInv /\ SavedInv /\ RetiredInv /\ (~windows => InstallerInv)
\* A backup is the newest one as soon as it is made.
LEMMA BackupIsNewest ==
  ASSUME TypeOK, NEW c \in Image \cup {Torn}, NEW b \in BackupAs(c)
  PROVE  b # << >> /\ b[Len(b)] = c
<1> DEFINE S == Image \cup {Torn}
<1>1. backups \in Seq(S) /\ Len(backups) \in Nat
  BY LenProperties DEF TypeOK
<1>2. CASE b = Append(backups, c)
  BY <1>1, <1>2, AppendProperties
<1>3. ASSUME NEW i \in {Len(backups)} \ {0}, b = [backups EXCEPT ![i] = c]
      PROVE  b # << >> /\ b[Len(b)] = c
  BY <1>1, <1>3, ExceptSeq, LenProperties, EmptySeq
<1>4. QED BY <1>2, <1>3 DEF BackupAs

\* Pruning, or failing to, keeps the newest backup.
LEMMA PruneKeepsNewest ==
  ASSUME VaultAssumption, TypeOK, PruneBackups
  PROVE  /\ backups' = << >> <=> backups = << >>
         /\ backups # << >> => Newest1' = Newest1
<1> DEFINE S == Image \cup {Torn}
<1>1. backups \in Seq(S) /\ Len(backups) \in Nat
  BY LenProperties DEF TypeOK
<1>2. CASE backups' = Newest(backups) /\ Len(backups) > KeepBackups
  <2> DEFINE m == Len(backups) - KeepBackups + 1
  <2>1. backups' = SubSeq(backups, m, Len(backups))
    BY <1>2 DEF Newest
  <2>2. m \in 1..Len(backups) + 1 /\ m \in 1..Len(backups) /\ KeepBackups \in Nat \ {0}
    BY <1>1, <1>2 DEF VaultAssumption
  <2>3. /\ Len(backups') = KeepBackups
        /\ \A i \in 1..KeepBackups : backups'[i] = backups[m + i - 1]
    BY <1>1, <2>1, <2>2, SubSeqProperties
  <2>4. backups'[Len(backups')] = backups[Len(backups)]
    BY <1>1, <2>2, <2>3
  <2>5. backups' # << >> /\ backups # << >>
    BY <1>1, <1>2, <2>2, <2>3, EmptySeq
  <2>6. QED BY <2>4, <2>5 DEF Newest1
<1>3. CASE backups' = backups
  BY <1>3 DEF Newest1
<1>4. QED BY <1>2, <1>3 DEF PruneBackups, Newest

\* A command that needs an unlocked vault and the lock finds no writer.
LEMMA FreeMeansIdle ==
  ASSUME VaultAssumption, TypeInv, WriterInv, owner = Nobody, mode = "Unlocked", NEW p \in Procs
  PROVE  ~Busy(p)
BY DEF WriterInv, Busy, TypeInv, TypeOK, LockHeld, Ops, VaultAssumption

\* A writer starts when nobody writes.
LEMMA StartWriter ==
  ASSUME VaultAssumption, MarkersAssumption, TypeInv, WriterInv, ordered,
         NEW p \in Procs, NEW o \in Ops, NEW image,
         StartWrite(p, o, image), \A q \in Procs : ~Busy(q),
         o \in {"initialize", "recover"} => mode # "Unlocked",
         o \in {"flush", "lock"} => image = Snapshot
  PROVE  WriterInv'
<1> USE DEF StartWrite, disk, memory, history
<1>1. /\ pc' = [pc EXCEPT ![p] = "backup"]
      /\ \A q \in Procs : q # p => pc'[q] = "idle"
      /\ pc'[p] = "backup"
      /\ \A q \in Procs : pc[q] = "idle"
  BY DEF TypeInv, TypeOK, Busy
<1>2. op'[p] = o /\ img'[p] = image
  BY DEF TypeInv, TypeOK
<1>3. Snapshot' = Snapshot /\ UNCHANGED <<fd, tmp, file, backups, mode>>
  BY DEF Snapshot
<1>4. QED BY <1>1, <1>2, <1>3 DEF WriterInv, Busy

LEMMA NextWriter ==
  ASSUME VaultAssumption, MarkersAssumption, TypeInv, WriterInv, ordered, [Next]_vars
  PROVE  WriterInv'
<1>0. UNCHANGED setup
  BY DEF Next, vars
<1> USE <1>0 DEF disk, memory, history, setup
<1>1. ASSUME NEW pw \in Passwords, Unlock(pw) PROVE WriterInv'
  <2>1. ~Installing /\ mode = "Locked"
    BY <1>1 DEF Unlock
  <2>2. \A q \in Procs : ~Busy(q)
    BY <2>1 DEF Installing, Busy, TypeInv, TypeOK, LockHeld, Ops
  <2>3. UNCHANGED <<disk, pc, op, img, fd>>
    BY <1>1 DEF Unlock
  <2>4. QED BY <2>2, <2>3 DEF WriterInv, Busy
<1>2. ASSUME /\ owner = Nobody /\ mode = "Unlocked"
             /\ UNCHANGED <<disk, pc, op, img, fd>>
      PROVE  WriterInv'
  <2>1. \A q \in Procs : ~Busy(q)
    BY <1>2, FreeMeansIdle
  <2>2. QED BY <1>2, <2>1 DEF WriterInv, Busy
<1>3. ASSUME NEW p \in Procs, Flush(p) \/ LockDirty(p) PROVE WriterInv'
  <2>1. \A q \in Procs : ~Busy(q)
    BY <1>3, FreeMeansIdle DEF Flush, LockDirty
  <2>2. QED BY <1>3, <2>1, StartWriter DEF Flush, LockDirty, Ops
<1>4. ASSUME NEW p \in Procs, NEW pw \in Passwords, NEW c \in BOOLEAN,
             Initialize(p, pw, c) \/ Recover(p, pw, c)
      PROVE  WriterInv'
  <2>1. mode # "Unlocked" /\ \A q \in Procs : ~Busy(q)
    BY <1>4 DEF Initialize, Recover, FromLockScreen, AllIdle, Busy
  <2>2. QED BY <1>4, <2>1, StartWriter DEF Initialize, Recover, Ops
<1>5. ASSUME NEW p \in Procs, CreateBackup(p) PROVE WriterInv'
  <2>1. file # NoFile => backups' # << >> /\ Newest1' = file
    BY <1>5, BackupIsNewest DEF CreateBackup, TypeInv, TypeOK, Content, Newest1
  <2>2. Snapshot' = Snapshot
    BY <1>5 DEF CreateBackup, Snapshot
  <2>3. QED BY <1>5, <2>1, <2>2 DEF CreateBackup, WriterInv, Busy, TypeInv, TypeOK
<1>6. ASSUME NEW p \in Procs, OpenTmp(p) PROVE WriterInv'
  <2>1. Snapshot' = Snapshot /\ Newest1' = Newest1
    BY <1>6 DEF OpenTmp, Snapshot, Newest1
  <2>2. QED BY <1>6, <2>1 DEF OpenTmp, WriterInv, Busy, TypeInv, TypeOK
<1>7. ASSUME NEW p \in Procs, FillTmp(p) PROVE WriterInv'
  <2>1. fd[p] = "tmp" /\ tmp = Torn
    BY <1>7 DEF FillTmp, WriterInv
  <2>2. tmp' = img[p] /\ file' = file
    BY <1>7, <2>1 DEF FillTmp, Overlay
  <2>3. Snapshot' = Snapshot /\ Newest1' = Newest1
    BY <1>7 DEF FillTmp, Snapshot, Newest1
  <2>4. QED BY <1>7, <2>1, <2>2, <2>3 DEF FillTmp, WriterInv, Busy, TypeInv, TypeOK
<1>8. ASSUME NEW p \in Procs, RemoveOld(p) PROVE WriterInv'
  <2>1. \A q \in Procs : fd[q] = "gone" /\ fd'[q] = "gone"
    BY <1>8 DEF RemoveOld, Unlinked, WriterInv, Busy
  <2>2. Snapshot' = Snapshot
    BY <1>8 DEF RemoveOld, Snapshot
  <2>3. QED BY <1>8, <2>1, <2>2 DEF RemoveOld, WriterInv, Busy, TypeInv, TypeOK
<1>9. ASSUME NEW p \in Procs, Rename(p) PROVE WriterInv'
  <2>1. \A q \in Procs : fd[q] = "gone" /\ fd'[q] = "gone"
    BY <1>9 DEF Rename, Unlinked, WriterInv, Busy
  <2>2. Snapshot' = Snapshot /\ file' = img[p]
    BY <1>9 DEF Rename, Snapshot, WriterInv
  <2>3. QED BY <1>9, <2>1, <2>2 DEF Rename, WriterInv, Busy, TypeInv, TypeOK
<1>10. ASSUME NEW p \in Procs, FinishFlush(p) \/ FinishLock(p) PROVE WriterInv'
  <2>1. \A q \in Procs : pc'[q] = "idle" /\ fd'[q] = "gone"
    BY <1>10 DEF FinishFlush, FinishLock, WriterInv, Busy, TypeInv, TypeOK
  <2>2. QED BY <2>1 DEF WriterInv, Busy
<1>11. ASSUME NEW p \in Procs, FinishInstaller(p) PROVE WriterInv'
  <2>1. Snapshot' = Snapshot
    BY <1>11 DEF FinishInstaller, Snapshot
  <2>2. QED BY <1>11, <2>1 DEF FinishInstaller, WriterInv, Busy, TypeInv, TypeOK
<1>12. ASSUME NEW p \in Procs, Install(p) \/ RenameMissing(p) PROVE WriterInv'
  <2>1. \A q \in Procs : pc'[q] = "idle" /\ fd'[q] = "gone"
    BY <1>12 DEF Install, RenameMissing, Abandon, WriterInv, Busy, TypeInv, TypeOK
  <2>2. QED BY <2>1 DEF WriterInv, Busy
<1>13. ASSUME NEW p \in Procs, WriteFails(p) PROVE WriterInv'
  <2>1. \A q \in Procs : pc'[q] = "idle" /\ fd'[q] = "gone"
    BY <1>13 DEF WriteFails, Abandon, WriterInv, Busy, TypeInv, TypeOK, Steps
  <2>2. QED BY <2>1 DEF WriterInv, Busy
<1>14. CASE Restart
  BY <1>14 DEF Restart, WriterInv, Busy
<1>15. CASE UNCHANGED vars
  BY <1>15 DEF vars, WriterInv, Busy, Snapshot, Newest1
<1>16. ASSUME NEW q \in Paths, NEW v \in Values, PutSecret(q, v) PROVE WriterInv'
  BY <1>2, <1>16 DEF PutSecret
<1>17. ASSUME NEW q \in Paths, DeleteSecret(q) PROVE WriterInv'
  BY <1>2, <1>17 DEF DeleteSecret
<1>18. CASE LockClean
  BY <1>2, <1>18 DEF LockClean
<1>19. QED
  BY <1>1, <1>3, <1>4, <1>5, <1>6, <1>7, <1>8, <1>9, <1>10, <1>11, <1>12, <1>13, <1>14,
     <1>15, <1>16, <1>17, <1>18 DEF Next, Step
\* A salt belongs to one header: the key that opens the file is the file's, and
\* so is the header it was derived from.
LEMMA UnlockHeader ==
  ASSUME TypeInv, EnvelopeInv, NEW pw \in Passwords, Unlock(pw)
  PROVE  file.header = header /\ Snapshot' = file
<1>1. header \in Header /\ file.header \in Header /\ Matched(file.header, file.key)
  BY DEF Unlock, TypeInv, EnvelopeInv, Image
<1>2. file.header.salt = header.salt
  BY <1>1 DEF Unlock, Matched, KeyOf
<1>3. file.header = header
  BY <1>1, <1>2 DEF Unlock, EnvelopeInv, OneHeaderPerSalt, InUse
<1>4. Snapshot' = [header |-> file.header, key |-> file.key, records |-> file.records]
  BY <1>3 DEF Unlock, Snapshot
<1>5. QED BY <1>3, <1>4 DEF Unlock, Image

\* What survives stays when neither vault.age nor the newest backup is touched.
LEMMA SurvivorKept ==
  ASSUME file' = file, file = NoFile => backups' = backups
  PROVE  Survivor' = Survivor
BY DEF Survivor

LEMMA NextSaved ==
  ASSUME VaultAssumption, MarkersAssumption, TypeInv, EnvelopeInv, WriterInv, SavedInv,
         ordered, [Next]_vars
  PROVE  SavedInv'
<1>0. UNCHANGED setup /\ committed \in Image \cup {NoFile}
  BY DEF Next, vars, TypeInv, TypeOK
<1> USE <1>0 DEF disk, memory, history, setup
<1>1. ASSUME NEW pw \in Passwords, Unlock(pw) PROVE SavedInv'
  <2>1. Snapshot' = file /\ file # NoFile
    BY <1>1, UnlockHeader DEF Unlock, MarkersAssumption
  <2>2. Survivor' = Survivor /\ Survivor = file
    BY <1>1, <2>1, SurvivorKept DEF Unlock, Survivor
  <2>3. QED BY <1>1, <2>1, <2>2 DEF Unlock, SavedInv
<1>2. ASSUME /\ UNCHANGED <<file, backups, committed>>
             /\ \/ mode' # "Unlocked" \/ dirty'
                \/ UNCHANGED <<mode, header, key, records, dirty>>
      PROVE  SavedInv'
  BY <1>2, SurvivorKept DEF SavedInv, Snapshot
<1>3. ASSUME NEW p \in Procs, CreateBackup(p) PROVE SavedInv'
  BY <1>3, SurvivorKept DEF CreateBackup, SavedInv, Snapshot
<1>4. ASSUME NEW p \in Procs, FillTmp(p) PROVE SavedInv'
  BY <1>2, <1>4 DEF FillTmp, WriterInv
<1>5. ASSUME NEW p \in Procs, RemoveOld(p) PROVE SavedInv'
  <2>1. file # NoFile => backups # << >> /\ Newest1 = file
    BY <1>5 DEF RemoveOld, WriterInv
  <2>2. Survivor' = Survivor
    BY <1>5, <2>1 DEF RemoveOld, Survivor, Newest1
  <2>3. windows /\ Snapshot' = Snapshot
    BY <1>5 DEF RemoveOld, WriterInv, Snapshot
  <2>4. QED BY <1>5, <2>2, <2>3 DEF RemoveOld, SavedInv
<1>6. ASSUME NEW p \in Procs, Rename(p) PROVE SavedInv'
  <2>1. file' = img[p] /\ committed' = img[p] /\ img[p] # NoFile
    BY <1>6 DEF Rename, WriterInv
  <2>2. Survivor' = img[p]
    BY <2>1 DEF Survivor
  <2>3. mode = "Unlocked" => img[p] = Snapshot
    BY <1>6 DEF Rename, WriterInv, Busy, TypeInv, TypeOK, Ops
  <2>4. QED BY <1>6, <2>1, <2>2, <2>3 DEF Rename, SavedInv, Snapshot
<1>7. ASSUME NEW p \in Procs, FinishFlush(p) \/ FinishLock(p) \/ FinishInstaller(p)
      PROVE  SavedInv'
  <2>1. /\ backups' = << >> <=> backups = << >>
        /\ backups # << >> => Newest1' = Newest1
    BY <1>7, PruneKeepsNewest DEF FinishFlush, FinishLock, FinishInstaller, TypeInv
  <2>2. UNCHANGED <<file, committed>>
    BY <1>7 DEF FinishFlush, FinishLock, FinishInstaller
  <2>3. Survivor' = Survivor
    BY <2>1, <2>2 DEF Survivor, Newest1
  <2>4. CASE FinishFlush(p)
    <3>1. file = img[p] /\ img[p] = Snapshot /\ img[p] \in Image
      BY <2>4 DEF FinishFlush, WriterInv, Busy, TypeInv
    <3>2. Survivor = Snapshot /\ Snapshot' = Snapshot
      BY <2>4, <3>1 DEF FinishFlush, Survivor, Snapshot, MarkersAssumption
    <3>3. QED BY <2>2, <2>3, <3>2 DEF SavedInv
  <2>5. CASE FinishLock(p)
    BY <2>2, <2>3, <2>5 DEF FinishLock, SavedInv
  <2>6. CASE FinishInstaller(p)
    BY <2>2, <2>3, <2>6 DEF FinishInstaller, SavedInv, Snapshot
  <2>7. QED BY <1>7, <2>4, <2>5, <2>6
<1>8. ASSUME NEW p \in Procs, WriteFails(p) PROVE SavedInv'
  <2>1. file' = file /\ UNCHANGED <<committed, mode, header, key, records, dirty>>
    BY <1>8 DEF WriteFails, WriterInv, Abandon
  <2>2. Survivor' = Survivor
    BY <1>8, <2>1, SurvivorKept DEF WriteFails
  <2>3. QED BY <2>1, <2>2 DEF SavedInv, Snapshot
<1>9. CASE Restart
  <2>1. file' = file /\ committed' = committed /\ mode' # "Unlocked"
    BY <1>9 DEF Restart, OpenMode
  <2>2. Survivor' = Survivor
    BY <1>9, <2>1, SurvivorKept DEF Restart
  <2>3. QED BY <2>1, <2>2 DEF SavedInv
<1>10. ASSUME NEW q \in Paths, NEW v \in Values, PutSecret(q, v) PROVE SavedInv'
  BY <1>2, <1>10 DEF PutSecret
<1>11. ASSUME NEW q \in Paths, DeleteSecret(q) PROVE SavedInv'
  BY <1>2, <1>11 DEF DeleteSecret
<1>12. CASE LockClean
  BY <1>2, <1>12 DEF LockClean
<1>13. ASSUME NEW p \in Procs,
              Flush(p) \/ LockDirty(p) \/ OpenTmp(p) \/ Install(p) \/ RenameMissing(p)
       PROVE  SavedInv'
  BY <1>2, <1>13 DEF Flush, LockDirty, StartWrite, OpenTmp, Install, RenameMissing, Abandon
<1>14. ASSUME NEW p \in Procs, NEW pw \in Passwords, NEW c \in BOOLEAN,
              Initialize(p, pw, c) \/ Recover(p, pw, c)
       PROVE  SavedInv'
  BY <1>2, <1>14 DEF Initialize, Recover, StartWrite
<1>15. CASE UNCHANGED vars
  BY <1>2, <1>15 DEF vars
<1>16. QED
  BY <1>1, <1>3, <1>4, <1>5, <1>6, <1>7, <1>8, <1>9, <1>10, <1>11, <1>12, <1>13, <1>14,
     <1>15 DEF Next, Step

\* No later write can bring back a key that a recovery retired.
LEMMA NextRetired ==
  ASSUME VaultAssumption, MarkersAssumption, TypeInv, EnvelopeInv, WriterInv, RetiredInv,
         ordered, [Next]_vars
  PROVE  RetiredInv'
<1>0. /\ UNCHANGED setup /\ floor \in Nat /\ salt \in Nat
      /\ Header = [salt : Salts, envelope : Key \cup {NoEnvelope}] /\ Salts \subseteq Nat
      /\ \A h \in Header : h.salt \in Nat
      /\ \A i \in Image : i.header \in Header
  BY DEF Next, vars, TypeInv, TypeOK, VaultAssumption, Header, Salts, Image
<1> USE <1>0 DEF disk, memory, history, setup
<1>1. ASSUME UNCHANGED <<file, header, img, salt, floor>>,
             \A p \in Procs : Busy(p)' => Busy(p)
      PROVE  RetiredInv'
  BY <1>1 DEF RetiredInv, OldKeysRetired
<1>2. ASSUME NEW p \in Procs, Flush(p) \/ LockDirty(p) PROVE RetiredInv'
  <2>1. header \in Header /\ header.salt >= floor
    BY <1>2 DEF Flush, LockDirty, TypeInv, RetiredInv
  <2>2. \A q \in Procs : Busy(q)' => img'[q].header.salt >= floor
    BY <1>2, <2>1 DEF Flush, LockDirty, StartWrite, Snapshot, RetiredInv, Busy, TypeInv,
       TypeOK
  <2>3. QED BY <1>2, <2>2 DEF Flush, LockDirty, StartWrite, RetiredInv, OldKeysRetired
<1>3. ASSUME NEW p \in Procs, NEW pw \in Passwords, NEW c \in BOOLEAN, NEW recs \in Records,
             NEW o \in Ops, StartWrite(p, o, NewImage(pw, c, recs)), salt' = salt + 1
      PROVE  RetiredInv'
  <2>1. NewImage(pw, c, recs).header.salt = salt + 1
    BY DEF NewImage
  <2>2. \A q \in Procs : Busy(q)' => img'[q].header.salt >= floor
    BY <1>3, <2>1 DEF StartWrite, RetiredInv, Busy, TypeInv, TypeOK
  <2>3. QED BY <1>3, <2>2 DEF StartWrite, RetiredInv, OldKeysRetired
<1>4. ASSUME NEW p \in Procs, NEW pw \in Passwords, NEW c \in BOOLEAN,
             Initialize(p, pw, c) \/ Recover(p, pw, c)
      PROVE  RetiredInv'
  <2>1. EmptyMap \in Records /\ (Recover(p, pw, c) => file.records \in Records)
    BY DEF EmptyMap, Records, Recover, Image
  <2>2. QED BY <1>3, <1>4, <2>1 DEF Initialize, Recover, Ops
<1>5. ASSUME NEW p \in Procs, Rename(p) PROVE RetiredInv'
  <2>1. file' = img[p] /\ img[p].header.salt >= floor
    BY <1>5 DEF Rename, WriterInv, RetiredInv, Busy
  <2>2. \A q \in Procs : Busy(q)' => Busy(q)
    BY <1>5 DEF Rename, Busy, TypeInv, TypeOK
  <2>3. QED BY <1>5, <2>1, <2>2 DEF Rename, RetiredInv, OldKeysRetired
<1>6. ASSUME NEW p \in Procs, Install(p) PROVE RetiredInv'
  <2>1. file = img[p] /\ img[p] \in Image /\ img[p].header.salt >= floor
    BY <1>6 DEF Install, WriterInv, RetiredInv, Busy, TypeInv
  <2>2. \A q \in Procs : ~Busy(q)'
    BY <1>6 DEF Install, WriterInv, Busy, TypeInv, TypeOK
  <2>3. floor' <= img[p].header.salt /\ floor' \in Nat
    BY <1>6, <2>1 DEF Install
  <2>4. floor' <= salt'
    <3>1. img[p].header.salt <= salt
      BY <2>1 DEF EnvelopeInv, OneHeaderPerSalt, InUse
    <3>2. QED BY <1>6, <2>1, <2>3, <3>1 DEF Install
  <2>5. QED BY <1>6, <2>1, <2>2, <2>3, <2>4 DEF Install, RetiredInv, OldKeysRetired
<1>7. ASSUME NEW p \in Procs, WriteFails(p) PROVE RetiredInv'
  <2>1. UNCHANGED <<file, header, img, salt, floor>>
    BY <1>7 DEF WriteFails, WriterInv, Abandon
  <2>2. \A q \in Procs : Busy(q)' => Busy(q)
    BY <1>7 DEF WriteFails, Abandon, Busy, TypeInv, TypeOK, Steps
  <2>3. QED BY <1>1, <2>1, <2>2
<1>8. CASE Restart
  <2>1. header' \in Header => header' = file.header /\ file \in Image
    BY <1>8 DEF Restart, OpenHeader, MarkersAssumption
  <2>2. \A q \in Procs : ~Busy(q)'
    BY <1>8 DEF Restart, Busy
  <2>3. QED BY <1>8, <2>1, <2>2 DEF Restart, RetiredInv, OldKeysRetired
<1>9. ASSUME NEW p \in Procs,
             \/ CreateBackup(p) \/ OpenTmp(p) \/ FillTmp(p) \/ FinishFlush(p)
             \/ FinishLock(p) \/ FinishInstaller(p) \/ RenameMissing(p)
      PROVE  RetiredInv'
  <2>1. UNCHANGED <<file, header, img, salt, floor>>
    BY <1>9 DEF CreateBackup, OpenTmp, FillTmp, FinishFlush, FinishLock, FinishInstaller,
                RenameMissing, Abandon, WriterInv
  <2>2. \A q \in Procs : Busy(q)' => Busy(q)
    BY <1>9 DEF CreateBackup, OpenTmp, FillTmp, FinishFlush, FinishLock, FinishInstaller,
                RenameMissing, Abandon, Busy, TypeInv, TypeOK
  <2>3. QED BY <1>1, <2>1, <2>2
<1>10. ASSUME NEW p \in Procs, RemoveOld(p) PROVE RetiredInv'
  <2>1. \A q \in Procs : Busy(q)' => Busy(q)
    BY <1>10 DEF RemoveOld, Busy, TypeInv, TypeOK
  <2>2. QED BY <1>10, <2>1 DEF RemoveOld, RetiredInv, OldKeysRetired, MarkersAssumption
<1>11. ASSUME NEW pw \in Passwords, Unlock(pw) PROVE RetiredInv'
  BY <1>1, <1>11 DEF Unlock, Busy
<1>12. ASSUME NEW q \in Paths, NEW v \in Values, PutSecret(q, v) PROVE RetiredInv'
  BY <1>1, <1>12 DEF PutSecret, Busy
<1>13. ASSUME NEW q \in Paths, DeleteSecret(q) PROVE RetiredInv'
  BY <1>1, <1>13 DEF DeleteSecret, Busy
<1>14. CASE LockClean
  BY <1>1, <1>14 DEF LockClean, Busy
<1>15. CASE UNCHANGED vars
  BY <1>1, <1>15 DEF vars, Busy
<1>16. QED
  BY <1>2, <1>4, <1>5, <1>6, <1>7, <1>8, <1>9, <1>10, <1>11, <1>12, <1>13, <1>14, <1>15
  DEF Next, Step
\* Between start and rename of an installer nobody else replaces the file.
LEMMA NextInstaller ==
  ASSUME VaultAssumption, MarkersAssumption, TypeInv, WriterInv, InstallerInv, ordered,
         ~windows, [Next]_vars
  PROVE  InstallerInv'
<1> DEFINE Early == {"backup", "open", "fill", "rename"}
<1> USE DEF disk, memory, history, setup
<1>1. ASSUME UNCHANGED <<file, op, img>>,
             \A p \in Procs : pc'[p] \in Early => pc[p] \in Early
      PROVE  InstallerInv'
  BY <1>1 DEF InstallerInv
<1>2. ASSUME \A p \in Procs : pc'[p] \notin Early PROVE InstallerInv'
  BY <1>2 DEF InstallerInv
<1>3. ASSUME NEW p \in Procs, Flush(p) \/ LockDirty(p) PROVE InstallerInv'
  BY <1>3 DEF Flush, LockDirty, StartWrite, InstallerInv, TypeInv, TypeOK
<1>4. ASSUME NEW p \in Procs, NEW pw \in Passwords, NEW c \in BOOLEAN, Initialize(p, pw, c)
      PROVE  InstallerInv'
  <2>1. NewImage(pw, c, EmptyMap).records = EmptyMap
    BY DEF NewImage
  <2>2. QED BY <1>4, <2>1 DEF Initialize, StartWrite, InstallerInv, TypeInv, TypeOK
<1>5. ASSUME NEW p \in Procs, NEW pw \in Passwords, NEW c \in BOOLEAN, Recover(p, pw, c)
      PROVE  InstallerInv'
  <2>1. NewImage(pw, c, file.records).records = file.records
    BY DEF NewImage
  <2>2. QED BY <1>5, <2>1 DEF Recover, StartWrite, InstallerInv, TypeInv, TypeOK
<1>6. ASSUME NEW p \in Procs, CreateBackup(p) \/ OpenTmp(p) \/ FillTmp(p) PROVE InstallerInv'
  <2>1. UNCHANGED <<file, op, img>>
    BY <1>6 DEF CreateBackup, OpenTmp, FillTmp, WriterInv
  <2>2. \A q \in Procs : pc'[q] \in Early => pc[q] \in Early
    BY <1>6 DEF CreateBackup, OpenTmp, FillTmp, TypeInv, TypeOK
  <2>3. QED BY <1>1, <2>1, <2>2
<1>7. ASSUME NEW p \in Procs,
             \/ RemoveOld(p) \/ Rename(p) \/ FinishFlush(p) \/ FinishLock(p)
             \/ FinishInstaller(p) \/ Install(p) \/ RenameMissing(p) \/ WriteFails(p)
      PROVE  InstallerInv'
  <2>1. Busy(p) /\ ~RemoveOld(p) /\ pc' = [pc EXCEPT ![p] = pc'[p]] /\ pc'[p] \notin Early
    BY <1>7 DEF RemoveOld, Rename, FinishFlush, FinishLock, FinishInstaller, Install,
                RenameMissing, WriteFails, Abandon, WriterInv, Busy, Steps, TypeInv, TypeOK
  <2>2. \A q \in Procs : q # p => pc'[q] = "idle"
    BY <2>1 DEF WriterInv, Busy, TypeInv, TypeOK
  <2>3. QED BY <1>2, <2>1, <2>2
<1>8. CASE Restart
  BY <1>2, <1>8 DEF Restart
<1>9. ASSUME UNCHANGED <<file, pc, op, img>> PROVE InstallerInv'
  BY <1>9 DEF InstallerInv
<1>10. ASSUME NEW pw \in Passwords, Unlock(pw) PROVE InstallerInv'
  BY <1>9, <1>10 DEF Unlock
<1>11. ASSUME NEW q \in Paths, NEW v \in Values, PutSecret(q, v) PROVE InstallerInv'
  BY <1>9, <1>11 DEF PutSecret
<1>12. ASSUME NEW q \in Paths, DeleteSecret(q) PROVE InstallerInv'
  BY <1>9, <1>12 DEF DeleteSecret
<1>13. CASE LockClean
  BY <1>9, <1>13 DEF LockClean
<1>14. CASE UNCHANGED vars
  BY <1>9, <1>14 DEF vars
<1>15. QED
  BY <1>3, <1>4, <1>5, <1>6, <1>7, <1>8, <1>10, <1>11, <1>12, <1>13, <1>14 DEF Next, Step

\* All that the theorems below rest on.
VaultInv == TypeInv /\ EnvelopeInv /\ StorageInv

LEMMA InitEnvelopeInv == Init => EnvelopeInv
BY MarkersAssumption
DEF Init, EnvelopeInv, OneHeaderPerSalt, InUse, OpenMode, OpenHeader, MarkersAssumption

LEMMA VaultAlways == Spec => []VaultInv
<1>1. Init => VaultInv
  <2> SUFFICES ASSUME Init PROVE VaultInv
    OBVIOUS
  <2>1. TypeInv /\ EnvelopeInv
    BY VaultAssumption, MarkersAssumption, InitTypeInv, InitEnvelopeInv
  <2>2. mode # "Unlocked" /\ header \notin Header
    BY MarkersAssumption DEF Init, OpenMode, OpenHeader, MarkersAssumption
  <2>3. WriterInv
    BY DEF Init, WriterInv, Busy
  <2>4. SavedInv
    BY <2>2 DEF Init, SavedInv, Survivor
  <2>5. RetiredInv /\ InstallerInv
    BY <2>2, MarkersAssumption
    DEF Init, RetiredInv, OldKeysRetired, InstallerInv, Busy, MarkersAssumption
  <2>6. QED BY <2>1, <2>3, <2>4, <2>5 DEF VaultInv, StorageInv
<1>2. VaultInv /\ [Next]_vars => VaultInv'
  <2> SUFFICES ASSUME VaultInv, [Next]_vars PROVE VaultInv'
    OBVIOUS
  <2>1. TypeInv' /\ EnvelopeInv'
    BY VaultAssumption, MarkersAssumption, NextTypeInv, NextEnvelopeInv DEF VaultInv
  <2>2. UNCHANGED <<windows, ordered>>
    BY DEF Next, vars, setup
  <2>3. ASSUME ordered PROVE WriterInv' /\ SavedInv' /\ RetiredInv'
    BY <2>3, VaultAssumption, MarkersAssumption, NextWriter, NextSaved, NextRetired
    DEF VaultInv, StorageInv
  <2>4. ASSUME ordered, ~windows PROVE InstallerInv'
    BY <2>4, VaultAssumption, MarkersAssumption, NextInstaller DEF VaultInv, StorageInv
  <2>5. QED BY <2>1, <2>2, <2>3, <2>4 DEF VaultInv, StorageInv
<1>3. QED BY <1>1, <1>2, PTL DEF Spec

\* A failed or interrupted write costs nothing, wherever it stops: the image the
\* last rename acknowledged is vault.age or the newest backup.
THEOREM AlwaysRecoverable == Spec => []Recoverable
<1>1. VaultInv => Recoverable
  BY DEF VaultInv, StorageInv, SavedInv, Recoverable
<1>2. QED BY <1>1, VaultAlways, PTL

\* A view whose dirty flag is off can be dropped: all of it is on disk, under the
\* key it was opened with.
THEOREM CleanIsSaved == Spec => []CleanMeansSaved
<1>1. VaultInv => CleanMeansSaved
  BY DEF VaultInv, StorageInv, SavedInv, CleanMeansSaved
<1>2. QED BY <1>1, VaultAlways, PTL

\* Once recover_with_charter has ended, no file the code leaves behind opens with
\* the passphrase or the charter from before.
THEOREM RetiredForGood == Spec => []RetiredStaysRetired
<1>1. VaultInv => RetiredStaysRetired
  BY DEF VaultInv, StorageInv, RetiredInv, RetiredStaysRetired
<1>2. QED BY <1>1, VaultAlways, PTL

-----------------------------------------------------------------------------
(* The refinement of VaultStore, one step of AgeVault at a time: the       *)
(* rename is the step that stores, all before it stutters.                 *)

StoreStep == Store!Next \/ UNCHANGED Store!vars

LEMMA StoreUnchanged ==
  ASSUME UNCHANGED <<file, memory>> PROVE StoreStep
BY DEF StoreStep, Store!vars, memory

\* The rename of a flush or lock saves the view, that of initialize creates, and
\* that of recover puts the same records under a new key.
LEMMA RenameStores ==
  ASSUME VaultInv, ordered, ~windows, NEW p \in Procs, Rename(p)
  PROVE  StoreStep
<1>1. file' = img[p] /\ img[p] \in Image /\ UNCHANGED memory
  BY DEF Rename, VaultInv, StorageInv, WriterInv, TypeInv
<1>2. img[p].header \in Header /\ img[p].key \in Key
      /\ img[p] = [header |-> img[p].header, key |-> img[p].key, records |-> img[p].records]
  BY <1>1 DEF Image
<1> USE DEF memory, StoreStep, Store!Next, Store!view
<1>3. CASE op[p] \in {"flush", "lock"}
  <2>1. mode = "Unlocked" /\ img[p] = Snapshot
    BY <1>3 DEF Rename, VaultInv, StorageInv, WriterInv, Busy, TypeInv, LockHeld
  <2>2. Store!Save
    BY <1>1, <2>1 DEF Store!Save, Snapshot
  <2>3. QED BY <2>2
<1>4. CASE op[p] = "initialize"
  <2>1. file = NoFile /\ img[p].records = EmptyMap
    BY <1>4 DEF Rename, VaultInv, StorageInv, InstallerInv
  <2>2. Store!Create
    BY <1>1, <1>2, <2>1 DEF Store!Create, Store!Empty, EmptyMap
  <2>3. QED BY <2>2
<1>5. CASE op[p] = "recover"
  <2>1. file \in Image /\ img[p].records = file.records /\ mode # "Unlocked"
    BY <1>5 DEF Rename, VaultInv, StorageInv, InstallerInv, WriterInv, Busy
  <2>2. Store!Rekey
    BY <1>1, <1>2, <2>1, MarkersAssumption DEF Store!Rekey, MarkersAssumption
  <2>3. QED BY <2>2
<1>6. QED BY <1>3, <1>4, <1>5 DEF VaultInv, TypeInv, TypeOK, Ops

LEMMA StepStores ==
  ASSUME VaultInv, ordered, ~windows, [Next]_vars
  PROVE  StoreStep
<1>0. file \in Image \cup {NoFile} /\ file = committed /\ Survivor = committed
  BY DEF VaultInv, StorageInv, SavedInv, TypeInv, TypeOK
<1> USE DEF memory, disk, history
<1>1. ASSUME NEW pw \in Passwords, Unlock(pw) PROVE StoreStep
  <2>1. header = file.header /\ Snapshot' = file
    BY <1>1, UnlockHeader DEF VaultInv
  <2>2. key' = file.key /\ file # NoFile
    BY <1>1, MarkersAssumption DEF Unlock, MarkersAssumption
  <2>3. Store!Unlock
    BY <1>1, <2>1, <2>2 DEF Unlock, Store!Unlock
  <2>4. QED BY <2>3 DEF StoreStep, Store!Next
<1>2. ASSUME NEW q \in Paths, NEW v \in Values, PutSecret(q, v) PROVE StoreStep
  <2>1. Store!Edit
    BY <1>2 DEF PutSecret, Store!Edit
  <2>2. QED BY <2>1 DEF StoreStep, Store!Next
<1>3. ASSUME NEW q \in Paths, DeleteSecret(q) PROVE StoreStep
  <2>1. Store!Edit
    BY <1>3 DEF DeleteSecret, Store!Edit
  <2>2. QED BY <2>1 DEF StoreStep, Store!Next
<1>4. CASE LockClean
  <2>1. file = Snapshot
    BY <1>0, <1>4 DEF LockClean, VaultInv, StorageInv, SavedInv
  <2>2. dirty' = FALSE
    BY <1>4 DEF LockClean, VaultInv, TypeInv, TypeOK
  <2>3. Store!Lock
    BY <1>4, <2>1, <2>2 DEF LockClean, Store!Lock, Store!Saved, Store!Empty, EmptyMap,
       Snapshot
  <2>4. QED BY <2>3 DEF StoreStep, Store!Next
<1>5. ASSUME NEW p \in Procs, Rename(p) PROVE StoreStep
  BY <1>5, RenameStores
<1>6. ASSUME NEW p \in Procs, FinishFlush(p) \/ FinishLock(p) PROVE StoreStep
  <2>1. file = Snapshot /\ mode = "Unlocked"
    BY <1>6 DEF FinishFlush, FinishLock, VaultInv, StorageInv, WriterInv, Busy, TypeInv,
       LockHeld
  <2>2. FinishFlush(p) => Store!MarkSaved
    BY <2>1 DEF FinishFlush, Store!MarkSaved, Store!Saved, Snapshot
  <2>3. FinishLock(p) => Store!Lock
    BY <2>1 DEF FinishLock, Store!Lock, Store!Saved, Store!Empty, EmptyMap, Snapshot
  <2>4. QED BY <1>6, <2>2, <2>3 DEF StoreStep, Store!Next
<1>7. ASSUME NEW p \in Procs, Install(p) PROVE StoreStep
  <2>1. file = img[p] /\ file # NoFile
    BY <1>7, MarkersAssumption
    DEF Install, VaultInv, StorageInv, WriterInv, Busy, TypeInv, MarkersAssumption
  <2>2. Store!Reopen
    BY <1>7, <2>1 DEF Install, Store!Reopen, Store!Closed, Store!Empty, EmptyMap
  <2>3. QED BY <2>2 DEF StoreStep, Store!Next
<1>8. CASE Restart
  <2>1. /\ mode' = IF file = NoFile THEN "NotInitialized" ELSE "Locked"
        /\ header' = IF file = NoFile THEN NoHeader ELSE file.header
    BY <1>0, <1>8, MarkersAssumption DEF Restart, OpenMode, OpenHeader, MarkersAssumption
  <2>2. Store!Reopen
    BY <1>8, <2>1 DEF Restart, Store!Reopen, Store!Closed, Store!Empty, EmptyMap
  <2>3. QED BY <2>2 DEF StoreStep, Store!Next
<1>9. ASSUME NEW p \in Procs, Flush(p) \/ LockDirty(p) PROVE StoreStep
  BY <1>9, StoreUnchanged DEF Flush, LockDirty, StartWrite
<1>10. ASSUME NEW p \in Procs, NEW pw \in Passwords, NEW c \in BOOLEAN,
              Initialize(p, pw, c) \/ Recover(p, pw, c)
       PROVE  StoreStep
  BY <1>10, StoreUnchanged DEF Initialize, Recover, StartWrite
<1>11. ASSUME NEW p \in Procs,
              \/ CreateBackup(p) \/ OpenTmp(p) \/ FillTmp(p) \/ RemoveOld(p)
              \/ FinishInstaller(p) \/ RenameMissing(p) \/ WriteFails(p)
       PROVE  StoreStep
  BY <1>11, StoreUnchanged
  DEF CreateBackup, OpenTmp, FillTmp, RemoveOld, FinishInstaller, RenameMissing, WriteFails,
      Abandon, VaultInv, StorageInv, WriterInv
<1>12. CASE UNCHANGED vars
  BY <1>12, StoreUnchanged DEF vars
<1>13. QED
  BY <1>1, <1>2, <1>3, <1>4, <1>5, <1>6, <1>7, <1>8, <1>9, <1>10, <1>11, <1>12 DEF Next, Step

\* Where the rename replaces the file in one step and the lock screen orders
\* initialize and recover, tmp file, backups, failures and restarts cannot be told
\* from a store that replaces one image as a whole.
THEOREM Refinement == Spec => ImplementsStore
<1>1. Init => Store!Init
  BY MarkersAssumption
  DEF Init, Store!Init, Store!Closed, Store!Empty, EmptyMap, OpenMode, OpenHeader, MarkersAssumption
<1>2. VaultInv /\ [Next]_vars => [~windows /\ ordered => Store!Next]_(Store!vars)
  BY StepStores DEF StoreStep
<1>3. QED BY <1>1, <1>2, VaultAlways, PTL DEF Spec, ImplementsStore
\* lock drops the view only when what it holds is on disk, with either kind of
\* rename and whatever failed before.
THEOREM LocksKeepEdits == Spec => LockKeepsEdits
<1>1. ASSUME VaultInv, [Next]_vars, ordered, mode = "Unlocked", mode' # "Unlocked", ~Restart
      PROVE  Survivor'.records = records
  <2>1. LockClean \/ \E p \in Procs : FinishLock(p) \/ Install(p)
    BY <1>1
    DEF Next, Step, vars, memory, Unlock, PutSecret, DeleteSecret, Flush, LockDirty, StartWrite,
        Initialize, Recover, CreateBackup, OpenTmp, FillTmp, RemoveOld, Rename, FinishFlush,
        FinishInstaller, RenameMissing, WriteFails, Abandon
  <2>2. CASE LockClean
    <3>1. Survivor = Snapshot /\ Survivor' = Survivor
      BY <1>1, <2>2, SurvivorKept
      DEF LockClean, disk, VaultInv, TypeInv, TypeOK, StorageInv, SavedInv
    <3>2. QED BY <3>1 DEF Snapshot
  <2>3. ASSUME NEW p \in Procs, Install(p) PROVE FALSE
    BY <1>1, <2>3, VaultAssumption
    DEF Install, VaultInv, StorageInv, WriterInv, Busy, TypeInv, TypeOK, LockHeld, Ops,
        VaultAssumption
  <2>4. ASSUME NEW p \in Procs, FinishLock(p) PROVE Survivor'.records = records
    <3>1. file = Snapshot /\ file' = file /\ file # NoFile
      BY <1>1, <2>4, MarkersAssumption
      DEF FinishLock, VaultInv, StorageInv, WriterInv, Busy, TypeInv, MarkersAssumption
    <3>2. QED BY <3>1 DEF Survivor, Snapshot
  <2>5. QED BY <2>1, <2>2, <2>3, <2>4
<1>2. VaultInv /\ [Next]_vars
        => [ordered /\ mode = "Unlocked" /\ mode' # "Unlocked" /\ ~Restart
              => Survivor'.records = records]_vars
  BY <1>1
<1>3. QED BY <1>2, VaultAlways, PTL DEF Spec, LockKeepsEdits
=============================================================================
