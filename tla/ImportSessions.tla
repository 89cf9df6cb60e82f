--------------------------- MODULE ImportSessions ---------------------------
(***************************************************************************)
(* Importing a CSV file of passwords (commands/import.rs) or scanned .env  *)
(* files (commands/scanner.rs).  prepare keeps the parsed values in a      *)
(* one-shot session of five minutes (import/mod.rs: ImportSessionStore,    *)
(* EnvScanSessionStore); commit takes the session, holds the vault write   *)
(* lock over all rows, inserts each credential row, puts its value, and    *)
(* flushes once.  Beside it the vault is locked and unlocked, credentials  *)
(* and projects are deleted, and the process ends.                         *)
(***************************************************************************)
EXTENDS Naturals

CONSTANTS
  Commits,            \* commits that may run at the same time
  Scans, Csvs,        \* sessions of either kind; each id is drawn once
  Entries,            \* indices of the entries of a session
  Nobody,             \* nobody holds the vault write lock
  Ttl,                \* DEFAULT_SESSION_TTL, in ticks
  MaxImportFaults,    \* bound: failing statements and flushes
  MaxEdits,           \* bound: deletions, locks and unlocks by the user
  MaxImportRestarts  \* bound: process ends

Sessions == Scans \cup Csvs

ASSUME ImportAssumption ==
  /\ Scans \cap Csvs = {} /\ Sessions # {} /\ Entries # {} /\ Nobody \notin Commits
  /\ Ttl \in Nat \ {0}
  /\ MaxImportFaults \in Nat /\ MaxEdits \in Nat /\ MaxImportRestarts \in Nat

\* A credential id is fresh: it tells which commit made it, from what.
Ids == [session : Sessions, entry : Entries, by : Commits]

VARIABLES
  held, age, drawn,                \* sessions in memory, their ages, ids given so far
  imported, usages,                \* credentials; those linked to the project of their scan
  projects,                        \* projects, by the scan that made them
  vaultOpen, vaultMem, vaultFile,  \* the vault: unlocked, values in memory, in the file
  lock,                            \* holder of the vault write lock
  job,                             \* per task: the commit
  importFaults, edits, importRestarts,
  reported,                        \* history: credentials that a commit reported as imported
  deleted,                         \* history: credentials deleted by the user
  blamed                           \* history: a failed rollback or flush, or a process end in
                                   \* the middle of a commit, may have left rows without a value

store == <<held, age, drawn>>
tables == <<imported, usages, projects>>
vaultState == <<vaultOpen, vaultMem, vaultFile>>
importCounters == <<importFaults, edits, importRestarts>>
importHistory == <<reported, deleted, blamed>>
importVars == <<store, tables, vaultState, lock, job, importCounters, importHistory>>

JobSteps == {"idle", "issuers", "project", "lock", "row", "put", "usage", "flush"}
Job == [step : JobSteps,
        session : Sessions, todo : SUBSET Entries, done : SUBSET Entries, entry : Entries]
Idle == CHOOSE j \in Job : j.step = "idle" /\ j.todo = {} /\ j.done = {}

ImportTypeOK ==
  /\ held \subseteq drawn /\ drawn \subseteq Sessions /\ age \in [Sessions -> 0..Ttl]
  /\ imported \subseteq Ids /\ usages \subseteq imported /\ projects \subseteq Scans
  /\ \A u \in usages : u.session \in projects
  /\ vaultOpen \in BOOLEAN /\ vaultMem \subseteq Ids /\ vaultFile \subseteq Ids
  /\ ~vaultOpen => vaultMem = {}
  /\ lock \in Commits \cup {Nobody} /\ job \in [Commits -> Job]
  /\ \A t \in Commits : lock = t <=> job[t].step \in {"row", "put", "usage", "flush"}
  /\ importFaults \in 0..MaxImportFaults /\ edits \in 0..MaxEdits
  /\ importRestarts \in 0..MaxImportRestarts
  /\ reported \subseteq Ids /\ deleted \subseteq Ids /\ blamed \in BOOLEAN

ImportInit ==
  /\ held = {} /\ age = [s \in Sessions |-> 0] /\ drawn = {}
  /\ imported = {} /\ usages = {} /\ projects = {}
  /\ vaultOpen = TRUE /\ vaultMem = {} /\ vaultFile = {}
  /\ lock = Nobody /\ job = [t \in Commits |-> Idle]
  /\ importFaults = 0 /\ edits = 0 /\ importRestarts = 0
  /\ reported = {} /\ deleted = {} /\ blamed = FALSE

At(t, step)   == job[t].step = step
Set(t, j)     == job' = [job EXCEPT ![t] = j]
JobGoto(t, step) == Set(t, [job[t] EXCEPT !.step = step])
ImportFault ==
  /\ importFaults < MaxImportFaults /\ importFaults' = importFaults + 1
  /\ UNCHANGED <<edits, importRestarts>>
Edit == edits < MaxEdits /\ edits' = edits + 1 /\ UNCHANGED <<importFaults, importRestarts>>
IdOf(t) == [session |-> job[t].session, entry |-> job[t].entry, by |-> t]

-----------------------------------------------------------------------------
(* The session store: a short critical section for each operation.         *)

Expired(s) == age[s] = Ttl

\* sweep_expired_locked.
Swept == {s \in held : ~Expired(s)}

\* do_import_csv_prepare, do_env_scan_prepare: parse, then insert.
Prepare(s) ==
  /\ s \notin drawn /\ drawn' = drawn \cup {s}
  /\ held' = Swept \cup {s}
  /\ UNCHANGED <<age, tables, vaultState, lock, job, importCounters, importHistory>>

\* Time goes by for every session, held or not.
Tick ==
  /\ \E s \in held : ~Expired(s)
  /\ age' = [s \in Sessions |-> IF s \in held /\ ~Expired(s) THEN age[s] + 1 ELSE age[s]]
  /\ UNCHANGED <<held, drawn, tables, vaultState, lock, job, importCounters, importHistory>>

TakeKeeping(s) == held' = Swept

Take(s) == held' = Swept \ {s}

-----------------------------------------------------------------------------
(* do_import_csv_commit and do_env_scan_commit.                            *)

\* One index out of bounds ends the commit, which has consumed the session.
\* (The dialogs send a set of indices, none of them twice.)
Commit(t, s, selected, outside) ==
  /\ At(t, "idle") /\ s \in drawn /\ Take(s)
  /\ IF s \in Swept /\ ~outside
       THEN Set(t, [Idle EXCEPT !.step = "issuers", !.session = s, !.todo = selected])
       ELSE UNCHANGED job
  /\ UNCHANGED <<age, drawn, tables, vaultState, lock, importCounters, importHistory>>

\* list and get_or_create_by_slug.
Issuers(t) ==
  /\ At(t, "issuers")
  /\ \/ /\ JobGoto(t, IF job[t].session \in Scans /\ job[t].todo # {} THEN "project" ELSE "lock")
        /\ UNCHANGED importCounters
     \/ ImportFault /\ Set(t, Idle)
  /\ UNCHANGED <<store, tables, vaultState, lock, importHistory>>

InsertProject(t) ==
  /\ At(t, "project")
  /\ \/ projects' = projects \cup {job[t].session} /\ JobGoto(t, "lock") /\ UNCHANGED importCounters
     \/ ImportFault /\ Set(t, Idle) /\ UNCHANGED projects
  /\ UNCHANGED <<store, imported, usages, vaultState, lock, importHistory>>

\* ctx.vault.write(), once for all rows.
Acquire(t) ==
  /\ At(t, "lock") /\ lock = Nobody /\ lock' = t
  /\ JobGoto(t, IF job[t].todo = {} THEN "flush" ELSE "row")
  /\ UNCHANGED <<store, tables, vaultState, importCounters, importHistory>>

Rest(t) == job[t].todo \ {job[t].entry}

\* The entry is through, well or not; the next one, or the flush.
Through(t, done) ==
  Set(t, [job[t] EXCEPT !.todo = Rest(t), !.done = done,
                        !.step = IF Rest(t) = {} THEN "flush" ELSE "row"])

\* insert_with_id.
InsertImport(t) ==
  /\ At(t, "row")
  /\ \E e \in job[t].todo :
       \/ /\ imported' = imported \cup {[session |-> job[t].session, entry |-> e, by |-> t]}
          /\ Set(t, [job[t] EXCEPT !.entry = e, !.step = "put"])
          /\ UNCHANGED importCounters
       \/ /\ ImportFault /\ UNCHANGED imported
          /\ Set(t, [job[t] EXCEPT !.todo = @ \ {e},
                                   !.step = IF job[t].todo = {e} THEN "flush" ELSE "row"])
  /\ UNCHANGED <<store, usages, projects, vaultState, lock, importHistory>>

PutImportKeepingRow(t) ==
  /\ At(t, "put")
  /\ IF vaultOpen
       THEN /\ vaultMem' = vaultMem \cup {IdOf(t)}
            /\ IF job[t].session \in Scans THEN JobGoto(t, "usage")
                                           ELSE Through(t, job[t].done \cup {job[t].entry})
       ELSE Through(t, job[t].done) /\ UNCHANGED vaultMem
  /\ UNCHANGED <<store, tables, vaultOpen, vaultFile, lock, importCounters, importHistory>>

\* put_secret fails on a locked vault; the row is deleted again, if it can be.
Put(t) ==
  /\ At(t, "put")
  /\ IF vaultOpen
       THEN /\ vaultMem' = vaultMem \cup {IdOf(t)}
            /\ IF job[t].session \in Scans THEN JobGoto(t, "usage")
                                           ELSE Through(t, job[t].done \cup {job[t].entry})
            /\ UNCHANGED <<imported, importCounters, blamed>>
       ELSE /\ Through(t, job[t].done) /\ UNCHANGED vaultMem
            /\ \/ imported' = imported \ {IdOf(t)} /\ UNCHANGED <<importCounters, blamed>>
               \/ ImportFault /\ blamed' = TRUE /\ UNCHANGED imported
  /\ UNCHANGED <<store, usages, projects, vaultOpen, vaultFile, lock, reported, deleted>>

InsertUsageUnchecked(t) ==
  /\ At(t, "usage") /\ Through(t, job[t].done \cup {job[t].entry})
  /\ usages' = usages \cup {IdOf(t)} /\ UNCHANGED importCounters
  /\ UNCHANGED <<store, imported, projects, vaultState, lock, importHistory>>

\* usage_repo.insert: a failure, because the project is gone or otherwise, is
\* logged only.
InsertUsage(t) ==
  /\ At(t, "usage") /\ Through(t, job[t].done \cup {job[t].entry})
  /\ \/ /\ usages' = IF job[t].session \in projects THEN usages \cup {IdOf(t)} ELSE usages
        /\ UNCHANGED importCounters
     \/ ImportFault /\ UNCHANGED usages
  /\ UNCHANGED <<store, imported, projects, vaultState, lock, importHistory>>

FlushLater(t) ==
  /\ At(t, "flush") /\ lock' = Nobody /\ Set(t, Idle)
  /\ reported' = reported \cup {[session |-> job[t].session, entry |-> e, by |-> t] :
                                e \in job[t].done}
  /\ UNCHANGED <<store, tables, vaultState, importCounters, deleted, blamed>>

\* One flush after the rows, which an error of it does not change; then the
\* lock is dropped and the answer counts the rows.
FlushImports(t) ==
  /\ At(t, "flush") /\ lock' = Nobody /\ Set(t, Idle)
  /\ reported' = reported \cup {[session |-> job[t].session, entry |-> e, by |-> t] :
                                e \in job[t].done}
  /\ \/ /\ vaultFile' = (IF vaultOpen THEN vaultMem ELSE vaultFile)
        /\ UNCHANGED <<importCounters, blamed>>
     \/ vaultOpen /\ ImportFault /\ blamed' = TRUE /\ UNCHANGED vaultFile
  /\ UNCHANGED <<store, tables, vaultOpen, vaultMem, deleted>>

-----------------------------------------------------------------------------
(* What goes on beside.                                                    *)

\* vault_lock flushes; if that fails the vault stays open (module AgeVault).
LockVault ==
  /\ lock = Nobody /\ vaultOpen /\ Edit
  /\ vaultOpen' = FALSE /\ vaultFile' = vaultMem /\ vaultMem' = {}
  /\ UNCHANGED <<store, tables, lock, job, importHistory>>

UnlockVault ==
  /\ lock = Nobody /\ ~vaultOpen /\ Edit
  /\ vaultOpen' = TRUE /\ vaultMem' = vaultFile
  /\ UNCHANGED <<store, tables, vaultFile, lock, job, importHistory>>

\* credential_delete takes the value under the vault lock, then the row
\* (module CredentialStore); usages go with the row.
DeleteCredential(c) ==
  /\ lock = Nobody /\ vaultOpen /\ c \in imported \cap vaultMem /\ Edit
  /\ vaultMem' = vaultMem \ {c} /\ imported' = imported \ {c} /\ usages' = usages \ {c}
  /\ deleted' = deleted \cup {c}
  /\ UNCHANGED <<store, projects, vaultOpen, vaultFile, lock, job, reported, blamed>>

DeleteProject(s) ==
  /\ s \in projects /\ Edit
  /\ projects' = projects \ {s} /\ usages' = {u \in usages : u.session # s}
  /\ UNCHANGED <<store, imported, vaultState, lock, job, importHistory>>

\* The process ends and starts again: sessions were in memory only.
ImportRestart ==
  /\ importRestarts < MaxImportRestarts /\ importRestarts' = importRestarts + 1
  /\ held' = {} /\ vaultOpen' = FALSE /\ vaultMem' = {} /\ lock' = Nobody
  /\ job' = [t \in Commits |-> Idle]
  /\ blamed' = (blamed \/ lock # Nobody)
  /\ UNCHANGED <<age, drawn, tables, vaultFile, importFaults, edits, reported, deleted>>

ImportNext ==
  \/ \E s \in Sessions : Prepare(s)
  \/ Tick
  \/ \E t \in Commits :
       \/ \E s \in Sessions, selected \in SUBSET Entries, outside \in BOOLEAN :
            Commit(t, s, selected, outside)
       \/ Issuers(t) \/ InsertProject(t) \/ Acquire(t)
       \/ InsertImport(t) \/ Put(t) \/ InsertUsage(t) \/ FlushImports(t)
  \/ LockVault \/ UnlockVault
  \/ \E c \in Ids : DeleteCredential(c)
  \/ \E s \in Scans : DeleteProject(s)
  \/ ImportRestart

ImportSpec == ImportInit /\ [][ImportNext]_importVars

-----------------------------------------------------------------------------
(* Properties.                                                             *)

\* However often and by whatever tasks a session is committed, each of its
\* entries becomes one credential at most.
ImportedOnce ==
  \A c, d \in imported : c.session = d.session /\ c.entry = d.entry => c = d

\* No commit in progress: every imported row has its value, also when the vault
\* was locked under the commit, unless a rollback, a flush or the process failed.
ImportsHaveValues ==
  lock = Nobody /\ ~blamed => imported \subseteq (IF vaultOpen THEN vaultMem ELSE vaultFile)

\* What a commit has reported as imported is in the file: it outlives whatever
\* comes later, a process end too, unless it is deleted or a flush failed.
ReportedIsSaved ==
  ~blamed => reported \ deleted \subseteq imported \cap vaultFile
=============================================================================
