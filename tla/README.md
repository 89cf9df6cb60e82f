# Verification of Secretbank

TLA+ models, TLC runs and TLAPS proofs about the desktop core of Secretbank
(`src-tauri/crates/secretbank-*`), a secrets manager built with Tauri: an
encrypted vault file beside a SQLite database, an account session with a relay
server, a browser extension, a command line tool and an MCP server on the same
files, and several devices that pair. Paths below leave
out `src/src-tauri/crates/`; `app` is `secretbank-app/src`, `storage` is
`secretbank-storage/src`.

- [The system](#the-system)
- [Modules](#modules)
- [Runs](#runs)
- [Proofs](#proofs)
- [Where the code and its documentation disagree](#where-the-code-and-its-documentation-disagree)
- [Not modelled](#not-modelled)
- [Plan](#plan)

## The system

One process serves the main window, the browser extension (through a local
bridge) and background tasks. Every command is an `async fn` on a thread pool,
so **commands interleave at each `.await`**. `AppContext` (`app/context.rs`)
holds the shared state, each field under a lock of its own: the vault
(`RwLock`), the SQLite pool, `auth_session`, `master_passphrase`,
`device_identity`, the audit recorder, the two stores of kill-switch tokens and
the extension bridge. The desktop runs once (single-instance plugin,
`app/lib.rs:98`), but the command line tool and the MCP server open the same two
files as processes of their own. On exit only the feed scheduler is shut down
(`app/lib.rs:444-455`): the vault is neither flushed nor locked.

Two stores persist, with different rules: **a SQLite statement is durable when
it returns; a vault record is durable after a flush**, which only some commands
do. A command that touches both can stop in between.

| Component | State | Operations | What makes it correct |
|---|---|---|---|
| Age vault (`storage/age_vault`) | `vault.age`, `.tmp`, five backups; mode, header, key, records, dirty | initialize, unlock, put, delete, flush, lock, recover with charter | an interrupted write costs nothing; an undirty vault is saved; a lock drops no edit; key and charter in the file belong together |
| AppContext installation (`app/context.rs`) | the storage object behind the lock | initialize, recover: work on an object of their own, then install it | a recovery retires the old passphrase for good |
| Audit log (`app/audit_ctx.rs`, `secretbank-audit`) | `audit_log` rows, `record_lock` | record, verify | one unbroken chain per device |
| Device identity (`app/services/device_identity.rs`) | device rows, key pair in the vault, identity in memory | ensure at unlock, clear at lock | a device keeps its keys |
| Unlock, lock, session (`app/commands/vault.rs`, `auth.rs`, `app/services/session.rs`) | `auth_session`, passphrase, identity, bridge; session records in the vault | unlock, lock, sign in, refresh, sign out | a locked application holds no secret; a sign-out is final; cache and vault agree |
| Credentials (`app/commands/credentials.rs`) | row with hint and references, primary and secondary vault record | create, delete, rotate | row and values come and go together |
| Kill switch (`app/commands/kill_switch.rs`) | one-time confirmation tokens, status of rows | request, revoke one, revoke an issuer's | nothing revoked without its confirmation; a value erased with it stays erased |
| Extension bridge (`app/services/nm_bridge.rs`, `app/commands/ext_pairing.rs`, `extension_session.rs`) | connections, pairing keys, session secrets, tokens, the lifetime setting, the context queue | approve, revoke, issue, rotate all, push a context | a settings change ends every older session; no session ends otherwise; a context in the queue stays until later ones displace it |
| Incident feeds (`app/services/feed_scheduler.rs`, `secretbank-feeds`) | a poller with a breaker per source; incidents and matches | tick, fetch, insert, match, announce, refresh, dismiss, shut down | what is published is stored and matched in the end; a dismissal is final; the exit ends |
| Security checks (`app/commands/security_check.rs`) | alerts per credential | check, dismiss, undismiss | the alerts are what there is to find, of one check each |
| Graph and blast radius (`app/commands/graph.rs`, `secretbank-core`) | issuer, credential, usage, project and deployment rows | edit; build from five SELECTs | no invented edge, no dependency left out |
| Import (`app/commands/import.rs`, `scanner.rs`) | one-shot sessions of parsed values | prepare, commit | each entry once; what is reported is saved |
| Pairing (`app/services/pairing.rs`, relay `pair.ts`, two React hooks) | a pairing per device, one JSON record per channel in a KV store | start, join, poll, finalize, apply, cancel | one joiner per pairing; a session only in one's own vault; undisturbed pairings complete |
| Tool and MCP server (`secretbank-cli`, `secretbank-mcp`), clipboard | records read at start, reveal history; the clipboard and its timer | add, run, copy, reveal | what is reported is in the file; a killed value reaches no child; a quota; somebody is to clear every copied secret |
| Vault charter (`secretbank-charter`, `app/commands/vault.rs`) | the envelope in `vault.age`; papers the user keeps | issue, print, type in, recover | what was issued opens what it was issued for |
| Charter cooldown (`app/services/charter_cooldown.rs`) | a sidecar file | set at recovery, toggled and cleared, checked at unlock | a cooldown once set is seen |
| Settings in the vault (`app/commands/vault_settings.rs`, `github.rs`) | feed keys, installations; the running scheduler behind a mutex | set a key and restart the scheduler, save and remove an installation, refresh | the scheduler has the stored key; what is reported is saved; every command ends |
| Relay sign-in (`secretbank-relay/src/routes/auth`, `features/auth`) | tables user, passkey, oauth_account; a KV cache of challenges | passkey register and assert, OAuth start and callback | one user and one set of salts for each address and account; no half-done sign-in locks anybody out |
| Sync: client and relay | CRDT snapshot row with a version, per-value versions | push, poll, pull | no update lost, versions only grow |

How they interact: unlock opens the vault, then takes the vault lock again for
the device keys and a third time for the stored session; sign-in and refresh
write the session through the vault; rotation and the kill switch write a row
and a vault record under separate locks; every command that changes something
calls `record`, which needs the identity that unlock published and lock clears.

What is hard to test here, line by line, is in the `hazards` of `PROJECT.json`.
The main ones: a lock arriving between two awaits of a command; two writers of
one `vault.age.tmp`; a failure or a process end between the row and the record
of a credential; a flush that fails after memory has changed.

## Modules

The modules meet in the vault and in the credential rows, which each models to the
depth it needs: `AgeVault` down to system calls, the others as "records in memory,
records in the file", justified by `VaultStore`. `VaultProcesses` composes the
desktop, the tool and the server on both stores; `VaultSettings` composes recovery,
cooldown, unlock and lock with the settings and the scheduler that an unlock starts.

| Module | Models |
|---|---|
| `VaultStore` | abstract: one stored image, replaced as a whole, and a view of it in memory |
| `AgeVault` | `age_vault/mod.rs`, `age_vault/file.rs`, and initialize / recover / installation in `context.rs` |
| `AuditLog` | `audit_ctx.rs`, `device_identity.rs`, `audit_verify_chain` |
| `VaultSession` | what `vault_unlock` and `vault_lock` put into memory and take out, and the relay session |
| `RelaySignIn` | the relay's side of a sign-in by passkey or account, and the page that runs it |
| `CredentialStore` | create, delete, rotate, both revokes, beside the extension's writes and the relay pull |
| `ExtensionBridge` | extension pairing, session secrets and tokens, the settings change, requests of the bridge, the context queue |
| `IncidentFeeds` | the pollers and their breakers, the manual refresh, incidents and matches, shutdown |
| `DependencyGraph` | the tables behind the graph with their cascades, and every reader that builds it |
| `ImportSessions` | the one-shot sessions of CSV and env import and their commits |
| `SecurityChecks` | `security_check_run` and the alerts it replaces |
| `DevicePairing` | both devices, both hooks, and the relay's channel |
| `VaultProcesses` | desktop, command line tool and MCP server on one vault; the clipboard |
| `CharterRecovery` | the charter on paper, initialize and recovery, the cooldown's sidecar, the first half of `vault_unlock` |
| `VaultSettings` | extends it: feed keys and installations in the vault, the scheduler they restart, the rest of `vault_unlock` |
| `MC*` | constants and symmetry for TLC |
| `AgeVaultProofs`, `VaultProcessesProofs`, `VaultSettingsProofs` | theorems about the module they are named after; the last also about `CharterRecovery` |
| `SignInProofs` | theorems about `VaultSession` and `RelaySignIn` |
| `TableProofs` | theorems about `AuditLog` and `DependencyGraph` |
| `CredentialProofs` | theorems about `CredentialStore` and `ImportSessions` |
| `AlertProofs` | theorems about `IncidentFeeds` and `SecurityChecks` |
| `PairingProofs` | theorems about `ExtensionBridge` and `DevicePairing` |

Conventions. `pc[t]` is the next await of the command task `t` runs; one action
is the code from one await to the next, or, in `AgeVault`, one system call that
changes the directory. A failing statement, flush or request is an alternative
of the action where the code calls it, counted by a named bound. Variables
called history in a comment are read by properties only. Where an
instance must cover several settings (platform, order, bounds), they are chosen in
Init and never change, so that one run checks them all: `windows` and `ordered` in
`AgeVault`, `serial` in `VaultSession` and `ExtensionBridge`, `alone` in
`CredentialStore`, `setup` in `IncidentFeeds` and `CharterRecovery`, `pairSetup` in
`DevicePairing`, `turns` in `VaultProcesses`. Where one module proves theorems about two
components their names are kept apart: the specification of `SecurityChecks` is
`ChecksSpec`, that of `ImportSessions` `ImportSpec`, of `DevicePairing` `PairingSpec`, of
`DependencyGraph` `GraphSpec`, with their Init, Next and type invariant named likewise. An operator next to an
action with a name like `LockKeepsRecords` is a variant of that action with a
plausible bug, used to show that a property notices.

### AgeVault and VaultStore

`flush` and `lock` hold the vault write lock (`owner`) for the whole of
`write_vault_file`. `initialize_with_charter` and `recover_with_charter` open a
storage object of their own and take the lock only to install it (`Install`), so
they write the same `.tmp` as a flush. Open handles are followed across renames
and unlinks (`fd`): a task that goes on filling `.tmp` after another has renamed
it away writes into `vault.age`.

- A key is the pair of password and generation of `salt_enc`: same password and
  same salt give the same key, fresh salts never repeat.
- A torn file is taken at its worst: it does not open.
- A crash is a process end. Loss of power, and directories that were not
  synced, are not modelled.
- `windows` selects `remove_file` before `rename` (`file.rs`, `#[cfg(windows)]`).
- `ordered` states an order the backend does not enforce and the interface
  provides: initialize and recover are offered by the lock screen only
  (`RecoveryDialog`, hosted by `LockScreen`), while no other command runs.

### AuditLog

`record` holds `record_lock` from `StartRecord` to `Insert`, `ensure_device_keys`
holds the vault lock from `FindKeys` to `StoreKeys`. The index of an entry in
`log` stands for its hash and the number of a device row for the key pair drawn
with it. Both halves of the pair are put under one vault lock, so the code that
wipes half a pair is unreachable and left out. `VerifyChain` reads the rows in the
order of `list_for_verify`.

### VaultSession

`serial` is an order that a patient user keeps: no lock while a session command is
under way, and one session command at a time. The code enforces neither (the idle
timer and the command palette call `vault_lock` at any time), so `SecretsDropped`
and its proof do without it; the other invariants have it in their premise and say
what holds when it is kept. Unlock is offered by the lock screen, session commands
and lock by the main view (`App.tsx`, `AutoLockGuard`); that order is in the guards
`InMainView` and `OpenVault`.

### RelaySignIn

The handlers run in a Worker without transactions; each SQL statement and each
operation of the KV cache is a step, and those of other desktops come between. A try
has a number that also stands for its challenge or state, the passkey it makes and the
user it creates. An authenticator keeps one passkey of a user (WebAuthn replaces the
older) and refuses to make one when it has one the relay lists; `synced` is one that
all desktops share. `Cut` ends a try at any step, whatever the handler has done by
then; an expired challenge is an absent one, and KV operations are atomic and seen at
once, which Cloudflare promises within one location only. `MCVaultSession` composes it
with `VaultSession`: the two share no variable, and each has its own behaviours.

### CredentialStore

A value stands for its own last four characters, which is what `hash_hint` keeps.
All credentials have one issuer, so the bulk revoke covers all. An expired token is
an absent one. `Pairs` adds credentials with a secondary value, `Beside` the
writers beside the main window: the bridge, whose create stores no hint and whose
update overwrites a value without flush, and the relay pull, whose command is
registered although no shipped view calls it yet. `alone` is one command at a time
of the main window on credentials of one value, with restarts. `credential_update`
has no caller in the shipped interface and is left out.

### ExtensionBridge

Key n is the n-th random 32 bytes; a token is the secret that signed it and the
lifetime that was set. Reading a secret, creating it and rotating it are steps of
their own, as the code takes the vault lock for each. Requests that the bridge
accepted before a lock go on after it (`nm_bridge.rs:131`). An expired token is one
the extension no longer sends. As in the code, the bridge knows one id and a fixed
lifetime (`MayEnter`), and revoking leaves the secret (`Revoke`).

A push checks the consent, reads the queue and writes it back in three steps
(`CheckOptIn`, `ReadQueue`, `PushContext`). Either statement on the queue may fail and
nobody learns of it: a failed read is taken for an empty queue, a failed write is
answered ok (`nm_bridge.rs:1259-1276`). `pushed` remembers of each context what its
request had read and whether it was written. `QueueHasLatest` says that the queue is
in order and loses no written context but to enough later ones, or to a request that
wrote back what it had read too early or failed to read; it has no premise on the
order of requests.

### IncidentFeeds

One loop stands for the four pollers; they differ in their client (`FetchRss`,
`FetchWindow`, `FetchHibp`), in the window NVD and GHSA ask for, and in who emits.
The default configuration spawns the RSS and HIBP pollers only
(`app/lib.rs:138-146`), the setups of the run contain both and NVD. `Skips` is the
number of ticks in the cooldown of an hour: two for RSS, none for feeds whose
interval is longer. `Entry` is what a feed says of an incident (whose it is, the
domain it names, the issuers its words mention, its severity); `Incident` is what the
normalisers keep of it and `Reason` the strongest of the matcher's three rules. The
run leaves out the reason `domain`, which the table refuses (see `FeedsRefuted`
below). The readers are the list (`IncidentList`), the panel of a credential
(`ForCredential`) and the banner of the extension (`Banner`); issuers do not change.

### DependencyGraph

The tables with the foreign keys of migration 0001; a reader takes its five lists
one after the other with edits between them. A reader asks for a window of the
application (graph, panel of a credential, radius, radius of a host), for the
extension over the bridge, or for the command line tool; `by` says which, since they
fail differently: the bridge takes a failing SELECT of the host's radius for an empty
list. Only the window labels every node and reads the tables a second time for the
labels (`Relist`). Updates of names and urls are left out: they change no edge.

### ImportSessions

A credential id is the session, the entry and the task that made it, so a double
import would show as two ids. The commit holds the vault write lock from `Acquire`
to `FlushImports`; the lock command waits for it, and a vault that was locked before makes
each `Put` fail and its row roll back.

### SecurityChecks

Values are told apart only by being weak or leaked, credentials by an insecure url
or a site with TOTP. `quiet` remembers whether the last check ran undisturbed; the
property about its exactness speaks of those only. A check that ends half way is
the failing alternative of `Replace`.

### DevicePairing

A handler of the relay reads the channel in one step and writes the whole record
back in another (`Draw`/`Open`, `Upload`/`FlowStore`, `Claim`/`Claimed`). The hooks'
timers are the steps of `flow`; a poll that finds nothing new leaves the state and
is therefore a disabled `PollJoiner` or `PollInitiator`. A payload opens only with
both key pairs and the PIN it was sealed for (`Opens`). Passphrases are told apart by
whose they are. `clashed` marks two applies on one device that both found no vault.

A run of a hook knows whether its hook goes on (`hook`). The initiator's dialog starts
once (`PairInitiatorDialog.tsx:38-45`), and each start is a new hook; the joiner's form
starts the same hook again, whose refs make runs that were cancelled but have not come
back go on (`BeginFlow`). The joiner's dialog is shown only where there is no vault. A lock
takes the initiator's page away, which drops a timer that is pending and not a poll
that is under way (`LockVault`): such a run may finish what it has begun. So two runs
of one device can poll one PIN: run 1 waits, the vault is locked and unlocked, run 2
draws the PIN run 1 has, whose channel is not there yet or has expired.
`doubled` has their key pairs: each run then seals a payload with the pairing that is
there last, and `PairsOnce` does not speak of them. Without the exception TLC finds
this collision (3 devices, 4 runs, 4 key pairs, 2 edits), and the theorem shows that
there is nothing else: one PIN in a million, within five minutes.

### VaultProcesses

The desktop's commands are one step each except where it matters to another
process (mark and erase of a revoke, copy and timer). `turns` is the order the user
keeps when nothing locks the file: the tool does not add while the desktop's vault
is open. A restart of the MCP server begins a new quota. A recovery during an `add`
is not modelled.

Who clears the clipboard tries once and ignores a failure: the desktop's timer
(`clipboard.rs:149`, `TimerClears`) and the tool, which looks first and whose look can
fail as well (`main.rs:613-615`, `LookBeforeClear`, `Clear`, `Unable`). With
`--clear-after 0` the tool clears nothing (`RevealCopies`). `left` remembers that the
value in the clipboard is one whose clearing was not asked for, has failed, or was lost
with the program that was to do it; it ends with the next thing copied or cleared.

### CharterRecovery and VaultSettings

A paper is the phrase (index 0) or a share, with its checksum. Printing and parsing
are modelled by the tokens a line is split into, since the parser tells index, "of
3" and checksum apart by their order and value only; of the checksum's values only
0003 is told from the others. Words are words of one paper: mixed up words fail the
checksum. `setup.prints` says which charters are asked for and which papers have that
checksum. Recovery replaces `vault.age` and the storage in one step (`AgeVault` and
`VaultSession` have the rest of it) and then writes the sidecar, whose read,
temporary file, removal (Windows) and rename are steps that other commands come
between, and each of which may fail. `due` remembers that a recovery has set the
cooldown and its seven days are not over; `excused` that a command has read the
sidecar while another was writing it, could not read it, or lost it between removal
and rename. The seven days are over (`Expire`) for the sidecar on disk and for what
toggles have read, not for a recovery that has just computed them: a write of the
sidecar is shorter than they are.

`VaultSettings` takes over when the vault is open. `queue` is the queue of the tokio
mutex around the scheduler, `alive` the pollers of the scheduler that runs, `polling`
those of them inside a poll. A cancelled poller ends between two polls (`Stop`), but
its `select!` is not biased and may take the tick first (`StartPoll` has no guard on
the cancel, as in `IncidentFeeds`); `shutdown` waits until none is left (`Respawn`), and
a refresh polls while it holds the mutex. Feeds are polled with or without a key
(`Feeds`, `KeyFeeds`), the latter only when the scheduler has one (`Spawned`). One key stands for the
two feed keys. A flush that fails leaves the new record in memory (`Stored`).
`vault_lock` leaves the scheduler as it is, with its key.

## Runs

| Run | Bounds | Shows |
|---|---|---|
| `vault` | 2 tasks, 2 passwords, 1 path, 1 value, 2 key generations, 1 backup, 1 fault; both platforms, with and without the interface's order | the last committed image is always on disk (`Recoverable`), undirty means saved, a recovery retires the old key, key and charter in the file belong together, `AgeVault` implements `VaultStore` |
| `audit_chain` | 2 tasks, 2 device rows, 3 entries, 2 faults | chains verify and do not fork, stored device keys are never replaced |
| `session` | 2 tasks, 3 token pairs, 2 faults; serial and not. Beside it 2 desktops, 1 address, 1 account, 3 tries, 1 change of address, 1 cut | passphrase, identity and bridge never outlive a lock; serial: a locked application holds nothing, a sign-out is final; one user and salts per address and account; a sign-in nothing disturbs succeeds |
| `creds` | 2 tasks, shared: 1 credential with a pair, bridge and pull; alone: 2 credentials, 1 restart; 2 tokens, 1 failed flush, 1 failed statement | an active credential has its values; each revoke has its own confirmation; alone: a killed value stays gone |
| `ext` | 2 tasks, 1 extension, 2 lifetimes, 3 keys or 3 pushes, a queue of 2, 1 fault | a settings change ends all older sessions, nothing else ends one, the queue is in order and keeps a context until later ones displace it, with the two exceptions of `QueueHasLatest` |
| `feeds` | 3 feeds of one entry, 1 credential, four setups: 3 faults and 2 edits, 1 edit, 1 fault, 1 fault with NVD | announcements are complete, dismissals final; every entry is stored and matched in the end; the exit ends |
| `graph` | 2 issuers, 3 credentials, 2 projects, 2 deployments, 2 usages, 3 edits, 1 failing SELECT, 1 visible entry | no invented or dangling edge, no dependency left out |
| `imports` | 2 tasks, a scan and a CSV of 2 entries, 2 faults, 3 edits, 1 restart | one credential per entry; reported means saved |
| `pairing` | 2 or 3 devices, 2 users, 1 PIN, 3 runs of the hooks, 3 or 4 key pairs, five setups of faults and edits | one joiner per key pair that meets no other run of its device; nobody signed in on another's vault; undisturbed pairings complete |
| `checks` | 2 tasks, 2 credentials, 2 values, 2 checks, 2 edits, 1 fault | an undisturbed check is exact; alerts are of one check; dismissals are final |
| `processes` | desktop, 2 invocations, server; 2 credentials, 1 value, quota 2, 2 ticks, 2 copies, 1 fault | what the tool reported survives; no child gets a killed value; the quota; a copied secret is to be cleared unless a clear has failed |
| `settings` | 2 tasks; charters of all kinds, papers with checksum 0003, 2 issues; 2 toggles on both platforms; 1 key, 2 installations, 2 settings, or 1 setting with a poller with and one without a key; 1 fault | a charter opens what it was issued for; a cooldown holds; the scheduler has the stored key; saved installations stay; commands end |

In place of the properties of their runs the following pass as well: the action
property `LockKeepsEdits` (`vault`: a lock drops no edit; proved), `CacheMatchesVault`
and the action property `SaltsKept` (`session`: memory and vault agree on the session
until something fails, refreshes keep the salts), `AcceptedUnderSetting` (`ext`: an
accepted token is under the current lifetime; proved), `AloneDeletedLeavesNothing`
(`creds`).

Why these bounds. Two tasks meet in every pair of steps, and each shared object
(file, chain, token store, credential, channel) is the same for both. Two passwords
and two generations tell an old key from a new one. One backup kept makes pruning
happen with every second write. Three entries give a chain a predecessor with a
predecessor, two device rows a second chain. Three token pairs are a sign-in and two
refreshes. A queue of two with three pushes overflows; a quota of two with three
requests and an hour of one tick fills and slides. Three RSS faults open its
breaker. Three key pairs are an initiator and two joiners, the fourth a second
attempt. One fault at any step is what the error paths are written for; the second
is a failure of the retry. A charter is issued twice, so that there is an old one to
retire; the setups of `settings` do not mix charters of all kinds, toggles, two
settings, and a setting beside pollers, which share the tasks that run them and the lock. `processes` does not mix
the clipboard or the server with the writers (`MCApart`), which share no variable but
files they only read; `ext` has behaviours that draw several keys or push several
contexts, not both. Three tries at the relay are two that overlap or a cut one, and the
one after them.

**Deadlock** is checked, except where the program may stop: in `vault` (a torn file
keeps the application from starting), `feeds` (the application exits), `pairing`,
`checks` and `settings` (bounds used up, nothing under way).

**Fairness.** Only `feeds`, `pairing` and `settings` assume any; all other properties are
safety. `IncidentFeeds!Fairness`: tokio runs each task that can run, a ticker ticks
again after each interval, and `select!` takes a ready arm at random, hence strong
fairness for the stop arm that competes with the tick; the RSS client has a timeout,
the other clients end only if the servers answer (`Answers`): with `Answers = FALSE`
`ExitEnds` is refuted, as the shutdown waits for the poller inside its request
(`feed_scheduler.rs:189`). Nothing is assumed of the network's success: entries
are handled because failures are finite (`faults`). A feed that is read by windows
may lose an entry when a poll fails or the computer sleeps, and the property says
so. `DevicePairing!Fairness`: each step of a run of a hook is taken once it stays
possible; the hooks re-arm their timers (`use-pair-joiner.ts:109-153`). `Completes`
speaks of setups without faults, edits and third devices: the code promises nothing
when a pairing is disturbed. `VaultSettings!Fairness`: a command that has started goes
on (tokio), the mutex serves in order (tokio's is fair, so a queue needs no strong
fairness), a poller's `select!` takes a ready arm at random, hence strong fairness for
the stop arm as in `IncidentFeeds` (`Stop`), and polls and refreshes end if the feeds
answer (`Answers`); with `Answers = FALSE` a poll without a timeout
keeps a settings command, a refresh and every unlock waiting (`SettingsRefuted`).

**Conditions in properties.** `ActiveHasValue` counts only while no statement has
failed (`dbFaults = 0`): create and delete ignore a failed rollback. `AloneDeletedLeavesNothing`
counts only without a restart: `credential_delete` does not flush, so a process end
brings the record, not the row, back. `ReportedIsSaved` excepts failed flushes, which
the commit only logs (`import.rs:435`). `AckedSurvives` and `RunInjectsLive` have
`turns`. `Announced` excepts lost announcements after a failed statement. `CooldownHolds`
has `excused`, `SettingsKept` has `torn`, `QueueHasLatest` has `Overwritten`: the code
puts no lock around these reads and writes, and goes on with a failed read.
`SecretHasTimer` has `left`: a failed clear is not repeated, and the secret then stays
in the clipboard until something else is copied. `PairsOnce` has `doubled` and `AccountInVault` `clashed` (above).
`LoneSignInSucceeds` speaks of a try during which nothing else happens, and lets
an authenticator refuse where it lacks the passkeys or tries overlapped before. Each is
stated where the code promises nothing more, and where a text of the repository
does, the list below has the configuration that refutes it.

**Type invariants.** Each module states `TypeOK`, but for `VaultStore`, which has
none, `CharterRecovery`, whose `CharterTypeOK` is part of that of `VaultSettings`, and
`RelaySignIn`, whose `RelayShape` stands with
its proof in `SignInProofs`. That of `AgeVault`, `CredentialStore`, `DevicePairing`,
`IncidentFeeds`, `SecurityChecks`, `DependencyGraph` and `VaultSettings` is a theorem, and
those of `AuditLog`, `VaultSession`,
`ImportSessions`, `ExtensionBridge` and `VaultProcesses` are part of the inductive
invariants below, in whole or as far as the proof needs them; all hold in TLC and are
left out of the configurations, since they say nothing about the code: add it
to the INVARIANTS of a run to check one.

## Proofs

Each theorem holds for every value of the constants that satisfies the module's
assumptions: any number of tasks, passwords, values and credentials, any bounds,
both platforms, with and without the order flags.

| Theorem | Property | Argument |
|---|---|---|
| `AgeVaultProofs!TypeCorrect` | `TypeOK` | one step per action; the write protocol is split by system call |
| `!EnvelopeAlwaysOpensFile` | `EnvelopeOpensFile` | every image ever built pairs envelope and key. The property speaks of `vault.age` only and is not inductive: the strengthening says it of `.tmp`, of every image being written, and of the header and key in memory while unlocked, from which the next image is built. An unlock takes the header from memory and the key from the file, so the invariant also says that no two headers in use share a salt (`OneHeaderPerSalt`) |
| `!AlwaysRecoverable`, `!CleanIsSaved`, `!RetiredForGood` | `Recoverable`, `CleanMeansSaved`, `RetiredStaysRetired` | with `ordered`, one writer at a time; what it has in hand is what memory holds, its handle is on `.tmp` only while it fills it, and `.tmp` is whole once it is filled (`WriterInv`). So the surviving image, the file or the newest backup when the file is gone, is the last one committed (`SavedInv`), and no image that can still be written is older than the last recovery (`RetiredInv`) |
| `!Refinement` | `ImplementsStore` | on POSIX and with `ordered` the file is the abstract store's image: a rename is its `Create`, `Rekey` or `Save`, and the other file system calls stutter. `InstallerInv` says that the image of an initialize or recover is the one the abstract command would put |
| `!LocksKeepEdits` | `LockKeepsEdits` | a lock closes the vault only after its rename or when nothing is dirty, and `CleanMeansSaved` holds before |
| `TableProofs!ChainsNeverFork`, `!ChainsAlwaysVerify` | `NoFork`, `AllValid` | what `record_lock` protects: between `ReadLast` and `Insert` the entry read is still the last of its device. The invariant adds who holds the lock at which step, that every copy of the device keys matches its row, and that each entry points at the one of its device inserted just before it; `NoFork` itself is part of it |
| `!DeviceKeysKept` | `DeviceKept` | under the vault lock a missing pair stays missing until it is stored, and memory and file agree once stored |
| `SignInProofs!LockDropsSecrets` | `SecretsDropped` | only an unlock adds a secret, unlocks and locks do not overlap, and a lock has dropped each secret by the step that follows (`StayDropped`) |
| `!SessionAlwaysGone` | `SessionGone` | with `serial`, one session command at a time and none beside a lock, so that what a lock or a sign-out has dropped nobody puts back; a sign-out is followed from memory over the vault to the file (`SignedOut`) |
| `!OneUserEach` | `SameKeyEverywhere` | a row of a user or an account is inserted at most once and never changed, so what a handler has found stays true (`Found`) until it answers, and what was answered stays what the tables say (`Answered`); `Course` says which way takes which steps |
| `!LoneSignInAlwaysSucceeds` | `LoneSignInSucceeds` | at each step of a try that nothing disturbs, challenge, user and passkey are what the next step looks for (`LoneInv`); numbers are given once (`NumbersInv`), which keeps leftovers of earlier tries apart; and as long as no tries overlapped whoever has passkeys has one at hand (`CrossedInv`) |
| `CredentialProofs!TypeCorrect` | `TypeOK` | in four parts: rows and records, tasks, tokens and kills, counters |
| `!KillsAlwaysConfirmed` | `KillsConfirmed` | a token that is held still names what it was issued for and has confirmed nothing (`TokenInv`); a revoke under way, from `Check` to the end of a bulk, has its confirmation in `kills` (`RevokeInv`), which is what the revoked row later shows |
| `!ActiveAlwaysHasValue` | `ActiveHasValue` | a new id is named by no row, token or other task (`IdInv`, `FreshInv`), so nobody erases what a create has put before its row is there; from then on an erase comes after the row was revoked (`ValueInv`) |
| `!KilledAlwaysErased` | `AloneKilledIsErased` | with `alone`, no other task can hold a value of a credential when it is erased, and none starts on one that is not active (`AloneInv`); records in memory and in the file are both followed, since a crash brings back the file's |
| `CredentialProofs!ImportsOnce` | `ImportedOnce` | the property counts ids per entry and is not inductive: a session that was taken is gone from the store, one task commits it, and a commit has no row yet of what it has still to do (`OneCommit`, `RowsAreDone`) |
| `!ReportedAlwaysSaved` | `ReportedIsSaved` | what a commit has put stays in rows and open vault while it holds the lock, also when it is another commit that fails (`DoneInv`); what was reported is in the file, and in the vault while open, and its session is over (`ReportedInv`) |
| `PairingProofs!ChangeAlwaysEndsSessions` | `ChangeEndsSessions` | a secret is never set back (`Redraw`): each step leaves it as memory or file has it, or draws a key nobody has, so a token that neither accepts is never accepted again. A rotation has ended the sessions of the extensions it is through with (`RotateInv`) |
| `!AcceptedAlwaysUnderSetting` | `AcceptedUnderSetting` | a token of another lifetime is over, or a change under way will end it, or one ended half way (`LifetimeInv`) |
| `!QueueAlwaysHasLatest` | `QueueHasLatest` | the queue is in order and has every written context that is neither displaced nor overwritten; so, of the contexts written before it was read, has every copy that a request is about to write back, unless its read failed (`QueueInv`). A written context that a write loses was displaced in that copy, or is overwritten by the context written |
| `!OnlySettingsAlwaysEndSessions` | `OnlySettingsEndSessions` | with `serial`, what a command has read it still finds when it writes (`AloneInv`) |
| `VaultProcessesProofs!AckedAlwaysSurvives`, `!RunAlwaysInjectsLive` | `AckedSurvives`, `RunInjectsLive` | with `turns`, desktop and tool hold a copy of the file that is still what the file has when they write it and an active row that was reported has its value there (`TurnsInv`); the rows two adds have still to write are different ones, and what was killed is gone (`RowsInv`) |
| `!SecretAlwaysHasTimer` | `SecretHasTimer` | whoever copies sets a timer, and an invocation that finds another value leaves that one's own; a failed clear, or the end of the program that was to clear, sets `left`, and only what takes the value away resets it |
| `!QuotaAlwaysHeld` | `QuotaHeld` | the server prunes its history, compares and appends: each answered reveal of the last hour has a place of its own in the history (`PlacesInv`), which never gets longer than the quota |
| `PairingProofs!PairingTyped` | `PairingTypeOK` | each step of a run ends it or gives it what its next step needs (`Data`, `StepPuts`) |
| `!AccountAlwaysInVault` | `AccountInVault` | unless two applies have both found no vault, a device without a vault has no account and one run at most about to write a vault, the session saved is of the vault's user, and so is what an apply goes on with after it has unlocked (`VaultInv`) |
| `!OneJoinerAlways` | `PairsOnce` | the relay may lose updates, so the invariant follows every copy of a payload, in the channel, in a handler that has read the channel, and in a run (`Carried`); only `Finalize` makes one. Its key pair is the run's own unless two runs of the device poll one PIN (`DoubledInv`), key pairs are drawn once (`KeysInv`), and a run that has sealed a payload never comes back to sealing, so all copies name one joiner (`GuestInv`) |
| `AlertProofs!FeedsTyped`, `!AlwaysAnnounced` | `TypeOK`, `Announced` | the property speaks of the moment when no poll runs. The invariant says of each stored incident that it is in the list or a poll that has counted one will announce it, and of each match that it is in the table or with the poll that stored its incident, and in the panels or announced later (`RowInv`). A poll matches a row against the credentials that were there when it began, some of which may be gone (`PollInv`) |
| `!DismissedMatchesStay`, `!DismissedAlertsStay` | `DismissedStays`, `DismissedAlertStays` | step by step: only the user's own actions take a row out of the dismissed ones, the cascade of a deletion takes the credential as well |
| `!ChecksTyped`, `!AlertsAlwaysOfOneCheck` | `ChecksTypeOK`, `AlertsOfOneCheck` | each check under way has a number of its own, and no rows of a credential that it has still to come to (`RunInv`): what it writes replaces all active rows of the credential |
| `!QuietCheckAlwaysExact` | `QuietCheckExact` | a check that nothing disturbs goes by the values and credentials that are there, has found what there is to find, and every credential it has come to shows just that (`QuietInv`) |
| `VaultSettingsProofs!SettingsTypeOK`, `!SettingsAlwaysKept` | `TypeOK`, `SettingsKept` | the mutex's queue holds each command once, and what is done with the scheduler is done by its first (`QueueInv`). Unless two commands crossed, the last one in the queue that spawns a scheduler has the key of the vault, or the scheduler has it (`KeyInv`), and what was reported as saved is in the file, in the open vault, and in every list that is about to be written (`ListInv`) |
| `!CooldownAlwaysHeld` | `CooldownHolds` | unless excused, the writers of the sidecar follow one another; the sidecar on disk, or its successor while it is absent, says what must hold, and what a writer is about to write says what must hold once it has (`CoolInv`) |
| `!CharterAlwaysKept` | `CharterKept` | what was issued is on paper or in the hands of the command that will show it (`ShownInv`). That the papers open the vault is a fact about printing and parsing: the tokens of a printed line (`PhraseTokens`, `ShareTokens`), what the parser takes for index and body of them (`BodyOfThree`), hence `ShareReadBack` for every share whose checksum is not the one the parser drops, and `PapersOpen` |
| `TableProofs!GraphTyped`, `!GraphAlwaysHeld`, `!NothingEverMissed` | `GraphTypeOK`, `GraphHeld`, `NothingMissed` | each list a reader holds is empty or that of some moment of the call, and one that was read without an error is that of a moment (`GotInv`); so is an edge, by the row it comes from (`EdgeKinds`). What was there at every moment is in every list that was read, hence in the radius (`RadiusInv`), and the cut loses nothing of its number |

The order flags (`ordered`, `serial`, `alone`, `turns`) are premises of the properties
that need them and not of the theorems: behaviours without the order are behaviours of
the specification too. TLC checked the
inductive invariants on the runs before they were proved, all but `GotInv`, whose
witnesses range over all tables and cannot be enumerated. Two properties did not hold as
first stated, and TLC showed why: `PairsOnce` on two runs of one device that poll one
PIN (see DevicePairing), `CooldownHolds` on a cooldown that ended while the recovery
that sets it was writing it.

The assumptions on constants say that bounds are numbers, that sentinels such as
`Absent`, `Nobody` and `None` are none of the values they stand beside, and that ids of
different tables are different (ULIDs). Two come from cardinality: a queue and a cut of a
list count elements, so `SettingsAssumption` has `Tasks` finite and `GraphAssumption` the
projects and deployments.

So every safety and action property of the runs is a theorem, besides being checked by
TLC. Only model-checked are the liveness properties under fairness, which the prover
cannot do, as it cannot do ENABLED: `EventuallyHandled` and `ExitEnds` of
`IncidentFeeds`, `Completes` of `DevicePairing`, `CommandsEnd` of `VaultSettings`. No module
declares a RECURSIVE operator, and the body of a share (`Body`) is stated by the positions
that are kept, not by `SelectSeq`, whose recursion no proof could follow.

## Where the code and its documentation disagree

Some configurations are kept beside the runs because each ends in a counterexample
that is worth knowing. They are run with `tlc -config <file>.cfg <MC module>`; a
`*Refuted.cfg` lists several statements, all but one commented out, to be checked one
at a time:

| Configuration | Statement refuted |
|---|---|
| `VaultRefuted` | `CurrentPasswordUnlocks`: a recovery that fails while it prunes backups has already replaced the file, and the header in memory stays the old one: the new password does not open the vault until a restart |
| `VaultRefuted` | `FileNeverVanishes`: on Windows `vault.age` is absent between remove and rename, and stays so after a failure |
| `VaultRefuted` | `OldKeysRetired`, that is `RetiredStaysRetired` without the interface's order: a flush that overlaps a recovery brings the old key back |
| `AuditSkip` | `SkippedOnlyWhenLocked`: an unlock whose flush fails leaves an open vault without identity, and nothing is recorded until the next unlock |
| `SessionLeftover` | `LockDropsSession`, "`auth_session` is None after `vault_lock`" (`context.rs:103`): `complete_session` releases the vault lock before it sets `auth_session`; a lock in between leaves tokens and `enc_key` in memory |
| `SignInRefuted` (module `RelaySignIn`) | `PasskeysUsable`, "leaving the OS store and the server DB out of sync" is what the check of `auth.rs:275-282` is to prevent: when two desktops that share an authenticator register at once, the second passkey replaces the first on it, and if the second verify is lost or fails, the relay lists only the first: assert is refused, and the page never reaches register |
| `CredsRefuted` | `ActiveSurvivesExit`, "The actual secret value lives in the age vault file" (`0001_init.sql:27`): `credential_create` does not flush and the exit does not either (`app/lib.rs:444-455`): after closing the application the row is there and its value is lost |
| `CredsRefuted` | `DeletedLeavesNothing` with pairs: delete leaves the secondary record |
| `CredsRefuted` | `KilledIsErased`, "The value will be permanently removed from your vault" (kill-switch dialog): `do_revoke_internal` removes the primary record only |
| `CredsRefuted` | `KilledIsErased` with two tasks: a create or rotate that puts its value after the kill has erased it |
| `CredsRefuted` | `ListedCanBeDeleted`, "This permanently removes ... from your vault" (delete dialog): after a kill with erasure `credential_delete` ends with NotFound before it deletes the row, every time |
| `CredsRefuted` | `HintShowsValue`: a rotation that overlaps another write of the same value leaves the hint of one with the value of the other |
| `FeedsRefuted` | `MatchesStored`, "Produces `reason = Domain` and confidence 0.9." (`matcher.rs:31`): the CHECK of `0001_init.sql:133` does not know the reason, `INSERT OR IGNORE` skips the row, and the match is never stored |
| `FeedsRefuted` | `BannerConcernsHost`, "filter to issuers linked to this incident" (`matcher.rs:159`): an incident without `issuer_id`, that is any that does not come from a status page, is compared with the domains of every issuer, so each CVE, advisory and breach of medium severity and above is shown on the site of any known issuer |
| `ChecksUnread` | `UnreadKept`, what could not be read keeps its alerts (`security_check.rs:318-319`): a vault that is locked between list and read yields no values, and weak and reused alerts are deleted as if fixed |
| `GraphPhantom` | `RadiusHeld`, the entities "that would be affected if the credential were revoked" (`blast_radius.rs:5`): the lists are of different moments, so a deployment may be named that the credential never reached |
| `PairTaken` | `TakenStays`, a channel that was joined refuses another key (`pair.ts:230`): two joins that read the channel before either writes both pass |
| `ExtBridge`, with `QueueIsLatest` as its one invariant | `QueueIsLatest`, "JSON array, 최신 10개", the latest ten (`nm_bridge.rs:1247`): a read of the queue that fails is taken for an empty queue and written back, a write that fails is answered ok, and two requests that overlap lose a context |
| `ProcessesRefuted` | `AckedAlways`, one vault for desktop and tool (`secretbank-cli/src/main.rs:18`): a flush of the desktop that was open while the tool added erases what was added |
| `ProcessesRefuted` | `LockedServerEmpty`, "the MCP server queries the live desktop session. Lock = empty." (`docs/USER_GUIDE.en.md:629`): the server opens the vault itself and answers whatever the desktop does |
| `ProcessesRefuted` | `ExitClears`, "the binary's exit guarantees the clipboard no longer holds the secret" (`secretbank-cli/src/main.rs:600-601`): the look and the clear ignore their errors (`:613-615`), and the tool ends with success and the value in the clipboard |
| `SettingsRefuted` | `AnyTwoReconstruct`, "any 2 reconstruct" (`shamir.rs:204`): the parser drops every number 3 after the index (`shamir.rs:104`), so a share whose checksum is 0003 is never read back; one share in ten thousand |
| `SettingsRefuted` | `IssuedIsShown`: a recovery whose sidecar cannot be written (`vault.rs:504`) has replaced key and charter already, and returns an error in place of the new charter |
| `SettingsRefuted` | `CooldownAlwaysHolds`: a toggle that read the sidecar before a recovery wrote it writes the cooldown away; so does a read that fails, which `vault_unlock` takes for no cooldown (`vault.rs:264`) |
| `SettingsRefuted` | `SchedulerFollows`: a command that has read the key and waits for the mutex after one that has changed it spawns a scheduler with the old key |
| `SettingsRefuted` | `InstallsKept`: two commands that both read the list of installations; the second write loses the first (`github.rs:158`, `:175`) |
| `SettingsRefuted` | `CommandsEnd` when a feed does not answer: a poll without a timeout is waited for by the command, and by every command after it, `vault_unlock` included (`vault_settings.rs:162`) |

Two more facts a reader of the models meets: the bridge checks tokens of the id
`default` with a lifetime of four hours, whatever the setting is
(`nm_bridge.rs:277`, `:295`), and new matches of incidents that are already stored
are not announced (`feed_scheduler.rs:361`).

## Not modelled

The components list of `PROJECT.json` gives the state of each part. Left out:

- **Cryptography, parsing, framing** (arithmetic of the sharing, feeds, CSV and env files,
  lockfiles, native messages): data, not control. Keys and ciphertexts are values
  that tell what opens what.
- **Single statements**: plain settings, cards, entitlement, names and urls of
  rows; the scan of a GitHub repository, which uses a stub token until the relay issues
  real ones.
- **Tokens of the relay**: their signature and lifetime, the rate limit, the passkeys' sign
  counter, and `auth_refresh`, which the interface never calls (`VaultSession` has its
  desktop side).
- **Sync client and relay store** (`relay-transport.ts`, `sync.ts`): the client's
  provider is not mounted by the application, so no execution reaches it. Two
  things to look at when it is: `pushUpdate` sets `lastVersion` to the version it is
  answered and skips snapshots stored since its last poll (`relay-transport.ts:148`);
  the upsert and the read of the version are two statements (`sync.ts:162`).
- **The interface**, apart from the orders named above.
- Loss of power and files deleted from outside, in all modules. The refinement
  holds on POSIX: on Windows the file is absent for a moment and the abstract store
  has no such state; `Recoverable` says what remains true there.

## Plan

Done: the modules above and the theorems listed under Proofs. Next:

1. `RelaySync` once its provider is mounted: two or three clients with lost and
   repeated requests; abstract specification: one register per item that only
   grows; eventual delivery under fair polling.
