---------------------------- MODULE VaultSession ----------------------------
(***************************************************************************)
(* What AppContext (secretbank-app/context.rs) keeps in memory between     *)
(* vault_unlock and vault_lock (commands/vault.rs), and the relay session  *)
(* that commands/auth.rs and services/session.rs keep there and in the     *)
(* vault.  Each field has a lock of its own and every command awaits       *)
(* between them, so commands interleave at each step below; the vault      *)
(* write lock is held throughout OpenVault, Save, ClearStored and Close.   *)
(***************************************************************************)
EXTENDS Naturals

CONSTANTS
  Tasks,       \* commands that may run at the same time
  NoSession,   \* nobody is signed in
  MaxTokens,   \* bound: token pairs the relay issues
  MaxFaults    \* bound: failed flushes, requests and starts

ASSUME SessionAssumption ==
  /\ MaxTokens \in Nat /\ MaxFaults \in Nat

VARIABLES
  open,            \* the vault is unlocked
  mem, saved,      \* the session in the vault: in its records, in its file
  auth,            \* AppContext::auth_session
  held,            \* which other secrets AppContext holds
  pc, op, new,     \* per task: step, command, session it is about to set
  tokens, faults,
  serial,          \* constant: session commands overlap neither each other nor a lock
  signedOut        \* history: signed out, and no sign-in started since

stored == <<open, mem, saved>>
vars   == <<open, mem, saved, auth, held, pc, op, new, tokens, faults, serial, signedOut>>

\* AuthSession: the token pair by number, whether it has the salts of the
\* relay, and whether enc_key has been derived from them.
Session == [token : 1..MaxTokens, salts : BOOLEAN, enc : BOOLEAN]

ASSUME NoSessionAssumption == NoSession \notin Session

Secrets == {"passphrase", "identity", "bridge"}
Steps == {"idle", "passphrase", "identity", "load", "derive", "set", "bridge",
          "post", "inherit", "save", "clear",
          "dropIdentity", "dropSession", "dropPassphrase", "dropBridge", "close"}
SessionOps == {"signin", "refresh", "signout"}
Ops == SessionOps \cup {"unlock", "lock"}

TypeOK ==
  /\ open \in BOOLEAN
  /\ mem \in Session \cup {NoSession} /\ saved \in Session \cup {NoSession}
  /\ \A s \in {mem, saved} : s # NoSession => ~s.enc      \* never persisted
  /\ auth \in Session \cup {NoSession}
  /\ held \subseteq Secrets
  /\ pc \in [Tasks -> Steps] /\ op \in [Tasks -> Ops]
  /\ new \in [Tasks -> Session \cup {NoSession}]
  /\ tokens \in 0..MaxTokens /\ faults \in 0..MaxFaults
  /\ serial \in BOOLEAN /\ signedOut \in BOOLEAN

Init ==
  /\ open = FALSE /\ mem = NoSession /\ saved = NoSession /\ auth = NoSession
  /\ held = {}
  /\ pc = [t \in Tasks |-> "idle"] /\ op = [t \in Tasks |-> "lock"]
  /\ new = [t \in Tasks |-> NoSession]
  /\ tokens = 0 /\ faults = 0 /\ serial \in BOOLEAN /\ signedOut = TRUE

Goto(t, step) == pc' = [pc EXCEPT ![t] = step]
Fault == faults < MaxFaults /\ faults' = faults + 1
Running(ops) == \E t \in Tasks : pc[t] # "idle" /\ op[t] \in ops

Begin(t, o, step) ==
  /\ pc[t] = "idle" /\ Goto(t, step) /\ op' = [op EXCEPT ![t] = o]
  /\ serial => ~Running(IF o \in SessionOps THEN Ops ELSE SessionOps)
  /\ UNCHANGED <<auth, held, saved, new, tokens, faults, serial>>

-----------------------------------------------------------------------------
(* vault_unlock, from the lock screen, which App.tsx shows once no other   *)
(* unlock or lock is under way.                                            *)

OpenVault(t) ==
  /\ ~open /\ ~Running({"unlock", "lock"})
  /\ Begin(t, "unlock", "passphrase")
  /\ open' = TRUE /\ mem' = saved
  /\ UNCHANGED signedOut

SetPassphrase(t) ==
  /\ pc[t] = "passphrase" /\ Goto(t, "identity")
  /\ held' = held \cup {"passphrase"}
  /\ UNCHANGED <<stored, auth, op, new, tokens, faults, serial, signedOut>>

\* ensure_device_keys (module AuditLog) may fail; unlock goes on.
SetIdentity(t) ==
  /\ pc[t] = "identity" /\ Goto(t, "load")
  /\ \/ held' = held \cup {"identity"} /\ UNCHANGED faults
     \/ Fault /\ UNCHANGED held
  /\ UNCHANGED <<stored, auth, op, new, tokens, serial, signedOut>>

\* hydrate_session_from_vault; a vault locked meanwhile counts as no session.
Load(t) ==
  /\ pc[t] = "load" /\ Goto(t, "derive")
  /\ new' = [new EXCEPT ![t] = IF open THEN mem ELSE NoSession]
  /\ UNCHANGED <<stored, auth, held, op, tokens, faults, serial, signedOut>>

SetBridge(t) ==
  /\ pc[t] = "bridge" /\ Goto(t, "idle")
  /\ \/ held' = held \cup {"bridge"} /\ UNCHANGED faults
     \/ Fault /\ UNCHANGED held
  /\ UNCHANGED <<stored, auth, op, new, tokens, serial, signedOut>>

-----------------------------------------------------------------------------
(* The session commands check that the vault is open; the main view, which *)
(* offers them, is shown once vault_unlock has returned.                   *)

InMainView == open /\ ~Running({"unlock"})

SignIn(t) ==
  /\ InMainView /\ Begin(t, "signin", "post")
  /\ signedOut' = FALSE
  /\ UNCHANGED <<open, mem>>

\* The refresh token is read and the lock of auth_session released.
Refresh(t) ==
  /\ InMainView /\ auth # NoSession /\ Begin(t, "refresh", "post")
  /\ UNCHANGED <<open, mem, signedOut>>

SignOut(t) ==
  /\ InMainView /\ Begin(t, "signout", "clear")
  /\ UNCHANGED <<open, mem, signedOut>>

\* The relay answers with a new token pair, to a sign-in with the salts too.
Post(t) ==
  /\ pc[t] = "post" /\ tokens < MaxTokens
  /\ tokens' = tokens + 1
  /\ new' = [new EXCEPT ![t] = [token |-> tokens + 1, salts |-> op[t] = "signin", enc |-> FALSE]]
  /\ Goto(t, "inherit")
  /\ UNCHANGED <<stored, auth, held, op, faults, serial, signedOut>>

PostFails(t) ==
  /\ pc[t] = "post" /\ Fault /\ Goto(t, "idle")
  /\ UNCHANGED <<stored, auth, held, op, new, tokens, serial, signedOut>>

\* complete_session keeps the salts of the session in memory, if any.
Inherit(t) ==
  /\ pc[t] = "inherit" /\ Goto(t, "derive")
  /\ new' = [new EXCEPT ![t].salts = @ \/ (auth # NoSession /\ auth.salts)]
  /\ UNCHANGED <<stored, auth, held, op, tokens, faults, serial, signedOut>>

\* enc_key needs the salts and the master passphrase in memory.
Derive(t) ==
  /\ pc[t] = "derive" /\ Goto(t, IF op[t] = "unlock" THEN "set" ELSE "save")
  /\ new' = IF new[t] = NoSession THEN new
            ELSE [new EXCEPT ![t].enc = new[t].salts /\ "passphrase" \in held]
  /\ UNCHANGED <<stored, auth, held, op, tokens, faults, serial, signedOut>>

SavePersistingKey(t) ==
  /\ pc[t] = "save"
  /\ IF ~open
       THEN Goto(t, "idle") /\ UNCHANGED <<mem, saved, faults>>
       ELSE /\ mem' = new[t]
            /\ \/ saved' = mem' /\ Goto(t, "set") /\ UNCHANGED faults
               \/ Fault /\ Goto(t, "idle") /\ UNCHANGED saved
  /\ UNCHANGED <<open, auth, held, op, new, tokens, serial, signedOut>>

\* save_session: the records (missing salts delete stored ones), then a flush.
\* A locked vault or a failed flush ends the command.
Save(t) ==
  /\ pc[t] = "save"
  /\ IF ~open
       THEN Goto(t, "idle") /\ UNCHANGED <<mem, saved, faults>>
       ELSE /\ mem' = [new[t] EXCEPT !.enc = FALSE]
            /\ \/ saved' = mem' /\ Goto(t, "set") /\ UNCHANGED faults
               \/ Fault /\ Goto(t, "idle") /\ UNCHANGED saved
  /\ UNCHANGED <<open, auth, held, op, new, tokens, serial, signedOut>>

SetSession(t) ==
  /\ pc[t] = "set" /\ Goto(t, IF op[t] = "unlock" THEN "bridge" ELSE "idle")
  /\ auth' = new[t]
  /\ UNCHANGED <<stored, held, op, new, tokens, faults, serial, signedOut>>

\* clear_session of auth_signout, likewise under the vault lock.
ClearStoredUnflushed(t) ==
  /\ pc[t] = "clear"
  /\ IF open THEN mem' = NoSession /\ Goto(t, "dropSession") ELSE Goto(t, "idle") /\ UNCHANGED mem
  /\ UNCHANGED <<open, saved, auth, held, op, new, tokens, faults, serial, signedOut>>

ClearStored(t) ==
  /\ pc[t] = "clear"
  /\ IF ~open
       THEN Goto(t, "idle") /\ UNCHANGED <<mem, saved, faults>>
       ELSE /\ mem' = NoSession
            /\ \/ saved' = NoSession /\ Goto(t, "dropSession") /\ UNCHANGED faults
               \/ Fault /\ Goto(t, "idle") /\ UNCHANGED saved
  /\ UNCHANGED <<open, auth, held, op, new, tokens, serial, signedOut>>

-----------------------------------------------------------------------------
(* vault_lock, from the command palette or the idle timer of the main view.*)

Lock(t) ==
  /\ InMainView
  /\ Begin(t, "lock", "dropIdentity")
  /\ UNCHANGED <<open, mem, signedOut>>

Drop(t, step, secret, next) ==
  /\ pc[t] = step /\ Goto(t, next)
  /\ held' = held \ {secret}
  /\ UNCHANGED <<stored, auth, op, new, tokens, faults, serial, signedOut>>

DropIdentity(t)   == Drop(t, "dropIdentity", "identity", "dropSession")
DropPassphrase(t) == Drop(t, "dropPassphrase", "passphrase", "dropBridge")
KeepBridge(t)     == Drop(t, "dropBridge", "passphrase", "close")
DropBridge(t)     == Drop(t, "dropBridge", "bridge", "close")

\* Also the last step of auth_signout.
DropSessionOnSignOut(t) ==
  /\ pc[t] = "dropSession"
  /\ Goto(t, IF op[t] = "lock" THEN "dropPassphrase" ELSE "idle")
  /\ auth' = IF op[t] = "lock" THEN auth ELSE NoSession
  /\ signedOut' = (signedOut \/ op[t] = "signout")
  /\ UNCHANGED <<stored, held, op, new, tokens, faults, serial>>

DropSession(t) ==
  /\ pc[t] = "dropSession"
  /\ Goto(t, IF op[t] = "lock" THEN "dropPassphrase" ELSE "idle")
  /\ auth' = NoSession
  /\ signedOut' = (signedOut \/ op[t] = "signout")
  /\ UNCHANGED <<stored, held, op, new, tokens, faults, serial>>

\* The vault flushes what is not on disk; when that fails it stays open.
Close(t) ==
  /\ pc[t] = "close" /\ Goto(t, "idle")
  /\ \/ /\ saved' = IF open THEN mem ELSE saved
        /\ open' = FALSE /\ mem' = NoSession /\ UNCHANGED faults
     \/ open /\ Fault /\ UNCHANGED stored
  /\ UNCHANGED <<auth, held, op, new, tokens, serial, signedOut>>

\* The process ends and starts again.
Restart ==
  /\ open' = FALSE /\ mem' = NoSession /\ auth' = NoSession /\ held' = {}
  /\ pc' = [t \in Tasks |-> "idle"]
  /\ UNCHANGED <<saved, op, new, tokens, faults, serial, signedOut>>

Next ==
  \/ \E t \in Tasks :
       \/ OpenVault(t) \/ SetPassphrase(t) \/ SetIdentity(t) \/ Load(t) \/ SetBridge(t)
       \/ SignIn(t) \/ Refresh(t) \/ SignOut(t)
       \/ Post(t) \/ PostFails(t) \/ Inherit(t) \/ Derive(t) \/ Save(t) \/ SetSession(t)
       \/ ClearStored(t)
       \/ Lock(t) \/ DropIdentity(t) \/ DropSession(t) \/ DropPassphrase(t) \/ DropBridge(t)
       \/ Close(t)
  \/ Restart

Spec == Init /\ [][Next]_vars

-----------------------------------------------------------------------------
(* Properties.                                                             *)

AllIdle == \A t \in Tasks : pc[t] = "idle"

\* The passphrase, the signing key and the bridge are gone from a locked vault
\* whatever session commands were under way when it was locked.
SecretsDropped == ~open /\ ~Running({"unlock", "lock"}) => held = {}

\* When the lock waits for session commands to end and these do not overlap: a
\* locked vault holds nothing of the session either (context.rs, auth_session: None
\* after vault_lock), and after auth_signout the session stays gone from memory,
\* vault and file until the user signs in again, through any locks, failures and
\* restarts.
SessionGone ==
  serial /\ AllIdle =>
    /\ ~open => auth = NoSession /\ held = {}
    /\ signedOut => auth = NoSession /\ mem = NoSession /\ saved = NoSession

\* The first of these without that condition, as context.rs states it.
LockDropsSession == AllIdle /\ ~open => auth = NoSession

\* A refresh replaces the tokens and keeps the salts (auth.rs, complete_session)
\* that it found in memory; one that overlaps a sign-in may have found none.
SaltsKept ==
  [][serial /\ mem # NoSession /\ mem.salts /\ mem' # NoSession => mem'.salts]_mem

\* The session in memory and the one in the vault are the same (auth.rs,
\* auth_refresh: replaced atomically), as long as nothing has failed or overlapped.
CacheMatchesVault ==
  serial /\ AllIdle /\ open /\ faults = 0
    => /\ auth = NoSession <=> mem = NoSession
       /\ auth # NoSession => auth.token = mem.token
=============================================================================
