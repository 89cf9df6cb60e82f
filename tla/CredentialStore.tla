--------------------------- MODULE CredentialStore ---------------------------
(***************************************************************************)
(* Credentials, whose metadata is a SQLite row and whose values are vault  *)
(* records: the commands of commands/credentials.rs, the kill switch of    *)
(* commands/kill_switch.rs, and the writers beside the main window, the    *)
(* extension bridge (services/nm_bridge.rs) and the relay pull             *)
(* (services/value_sync.rs).  Every statement is durable; a vault record   *)
(* is durable after a flush (module AgeVault), which few commands do.      *)
(***************************************************************************)
EXTENDS Naturals, Sequences

CONSTANTS
  Tasks,        \* commands that may run at the same time
  Values,       \* secret values; a value also stands for its last 4 characters
  Absent,       \* no vault record
  NoRow,        \* no credential row
  NoHint,       \* a row without hash_hint
  NoSubject,    \* a confirmation token that is not issued, spent or expired
  Issuer,       \* the issuer of all credentials
  Pairs,        \* TRUE: credentials with a secondary value are created too
  Beside,       \* TRUE: the extension and the relay write values too
  MaxCreds,     \* bound: credentials created, when commands run alone
  MaxShared,    \* bound: credentials created, when commands overlap
  MaxTokens,    \* bound: confirmation tokens issued
  MaxFaults,    \* bound: failed flushes
  MaxDbFaults,  \* bound: failed statements
  MaxRestarts   \* bound: process ends, when commands run alone

Creds == 1..MaxCreds
Slots == Creds \X {"primary", "secondary"}
Primary(c)   == <<c, "primary">>
Secondary(c) == <<c, "secondary">>
Row   == [status : {"active", "revoked"}, hint : Values \cup {NoHint}, second : BOOLEAN]
Arg   == [cred : Creds, value : Values, hint : Values \cup {NoHint}, flag : BOOLEAN]
Subjects == Creds \cup {Issuer}

ASSUME StoreAssumption ==
  /\ Pairs \in BOOLEAN /\ Beside \in BOOLEAN
  /\ MaxCreds \in Nat \ {0} /\ MaxShared \in Nat /\ MaxTokens \in Nat
  /\ MaxFaults \in Nat /\ MaxDbFaults \in Nat /\ MaxRestarts \in Nat
  /\ Values # {} /\ Absent \notin Values /\ NoHint \notin Values
  /\ NoRow \notin Row /\ NoSubject \notin Subjects /\ Issuer \notin Creds

VARIABLES
  alone,                        \* one command at a time, of the main window, on
                                \* credentials without a secondary value
  rows, next,                   \* credential table by id, next id
  open, mem, saved,             \* vault: unlocked, records in memory, in the file
  tokens,                       \* kill_switch_tokens, issuer_kill_switch_tokens
  pc, op, arg, todo,            \* per task: step, command, arguments, rest of a bulk
  issued, faults, dbFaults, restarts,
  grants, kills, erased         \* history: what each token was issued for, the
                                \* tokens spent, the credentials killed with value

vault    == <<open, mem, saved>>
counters == <<issued, faults, dbFaults, restarts>>
history  == <<grants, kills, erased>>
vars == <<alone, rows, next, open, mem, saved, tokens, pc, op, arg, todo,
          issued, faults, dbFaults, restarts, grants, kills, erased>>

Steps == {"idle", "insert", "put", "link", "drop", "unlist", "replace", "hint",
          "overwrite", "check", "status", "erase", "next"}
Ops   == {"create", "delete", "rotate", "overwrite", "revoke", "bulk"}
Empty == [s \in Slots |-> Absent]

TypeOK ==
  /\ alone \in BOOLEAN
  /\ rows \in [Creds -> Row \cup {NoRow}] /\ next \in 1..MaxCreds + 1
  /\ open \in BOOLEAN
  /\ mem \in [Slots -> Values \cup {Absent}] /\ saved \in [Slots -> Values \cup {Absent}]
  /\ ~open => mem = Empty
  /\ tokens \in [1..MaxTokens -> Subjects \cup {NoSubject}]
  /\ pc \in [Tasks -> Steps] /\ op \in [Tasks -> Ops] /\ arg \in [Tasks -> Arg]
  /\ todo \in [Tasks -> SUBSET Creds]
  /\ issued \in 0..MaxTokens /\ faults \in 0..MaxFaults
  /\ dbFaults \in 0..MaxDbFaults /\ restarts \in 0..MaxRestarts
  /\ grants \in [1..MaxTokens -> Subjects \cup {NoSubject}]
  /\ kills \in Seq([token : 1..MaxTokens, subject : Subjects])
  /\ erased \subseteq Creds

NoArg == CHOOSE a \in Arg : TRUE

Init ==
  /\ alone \in BOOLEAN
  /\ rows = [c \in Creds |-> NoRow] /\ next = 1
  /\ open = FALSE /\ mem = Empty /\ saved = Empty
  /\ tokens = [k \in 1..MaxTokens |-> NoSubject]
  /\ pc = [t \in Tasks |-> "idle"] /\ op = [t \in Tasks |-> "create"]
  /\ arg = [t \in Tasks |-> NoArg] /\ todo = [t \in Tasks |-> {}]
  /\ issued = 0 /\ faults = 0 /\ dbFaults = 0 /\ restarts = 0
  /\ grants = tokens /\ kills = << >> /\ erased = {}

Goto(t, step) == pc' = [pc EXCEPT ![t] = step]
AllIdle == \A t \in Tasks : pc[t] = "idle"
Begin(t, o, step, a) ==
  /\ pc[t] = "idle" /\ (alone => AllIdle) /\ Goto(t, step)
  /\ op' = [op EXCEPT ![t] = o] /\ arg' = [arg EXCEPT ![t] = a]
Input(c, v, h, f) == [cred |-> c, value |-> v, hint |-> h, flag |-> f]
Aim(a, c)         == [a EXCEPT !.cred = c]
Choose(a, f)      == [a EXCEPT !.flag = f]

Fault ==
  faults < MaxFaults /\ faults' = faults + 1 /\ UNCHANGED <<issued, dbFaults, restarts>>
DbFault ==
  dbFaults < MaxDbFaults /\ dbFaults' = dbFaults + 1 /\ UNCHANGED <<issued, faults, restarts>>

\* A row by id; an UPDATE of a row that is gone does nothing.
Listed(c) == rows[c] # NoRow
Update(c, row) == rows' = IF Listed(c) THEN [rows EXCEPT ![c] = row] ELSE rows
Linked(row)    == [row EXCEPT !.second = TRUE]
Hinted(row, h) == [row EXCEPT !.hint = h]
Dead(row)      == [row EXCEPT !.status = "revoked"]

Active == {c \in Creds : Listed(c) /\ rows[c].status = "active"}

-----------------------------------------------------------------------------
(* credential_create, from the main window or the extension.               *)

\* The vault is seen unlocked; the id is new (a ULID).
Create(t, v, pair, beside) ==
  /\ open /\ next \in Creds
  /\ ~alone => next <= MaxShared
  /\ pair => Pairs /\ ~beside /\ ~alone
  /\ beside => Beside /\ ~alone
  /\ Begin(t, "create", "insert", Input(next, v, IF beside THEN NoHint ELSE v, pair))
  /\ next' = next + 1
  /\ UNCHANGED <<rows, vault, tokens, todo, counters, history>>

InsertRow(t) ==
  /\ pc[t] = "insert"
  /\ \/ /\ rows' = [rows EXCEPT ![arg[t].cred] =
                      [status |-> "active", hint |-> arg[t].hint, second |-> FALSE]]
        /\ Goto(t, "put") /\ UNCHANGED counters
     \/ DbFault /\ Goto(t, "idle") /\ UNCHANGED rows
  /\ UNCHANGED <<next, vault, tokens, op, arg, todo, history>>

WithValues(a) ==
  [mem EXCEPT ![Primary(a.cred)] = a.value,
              ![Secondary(a.cred)] = IF a.flag THEN a.value ELSE @]

PutWithoutRollback(t) ==
  /\ pc[t] = "put"
  /\ IF open
       THEN mem' = WithValues(arg[t]) /\ Goto(t, IF arg[t].flag THEN "link" ELSE "idle")
       ELSE Goto(t, "idle") /\ UNCHANGED mem
  /\ UNCHANGED <<rows, counters, next, open, saved, tokens, op, arg, todo, history>>

\* Locked meanwhile: the row goes again, while the vault lock is still held.
\* The result of that statement is ignored.
PutValues(t) ==
  /\ pc[t] = "put"
  /\ IF open
       THEN /\ mem' = WithValues(arg[t])
            /\ Goto(t, IF arg[t].flag THEN "link" ELSE "idle")
            /\ UNCHANGED <<rows, counters>>
       ELSE /\ Goto(t, "idle")
            /\ \/ rows' = [rows EXCEPT ![arg[t].cred] = NoRow] /\ UNCHANGED counters
               \/ DbFault /\ UNCHANGED rows
            /\ UNCHANGED mem
  /\ UNCHANGED <<next, open, saved, tokens, op, arg, todo, history>>

LinkSecond(t) ==
  /\ pc[t] = "link" /\ Goto(t, "idle")
  /\ \/ Update(arg[t].cred, Linked(rows[arg[t].cred])) /\ UNCHANGED counters
     \/ DbFault /\ UNCHANGED rows
  /\ UNCHANGED <<next, vault, tokens, op, arg, todo, history>>

-----------------------------------------------------------------------------
(* credential_delete: the primary value, unflushed, then the row.          *)

Delete(t, c) ==
  /\ Listed(c)
  /\ Begin(t, "delete", "drop", Aim(NoArg, c))
  /\ UNCHANGED <<rows, next, vault, tokens, todo, counters, history>>

\* A locked vault or a missing record ends the command.
DropValue(t) ==
  /\ pc[t] = "drop"
  /\ LET s == Primary(arg[t].cred)
     IN  IF open /\ mem[s] # Absent
           THEN mem' = [mem EXCEPT ![s] = Absent] /\ Goto(t, "unlist")
           ELSE Goto(t, "idle") /\ UNCHANGED mem
  /\ UNCHANGED <<rows, next, open, saved, tokens, op, arg, todo, counters, history>>

DeleteRow(t) ==
  /\ pc[t] = "unlist" /\ Goto(t, "idle")
  /\ \/ rows' = [rows EXCEPT ![arg[t].cred] = NoRow] /\ UNCHANGED counters
     \/ DbFault /\ UNCHANGED rows
  /\ UNCHANGED <<next, vault, tokens, op, arg, todo, history>>

-----------------------------------------------------------------------------
(* credential_rotate_value, which the window offers for active ones, and   *)
(* the credential_update of the extension, for any.                        *)

Rotate(t, c, v) ==
  /\ open /\ c \in Active
  /\ Begin(t, "rotate", "replace", Input(c, v, v, FALSE))
  /\ UNCHANGED <<rows, next, vault, tokens, todo, counters, history>>

\* put and flush under the vault lock; a failed flush keeps the record.
Replace(t) ==
  /\ pc[t] = "replace"
  /\ IF open
       THEN /\ mem' = WithValues(arg[t])
            /\ \/ saved' = mem' /\ Goto(t, "hint") /\ UNCHANGED counters
               \/ Fault /\ Goto(t, "idle") /\ UNCHANGED saved
       ELSE Goto(t, "idle") /\ UNCHANGED <<mem, saved, counters>>
  /\ UNCHANGED <<rows, next, open, tokens, op, arg, todo, history>>

SetHint(t) ==
  /\ pc[t] = "hint" /\ Goto(t, "idle")
  /\ \/ Update(arg[t].cred, Hinted(rows[arg[t].cred], arg[t].hint)) /\ UNCHANGED counters
     \/ DbFault /\ UNCHANGED rows
  /\ UNCHANGED <<next, vault, tokens, op, arg, todo, history>>

Overwrite(t, c, v) ==
  /\ Beside /\ ~alone /\ Listed(c)
  /\ Begin(t, "overwrite", "overwrite", Input(c, v, NoHint, FALSE))
  /\ UNCHANGED <<rows, next, vault, tokens, todo, counters, history>>

OverwriteValue(t) ==
  /\ pc[t] = "overwrite" /\ Goto(t, "idle")
  /\ mem' = IF open THEN WithValues(arg[t]) ELSE mem
  /\ UNCHANGED <<rows, next, open, saved, tokens, op, arg, todo, counters, history>>

\* pull_values_since puts what the relay lists, whether or not there is a row.
PullValue(c, v) ==
  /\ Beside /\ ~alone /\ open /\ c < next
  /\ mem' = [mem EXCEPT ![Primary(c)] = v]
  /\ UNCHANGED <<rows, next, open, saved, tokens, pc, op, arg, todo, counters, history>>

-----------------------------------------------------------------------------
(* The kill switch: a token per credential or for the issuer, spent by the *)
(* revoke it confirms.                                                     *)

RequestConfirm(s) ==
  /\ s \in Creds => Listed(s)
  /\ issued < MaxTokens /\ issued' = issued + 1
  /\ tokens' = [tokens EXCEPT ![issued + 1] = s]
  /\ grants' = [grants EXCEPT ![issued + 1] = s]
  /\ UNCHANGED <<rows, next, vault, pc, op, arg, todo, faults, dbFaults, restarts, kills, erased>>

\* Five minutes pass; consume refuses the token and issue purges it.
Expire(k) ==
  /\ tokens[k] # NoSubject
  /\ tokens' = [tokens EXCEPT ![k] = NoSubject]
  /\ UNCHANGED <<rows, next, vault, pc, op, arg, todo, counters, history>>

ConsumeAny(k, s) ==
  /\ tokens[k] # NoSubject
  /\ tokens' = [tokens EXCEPT ![k] = NoSubject]
  /\ kills' = Append(kills, [token |-> k, subject |-> s])

\* A token of another subject stays and confirms nothing.
Consume(k, s) ==
  /\ tokens[k] = s
  /\ tokens' = [tokens EXCEPT ![k] = NoSubject]
  /\ kills' = Append(kills, [token |-> k, subject |-> s])

Revoke(t, c, k, value) ==
  /\ Begin(t, "revoke", "check", Choose(Aim(NoArg, c), value))
  /\ Consume(k, c)
  /\ UNCHANGED <<rows, next, vault, todo, counters, grants, erased>>

\* All that are active; none when their number is not the one expected.
RevokeIssuer(t, k, value) ==
  /\ open
  /\ Begin(t, "bulk", "next", Choose(NoArg, value))
  /\ Consume(k, Issuer)
  /\ todo' \in {[todo EXCEPT ![t] = s] : s \in {Active, {}}}
  /\ UNCHANGED <<rows, next, vault, counters, grants, erased>>

NextOfBulk(t) ==
  /\ pc[t] = "next"
  /\ IF todo[t] = {} THEN Goto(t, "idle") /\ UNCHANGED <<arg, todo>>
     ELSE \E c \in todo[t] :
            /\ arg' = [arg EXCEPT ![t] = Aim(@, c)]
            /\ todo' = [todo EXCEPT ![t] = @ \ {c}]
            /\ Goto(t, "check")
  /\ UNCHANGED <<rows, next, vault, tokens, op, counters, history>>

\* One credential done, with or without an error.
Revoked(t) == Goto(t, IF op[t] = "bulk" THEN "next" ELSE "idle")

Check(t) ==
  /\ pc[t] = "check"
  /\ IF Listed(arg[t].cred) THEN Goto(t, "status") ELSE Revoked(t)
  /\ UNCHANGED <<rows, next, vault, tokens, op, arg, todo, counters, history>>

SetRevoked(t) ==
  /\ pc[t] = "status"
  /\ \/ /\ Update(arg[t].cred, Dead(rows[arg[t].cred]))
        /\ IF arg[t].flag THEN Goto(t, "erase") ELSE Revoked(t)
        /\ UNCHANGED counters
     \/ DbFault /\ Revoked(t) /\ UNCHANGED rows
  /\ UNCHANGED <<next, vault, tokens, op, arg, todo, history>>

EraseUnflushed(t) ==
  /\ pc[t] = "erase" /\ Revoked(t)
  /\ IF open
       THEN /\ mem' = [mem EXCEPT ![Primary(arg[t].cred)] = Absent]
            /\ erased' = erased \cup {arg[t].cred}
       ELSE UNCHANGED <<mem, erased>>
  /\ UNCHANGED <<saved, counters, rows, next, open, tokens, op, arg, todo, grants, kills>>

\* delete_secret (a missing record is fine) and flush under the vault lock.
Erase(t) ==
  /\ pc[t] = "erase" /\ Revoked(t)
  /\ IF open
       THEN /\ mem' = [mem EXCEPT ![Primary(arg[t].cred)] = Absent]
            /\ \/ saved' = mem' /\ erased' = erased \cup {arg[t].cred} /\ UNCHANGED counters
               \/ Fault /\ UNCHANGED <<saved, erased>>
       ELSE UNCHANGED <<mem, saved, erased, counters>>
  /\ UNCHANGED <<rows, next, open, tokens, op, arg, todo, grants, kills>>

-----------------------------------------------------------------------------
(* The vault: unlock, flush by any command that does, lock.                *)

Unlock ==
  /\ ~open /\ open' = TRUE /\ mem' = saved
  /\ UNCHANGED <<rows, next, saved, tokens, pc, op, arg, todo, counters, history>>

Flush ==
  /\ open /\ saved' = mem
  /\ UNCHANGED <<rows, next, open, mem, tokens, pc, op, arg, todo, counters, history>>

LockKeepsRecords ==
  /\ open /\ open' = FALSE /\ saved' = mem
  /\ UNCHANGED <<mem, rows, next, tokens, pc, op, arg, todo, counters, history>>

Lock ==
  /\ open /\ open' = FALSE /\ mem' = Empty /\ saved' = mem
  /\ UNCHANGED <<rows, next, tokens, pc, op, arg, todo, counters, history>>

\* The process ends, by RunEvent::Exit or otherwise, and starts again.
Restart ==
  /\ alone /\ restarts < MaxRestarts /\ restarts' = restarts + 1
  /\ open' = FALSE /\ mem' = Empty
  /\ tokens' = [k \in 1..MaxTokens |-> NoSubject]
  /\ pc' = [t \in Tasks |-> "idle"] /\ todo' = [t \in Tasks |-> {}]
  /\ UNCHANGED <<rows, next, saved, op, arg, issued, faults, dbFaults, history>>

Next ==
  /\ UNCHANGED alone
  /\ \/ \E t \in Tasks :
          \/ \E v \in Values, p, b \in BOOLEAN : Create(t, v, p, b)
          \/ InsertRow(t) \/ PutValues(t) \/ LinkSecond(t)
          \/ \E c \in Creds : Delete(t, c)
          \/ DropValue(t) \/ DeleteRow(t)
          \/ \E c \in Creds, v \in Values : Rotate(t, c, v) \/ Overwrite(t, c, v)
          \/ Replace(t) \/ SetHint(t) \/ OverwriteValue(t)
          \/ \E k \in 1..MaxTokens, f \in BOOLEAN :
               (\E c \in Creds : Revoke(t, c, k, f)) \/ RevokeIssuer(t, k, f)
          \/ NextOfBulk(t) \/ Check(t) \/ SetRevoked(t) \/ Erase(t)
     \/ \E c \in Creds, v \in Values : PullValue(c, v)
     \/ \E s \in Subjects : RequestConfirm(s)
     \/ \E k \in 1..MaxTokens : Expire(k)
     \/ Unlock \/ Flush \/ Lock \/ Restart

Spec == Init /\ [][Next]_vars

-----------------------------------------------------------------------------
(* Properties.                                                             *)

InProgress(c) == \E t \in Tasks : pc[t] \in {"put", "unlist"} /\ arg[t].cred = c

RowsHaveValues ==
  \A c \in Active : ~InProgress(c) =>
    mem[Primary(c)] # Absent /\ (rows[c].second => mem[Secondary(c)] # Absent)

\* An active credential can be revealed while the vault is open, whatever
\* commands overlap: the row and the value of create and delete come and go
\* together, and the kill switch takes a value only from a revoked row.  (A
\* failed statement may keep a row that was to go; for process ends see
\* ActiveSurvivesExit.)
ActiveHasValue == open /\ dbFaults = 0 /\ restarts = 0 => RowsHaveValues

\* A confirmation is for one revoke of the credential, or of the issuer, it was
\* requested for, and nothing is revoked without one.
KillsConfirmed ==
  /\ \A i \in DOMAIN kills : grants[kills[i].token] = kills[i].subject
  /\ \A i, j \in DOMAIN kills : i # j => kills[i].token # kills[j].token
  /\ \A c \in Creds : Listed(c) /\ rows[c].status = "revoked"
       => \E i \in DOMAIN kills : kills[i].subject \in {c, Issuer}

\* A credential killed together with its value leaves no value in the vault,
\* not after a crash either (KillSwitchDialog: "permanently removed").
KilledIsErased ==
  \A s \in Slots : s[1] \in erased => mem[s] = Absent /\ saved[s] = Absent
AloneKilledIsErased == alone => KilledIsErased

\* A credential that is deleted, or was never completed, leaves no value behind
\* in the vault, as long as the process is not cut off.
DeletedLeavesNothing ==
  AllIdle /\ restarts = 0 => \A s \in Slots : ~Listed(s[1]) => mem[s] = Absent
AloneDeletedLeavesNothing == alone => DeletedLeavesNothing

\* Read as promises of the sources; TLC refutes them (see README.md).

\* The value of a credential lives in the vault file (0001_init.sql:27), so an
\* active credential has it after the application was closed and opened again.
ActiveSurvivesExit == open /\ dbFaults = 0 => RowsHaveValues

\* Whatever is listed can be deleted: credential_delete finds its value.
ListedCanBeDeleted ==
  AllIdle /\ open => \A c \in Creds : Listed(c) => mem[Primary(c)] # Absent

\* hash_hint is the end of the value (0001_init.sql, "last 4 chars").
HintShowsValue ==
  AllIdle /\ open => \A c \in Active : rows[c].hint # NoHint => mem[Primary(c)] = rows[c].hint
=============================================================================
