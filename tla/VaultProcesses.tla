---------------------------- MODULE VaultProcesses ----------------------------
(***************************************************************************)
(* The programs that open one data directory beside each other: the        *)
(* desktop application, the invocations of the command line tool           *)
(* (secretbank-cli/src/main.rs) and the MCP server (secretbank-mcp/src/    *)
(* main.rs).  They share vault.db, a row per credential, and vault.age,    *)
(* the values; each holds in memory the records it read when it unlocked,  *)
(* and whoever flushes replaces the whole file.  Nothing locks the file.   *)
(* Copied values meet in the clipboard, which each program clears in its   *)
(* own way.  The steps of one flush are AgeVault's, the interleaving of    *)
(* the desktop's own commands is CredentialStore's.                        *)
(***************************************************************************)
EXTENDS Naturals, Sequences, FiniteSets

CONSTANTS
  Creds,        \* credentials
  Values,       \* values
  Absent,       \* no record of the credential
  NoText,       \* an empty clipboard
  UserText,     \* something else the user copied
  Tools,        \* invocations of the command line tool that run at a time
  Quota,        \* reveal_per_hour (30 by default)
  Hour,         \* ticks of the clock in 3600 s
  MaxNow,       \* bound: ticks
  MaxCopies,    \* bound: copies to the clipboard
  MaxFaults     \* bound: failed flushes and clears, and programs that are ended

ASSUME ProcessesAssumption ==
  /\ Quota \in Nat \ {0} /\ Hour \in Nat /\ MaxNow \in Nat
  /\ MaxCopies \in Nat /\ MaxFaults \in Nat
  /\ Absent \notin Values /\ NoText \notin Values /\ UserText \notin Values
  /\ NoText # UserText

VARIABLES
  turns,                    \* who writes the file has it alone from unlock to flush
  rows, file,               \* vault.db: status per credential; vault.age
  open, recs, dirty,        \* the desktop's storage object
  marked,                   \* revoked by the desktop, the value not yet erased
  cli,                      \* the invocation in each slot
  up, held, hist, now,      \* the MCP server: running, its records, reveal_history; clock
  clip, copies, timer,      \* the clipboard; desktop copies before their timer; the timer
  copied, faults,           \* counters
  left,                     \* history: who was to clear the clipboard's value has not
  acked, killed, answered   \* history: credentials `add` reported, values whose erasure
                            \* was saved, when the server of now revealed

disk      == <<rows, file>>
desktop   == <<open, recs, dirty, marked>>
server    == <<up, held, hist, now, answered>>
clipboard == <<clip, copies, timer, copied, left>>
reports   == <<acked, killed>>
vars == <<turns, rows, file, open, recs, dirty, marked, cli, up, held, hist, now,
          clip, copies, timer, copied, left, faults, acked, killed, answered>>

Statuses == {"new", "active", "revoked", "deleted"}
Records  == [Creds -> Values \cup {Absent}]
Empty    == [c \in Creds |-> Absent]

\* An invocation: its command, the credentials it is about, the records it read,
\* the value it adds or copied, and what was already erased when it read.
Idle == [step |-> "idle", creds |-> {}, recs |-> Empty, value |-> Absent, dead |-> {}]
Steps == {"idle", "add", "added", "put", "reveal", "got", "wait", "clear",
          "run", "unlock", "child"}
Invocation == [step : Steps, creds : SUBSET Creds, recs : Records,
               value : Values \cup {Absent}, dead : SUBSET Creds]

TypeOK ==
  /\ turns \in BOOLEAN
  /\ rows \in [Creds -> Statuses] /\ file \in Records
  /\ open \in BOOLEAN /\ recs \in Records /\ dirty \in BOOLEAN
  /\ marked \in SUBSET Creds
  /\ cli \in [Tools -> Invocation]
  /\ up \in BOOLEAN /\ held \in Records
  /\ hist \in Seq(0..MaxNow) /\ now \in 0..MaxNow
  /\ clip \in Values \cup {NoText, UserText}
  /\ copies \in 0..MaxCopies /\ timer \in BOOLEAN /\ copied \in 0..MaxCopies
  /\ left \in BOOLEAN
  /\ faults \in 0..MaxFaults
  /\ acked \in SUBSET Creds /\ killed \in SUBSET Creds
  /\ answered \in Seq(0..MaxNow)

Init ==
  /\ turns \in BOOLEAN
  /\ rows = [c \in Creds |-> "new"] /\ file = Empty
  /\ open = FALSE /\ recs = Empty /\ dirty = FALSE /\ marked = {}
  /\ cli = [t \in Tools |-> Idle]
  /\ up = FALSE /\ held = Empty /\ hist = << >> /\ now = 0
  /\ clip = NoText /\ copies = 0 /\ timer = FALSE /\ copied = 0 /\ left = FALSE
  /\ faults = 0
  /\ acked = {} /\ killed = {} /\ answered = << >>

-----------------------------------------------------------------------------
Fault == faults < MaxFaults /\ faults' = faults + 1
NoFault == UNCHANGED faults

Active == {c \in Creds : rows[c] = "active"}
Listed == {c \in Creds : rows[c] \in {"active", "revoked"}}

\* An identifier nobody drew yet.
Fresh(c) == rows[c] = "new" /\ \A t \in Tools : c \notin cli[t].creds

\* An `add` that has read the file and may yet write it.
Adding(t) == cli[t].step \in {"added", "put"}

-----------------------------------------------------------------------------
(* The desktop application.                                                *)

\* The payload is read again at every unlock.
Unlock ==
  /\ ~open /\ (turns => \A t \in Tools : ~Adding(t))
  /\ open' = TRUE /\ recs' = file
  /\ UNCHANGED <<disk, dirty, marked, cli, server, clipboard, faults, reports>>

\* credential_create and credential_delete leave the file to a later flush.
Create(c, v) ==
  /\ open /\ Fresh(c)
  /\ rows' = [rows EXCEPT ![c] = "active"]
  /\ recs' = [recs EXCEPT ![c] = v] /\ dirty' = TRUE
  /\ UNCHANGED <<file, open, marked, cli, server, clipboard, faults, reports>>

Delete(c) ==
  /\ open /\ c \in Listed /\ recs[c] # Absent
  /\ recs' = [recs EXCEPT ![c] = Absent] /\ dirty' = TRUE
  /\ rows' = [rows EXCEPT ![c] = "deleted"]
  /\ UNCHANGED <<file, open, marked, cli, server, clipboard, faults, reports>>

\* credential_rotate_value: put and flush; a failed flush leaves the record.
Rotate(c, v) ==
  /\ open /\ c \in Active
  /\ recs' = [recs EXCEPT ![c] = v]
  /\ \/ file' = recs' /\ dirty' = FALSE /\ NoFault
     \/ dirty' = TRUE /\ Fault /\ UNCHANGED file
  /\ UNCHANGED <<rows, open, marked, cli, server, clipboard, reports>>

\* The kill switch: the status, then, if asked for, the value.
Revoke(c, erase) ==
  /\ open /\ c \in Active
  /\ rows' = [rows EXCEPT ![c] = "revoked"]
  /\ marked' = IF erase THEN marked \cup {c} ELSE marked
  /\ UNCHANGED <<file, open, recs, dirty, cli, server, clipboard, faults, reports>>

EraseUnflushed(c) ==
  /\ c \in marked /\ marked' = marked \ {c}
  /\ IF open
       THEN /\ recs' = [recs EXCEPT ![c] = Absent] /\ dirty' = TRUE
            /\ killed' = killed \cup {c}
       ELSE UNCHANGED <<recs, dirty, killed>>
  /\ UNCHANGED <<disk, open, cli, server, clipboard, acked, faults>>

Erase(c) ==
  /\ c \in marked /\ marked' = marked \ {c}
  /\ IF open
       THEN /\ recs' = [recs EXCEPT ![c] = Absent]
            /\ \/ file' = recs' /\ dirty' = FALSE /\ killed' = killed \cup {c} /\ NoFault
               \/ dirty' = TRUE /\ Fault /\ UNCHANGED <<file, killed>>
       ELSE UNCHANGED <<file, recs, dirty, killed, faults>>
  /\ UNCHANGED <<rows, open, cli, server, clipboard, acked>>

\* lock writes what is not yet in the file.
Lock ==
  /\ open /\ open' = FALSE /\ dirty' = FALSE /\ recs' = Empty
  /\ file' = IF dirty THEN recs ELSE file
  /\ UNCHANGED <<rows, marked, cli, server, clipboard, faults, reports>>

Overwrite(x) == clip' = x /\ left' = FALSE

\* credential_copy_to_clipboard: the value is written, then spawn_timer, behind
\* the lock of the controller, aborts the timer there is and starts another.
Copy(c) ==
  /\ open /\ c \in Listed /\ recs[c] # Absent /\ copied < MaxCopies
  /\ Overwrite(recs[c]) /\ copies' = copies + 1 /\ copied' = copied + 1
  /\ UNCHANGED <<disk, desktop, cli, server, timer, faults, reports>>

SpawnTimerOnce ==
  /\ copies > 0 /\ copies' = copies - 1 /\ timer' = ~timer
  /\ UNCHANGED <<disk, desktop, cli, server, clip, copied, left, faults, reports>>

SpawnTimer ==
  /\ copies > 0 /\ copies' = copies - 1 /\ timer' = TRUE
  /\ UNCHANGED <<disk, desktop, cli, server, clip, copied, left, faults, reports>>

\* Whatever the clipboard holds by then.  A failure is ignored, and nobody tries
\* again.
TimerClears ==
  /\ timer /\ timer' = FALSE
  /\ \/ Overwrite(NoText) /\ NoFault
     \/ Fault /\ left' = (left \/ clip \in Values) /\ UNCHANGED clip
  /\ UNCHANGED <<disk, desktop, cli, server, copies, copied, reports>>

\* The application exits, or is ended.
DesktopEnds ==
  /\ Fault
  /\ open' = FALSE /\ recs' = Empty /\ dirty' = FALSE /\ marked' = {}
  /\ copies' = 0 /\ timer' = FALSE
  /\ left' = (left \/ (clip \in Values /\ (timer \/ copies > 0)))
  /\ UNCHANGED <<disk, cli, server, clip, copied, reports>>

-----------------------------------------------------------------------------
(* The command line tool: one command per invocation, and the passphrase   *)
(* asked for by each, so that any time passes before the file is read.     *)

Become(t, inv) == cli' = [cli EXCEPT ![t] = inv]

\* cmd_add: what was decided before the prompt does not involve the vault.
Add(t, c, v) ==
  /\ cli[t] = Idle /\ Fresh(c)
  /\ Become(t, [Idle EXCEPT !.step = "add", !.creds = {c}, !.value = v])
  /\ UNCHANGED <<disk, desktop, server, clipboard, faults, reports>>

AddUnlock(t) ==
  /\ cli[t].step = "add"
  /\ turns => ~open /\ \A u \in Tools : ~Adding(u)
  /\ Become(t, [cli[t] EXCEPT !.step = "added", !.recs = file])
  /\ UNCHANGED <<disk, desktop, server, clipboard, faults, reports>>

AddRow(t) ==
  /\ cli[t].step = "added"
  /\ rows' = [c \in Creds |-> IF c \in cli[t].creds THEN "active" ELSE rows[c]]
  /\ Become(t, [cli[t] EXCEPT !.step = "put"])
  /\ UNCHANGED <<file, desktop, server, clipboard, faults, reports>>

AddPut(t) ==
  /\ cli[t].step = "put" /\ Become(t, Idle)
  /\ acked' = acked \cup cli[t].creds
  /\ UNCHANGED <<disk, desktop, server, clipboard, faults, killed>>

\* put and flush; on an error the row is deleted again, if that succeeds.
AddFlush(t) ==
  /\ cli[t].step = "put" /\ Become(t, Idle)
  /\ LET mine == cli[t].creds
     IN  \/ /\ file' = [c \in Creds |-> IF c \in mine THEN cli[t].value ELSE cli[t].recs[c]]
            /\ acked' = acked \cup mine /\ NoFault /\ UNCHANGED rows
         \/ /\ Fault /\ UNCHANGED <<file, acked>>
            /\ \/ rows' = [c \in Creds |-> IF c \in mine THEN "deleted" ELSE rows[c]]
               \/ UNCHANGED rows
  /\ UNCHANGED <<desktop, server, clipboard, killed>>

\* cmd_reveal: a row with any status will do.
Reveal(t, c) ==
  /\ cli[t] = Idle /\ c \in Listed /\ copied < MaxCopies
  /\ Become(t, [Idle EXCEPT !.step = "reveal", !.creds = {c}])
  /\ UNCHANGED <<disk, desktop, server, clipboard, faults, reports>>

\* The value is printed, which ends the command, or copied, to be cleared later
\* or, with `--clear-after 0`, never.
RevealCopies(t) ==
  /\ cli[t].step = "reveal"
  /\ \E c \in cli[t].creds :
       \/ /\ file[c] # Absent /\ copied < MaxCopies /\ copied' = copied + 1
          /\ \/ /\ Overwrite(file[c])
                /\ Become(t, [Idle EXCEPT !.step = "wait", !.value = file[c]])
             \/ clip' = file[c] /\ left' = TRUE /\ Become(t, Idle)
       \/ Become(t, Idle) /\ UNCHANGED <<clip, copied, left>>
  /\ UNCHANGED <<disk, desktop, server, copies, timer, faults, reports>>

\* The command is done with a clipboard it could not read or write, and says so
\* to nobody.
Unable(t) ==
  /\ Fault /\ Become(t, Idle)
  /\ left' = (left \/ clip = cli[t].value) /\ UNCHANGED clip

\* clear_after_secs have passed: look, and clear only one's own value.
LookBeforeClear(t) ==
  /\ cli[t].step = "wait"
  /\ \/ /\ Become(t, IF clip = cli[t].value THEN [cli[t] EXCEPT !.step = "clear"] ELSE Idle)
        /\ NoFault /\ UNCHANGED <<clip, left>>
     \/ Unable(t)
  /\ UNCHANGED <<disk, desktop, server, copies, timer, copied, reports>>

Clear(t) ==
  /\ cli[t].step = "clear"
  /\ \/ Become(t, Idle) /\ Overwrite(NoText) /\ NoFault
     \/ Unable(t)
  /\ UNCHANGED <<disk, desktop, server, copies, timer, copied, reports>>

\* cmd_run: every credential of the project is looked up, refused unless active,
\* then the vault is unlocked once for all of them.
Run(t, cs) ==
  /\ cli[t] = Idle /\ cs # {} /\ cs \subseteq Active
  /\ Become(t, [Idle EXCEPT !.step = "run", !.creds = cs])
  /\ UNCHANGED <<disk, desktop, server, clipboard, faults, reports>>

\* A missing value ends the command before a child is started.
RunUnlock(t) ==
  /\ cli[t].step = "run"
  /\ Become(t, IF \A c \in cli[t].creds : file[c] # Absent
               THEN [cli[t] EXCEPT !.step = "child", !.recs = file, !.dead = killed]
               ELSE Idle)
  /\ UNCHANGED <<disk, desktop, server, clipboard, faults, reports>>

ChildEnds(t) ==
  /\ cli[t].step = "child" /\ Become(t, Idle)
  /\ UNCHANGED <<disk, desktop, server, clipboard, faults, reports>>

\* Has copied its value to the clipboard and is to clear it.
ToClear(t) == cli[t].step \in {"wait", "clear"}

\* Interrupted at the prompt, while it waits, or anywhere else.
ToolEnds(t) ==
  /\ cli[t] # Idle /\ Fault /\ Become(t, Idle)
  /\ left' = (left \/ (ToClear(t) /\ clip = cli[t].value))
  /\ UNCHANGED <<disk, desktop, server, clip, copies, timer, copied, reports>>

-----------------------------------------------------------------------------
(* The MCP server: unlocked when it starts, one request after the other.   *)

ServerStarts ==
  /\ ~up /\ up' = TRUE /\ held' = file
  /\ hist' = << >> /\ answered' = << >>
  /\ UNCHANGED <<disk, desktop, cli, now, clipboard, faults, reports>>

ServerStops ==
  /\ up /\ up' = FALSE /\ held' = Empty
  /\ hist' = << >> /\ answered' = << >>
  /\ UNCHANGED <<disk, desktop, cli, now, clipboard, faults, reports>>

YoungOrNone(h) == IF h # << >> /\ Head(h) + Hour < now THEN << >> ELSE h

\* The front of reveal_history is dropped as long as it is older than an hour.
Old(h) ==
  CHOOSE n \in 0..Len(h) : /\ \A i \in 1..n : h[i] + Hour < now
                           /\ n < Len(h) => h[n + 1] + Hour >= now
Young(h) == SubSeq(h, Old(h) + 1, Len(h))

\* A request counts before its credential is looked up.
ServerReveals(c) ==
  /\ up
  /\ IF Len(Young(hist)) >= Quota
       THEN hist' = Young(hist) /\ UNCHANGED answered
       ELSE /\ hist' = Append(Young(hist), now)
            /\ answered' = IF c \in Active /\ held[c] # Absent
                           THEN Append(answered, now) ELSE answered
  /\ UNCHANGED <<disk, desktop, cli, up, held, now, clipboard, faults, reports>>

Tick ==
  /\ up /\ now < MaxNow /\ now' = now + 1
  /\ UNCHANGED <<disk, desktop, cli, up, held, hist, answered, clipboard, faults, reports>>

UserCopies ==
  /\ clip # UserText /\ Overwrite(UserText)
  /\ UNCHANGED <<disk, desktop, cli, server, copies, timer, copied, faults, reports>>

Next ==
  /\ UNCHANGED turns
  /\ \/ Unlock \/ Lock \/ SpawnTimer \/ TimerClears \/ DesktopEnds
     \/ \E c \in Creds :
          \/ \E v \in Values : Create(c, v) \/ Rotate(c, v)
          \/ \E e \in BOOLEAN : Revoke(c, e)
          \/ Delete(c) \/ Erase(c) \/ Copy(c) \/ ServerReveals(c)
     \/ \E t \in Tools :
          \/ \E c \in Creds, v \in Values : Add(t, c, v)
          \/ AddUnlock(t) \/ AddRow(t) \/ AddFlush(t)
          \/ \E c \in Creds : Reveal(t, c)
          \/ RevealCopies(t) \/ LookBeforeClear(t) \/ Clear(t)
          \/ \E cs \in SUBSET Creds : Run(t, cs)
          \/ RunUnlock(t) \/ ChildEnds(t) \/ ToolEnds(t)
     \/ ServerStarts \/ ServerStops \/ Tick \/ UserCopies

Spec == Init /\ [][Next]_vars

-----------------------------------------------------------------------------
(* Properties.                                                             *)

\* A credential `add` reported has its value in the file until it is revoked or
\* deleted, when writers take turns: the desktop, locked while the tool adds,
\* reads the file again before it writes it.
AckedSurvives == turns => \A c \in acked \cap Active : file[c] # Absent

\* `run` hands a child no value whose erasure by the kill switch was saved
\* before the tool read the file: the check of the status comes before the
\* prompt, and it is the missing record that stops a revoke made meanwhile.
RunInjectsLive ==
  turns => \A t \in Tools : cli[t].step = "child" => cli[t].creds \cap cli[t].dead = {}

\* In no hour does the server answer more reveals than the quota.
QuotaHeld ==
  \A i \in DOMAIN answered :
    Cardinality({j \in 1..i : answered[j] + Hour >= answered[i]}) <= Quota

\* Someone is about to clear a copied secret, a timer of the desktop, the copy
\* that will start one, or the tool that copied it, unless the user asked the tool
\* not to, or whoever was to clear this copy has tried and failed or was ended: no
\* order of copies, timers and clears leaves a secret that nobody is to clear.
SecretHasTimer ==
  clip \in Values /\ ~left =>
    \/ timer \/ copies > 0
    \/ \E t \in Tools : ToClear(t) /\ cli[t].value = clip

\* Read as promises of the sources; TLC refutes them (see README.md).

\* The same without turns: the desktop and the tool use one vault
\* (secretbank-cli/src/main.rs:18, "단일 vault").
AckedAlways == \A c \in acked \cap Active : file[c] # Absent

\* "Returns once the clear is done so the binary's exit guarantees the clipboard
\* no longer holds the secret." (secretbank-cli/src/main.rs:600)
ExitClears ==
  [][\A t \in Tools :
       LookBeforeClear(t) \/ Clear(t) => ToClear(t)' \/ clip' # cli[t].value]_vars

\* "the MCP server queries the live desktop session. Lock = empty."
\* (docs/USER_GUIDE.en.md:629)
LockedServerEmpty ==
  [][answered' = Append(answered, now) => open]_vars

=============================================================================
