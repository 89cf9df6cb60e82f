-------------------------- MODULE ExtensionBridge --------------------------
(***************************************************************************)
(* What the desktop keeps for the browser extension: the pairing key and   *)
(* the session secret of each extension, in the vault                      *)
(* (commands/ext_pairing.rs, commands/extension_session.rs), the session   *)
(* tokens signed with that secret (secretbank-nm-host/session.rs), and the *)
(* queue of site contexts that requests over the bridge                    *)
(* (services/nm_bridge.rs) push and the MCP server reads.  Commands and    *)
(* bridge requests interleave at each await; the vault lock is released    *)
(* between reading a secret and creating or rotating it.                   *)
(***************************************************************************)
EXTENDS Naturals, Sequences, FiniteSets

CONSTANTS
  Tasks,      \* commands and bridge requests that may run at the same time
  Exts,       \* extension ids
  Default,    \* the one id for which the bridge checks tokens
  Ttls,       \* lifetimes the settings offer
  Capacity,   \* contexts the queue keeps
  Bounds,     \* bounds a behaviour may have: [keys drawn, contexts pushed]
  MaxFaults   \* bound: failed flushes and statements, and restarts

ASSUME ExtensionAssumption ==
  /\ Default \in Exts /\ Ttls # {}
  /\ Capacity \in Nat \ {0} /\ MaxFaults \in Nat
  /\ Bounds \subseteq [keys : Nat, pushes : Nat]

VARIABLES
  open, listening,  \* vault unlocked; bridge accepts connections
  mem, file,        \* per extension: pairing key and session secret, 0 if absent
  keys,             \* keys drawn so far: key n is the n-th random 32 bytes
  ttl, optIn, queue,\* rows of the settings table
  tokens,           \* session tokens handed out
  task,             \* per task: its step, and what the command holds
  faults,
  serial, bound,    \* constants: whether commands do not overlap; the bounds
  pushed,           \* history: contexts answered ok while opted in, the n-th is n
  ended,            \* history: tokens older than a settings change that succeeded
  unset,            \* history: a settings change ended before its last rotation
  crashed           \* history: the process has been restarted

Keys  == Nat
Slots == [priv : Keys, secret : Keys]
Token == [ext : Exts, key : Keys, under : Ttls]
Steps == {"idle", "read", "create", "sign", "setTtl", "list", "rotate",
          "optIn", "queue", "push", "close"}
Job   == [step : Steps, ext : Exts, key : Keys, todo : SUBSET Exts,
          before : SUBSET Token, copy : Seq(Nat), seen : Nat, blank : BOOLEAN]

\* Of a context: how many came before its request read the queue, that this could
\* not be read, and that what was made of it was written.
Push  == [seen : Nat, blank : BOOLEAN, written : BOOLEAN]

Idle  == [step |-> "idle", ext |-> Default, key |-> 0, todo |-> {}, before |-> {},
          copy |-> <<>>, seen |-> 0, blank |-> FALSE]
Empty == [e \in Exts |-> [priv |-> 0, secret |-> 0]]

store   == <<open, listening, mem, file, keys>>
rows    == <<ttl, optIn, queue>>
history == <<pushed, ended, unset, crashed>>
setup   == <<serial, bound>>
vars    == <<store, rows, tokens, task, faults, setup, history>>

\* The setting has changed and the sessions of the old one may still live.
Setting == \E t \in Tasks : task[t].step \in {"list", "rotate"}

TypeOK ==
  /\ open \in BOOLEAN /\ listening \in BOOLEAN
  /\ mem \in [Exts -> Slots] /\ file \in [Exts -> Slots] /\ keys \in Keys
  /\ ttl \in Ttls /\ optIn \in BOOLEAN /\ queue \in Seq(Nat)
  /\ tokens \subseteq Token
  /\ task \in [Tasks -> Job]
  /\ faults \in 0..MaxFaults /\ serial \in BOOLEAN /\ bound \in Bounds
  /\ pushed \in Seq(Push)
  /\ ended \subseteq Token
  /\ unset \in BOOLEAN /\ crashed \in BOOLEAN

Init ==
  /\ open = FALSE /\ listening = FALSE
  /\ mem = Empty /\ file = Empty /\ keys = 0
  /\ ttl \in Ttls /\ optIn = FALSE /\ queue = <<>>
  /\ tokens = {}
  /\ task = [t \in Tasks |-> Idle]
  /\ faults = 0 /\ serial \in BOOLEAN /\ bound \in Bounds
  /\ pushed = <<>> /\ ended = {}
  /\ unset = FALSE /\ crashed = FALSE

Become(t, j)  == task' = [task EXCEPT ![t] = j]
Finish(t)     == Become(t, Idle)
At(t, step)   == task[t].step = step
Moved(t, step) == [task[t] EXCEPT !.step = step]
Fault == faults < MaxFaults /\ faults' = faults + 1

Begin(t) == At(t, "idle") /\ (serial => \A u \in Tasks : At(u, "idle"))

WithPriv(e, k)   == [mem EXCEPT ![e].priv = k]
WithSecret(e, k) == [mem EXCEPT ![e].secret = k]

\* Puts under the vault write lock, then a flush.  A failed flush ends the
\* command and leaves the records in memory.
Store(t, records, then) ==
  /\ mem' = records
  /\ \/ file' = records /\ Become(t, then) /\ UNCHANGED faults
     \/ Fault /\ Finish(t) /\ UNCHANGED file

\* A locked vault refuses a put; so does, here, the bound on keys.
NoKey == ~open \/ keys >= bound.keys

-----------------------------------------------------------------------------
(* Session secrets and tokens.                                             *)

\* extension_session_issue and extension_session_verify start alike: they
\* read the secret, and create it when there is none.
Issue(t, e) ==
  /\ Begin(t) /\ Become(t, [Idle EXCEPT !.step = "read", !.ext = e])
  /\ UNCHANGED <<store, rows, tokens, faults, setup, history>>

\* First lock of get_or_create_session_secret.  A locked vault is an error.
ReadSecretAlwaysNew(t) ==
  /\ At(t, "read")
  /\ IF ~open THEN Finish(t) ELSE Become(t, Moved(t, "create"))
  /\ UNCHANGED <<store, rows, tokens, faults, setup, history>>

ReadSecret(t) ==
  /\ At(t, "read")
  /\ LET key == mem[task[t].ext].secret
     IN  IF ~open THEN Finish(t)
         ELSE IF key = 0 THEN Become(t, Moved(t, "create"))
         ELSE Become(t, [Moved(t, "sign") EXCEPT !.key = key])
  /\ UNCHANGED <<store, rows, tokens, faults, setup, history>>

\* Second lock: whatever is stored by now is overwritten.
CreateSecret(t) ==
  /\ At(t, "create")
  /\ IF NoKey
       THEN Finish(t) /\ UNCHANGED <<mem, file, keys, faults>>
       ELSE /\ keys' = keys + 1
            /\ Store(t, WithSecret(task[t].ext, keys'), [Moved(t, "sign") EXCEPT !.key = keys'])
  /\ UNCHANGED <<open, listening, rows, tokens, setup, history>>

\* read_ttl_setting, then issue_token: the token itself holds no lifetime.
\* A verification reads the lifetime here too and ends without a trace.
Sign(t) ==
  /\ At(t, "sign") /\ Finish(t)
  /\ \/ tokens' = tokens \cup {[ext |-> task[t].ext, key |-> task[t].key, under |-> ttl]}
        /\ UNCHANGED faults
     \/ UNCHANGED <<tokens, faults>>
     \/ Fault /\ UNCHANGED tokens
  /\ UNCHANGED <<store, rows, setup, history>>

\* verify_token: the signature is that of the stored secret.
Accepted(records, k) == records[k.ext].secret = k.key

-----------------------------------------------------------------------------
(* extension_session_settings_set: the lifetime first, then a new secret   *)
(* for each extension the vault knows, so that older tokens end.           *)

ChangeTtl(t) ==
  /\ Begin(t) /\ Become(t, [Idle EXCEPT !.step = "setTtl", !.before = tokens])
  /\ UNCHANGED <<store, rows, tokens, faults, setup, history>>

\* A failed statement is an error.
WriteTtl(t) ==
  /\ At(t, "setTtl")
  /\ \/ ttl' \in Ttls /\ Become(t, Moved(t, "list")) /\ UNCHANGED faults
     \/ Fault /\ Finish(t) /\ UNCHANGED ttl
  /\ UNCHANGED <<store, optIn, queue, tokens, setup, history>>

\* The command ends with an error after the lifetime was written.
GiveUp(t) == Finish(t) /\ unset' = TRUE

\* The ids of all records below device/extension/, whatever their names.
Known == {e \in Exts : mem[e].priv # 0 \/ mem[e].secret # 0}

ListExtensions(t) ==
  /\ At(t, "list")
  /\ IF open THEN Become(t, [Moved(t, "rotate") EXCEPT !.todo = Known]) /\ UNCHANGED unset
             ELSE GiveUp(t)
  /\ UNCHANGED <<store, rows, tokens, faults, setup, pushed, ended, crashed>>

\* rotate_session_secret of the next extension; an error ends the command.
RotateUnflushed(t, e) ==
  /\ At(t, "rotate") /\ e \in task[t].todo
  /\ IF NoKey
       THEN GiveUp(t) /\ UNCHANGED <<mem, file, keys, faults>>
       ELSE /\ keys' = keys + 1 /\ mem' = WithSecret(e, keys')
            /\ Become(t, [task[t] EXCEPT !.todo = @ \ {e}])
            /\ UNCHANGED <<file, faults, unset>>
  /\ UNCHANGED <<open, listening, rows, tokens, setup, pushed, ended, crashed>>

Rotate(t, e) ==
  /\ At(t, "rotate") /\ e \in task[t].todo
  /\ IF NoKey
       THEN GiveUp(t) /\ UNCHANGED <<mem, file, keys, faults>>
       ELSE /\ keys' = keys + 1
            /\ Store(t, WithSecret(e, keys'), [task[t] EXCEPT !.todo = @ \ {e}])
            /\ unset' = (unset \/ faults' # faults)
  /\ UNCHANGED <<open, listening, rows, tokens, setup, pushed, ended, crashed>>

\* Every secret is rotated: the command returns Ok.
SettingsDone(t) ==
  /\ At(t, "rotate") /\ task[t].todo = {} /\ Finish(t)
  /\ ended' = ended \cup task[t].before
  /\ UNCHANGED <<store, rows, tokens, faults, setup, pushed, unset, crashed>>

-----------------------------------------------------------------------------
(* Pairing of an extension, approved in a dialog, and its revocation.      *)

\* process_pairing_decision: key and date are put under one lock.  A locked
\* vault is an error, a rejection only writes the audit log.
Approve(t, e) ==
  /\ Begin(t) /\ ~NoKey
  /\ keys' = keys + 1 /\ Store(t, WithPriv(e, keys'), Idle)
  /\ UNCHANGED <<open, listening, rows, tokens, setup, history>>

\* process_pairing_revoke deletes key and date, and leaves the secret.
Revoke(t, e) ==
  /\ Begin(t) /\ open /\ mem[e].priv # 0
  /\ Store(t, WithPriv(e, 0), Idle)
  /\ UNCHANGED <<open, listening, keys, rows, tokens, setup, history>>

-----------------------------------------------------------------------------
(* The bridge, and the queue of site contexts.                             *)

\* A connection is accepted by serve_loop, and dispatch checks the token of
\* its request, which names no extension: Default is assumed.
MayEnter(k) == listening /\ open /\ k.ext = Default /\ Accepted(mem, k)

Pushing == {u \in Tasks : task[u].step \in {"optIn", "queue", "push"}}

\* mcp_context_push with a valid token.
Request(t, k) ==
  /\ Begin(t) /\ MayEnter(k)
  /\ Len(pushed) + Cardinality(Pushing) < bound.pushes
  /\ Become(t, [Idle EXCEPT !.step = "optIn"])
  /\ UNCHANGED <<store, rows, tokens, faults, setup, history>>

\* Without consent, when that cannot be read, or without a host the context is
\* dropped.
CheckOptIn(t) ==
  /\ At(t, "optIn")
  /\ (optIn /\ Become(t, Moved(t, "queue"))) \/ Finish(t)
  /\ UNCHANGED <<store, rows, tokens, faults, setup, history>>

\* A queue that cannot be read is taken for an empty one.
ReadQueue(t) ==
  /\ At(t, "queue")
  /\ LET job == [Idle EXCEPT !.step = "push", !.seen = Len(pushed)]
     IN  \/ Become(t, [job EXCEPT !.copy = queue]) /\ UNCHANGED faults
         \/ Become(t, [job EXCEPT !.blank = TRUE]) /\ Fault
  /\ UNCHANGED <<store, rows, tokens, setup, history>>

Last(s, n) == SubSeq(s, IF Len(s) > n THEN Len(s) - n + 1 ELSE 1, Len(s))

Pushed(t, written) ==
  pushed' = Append(pushed, [seen |-> task[t].seen, blank |-> task[t].blank, written |-> written])

PushOldest(t) ==
  /\ At(t, "push") /\ Finish(t)
  /\ \/ /\ Pushed(t, TRUE) /\ UNCHANGED faults
        /\ queue' = IF Len(task[t].copy) < Capacity
                      THEN Append(task[t].copy, Len(pushed')) ELSE task[t].copy
     \/ Pushed(t, FALSE) /\ Fault /\ UNCHANGED queue
  /\ UNCHANGED <<store, ttl, optIn, tokens, setup, ended, unset, crashed>>

\* The queue read before is written back with one context more; whether that
\* succeeds or not, the answer is ok.
PushContext(t) ==
  /\ At(t, "push") /\ Finish(t)
  /\ \/ /\ Pushed(t, TRUE) /\ UNCHANGED faults
        /\ queue' = Last(Append(task[t].copy, Len(pushed')), Capacity)
     \/ Pushed(t, FALSE) /\ Fault /\ UNCHANGED queue
  /\ UNCHANGED <<store, ttl, optIn, tokens, setup, ended, unset, crashed>>

SetOptIn(t) ==
  /\ Begin(t) /\ Len(pushed) < bound.pushes /\ optIn' = ~optIn
  /\ UNCHANGED <<store, ttl, queue, tokens, task, faults, setup, history>>

-----------------------------------------------------------------------------
(* Unlock, lock, and the end of the process.                               *)

Unlock(t) ==
  /\ Begin(t) /\ ~open
  /\ open' = TRUE /\ listening' = TRUE /\ mem' = file
  /\ UNCHANGED <<file, keys, rows, tokens, task, faults, setup, history>>

\* vault_lock drops the bridge, which stops accepting; requests under way go on.
Lock(t) ==
  /\ Begin(t) /\ open /\ listening' = FALSE
  /\ Become(t, [Idle EXCEPT !.step = "close"])
  /\ UNCHANGED <<open, mem, file, keys, rows, tokens, faults, setup, history>>

\* The vault flushes what is not on disk; when that fails it stays open.
Close(t) ==
  /\ At(t, "close") /\ Finish(t)
  /\ \/ /\ open' = FALSE /\ UNCHANGED faults
        /\ file' = IF open THEN mem ELSE file
     \/ open /\ Fault /\ UNCHANGED <<open, file>>
  /\ UNCHANGED <<listening, mem, keys, rows, tokens, setup, history>>

Restart ==
  /\ Fault
  /\ open' = FALSE /\ listening' = FALSE /\ mem' = file
  /\ task' = [t \in Tasks |-> Idle] /\ crashed' = TRUE
  /\ unset' = (unset \/ Setting)
  /\ UNCHANGED <<file, keys, rows, tokens, setup, pushed, ended>>

Next ==
  \/ \E t \in Tasks :
       \/ \E e \in Exts : Issue(t, e) \/ Rotate(t, e) \/ Approve(t, e) \/ Revoke(t, e)
       \/ ReadSecret(t) \/ CreateSecret(t) \/ Sign(t)
       \/ ChangeTtl(t) \/ WriteTtl(t) \/ ListExtensions(t) \/ SettingsDone(t)
       \/ \E k \in tokens : Request(t, k)
       \/ CheckOptIn(t) \/ ReadQueue(t) \/ PushContext(t) \/ SetOptIn(t)
       \/ Unlock(t) \/ Lock(t) \/ Close(t)
  \/ Restart

Spec == Init /\ [][Next]_vars

-----------------------------------------------------------------------------
(* Properties.                                                             *)

\* A settings change that succeeds ends every session older than it, in
\* memory and in the file that the next start reads, whatever runs beside it.
ChangeEndsSessions == \A k \in ended : ~Accepted(mem, k) /\ ~Accepted(file, k)

\* A token that is still accepted was handed out under the lifetime that is
\* set now, unless a change is under way or one ended half way: the new
\* lifetime is written before the secrets are rotated, and read after the
\* secret.
AcceptedUnderSetting ==
  \A k \in tokens : open /\ Accepted(mem, k) => k.under = ttl \/ Setting \/ unset

\* Without overlapping commands a session ends only by a settings change (or
\* with a process whose secret had not reached the file): no second issue
\* replaces the secret under which the first one signed.
OnlySettingsEndSessions ==
  [][serial /\ ~crashed' /\ open =>
       \A k \in tokens : Accepted(mem, k) => Accepted(mem', k) \/ Setting]_vars

\* A context that came after n wrote a queue that had been read before n was in
\* it, or that could not be read.
Overwritten(n) ==
  \E m \in (n + 1)..Len(pushed) :
    pushed[m].written /\ (pushed[m].blank \/ pushed[m].seen < n)

\* The queue is full of later ones.
Displaced(q, n) == Len(q) = Capacity /\ \A i \in 1..Len(q) : q[i] > n

InQueue(q, n) == \E i \in 1..Len(q) : q[i] = n

\* The queue is in order, and a context that was written to it stays until there
\* are enough later ones, whatever requests, failed statements and restarts come in
\* between, unless a request wrote back a queue without it that it had read too
\* early or failed to read.
QueueHasLatest ==
  /\ \A i, j \in 1..Len(queue) : i < j => queue[i] < queue[j]
  /\ \A n \in 1..Len(pushed) : pushed[n].written =>
       InQueue(queue, n) \/ Displaced(queue, n) \/ Overwritten(n)

\* Read as a promise of the sources; TLC refutes it (see README.md): the queue is
\* the latest contexts (secretbank-app/src/services/nm_bridge.rs:1247).
QueueIsLatest == queue = Last([n \in 1..Len(pushed) |-> n], Capacity)
=============================================================================
