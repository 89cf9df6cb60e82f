---------------------------- MODULE VaultSettings ----------------------------
(***************************************************************************)
(* What the desktop keeps in the vault for itself: the API keys of the     *)
(* feeds (commands/vault_settings.rs; one key stands for both) and the     *)
(* GitHub installations (commands/github.rs).  A changed key, and every    *)
(* unlock (module CharterRecovery up to there), restart the feed scheduler *)
(* with what the vault holds, behind a fair mutex that a manual refresh    *)
(* holds while it polls (commands/incidents.rs).  Of a poll only its start *)
(* and its end are here (services/feed_scheduler.rs); what it does is      *)
(* module IncidentFeeds.                                                   *)
(***************************************************************************)
EXTENDS CharterRecovery

CONSTANTS
  Keys,           \* API keys
  NoKey,          \* the setting is not there
  Installations,  \* installation ids
  Feeds,          \* feeds that are polled without a key
  KeyFeeds,       \* feeds that are polled with one
  Answers         \* every request of a poll ends

ASSUME SettingsAssumption == Answers \in BOOLEAN /\ IsFiniteSet(Tasks)

Pollers == Feeds \cup KeyFeeds

VARIABLES
  mem, saved,     \* the records in the open vault, and in its file
  config,         \* the key of the running scheduler
  queue,          \* tasks on feed_scheduler.lock(), its holder first
  alive,          \* the pollers of the scheduler that have not ended
  polling,        \* those of them that are inside a poll
  view,           \* per task: the key, or the list, it has read
  target,         \* per task: the key, or the installation, of its command
  settings,       \* commands so far
  acked,          \* history: installations reported as saved, and not removed since
  torn            \* history: a command used what another had changed, or failed to set a key

records == <<mem, saved>>
scheduler == <<config, queue, alive, polling>>
commands == <<view, target, settings>>
settingsVars == <<records, scheduler, commands, acked, torn>>
vars == <<charterVars, settingsVars>>

Records == [key : Keys \cup {NoKey}, installs : SUBSET Installations]
Empty   == [key |-> NoKey, installs |-> {}]

TypeOK ==
  /\ CharterTypeOK
  /\ mem \in Records /\ saved \in Records
  /\ config \in Keys \cup {NoKey} /\ alive \subseteq Pollers /\ polling \subseteq alive
  /\ queue \in Seq(Tasks) /\ Len(queue) <= Cardinality(Tasks)
  /\ view \in [Tasks -> Records]
  /\ target \in [Tasks -> Keys \cup {NoKey} \cup Installations]
  /\ settings \in 0..setup.settings
  /\ acked \subseteq Installations /\ torn \in BOOLEAN

\* The pollers a scheduler with that key starts with.
Spawned(k) == IF ~setup.polls THEN {} ELSE IF k = NoKey THEN Feeds ELSE Pollers

Init ==
  /\ CharterInit
  /\ mem = Empty /\ saved = Empty
  /\ config = NoKey /\ queue = <<>> /\ alive = Spawned(NoKey) /\ polling = {}
  /\ view = [t \in Tasks |-> Empty] /\ target = [t \in Tasks |-> NoKey]
  /\ settings = 0 /\ acked = {} /\ torn = FALSE

\* A command that leaves the charter and the sidecar alone.
Aside == UNCHANGED <<setup, charter, cooldown, edits, history>>

Asked(t, o, s, x) ==
  /\ open /\ Begin(t, o, s) /\ target' = [target EXCEPT ![t] = x]
  /\ settings < setup.settings /\ settings' = settings + 1
  /\ Aside /\ UNCHANGED <<faults, records, scheduler, view, torn>>

\* put_secret or delete_secret, then flush.  A failed flush leaves the records
\* changed in memory, and ends the command.
Stored(t, rs, next) ==
  \/ /\ ~open /\ Goto(t, "idle")
     /\ UNCHANGED <<faults, records>>
  \/ /\ open /\ mem' = rs
     /\ \/ saved' = rs /\ Goto(t, next) /\ UNCHANGED faults
        \/ Fault /\ Goto(t, "idle") /\ UNCHANGED saved

Forget(t) == target' = [target EXCEPT ![t] = NoKey]

-----------------------------------------------------------------------------
(* vault_setting_set, and vault_unlock from the opened vault on.           *)

Set(t, k) == Asked(t, "set", "put", k) /\ UNCHANGED acked

\* A task that has read the key and is not yet in the queue for the scheduler.
Overtaken(t) == \E u \in Tasks \ {t} : step[u] = "queue"

Put(t) ==
  /\ step[t] = "put" /\ Stored(t, [mem EXCEPT !.key = target[t]], "keys")
  /\ Forget(t) /\ UNCHANGED view
  /\ torn' = (torn \/ Overtaken(t) \/ step'[t] = "idle")
  /\ Aside /\ UNCHANGED <<scheduler, settings, acked>>

OpenVault(t) ==
  /\ Open(t) /\ mem' = IF open THEN mem ELSE saved
  /\ torn' = (torn \/ Overtaken(t))
  /\ UNCHANGED <<saved, scheduler, commands, acked>>

\* reconfigure_feed_scheduler: the keys are read under the vault's lock, and as
\* absent from a locked one; the scheduler's lock is asked for after that.
ReadKeys(t) ==
  /\ step[t] = "keys" /\ Goto(t, "queue")
  /\ view' = [view EXCEPT ![t].key = IF open THEN mem.key ELSE NoKey]
  /\ Aside /\ UNCHANGED <<faults, records, scheduler, target, settings, acked, torn>>

Enqueue(t) ==
  /\ step[t] = "queue" /\ Goto(t, "take")
  /\ queue' = Append(queue, t)
  /\ Aside /\ UNCHANGED <<faults, records, config, alive, polling, commands, acked, torn>>

\* The old scheduler is cancelled: its pollers are to end.
Cancel(t) ==
  /\ step[t] = "take" /\ op[t] \in {"unlock", "set"} /\ Head(queue) = t /\ Goto(t, "join")
  /\ Aside /\ UNCHANGED <<faults, records, scheduler, commands, acked, torn>>

RespawnKeeping(t) ==
  /\ step[t] = "join" /\ alive = {} /\ Goto(t, "idle")
  /\ config' = IF view[t].key = NoKey THEN config ELSE view[t].key
  /\ alive' = Spawned(config') /\ queue' = Tail(queue) /\ view' = [view EXCEPT ![t] = Empty]
  /\ Aside /\ UNCHANGED <<faults, records, polling, target, settings, acked, torn>>

\* They have ended, the polls they were inside included; the new scheduler is
\* spawned.
Respawn(t) ==
  /\ step[t] = "join" /\ alive = {} /\ Goto(t, "idle")
  /\ config' = view[t].key /\ alive' = Spawned(config') /\ queue' = Tail(queue)
  /\ view' = [view EXCEPT ![t] = Empty]
  /\ Aside /\ UNCHANGED <<faults, records, polling, target, settings, acked, torn>>

-----------------------------------------------------------------------------
(* The pollers, and incident_feed_refresh.                                 *)

Cancelled == \E t \in Tasks : step[t] = "join"

\* A tick.  It may be taken even when the scheduler is cancelled: where both are
\* ready the poller picks at random.
StartPoll(p) ==
  /\ p \in alive \ polling /\ polling' = polling \cup {p}
  /\ UNCHANGED <<charterVars, records, config, queue, alive, commands, acked, torn>>

EndPoll(p) ==
  /\ p \in polling /\ polling' = polling \ {p}
  /\ UNCHANGED <<charterVars, records, config, queue, alive, commands, acked, torn>>

StopFeeds(p) ==
  /\ Cancelled /\ p \in Feeds \cap (alive \ polling) /\ alive' = alive \ {p}
  /\ UNCHANGED <<charterVars, records, config, queue, polling, commands, acked, torn>>

\* Between two polls a poller sees that it is cancelled.
Stop(p) ==
  /\ Cancelled /\ p \in alive \ polling /\ alive' = alive \ {p}
  /\ UNCHANGED <<charterVars, records, config, queue, polling, commands, acked, torn>>

Refresh(t) ==
  /\ open /\ Begin(t, "refresh", "queue")
  /\ Aside /\ UNCHANGED <<faults, settingsVars>>

Trigger(t) ==
  /\ step[t] = "take" /\ op[t] = "refresh" /\ Head(queue) = t /\ Goto(t, "refresh")
  /\ Aside /\ UNCHANGED <<faults, settingsVars>>

EndRefresh(t) ==
  /\ step[t] = "refresh" /\ Goto(t, "idle") /\ queue' = Tail(queue)
  /\ Aside /\ UNCHANGED <<faults, records, config, alive, polling, commands, acked, torn>>

-----------------------------------------------------------------------------
(* github_save_installation and github_remove_installation.                *)

Save(t, i) == Asked(t, "save", "list", i) /\ UNCHANGED acked
Drop(t, i) == Asked(t, "drop", "list", i) /\ acked' = acked \ {i}

\* read_installations; the vault's lock is released.
ReadList(t) ==
  /\ step[t] = "list"
  /\ IF open THEN /\ view' = [view EXCEPT ![t].installs = mem.installs]
                  /\ Goto(t, "write") /\ UNCHANGED target
             ELSE Goto(t, "idle") /\ Forget(t) /\ UNCHANGED view
  /\ Aside /\ UNCHANGED <<faults, records, scheduler, settings, acked, torn>>

EditedAlone(t) == IF op[t] = "save" THEN {target[t]} ELSE view[t].installs \ {target[t]}

Edited(t) ==
  IF op[t] = "save" THEN view[t].installs \cup {target[t]}
                    ELSE view[t].installs \ {target[t]}

Dropping(i) == \E t \in Tasks : op[t] = "drop" /\ target[t] = i /\ step[t] \in {"list", "write"}

\* write_installations overwrites whatever the list is by now.
WriteList(t) ==
  /\ step[t] = "write" /\ Stored(t, [mem EXCEPT !.installs = Edited(t)], "idle")
  /\ acked' = IF op[t] = "save" /\ open /\ faults' = faults /\ ~Dropping(target[t])
                THEN acked \cup {target[t]} ELSE acked
  /\ torn' = (torn \/ \E u \in Tasks \ {t} : step[u] = "write")
  /\ Forget(t) /\ view' = [view EXCEPT ![t] = Empty]
  /\ Aside /\ UNCHANGED <<scheduler, settings>>

-----------------------------------------------------------------------------
(* The vault is locked, the process ends, everything together.             *)

\* vault_lock saves what is not saved, and fails with that.
LockVault ==
  /\ open
  /\ \/ saved' = mem /\ open' = FALSE /\ UNCHANGED faults
     \/ mem # saved /\ Fault /\ UNCHANGED <<saved, open>>
  /\ UNCHANGED <<setup, file, issues, papers, draft, cooldown, step, op, edits, history>>
  /\ UNCHANGED <<mem, scheduler, commands, acked, torn>>

\* At the start the scheduler has no key.
Restart ==
  /\ Restarted
  /\ config' = NoKey /\ queue' = <<>> /\ alive' = Spawned(NoKey) /\ polling' = {}
  /\ view' = [t \in Tasks |-> Empty] /\ target' = [t \in Tasks |-> NoKey]
  /\ UNCHANGED <<records, settings, acked, torn>>

Step(t) ==
  \/ CharterStep(t) /\ UNCHANGED settingsVars
  \/ OpenVault(t)
  \/ \E k \in Keys \cup {NoKey} : Set(t, k)
  \/ Put(t) \/ ReadKeys(t) \/ Enqueue(t) \/ Cancel(t) \/ Respawn(t)
  \/ Refresh(t) \/ Trigger(t) \/ EndRefresh(t)
  \/ \E i \in Installations : Save(t, i) \/ Drop(t, i)
  \/ ReadList(t) \/ WriteList(t)

Next ==
  \/ \E t \in Tasks : Step(t)
  \/ Expire /\ UNCHANGED settingsVars
  \/ \E p \in Pollers : StartPoll(p) \/ EndPoll(p) \/ Stop(p)
  \/ LockVault \/ Restart

\* A command that has started goes on; a poll, and a refresh, end if the feeds
\* answer; a cancelled poller does not start a poll for ever.
Continue(t) ==
  \/ (Read(t) \/ WriteTmp(t) \/ RemoveOld(t) \/ Rename(t) \/ CooldownFails(t)
        \/ Answer(t) \/ Check(t) \/ WrongPassword(t)) /\ UNCHANGED settingsVars
  \/ OpenVault(t) \/ Put(t) \/ ReadKeys(t) \/ Enqueue(t) \/ Cancel(t) \/ Respawn(t) \/ Trigger(t)
  \/ ReadList(t) \/ WriteList(t)

Fairness ==
  /\ \A t \in Tasks : WF_vars(Continue(t))
  /\ SF_vars(\E p \in Pollers : Stop(p))
  /\ Answers => /\ \A p \in Pollers : WF_vars(EndPoll(p))
                /\ \A t \in Tasks : WF_vars(EndRefresh(t))

Spec == Init /\ [][Next]_vars /\ Fairness

-----------------------------------------------------------------------------
(* Properties.                                                             *)

\* When no command is under way and the vault is open and all of it saved, the
\* scheduler polls with the key the vault holds, however long the polls were
\* that the commands waited for; and an installation reported as saved is in the
\* vault's file until it is removed, whatever other settings, locks, recoveries,
\* failed flushes and crashes come in between.  Except where a key was changed
\* while another command had read the old one and was not yet in the queue, or the
\* change was answered with an error, or the list was written by two commands that
\* both had read it.
SettingsKept ==
  torn \/ /\ AllIdle /\ open /\ mem = saved => config = mem.key
          /\ acked \subseteq saved.installs

\* Both without the exceptions.
SchedulerFollows == AllIdle /\ open /\ mem = saved => config = mem.key
InstallsKept     == acked \subseteq saved.installs

\* Every command ends, if the feeds answer.
CommandsEnd == \A t \in Tasks : step[t] # "idle" ~> step[t] = "idle"
=============================================================================
