------------------------ MODULE VaultSettingsProofs ------------------------
(***************************************************************************)
(* Proofs about CharterRecovery and VaultSettings together, for any        *)
(* commands, keys, installations, setups and bounds.                       *)
(***************************************************************************)
EXTENDS VaultSettings, FiniteSetTheorems, SequenceTheorems, TLAPS

\* Which commands come to which steps.
Writers == {"recover", "enable", "disable", "clear"}
OpsAt(s) ==
  CASE s = "idle" -> {"none"}
    [] s \in {"read", "tmp", "remove", "rename"} -> Writers
    [] s = "answer" -> Writers \cup {"init"}
    [] s \in {"check", "open"} -> {"unlock"}
    [] s \in {"keys", "join"} -> {"unlock", "set"}
    [] s \in {"queue", "take"} -> {"unlock", "set", "refresh"}
    [] s \in {"list", "write"} -> {"save", "drop"}
    [] s = "put" -> {"set"}
    [] s = "refresh" -> {"refresh"}

\* A command is about what it was given.
OpInv ==
  \A t \in Tasks :
    /\ op[t] \in OpsAt(step[t])
    /\ step[t] = "put" => target[t] \in Keys \cup {NoKey}
    /\ step[t] \in {"list", "write"} => target[t] \in Installations

\* The tasks that have asked for the scheduler, one at each place; what is done
\* with it is done by the first.
Holding == {"take", "join", "refresh"}
QueueInv ==
  /\ queue \in Seq(Tasks)
  /\ \A i, j \in 1..Len(queue) : queue[i] = queue[j] => i = j
  /\ \A i \in 1..Len(queue) : step[queue[i]] \in Holding
  /\ \A t \in Tasks : step[t] \in Holding => \E i \in 1..Len(queue) : queue[i] = t
  /\ \A t \in Tasks : step[t] \in {"join", "refresh"} => queue[1] = t

\* What the sidecar, or its successor, must say.
Says(s) == (wanted => s.enabled) /\ (due => Active(s))

\* The successor for which a command that was alone with the sidecar will change
\* wanted and due.
SaysAfter(t) ==
  CASE op[t] = "recover" -> Says(seen[t]) /\ (wanted => seen[t].until)
    [] op[t] = "enable"  -> seen[t].enabled /\ (due => seen[t].until)
    [] op[t] = "disable" -> TRUE
    [] op[t] = "clear"   -> wanted => seen[t].enabled

\* Unless excused, the commands that write the sidecar did so one after the other.
CoolInv ==
  ~excused =>
    /\ \A t, u \in Tasks : Writing(t) /\ Writing(u) => t = u
    /\ \A t \in Tasks : Writing(t) => SaysAfter(t)
    /\ \A t \in Tasks : /\ step[t] \in {"remove", "rename"} => tmp = seen[t]
                        /\ step[t] = "remove" => setup.windows
    /\ (\A t \in Tasks : step[t] # "rename" \/ ~setup.windows) => Says(Contents)

\* The last command in the queue that spawns a scheduler will give it the key that
\* the vault holds, or the scheduler has it.
Spawns(t) == op[t] # "refresh"
KeyInv ==
  ~torn /\ open =>
    /\ \A t \in Tasks : step[t] = "queue" /\ Spawns(t) => view[t].key = mem.key
    /\ (\A t \in Tasks : step[t] # "keys" /\ ~(step[t] = "queue" /\ Spawns(t))) =>
         \/ /\ \A i \in 1..Len(queue) : ~Spawns(queue[i])
            /\ config = mem.key
         \/ \E i \in 1..Len(queue) :
              /\ Spawns(queue[i]) /\ view[queue[i]].key = mem.key
              /\ \A j \in 1..Len(queue) : j > i => ~Spawns(queue[j])

\* What was reported as saved is in the file, in the open vault, and in every list
\* that is about to be written.
ListInv ==
  ~torn =>
    /\ acked \subseteq saved.installs
    /\ open => acked \subseteq mem.installs
    /\ \A t \in Tasks : /\ step[t] = "write" => acked \subseteq view[t].installs
                        /\ op[t] = "drop" => target[t] \notin acked

\* What was issued is on paper, or in the hands of the command that will show it.
ShownInv ==
  file \in Nat \ {0} /\ faults = 0 /\ ~excused =>
    Current # {} \/ \E t \in Tasks : \E p \in draft[t] : p.charter = file

SettingsInv == TypeOK /\ OpInv /\ QueueInv /\ CoolInv /\ ShownInv /\ KeyInv /\ ListInv

-----------------------------------------------------------------------------
(* How commands move from step to step.                                    *)

\* Only the command t moves.
Moves(t) ==
  /\ step' \in [Tasks -> Steps] /\ op' \in [Tasks -> Ops]
  /\ \A u \in Tasks \ {t} : step'[u] = step[u] /\ op'[u] = op[u]

LEMMA GotoMoves ==
  ASSUME CharterTypeOK, NEW t \in Tasks, NEW s \in Steps, Goto(t, s)
  PROVE  /\ Moves(t) /\ step'[t] = s
         /\ op'[t] = IF s = "idle" THEN "none" ELSE op[t]
BY DEF CharterTypeOK, Goto, Moves, Ops

LEMMA BeginMoves ==
  ASSUME CharterTypeOK, NEW t \in Tasks, NEW o \in Ops, NEW s \in Steps, Begin(t, o, s)
  PROVE  Moves(t) /\ step[t] = "idle" /\ step'[t] = s /\ op'[t] = o
BY DEF CharterTypeOK, Begin, Moves, Idle

LEMMA StepNames ==
  /\ "idle" \in Steps /\ "read" \in Steps /\ "tmp" \in Steps /\ "remove" \in Steps
  /\ "rename" \in Steps /\ "answer" \in Steps /\ "check" \in Steps /\ "open" \in Steps
  /\ "keys" \in Steps /\ "queue" \in Steps /\ "take" \in Steps /\ "join" \in Steps
  /\ "list" \in Steps /\ "write" \in Steps /\ "put" \in Steps /\ "refresh" \in Steps
  /\ "init" \in Ops /\ "recover" \in Ops /\ "unlock" \in Ops /\ "enable" \in Ops
  /\ "disable" \in Ops /\ "clear" \in Ops /\ "set" \in Ops /\ "save" \in Ops
  /\ "drop" \in Ops /\ "refresh" \in Ops
BY DEF Steps, Ops

LEMMA SetupTyped ==
  ASSUME CharterAssumption, CharterTypeOK
  PROVE  /\ setup.windows \in BOOLEAN /\ setup.issues \in Nat /\ setup.edits \in Nat
         /\ setup.settings \in Nat /\ setup.faults \in Nat
BY DEF CharterAssumption, CharterTypeOK, Setup

\* The steps of module CharterRecovery.
CharterSteps == {"idle", "read", "tmp", "remove", "rename", "answer", "check", "open"}

LEMMA CharterMoves ==
  ASSUME CharterTypeOK, OpInv, NEW t \in Tasks, CharterStep(t)
  PROVE  /\ Moves(t) /\ op'[t] \in OpsAt(step'[t])
         /\ step[t] \in CharterSteps /\ step'[t] \in CharterSteps
<1> USE StepNames DEF CharterSteps, Writers
<1>0. op[t] \in OpsAt(step[t])
  BY DEF OpInv
<1>1. ASSUME NEW mode, NEW odd, InitVault(t, mode, odd) \/ Recover(t, mode, odd)
      PROVE  /\ Moves(t) /\ op'[t] \in OpsAt(step'[t])
             /\ step[t] \in CharterSteps /\ step'[t] \in CharterSteps
  BY <1>1, BeginMoves DEF InitVault, Recover, OpsAt
<1>2. ASSUME NEW o \in Ops, Edit(t, o)
      PROVE  /\ Moves(t) /\ op'[t] \in OpsAt(step'[t])
             /\ step[t] \in CharterSteps /\ step'[t] \in CharterSteps
  BY <1>2, BeginMoves DEF Edit, OpsAt
<1>3. CASE Read(t)
  BY <1>0, <1>3, GotoMoves DEF Read, OpsAt
<1>4. CASE WriteTmp(t)
  BY <1>0, <1>4, GotoMoves DEF WriteTmp, OpsAt
<1>5. CASE RemoveOld(t)
  BY <1>0, <1>5, GotoMoves DEF RemoveOld, OpsAt
<1>6. CASE Rename(t)
  BY <1>0, <1>6, GotoMoves DEF Rename, OpsAt
<1>7. CASE CooldownFails(t)
  BY <1>7, GotoMoves DEF CooldownFails, OpsAt
<1>8. CASE Answer(t)
  BY <1>8, GotoMoves DEF Answer, OpsAt
<1>9. CASE Unlock(t)
  BY <1>9, BeginMoves DEF Unlock, OpsAt
<1>10. CASE Check(t)
  BY <1>0, <1>10, GotoMoves DEF Check, OpsAt
<1>11. CASE WrongPassword(t)
  BY <1>11, GotoMoves DEF WrongPassword, OpsAt
<1>12. QED BY <1>1, <1>2, <1>3, <1>4, <1>5, <1>6, <1>7, <1>8, <1>9, <1>10, <1>11 DEF CharterStep

\* The steps of this module.
SettingsStep(t) ==
  \/ OpenVault(t)
  \/ \E k \in Keys \cup {NoKey} : Set(t, k)
  \/ Put(t) \/ ReadKeys(t) \/ Enqueue(t) \/ Cancel(t) \/ Respawn(t)
  \/ Refresh(t) \/ Trigger(t) \/ EndRefresh(t)
  \/ \E i \in Installations : Save(t, i) \/ Drop(t, i)
  \/ ReadList(t) \/ WriteList(t)

\* They do not touch the sidecar.
LEMMA SettingsMoves ==
  ASSUME CharterTypeOK, OpInv, NEW t \in Tasks, SettingsStep(t)
  PROVE  /\ Moves(t) /\ op'[t] \in OpsAt(step'[t])
         /\ step[t] \notin {"read", "tmp", "remove", "rename", "check"}
         /\ step'[t] \notin {"read", "tmp", "remove", "rename", "check", "open"}
         /\ UNCHANGED <<setup, file, issues, papers, draft, cooldown, edits, history>>
<1> USE StepNames DEF Writers, charter
<1> DEFINE P == /\ Moves(t) /\ op'[t] \in OpsAt(step'[t])
                /\ step[t] \notin {"read", "tmp", "remove", "rename", "check"}
                /\ step'[t] \notin {"read", "tmp", "remove", "rename", "check", "open"}
                /\ UNCHANGED <<setup, file, issues, papers, draft, cooldown, edits, history>>
<1>0. op[t] \in OpsAt(step[t])
  BY DEF OpInv
<1>1. CASE OpenVault(t)
  BY <1>0, <1>1, GotoMoves DEF OpenVault, Open, OpsAt
<1>2. ASSUME NEW k, Set(t, k) PROVE P
  BY <1>2, BeginMoves DEF Set, Asked, Aside, OpsAt
<1>3. CASE Put(t)
  <2>1. PICK s \in {"idle", "keys"} : Goto(t, s)
    BY <1>3 DEF Put, Stored
  <2>2. QED BY <1>0, <1>3, <2>1, GotoMoves DEF Put, Aside, OpsAt
<1>4. CASE ReadKeys(t)
  BY <1>0, <1>4, GotoMoves DEF ReadKeys, Aside, OpsAt
<1>5. CASE Enqueue(t)
  BY <1>0, <1>5, GotoMoves DEF Enqueue, Aside, OpsAt
<1>6. CASE Cancel(t)
  BY <1>0, <1>6, GotoMoves DEF Cancel, Aside, OpsAt
<1>7. CASE Respawn(t)
  BY <1>0, <1>7, GotoMoves DEF Respawn, Aside, OpsAt
<1>8. CASE Refresh(t)
  BY <1>8, BeginMoves DEF Refresh, Aside, OpsAt
<1>9. CASE Trigger(t)
  BY <1>0, <1>9, GotoMoves DEF Trigger, Aside, OpsAt
<1>10. CASE EndRefresh(t)
  BY <1>0, <1>10, GotoMoves DEF EndRefresh, Aside, OpsAt
<1>11. ASSUME NEW i, Save(t, i) \/ Drop(t, i) PROVE P
  BY <1>11, BeginMoves DEF Save, Drop, Asked, Aside, OpsAt
<1>12. CASE ReadList(t)
  <2>1. PICK s \in {"idle", "write"} : Goto(t, s)
    BY <1>12 DEF ReadList
  <2>2. QED BY <1>0, <1>12, <2>1, GotoMoves DEF ReadList, Aside, OpsAt
<1>13. CASE WriteList(t)
  <2>1. Goto(t, "idle")
    BY <1>13 DEF WriteList, Stored
  <2>2. QED BY <1>0, <1>13, <2>1, GotoMoves DEF WriteList, Aside, OpsAt
<1>14. QED BY <1>1, <1>2, <1>3, <1>4, <1>5, <1>6, <1>7, <1>8, <1>9, <1>10, <1>11, <1>12, <1>13
           DEF SettingsStep

\* A step of a poller.
PollStep == \E p \in Pollers : StartPoll(p) \/ EndPoll(p) \/ Stop(p)

LEMMA PollersOnly ==
  ASSUME TypeOK, PollStep
  PROVE  /\ UNCHANGED <<charterVars, records, config, queue, commands, acked, torn>>
         /\ alive' \subseteq Pollers /\ polling' \subseteq alive'
<1>1. PICK p \in Pollers : StartPoll(p) \/ EndPoll(p) \/ Stop(p)
  BY DEF PollStep
<1>2. alive \subseteq Pollers /\ polling \subseteq alive
  BY DEF TypeOK
<1>3. QED BY <1>1, <1>2 DEF StartPoll, EndPoll, Stop

LEMMA NextCases ==
  Next => \/ \E t \in Tasks : CharterStep(t) /\ UNCHANGED settingsVars
          \/ \E t \in Tasks : SettingsStep(t)
          \/ Expire /\ UNCHANGED settingsVars
          \/ PollStep \/ LockVault \/ Restart
BY DEF Next, Step, SettingsStep, PollStep

-----------------------------------------------------------------------------
(* Types of the charter and the sidecar.                                   *)

LEMMA ContentsTyped ==
  ASSUME CharterTypeOK PROVE Contents \in Sidecar /\ Default \in Sidecar
BY DEF CharterTypeOK, Contents, Default, Sidecar

LEMMA PastTyped ==
  ASSUME NEW s \in Sidecar \cup {Absent} PROVE Past(s) \in Sidecar \cup {Absent}
BY DEF Past, Sidecar

LEMMA ChangedTyped ==
  ASSUME NEW t \in Tasks, op[t] \in Writers, NEW s \in Sidecar
  PROVE  Changed(t, s) \in Sidecar
<1>1. s = [enabled |-> s.enabled, until |-> s.until] /\ s.enabled \in BOOLEAN /\ s.until \in BOOLEAN
  BY DEF Sidecar
<1> DEFINE e == s.enabled
           u == s.until
<1>2. [s EXCEPT !.until = e \/ u] \in Sidecar
  BY <1>1 DEF Sidecar
<1>3. [s EXCEPT !.enabled = TRUE] \in Sidecar /\ [s EXCEPT !.enabled = FALSE] \in Sidecar
  BY <1>1 DEF Sidecar
<1>4. [s EXCEPT !.until = FALSE] \in Sidecar
  BY <1>1 DEF Sidecar
<1>5. QED BY <1>2, <1>3, <1>4 DEF Changed, Writers

LEMMA PrintedTyped ==
  ASSUME NEW n \in Nat, NEW mode \in Modes, NEW odd
  PROVE  Printed(n, mode, odd) \subseteq Paper
BY DEF Printed, Modes, Paper, Verifiers, TotalShares

LEMMA IssueTyped ==
  ASSUME CharterAssumption, CharterTypeOK, NEW t \in Tasks, NEW mode \in Modes, NEW odd,
         Issue(t, mode, odd)
  PROVE  /\ open' \in BOOLEAN /\ file' \in 0..issues' \cup {Absent}
         /\ issues' \in 0..setup.issues /\ draft' \in [Tasks -> SUBSET Paper]
<1>1. issues \in Nat /\ issues + 1 \in Nat /\ issues' = issues + 1 /\ issues < setup.issues
  BY SetupTyped DEF CharterTypeOK, Issue
<1>2. issues' \in 0..setup.issues /\ issues' \in 0..issues' /\ 0 \in 0..issues'
  BY <1>1, SetupTyped
<1>3. file' \in 0..issues' \cup {Absent}
  BY <1>1, <1>2 DEF Issue
<1>4. Printed(issues + 1, mode, odd) \subseteq Paper
  BY <1>1, PrintedTyped
<1>5. QED BY <1>2, <1>3, <1>4 DEF Issue, CharterTypeOK

LEMMA CharterTyped ==
  ASSUME CharterAssumption, CharterTypeOK, OpInv, NEW t \in Tasks, CharterStep(t)
  PROVE  CharterTypeOK'
<1>0. step' \in [Tasks -> Steps] /\ op' \in [Tasks -> Ops]
  BY CharterMoves DEF Moves
<1>1. op[t] \in OpsAt(step[t])
  BY DEF OpInv
<1> USE DEF cooldown, history, charter
<1>2. ASSUME NEW p \in setup.prints, InitVault(t, p[1], p[2]) \/ Recover(t, p[1], p[2])
      PROVE  CharterTypeOK'
  <2>1. p[1] \in Modes
    BY DEF CharterAssumption, CharterTypeOK, Setup
  <2>2. Issue(t, p[1], p[2])
    BY <1>2 DEF InitVault, Recover
  <2>3. QED BY <1>0, <2>1, <2>2, IssueTyped DEF Issue, CharterTypeOK
<1>3. ASSUME NEW o \in Ops, Edit(t, o) PROVE CharterTypeOK'
  <2>1. edits' \in 0..setup.edits
    BY <1>3, SetupTyped DEF Edit, CharterTypeOK
  <2>2. QED BY <1>0, <1>3, <2>1 DEF Edit, CharterTypeOK
<1>4. CASE Read(t)
  <2>1. Changed(t, Contents) \in Sidecar
    BY <1>1, <1>4, ContentsTyped, ChangedTyped DEF Read, OpsAt
  <2>2. QED BY <1>0, <1>4, <2>1 DEF Read, CharterTypeOK, Meanwhile
<1>5. CASE WriteTmp(t)
  BY <1>0, <1>5 DEF WriteTmp, CharterTypeOK
<1>6. CASE RemoveOld(t)
  BY <1>0, <1>6 DEF RemoveOld, CharterTypeOK
<1>7. CASE Rename(t)
  BY <1>0, <1>7 DEF Rename, CharterTypeOK
<1>8. CASE CooldownFails(t)
  <2>1. faults' \in 0..setup.faults
    BY <1>8, SetupTyped DEF CooldownFails, Fault, CharterTypeOK
  <2>2. excused' \in BOOLEAN
    BY <1>8 DEF CooldownFails, CharterTypeOK
  <2>3. QED BY <1>0, <1>8, <2>1, <2>2, ContentsTyped DEF CooldownFails, CharterTypeOK
<1>9. CASE Answer(t)
  BY <1>0, <1>9, ContentsTyped DEF Answer, CharterTypeOK
<1>10. CASE Unlock(t)
  BY <1>0, <1>10 DEF Unlock, CharterTypeOK
<1>11. CASE Check(t)
  <2>1. faults' \in 0..setup.faults
    BY <1>11, SetupTyped DEF Check, Fault, CharterTypeOK
  <2>2. excused' \in BOOLEAN
    BY <1>11 DEF Check, CharterTypeOK, Meanwhile
  <2>3. QED BY <1>0, <1>11, <2>1, <2>2 DEF Check, CharterTypeOK
<1>12. CASE WrongPassword(t)
  BY <1>0, <1>12 DEF WrongPassword, CharterTypeOK
<1>13. QED BY <1>2, <1>3, <1>4, <1>5, <1>6, <1>7, <1>8, <1>9, <1>10, <1>11, <1>12 DEF CharterStep

LEMMA ExpireTyped ==
  ASSUME CharterTypeOK, Expire
  PROVE  CharterTypeOK'
<1>1. \A t \in Tasks : Past(seen[t]) \in Sidecar
  <2> SUFFICES ASSUME NEW t \in Tasks PROVE Past(seen[t]) \in Sidecar
    OBVIOUS
  <2>1. seen[t] \in Sidecar
    BY DEF CharterTypeOK
  <2>2. QED BY <2>1 DEF Past, Sidecar
<1>2. seen' \in [Tasks -> Sidecar]
  BY <1>1 DEF Expire, CharterTypeOK
<1>3. sidecar' \in Sidecar \cup {Absent} /\ tmp' \in Sidecar \cup {Absent}
  BY PastTyped DEF Expire, CharterTypeOK
<1>4. QED BY <1>2, <1>3 DEF Expire, CharterTypeOK, charter

-----------------------------------------------------------------------------
(* Types of the settings.                                                  *)

\* A record, and one of the commands, is replaced by another.
LEMMA StoredTyped ==
  ASSUME TypeOK, CharterAssumption, NEW t \in Tasks, NEW rs \in Records, NEW next,
         Stored(t, rs, next), UNCHANGED setup
  PROVE  /\ mem' \in Records /\ saved' \in Records /\ faults' \in 0..setup.faults
<1>1. faults' \in 0..setup.faults
  BY SetupTyped DEF Stored, Fault, TypeOK, CharterTypeOK
<1>2. QED BY <1>1 DEF Stored, TypeOK, records

LEMMA SettingsTyped ==
  ASSUME CharterAssumption, SettingsAssumption, TypeOK, OpInv, QueueInv, NEW t \in Tasks,
         SettingsStep(t)
  PROVE  /\ CharterTypeOK' /\ mem' \in Records /\ saved' \in Records
         /\ config' \in Keys \cup {NoKey}
         /\ alive' \subseteq Pollers /\ polling' \subseteq alive'
         /\ view' \in [Tasks -> Records]
         /\ target' \in [Tasks -> Keys \cup {NoKey} \cup Installations]
         /\ settings' \in 0..setup'.settings
         /\ acked' \subseteq Installations /\ torn' \in BOOLEAN
<1> DEFINE P ==
       /\ mem' \in Records /\ saved' \in Records
       /\ config' \in Keys \cup {NoKey}
       /\ alive' \subseteq Pollers /\ polling' \subseteq alive'
       /\ view' \in [Tasks -> Records]
       /\ target' \in [Tasks -> Keys \cup {NoKey} \cup Installations]
       /\ settings' \in 0..setup.settings
       /\ acked' \subseteq Installations /\ torn' \in BOOLEAN
       /\ open' \in BOOLEAN /\ faults' \in 0..setup.faults
<1>0. /\ CharterTypeOK /\ Moves(t)
      /\ UNCHANGED <<setup, file, issues, papers, draft, cooldown, edits, history>>
  BY SettingsMoves DEF TypeOK
<1>a. /\ mem.key \in Keys \cup {NoKey} /\ mem.installs \subseteq Installations
      /\ \A u \in Tasks : /\ view[u].key \in Keys \cup {NoKey}
                          /\ view[u].installs \subseteq Installations
      /\ Empty \in Records
  BY DEF TypeOK, Records, Empty
<1>b. Fault => faults' \in 0..setup.faults
  BY <1>0, SetupTyped DEF Fault, CharterTypeOK
<1>c. SUFFICES P
  BY <1>0 DEF CharterTypeOK, Moves, cooldown, history
<1> USE DEF TypeOK, Aside, records, scheduler, commands
<1>1. CASE OpenVault(t)
  BY <1>1, <1>b DEF OpenVault, Open, CharterTypeOK
<1>2. ASSUME NEW o \in Ops, NEW s \in Steps, NEW x \in Keys \cup {NoKey} \cup Installations,
             Asked(t, o, s, x), acked' \subseteq acked
      PROVE  P
  <2>1. settings' \in 0..setup.settings
    BY <1>0, <1>2, SetupTyped DEF Asked
  <2>2. target' \in [Tasks -> Keys \cup {NoKey} \cup Installations]
    BY <1>2 DEF Asked
  <2>3. QED BY <1>2, <2>1, <2>2 DEF Asked, CharterTypeOK, charter
<1>3. CASE Put(t)
  <2>1. target[t] \in Keys \cup {NoKey}
    BY <1>3 DEF OpInv, Put
  <2>2. [mem EXCEPT !.key = target[t]] \in Records
    BY <2>1 DEF Records
  <2>3. mem' \in Records /\ saved' \in Records /\ faults' \in 0..setup.faults
    BY <1>0, <1>3, <2>2, StoredTyped DEF Put
  <2>4. target' \in [Tasks -> Keys \cup {NoKey} \cup Installations]
    BY <1>3 DEF Put, Forget
  <2>5. QED BY <1>3, <2>3, <2>4 DEF Put, CharterTypeOK, charter, Overtaken
<1>4. CASE ReadKeys(t)
  <2>1. view' \in [Tasks -> Records]
    <3>1. (IF open THEN mem.key ELSE NoKey) \in Keys \cup {NoKey}
      BY <1>a
    <3>2. view' = [view EXCEPT ![t] = [view[t] EXCEPT !.key = IF open THEN mem.key ELSE NoKey]]
      BY <1>4 DEF ReadKeys
    <3>3. [view[t] EXCEPT !.key = IF open THEN mem.key ELSE NoKey] \in Records
      BY <3>1 DEF Records
    <3>4. QED BY <3>2, <3>3
  <2>2. QED BY <1>4, <2>1 DEF ReadKeys, CharterTypeOK, charter
<1>5. CASE Enqueue(t)
  BY <1>5 DEF Enqueue, CharterTypeOK, charter
<1>6. CASE Cancel(t) \/ Trigger(t) \/ Refresh(t)
  BY <1>6 DEF Cancel, Trigger, Refresh, settingsVars, CharterTypeOK, charter
<1>7. CASE Respawn(t)
  BY <1>a, <1>7 DEF Respawn, Spawned, Pollers, CharterTypeOK, charter
<1>8. CASE EndRefresh(t)
  BY <1>8 DEF EndRefresh, CharterTypeOK, charter
<1>9. CASE ReadList(t)
  <2>1. view' \in [Tasks -> Records]
    <3>1. [view[t] EXCEPT !.installs = mem.installs] \in Records
      BY <1>a DEF Records
    <3>2. \/ view' = [view EXCEPT ![t] = [view[t] EXCEPT !.installs = mem.installs]]
          \/ view' = view
      BY <1>9 DEF ReadList
    <3>3. QED BY <3>1, <3>2
  <2>2. target' \in [Tasks -> Keys \cup {NoKey} \cup Installations]
    BY <1>9 DEF ReadList, Forget
  <2>3. QED BY <1>9, <2>1, <2>2 DEF ReadList, CharterTypeOK, charter
<1>10. CASE WriteList(t)
  <2>1. target[t] \in Installations
    BY <1>10 DEF OpInv, WriteList
  <2>2. Edited(t) \subseteq Installations
    BY <1>a, <2>1 DEF Edited
  <2>3. [mem EXCEPT !.installs = Edited(t)] \in Records
    BY <2>2 DEF Records
  <2>4. mem' \in Records /\ saved' \in Records /\ faults' \in 0..setup.faults
    BY <1>0, <1>10, <2>3, StoredTyped DEF WriteList
  <2>5. target' \in [Tasks -> Keys \cup {NoKey} \cup Installations]
    BY <1>10 DEF WriteList, Forget
  <2>6. view' \in [Tasks -> Records]
    BY <1>a, <1>10 DEF WriteList
  <2>7. acked' \subseteq Installations
    BY <1>10, <2>1 DEF WriteList
  <2>8. QED BY <1>10, <2>4, <2>5, <2>6, <2>7 DEF WriteList, CharterTypeOK, charter
<1>11. QED
  <2>1. ASSUME NEW k \in Keys \cup {NoKey}, Set(t, k) PROVE P
    BY <1>2, <2>1, StepNames DEF Set
  <2>2. ASSUME NEW i \in Installations, Save(t, i) \/ Drop(t, i) PROVE P
    BY <1>2, <2>2, StepNames DEF Save, Drop
  <2>3. QED BY <1>1, <2>1, <1>3, <1>4, <1>5, <1>6, <1>7, <1>8, <1>9, <2>2, <1>10 DEF SettingsStep

-----------------------------------------------------------------------------
(* The queue.                                                              *)

\* A queue without repetitions is no longer than there are tasks.
LEMMA QueueLength ==
  ASSUME SettingsAssumption, NEW q \in Seq(Tasks),
         \A i, j \in 1..Len(q) : q[i] = q[j] => i = j
  PROVE  Len(q) <= Cardinality(Tasks)
<1>1. q \in [1..Len(q) -> Tasks] /\ Len(q) \in Nat
  OBVIOUS
<1>2. q \in Injection(1..Len(q), Tasks)
  BY <1>1 DEF Injection, IsInjective
<1>3. IsFiniteSet(1..Len(q)) /\ Cardinality(1..Len(q)) = Len(q)
  <2>1. ASSUME NEW n \in Nat PROVE IsFiniteSet(1..n) /\ Cardinality(1..n) = n
    <3>1. IsFiniteSet(1..n) /\ Cardinality(1..n) = IF 1 > n THEN 0 ELSE n - 1 + 1
      BY FS_Interval
    <3>2. QED BY <3>1
  <2>2. QED BY <1>1, <2>1
<1>4. QED BY <1>2, <1>3, FS_Injection DEF SettingsAssumption

\* The queue is left alone, and nobody has come to hold or stopped holding a place.
LEMMA QueueKept ==
  ASSUME QueueInv, NEW t \in Tasks, Moves(t), UNCHANGED queue,
         step[t] \in Holding <=> step'[t] \in Holding,
         step'[t] \in {"join", "refresh"} => queue[1] = t
  PROVE  QueueInv'
<1>1. \A u \in Tasks : step[u] \in Holding <=> step'[u] \in Holding
  BY DEF Moves
<1>2. \A i \in 1..Len(queue) : queue[i] \in Tasks
  BY DEF QueueInv
<1>3. \A u \in Tasks : step'[u] \in {"join", "refresh"} => queue[1] = u
  BY DEF Moves, QueueInv
<1>4. QED BY <1>1, <1>2, <1>3 DEF QueueInv

\* A task takes the last place.
LEMMA QueueGrows ==
  ASSUME QueueInv, NEW t \in Tasks, Moves(t), step[t] = "queue", step'[t] = "take",
         queue' = Append(queue, t)
  PROVE  QueueInv'
<1>1. Len(queue) \in Nat /\ \A i \in 1..Len(queue) : queue[i] \in Tasks
  BY DEF QueueInv
<1>2. /\ queue' \in Seq(Tasks) /\ Len(queue') = Len(queue) + 1 /\ queue'[Len(queue) + 1] = t
      /\ \A i \in 1..Len(queue) : queue'[i] = queue[i]
  BY DEF QueueInv
<1>3. \A i \in 1..Len(queue) : queue[i] # t /\ step'[queue[i]] = step[queue[i]]
  BY <1>1 DEF QueueInv, Holding, Moves
<1>4. 1..Len(queue') = 1..Len(queue) \cup {Len(queue) + 1}
  BY <1>1, <1>2
<1>5. \A i, j \in 1..Len(queue') : queue'[i] = queue'[j] => i = j
  BY <1>1, <1>2, <1>3, <1>4 DEF QueueInv
<1>6. \A i \in 1..Len(queue') : step'[queue'[i]] \in Holding
  BY <1>2, <1>3, <1>4 DEF QueueInv, Holding
<1>7. ASSUME NEW u \in Tasks, step'[u] \in Holding PROVE \E i \in 1..Len(queue') : queue'[i] = u
  <2>1. CASE u = t
    BY <1>2, <1>4, <2>1
  <2>2. CASE u # t
    <3>1. step[u] \in Holding
      BY <1>7, <2>2 DEF Moves
    <3>2. PICK i \in 1..Len(queue) : queue[i] = u
      BY <3>1 DEF QueueInv
    <3>3. QED BY <1>2, <1>4, <3>2
  <2>3. QED BY <2>1, <2>2
<1>8. ASSUME NEW u \in Tasks, step'[u] \in {"join", "refresh"} PROVE queue'[1] = u
  <2>1. u # t /\ step[u] \in {"join", "refresh"} /\ queue[1] = u
    BY <1>8 DEF Moves, QueueInv
  <2>2. \E i \in 1..Len(queue) : queue[i] = u
    BY <2>1 DEF QueueInv, Holding
  <2>3. 1 \in 1..Len(queue)
    BY <1>1, <2>2
  <2>4. QED BY <1>2, <2>1, <2>3
<1>9. QED BY <1>2, <1>5, <1>6, <1>7, <1>8 DEF QueueInv

\* The first gives its place up.
LEMMA QueueShrinks ==
  ASSUME QueueInv, NEW t \in Tasks, Moves(t), step[t] \in {"join", "refresh"},
         step'[t] \notin Holding, queue' = Tail(queue)
  PROVE  /\ QueueInv' /\ Len(queue) >= 1 /\ queue[1] = t
         /\ Len(queue') = Len(queue) - 1
         /\ \A i \in 1..Len(queue') : queue'[i] = queue[i + 1] /\ queue[i + 1] # t
<1>1. Len(queue) \in Nat /\ (\A i \in 1..Len(queue) : queue[i] \in Tasks) /\ queue[1] = t
  BY DEF QueueInv
<1>2. \E i \in 1..Len(queue) : queue[i] = t
  BY DEF QueueInv, Holding
<1>3. Len(queue) >= 1 /\ queue # <<>>
  BY <1>1, <1>2
<1>4. /\ queue' \in Seq(Tasks) /\ Len(queue') = Len(queue) - 1
      /\ \A i \in 1..Len(queue') : queue'[i] = queue[i + 1]
  BY <1>3 DEF QueueInv
<1>5. \A i \in 1..Len(queue') : i + 1 \in 1..Len(queue) /\ i + 1 # 1
  BY <1>1, <1>3, <1>4
<1>6. \A i \in 1..Len(queue') : queue[i + 1] # t
  BY <1>1, <1>3, <1>5 DEF QueueInv
<1>7. \A i, j \in 1..Len(queue') : queue'[i] = queue'[j] => i = j
  <2> SUFFICES ASSUME NEW i \in 1..Len(queue'), NEW j \in 1..Len(queue'), queue'[i] = queue'[j]
               PROVE  i = j
    OBVIOUS
  <2>1. i + 1 = j + 1
    BY <1>4, <1>5 DEF QueueInv
  <2>2. QED BY <2>1
<1>8. \A i \in 1..Len(queue') : step'[queue'[i]] \in Holding
  BY <1>1, <1>4, <1>5, <1>6 DEF QueueInv, Moves
<1>9. ASSUME NEW u \in Tasks, step'[u] \in Holding PROVE \E i \in 1..Len(queue') : queue'[i] = u
  <2>1. u # t /\ step[u] \in Holding
    BY <1>9 DEF Moves
  <2>2. PICK i \in 1..Len(queue) : queue[i] = u
    BY <2>1 DEF QueueInv
  <2>3. i # 1
    BY <1>1, <2>1, <2>2
  <2>4. i - 1 \in 1..Len(queue') /\ (i - 1) + 1 = i
    BY <1>1, <1>4, <2>3
  <2>5. QED BY <1>4, <2>2, <2>4
<1>10. \A u \in Tasks : step'[u] \notin {"join", "refresh"}
  BY <1>1 DEF Moves, QueueInv, Holding
<1>11. QED BY <1>1, <1>3, <1>4, <1>6, <1>7, <1>8, <1>9, <1>10 DEF QueueInv

LEMMA SettingsQueue ==
  ASSUME TypeOK, OpInv, QueueInv, NEW t \in Tasks, SettingsStep(t)
  PROVE  QueueInv'
<1> USE StepNames DEF scheduler
<1>0. Moves(t) /\ CharterTypeOK
  BY SettingsMoves DEF TypeOK
<1>a. \A u \in Tasks : step[u] \in Holding => \E i \in 1..Len(queue) : queue[i] = u
  BY DEF QueueInv
<1>1. CASE OpenVault(t)
  BY <1>0, <1>1, GotoMoves, QueueKept DEF OpenVault, Open, Holding
<1>2. ASSUME NEW o \in Ops, NEW s \in Steps, Begin(t, o, s), s \notin Holding, queue' = queue
      PROVE  QueueInv'
  BY <1>0, <1>2, BeginMoves, QueueKept DEF Holding
<1>3. CASE Put(t)
  BY <1>0, <1>3, GotoMoves, QueueKept DEF Put, Stored, Holding
<1>4. CASE ReadKeys(t)
  BY <1>0, <1>4, GotoMoves, QueueKept DEF ReadKeys, Holding
<1>5. CASE Enqueue(t)
  BY <1>0, <1>5, GotoMoves, QueueGrows DEF Enqueue
<1>6. CASE Cancel(t) \/ Trigger(t)
  <2>1. PICK s \in {"join", "refresh"} : Goto(t, s) /\ Head(queue) = t /\ step[t] = "take"
    BY <1>6 DEF Cancel, Trigger
  <2>2. queue # <<>>
    BY <1>a, <2>1 DEF Holding
  <2>3. queue[1] = t
    BY <2>1, <2>2 DEF QueueInv
  <2>4. queue' = queue
    BY <1>6 DEF Cancel, Trigger, settingsVars
  <2>5. QED BY <1>0, <2>1, <2>3, <2>4, GotoMoves, QueueKept DEF Holding
<1>7. CASE Respawn(t)
  BY <1>0, <1>7, GotoMoves, QueueShrinks DEF Respawn, Holding
<1>8. CASE EndRefresh(t)
  BY <1>0, <1>8, GotoMoves, QueueShrinks DEF EndRefresh, Holding
<1>9. CASE ReadList(t)
  BY <1>0, <1>9, GotoMoves, QueueKept DEF ReadList, Holding
<1>10. CASE WriteList(t)
  BY <1>0, <1>10, GotoMoves, QueueKept DEF WriteList, Stored, Holding
<1>11. CASE Refresh(t)
  BY <1>2, <1>11 DEF Refresh, settingsVars, Holding
<1>12. ASSUME NEW k \in Keys \cup {NoKey}, Set(t, k) PROVE QueueInv'
  BY <1>2, <1>12 DEF Set, Asked, Holding
<1>13. ASSUME NEW i \in Installations, Save(t, i) \/ Drop(t, i) PROVE QueueInv'
  BY <1>2, <1>13 DEF Save, Drop, Asked, Holding
<1>14. QED BY <1>1, <1>3, <1>4, <1>5, <1>6, <1>7, <1>8, <1>9, <1>10, <1>11, <1>12, <1>13
           DEF SettingsStep

\* What a command is about is set when it begins.
LEMMA SettingsOps ==
  ASSUME TypeOK, OpInv, NEW t \in Tasks, SettingsStep(t)
  PROVE  OpInv'
<1> USE StepNames
<1>0. /\ Moves(t) /\ CharterTypeOK /\ op'[t] \in OpsAt(step'[t])
      /\ target \in [Tasks -> Keys \cup {NoKey} \cup Installations]
  BY SettingsMoves DEF TypeOK
<1>1. SUFFICES /\ \A u \in Tasks \ {t} : target'[u] = target[u]
               /\ step'[t] = "put" => target'[t] \in Keys \cup {NoKey}
               /\ step'[t] \in {"list", "write"} => target'[t] \in Installations
  BY <1>0 DEF OpInv, Moves
<1>2. CASE OpenVault(t)
  BY <1>0, <1>2, GotoMoves DEF OpenVault, Open, commands
<1> DEFINE P == /\ \A u \in Tasks \ {t} : target'[u] = target[u]
                /\ step'[t] = "put" => target'[t] \in Keys \cup {NoKey}
                /\ step'[t] \in {"list", "write"} => target'[t] \in Installations
<1>3. ASSUME NEW k \in Keys \cup {NoKey}, Set(t, k) PROVE P
  BY <1>0, <1>3, BeginMoves DEF Set, Asked
<1>4. ASSUME NEW i \in Installations, Save(t, i) \/ Drop(t, i) PROVE P
  BY <1>0, <1>4, BeginMoves DEF Save, Drop, Asked
<1>5. CASE Put(t)
  BY <1>0, <1>5, GotoMoves DEF Put, Stored, Forget
<1>6. CASE ReadKeys(t) \/ Enqueue(t) \/ Cancel(t) \/ Respawn(t) \/ Trigger(t) \/ EndRefresh(t)
  <2>1. PICK s \in {"queue", "take", "join", "refresh", "idle"} : Goto(t, s)
    BY <1>6 DEF ReadKeys, Enqueue, Cancel, Respawn, Trigger, EndRefresh
  <2>2. target' = target
    BY <1>6 DEF ReadKeys, Enqueue, Cancel, Respawn, Trigger, EndRefresh, commands, settingsVars
  <2>3. QED BY <1>0, <2>1, <2>2, GotoMoves
<1>7. CASE Refresh(t)
  BY <1>0, <1>7, BeginMoves DEF Refresh, settingsVars, commands
<1>8. CASE ReadList(t)
  <2>1. target[t] \in Installations
    BY <1>8 DEF ReadList, OpInv
  <2>2. QED BY <1>0, <1>8, <2>1, GotoMoves DEF ReadList, Forget
<1>9. CASE WriteList(t)
  BY <1>0, <1>9, GotoMoves DEF WriteList, Stored, Forget
<1>10. QED BY <1>2, <1>3, <1>4, <1>5, <1>6, <1>7, <1>8, <1>9 DEF SettingsStep

LEMMA CharterKeepsQueue ==
  ASSUME TypeOK, OpInv, QueueInv, NEW t \in Tasks, CharterStep(t), UNCHANGED settingsVars
  PROVE  OpInv' /\ QueueInv'
<1>1. /\ Moves(t) /\ op'[t] \in OpsAt(step'[t])
      /\ step[t] \in CharterSteps /\ step'[t] \in CharterSteps
      /\ UNCHANGED <<target, queue>>
  BY CharterMoves DEF TypeOK, settingsVars, scheduler, commands
<1>2. OpInv'
  BY <1>1 DEF OpInv, Moves, CharterSteps
<1>3. QueueInv'
  BY <1>1, QueueKept DEF CharterSteps, Holding
<1>4. QED BY <1>2, <1>3

\* Nobody moves.
LEMMA NobodyMoves ==
  ASSUME OpInv, QueueInv, UNCHANGED <<step, op, target, queue>>
  PROVE  OpInv' /\ QueueInv'
BY DEF OpInv, QueueInv

\* The process ends with every command.
LEMMA RestartShape ==
  ASSUME CharterAssumption, TypeOK, OpInv, Restart
  PROVE  /\ CharterTypeOK' /\ OpInv' /\ QueueInv'
         /\ \A t \in Tasks : step'[t] = "idle"
<1>1. \A t \in Tasks : step'[t] = "idle" /\ op'[t] = "none"
  BY DEF Restart, Restarted
<1>2. OpInv'
  BY <1>1 DEF OpInv, OpsAt
<1>3. QueueInv'
  BY <1>1 DEF Restart, QueueInv, Holding
<1>4. CharterTypeOK'
  <2>1. faults' \in 0..setup.faults
    BY SetupTyped DEF Restart, Restarted, Fault, TypeOK, CharterTypeOK
  <2>2. excused' \in BOOLEAN
    BY DEF Restart, Restarted, TypeOK, CharterTypeOK
  <2>3. QED BY <2>1, <2>2, ContentsTyped, StepNames
            DEF Restart, Restarted, TypeOK, CharterTypeOK, Ops
<1>5. QED BY <1>1, <1>2, <1>3, <1>4

ShapeInv == TypeOK /\ OpInv /\ QueueInv

LEMMA NextShape ==
  CharterAssumption /\ SettingsAssumption /\ ShapeInv /\ Next => ShapeInv'
<1> SUFFICES ASSUME CharterAssumption, SettingsAssumption, ShapeInv, Next PROVE ShapeInv'
  OBVIOUS
<1> USE DEF ShapeInv
<1>0. ASSUME QueueInv' PROVE queue' \in Seq(Tasks) /\ Len(queue') <= Cardinality(Tasks)
  BY <1>0, QueueLength DEF QueueInv
<1>1. ASSUME NEW t \in Tasks, CharterStep(t), UNCHANGED settingsVars PROVE ShapeInv'
  <2>1. CharterTypeOK'
    BY <1>1, CharterTyped DEF TypeOK
  <2>2. setup' = setup
    BY <1>1 DEF CharterStep, InitVault, Recover, Issue, Edit, Read, WriteTmp, RemoveOld, Rename,
                CooldownFails, Answer, Unlock, Check, WrongPassword
  <2>3. QED BY <1>1, <2>1, <2>2, CharterKeepsQueue
            DEF TypeOK, settingsVars, records, scheduler, commands
<1>2. ASSUME NEW t \in Tasks, SettingsStep(t) PROVE ShapeInv'
  <2>1. OpInv' /\ QueueInv'
    BY <1>2, SettingsQueue, SettingsOps
  <2>2. QED BY <1>0, <1>2, <2>1, SettingsTyped DEF TypeOK
<1>3. CASE Expire /\ UNCHANGED settingsVars
  <2>1. CharterTypeOK'
    BY <1>3, ExpireTyped DEF TypeOK
  <2>2. OpInv' /\ QueueInv'
    BY <1>3, NobodyMoves DEF Expire, settingsVars, scheduler, commands
  <2>3. QED BY <1>3, <2>1, <2>2 DEF Expire, TypeOK, settingsVars, records, scheduler, commands
<1>4. CASE PollStep
  <2>1. OpInv' /\ QueueInv'
    BY <1>4, PollersOnly, NobodyMoves DEF charterVars, commands
  <2>2. /\ UNCHANGED <<charterVars, records, config, queue, commands, acked, torn>>
        /\ alive' \subseteq Pollers /\ polling' \subseteq alive'
    BY <1>4, PollersOnly
  <2>3. CharterTypeOK'
    BY <2>2 DEF TypeOK, CharterTypeOK, charterVars, charter, cooldown, history
  <2>4. QED BY <2>1, <2>2, <2>3 DEF TypeOK, charterVars, records, commands
<1>5. CASE LockVault
  <2>1. OpInv' /\ QueueInv'
    BY <1>5, NobodyMoves DEF LockVault, scheduler, commands
  <2>2. faults' \in 0..setup.faults
    <3>1. faults' = faults \/ Fault
      BY <1>5 DEF LockVault
    <3>2. QED BY <3>1, SetupTyped DEF Fault, TypeOK, CharterTypeOK
  <2>3. QED BY <1>5, <2>1, <2>2 DEF LockVault, TypeOK, CharterTypeOK, cooldown, history, scheduler, commands
<1>6. CASE Restart
  <2>1. Empty \in Records
    BY DEF Empty, Records
  <2>2. Spawned(NoKey) \subseteq Pollers /\ {} \subseteq Spawned(NoKey)
    BY DEF Spawned, Pollers
  <2>3. alive' \subseteq Pollers /\ polling' \subseteq alive'
    BY <1>6, <2>2 DEF Restart
  <2>4. CharterTypeOK' /\ OpInv' /\ QueueInv'
    BY <1>0, <1>6, RestartShape
  <2>5. /\ mem' \in Records /\ saved' \in Records /\ config' \in Keys \cup {NoKey}
        /\ view' \in [Tasks -> Records]
        /\ target' \in [Tasks -> Keys \cup {NoKey} \cup Installations]
        /\ acked' \subseteq Installations /\ torn' \in BOOLEAN
    BY <1>6, <2>1 DEF Restart, TypeOK, records
  <2>6. settings' \in 0..setup'.settings
    BY <1>6 DEF Restart, Restarted, TypeOK
  <2>7. queue' \in Seq(Tasks) /\ Len(queue') <= Cardinality(Tasks)
    BY <1>0, <2>4
  <2>8. QED BY <2>3, <2>4, <2>5, <2>6, <2>7 DEF TypeOK
<1>7. QED BY <1>1, <1>2, <1>3, <1>4, <1>5, <1>6, NextCases

LEMMA InitShape == CharterAssumption /\ SettingsAssumption /\ Init => ShapeInv
<1> SUFFICES ASSUME CharterAssumption, SettingsAssumption, Init PROVE ShapeInv
  OBVIOUS
<1>1. CharterTypeOK
  <2>1. setup \in Setups /\ issues \in 0..setup.issues /\ edits \in 0..setup.edits /\ faults \in 0..setup.faults
    BY DEF CharterAssumption, Setup, Init, CharterInit
  <2>2. QED BY <2>1, StepNames DEF Init, CharterInit, CharterTypeOK, Ops, Default, Sidecar
<1>2. OpInv /\ QueueInv
  BY DEF Init, CharterInit, OpInv, OpsAt, QueueInv, Holding
<1>3. Empty \in Records /\ settings \in 0..setup.settings
  BY DEF Empty, Records, Init, CharterInit, CharterAssumption, Setup
<1>4. alive \subseteq Pollers /\ polling \subseteq alive
  <2>1. Spawned(NoKey) \subseteq Pollers
    BY DEF Spawned, Pollers
  <2>2. QED BY <2>1 DEF Init
<1>5. queue \in Seq(Tasks) /\ Len(queue) <= Cardinality(Tasks)
  BY <1>2, QueueLength DEF QueueInv
<1>6. /\ mem \in Records /\ saved \in Records /\ config \in Keys \cup {NoKey}
      /\ view \in [Tasks -> Records]
      /\ target \in [Tasks -> Keys \cup {NoKey} \cup Installations]
      /\ acked \subseteq Installations /\ torn \in BOOLEAN
  BY <1>3 DEF Init
<1>7. QED BY <1>1, <1>2, <1>3, <1>4, <1>5, <1>6 DEF TypeOK, ShapeInv

-----------------------------------------------------------------------------
(* The sidecar.                                                            *)

\* A step that leaves the sidecar and its successor alone; nobody begins to write.
LEMMA CoolKept ==
  ASSUME CoolInv, UNCHANGED <<setup, sidecar, tmp, wanted, due>>, excused => excused',
         \A u \in Tasks : step'[u] \in {"tmp", "remove", "rename"} =>
           step'[u] = step[u] /\ seen'[u] = seen[u] /\ op'[u] = op[u],
         ~excused' => \A u \in Tasks : step[u] = "rename" /\ setup.windows => step'[u] = "rename"
  PROVE  CoolInv'
<1> SUFFICES ASSUME ~excused' PROVE CoolInv'
  BY DEF CoolInv
<1>1. ~excused
  OBVIOUS
<1>2. \A u \in Tasks : Writing(u)' => /\ Writing(u) /\ step'[u] = step[u]
                                      /\ seen'[u] = seen[u] /\ op'[u] = op[u]
  BY DEF Writing
<1>3. \A u \in Tasks : Writing(u)' => SaysAfter(u)'
  <2> SUFFICES ASSUME NEW u \in Tasks, Writing(u)' PROVE SaysAfter(u)'
    OBVIOUS
  <2>1. SaysAfter(u) /\ seen'[u] = seen[u] /\ op'[u] = op[u]
    BY <1>1, <1>2 DEF CoolInv
  <2>2. QED BY <2>1 DEF SaysAfter, Says, Active
<1>4. \A t, u \in Tasks : Writing(t)' /\ Writing(u)' => t = u
  BY <1>1, <1>2 DEF CoolInv
<1>5. \A u \in Tasks : /\ step'[u] \in {"remove", "rename"} => tmp' = seen'[u]
                       /\ step'[u] = "remove" => setup'.windows
  BY <1>1 DEF CoolInv
<1>6. (\A u \in Tasks : step'[u] # "rename" \/ ~setup.windows) => Says(Contents)
  BY <1>1 DEF CoolInv
<1>7. Says(Contents)' <=> Says(Contents)
  BY DEF Says, Contents, Active, Default
<1>8. QED BY <1>3, <1>4, <1>5, <1>6, <1>7 DEF CoolInv

LEMMA ReadCool ==
  ASSUME CharterTypeOK, OpInv, CoolInv, NEW t \in Tasks, Read(t)
  PROVE  CoolInv'
<1> SUFFICES ASSUME ~excused' PROVE CoolInv'
  BY DEF CoolInv
<1>1. ~excused /\ \A u \in Tasks \ {t} : ~Writing(u)
  BY DEF Read, Meanwhile
<1>2. Moves(t) /\ step[t] = "read" /\ step'[t] = "tmp" /\ op'[t] = op[t]
  BY GotoMoves, StepNames DEF Read
<1>3. \A u \in Tasks : Writing(u)' => u = t
  BY <1>1, <1>2 DEF Writing, Moves
<1>4. Says(Contents)
  BY <1>1, <1>2 DEF CoolInv, Writing
<1>5. op[t] \in Writers /\ Contents \in Sidecar
  BY <1>2, ContentsTyped DEF OpInv, OpsAt
<1>6. seen'[t] = Changed(t, Contents) /\ UNCHANGED <<setup, sidecar, tmp, wanted, due>>
  BY DEF Read, CharterTypeOK
<1>7. SaysAfter(t)'
  <2>1. CASE op[t] = "recover"
    <3>1. /\ seen'[t].enabled = Contents.enabled
          /\ seen'[t].until = (Contents.enabled \/ Contents.until)
      BY <1>5, <1>6, <2>1 DEF Changed, Sidecar
    <3>2. QED BY <1>2, <1>4, <1>6, <2>1, <3>1 DEF SaysAfter, Says, Active
  <2>2. CASE op[t] = "enable"
    <3>1. seen'[t].enabled /\ seen'[t].until = Contents.until
      BY <1>5, <1>6, <2>2 DEF Changed, Sidecar
    <3>2. QED BY <1>2, <1>4, <1>6, <2>2, <3>1 DEF SaysAfter, Says, Active
  <2>3. CASE op[t] = "disable"
    BY <1>2, <2>3 DEF SaysAfter
  <2>4. CASE op[t] = "clear"
    <3>1. seen'[t].enabled = Contents.enabled
      BY <1>5, <1>6, <2>4 DEF Changed, Sidecar
    <3>2. QED BY <1>2, <1>4, <1>6, <2>4, <3>1 DEF SaysAfter, Says
  <2>5. QED BY <1>5, <2>1, <2>2, <2>3, <2>4 DEF Writers
<1>8. \A u \in Tasks : step'[u] \notin {"remove", "rename"}
  BY <1>2, <1>3 DEF Writing
<1>9. Says(Contents)'
  BY <1>4, <1>6 DEF Says, Contents, Active, Default
<1>10. QED BY <1>3, <1>7, <1>8, <1>9 DEF CoolInv

\* What the commands do to the successor and to the sidecar, one at a time.
LEMMA WriteCool ==
  ASSUME CharterTypeOK, OpInv, CoolInv, NEW t \in Tasks, WriteTmp(t) \/ RemoveOld(t)
  PROVE  CoolInv'
<1> SUFFICES ASSUME ~excused' PROVE CoolInv'
  BY DEF CoolInv
<1>1. PICK s \in {"remove", "rename"} : Goto(t, s)
  BY DEF WriteTmp, RemoveOld
<1>2. Moves(t) /\ step'[t] = s /\ op'[t] = op[t] /\ Writing(t)
  BY <1>1, GotoMoves, StepNames DEF WriteTmp, RemoveOld, Writing
<1>3. ~excused /\ UNCHANGED <<setup, seen, wanted, due>>
  BY DEF WriteTmp, RemoveOld, history
<1>4. \A u \in Tasks : Writing(u) => u = t
  BY <1>2, <1>3 DEF CoolInv
<1>5. \A u \in Tasks : Writing(u)' => u = t
  BY <1>2, <1>4 DEF Writing, Moves
<1>6. tmp' = seen[t]
  BY <1>3 DEF WriteTmp, RemoveOld, CoolInv
<1>7. SaysAfter(t)'
  <2>1. SaysAfter(t)
    BY <1>2, <1>3 DEF CoolInv
  <2>2. QED BY <1>2, <1>3, <2>1 DEF SaysAfter, Says, Active
<1>8. \A u \in Tasks : /\ step'[u] \in {"remove", "rename"} => tmp' = seen'[u]
                       /\ step'[u] = "remove" => setup'.windows
  <2>1. \A u \in Tasks : step'[u] \in {"remove", "rename"} => u = t
    BY <1>5 DEF Writing
  <2>2. step'[t] = "remove" => setup.windows
    BY <1>2, GotoMoves, StepNames DEF WriteTmp, RemoveOld
  <2>3. QED BY <1>3, <1>6, <2>1, <2>2
<1>9. (\A u \in Tasks : step'[u] # "rename" \/ ~setup'.windows) => Says(Contents)'
  <2>1. CASE WriteTmp(t)
    <3>1. \A u \in Tasks : step[u] # "rename"
      BY <1>4, <2>1 DEF Writing, WriteTmp
    <3>2. Says(Contents) /\ UNCHANGED sidecar
      BY <1>3, <2>1, <3>1 DEF CoolInv, WriteTmp
    <3>3. QED BY <1>3, <3>2 DEF Says, Contents, Active, Default
  <2>2. CASE RemoveOld(t) /\ setup.windows
    BY <1>1, <1>2, <1>3, <2>2, GotoMoves, StepNames DEF RemoveOld
  <2>3. CASE RemoveOld(t) /\ ~setup.windows
    BY <1>3, <2>3 DEF RemoveOld, CoolInv
  <2>4. QED BY <2>1, <2>2, <2>3
<1>10. QED BY <1>5, <1>7, <1>8, <1>9 DEF CoolInv

LEMMA RenameCool ==
  ASSUME CharterTypeOK, OpInv, CoolInv, NEW t \in Tasks, Rename(t)
  PROVE  CoolInv'
<1> SUFFICES ASSUME ~excused' PROVE CoolInv'
  BY DEF CoolInv
<1>1. Moves(t) /\ step[t] = "rename" /\ step'[t] = "answer" /\ Writing(t)
  BY GotoMoves, StepNames DEF Rename, Writing
<1>2. ~excused /\ UNCHANGED <<setup, seen>> /\ sidecar' = tmp /\ tmp # Absent
  BY DEF Rename, charter
<1>3. \A u \in Tasks : ~Writing(u)'
  BY <1>1, <1>2 DEF Writing, Moves, CoolInv
<1>4. tmp = seen[t] /\ SaysAfter(t)
  BY <1>1, <1>2 DEF CoolInv
<1>5. Contents' = seen[t]
  BY <1>2, <1>4 DEF Contents
<1>6. op[t] \in Writers
  BY <1>1 DEF OpInv, OpsAt
<1>7. Says(seen[t])'
  <2>1. CASE op[t] = "recover"
    BY <1>2, <1>4, <2>1 DEF SaysAfter, Says, Active, Rename
  <2>2. CASE op[t] = "enable"
    BY <1>2, <1>4, <2>2 DEF SaysAfter, Says, Active, Rename
  <2>3. CASE op[t] = "disable"
    BY <1>2, <1>4, <2>3 DEF SaysAfter, Says, Active, Rename
  <2>4. CASE op[t] = "clear"
    BY <1>2, <1>4, <2>4 DEF SaysAfter, Says, Active, Rename
  <2>5. QED BY <1>6, <2>1, <2>2, <2>3, <2>4 DEF Writers
<1>8. Says(Contents)'
  BY <1>2, <1>5, <1>7 DEF Says, Active
<1>9. QED BY <1>3, <1>8 DEF CoolInv, Writing

\* The seven days are over, but not those that a recovery has just counted.
LEMMA ExpireCool ==
  ASSUME CharterAssumption, CharterTypeOK, OpInv, CoolInv, Expire
  PROVE  CoolInv'
<1> SUFFICES ASSUME ~excused' PROVE CoolInv'
  BY DEF CoolInv
<1>1. ~excused /\ due' = FALSE /\ UNCHANGED <<setup, step, op, wanted>> /\ sidecar' = Past(sidecar)
  BY DEF Expire
<1>2. \A u \in Tasks : Writing(u)' <=> Writing(u)
  BY <1>1 DEF Writing
<1>3. \A u \in Tasks : /\ seen[u] \in Sidecar
                       /\ seen'[u] = IF Counted(u) THEN seen[u] ELSE Past(seen[u])
  BY DEF Expire, CharterTypeOK
<1>4. Absent \notin Sidecar
  BY DEF CharterAssumption, Sidecar
<1>5. \A s \in Sidecar : /\ Past(s) \in Sidecar /\ Past(s).enabled = s.enabled
                         /\ Past(s).until = FALSE
  BY <1>4 DEF Past, Sidecar
<1>6. \A u \in Tasks : seen'[u].enabled = seen[u].enabled
  BY <1>3, <1>5
<1>7. \A u \in Tasks : Writing(u) => SaysAfter(u)'
  <2> SUFFICES ASSUME NEW u \in Tasks, Writing(u) PROVE SaysAfter(u)'
    OBVIOUS
  <2>1. SaysAfter(u) /\ op[u] \in Writers
    BY <1>1 DEF CoolInv, OpInv, OpsAt, Writing
  <2>2. CASE op[u] = "recover"
    <3>1. wanted => seen[u].enabled /\ seen[u].until /\ Counted(u)
      BY <2>1, <2>2 DEF SaysAfter, Says, Counted
    <3>2. wanted => seen'[u] = seen[u]
      BY <1>3, <3>1
    <3>3. QED BY <1>1, <2>2, <3>1, <3>2 DEF SaysAfter, Says
  <2>3. CASE op[u] # "recover"
    BY <1>1, <1>6, <2>1, <2>3 DEF SaysAfter, Says, Writers
  <2>4. QED BY <2>2, <2>3
<1>8. \A u \in Tasks : step[u] \in {"remove", "rename"} => tmp' = seen'[u]
  <2> SUFFICES ASSUME NEW u \in Tasks, step[u] \in {"remove", "rename"} PROVE tmp' = seen'[u]
    OBVIOUS
  <2>1. tmp = seen[u] /\ \A v \in Tasks : Writing(v) => v = u
    BY <1>1 DEF CoolInv, Writing
  <2>2. (\E v \in Tasks : Counted(v) /\ step[v] # "tmp" /\ tmp = seen[v]) <=> Counted(u)
    BY <2>1 DEF Counted
  <2>3. QED BY <1>3, <2>1, <2>2 DEF Expire
<1>9. Says(Contents) => Says(Contents)'
  <2>1. Contents'.enabled = Contents.enabled
    <3>1. CASE sidecar = Absent
      BY <1>1, <3>1 DEF Contents, Past
    <3>2. CASE sidecar # Absent
      <4>1. sidecar \in Sidecar
        BY <3>2 DEF CharterTypeOK
      <4>2. QED BY <1>1, <1>4, <1>5, <3>2, <4>1 DEF Contents
    <3>3. QED BY <3>1, <3>2
  <2>2. QED BY <1>1, <2>1 DEF Says
<1>10. QED BY <1>1, <1>2, <1>7, <1>8, <1>9 DEF CoolInv

LEMMA CharterCool ==
  ASSUME CharterTypeOK, OpInv, CoolInv, NEW t \in Tasks, CharterStep(t)
  PROVE  CoolInv'
<1> USE StepNames DEF charter, cooldown, history
<1>1. CASE Read(t)
  BY <1>1, ReadCool
<1>2. CASE WriteTmp(t) \/ RemoveOld(t)
  BY <1>2, WriteCool
<1>3. CASE Rename(t)
  BY <1>3, RenameCool
<1>4. ASSUME NEW s \in Steps \ {"tmp", "remove", "rename"}, step[t] # "rename", Moves(t), step'[t] = s,
             UNCHANGED <<setup, sidecar, tmp, wanted, due>>, excused => excused',
             \A u \in Tasks \ {t} : seen'[u] = seen[u]
      PROVE  CoolInv'
  BY <1>4, CoolKept DEF Moves
<1>5. ASSUME NEW p \in setup.prints, InitVault(t, p[1], p[2]) \/ Recover(t, p[1], p[2])
      PROVE  CoolInv'
  BY <1>4, <1>5, BeginMoves DEF InitVault, Recover, Issue
<1>6. ASSUME NEW o \in Ops, Edit(t, o) PROVE CoolInv'
  BY <1>4, <1>6, BeginMoves DEF Edit
<1>7. CASE CooldownFails(t)
  <2>1. Moves(t) /\ step'[t] = "idle"
    BY <1>7, GotoMoves DEF CooldownFails
  <2>2. /\ UNCHANGED <<setup, sidecar, tmp, wanted, due>> /\ (excused => excused')
        /\ \A u \in Tasks \ {t} : seen'[u] = seen[u]
        /\ ~excused' => ~(setup.windows /\ step[t] = "rename")
    BY <1>7 DEF CooldownFails, CharterTypeOK
  <2>3. QED BY <2>1, <2>2, CoolKept DEF Moves
<1>8. CASE Answer(t)
  BY <1>4, <1>8, GotoMoves DEF Answer, CharterTypeOK
<1>9. CASE Unlock(t)
  BY <1>4, <1>9, BeginMoves DEF Unlock
<1>10. CASE Check(t)
  <2>1. PICK s \in {"idle", "open"} : Goto(t, s)
    BY <1>10 DEF Check
  <2>2. QED BY <1>4, <1>10, <2>1, GotoMoves DEF Check
<1>11. CASE WrongPassword(t)
  BY <1>4, <1>11, GotoMoves DEF WrongPassword
<1>12. QED BY <1>1, <1>2, <1>3, <1>5, <1>6, <1>7, <1>8, <1>9, <1>10, <1>11 DEF CharterStep

LEMMA NextCool ==
  CharterAssumption /\ ShapeInv /\ CoolInv /\ Next => CoolInv'
<1> SUFFICES ASSUME CharterAssumption, ShapeInv, CoolInv, Next PROVE CoolInv'
  OBVIOUS
<1> USE DEF ShapeInv
<1>0. CharterTypeOK
  BY DEF TypeOK
<1>1. ASSUME NEW t \in Tasks, CharterStep(t) PROVE CoolInv'
  BY <1>0, <1>1, CharterCool
<1>2. ASSUME NEW t \in Tasks, SettingsStep(t) PROVE CoolInv'
  <2>1. /\ Moves(t) /\ step[t] # "rename" /\ step'[t] \notin {"tmp", "remove", "rename"}
        /\ UNCHANGED <<setup, sidecar, tmp, seen, wanted, due, excused>>
    BY <1>0, <1>2, SettingsMoves DEF cooldown, history
  <2>2. QED BY <2>1, CoolKept DEF Moves
<1>3. CASE Expire
  BY <1>0, <1>3, ExpireCool
<1>4. CASE PollStep
  BY <1>4, PollersOnly, CoolKept DEF charterVars, cooldown, history
<1>5. CASE LockVault
  BY <1>5, CoolKept DEF LockVault, cooldown, history
<1>6. CASE Restart
  <2>1. \A t \in Tasks : step'[t] = "idle"
    BY <1>6, RestartShape
  <2>2. /\ UNCHANGED <<setup, sidecar, tmp, wanted, due>> /\ (excused => excused')
        /\ ~excused' => \A t \in Tasks : ~(step[t] = "rename" /\ setup.windows)
    BY <1>6 DEF Restart, Restarted
  <2>3. QED BY <2>1, <2>2, CoolKept
<1>7. QED BY <1>1, <1>2, <1>3, <1>4, <1>5, <1>6, NextCases

\* Nobody passes the check while a cooldown is due.
LEMMA CheckHolds ==
  ASSUME CharterTypeOK, OpInv, CoolInv, NEW t \in Tasks, Check(t), due, step'[t] = "open"
  PROVE  excused'
<1> SUFFICES ASSUME ~excused' PROVE FALSE
  OBVIOUS
<1>1. /\ step[t] = "check" /\ Goto(t, IF Active(Contents) THEN "idle" ELSE "open")
      /\ ~excused /\ \A u \in Tasks \ {t} : ~Writing(u)
  BY DEF Check, Meanwhile
<1>2. ~Active(Contents)
  BY <1>1, GotoMoves, StepNames
<1>3. \A u \in Tasks : step[u] # "rename"
  BY <1>1 DEF Writing
<1>4. Says(Contents)
  BY <1>1, <1>3 DEF CoolInv
<1>5. QED BY <1>2, <1>4 DEF Says

-----------------------------------------------------------------------------
(* The key.                                                                *)

\* A task that has read the key and will take it to the scheduler.
Bears(t) == step[t] = "queue" /\ Spawns(t)

\* A step that neither changes the key nor reads it, and leaves the queue alone.
LEMMA KeyKept ==
  ASSUME QueueInv, KeyInv, torn => torn', open' => open, mem'.key = mem.key,
         UNCHANGED <<config, queue>>,
         \A u \in Tasks : /\ step[u] \in Holding => view'[u] = view[u] /\ op'[u] = op[u]
                          /\ Bears(u)' <=> Bears(u)
                          /\ Bears(u) => view'[u] = view[u]
                          /\ step[u] = "keys" => step'[u] = "keys"
  PROVE  KeyInv'
<1> SUFFICES ASSUME ~torn', open' PROVE KeyInv'
  BY DEF KeyInv
<1>1. ~torn /\ open
  OBVIOUS
<1>2. \A i \in 1..Len(queue) :
        /\ queue[i] \in Tasks /\ view'[queue[i]] = view[queue[i]]
        /\ Spawns(queue[i])' <=> Spawns(queue[i])
  BY DEF QueueInv, Spawns
<1>3. \A u \in Tasks : Bears(u)' => view'[u].key = mem'.key
  BY <1>1 DEF KeyInv, Bears
<1>4. ASSUME \A u \in Tasks : step'[u] # "keys" /\ ~Bears(u)'
      PROVE  \/ /\ \A i \in 1..Len(queue) : ~Spawns(queue[i])
                /\ config = mem.key
             \/ \E i \in 1..Len(queue) :
                  /\ Spawns(queue[i]) /\ view[queue[i]].key = mem.key
                  /\ \A j \in 1..Len(queue) : j > i => ~Spawns(queue[j])
  BY <1>1, <1>4 DEF KeyInv, Bears
<1>5. ASSUME \A u \in Tasks : step'[u] # "keys" /\ ~Bears(u)'
      PROVE  \/ /\ \A i \in 1..Len(queue) : ~Spawns(queue[i])'
                /\ config = mem.key
             \/ \E i \in 1..Len(queue) :
                  /\ Spawns(queue[i])' /\ view'[queue[i]].key = mem.key
                  /\ \A j \in 1..Len(queue) : j > i => ~Spawns(queue[j])'
  BY <1>2, <1>4, <1>5
<1>6. \A u \in Tasks : (Spawns(u)' /\ step'[u] = "queue") <=> Bears(u)'
  BY DEF Bears
<1>7. \A i \in 1..Len(queue) : op'[queue'[i]] # "refresh" <=> Spawns(queue[i])'
  BY DEF Spawns
<1>8. QED BY <1>3, <1>5, <1>6, <1>7 DEF KeyInv

\* Somebody has still to read the key, or has read it and is not yet in the queue.
LEMMA KeyOpen ==
  ASSUME NEW t \in Tasks, step'[t] = "keys" \/ Bears(t)',
         ~torn' /\ open' => \A u \in Tasks : Bears(u)' => view'[u].key = mem'.key
  PROVE  KeyInv'
<1>1. \A u \in Tasks : Bears(u)' <=> step'[u] = "queue" /\ Spawns(u)'
  BY DEF Bears
<1>2. QED BY <1>1 DEF KeyInv

LEMMA EnqueueKey ==
  ASSUME TypeOK, OpInv, QueueInv, KeyInv, NEW t \in Tasks, Enqueue(t)
  PROVE  KeyInv'
<1> SUFFICES ASSUME ~torn', open' PROVE KeyInv'
  BY DEF KeyInv
<1>1. /\ Moves(t) /\ step[t] = "queue" /\ step'[t] = "take" /\ op'[t] = op[t]
      /\ UNCHANGED <<mem, config, view, torn, open>> /\ queue' = Append(queue, t)
  BY GotoMoves, StepNames DEF Enqueue, Aside, TypeOK, charter, records, commands
<1> DEFINE n == Len(queue)
<1>2. /\ n \in Nat /\ Len(queue') = n + 1 /\ queue'[n + 1] = t /\ n + 1 \in 1..Len(queue')
      /\ \A i \in 1..n : queue'[i] = queue[i] /\ queue[i] \in Tasks /\ i \in 1..Len(queue')
      /\ 1..Len(queue') = 1..n \cup {n + 1}
  BY <1>1 DEF QueueInv
<1>3. \A u \in Tasks : Spawns(u)' <=> Spawns(u)
  BY <1>1 DEF Spawns, Moves
<1>4. \A u \in Tasks : step'[u] = "queue" /\ Spawns(u)' => view'[u].key = mem'.key
  BY <1>1, <1>3 DEF KeyInv, Moves
<1>5. \A i \in 1..n : op'[queue'[i]] # "refresh" <=> Spawns(queue[i])
  BY <1>2, <1>3 DEF Spawns
<1>6. op'[queue'[n + 1]] # "refresh" <=> Spawns(t)
  BY <1>1, <1>2 DEF Spawns
<1>7. CASE Spawns(t)
  <2>1. view'[t].key = mem'.key
    BY <1>1, <1>7 DEF KeyInv
  <2>2. \A j \in 1..Len(queue') : ~(j > n + 1)
    BY <1>2
  <2>3. QED BY <1>2, <1>4, <1>6, <1>7, <2>1, <2>2 DEF KeyInv, Spawns
<1>8. CASE ~Spawns(t)
  <2> SUFFICES ASSUME \A u \in Tasks : step'[u] # "keys" /\ ~(step'[u] = "queue" /\ Spawns(u)')
               PROVE  \/ /\ \A i \in 1..Len(queue') : op'[queue'[i]] = "refresh"
                         /\ config' = mem'.key
                      \/ \E i \in 1..Len(queue') :
                           /\ op'[queue'[i]] # "refresh" /\ view'[queue'[i]].key = mem'.key
                           /\ \A j \in 1..Len(queue') : j > i => op'[queue'[j]] = "refresh"
    BY <1>4 DEF KeyInv, Spawns
  <2>1. \A u \in Tasks : step[u] # "keys" /\ ~(step[u] = "queue" /\ Spawns(u))
    BY <1>1, <1>3, <1>8 DEF Moves
  <2>2. CASE (\A i \in 1..n : ~Spawns(queue[i])) /\ config = mem.key
    BY <1>1, <1>2, <1>5, <1>6, <1>8, <2>2
  <2>3. ASSUME NEW i \in 1..n, Spawns(queue[i]), view[queue[i]].key = mem.key,
               \A j \in 1..n : j > i => ~Spawns(queue[j])
        PROVE  \E k \in 1..Len(queue') :
                  /\ op'[queue'[k]] # "refresh" /\ view'[queue'[k]].key = mem'.key
                  /\ \A j \in 1..Len(queue') : j > k => op'[queue'[j]] = "refresh"
    <3>1. /\ i \in 1..Len(queue') /\ op'[queue'[i]] # "refresh"
          /\ view'[queue'[i]].key = mem'.key
      BY <1>1, <1>2, <1>5, <2>3
    <3>2. \A j \in 1..Len(queue') : j > i => op'[queue'[j]] = "refresh"
      BY <1>2, <1>5, <1>6, <1>8, <2>3
    <3>3. QED BY <3>1, <3>2
  <2>4. QED BY <1>1, <2>1, <2>2, <2>3 DEF KeyInv
<1>9. QED BY <1>7, <1>8

\* The first in the queue is done with the scheduler.
LEMMA LeaveKey ==
  ASSUME TypeOK, OpInv, QueueInv, KeyInv, NEW t \in Tasks, Respawn(t) \/ EndRefresh(t)
  PROVE  KeyInv'
<1> SUFFICES ASSUME ~torn', open' PROVE KeyInv'
  BY DEF KeyInv
<1> DEFINE n == Len(queue)
<1>1. /\ Moves(t) /\ step[t] \in {"join", "refresh"} /\ step'[t] = "idle"
      /\ UNCHANGED <<mem, torn, open>> /\ queue' = Tail(queue)
      /\ \A u \in Tasks \ {t} : view'[u] = view[u]
      /\ config' = IF Spawns(t) THEN view[t].key ELSE config
  <2>1. op[t] \in OpsAt(step[t])
    BY DEF OpInv
  <2>2. CASE Respawn(t)
    BY <2>1, <2>2, GotoMoves, StepNames DEF Respawn, Aside, TypeOK, charter, records, Spawns, OpsAt
  <2>3. CASE EndRefresh(t)
    BY <2>1, <2>3, GotoMoves, StepNames
    DEF EndRefresh, Aside, TypeOK, charter, records, commands, Spawns, OpsAt
  <2>4. QED BY <2>2, <2>3
<1>2. /\ n \in Nat /\ n >= 1 /\ queue[1] = t /\ Len(queue') = n - 1
      /\ \A i \in 1..Len(queue') : queue'[i] = queue[i + 1] /\ queue[i + 1] # t
  BY <1>1, QueueShrinks DEF Holding, QueueInv
<1>3. \A i \in 1..Len(queue') : i + 1 \in 1..n /\ queue[i + 1] \in Tasks
  BY <1>2 DEF QueueInv
<1>4. \A u \in Tasks \ {t} : Spawns(u)' <=> Spawns(u)
  BY <1>1 DEF Spawns, Moves
<1>5. \A i \in 1..Len(queue') : /\ op'[queue'[i]] # "refresh" <=> Spawns(queue[i + 1])
                                /\ view'[queue'[i]] = view[queue[i + 1]]
  BY <1>1, <1>2, <1>3, <1>4 DEF Spawns
<1>6. \A u \in Tasks : step'[u] = "queue" /\ Spawns(u)' => view'[u].key = mem'.key
  BY <1>1, <1>4 DEF KeyInv, Moves
<1> SUFFICES ASSUME \A u \in Tasks : step'[u] # "keys" /\ ~(step'[u] = "queue" /\ Spawns(u)')
             PROVE  \/ /\ \A i \in 1..Len(queue') : op'[queue'[i]] = "refresh"
                       /\ config' = mem'.key
                    \/ \E i \in 1..Len(queue') :
                         /\ op'[queue'[i]] # "refresh" /\ view'[queue'[i]].key = mem'.key
                         /\ \A j \in 1..Len(queue') : j > i => op'[queue'[j]] = "refresh"
  BY <1>6 DEF KeyInv, Spawns
<1>7. \A u \in Tasks : step[u] # "keys" /\ ~(step[u] = "queue" /\ Spawns(u))
  BY <1>1, <1>4 DEF Moves
<1>8. CASE (\A i \in 1..n : ~Spawns(queue[i])) /\ config = mem.key
  BY <1>1, <1>2, <1>3, <1>5, <1>8
<1>9. ASSUME NEW i \in 1..n, Spawns(queue[i]), view[queue[i]].key = mem.key,
             \A j \in 1..n : j > i => ~Spawns(queue[j])
      PROVE  \/ /\ \A k \in 1..Len(queue') : op'[queue'[k]] = "refresh"
                /\ config' = mem'.key
             \/ \E k \in 1..Len(queue') :
                  /\ op'[queue'[k]] # "refresh" /\ view'[queue'[k]].key = mem'.key
                  /\ \A j \in 1..Len(queue') : j > k => op'[queue'[j]] = "refresh"
  <2>1. CASE i = 1
    <3>1. config' = mem'.key
      BY <1>1, <1>2, <1>9, <2>1
    <3>2. \A k \in 1..Len(queue') : op'[queue'[k]] = "refresh"
      <4> SUFFICES ASSUME NEW k \in 1..Len(queue') PROVE ~Spawns(queue[k + 1])
        BY <1>5
      <4>1. k + 1 \in 1..n /\ k + 1 > i
        BY <1>3, <2>1
      <4>2. QED BY <1>9, <4>1
    <3>3. QED BY <3>1, <3>2
  <2>2. CASE i # 1
    <3> DEFINE k == i - 1
    <3>1. k \in 1..Len(queue') /\ k + 1 = i
      BY <1>2, <2>2
    <3>2. op'[queue'[k]] # "refresh" /\ view'[queue'[k]].key = mem'.key
      BY <1>1, <1>5, <1>9, <3>1
    <3>3. \A j \in 1..Len(queue') : j > k => op'[queue'[j]] = "refresh"
      <4> SUFFICES ASSUME NEW j \in 1..Len(queue'), j > k PROVE ~Spawns(queue[j + 1])
        BY <1>5
      <4>1. j + 1 \in 1..n /\ j + 1 > i
        BY <1>3, <3>1
      <4>2. QED BY <1>9, <4>1
    <3>4. QED BY <3>1, <3>2, <3>3
  <2>3. QED BY <2>1, <2>2
<1>10. QED BY <1>1, <1>7, <1>8, <1>9 DEF KeyInv

LEMMA SettingsKey ==
  ASSUME TypeOK, OpInv, QueueInv, KeyInv, NEW t \in Tasks, SettingsStep(t)
  PROVE  KeyInv'
<1> USE StepNames DEF charter, records, scheduler, commands, settingsVars, Holding
<1>0. Moves(t) /\ CharterTypeOK /\ op[t] \in OpsAt(step[t])
  BY SettingsMoves DEF TypeOK, OpInv
<1>1. CASE OpenVault(t)
  <2>1. step'[t] = "keys" /\ (~torn' => \A u \in Tasks \ {t} : step[u] # "queue")
    BY <1>0, <1>1, GotoMoves DEF OpenVault, Open, Overtaken
  <2>2. ~torn' => \A u \in Tasks : ~Bears(u)'
    BY <1>0, <2>1 DEF Moves, Bears
  <2>3. QED BY <2>1, <2>2, KeyOpen
<1>2. CASE Put(t)
  <2>1. CASE step'[t] = "idle"
    BY <1>2, <2>1 DEF Put, KeyInv
  <2>2. CASE step'[t] # "idle"
    <3>1. step'[t] = "keys"
      BY <1>0, <1>2, <2>2, GotoMoves DEF Put, Stored
    <3>2. ~torn' => \A u \in Tasks : ~Bears(u)'
      BY <1>0, <1>2, <3>1 DEF Put, Overtaken, Moves, Bears
    <3>3. QED BY <3>1, <3>2, KeyOpen
  <2>3. QED BY <2>1, <2>2
<1>3. CASE ReadKeys(t)
  <2>1. /\ step[t] = "keys" /\ step'[t] = "queue" /\ op'[t] = op[t] /\ op[t] \in {"unlock", "set"}
        /\ UNCHANGED <<mem, open, torn>>
        /\ \A u \in Tasks \ {t} : view'[u] = view[u]
        /\ open => view'[t].key = mem.key
    <3>1. view[t] \in Records
      BY DEF TypeOK
    <3>2. view'[t] = [view[t] EXCEPT !.key = IF open THEN mem.key ELSE NoKey]
      BY <1>3 DEF ReadKeys, TypeOK
    <3>3. view'[t].key = IF open THEN mem.key ELSE NoKey
      BY <3>1, <3>2 DEF Records
    <3>4. QED BY <1>0, <1>3, <3>3, GotoMoves DEF ReadKeys, Aside, OpsAt, TypeOK
  <2>2. Bears(t)'
    BY <2>1 DEF Bears, Spawns
  <2>3. ASSUME ~torn', open', NEW u \in Tasks, Bears(u)' PROVE view'[u].key = mem'.key
    <3>1. CASE u = t
      BY <2>1, <2>3, <3>1
    <3>2. CASE u # t
      <4>1. step[u] = "queue" /\ Spawns(u)
        BY <1>0, <2>3, <3>2 DEF Bears, Spawns, Moves
      <4>2. QED BY <2>1, <2>3, <3>2, <4>1 DEF KeyInv
    <3>3. QED BY <3>1, <3>2
  <2>4. QED BY <2>2, <2>3, KeyOpen
<1>4. CASE Enqueue(t)
  BY <1>4, EnqueueKey
<1>5. CASE Respawn(t) \/ EndRefresh(t)
  BY <1>5, LeaveKey
\* The others: to no queue but for a refresh, and from none.
<1>6. ASSUME UNCHANGED <<config, queue, open>>, torn => torn', mem'.key = mem.key,
             \A u \in Tasks : u # t \/ step[t] \in Holding => view'[u] = view[u] /\ op'[u] = op[u],
             step[t] \notin {"queue", "keys"}, step'[t] = "queue" => op'[t] = "refresh"
      PROVE  KeyInv'
  <2>1. \A u \in Tasks : /\ Bears(u)' <=> Bears(u)
                         /\ Bears(u) => view'[u] = view[u]
    BY <1>0, <1>6 DEF Bears, Spawns, Moves
  <2>2. \A u \in Tasks : step[u] = "keys" => step'[u] = "keys"
    BY <1>0, <1>6 DEF Moves
  <2>3. QED BY <1>6, <2>1, <2>2, KeyKept
<1>7. CASE Cancel(t) \/ Trigger(t)
  <2>1. PICK s \in {"join", "refresh"} : Goto(t, s)
    BY <1>7 DEF Cancel, Trigger
  <2>2. step[t] = "take" /\ step'[t] \in {"join", "refresh"} /\ op'[t] = op[t]
    BY <1>0, <1>7, <2>1, GotoMoves DEF Cancel, Trigger
  <2>3. UNCHANGED <<config, queue, open, torn, mem, view>>
    BY <1>7 DEF Cancel, Trigger, Aside
  <2>4. QED BY <1>0, <1>6, <2>2, <2>3 DEF Moves
<1>8. CASE Refresh(t)
  BY <1>0, <1>6, <1>8, BeginMoves DEF Refresh, Aside, Moves
<1>9. ASSUME NEW o \in Ops, NEW s \in Steps, NEW x, Asked(t, o, s, x), s # "queue" PROVE KeyInv'
  BY <1>0, <1>6, <1>9, BeginMoves DEF Asked, Aside, Moves
<1>10. CASE ReadList(t)
  <2>1. PICK s \in {"idle", "write"} : Goto(t, s)
    BY <1>10 DEF ReadList
  <2>2. /\ step[t] = "list" /\ step'[t] # "queue" /\ UNCHANGED <<config, queue, open, torn, mem>>
        /\ \A u \in Tasks \ {t} : view'[u] = view[u]
    BY <1>0, <1>10, <2>1, GotoMoves DEF ReadList, Aside, TypeOK
  <2>3. QED BY <1>0, <1>6, <2>2 DEF Moves
<1>11. CASE WriteList(t)
  <2>1. mem'.key = mem.key
    <3>1. \/ mem' = mem
          \/ mem' = [mem EXCEPT !.installs = Edited(t)]
      BY <1>11 DEF WriteList, Stored
    <3>2. QED BY <3>1 DEF TypeOK, Records
  <2>2. /\ step[t] = "write" /\ step'[t] = "idle" /\ UNCHANGED <<config, queue, open>>
        /\ (torn => torn')
        /\ \A u \in Tasks \ {t} : view'[u] = view[u]
    BY <1>0, <1>11, GotoMoves DEF WriteList, Stored, Aside, TypeOK
  <2>3. QED BY <1>0, <1>6, <2>1, <2>2 DEF Moves
<1>12. ASSUME NEW k \in Keys \cup {NoKey}, Set(t, k) PROVE KeyInv'
  BY <1>9, <1>12 DEF Set
<1>13. ASSUME NEW i \in Installations, Save(t, i) \/ Drop(t, i) PROVE KeyInv'
  BY <1>9, <1>13 DEF Save, Drop
<1>14. QED BY <1>1, <1>2, <1>3, <1>4, <1>5, <1>7, <1>8, <1>10, <1>11, <1>12, <1>13 DEF SettingsStep

LEMMA NextKey ==
  ShapeInv /\ KeyInv /\ Next => KeyInv'
<1> SUFFICES ASSUME ShapeInv, KeyInv, Next PROVE KeyInv'
  OBVIOUS
<1> USE DEF ShapeInv, records, scheduler, commands, settingsVars
<1>0. \A u \in Tasks : op'[u] = op[u] /\ step'[u] = step[u] => (Bears(u)' <=> Bears(u))
  BY DEF Bears, Spawns
<1>1. ASSUME NEW t \in Tasks, CharterStep(t), UNCHANGED settingsVars PROVE KeyInv'
  <2>1. Moves(t) /\ step[t] \in CharterSteps /\ step'[t] \in CharterSteps
    BY <1>1, CharterMoves DEF TypeOK
  <2>2. open' => open
    BY <1>1 DEF CharterStep, InitVault, Recover, Issue, Edit, Read, WriteTmp, RemoveOld, Rename,
                CooldownFails, Answer, Unlock, Check, WrongPassword, charter
  <2>3. \A u \in Tasks : /\ step[u] \in Holding => view'[u] = view[u] /\ op'[u] = op[u]
                         /\ Bears(u)' <=> Bears(u)
                         /\ Bears(u) => view'[u] = view[u]
                         /\ step[u] = "keys" => step'[u] = "keys"
    <3> SUFFICES ASSUME NEW u \in Tasks
                 PROVE  /\ step[u] \in Holding => view'[u] = view[u] /\ op'[u] = op[u]
                        /\ Bears(u)' <=> Bears(u)
                        /\ Bears(u) => view'[u] = view[u]
                        /\ step[u] = "keys" => step'[u] = "keys"
      OBVIOUS
    <3>1. CASE u = t
      BY <1>1, <2>1, <3>1 DEF CharterSteps, Holding, Bears
    <3>2. CASE u # t
      BY <1>0, <1>1, <2>1, <3>2 DEF Moves
    <3>3. QED BY <3>1, <3>2
  <2>4. QED BY <1>1, <2>2, <2>3, KeyKept
<1>2. ASSUME NEW t \in Tasks, SettingsStep(t) PROVE KeyInv'
  BY <1>2, SettingsKey
<1>3. CASE (Expire /\ UNCHANGED settingsVars) \/ PollStep \/ LockVault
  <2>1. UNCHANGED <<config, queue, mem, view, torn, step, op>> /\ (open' => open)
    BY <1>3, PollersOnly DEF Expire, LockVault, charterVars, charter, records, commands, settingsVars, scheduler
  <2>2. QED BY <1>0, <2>1, KeyKept
<1>4. CASE Restart
  BY <1>4 DEF Restart, Restarted, KeyInv
<1>5. QED BY <1>1, <1>2, <1>3, <1>4, NextCases

-----------------------------------------------------------------------------
(* The installations.                                                      *)

\* A step that adds nothing to what was reported as saved; the lists are taken over
\* from the file, from the open vault, or from what has been read of it.
LEMMA ListKept ==
  ASSUME ListInv, torn => torn', acked' \subseteq acked,
         saved'.installs = saved.installs \/ (open /\ saved'.installs = mem.installs),
         open' => (open /\ mem'.installs = mem.installs) \/ mem'.installs = saved.installs,
         \A u \in Tasks : step'[u] = "write" =>
           \/ step[u] = "write" /\ view'[u].installs = view[u].installs
           \/ open /\ view'[u].installs = mem.installs,
         \A u \in Tasks : op'[u] = "drop" =>
           (op[u] = "drop" /\ target'[u] = target[u]) \/ target'[u] \notin acked'
  PROVE  ListInv'
BY DEF ListInv

LEMMA SettingsList ==
  ASSUME TypeOK, OpInv, ListInv, NEW t \in Tasks, SettingsStep(t)
  PROVE  ListInv'
<1> USE StepNames DEF charter, records, scheduler, commands, settingsVars
<1>0. /\ Moves(t) /\ CharterTypeOK /\ op[t] \in OpsAt(step[t])
      /\ target \in [Tasks -> Keys \cup {NoKey} \cup Installations]
      /\ mem \in Records /\ view \in [Tasks -> Records]
  BY SettingsMoves DEF TypeOK, OpInv
<1>1. \A u \in Tasks : op[u] = "drop" => step[u] \in {"list", "write"}
  BY DEF OpInv, OpsAt, Writers, TypeOK, CharterTypeOK, Steps
\* The lists are left alone, and t neither drops an installation nor writes the list.
<1>2. ASSUME torn => torn', acked' \subseteq acked,
             saved'.installs = saved.installs \/ (open /\ saved'.installs = mem.installs),
             open' => (open /\ mem'.installs = mem.installs) \/ mem'.installs = saved.installs,
             step'[t] # "write",
             \A u \in Tasks \ {t} : target'[u] = target[u] /\ view'[u] = view[u],
             op'[t] = "drop" => target'[t] \notin acked'
      PROVE  ListInv'
  <2>1. \A u \in Tasks : step'[u] = "write" => step[u] = "write" /\ view'[u] = view[u]
    BY <1>0, <1>2 DEF Moves
  <2>2. \A u \in Tasks : op'[u] = "drop" =>
          (op[u] = "drop" /\ target'[u] = target[u]) \/ target'[u] \notin acked'
    BY <1>0, <1>2 DEF Moves
  <2>3. QED BY <1>2, <2>1, <2>2, ListKept
<1>3. CASE OpenVault(t)
  BY <1>0, <1>2, <1>3, GotoMoves DEF OpenVault, Open, OpsAt
<1>4. CASE Put(t)
  <2>1. PICK s \in {"idle", "keys"} : Goto(t, s)
    BY <1>4 DEF Put, Stored
  <2>2. [mem EXCEPT !.key = target[t]].installs = mem.installs
    BY <1>0 DEF Records
  <2>3. /\ open' = open /\ (torn => torn') /\ acked' = acked
        /\ saved'.installs = saved.installs \/ (open /\ saved'.installs = mem.installs)
        /\ open' => (open /\ mem'.installs = mem.installs)
        /\ \A u \in Tasks \ {t} : target'[u] = target[u] /\ view'[u] = view[u]
    BY <1>4, <2>2 DEF Put, Stored, Aside, Forget, TypeOK
  <2>4. step'[t] # "write" /\ op'[t] # "drop"
    BY <1>0, <1>4, <2>1, GotoMoves DEF Put, OpsAt
  <2>5. QED BY <1>2, <2>3, <2>4
<1>5. CASE ReadKeys(t) \/ Enqueue(t) \/ Cancel(t) \/ Respawn(t) \/ Trigger(t) \/ EndRefresh(t)
  <2>1. PICK s \in {"queue", "take", "join", "refresh", "idle"} : Goto(t, s)
    BY <1>5 DEF ReadKeys, Enqueue, Cancel, Respawn, Trigger, EndRefresh
  <2>2. UNCHANGED <<target, torn, acked, open, mem, saved>>
    BY <1>5 DEF ReadKeys, Enqueue, Cancel, Respawn, Trigger, EndRefresh, Aside
  <2>3. \A u \in Tasks \ {t} : view'[u] = view[u]
    BY <1>5 DEF ReadKeys, Enqueue, Cancel, Respawn, Trigger, EndRefresh, TypeOK
  <2>4. op[t] # "drop"
    BY <1>0, <1>5 DEF ReadKeys, Enqueue, Cancel, Respawn, Trigger, EndRefresh, OpsAt
  <2>5. step'[t] # "write" /\ op'[t] # "drop"
    BY <1>0, <2>1, <2>4, GotoMoves
  <2>6. QED BY <1>2, <2>2, <2>3, <2>5
<1>6. CASE Refresh(t)
  BY <1>0, <1>2, <1>6, BeginMoves DEF Refresh, Aside
<1>7. ASSUME NEW k \in Keys \cup {NoKey}, Set(t, k) PROVE ListInv'
  BY <1>0, <1>2, <1>7, BeginMoves DEF Set, Asked, Aside
<1>8. ASSUME NEW i \in Installations, Save(t, i) PROVE ListInv'
  BY <1>0, <1>2, <1>8, BeginMoves DEF Save, Asked, Aside
<1>9. ASSUME NEW i \in Installations, Drop(t, i) PROVE ListInv'
  <2>1. target'[t] = i /\ acked' = acked \ {i}
    BY <1>0, <1>9 DEF Drop, Asked
  <2>2. QED BY <1>0, <1>2, <1>9, <2>1, BeginMoves DEF Drop, Asked, Aside
<1>10. CASE ReadList(t)
  <2>1. UNCHANGED <<torn, acked, open, mem, saved>> /\ step[t] = "list"
    BY <1>10 DEF ReadList, Aside
  <2>2. CASE ~open
    BY <1>0, <1>2, <1>10, <2>1, <2>2, GotoMoves DEF ReadList, Forget
  <2>3. CASE open
    <3>1. /\ view' = [view EXCEPT ![t] = [view[t] EXCEPT !.installs = mem.installs]]
          /\ UNCHANGED target /\ step'[t] = "write" /\ op'[t] = op[t]
      BY <1>0, <1>10, <2>3, GotoMoves DEF ReadList
    <3>2. view'[t].installs = mem.installs
      BY <1>0, <3>1 DEF Records
    <3>3. \A u \in Tasks : step'[u] = "write" =>
            \/ step[u] = "write" /\ view'[u].installs = view[u].installs
            \/ open /\ view'[u].installs = mem.installs
      BY <1>0, <2>3, <3>1, <3>2 DEF Moves
    <3>4. \A u \in Tasks : op'[u] = "drop" => op[u] = "drop" /\ target'[u] = target[u]
      BY <1>0, <3>1 DEF Moves
    <3>5. QED BY <2>1, <3>3, <3>4, ListKept
  <2>4. QED BY <2>2, <2>3
<1>11. CASE WriteList(t)
  <2> SUFFICES ASSUME ~torn' PROVE ListInv'
    BY DEF ListInv
  <2>1. /\ ~torn /\ step[t] = "write" /\ step'[t] = "idle" /\ op'[t] = "none" /\ open' = open
        /\ \A u \in Tasks \ {t} : step[u] # "write" /\ target'[u] = target[u]
    BY <1>0, <1>11, GotoMoves DEF WriteList, Stored, Aside, Forget
  <2>2. \A u \in Tasks : step'[u] # "write"
    BY <1>0, <2>1 DEF Moves
  <2>3. acked \subseteq view[t].installs /\ acked \subseteq saved.installs
    BY <2>1 DEF ListInv
  <2>4. [mem EXCEPT !.installs = Edited(t)].installs = Edited(t)
    BY <1>0 DEF Records
  <2>5. acked \subseteq Edited(t) /\ (op[t] = "save" => target[t] \in Edited(t))
    <3>1. op[t] # "save" => op[t] = "drop" /\ target[t] \notin acked
      BY <1>0, <2>1 DEF OpsAt, ListInv
    <3>2. QED BY <2>3, <3>1 DEF Edited
  <2>6. acked' \subseteq acked \cup {target[t]} /\ (acked' # acked => op[t] = "save" /\ open /\ faults' = faults)
    BY <1>11 DEF WriteList
  <2>7. acked' \subseteq saved'.installs
    <3>1. CASE acked' = acked
      <4>1. saved' = saved \/ saved' = [mem EXCEPT !.installs = Edited(t)]
        BY <1>11 DEF WriteList, Stored
      <4>2. QED BY <2>3, <2>4, <2>5, <3>1, <4>1
    <3>2. CASE acked' # acked
      <4>1. ~Fault
        <5>1. faults \in Nat
          BY SetupTyped DEF TypeOK, CharterTypeOK
        <5>2. QED BY <2>6, <3>2, <5>1 DEF Fault
      <4>2. saved' = [mem EXCEPT !.installs = Edited(t)]
        BY <1>11, <2>6, <3>2, <4>1 DEF WriteList, Stored
      <4>3. QED BY <2>4, <2>5, <2>6, <3>2, <4>2
    <3>3. QED BY <3>1, <3>2
  <2>8. open' => acked' \subseteq mem'.installs
    <3>1. ASSUME open' PROVE mem' = [mem EXCEPT !.installs = Edited(t)]
      BY <1>11, <2>1, <3>1 DEF WriteList, Stored
    <3>2. QED BY <2>4, <2>5, <2>6, <3>1
  <2>9. ASSUME NEW u \in Tasks, op'[u] = "drop" PROVE target'[u] \notin acked'
    <3>1. u # t /\ op[u] = "drop" /\ target'[u] = target[u]
      BY <1>0, <2>1, <2>9 DEF Moves
    <3>2. target[u] \notin acked /\ step[u] \in {"list", "write"}
      BY <1>1, <2>1, <3>1 DEF ListInv
    <3>3. target[u] = target[t] => acked' = acked
      <4>1. target[u] = target[t] => Dropping(target[t])
        BY <3>1, <3>2 DEF Dropping
      <4>2. QED BY <1>11, <4>1 DEF WriteList
    <3>4. QED BY <2>6, <3>1, <3>2, <3>3
  <2>10. QED BY <2>2, <2>7, <2>8, <2>9 DEF ListInv
<1>12. QED BY <1>3, <1>4, <1>5, <1>6, <1>7, <1>8, <1>9, <1>10, <1>11 DEF SettingsStep

LEMMA NextList ==
  ShapeInv /\ ListInv /\ Next => ListInv'
<1> SUFFICES ASSUME ShapeInv, ListInv, Next PROVE ListInv'
  OBVIOUS
<1> USE DEF ShapeInv, records, scheduler, commands, settingsVars
<1>1. ASSUME NEW t \in Tasks, CharterStep(t), UNCHANGED settingsVars PROVE ListInv'
  <2>1. Moves(t) /\ step'[t] \in CharterSteps /\ op'[t] \in OpsAt(step'[t])
    BY <1>1, CharterMoves DEF TypeOK
  <2>2. open' => open
    BY <1>1 DEF CharterStep, InitVault, Recover, Issue, Edit, Read, WriteTmp, RemoveOld, Rename,
                CooldownFails, Answer, Unlock, Check, WrongPassword, charter
  <2>3. step'[t] # "write" /\ op'[t] # "drop"
    BY <2>1 DEF CharterSteps, OpsAt, Writers
  <2>4. QED BY <1>1, <2>1, <2>2, <2>3, ListKept DEF Moves
<1>2. ASSUME NEW t \in Tasks, SettingsStep(t) PROVE ListInv'
  BY <1>2, SettingsList
<1>3. CASE (Expire /\ UNCHANGED settingsVars) \/ PollStep
  <2>1. UNCHANGED <<mem, saved, view, target, acked, torn, step, op, open>>
    BY <1>3, PollersOnly DEF Expire, charterVars, charter, records, commands, settingsVars
  <2>2. QED BY <2>1, ListKept
<1>4. CASE LockVault
  <2>1. /\ UNCHANGED <<mem, view, target, acked, torn, step, op>> /\ open
        /\ saved' = mem \/ saved' = saved
    BY <1>4 DEF LockVault
  <2>2. QED BY <2>1, ListKept
<1>5. CASE Restart
  <2>1. \A t \in Tasks : step'[t] # "write" /\ op'[t] # "drop"
    BY <1>5 DEF Restart, Restarted
  <2>2. ~open' /\ UNCHANGED <<saved, acked, torn>>
    BY <1>5 DEF Restart, Restarted
  <2>3. QED BY <2>1, <2>2, ListKept
<1>6. QED BY <1>1, <1>2, <1>3, <1>4, <1>5, NextCases

-----------------------------------------------------------------------------
(* What is printed is read back.                                           *)

LEMMA AppendThird ==
  ASSUME NEW a, NEW b, NEW c
  PROVE  Append(<<a, b>>, c) = <<a, b, c>>
<1> DEFINE S == {a, b, c}
           s == Append(<<a, b>>, c)
<1>1. <<a, b>> \in Seq(S) /\ Len(<<a, b>>) = 2 /\ c \in S /\ <<a, b, c>> \in Seq(S)
  OBVIOUS
<1>2. s \in Seq(S) /\ Len(s) = 3 /\ s[1] = a /\ s[2] = b /\ s[3] = c
  BY <1>1, AppendProperties
<1> HIDE DEF s, S
<1>3. s = <<a, b, c>>
  BY <1>2
<1>4. QED BY <1>3 DEF s

LEMMA ConcatThree ==
  ASSUME NEW a, NEW b, NEW c, NEW x, NEW y, NEW z
  PROVE  /\ <<x, y, z>> \o <<a, b, c>> = <<x, y, z, a, b, c>>
         /\ <<x>> \o <<a, b, c>> = <<x, a, b, c>>
<1> DEFINE S == {a, b, c, x, y, z}
           u == <<x, y, z>> \o <<a, b, c>>
           v == <<x>> \o <<a, b, c>>
<1>1. /\ <<a, b, c>> \in Seq(S) /\ <<x, y, z>> \in Seq(S) /\ <<x>> \in Seq(S)
      /\ Len(<<a, b, c>>) = 3 /\ Len(<<x, y, z>>) = 3 /\ Len(<<x>>) = 1
  OBVIOUS
<1>2. /\ u \in Seq(S) /\ Len(u) = 6 /\ u[1] = x /\ u[2] = y /\ u[3] = z
      /\ u[4] = a /\ u[5] = b /\ u[6] = c
  BY <1>1, ConcatProperties
<1>3. v \in Seq(S) /\ Len(v) = 4 /\ v[1] = x /\ v[2] = a /\ v[3] = b /\ v[4] = c
  BY <1>1, ConcatProperties
<1> HIDE DEF u, v, S
<1>4. u = <<x, y, z, a, b, c>>
  BY <1>2
<1>5. v = <<x, a, b, c>>
  BY <1>3
<1>6. QED BY <1>4, <1>5 DEF u, v

LEMMA TokensOf ==
  ASSUME NEW a, NEW b, NEW c, NEW x, NEW y, NEW z, NEW ts
  PROVE  /\ ts = <<x, y, z, a, b, c>> =>
              /\ Len(ts) = 6 /\ DOMAIN ts = 1..6 /\ ts[1] = x /\ ts[2] = y /\ ts[3] = z
              /\ ts[4] = a /\ ts[5] = b /\ ts[6] = c
         /\ ts = <<x, a, b, c>> =>
              /\ Len(ts) = 4 /\ DOMAIN ts = 1..4 /\ ts[1] = x
              /\ ts[2] = a /\ ts[3] = b /\ ts[4] = c
OBVIOUS

\* The tokens of a phrase, and of a share in either form, one by one.
LEMMA PhraseTokens ==
  ASSUME NEW p
  PROVE  FormattedPhrase(p) = <<Token("word", 1, p), Token("word", 2, p), Number(p.verifier)>>
<1>1. Words(p) = <<Token("word", 1, p), Token("word", 2, p)>>
  BY DEF Words, WordCount
<1>2. QED BY <1>1, AppendThird DEF FormattedPhrase

LEMMA ShareTokens ==
  ASSUME NEW p
  PROVE  /\ FormattedShare(p) = <<Number(p.index), Of, Number(TotalShares), Token("word", 1, p),
                                  Token("word", 2, p), Number(p.verifier)>>
         /\ ShortShare(p) = <<Number(p.index), Token("word", 1, p), Token("word", 2, p),
                              Number(p.verifier)>>
<1> DEFINE a == Token("word", 1, p)
           b == Token("word", 2, p)
           c == Number(p.verifier)
           x == Number(p.index)
           y == Of
           z == Number(TotalShares)
<1>1. FormattedPhrase(p) = <<a, b, c>>
  BY PhraseTokens
<1>2. FormattedShare(p) = <<x, y, z>> \o <<a, b, c>> /\ ShortShare(p) = <<x>> \o <<a, b, c>>
  BY <1>1 DEF FormattedShare, ShortShare
<1> HIDE DEF a, b, c, x, y, z
<1>3. <<x, y, z>> \o <<a, b, c>> = <<x, y, z, a, b, c>> /\ <<x>> \o <<a, b, c>> = <<x, a, b, c>>
  BY ConcatThree
<1>4. QED BY <1>2, <1>3 DEF a, b, c, x, y, z

LEMMA DecodedPhrase ==
  ASSUME NEW p
  PROVE  Decoded(FormattedPhrase(p)) = {p}
<1> DEFINE ts == FormattedPhrase(p)
<1>1. Len(ts) = 3 /\ ts[1] = Token("word", 1, p) /\ ts[2] = Token("word", 2, p)
  BY PhraseTokens
<1>2. Len(ts) = WordCount + 1
  BY <1>1 DEF WordCount
<1>3. {k \in 1..WordCount : ts[k].kind = "word"} = {1, 2}
  BY <1>1 DEF Token, WordCount
<1>4. {ts[k].paper : k \in {1, 2}} = {p}
  BY <1>1 DEF Token
<1> HIDE DEF ts
<1>5. QED BY <1>2, <1>3, <1>4 DEF Decoded, ts

LEMMA PhraseReadBack ==
  ASSUME NEW p, p.index = 0
  PROVE  ParsePhrase(FormattedPhrase(p)) = {p}
BY DecodedPhrase DEF ParsePhrase

\* What is kept of three positions in a row is the tokens there.
LEMMA BodyOfThree ==
  ASSUME NEW ts, NEW i, NEW n \in Nat, Kept(ts, i) = {n, n + 1, n + 2}
  PROVE  Body(ts, i) = <<ts[n], ts[n + 1], ts[n + 2]>>
<1> DEFINE kept == {n, n + 1, n + 2}
           nth(k) == CHOOSE j \in kept : Cardinality({m \in kept : m < j}) = k - 1
<1>1. /\ {m \in kept : m < n} = {} /\ {m \in kept : m < n + 1} = {n}
      /\ {m \in kept : m < n + 2} = {n, n + 1}
  OBVIOUS
<1>2. Cardinality({}) = 0 /\ IsFiniteSet({})
  BY FS_EmptySet
<1>3. Cardinality({n}) = 1 /\ IsFiniteSet({n})
  BY FS_Singleton
<1>4. Cardinality({n, n + 1}) = 2 /\ IsFiniteSet({n, n + 1})
  <2>1. {n, n + 1} = {n} \cup {n + 1} /\ n + 1 \notin {n}
    OBVIOUS
  <2>2. QED BY <1>3, <2>1, FS_AddElement
<1>5. Cardinality(kept) = 3
  <2>1. kept = {n, n + 1} \cup {n + 2} /\ n + 2 \notin {n, n + 1}
    OBVIOUS
  <2>2. QED BY <1>4, <2>1, FS_AddElement
<1>6. nth(1) = n /\ nth(2) = n + 1 /\ nth(3) = n + 2
  <2> DEFINE C(j) == Cardinality({m \in kept : m < j})
  <2>1. C(n) = 0 /\ C(n + 1) = 1 /\ C(n + 2) = 2
    BY <1>1, <1>2, <1>3, <1>4
  <2> HIDE DEF C
  <2>2. \A k \in 1..3 : (CHOOSE j \in kept : C(j) = k - 1) = n + k - 1
    BY <2>1
  <2>3. nth(1) = n + 1 - 1 /\ nth(2) = n + 2 - 1 /\ nth(3) = n + 3 - 1
    BY <2>2 DEF C
  <2>4. QED BY <2>3
<1>7. Body(ts, i) = [k \in 1..Cardinality(kept) |-> ts[nth(k)]]
  BY DEF Body
<1> HIDE DEF nth, kept
<1>8. QED BY <1>5, <1>6, <1>7

LEMMA ShareReadBack ==
  ASSUME NEW p \in Paper, p.index # 0, p.verifier # TotalShares
  PROVE  /\ ParseShare(FormattedShare(p)) = {p}
         /\ ParseShare(ShortShare(p)) = {p}
<1> DEFINE a == Token("word", 1, p)
           b == Token("word", 2, p)
           c == Number(p.verifier)
<1>0. p.index \in 1..3 /\ p.verifier = 7
  BY DEF Paper, Verifiers, TotalShares
<1>1. FormattedPhrase(p) = <<a, b, c>>
  BY PhraseTokens
<1>2. /\ a.kind = "word" /\ b.kind = "word" /\ c.kind = "number" /\ c.n = 7
      /\ Of.kind = "of" /\ Number(p.index).kind = "number" /\ Number(p.index).n = p.index
      /\ Number(TotalShares).kind = "number" /\ Number(TotalShares).n = 3
  BY <1>0 DEF Token, Number, Of, TotalShares
<1>3. ASSUME NEW ts, NEW at, at = {i \in DOMAIN ts : IndexAt(ts, i)}, 1 \in at, at \subseteq Nat \ {0},
             Body(ts, 1) = FormattedPhrase(p), ts[1] = Number(p.index)
      PROVE  ParseShare(ts) = {p}
  <2> DEFINE i == CHOOSE j \in at : \A k \in at : j <= k
  <2>1. i = 1
    BY <1>3
  <2>2. Decoded(Body(ts, 1)) = {p}
    BY <1>3, DecodedPhrase
  <2>3. IsNumber(ts[1], p.index)
    BY <1>2, <1>3 DEF IsNumber
  <2>4. ParseShare(ts) = {q \in Decoded(Body(ts, i)) : IsNumber(ts[i], q.index)}
    BY <1>3 DEF ParseShare
  <2> HIDE DEF i
  <2>5. QED BY <2>1, <2>2, <2>3, <2>4
<1>4. ParseShare(FormattedShare(p)) = {p}
  <2> DEFINE ts == FormattedShare(p)
             at == {i \in DOMAIN ts : IndexAt(ts, i)}
  <2>0. ts = <<Number(p.index), Of, Number(TotalShares), a, b, c>>
    BY ShareTokens
  <2> HIDE DEF ts, a, b, c
  <2>1. /\ Len(ts) = 6 /\ DOMAIN ts = 1..6 /\ ts[1] = Number(p.index) /\ ts[2] = Of
        /\ ts[3] = Number(TotalShares) /\ ts[4] = a /\ ts[5] = b /\ ts[6] = c
    BY <2>0, TokensOf
  <2>2. 1 \in at /\ at \subseteq Nat \ {0}
    BY <1>0, <1>2, <2>1 DEF IndexAt, IsNumber, TotalShares
  <2>3. Kept(ts, 1) = {4, 4 + 1, 4 + 2}
    BY <1>2, <2>1 DEF Kept, IsNumber, TotalShares
  <2>4. Body(ts, 1) = <<ts[4], ts[4 + 1], ts[4 + 2]>>
    BY <2>3, BodyOfThree
  <2>5. Body(ts, 1) = FormattedPhrase(p)
    BY <1>1, <2>1, <2>4
  <2>6. QED BY <1>3, <2>1, <2>2, <2>5 DEF ts
<1>5. ParseShare(ShortShare(p)) = {p}
  <2> DEFINE ts == ShortShare(p)
             at == {i \in DOMAIN ts : IndexAt(ts, i)}
  <2>0. ts = <<Number(p.index), a, b, c>>
    BY ShareTokens
  <2> HIDE DEF ts, a, b, c
  <2>1. /\ Len(ts) = 4 /\ DOMAIN ts = 1..4 /\ ts[1] = Number(p.index)
        /\ ts[2] = a /\ ts[3] = b /\ ts[4] = c
    BY <2>0, TokensOf
  <2>2. 1 \in at /\ at \subseteq Nat \ {0}
    BY <1>0, <1>2, <2>1 DEF IndexAt, IsNumber, TotalShares
  <2>3. Kept(ts, 1) = {2, 2 + 1, 2 + 2}
    BY <1>2, <2>1 DEF Kept, IsNumber, TotalShares
  <2>4. Body(ts, 1) = <<ts[2], ts[2 + 1], ts[2 + 2]>>
    BY <2>3, BodyOfThree
  <2>5. Body(ts, 1) = FormattedPhrase(p)
    BY <1>1, <2>1, <2>4
  <2>6. QED BY <1>3, <2>1, <2>2, <2>5 DEF ts
<1>6. QED BY <1>4, <1>5

LEMMA SharesReadBack ==
  ASSUME NEW shares \in SUBSET Paper, \A p \in shares : p.index # 0 /\ p.verifier # TotalShares,
         NEW typed \in SharesTyped(shares)
  PROVE  /\ \A ts \in typed : ParseShare(ts) # {}
         /\ UNION {ParseShare(ts) : ts \in typed} = shares
<1>1. PICK short \in SUBSET shares :
        typed = {FormattedShare(p) : p \in shares \ short} \cup {ShortShare(p) : p \in short}
  BY DEF SharesTyped
<1>2. ASSUME NEW ts \in typed PROVE \E p \in shares : ParseShare(ts) = {p}
  BY <1>1, ShareReadBack
<1>3. ASSUME NEW p \in shares PROVE \E ts \in typed : ParseShare(ts) = {p}
  <2>1. FormattedShare(p) \in typed \/ ShortShare(p) \in typed
    BY <1>1
  <2>2. QED BY <2>1, ShareReadBack
<1> DEFINE all == {ParseShare(ts) : ts \in typed}
<1>4. ASSUME NEW p \in UNION all PROVE p \in shares
  <2>1. PICK ts \in typed : p \in ParseShare(ts)
    BY <1>4
  <2>2. QED BY <1>2, <2>1
<1>5. ASSUME NEW p \in shares PROVE p \in UNION all
  <2>1. PICK ts \in typed : ParseShare(ts) = {p}
    BY <1>3
  <2>2. ParseShare(ts) \in all
    OBVIOUS
  <2>3. QED BY <2>1, <2>2
<1>6. UNION all = shares
  BY <1>4, <1>5
<1>7. \A ts \in typed : ParseShare(ts) # {}
  BY <1>2
<1>8. QED BY <1>6, <1>7

\* Two shares or more of one charter that are read back give its secret.
LEMMA SharesOpen ==
  ASSUME NEW shares \in SUBSET Paper, NEW n \in Nat \ {0},
         \A p \in shares : p.charter = n /\ p.index # 0 /\ p.verifier # TotalShares,
         Cardinality(shares) >= Threshold, NEW typed \in SharesTyped(shares)
  PROVE  Recovered("shamir", typed) = {n}
<1>1. /\ \A ts \in typed : ParseShare(ts) # {}
      /\ UNION {ParseShare(ts) : ts \in typed} = shares
  BY SharesReadBack
<1>2. \E a, b \in shares : a # b
  <2>1. SUFFICES ASSUME \A a, b \in shares : a = b PROVE FALSE
    OBVIOUS
  <2>2. shares = {} \/ \E a : shares = {a}
    BY <2>1
  <2>3. Cardinality(shares) \in {0, 1}
    BY <2>2, FS_EmptySet, FS_Singleton
  <2>4. QED BY <2>3 DEF Threshold
<1>3. PICK a \in shares, b \in shares : a # b
  BY <1>2
<1>4. a.index # b.index
  <2>1. a.verifier = b.verifier
    BY DEF Verifiers, Paper, TotalShares
  <2>2. a = [charter |-> a.charter, index |-> a.index, verifier |-> a.verifier]
        /\ b = [charter |-> b.charter, index |-> b.index, verifier |-> b.verifier]
    BY DEF Paper
  <2>3. a.charter = b.charter
    OBVIOUS
  <2>4. QED BY <1>3, <2>1, <2>2, <2>3
<1>5. Combine(shares) = {n}
  BY <1>3, <1>4 DEF Combine
<1>6. QED BY <1>1, <1>5 DEF Recovered

LEMMA PhraseOpens ==
  ASSUME NEW p, p.index = 0
  PROVE  Recovered("single", {FormattedPhrase(p)}) = {p.charter}
<1>1. UNION {ParsePhrase(ts) : ts \in {FormattedPhrase(p)}} = {p}
  BY PhraseReadBack
<1>2. QED BY <1>1 DEF Recovered

\* So of a charter that is on paper, the phrase or enough shares open the vault.
LEMMA PapersOpen ==
  ASSUME CharterTypeOK, file \in Nat \ {0}
  PROVE  /\ \A p \in Current : p.index = 0 => Opens("single", {FormattedPhrase(p)})
         /\ \A kept \in SUBSET {p \in Current : p.index # 0 /\ p.verifier # TotalShares} :
              Cardinality(kept) >= Threshold =>
                \A typed \in SharesTyped(kept) : Opens("shamir", typed)
<1>1. Current \subseteq Paper /\ \A p \in Current : p.charter = file
  BY DEF CharterTypeOK, Current
<1>2. ASSUME NEW p \in Current, p.index = 0 PROVE Opens("single", {FormattedPhrase(p)})
  BY <1>1, <1>2, PhraseOpens DEF Opens
<1> DEFINE Good == {p \in Current : p.index # 0 /\ p.verifier # TotalShares}
<1>3. \A kept \in SUBSET Good : Cardinality(kept) >= Threshold =>
        \A typed \in SharesTyped(kept) : Opens("shamir", typed)
  <2> SUFFICES ASSUME NEW kept \in SUBSET Good, Cardinality(kept) >= Threshold,
                      NEW typed \in SharesTyped(kept)
               PROVE  Opens("shamir", typed)
    OBVIOUS
  <2>1. kept \in SUBSET Paper
        /\ \A p \in kept : p.charter = file /\ p.index # 0 /\ p.verifier # TotalShares
    BY <1>1
  <2>2. Recovered("shamir", typed) = {file}
    BY <2>1, SharesOpen
  <2>3. QED BY <2>2 DEF Opens
<1>4. \A p \in Current : p.index = 0 => Opens("single", {FormattedPhrase(p)})
  BY <1>2
<1>5. QED BY <1>3, <1>4

-----------------------------------------------------------------------------
(* The charter that has been issued.                                       *)

LEMMA ShownKept ==
  ASSUME ShownInv, UNCHANGED <<file, papers, draft>>, excused => excused', faults' = 0 => faults = 0
  PROVE  ShownInv'
BY DEF ShownInv, Current

LEMMA FaultCounts ==
  ASSUME CharterAssumption, CharterTypeOK, UNCHANGED faults \/ Fault
  PROVE  /\ faults' = 0 => faults = 0
         /\ Fault => faults' # 0
<1>1. faults \in Nat
  BY SetupTyped DEF CharterTypeOK
<1>2. QED BY <1>1 DEF Fault

LEMMA IssueShown ==
  ASSUME CharterTypeOK, NEW t \in Tasks, NEW mode \in Modes, NEW odd, Issue(t, mode, odd)
  PROVE  ShownInv'
<1>1. SUFFICES ASSUME file' \in Nat \ {0} PROVE \E p \in draft'[t] : p.charter = file'
  BY DEF ShownInv
<1>2. mode # "none" /\ file' = issues + 1
  BY <1>1 DEF Issue
<1>3. draft'[t] = Printed(issues + 1, mode, odd)
  BY DEF Issue, CharterTypeOK
<1>4. \E p \in Printed(issues + 1, mode, odd) : p.charter = issues + 1
  <2> DEFINE n == issues + 1
             paper(i) == [charter |-> n, index |-> i,
                          verifier |-> IF i \in odd THEN TotalShares ELSE TotalShares + 4]
  <2>1. \A i : paper(i).charter = n
    OBVIOUS
  <2>2. CASE mode = "single"
    <3>1. Printed(n, mode, odd) = {paper(0)}
      BY <2>2 DEF Printed
    <3>2. QED BY <2>1, <3>1
  <2>3. CASE mode = "shamir"
    <3>1. Printed(n, mode, odd) = {paper(i) : i \in 1..TotalShares}
      BY <2>3 DEF Printed
    <3>2. paper(1) \in Printed(n, mode, odd)
      BY <3>1 DEF TotalShares
    <3>3. QED BY <2>1, <3>2
  <2>4. QED BY <1>2, <2>2, <2>3 DEF Modes
<1>5. QED BY <1>2, <1>3, <1>4

LEMMA CharterShown ==
  ASSUME CharterAssumption, ShapeInv, CoolInv, ShownInv, NEW t \in Tasks, CharterStep(t)
  PROVE  ShownInv'
<1> USE DEF ShapeInv, TypeOK, charter, cooldown, history
<1>1. ASSUME NEW p \in setup.prints, InitVault(t, p[1], p[2]) \/ Recover(t, p[1], p[2])
      PROVE  ShownInv'
  <2>1. p[1] \in Modes
    BY DEF CharterAssumption, CharterTypeOK, Setup
  <2>2. Issue(t, p[1], p[2])
    BY <1>1 DEF InitVault, Recover
  <2>3. QED BY <2>1, <2>2, IssueShown
<1>2. ASSUME NEW o \in Ops, Edit(t, o) PROVE ShownInv'
  BY <1>2, ShownKept DEF Edit
<1>3. CASE Read(t)
  BY <1>3, ShownKept DEF Read
<1>4. CASE WriteTmp(t) \/ RemoveOld(t) \/ Rename(t)
  BY <1>4, ShownKept DEF WriteTmp, RemoveOld, Rename
<1>5. CASE CooldownFails(t)
  <2>1. CASE Fault
    BY <2>1, FaultCounts DEF ShownInv
  <2>2. CASE step[t] = "rename" /\ tmp = Absent
    <3>1. seen[t] \in Sidecar
      BY DEF CharterTypeOK
    <3>2. excused
      BY <2>2, <3>1 DEF CoolInv, Writing, CharterAssumption, Sidecar
    <3>3. excused'
      BY <1>5, <3>2 DEF CooldownFails
    <3>4. QED BY <3>3 DEF ShownInv
  <2>3. QED BY <1>5, <2>1, <2>2 DEF CooldownFails
<1>6. CASE Answer(t)
  <2>1. UNCHANGED <<file, faults, excused>> /\ papers' = papers \cup draft[t]
        /\ \A u \in Tasks \ {t} : draft'[u] = draft[u]
    BY <1>6 DEF Answer, CharterTypeOK
  <2>2. QED BY <2>1 DEF ShownInv, Current
<1>7. CASE Unlock(t) \/ WrongPassword(t)
  BY <1>7, ShownKept DEF Unlock, WrongPassword
<1>8. CASE Check(t)
  <2>1. faults' = 0 => faults = 0
    BY <1>8, FaultCounts DEF Check
  <2>2. QED BY <1>8, <2>1, ShownKept DEF Check
<1>9. QED BY <1>1, <1>2, <1>3, <1>4, <1>5, <1>6, <1>7, <1>8 DEF CharterStep

LEMMA NextShown ==
  ASSUME CharterAssumption, ShapeInv, CoolInv, ShownInv, Next
  PROVE  ShownInv'
<1> USE DEF ShapeInv, TypeOK
<1>1. ASSUME NEW t \in Tasks, CharterStep(t) PROVE ShownInv'
  BY <1>1, CharterShown
<1>2. ASSUME NEW t \in Tasks, SettingsStep(t) PROVE ShownInv'
  <2>1. UNCHANGED <<file, papers, draft, excused>>
    BY <1>2, SettingsMoves DEF history
  <2>2. UNCHANGED faults \/ Fault
    BY <1>2 DEF SettingsStep, OpenVault, Open, Set, Asked, Put, Stored, ReadKeys, Enqueue, Cancel,
              Respawn, Refresh, Trigger, EndRefresh, Save, Drop, ReadList, WriteList
  <2>3. QED BY <2>1, <2>2, FaultCounts, ShownKept
<1>3. CASE Expire
  BY <1>3, ShownKept DEF Expire, charter
<1>4. CASE PollStep
  BY <1>4, PollersOnly, ShownKept DEF charterVars, charter, history
<1>5. CASE LockVault
  <2>1. UNCHANGED faults \/ Fault
    BY <1>5 DEF LockVault
  <2>2. QED BY <1>5, <2>1, FaultCounts, ShownKept DEF LockVault, history
<1>6. CASE Restart
  <2>1. faults' # 0
    BY <1>6, FaultCounts DEF Restart, Restarted
  <2>2. QED BY <2>1 DEF ShownInv
<1>7. QED BY <1>1, <1>2, <1>3, <1>4, <1>5, <1>6, NextCases

-----------------------------------------------------------------------------
(* The invariant and the theorems.                                         *)

LEMMA InitSettings == CharterAssumption /\ SettingsAssumption /\ Init => SettingsInv
<1> SUFFICES ASSUME CharterAssumption, SettingsAssumption, Init PROVE SettingsInv
  OBVIOUS
<1>1. ShapeInv
  BY InitShape
<1>2. CoolInv
  BY DEF Init, CharterInit, CoolInv, Writing, Says
<1>3. KeyInv /\ ListInv
  BY DEF Init, CharterInit, KeyInv, ListInv
<1>4. ShownInv
  BY DEF Init, CharterInit, ShownInv, CharterAssumption
<1>5. QED BY <1>1, <1>2, <1>3, <1>4 DEF ShapeInv, SettingsInv

LEMMA SettingsInductive ==
  CharterAssumption /\ SettingsAssumption /\ SettingsInv /\ [Next]_vars => SettingsInv'
<1> SUFFICES ASSUME CharterAssumption, SettingsAssumption, SettingsInv, [Next]_vars
             PROVE  SettingsInv'
  OBVIOUS
<1>1. CASE Next
  <2>1. ShapeInv' /\ CoolInv' /\ ShownInv' /\ KeyInv' /\ ListInv'
    BY <1>1, NextShape, NextCool, NextShown, NextKey, NextList DEF SettingsInv, ShapeInv
  <2>2. QED BY <2>1 DEF SettingsInv, ShapeInv
<1>2. CASE UNCHANGED vars
  <2> USE <1>2 DEF vars, charterVars, settingsVars, charter, cooldown, history, records, scheduler, commands
  <2>1. TypeOK'
    BY DEF SettingsInv, TypeOK, CharterTypeOK
  <2>2. OpInv' /\ QueueInv'
    BY NobodyMoves DEF SettingsInv
  <2>3. CoolInv'
    BY CoolKept DEF SettingsInv
  <2>4. KeyInv'
    BY KeyKept DEF SettingsInv, Bears, Spawns
  <2>5. ListInv'
    BY ListKept DEF SettingsInv
  <2>6. ShownInv'
    BY ShownKept DEF SettingsInv
  <2>7. QED BY <2>1, <2>2, <2>3, <2>4, <2>5, <2>6 DEF SettingsInv
<1>3. QED BY <1>1, <1>2

\* The types; the queue for the scheduler holds each command once.
THEOREM SettingsTypeOK == Spec => []TypeOK
<1>1. SettingsInv => TypeOK
  BY DEF SettingsInv
<1>2. QED BY <1>1, InitSettings, SettingsInductive, CharterAssumption, SettingsAssumption, PTL DEF Spec

\* What initialize or recovery issued is on paper once the command is over, unless
\* a step failed or two commands wrote the sidecar at once; and the phrase, or any
\* two shares or more, typed in either form, are read back and open the vault,
\* except for shares with the checksum that the parser takes for the total.
THEOREM CharterAlwaysKept == Spec => []CharterKept
<1>1. SettingsInv => CharterKept
  <2> SUFFICES ASSUME SettingsInv, file \in Nat \ {0},
                      \A t \in Tasks : \A p \in draft[t] : p.charter # file
               PROVE  /\ faults = 0 /\ ~excused => Current # {}
                      /\ \A p \in Current : p.index = 0 => Opens("single", {FormattedPhrase(p)})
                      /\ \A kept \in SUBSET {p \in Current : p.index # 0 /\ p.verifier # TotalShares} :
                           Cardinality(kept) >= Threshold =>
                             \A typed \in SharesTyped(kept) : Opens("shamir", typed)
    BY Zenon DEF CharterKept
  <2>1. faults = 0 /\ ~excused => Current # {}
    BY DEF SettingsInv, ShownInv
  <2>2. QED BY <2>1, PapersOpen, Zenon DEF SettingsInv, TypeOK
<1>2. QED BY <1>1, InitSettings, SettingsInductive, CharterAssumption, SettingsAssumption, PTL DEF Spec

\* Unless two commands crossed or one was answered with an error, the scheduler polls
\* with the key of the open vault when no command is under way, and what was reported
\* as saved is in the file.
THEOREM SettingsAlwaysKept == Spec => []SettingsKept
<1>1. SettingsInv => SettingsKept
  <2> SUFFICES ASSUME SettingsInv, ~torn PROVE SettingsKept
    BY DEF SettingsKept
  <2> USE DEF SettingsInv
  <2>1. acked \subseteq saved.installs
    BY DEF ListInv
  <2>2. ASSUME AllIdle, open PROVE config = mem.key
    <3>1. \A t \in Tasks : step[t] = "idle"
      BY <2>2 DEF AllIdle, Idle
    <3>2. \A i \in 1..Len(queue) : FALSE
      BY <3>1 DEF QueueInv, Holding
    <3>3. QED BY <2>2, <3>1, <3>2 DEF KeyInv
  <2>3. QED BY <2>1, <2>2 DEF SettingsKept
<1>2. QED BY <1>1, InitSettings, SettingsInductive, CharterAssumption, SettingsAssumption, PTL DEF Spec

\* While a recovery's seven days run, no unlock gets past the check, through toggles,
\* crashes, failed writes and any number of commands; unless the sidecar was read
\* within a write, could not be read, or was removed by a write that failed.
THEOREM CooldownAlwaysHeld == Spec => CooldownHolds
<1>1. SettingsInv /\ [Next]_vars =>
        [due => \A t \in Tasks : step[t] = "check" /\ step'[t] = "open" => excused']_charterVars
  <2> SUFFICES ASSUME SettingsInv, [Next]_vars, ~UNCHANGED charterVars, due,
                      NEW t \in Tasks, step[t] = "check", step'[t] = "open"
               PROVE  excused'
    OBVIOUS
  <2> USE DEF SettingsInv
  <2>0. CharterTypeOK
    BY DEF TypeOK
  <2>1. Next
    BY DEF vars
  <2>2. ASSUME NEW u \in Tasks, CharterStep(u) PROVE excused'
    <3>1. u = t
      BY <2>0, <2>2, CharterMoves DEF Moves
    <3>2. op[t] = "unlock"
      BY DEF OpInv, OpsAt
    <3>3. Check(t)
      BY <2>0, <2>2, <3>1, StepNames DEF CharterStep, InitVault, Recover, Begin, Idle, Edit, Read, WriteTmp,
         RemoveOld, Rename, CooldownFails, Answer, Unlock, WrongPassword
    <3>4. QED BY <2>0, <3>3, CheckHolds
  <2>3. ASSUME NEW u \in Tasks, SettingsStep(u) PROVE FALSE
    BY <2>0, <2>3, SettingsMoves DEF Moves
  <2>4. CASE Expire \/ PollStep \/ LockVault
    BY <2>4, PollersOnly DEF Expire, LockVault, charterVars
  <2>5. CASE Restart
    BY <2>5 DEF Restart, Restarted
  <2>6. QED BY <2>1, <2>2, <2>3, <2>4, <2>5, NextCases
<1>2. QED BY <1>1, InitSettings, SettingsInductive, CharterAssumption, SettingsAssumption, PTL
          DEF Spec, CooldownHolds
=============================================================================
