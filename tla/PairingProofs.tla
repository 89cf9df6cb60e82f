--------------------------- MODULE PairingProofs ----------------------------
(***************************************************************************)
(* Proofs about ExtensionBridge and DevicePairing, which let a browser and *)
(* another device in, for any values of their constants.                   *)
(***************************************************************************)
EXTENDS ExtensionBridge, DevicePairing, SequenceTheorems, FiniteSetTheorems, TLAPS

-----------------------------------------------------------------------------
(***************************************************************************)
(* ExtensionBridge, for any sets of tasks, extensions and lifetimes and any*)
(* bounds.  Everything about sessions rests on one fact: a secret is never *)
(* set back (Redraw).  Each step leaves the secret of an extension as memory*)
(* or the file has it, or draws a key nobody has; so a token that neither  *)
(* accepts is never accepted again (OverForever).                          *)
(***************************************************************************)

-----------------------------------------------------------------------------
(* Types.                                                                  *)

LEMMA LastProperties ==
  ASSUME NEW s \in Seq(Nat), NEW n \in Nat
  PROVE  /\ Last(s, n) \in Seq(Nat)
         /\ Len(s) <= n => Last(s, n) = s
         /\ Len(s) > n => /\ Len(Last(s, n)) = n
                          /\ \A i \in 1..n : Last(s, n)[i] = s[Len(s) - n + i]
<1>1. CASE Len(s) > n
  <2>1. Last(s, n) = SubSeq(s, Len(s) - n + 1, Len(s))
    BY <1>1 DEF Last
  <2>2. Len(s) \in Nat /\ Len(s) - n + 1 \in Int /\ \A i \in (Len(s) - n + 1)..Len(s) : s[i] \in Nat
    BY <1>1, LenProperties
  <2>3. /\ Last(s, n) \in Seq(Nat)
        /\ Len(Last(s, n)) = IF Len(s) - n + 1 <= Len(s) THEN Len(s) - (Len(s) - n + 1) + 1 ELSE 0
        /\ \A i \in 1..(Len(s) - (Len(s) - n + 1) + 1) : Last(s, n)[i] = s[(Len(s) - n + 1) + i - 1]
    BY ONLY <2>1, <2>2, SubSeqProperties
  <2>4. Len(Last(s, n)) = n
    BY ONLY <1>1, <2>2, <2>3, n \in Nat
  <2>5. ASSUME NEW i \in 1..n PROVE Last(s, n)[i] = s[Len(s) - n + i]
    <3>1. i \in 1..(Len(s) - (Len(s) - n + 1) + 1) /\ (Len(s) - n + 1) + i - 1 = Len(s) - n + i
      BY ONLY <2>2, <2>5, n \in Nat
    <3> QED BY ONLY <2>3, <3>1
  <2> QED BY <1>1, <2>3, <2>4, <2>5
<1>2. CASE ~(Len(s) > n)
  BY <1>2, SubSeqFull, LenProperties DEF Last
<1> QED BY <1>1, <1>2

\* What a step with all its disjuncts does to the records of the vault.
LEMMA SlotUpdate ==
  ASSUME NEW e \in Exts, NEW k \in Nat, mem \in [Exts -> Slots]
  PROVE  /\ WithPriv(e, k) \in [Exts -> Slots]
         /\ WithSecret(e, k) \in [Exts -> Slots]
         /\ \A x \in Exts : WithPriv(e, k)[x].secret = mem[x].secret
         /\ \A x \in Exts : WithSecret(e, k)[x].secret = IF x = e THEN k ELSE mem[x].secret
BY DEF WithPriv, WithSecret, Slots, Keys

LEMMA IdleJob == Idle \in Job
<1>1. <<>> \in Seq(Nat)
  OBVIOUS
<1> QED BY <1>1, ExtensionAssumption DEF Idle, Job, Steps, Keys

\* A command that starts.
LEMMA FirstJob ==
  ASSUME NEW step \in Steps
  PROVE  /\ [Idle EXCEPT !.step = step] \in Job
         /\ \A e \in Exts : [Idle EXCEPT !.step = step, !.ext = e] \in Job
         /\ \A B \in SUBSET Token : [Idle EXCEPT !.step = step, !.before = B] \in Job
BY IdleJob DEF Job

\* A command that goes on to a step, holding what it holds.
LEMMA JobUpdate ==
  ASSUME NEW t \in Tasks, task \in [Tasks -> Job], NEW step \in Steps
  PROVE  /\ Moved(t, step) \in Job
         /\ \A k \in Nat : [Moved(t, step) EXCEPT !.key = k] \in Job
         /\ \A E \in SUBSET Exts : /\ [Moved(t, step) EXCEPT !.todo = E] \in Job
                                  /\ [task[t] EXCEPT !.todo = E] \in Job
         /\ \A n \in Nat : [Moved(t, step) EXCEPT !.seen = n] \in Job
         /\ task[t].ext \in Exts /\ task[t].key \in Nat /\ task[t].before \subseteq Token
         /\ task[t].todo \subseteq Exts /\ task[t].copy \in Seq(Nat)
         /\ task[t].seen \in Nat /\ task[t].blank \in BOOLEAN
BY DEF Moved, Job, Keys

\* What a request goes on with that has read the queue.
ToPush    == [Idle EXCEPT !.step = "push", !.seen = Len(pushed)]
ReadOk    == [ToPush EXCEPT !.copy = queue]
ReadFails == [ToPush EXCEPT !.blank = TRUE]

LEMMA ReadQueueJob ==
  ASSUME TypeOK
  PROVE  \A j \in {ReadOk, ReadFails} :
           /\ j \in Job /\ j.step = "push" /\ j.before = {} /\ j.seen = Len(pushed)
           /\ IF j.blank THEN j.copy = <<>> ELSE j.copy = queue
<1>1. ToPush \in Job /\ ToPush.step = "push" /\ ToPush.before = {} /\ ToPush.copy = <<>>
      /\ ToPush.seen = Len(pushed) /\ ToPush.blank = FALSE
  <2>1. Len(pushed) \in Nat
    BY LenProperties DEF TypeOK
  <2> QED BY <2>1, IdleJob DEF ToPush, Job, Steps, Idle
<1>2. queue \in Seq(Nat)
  BY DEF TypeOK
<1> HIDE DEF ToPush
<1> QED BY <1>1, <1>2 DEF ReadOk, ReadFails, Job

LEMMA ReadQueueStep ==
  ASSUME NEW t \in Tasks, ReadQueue(t)
  PROVE  /\ \E j \in {ReadOk, ReadFails} : Become(t, j)
         /\ At(t, "queue") /\ UNCHANGED <<store, rows, tokens, setup, history>>
         /\ UNCHANGED faults \/ Fault
BY DEF ReadQueue, ReadOk, ReadFails, ToPush

LEMMA BecomeType ==
  ASSUME NEW t, task \in [Tasks -> Job], NEW j \in Job, Become(t, j)
  PROVE  task' \in [Tasks -> Job]
BY DEF Become

LEMMA FaultType ==
  ASSUME faults \in 0..MaxFaults, Fault
  PROVE  faults' \in 0..MaxFaults
BY ExtensionAssumption DEF Fault

\* Puts and a flush.
LEMMA StoreType ==
  ASSUME TypeOK, NEW t \in Tasks, NEW records \in [Exts -> Slots], NEW then \in Job,
         Store(t, records, then)
  PROVE  /\ mem' \in [Exts -> Slots] /\ file' \in [Exts -> Slots]
         /\ task' \in [Tasks -> Job] /\ faults' \in 0..MaxFaults
BY IdleJob, BecomeType, FaultType DEF Store, Finish, TypeOK

LEMMA InitTypeOK == Init => TypeOK
<1> SUFFICES ASSUME Init PROVE TypeOK
  OBVIOUS
<1>1. Empty \in [Exts -> Slots]
  BY DEF Empty, Slots, Keys
<1>2. <<>> \in Seq(Nat) /\ 0 \in 0..MaxFaults
  BY ExtensionAssumption
<1>3. queue \in Seq(Nat) /\ pushed \in Seq(Push)
  BY <1>2 DEF Init
<1>4. task \in [Tasks -> Job]
  BY IdleJob DEF Init
<1> QED
  BY <1>1, <1>2, <1>3, <1>4 DEF Init, TypeOK, Keys

LEMMA NextTypeOK ==
  ASSUME TypeOK, [Next]_vars
  PROVE  TypeOK'
<1> USE DEF store, rows, history, setup
<1>1. ASSUME NEW t \in Tasks, NEW e \in Exts, Issue(t, e) PROVE TypeOK'
  <2>1. [Idle EXCEPT !.step = "read", !.ext = e] \in Job
    BY FirstJob DEF Steps
  <2> QED BY <1>1, <2>1, BecomeType DEF Issue, TypeOK
<1>2. ASSUME NEW t \in Tasks, NEW e \in Exts, Rotate(t, e) PROVE TypeOK'
  <2>1. keys + 1 \in Nat /\ WithSecret(e, keys + 1) \in [Exts -> Slots]
    BY SlotUpdate DEF TypeOK, Keys
  <2>2. [task[t] EXCEPT !.todo = @ \ {e}] \in Job
    BY DEF TypeOK, Job
  <2>3. CASE NoKey
    BY <1>2, <2>3, BecomeType, IdleJob DEF Rotate, GiveUp, Finish, TypeOK
  <2>4. CASE ~NoKey
    BY <1>2, <2>1, <2>2, <2>4, StoreType DEF Rotate, TypeOK, Keys
  <2> QED BY <2>3, <2>4
<1>3. ASSUME NEW t \in Tasks, NEW e \in Exts, Approve(t, e) PROVE TypeOK'
  <2>1. keys + 1 \in Nat /\ WithPriv(e, keys + 1) \in [Exts -> Slots]
    BY SlotUpdate DEF TypeOK, Keys
  <2> QED BY <1>3, <2>1, StoreType, IdleJob DEF Approve, TypeOK, Keys
<1>4. ASSUME NEW t \in Tasks, NEW e \in Exts, Revoke(t, e) PROVE TypeOK'
  <2>1. WithPriv(e, 0) \in [Exts -> Slots]
    BY SlotUpdate DEF TypeOK
  <2> QED BY <1>4, <2>1, StoreType, IdleJob DEF Revoke, TypeOK
<1>5. ASSUME NEW t \in Tasks, ReadSecret(t) PROVE TypeOK'
  <2>1. mem[task[t].ext].secret \in Nat
    BY JobUpdate DEF TypeOK, Slots, Keys, Steps
  <2>2. /\ Moved(t, "create") \in Job
        /\ [Moved(t, "sign") EXCEPT !.key = mem[task[t].ext].secret] \in Job
    BY <2>1, JobUpdate DEF Steps, TypeOK
  <2> QED BY <1>5, <2>2, BecomeType, IdleJob DEF ReadSecret, Finish, TypeOK
<1>6. ASSUME NEW t \in Tasks, CreateSecret(t) PROVE TypeOK'
  <2>1. task[t].ext \in Exts /\ keys + 1 \in Nat
    BY JobUpdate DEF TypeOK, Keys, Steps
  <2>2. WithSecret(task[t].ext, keys + 1) \in [Exts -> Slots]
    BY <2>1, SlotUpdate DEF TypeOK
  <2>3. [Moved(t, "sign") EXCEPT !.key = keys + 1] \in Job
    BY <2>1, JobUpdate DEF Steps, TypeOK
  <2>4. CASE NoKey
    BY <1>6, <2>4, BecomeType, IdleJob DEF CreateSecret, Finish, TypeOK
  <2>5. CASE ~NoKey
    BY <1>6, <2>1, <2>2, <2>3, <2>5, StoreType DEF CreateSecret, TypeOK, Keys
  <2> QED BY <2>4, <2>5
<1>7. ASSUME NEW t \in Tasks, Sign(t) PROVE TypeOK'
  <2>1. [ext |-> task[t].ext, key |-> task[t].key, under |-> ttl] \in Token
    BY JobUpdate DEF TypeOK, Token, Keys, Steps
  <2> QED BY <1>7, <2>1, BecomeType, FaultType, IdleJob DEF Sign, Finish, TypeOK
<1>8. ASSUME NEW t \in Tasks, ChangeTtl(t) PROVE TypeOK'
  <2>1. [Idle EXCEPT !.step = "setTtl", !.before = tokens] \in Job
    BY FirstJob DEF Steps, TypeOK
  <2> QED BY <1>8, <2>1, BecomeType DEF ChangeTtl, TypeOK
<1>9. ASSUME NEW t \in Tasks, WriteTtl(t) PROVE TypeOK'
  <2>1. Moved(t, "list") \in Job
    BY JobUpdate DEF Steps, TypeOK
  <2> QED BY <1>9, <2>1, BecomeType, FaultType, IdleJob DEF WriteTtl, Finish, TypeOK
<1>10. ASSUME NEW t \in Tasks, ListExtensions(t) PROVE TypeOK'
  <2>1. [Moved(t, "rotate") EXCEPT !.todo = Known] \in Job
    BY JobUpdate DEF Steps, Known, TypeOK
  <2> QED BY <1>10, <2>1, BecomeType, IdleJob DEF ListExtensions, GiveUp, Finish, TypeOK
<1>11. ASSUME NEW t \in Tasks, SettingsDone(t) PROVE TypeOK'
  <2>1. task[t].before \subseteq Token
    BY JobUpdate DEF TypeOK, Steps
  <2> QED BY <1>11, <2>1, BecomeType, IdleJob DEF SettingsDone, Finish, TypeOK
<1>12. ASSUME NEW t \in Tasks, NEW k \in tokens, Request(t, k) PROVE TypeOK'
  <2>1. [Idle EXCEPT !.step = "optIn"] \in Job
    BY FirstJob DEF Steps
  <2> QED BY <1>12, <2>1, BecomeType DEF Request, TypeOK
<1>13. ASSUME NEW t \in Tasks, CheckOptIn(t) PROVE TypeOK'
  <2>1. Moved(t, "queue") \in Job
    BY JobUpdate DEF Steps, TypeOK
  <2> QED BY <1>13, <2>1, BecomeType, IdleJob DEF CheckOptIn, Finish, TypeOK
<1>14. ASSUME NEW t \in Tasks, PushContext(t) PROVE TypeOK'
  <2>1. task[t].copy \in Seq(Nat) /\ task[t].seen \in Nat /\ task[t].blank \in BOOLEAN
        /\ Len(pushed) \in Nat /\ pushed \in Seq(Push)
    BY JobUpdate, LenProperties DEF TypeOK, Steps
  <2>2. ASSUME NEW w \in BOOLEAN, Pushed(t, w)
        PROVE  pushed' \in Seq(Push) /\ Len(pushed') = Len(pushed) + 1
    <3>1. [seen |-> task[t].seen, blank |-> task[t].blank, written |-> w] \in Push
      BY <2>1 DEF Push
    <3> QED BY <2>1, <2>2, <3>1, AppendProperties DEF Pushed
  <2>3. Pushed(t, TRUE) =>
          /\ Append(task[t].copy, Len(pushed')) \in Seq(Nat)
          /\ Last(Append(task[t].copy, Len(pushed')), Capacity) \in Seq(Nat)
    <3>1. SUFFICES ASSUME Len(pushed') \in Nat
                   PROVE  /\ Append(task[t].copy, Len(pushed')) \in Seq(Nat)
                          /\ Last(Append(task[t].copy, Len(pushed')), Capacity) \in Seq(Nat)
      BY <2>1, <2>2
    <3> QED BY <2>1, <3>1, AppendProperties, LastProperties, ExtensionAssumption
  <2> QED BY <1>14, <2>2, <2>3, BecomeType, FaultType, IdleJob DEF PushContext, Finish, TypeOK
<1>21. ASSUME NEW t \in Tasks, ReadQueue(t) PROVE TypeOK'
  <2>1. /\ task' \in [Tasks -> Job] /\ faults' \in 0..MaxFaults
        /\ UNCHANGED <<store, rows, tokens, setup, history>>
    BY <1>21, ReadQueueStep, ReadQueueJob, BecomeType, FaultType DEF TypeOK
  <2> QED BY <2>1 DEF TypeOK
<1>15. ASSUME NEW t \in Tasks, SetOptIn(t) PROVE TypeOK'
  BY <1>15 DEF SetOptIn, TypeOK
<1>16. ASSUME NEW t \in Tasks, Unlock(t) PROVE TypeOK'
  BY <1>16 DEF Unlock, TypeOK
<1>17. ASSUME NEW t \in Tasks, Lock(t) PROVE TypeOK'
  <2>1. [Idle EXCEPT !.step = "close"] \in Job
    BY FirstJob DEF Steps
  <2> QED BY <1>17, <2>1, BecomeType DEF Lock, TypeOK
<1>18. ASSUME NEW t \in Tasks, Close(t) PROVE TypeOK'
  BY <1>18, BecomeType, FaultType, IdleJob DEF Close, Finish, TypeOK
<1>19. CASE Restart
  BY <1>19, FaultType, IdleJob DEF Restart, Setting, TypeOK
<1>20. CASE UNCHANGED vars
  BY <1>20 DEF vars, TypeOK
<1> QED
  BY <1>1, <1>2, <1>3, <1>4, <1>5, <1>6, <1>7, <1>8, <1>9, <1>10, <1>11, <1>12, <1>13, <1>14,
     <1>15, <1>16, <1>17, <1>18, <1>19, <1>20, <1>21 DEF Next

LEMMA TypeInvariant == Spec => []TypeOK
BY InitTypeOK, NextTypeOK, PTL DEF Spec

-----------------------------------------------------------------------------
(* Sessions: invariants.                                                   *)

\* No session of the token is left: neither memory nor the file accepts it.
Over(k) == ~Accepted(mem, k) /\ ~Accepted(file, k)

\* Whatever is stored or held was drawn, and an extension with no secret in
\* memory has none in the file, which a settings change does not look at.
DrawnInv ==
  /\ \A e \in Exts : /\ mem[e].secret <= keys /\ file[e].secret <= keys
                     /\ mem[e].secret = 0 => file[e].secret = 0
  /\ \A k \in tokens : k.key \in 1..keys
  /\ \A t \in Tasks : /\ At(t, "sign") => task[t].key \in 1..keys
                      /\ task[t].before \subseteq tokens
  /\ ended \subseteq tokens

\* A settings change has ended the sessions of every extension it is done with.
RotateInv ==
  \A t \in Tasks :
    At(t, "rotate") => \A k \in task[t].before : k.ext \in task[t].todo \/ Over(k)

\* The change under way that will end a session of the extension.
WillEnd(t, e) == At(t, "list") \/ (At(t, "rotate") /\ e \in task[t].todo)

\* A token of another lifetime is over, or a change under way will end it, or
\* one that was to end it failed.
LifetimeInv ==
  \A k \in tokens : k.under = ttl \/ unset \/ Over(k) \/ \E t \in Tasks : WillEnd(t, k.ext)

SessionInv == DrawnInv /\ RotateInv /\ ChangeEndsSessions /\ LifetimeInv

-----------------------------------------------------------------------------
(* Commands that do not overlap: invariants.                               *)

OneCommand == \A t, u \in Tasks : t # u => At(t, "idle") \/ At(u, "idle")

\* What a command has read it still finds when it writes.
ReadHolds ==
  \A t \in Tasks : At(t, "create") => mem[task[t].ext].secret = 0

AloneInv == serial => OneCommand /\ ReadHolds
-----------------------------------------------------------------------------
(* Sessions: no secret is set back.                                        *)

Redraw ==
  /\ keys' \in {keys, keys + 1}
  /\ \A e \in Exts :
       \/ mem'[e].secret = mem[e].secret /\ file'[e].secret \in {mem[e].secret, file[e].secret}
       \/ mem'[e].secret = file[e].secret /\ file'[e].secret = file[e].secret
       \/ /\ keys' = keys + 1 /\ mem'[e].secret = keys'
          /\ file'[e].secret \in {file[e].secret, keys'}

LEMMA StoreRedraws ==
  ASSUME TypeOK, NEW t, NEW then, NEW e \in Exts,
         \/ keys' = keys + 1 /\ Store(t, WithSecret(e, keys + 1), then)
         \/ keys' = keys + 1 /\ Store(t, WithPriv(e, keys + 1), then)
         \/ keys' = keys /\ Store(t, WithPriv(e, 0), then)
  PROVE  Redraw
<1>1. mem \in [Exts -> Slots] /\ keys + 1 \in Nat
  BY DEF TypeOK, Keys
<1>2. CASE keys' = keys + 1 /\ Store(t, WithSecret(e, keys + 1), then)
  BY <1>1, <1>2, SlotUpdate DEF Store, Redraw
<1>3. CASE keys' = keys + 1 /\ Store(t, WithPriv(e, keys + 1), then)
  BY <1>1, <1>3, SlotUpdate DEF Store, Redraw
<1>4. CASE keys' = keys /\ Store(t, WithPriv(e, 0), then)
  BY <1>1, <1>4, SlotUpdate DEF Store, Redraw
<1> QED BY <1>2, <1>3, <1>4

LEMMA NextRedraw ==
  ASSUME TypeOK, [Next]_vars
  PROVE  Redraw
<1>0. (UNCHANGED <<mem, file, keys>>) => Redraw
  BY DEF Redraw
<1>1. ASSUME NEW t \in Tasks, NEW e \in Exts, Rotate(t, e) PROVE Redraw
  BY <1>0, <1>1, StoreRedraws DEF Rotate
<1>2. ASSUME NEW t \in Tasks, NEW e \in Exts, Approve(t, e) PROVE Redraw
  BY <1>2, StoreRedraws DEF Approve
<1>3. ASSUME NEW t \in Tasks, NEW e \in Exts, Revoke(t, e) PROVE Redraw
  BY <1>3, StoreRedraws DEF Revoke
<1>4. ASSUME NEW t \in Tasks, CreateSecret(t) PROVE Redraw
  <2>1. task[t].ext \in Exts
    BY DEF TypeOK, Job
  <2> QED BY <1>0, <1>4, <2>1, StoreRedraws DEF CreateSecret
<1>5. ASSUME NEW t \in Tasks, Unlock(t) PROVE Redraw
  BY <1>5 DEF Unlock, Redraw
<1>6. ASSUME NEW t \in Tasks, Close(t) PROVE Redraw
  BY <1>6 DEF Close, Redraw
<1>7. CASE Restart
  BY <1>7 DEF Restart, Redraw
<1>8. CASE UNCHANGED vars
  BY <1>0, <1>8 DEF vars, store
<1>9. ASSUME NEW t \in Tasks,
             \/ \E e \in Exts : Issue(t, e)
             \/ ReadSecret(t) \/ Sign(t) \/ ChangeTtl(t) \/ WriteTtl(t)
             \/ ListExtensions(t) \/ SettingsDone(t)
             \/ \E k \in tokens : Request(t, k)
             \/ CheckOptIn(t) \/ ReadQueue(t) \/ PushContext(t) \/ SetOptIn(t) \/ Lock(t)
      PROVE  Redraw
  BY <1>0, <1>9 DEF Issue, ReadSecret, Sign, ChangeTtl, WriteTtl, ListExtensions,
     SettingsDone,
       Request, CheckOptIn, ReadQueue, PushContext, SetOptIn, Lock, store
<1> QED
  BY <1>1, <1>2, <1>3, <1>4, <1>5, <1>6, <1>7, <1>8, <1>9 DEF Next

LEMMA OverForever ==
  ASSUME TypeOK, DrawnInv, Redraw, NEW k \in tokens, Over(k)
  PROVE  Over(k)'
<1>1. k.ext \in Exts /\ k.key \in 1..keys /\ keys \in Nat
  BY DEF TypeOK, Token, DrawnInv, Keys
<1> QED BY <1>1 DEF Redraw, Over, Accepted

\* A drawn secret ends the sessions of its extension where it is stored.
LEMMA DrawEnds ==
  ASSUME TypeOK, DrawnInv, NEW k \in tokens, NEW t, NEW then,
         keys' = keys + 1, Store(t, WithSecret(k.ext, keys + 1), then)
  PROVE  /\ ~Accepted(mem', k)
         /\ faults' = faults => Over(k)'
<1>1. k.ext \in Exts /\ k.key \in 1..keys /\ keys \in Nat /\ mem \in [Exts -> Slots]
      /\ faults \in Nat
  BY ExtensionAssumption DEF TypeOK, Token, DrawnInv, Keys
<1>2. WithSecret(k.ext, keys + 1)[k.ext].secret = keys + 1
  BY <1>1, SlotUpdate
<1> QED BY <1>1, <1>2 DEF Store, Fault, Over, Accepted
LEMMA BecomeIs ==
  ASSUME TypeOK, NEW t \in Tasks, NEW j, Become(t, j)
  PROVE  \A u \in Tasks : task'[u] = IF u = t THEN j ELSE task[u]
BY DEF Become, TypeOK

\* What a job that is entered has to satisfy.
LEMMA DrawnKept ==
  ASSUME TypeOK, DrawnInv, Redraw, NEW t \in Tasks, NEW j, Become(t, j),
         j.step = "sign" => j.key \in 1..keys', j.before \subseteq tokens,
         tokens' = tokens, ended' = ended
  PROVE  DrawnInv'
<1>1. keys \in Nat /\ keys' \in Nat /\ keys <= keys'
  BY DEF TypeOK, Keys, Redraw
<1>2. \A e \in Exts : mem[e].secret \in Nat /\ file[e].secret \in Nat
  BY DEF TypeOK, Slots, Keys
<1>3. (\A e \in Exts : /\ mem[e].secret <= keys /\ file[e].secret <= keys
                       /\ (mem[e].secret = 0 => file[e].secret = 0))'
  BY <1>1, <1>2 DEF DrawnInv, Redraw
<1>4. (\A k \in tokens : k.key \in 1..keys)'
  BY <1>1 DEF DrawnInv
<1>5. (\A u \in Tasks : /\ (At(u, "sign") => task[u].key \in 1..keys)
                        /\ task[u].before \subseteq tokens)'
  BY <1>1, BecomeIs DEF DrawnInv, At
<1> QED BY <1>3, <1>4, <1>5 DEF DrawnInv

LEMMA NextDrawnInv ==
  ASSUME TypeOK, DrawnInv, [Next]_vars
  PROVE  DrawnInv'
<1>0. Redraw
  BY NextRedraw
<1>a. keys \in Nat /\ keys' \in Nat /\ keys <= keys'
  BY <1>0 DEF TypeOK, Keys, Redraw
<1>b. \A t \in Tasks : /\ task[t].ext \in Exts /\ task[t].before \subseteq tokens
                       /\ task[t].step = "sign" => task[t].key \in 1..keys'
  BY <1>a DEF TypeOK, Job, DrawnInv, At
<1>c. Idle.step = "idle" /\ Idle.before = {}
  BY DEF Idle
<1>1. ASSUME NEW t \in Tasks, NEW e \in Exts, Issue(t, e) PROVE DrawnInv'
  BY <1>0, <1>1, <1>c, DrawnKept DEF Issue, Idle, history
<1>2. ASSUME NEW t \in Tasks, NEW e \in Exts, Rotate(t, e) PROVE DrawnInv'
  <2>1. \E j \in {Idle, [task[t] EXCEPT !.todo = @ \ {e}]} : Become(t, j)
    BY <1>2 DEF Rotate, GiveUp, Finish, Store
  <2>2. [task[t] EXCEPT !.todo = @ \ {e}].step = "rotate"
        /\ [task[t] EXCEPT !.todo = @ \ {e}].before = task[t].before
    BY <1>2 DEF Rotate, At, TypeOK, Job
  <2> QED BY <1>0, <1>2, <1>b, <1>c, <2>1, <2>2, DrawnKept DEF Rotate
<1>3. ASSUME NEW t \in Tasks, NEW e \in Exts, Approve(t, e) \/ Revoke(t, e) PROVE DrawnInv'
  <2>1. Become(t, Idle)
    BY <1>3 DEF Approve, Revoke, Store, Finish
  <2> QED BY <1>0, <1>3, <1>c, <2>1, DrawnKept DEF Approve, Revoke, history
<1>4. ASSUME NEW t \in Tasks, ReadSecret(t) PROVE DrawnInv'
  <2> DEFINE key == mem[task[t].ext].secret
             j   == IF ~open THEN Idle ELSE IF key = 0 THEN Moved(t, "create")
                    ELSE [Moved(t, "sign") EXCEPT !.key = key]
  <2>1. Become(t, j)
    BY <1>4 DEF ReadSecret, Finish
  <2>2. key \in Nat /\ key <= keys /\ keys' = keys
    BY <1>4, <1>b DEF ReadSecret, TypeOK, Slots, Keys, DrawnInv, store
  <2>3. j.before \subseteq tokens /\ (j.step = "sign" => j.key \in 1..keys')
    BY <1>a, <1>b, <1>c, <2>2 DEF Moved, TypeOK, Job
  <2> HIDE DEF j
  <2> QED BY <1>0, <1>4, <2>1, <2>3, DrawnKept DEF ReadSecret, history
<1>5. ASSUME NEW t \in Tasks, CreateSecret(t) PROVE DrawnInv'
  <2> DEFINE j == [Moved(t, "sign") EXCEPT !.key = keys']
  <2>1. Become(t, Idle) \/ (keys' = keys + 1 /\ Become(t, j))
    BY <1>5 DEF CreateSecret, Store, Finish
  <2>2. j.before = task[t].before /\ j.key = keys'
    BY DEF Moved, TypeOK, Job
  <2> HIDE DEF j
  <2> QED BY <1>0, <1>5, <1>a, <1>b, <1>c, <2>1, <2>2, DrawnKept DEF CreateSecret, history
<1>6. ASSUME NEW t \in Tasks, Sign(t) PROVE DrawnInv'
  <2>1. /\ UNCHANGED <<mem, file, keys, ended>> /\ Become(t, Idle) /\ task[t].key \in 1..keys
        /\ tokens' \subseteq tokens \cup {[ext |-> task[t].ext, key |-> task[t].key, under |-> ttl]}
        /\ tokens \subseteq tokens'
    BY <1>6, <1>b DEF Sign, Finish, store, history, At
  <2>2. \A k \in tokens' : k.key \in 1..keys
    BY <2>1 DEF DrawnInv
  <2>3. \A u \in Tasks : task'[u].before \subseteq tokens'
                         /\ (task'[u].step = "sign" => task'[u].key \in 1..keys)
    BY <2>1, <1>c, BecomeIs DEF DrawnInv, At
  <2> QED BY <2>1, <2>2, <2>3 DEF DrawnInv, At
<1>7. ASSUME NEW t \in Tasks, ChangeTtl(t) PROVE DrawnInv'
  <2> DEFINE j == [Idle EXCEPT !.step = "setTtl", !.before = tokens]
  <2>1. Become(t, j) /\ j.step = "setTtl" /\ j.before = tokens
    BY <1>7 DEF ChangeTtl, Idle
  <2> HIDE DEF j
  <2> QED BY <1>0, <1>7, <2>1, DrawnKept DEF ChangeTtl, history
<1>8. ASSUME NEW t \in Tasks, WriteTtl(t) \/ ListExtensions(t) \/ CheckOptIn(t) PROVE DrawnInv'
  <2> DEFINE J == {Idle, Moved(t, "list"), [Moved(t, "rotate") EXCEPT !.todo = Known],
                   Moved(t, "queue")}
  <2>a. \A j \in J : j.step # "sign" /\ j.before \in {{}, task[t].before}
    BY <1>c DEF Moved, TypeOK, Job
  <2>b. \E j \in J : Become(t, j)
    BY <1>8 DEF WriteTtl, ListExtensions, CheckOptIn, GiveUp, Finish
  <2>1. PICK j \in J : Become(t, j)
    BY <2>b
  <2> QED BY <1>0, <1>8, <1>b, <2>a, <2>1, DrawnKept DEF WriteTtl, ListExtensions,
     CheckOptIn, GiveUp,
       history
<1>9. ASSUME NEW t \in Tasks, SettingsDone(t) PROVE DrawnInv'
  <2>1. UNCHANGED <<mem, file, keys, tokens>> /\ Become(t, Idle)
        /\ ended' = ended \cup task[t].before
    BY <1>9 DEF SettingsDone, Finish, store
  <2>2. \A u \in Tasks : task'[u].before \subseteq tokens
                         /\ (task'[u].step = "sign" => task'[u].key \in 1..keys)
    BY <2>1, <1>c, BecomeIs DEF DrawnInv, At
  <2> QED BY <2>1, <2>2, <1>b DEF DrawnInv, At
<1>10. ASSUME NEW t \in Tasks, \E k \in tokens : Request(t, k) PROVE DrawnInv'
  BY <1>0, <1>10, <1>c, DrawnKept DEF Request, Idle, history
<1>11. ASSUME NEW t \in Tasks, PushContext(t) PROVE DrawnInv'
  BY <1>0, <1>11, <1>c, DrawnKept DEF PushContext, Finish
<1>17. ASSUME NEW t \in Tasks, ReadQueue(t) PROVE DrawnInv'
  <2>1. /\ \E j \in {ReadOk, ReadFails} : Become(t, j)
        /\ tokens' = tokens /\ ended' = ended
    BY <1>17, ReadQueueStep DEF history
  <2>2. \A j \in {ReadOk, ReadFails} : j.step # "sign" /\ j.before \subseteq tokens
    BY <1>b, ReadQueueJob
  <2> QED BY <1>0, <2>1, <2>2, DrawnKept
<1>12. ASSUME NEW t \in Tasks, Lock(t) \/ Close(t) PROVE DrawnInv'
  <2>1. Become(t, [Idle EXCEPT !.step = "close"]) \/ Become(t, Idle)
    BY <1>12 DEF Lock, Close, Finish
  <2> QED BY <1>0, <1>12, <1>c, <2>1, DrawnKept DEF Lock, Close, Idle, history
<1>13. ASSUME NEW t \in Tasks, SetOptIn(t) PROVE DrawnInv'
  BY <1>13 DEF SetOptIn, DrawnInv, At, store, history
<1>14. ASSUME NEW t \in Tasks, Unlock(t) PROVE DrawnInv'
  BY <1>14 DEF Unlock, DrawnInv, At, history
<1>15. CASE Restart
  BY <1>15, <1>c DEF Restart, DrawnInv, At, history
<1>16. CASE UNCHANGED vars
  BY <1>16 DEF vars, store, history, DrawnInv, At
<1> QED
  BY <1>1, <1>2, <1>3, <1>4, <1>5, <1>6, <1>7, <1>8, <1>9, <1>10, <1>11, <1>12, <1>13, <1>14,
     <1>15, <1>16, <1>17 DEF Next
EndsInv == RotateInv /\ ChangeEndsSessions /\ LifetimeInv

\* A step of a command that is no settings change past its first write.
LEMMA EndsKept ==
  ASSUME TypeOK, DrawnInv, EndsInv, Redraw, NEW t \in Tasks, NEW j, Become(t, j),
         j.step # "rotate", task[t].step \notin {"list", "rotate"},
         tokens' = tokens, ttl' = ttl, unset' = unset, ended' = ended
  PROVE  EndsInv'
<1>1. \A u \in Tasks : task'[u] = IF u = t THEN j ELSE task[u]
  BY BecomeIs
<1>2. \A k \in tokens : Over(k) => Over(k)'
  BY OverForever
<1>3. RotateInv'
  BY <1>1, <1>2 DEF EndsInv, RotateInv, At, DrawnInv
<1>4. ChangeEndsSessions'
  BY <1>2 DEF EndsInv, ChangeEndsSessions, Over, DrawnInv
<1>5. \A u \in Tasks, e \in Exts : WillEnd(u, e) => WillEnd(u, e)'
  BY <1>1 DEF WillEnd, At
<1>6. \A k \in tokens : k.ext \in Exts
  BY DEF TypeOK, Token
<1>7. LifetimeInv'
  <2> SUFFICES ASSUME NEW k \in tokens
               PROVE  (k.under = ttl \/ unset \/ Over(k) \/ \E u \in Tasks : WillEnd(u, k.ext))'
    BY DEF LifetimeInv
  <2>1. k.under = ttl \/ unset \/ Over(k) \/ \E u \in Tasks : WillEnd(u, k.ext)
    BY DEF EndsInv, LifetimeInv
  <2> QED BY <1>2, <1>5, <1>6, <2>1
<1> QED BY <1>3, <1>4, <1>7 DEF EndsInv

LEMMA NextEndsInv ==
  ASSUME TypeOK, DrawnInv, EndsInv, [Next]_vars
  PROVE  EndsInv'
<1>0. Redraw
  BY NextRedraw
<1>a. \A k \in tokens : Over(k) => Over(k)'
  BY <1>0, OverForever
<1>b. \A k \in tokens : k.ext \in Exts /\ k.key \in 1..keys
  BY DEF TypeOK, Token, DrawnInv
<1>c. Idle.step = "idle"
  BY DEF Idle
<1>d. tokens' = tokens /\ ended' = ended => ChangeEndsSessions'
  BY <1>a DEF EndsInv, ChangeEndsSessions, Over, DrawnInv
<1>1. ASSUME NEW t \in Tasks,
             \/ \E e \in Exts : Issue(t, e) \/ Approve(t, e) \/ Revoke(t, e)
             \/ \E k \in tokens : Request(t, k)
             \/ ReadSecret(t) \/ CreateSecret(t) \/ ChangeTtl(t) \/ CheckOptIn(t)
             \/ PushContext(t) \/ Lock(t) \/ Close(t)
      PROVE  EndsInv'
  <2>1. /\ task[t].step \notin {"list", "rotate"}
        /\ tokens' = tokens /\ ttl' = ttl /\ unset' = unset /\ ended' = ended
    BY <1>1 DEF Issue, Approve, Revoke, Request, ReadSecret, CreateSecret, ChangeTtl,
       CheckOptIn,
         PushContext, Lock, Close, Begin, At, history, rows
  <2> DEFINE J == {Idle, [Idle EXCEPT !.step = "optIn"], [Idle EXCEPT !.step = "close"],
                   [Idle EXCEPT !.step = "setTtl", !.before = tokens],
                   Moved(t, "create"), [Moved(t, "sign") EXCEPT !.key = mem[task[t].ext].secret],
                   [Moved(t, "sign") EXCEPT !.key = keys'],
                   Moved(t, "queue")}
                  \cup {[Idle EXCEPT !.step = "read", !.ext = e] : e \in Exts}
  <2>a. /\ Idle.step = "idle" /\ [Idle EXCEPT !.step = "optIn"].step = "optIn"
        /\ [Idle EXCEPT !.step = "close"].step = "close"
        /\ [Idle EXCEPT !.step = "setTtl", !.before = tokens].step = "setTtl"
        /\ \A e \in Exts : [Idle EXCEPT !.step = "read", !.ext = e].step = "read"
    BY DEF Idle
  <2>b. /\ Moved(t, "create").step = "create"
        /\ \A k : [Moved(t, "sign") EXCEPT !.key = k].step = "sign"
        /\ Moved(t, "queue").step = "queue"
    BY DEF Moved, TypeOK, Job
  <2>2. ASSUME NEW j \in J PROVE j.step # "rotate"
    <3>1. CASE j \in {[Idle EXCEPT !.step = "read", !.ext = e] : e \in Exts}
      BY <2>a, <3>1
    <3>2. CASE j \notin {[Idle EXCEPT !.step = "read", !.ext = e] : e \in Exts}
      <4>1. CASE j \in {[Moved(t, "sign") EXCEPT !.key = mem[task[t].ext].secret],
                        [Moved(t, "sign") EXCEPT !.key = keys'],
                        Moved(t, "queue"), Moved(t, "create")}
        BY <2>b, <4>1
      <4>2. CASE j \in {Idle, [Idle EXCEPT !.step = "optIn"], [Idle EXCEPT !.step = "close"],
                        [Idle EXCEPT !.step = "setTtl", !.before = tokens]}
        BY <2>a, <4>2
      <4> QED BY <2>2, <3>2, <4>1, <4>2
    <3> QED BY <3>1, <3>2
  <2>3. \E j \in J : Become(t, j)
    <3>0. ASSUME NEW e \in Exts, Issue(t, e) PROVE \E j \in J : Become(t, j)
      <4>1. Become(t, [Idle EXCEPT !.step = "read", !.ext = e])
        BY <3>0 DEF Issue
      <4> QED BY <4>1
    <3>5. ASSUME NEW k \in tokens, Request(t, k) PROVE \E j \in J : Become(t, j)
      <4>1. Become(t, [Idle EXCEPT !.step = "optIn"])
        BY <3>5 DEF Request
      <4> QED BY <4>1
    <3>1. CASE \E e \in Exts : Approve(t, e) \/ Revoke(t, e)
      BY <3>1 DEF Approve, Revoke, Finish, Store
    <3>2. CASE ReadSecret(t) \/ CreateSecret(t)
      BY <3>2 DEF ReadSecret, CreateSecret, Finish, Store
    <3>3. CASE ChangeTtl(t) \/ CheckOptIn(t) \/ PushContext(t)
      BY <3>3 DEF ChangeTtl, CheckOptIn, PushContext, Finish
    <3>4. CASE Lock(t) \/ Close(t)
      BY <3>4 DEF Lock, Close, Finish
    <3> QED BY <1>1, <3>0, <3>1, <3>2, <3>3, <3>4, <3>5
  <2> HIDE DEF J
  <2> QED BY <1>0, <2>1, <2>2, <2>3, EndsKept
<1>2. ASSUME NEW t \in Tasks, Sign(t) PROVE EndsInv'
  <2>1. /\ Become(t, Idle) /\ At(t, "sign") /\ UNCHANGED <<mem, file, ttl, unset, ended>>
        /\ tokens' \subseteq tokens \cup {[ext |-> task[t].ext, key |-> task[t].key, under |-> ttl]}
    BY <1>2 DEF Sign, Finish, store, rows, history
  <2>2. \A u \in Tasks : task'[u] = IF u = t THEN Idle ELSE task[u]
    BY <2>1, BecomeIs
  <2>3. RotateInv'
    BY <1>c, <2>1, <2>2 DEF EndsInv, RotateInv, At, Over, Accepted
  <2>4. ChangeEndsSessions'
    BY <2>1 DEF EndsInv, ChangeEndsSessions, Accepted
  <2>5. \A u \in Tasks, e \in Exts : WillEnd(u, e) => WillEnd(u, e)'
    BY <2>1, <2>2 DEF WillEnd, At
  <2>6. \A k \in tokens' : k \in tokens \/ k.under = ttl
    BY <2>1
  <2>7. LifetimeInv'
    <3> SUFFICES ASSUME NEW k \in tokens'
                 PROVE  (k.under = ttl \/ unset \/ Over(k) \/ \E u \in Tasks : WillEnd(u, k.ext))'
      BY DEF LifetimeInv
    <3>1. CASE k \in tokens
      BY <1>b, <2>1, <2>5, <3>1 DEF EndsInv, LifetimeInv, Over, Accepted
    <3> QED BY <2>1, <2>6, <3>1
  <2> QED BY <2>3, <2>4, <2>7 DEF EndsInv
<1>3. ASSUME NEW t \in Tasks, WriteTtl(t) PROVE EndsInv'
  <2>1. CASE Become(t, Moved(t, "list"))
    <3>1. \A u \in Tasks : task'[u] = IF u = t THEN Moved(t, "list") ELSE task[u]
      BY <2>1, BecomeIs
    <3>2. Moved(t, "list").step = "list"
      BY DEF Moved, TypeOK, Job
    <3>3. UNCHANGED <<mem, file, tokens, unset, ended>>
      BY <1>3 DEF WriteTtl, store, history
    <3>4. RotateInv'
      BY <3>1, <3>2, <3>3 DEF EndsInv, RotateInv, At, Over, Accepted
    <3>5. \A e \in Exts : WillEnd(t, e)'
      BY <3>1, <3>2 DEF WillEnd, At
    <3>6. LifetimeInv'
      BY <1>b, <3>3, <3>5 DEF LifetimeInv
    <3> QED BY <1>d, <3>3, <3>4, <3>6 DEF EndsInv
  <2>2. CASE Finish(t) /\ UNCHANGED ttl
    <3>1. task[t].step = "setTtl" /\ UNCHANGED <<tokens, unset, ended>>
      BY <1>3 DEF WriteTtl, history, At
    <3> QED BY <1>0, <1>c, <2>2, <3>1, EndsKept DEF Finish
  <2> QED BY <1>3, <2>1, <2>2 DEF WriteTtl
<1>4. ASSUME NEW t \in Tasks, ListExtensions(t) PROVE EndsInv'
  <2>1. UNCHANGED <<mem, file, tokens, ttl, ended>> /\ At(t, "list")
    BY <1>4 DEF ListExtensions, store, rows
  <2> DEFINE j == IF open THEN [Moved(t, "rotate") EXCEPT !.todo = Known] ELSE Idle
  <2>2. \A u \in Tasks : task'[u] = IF u = t THEN j ELSE task[u]
    BY <1>4, BecomeIs DEF ListExtensions, GiveUp, Finish
  <2>3. open => j.step = "rotate" /\ j.todo = Known /\ j.before = task[t].before
    BY DEF Moved, TypeOK, Job
  <2>4. ~open => unset' /\ j.step = "idle"
    BY <1>4, <1>c DEF ListExtensions, GiveUp
  <2>5. open => unset' = unset
    BY <1>4 DEF ListExtensions
  <2> HIDE DEF j
  <2>6. \A k \in tokens : k.ext \in Known \/ Over(k)
    <3> SUFFICES ASSUME NEW k \in tokens, k.ext \notin Known PROVE Over(k)
      OBVIOUS
    <3>1. mem[k.ext].secret = 0 /\ file[k.ext].secret = 0
      BY <1>b DEF Known, DrawnInv
    <3> QED BY <1>b, <3>1 DEF Over, Accepted
  <2>7. RotateInv'
    BY <2>1, <2>2, <2>3, <2>4, <2>6 DEF EndsInv, RotateInv, At, Over, Accepted, DrawnInv
  <2>8. LifetimeInv'
    <3> SUFFICES ASSUME NEW k \in tokens, ~unset', k.under # ttl, ~Over(k)
                 PROVE  \E u \in Tasks : WillEnd(u, k.ext)'
      BY <2>1 DEF LifetimeInv, Over, Accepted
    <3>1. open /\ k.ext \in Known
      BY <2>4, <2>6
    <3> QED BY <2>2, <2>3, <3>1 DEF WillEnd, At
  <2> QED BY <1>d, <2>1, <2>7, <2>8 DEF EndsInv
<1>5. ASSUME NEW t \in Tasks, NEW e \in Exts, Rotate(t, e) PROVE EndsInv'
  <2>1. UNCHANGED <<tokens, ttl, ended>> /\ At(t, "rotate") /\ e \in task[t].todo
    BY <1>5 DEF Rotate, rows
  <2>2. CASE unset' /\ Become(t, Idle)
    <3>1. RotateInv'
      BY <1>a, <1>c, <2>1, <2>2, BecomeIs DEF EndsInv, RotateInv, At, DrawnInv
    <3>2. LifetimeInv'
      BY <2>2 DEF LifetimeInv
    <3> QED BY <1>d, <2>1, <3>1, <3>2 DEF EndsInv
  <2>3. CASE ~(unset' /\ Become(t, Idle))
    <3> DEFINE j == [task[t] EXCEPT !.todo = @ \ {e}]
    <3>0. faults \in Nat
      BY ExtensionAssumption DEF TypeOK
    <3>1. /\ keys' = keys + 1 /\ Store(t, WithSecret(e, keys + 1), j)
          /\ faults' = faults /\ Become(t, j) /\ unset' = unset
      <4>1. /\ keys' = keys + 1 /\ Store(t, WithSecret(e, keys + 1), j)
            /\ unset' = (unset \/ faults' # faults)
        BY <1>5, <2>3 DEF Rotate, GiveUp, Finish
      <4>2. CASE Fault /\ Finish(t)
        <5>1. faults' # faults
          BY <3>0, <4>2 DEF Fault
        <5>2. unset'
          BY <4>1, <5>1
        <5> QED BY <2>3, <4>2, <5>2 DEF Finish
      <4>3. CASE faults' = faults /\ Become(t, j)
        BY <4>1, <4>3 DEF TypeOK
      <4> QED BY <4>1, <4>2, <4>3 DEF Store
    <3>2. j.step = "rotate" /\ j.todo = task[t].todo \ {e} /\ j.before = task[t].before
      BY <2>1 DEF TypeOK, Job, At
    <3>3. \A k \in tokens : k.ext = e => Over(k)'
      BY <3>1, DrawEnds
    <3>4. \A u \in Tasks : task'[u] = IF u = t THEN j ELSE task[u]
      BY <3>1, BecomeIs
    <3> HIDE DEF j
    <3>5. RotateInv'
      BY <1>a, <2>1, <3>2, <3>3, <3>4 DEF EndsInv, RotateInv, At, DrawnInv
    <3>6. \A u \in Tasks, x \in Exts : WillEnd(u, x) /\ x # e => WillEnd(u, x)'
      BY <3>2, <3>4, <2>1 DEF WillEnd, At
    <3>7. LifetimeInv'
      <4> SUFFICES ASSUME NEW k \in tokens
                   PROVE  (k.under = ttl \/ unset \/ Over(k)
                             \/ \E u \in Tasks : WillEnd(u, k.ext))'
        BY <2>1 DEF LifetimeInv
      <4>1. k.under = ttl \/ unset \/ Over(k) \/ \E u \in Tasks : WillEnd(u, k.ext)
        BY DEF EndsInv, LifetimeInv
      <4> QED BY <1>a, <1>b, <2>1, <3>1, <3>3, <3>6, <4>1
    <3> QED BY <1>d, <2>1, <3>5, <3>7 DEF EndsInv
  <2> QED BY <2>2, <2>3
<1>6. ASSUME NEW t \in Tasks, SettingsDone(t) PROVE EndsInv'
  <2>1. /\ UNCHANGED <<mem, file, tokens, ttl, unset>> /\ At(t, "rotate") /\ task[t].todo = {}
        /\ ended' = ended \cup task[t].before
    BY <1>6 DEF SettingsDone, store, rows
  <2>2. \A u \in Tasks : task'[u] = IF u = t THEN Idle ELSE task[u]
    BY <1>6, BecomeIs DEF SettingsDone, Finish
  <2>3. \A k \in task[t].before : Over(k)
    BY <2>1 DEF EndsInv, RotateInv
  <2>4. ChangeEndsSessions'
    BY <2>1, <2>3 DEF EndsInv, ChangeEndsSessions, Over, Accepted
  <2>5. RotateInv'
    BY <1>c, <2>1, <2>2 DEF EndsInv, RotateInv, At, Over, Accepted
  <2>6. \A u \in Tasks, e \in Exts : WillEnd(u, e) => WillEnd(u, e)'
    BY <2>1, <2>2 DEF WillEnd, At
  <2>7. LifetimeInv'
    BY <1>b, <2>1, <2>6 DEF EndsInv, LifetimeInv, Over, Accepted
  <2> QED BY <2>4, <2>5, <2>7 DEF EndsInv
<1>7. ASSUME NEW t \in Tasks, SetOptIn(t) \/ Unlock(t) PROVE EndsInv'
  <2>1. UNCHANGED <<tokens, ttl, ended, unset, task>>
    BY <1>7 DEF SetOptIn, Unlock, rows, history
  <2>2. RotateInv'
    BY <1>a, <2>1 DEF EndsInv, RotateInv, At, DrawnInv
  <2>3. LifetimeInv'
    BY <1>a, <2>1 DEF EndsInv, LifetimeInv, WillEnd, At
  <2> QED BY <1>d, <2>1, <2>2, <2>3 DEF EndsInv
<1>8. CASE Restart
  <2>1. /\ UNCHANGED <<tokens, ttl, ended>> /\ unset' = (unset \/ Setting)
        /\ task' = [t \in Tasks |-> Idle]
    BY <1>8 DEF Restart, rows
  <2>2. RotateInv'
    BY <1>c, <2>1 DEF RotateInv, At
  <2>3. \A u \in Tasks, e \in Exts : WillEnd(u, e) => Setting
    BY DEF WillEnd, Setting, At
  <2>4. LifetimeInv'
    BY <1>a, <1>b, <2>1, <2>3 DEF EndsInv, LifetimeInv
  <2> QED BY <1>d, <2>1, <2>2, <2>4 DEF EndsInv
<1>10. ASSUME NEW t \in Tasks, ReadQueue(t) PROVE EndsInv'
  <2>1. /\ \E j \in {ReadOk, ReadFails} : Become(t, j)
        /\ task[t].step = "queue"
        /\ tokens' = tokens /\ ttl' = ttl /\ unset' = unset /\ ended' = ended
    BY <1>10, ReadQueueStep DEF At, rows, history
  <2>2. \A j \in {ReadOk, ReadFails} : j.step # "rotate"
    BY ReadQueueJob
  <2> QED BY <1>0, <2>1, <2>2, EndsKept
<1>9. CASE UNCHANGED vars
  BY <1>9 DEF vars, store, rows, history, EndsInv, RotateInv, ChangeEndsSessions, LifetimeInv,
     WillEnd, At, Over, Accepted
<1> QED
  BY <1>1, <1>2, <1>3, <1>4, <1>5, <1>6, <1>7, <1>8, <1>9, <1>10 DEF Next

LEMMA SessionInvariant == Spec => [](TypeOK /\ SessionInv)
<1>1. Init => TypeOK /\ SessionInv
  <2> SUFFICES ASSUME Init PROVE SessionInv
    BY InitTypeOK
  <2>1. /\ keys = 0 /\ tokens = {} /\ ended = {}
        /\ \A e \in Exts : mem[e].secret = 0 /\ file[e].secret = 0
        /\ (\A t \in Tasks : task[t].step = "idle" /\ task[t].before = {})
    BY DEF Init, Empty, Idle
  <2> QED BY <2>1 DEF SessionInv, DrawnInv, RotateInv, ChangeEndsSessions, LifetimeInv, At
<1>2. TypeOK /\ SessionInv /\ [Next]_vars => (TypeOK /\ SessionInv)'
  BY NextTypeOK, NextDrawnInv, NextEndsInv DEF SessionInv, EndsInv
<1> QED BY <1>1, <1>2, PTL DEF Spec

\* extension_session_settings_set: a change that returns Ok ends every session
\* older than it, in memory and in the file, whatever runs beside it.
THEOREM ChangeAlwaysEndsSessions == Spec => []ChangeEndsSessions
<1>1. TypeOK /\ SessionInv => ChangeEndsSessions
  BY DEF SessionInv
<1> QED BY <1>1, SessionInvariant, PTL

\* A token that is accepted was handed out under the lifetime that is set, unless
\* a settings change is under way or one ended half way.
THEOREM AcceptedAlwaysUnderSetting == Spec => []AcceptedUnderSetting
<1>1. ASSUME TypeOK, SessionInv PROVE AcceptedUnderSetting
  <2>1. \A t \in Tasks, e \in Exts : WillEnd(t, e) => Setting
    BY DEF WillEnd, Setting, At
  <2>2. \A k \in tokens : k.ext \in Exts
    BY <1>1 DEF TypeOK, Token
  <2> QED BY <1>1, <2>1, <2>2 DEF SessionInv, LifetimeInv, AcceptedUnderSetting, Over
<1> QED BY <1>1, SessionInvariant, PTL
-----------------------------------------------------------------------------
(* Commands that do not overlap.                                           *)

\* A command begins when no other runs, or goes on while no other runs.
LEMMA AloneKept ==
  ASSUME TypeOK, AloneInv, NEW t \in Tasks, NEW j, Become(t, j), Begin(t) \/ ~At(t, "idle"),
         serial' = serial,
         j.step = "create" => mem'[j.ext].secret = 0
  PROVE  AloneInv'
<1> SUFFICES ASSUME serial PROVE (OneCommand /\ ReadHolds)'
  BY DEF AloneInv
<1>1. \A u \in Tasks \ {t} : At(u, "idle")
  BY DEF AloneInv, OneCommand, Begin
<1>2. \A u \in Tasks : task'[u] = IF u = t THEN j ELSE task[u]
  BY BecomeIs
<1>3. OneCommand'
  BY <1>1, <1>2 DEF OneCommand, At
<1>4. ReadHolds'
  BY <1>1, <1>2 DEF ReadHolds, At
<1> QED BY <1>3, <1>4

LEMMA NextAloneInv ==
  ASSUME TypeOK, AloneInv, [Next]_vars
  PROVE  AloneInv'
<1> SUFFICES ASSUME serial' PROVE AloneInv'
  BY DEF AloneInv
<1>0. serial' = serial
  BY DEF Next, vars, setup, Issue, Rotate, Approve, Revoke, ReadSecret, CreateSecret, Sign,
     ChangeTtl,
     WriteTtl, ListExtensions, SettingsDone, Request, CheckOptIn, ReadQueue, PushContext,
     SetOptIn, Unlock, Lock, Close, Restart
<1>b. Idle.step = "idle"
  BY DEF Idle
<1>1. ASSUME NEW t \in Tasks,
             \/ \E e \in Exts : Issue(t, e) \/ Rotate(t, e) \/ Approve(t, e) \/ Revoke(t, e)
             \/ \E k \in tokens : Request(t, k)
             \/ CreateSecret(t) \/ Sign(t) \/ ChangeTtl(t) \/ WriteTtl(t) \/ ListExtensions(t)
             \/ SettingsDone(t) \/ CheckOptIn(t) \/ PushContext(t) \/ Lock(t) \/ Close(t)
      PROVE  AloneInv'
  <2>1. Begin(t) \/ ~At(t, "idle")
    BY <1>1 DEF Issue, Rotate, Approve, Revoke, Request, CreateSecret, Sign, ChangeTtl,
       WriteTtl, ListExtensions, SettingsDone, CheckOptIn, PushContext, Lock, Close, At
  <2> DEFINE J == {Idle, [Idle EXCEPT !.step = "optIn"], [Idle EXCEPT !.step = "close"],
                   [Idle EXCEPT !.step = "setTtl", !.before = tokens],
                   [Moved(t, "sign") EXCEPT !.key = keys'], Moved(t, "list"),
                   [Moved(t, "rotate") EXCEPT !.todo = Known], Moved(t, "queue")}
                  \cup {[Idle EXCEPT !.step = "read", !.ext = e] : e \in Exts}
                  \cup {[task[t] EXCEPT !.todo = @ \ {e}] : e \in Exts}
  <2>a. /\ [Idle EXCEPT !.step = "optIn"].step = "optIn"
        /\ [Idle EXCEPT !.step = "close"].step = "close"
        /\ [Idle EXCEPT !.step = "setTtl", !.before = tokens].step = "setTtl"
        /\ \A e \in Exts : [Idle EXCEPT !.step = "read", !.ext = e].step = "read"
    BY DEF Idle
  <2>b. /\ \A k : [Moved(t, "sign") EXCEPT !.key = k].step = "sign"
        /\ Moved(t, "list").step = "list" /\ Moved(t, "queue").step = "queue"
        /\ [Moved(t, "rotate") EXCEPT !.todo = Known].step = "rotate"
        /\ \A e \in Exts : [task[t] EXCEPT !.todo = @ \ {e}].step = task[t].step
    BY DEF Moved, TypeOK, Job
  <2>2. \E j \in J : Become(t, j) /\ j.step # "create"
    <3>1. ASSUME NEW e \in Exts, Rotate(t, e)
          PROVE  \E j \in J : Become(t, j) /\ j.step # "create"
      <4> DEFINE i == [task[t] EXCEPT !.todo = @ \ {e}]
      <4>1. At(t, "rotate") /\ (Become(t, Idle) \/ Become(t, i))
        BY <3>1 DEF Rotate, GiveUp, Finish, Store
      <4>2. i.step = "rotate" /\ i \in J
        BY <2>b, <4>1 DEF At
      <4> HIDE DEF i
      <4> QED BY <1>b, <4>1, <4>2
    <3>0. ASSUME NEW e \in Exts, Issue(t, e)
          PROVE  \E j \in J : Become(t, j) /\ j.step # "create"
      <4>1. Become(t, [Idle EXCEPT !.step = "read", !.ext = e])
        BY <3>0 DEF Issue
      <4> QED BY <2>a, <4>1
    <3>7. ASSUME NEW k \in tokens, Request(t, k)
          PROVE  \E j \in J : Become(t, j) /\ j.step # "create"
      <4>1. Become(t, [Idle EXCEPT !.step = "optIn"])
        BY <3>7 DEF Request
      <4> QED BY <2>a, <4>1
    <3>2. CASE \E e \in Exts : Approve(t, e) \/ Revoke(t, e)
      BY <1>b, <3>2 DEF Approve, Revoke, Finish, Store
    <3>3. CASE CreateSecret(t) \/ Sign(t)
      BY <1>b, <2>b, <3>3 DEF CreateSecret, Sign, Finish, Store
    <3>4. CASE ChangeTtl(t) \/ WriteTtl(t)
      BY <1>b, <2>a, <2>b, <3>4 DEF ChangeTtl, WriteTtl, Finish, GiveUp
    <3>5. CASE ListExtensions(t) \/ SettingsDone(t)
      BY <1>b, <2>b, <3>5 DEF ListExtensions, SettingsDone, Finish, GiveUp
    <3>6. CASE Lock(t) \/ Close(t)
      BY <1>b, <2>a, <3>6 DEF Lock, Close, Finish
    <3>8. CASE CheckOptIn(t) \/ PushContext(t)
      BY <1>b, <2>b, <3>8 DEF CheckOptIn, PushContext, Finish
    <3> QED BY <1>1, <3>0, <3>1, <3>2, <3>3, <3>4, <3>5, <3>6, <3>7, <3>8
  <2> HIDE DEF J
  <2> QED BY <1>0, <2>1, <2>2, AloneKept
<1>2. ASSUME NEW t \in Tasks, ReadSecret(t) PROVE AloneInv'
  <2> DEFINE key == mem[task[t].ext].secret
             j   == IF ~open THEN Idle ELSE IF key = 0 THEN Moved(t, "create")
                    ELSE [Moved(t, "sign") EXCEPT !.key = key]
  <2>1. /\ Become(t, j) /\ ~At(t, "idle") /\ mem' = mem
    BY <1>2 DEF ReadSecret, Finish, At, store
  <2>2. j.step = "create" => mem[j.ext].secret = 0
    BY <1>b DEF Moved, TypeOK, Job
  <2> HIDE DEF j
  <2> QED BY <1>0, <2>1, <2>2, AloneKept
<1>3. ASSUME NEW t \in Tasks, ReadQueue(t) PROVE AloneInv'
  <2>1. ~At(t, "idle") /\ \E j \in {ReadOk, ReadFails} : Become(t, j)
    BY <1>3, ReadQueueStep DEF At
  <2>2. \A j \in {ReadOk, ReadFails} : j.step # "create"
    BY ReadQueueJob
  <2> QED BY <1>0, <2>1, <2>2, AloneKept
<1>5. ASSUME NEW t \in Tasks, SetOptIn(t) PROVE AloneInv'
  BY <1>5 DEF SetOptIn, AloneInv, OneCommand, ReadHolds, At, store, history, setup
<1>6. ASSUME NEW t \in Tasks, Unlock(t) PROVE AloneInv'
  <2>1. \A u \in Tasks : At(u, "idle")
    BY <1>0, <1>6 DEF Unlock, Begin
  <2> QED BY <1>6, <2>1 DEF Unlock, AloneInv, OneCommand, ReadHolds, At, setup
<1>7. CASE Restart
  BY <1>b, <1>7 DEF Restart, AloneInv, OneCommand, ReadHolds, At
<1>8. CASE UNCHANGED vars
  BY <1>8 DEF vars, store, rows, history, setup, AloneInv, OneCommand, ReadHolds, At
<1> QED
  BY <1>1, <1>2, <1>3, <1>5, <1>6, <1>7, <1>8 DEF Next

LEMMA AloneInvariant == Spec => [](TypeOK /\ AloneInv)
<1>1. Init => TypeOK /\ AloneInv
  <2> SUFFICES ASSUME Init PROVE AloneInv
    BY InitTypeOK
  <2>1. \A t \in Tasks : task[t].step = "idle"
    BY DEF Init, Idle
  <2> QED BY <2>1 DEF AloneInv, OneCommand, ReadHolds, At
<1>2. TypeOK /\ AloneInv /\ [Next]_vars => (TypeOK /\ AloneInv)'
  BY NextTypeOK, NextAloneInv
<1> QED BY <1>1, <1>2, PTL DEF Spec

\* get_or_create_session_secret: commands that do not overlap end no session,
\* except a settings change.
THEOREM OnlySettingsAlwaysEndSessions == Spec => OnlySettingsEndSessions
<1> DEFINE Keeps == serial /\ ~crashed' /\ open =>
                      \A k \in tokens : Accepted(mem, k) => Accepted(mem', k) \/ Setting
<1>1. ASSUME TypeOK, SessionInv, AloneInv, [Next]_vars PROVE Keeps
  <2> SUFFICES ASSUME serial, ~crashed', open, NEW k \in tokens, Accepted(mem, k), ~Setting
               PROVE  Accepted(mem', k)
    OBVIOUS
  <2>a. k.ext \in Exts /\ k.key \in 1..keys /\ keys \in Nat /\ mem \in [Exts -> Slots]
    BY <1>1 DEF TypeOK, Token, SessionInv, DrawnInv, Keys
  <2>1. ASSUME NEW t \in Tasks, CreateSecret(t) PROVE Accepted(mem', k)
    <3>1. mem[task[t].ext].secret = 0 /\ task[t].ext \in Exts
      BY <1>1, <2>1 DEF AloneInv, ReadHolds, CreateSecret, TypeOK, Job
    <3>2. task[t].ext # k.ext
      BY <2>a, <3>1 DEF Accepted
    <3>3. mem' = mem \/ mem' = WithSecret(task[t].ext, keys')
      BY <2>1 DEF CreateSecret, Store
    <3> QED BY <2>a, <3>1, <3>2, <3>3 DEF WithSecret, Accepted, Slots
  <2>2. ASSUME NEW t \in Tasks, NEW e \in Exts, Approve(t, e) \/ Revoke(t, e)
        PROVE  Accepted(mem', k)
    <3>1. \E n : mem' = WithPriv(e, n)
      BY <2>2 DEF Approve, Revoke, Store
    <3> QED BY <2>a, <3>1 DEF WithPriv, Accepted, Slots
  <2>3. ASSUME NEW t \in Tasks, NEW e \in Exts, Rotate(t, e) PROVE Accepted(mem', k)
    BY <2>3 DEF Rotate, Setting, At
  <2>4. ASSUME NEW t \in Tasks, Unlock(t) PROVE Accepted(mem', k)
    BY <2>4 DEF Unlock
  <2>5. CASE Restart
    BY <2>5 DEF Restart
  <2>6. CASE mem' = mem
    BY <2>6 DEF Accepted
  <2>7. ASSUME NEW t \in Tasks,
               \/ \E e \in Exts : Issue(t, e)
               \/ ReadSecret(t) \/ Sign(t) \/ ChangeTtl(t) \/ WriteTtl(t)
               \/ ListExtensions(t) \/ SettingsDone(t)
               \/ \E x \in tokens : Request(t, x)
               \/ CheckOptIn(t) \/ ReadQueue(t) \/ PushContext(t) \/ SetOptIn(t)
               \/ Lock(t) \/ Close(t)
        PROVE  mem' = mem
    BY <2>7 DEF Issue, ReadSecret, Sign, ChangeTtl, WriteTtl, ListExtensions, SettingsDone,
         Request, CheckOptIn, ReadQueue, PushContext, SetOptIn, Lock, Close, store
  <2>8. CASE UNCHANGED vars
    BY <2>6, <2>8 DEF vars, store
  <2> QED BY <1>1, <2>1, <2>2, <2>3, <2>4, <2>5, <2>6, <2>7, <2>8 DEF Next
<1>2. TypeOK /\ SessionInv /\ AloneInv /\ [Next]_vars => [Keeps]_vars
  BY <1>1
<1> QED
  BY <1>2, SessionInvariant, AloneInvariant, PTL DEF Spec, OnlySettingsEndSessions

-----------------------------------------------------------------------------
(* The queue of contexts: what is written to it is sound, and so is what a *)
(* request holds of it, for the contexts that it had when it was read.     *)

Ordered(q) == \A i, j \in 1..Len(q) : i < j => q[i] < q[j]

\* The queue q holds what it should of the first k contexts.
Covers(q, k) ==
  \A n \in 1..k : pushed[n].written => InQueue(q, n) \/ Displaced(q, n) \/ Overwritten(n)

Sound(q, k) ==
  /\ Len(q) <= Capacity /\ Ordered(q)
  /\ \A i \in 1..Len(q) : q[i] \in 1..k
  /\ Covers(q, k)

\* What a request will write is sound but for what it did not see.
CopySound(j) ==
  /\ j.seen <= Len(pushed)
  /\ IF j.blank THEN j.copy = <<>> ELSE Sound(j.copy, j.seen)

QueueInv ==
  /\ Sound(queue, Len(pushed))
  /\ \A t \in Tasks : At(t, "push") => CopySound(task[t])

\* A queue with one context more, of which the latest stay.
LEMMA LastAppend ==
  ASSUME NEW q \in Seq(Nat), NEW m \in Nat, Len(q) <= Capacity, Ordered(q),
         \A i \in 1..Len(q) : q[i] < m,
         NEW r, r = Last(Append(q, m), Capacity)
  PROVE  /\ r \in Seq(Nat) /\ Len(r) <= Capacity /\ Ordered(r)
         /\ \A i \in 1..Len(r) : r[i] = m \/ InQueue(q, r[i])
         /\ InQueue(r, m)
         /\ \A n : InQueue(q, n) => InQueue(r, n) \/ Displaced(r, n)
         /\ \A n \in Nat : n < m /\ Displaced(q, n) => Displaced(r, n)
<1> DEFINE a == Append(q, m)
<1>1. /\ a \in Seq(Nat) /\ Len(a) = Len(q) + 1 /\ a[Len(q) + 1] = m
      /\ \A i \in 1..Len(q) : a[i] = q[i]
      /\ Len(q) \in Nat /\ Capacity \in Nat \ {0}
      /\ \A i \in 1..Len(q) : q[i] \in Nat
  BY AppendProperties, LenProperties, ExtensionAssumption
<1>2. r = Last(a, Capacity)
  OBVIOUS
<1> HIDE DEF a
<1>3. CASE Len(q) < Capacity
  <2>1. r = a
    BY <1>1, <1>2, <1>3, LastProperties
  <2>2. Len(r) <= Capacity
    BY ONLY <1>1, <1>3, <2>1
  <2>3. Ordered(r)
    <3> SUFFICES ASSUME NEW i \in 1..Len(a), NEW j \in 1..Len(a), i < j PROVE a[i] < a[j]
      BY <2>1 DEF Ordered
    <3>1. i \in 1..Len(q) /\ a[i] = q[i]
      BY <1>1
    <3>2. CASE j \in 1..Len(q)
      BY <1>1, <3>1, <3>2 DEF Ordered
    <3>3. CASE j \notin 1..Len(q)
      <4>1. j = Len(q) + 1
        BY ONLY <1>1, <3>3, j \in 1..Len(a)
      <4>2. a[j] = m
        BY <1>1, <4>1
      <4>3. q[i] < m
        BY <3>1
      <4> QED BY <3>1, <4>2, <4>3
    <3> QED BY <3>2, <3>3
  <2>4. ASSUME NEW i \in 1..Len(r) PROVE r[i] = m \/ InQueue(q, r[i])
    <3>1. CASE i = Len(q) + 1
      BY <1>1, <2>1, <3>1
    <3>2. CASE i # Len(q) + 1
      <4>1. i \in 1..Len(q)
        BY ONLY <1>1, <2>1, <3>2, i \in 1..Len(r)
      <4> QED BY <1>1, <2>1, <4>1 DEF InQueue
    <3> QED BY <3>1, <3>2
  <2>5. InQueue(r, m)
    BY <1>1, <2>1 DEF InQueue
  <2>6. ASSUME NEW n, InQueue(q, n) PROVE InQueue(r, n)
    BY <1>1, <2>1, <2>6 DEF InQueue
  <2>7. ASSUME NEW n \in Nat, Displaced(q, n) PROVE FALSE
    BY <1>1, <1>3, <2>7 DEF Displaced
  <2> QED BY <1>1, <2>1, <2>2, <2>3, <2>4, <2>5, <2>6, <2>7
<1>4. CASE Len(q) = Capacity
  <2>1. /\ r \in Seq(Nat) /\ Len(r) = Capacity
        /\ \A i \in 1..Capacity : r[i] = a[Len(a) - Capacity + i]
    <3>1. Len(a) > Capacity /\ Capacity \in Nat
      BY <1>1, <1>4
    <3>2. /\ Last(a, Capacity) \in Seq(Nat) /\ Len(Last(a, Capacity)) = Capacity
          /\ \A i \in 1..Capacity : Last(a, Capacity)[i] = a[Len(a) - Capacity + i]
      BY <1>1, <3>1, LastProperties
    <3> QED BY <1>2, <3>2
  <2>2. \A i \in 1..Capacity : r[i] = a[1 + i]
    BY <1>1, <1>4, <2>1
  <2>3. r[Capacity] = m /\ \A i \in 1..Capacity : i # Capacity => r[i] = q[1 + i]
    BY <1>1, <1>4, <2>2
  <2>4. Ordered(r)
    <3> SUFFICES ASSUME NEW i \in 1..Capacity, NEW j \in 1..Capacity, i < j PROVE r[i] < r[j]
      BY <2>1 DEF Ordered
    <3>1. r[i] = q[1 + i] /\ 1 + i \in 1..Len(q)
      BY <1>1, <1>4, <2>3
    <3>2. CASE j = Capacity
      BY <2>3, <3>1, <3>2
    <3>3. CASE j # Capacity
      <4>1. r[j] = q[1 + j] /\ 1 + j \in 1..Len(q) /\ 1 + i < 1 + j
        BY <1>1, <1>4, <2>3, <3>3
      <4> QED BY <3>1, <4>1 DEF Ordered
    <3> QED BY <3>2, <3>3
  <2>5. \A i \in 1..Len(r) : r[i] = m \/ InQueue(q, r[i])
    BY <1>1, <1>4, <2>1, <2>3 DEF InQueue
  <2>6. InQueue(r, m)
    BY <1>1, <2>1, <2>3 DEF InQueue
  <2>7. ASSUME NEW n, InQueue(q, n) PROVE InQueue(r, n) \/ Displaced(r, n)
    <3>1. PICK i \in 1..Len(q) : q[i] = n
      BY <2>7 DEF InQueue
    <3>2. CASE i = 1
      <4>1. \A j \in 1..Len(q) : j # 1 => q[j] > n
        BY <1>1, <3>1, <3>2 DEF Ordered
      <4>2. m > n
        BY <1>1, <3>1
      <4>3. ASSUME NEW j \in 1..Capacity PROVE r[j] > n
        <5>1. CASE j = Capacity
          BY <2>3, <4>2, <5>1
        <5>2. CASE j # Capacity
          <6>1. 1 + j \in 1..Len(q) /\ 1 + j # 1
            BY ONLY <1>1, <1>4, <5>2, j \in 1..Capacity
          <6>2. r[j] = q[1 + j]
            BY <2>3, <5>2
          <6> QED BY <4>1, <6>1, <6>2
        <5> QED BY <5>1, <5>2
      <4> QED BY <2>1, <4>3 DEF Displaced
    <3>3. CASE i # 1
      <4>1. i - 1 \in 1..Capacity /\ i - 1 # Capacity /\ 1 + (i - 1) = i
        BY <1>1, <1>4, <3>3
      <4>2. r[i - 1] = n
        BY <2>3, <3>1, <4>1
      <4> QED BY <2>1, <4>1, <4>2 DEF InQueue
    <3> QED BY <3>2, <3>3
  <2>8. ASSUME NEW n \in Nat, n < m, Displaced(q, n) PROVE Displaced(r, n)
    BY <1>1, <1>4, <2>1, <2>3, <2>8 DEF Displaced
  <2> QED BY <1>1, <2>1, <2>4, <2>5, <2>6, <2>7, <2>8
<1> QED BY <1>1, <1>3, <1>4

\* A context that is pushed takes nothing from the history.
LEMMA HistoryGrows ==
  ASSUME TypeOK, NEW c \in Push, pushed' = Append(pushed, c)
  PROVE  /\ Len(pushed') = Len(pushed) + 1 /\ Len(pushed) \in Nat
         /\ pushed'[Len(pushed) + 1] = c
         /\ \A n \in 1..Len(pushed) : pushed'[n] = pushed[n]
         /\ \A n \in Nat : Overwritten(n) => Overwritten(n)'
<1>1. /\ Len(pushed') = Len(pushed) + 1 /\ Len(pushed) \in Nat
      /\ pushed'[Len(pushed) + 1] = c
      /\ \A n \in 1..Len(pushed) : pushed'[n] = pushed[n]
  BY AppendProperties, LenProperties DEF TypeOK
<1>2. ASSUME NEW n \in Nat, Overwritten(n) PROVE Overwritten(n)'
  <2>1. PICK m \in (n + 1)..Len(pushed) :
          pushed[m].written /\ (pushed[m].blank \/ pushed[m].seen < n)
    BY <1>2 DEF Overwritten
  <2>2. m \in (n + 1)..Len(pushed') /\ pushed'[m] = pushed[m]
    BY <1>1, <2>1
  <2> QED BY <2>1, <2>2 DEF Overwritten
<1> QED BY <1>1, <1>2

\* What is sound stays so while contexts come that were not written into it.
LEMMA SoundKept ==
  ASSUME TypeOK, NEW c \in Push, pushed' = Append(pushed, c), NEW q, NEW k \in 0..Len(pushed),
         Sound(q, k)
  PROVE  Sound(q, k)'
<1>1. \A n \in 1..k : pushed'[n] = pushed[n] /\ n \in Nat /\ (Overwritten(n) => Overwritten(n)')
  BY HistoryGrows
<1>2. Covers(q, k)'
  BY <1>1 DEF Sound, Covers, InQueue, Displaced
<1> QED BY <1>2 DEF Sound, Ordered

LEMMA CopySoundKept ==
  ASSUME TypeOK, NEW c \in Push, pushed' = Append(pushed, c), NEW j \in Job, CopySound(j)
  PROVE  CopySound(j)'
<1>1. j.seen \in Nat /\ Len(pushed) \in Nat /\ Len(pushed') = Len(pushed) + 1
  BY HistoryGrows DEF Job
<1>2. j.seen \in 0..Len(pushed) /\ j.seen <= Len(pushed')
  BY <1>1 DEF CopySound
<1>3. Sound(j.copy, j.seen) => Sound(j.copy, j.seen)'
  BY <1>2, SoundKept
<1> QED BY <1>2, <1>3 DEF CopySound

\* A step that pushes nothing, of a request that enters no "push".
LEMMA QueueKept ==
  ASSUME TypeOK, QueueInv, UNCHANGED <<queue, pushed>>,
         \A t \in Tasks : task'[t] = task[t] \/ task'[t].step # "push" \/ CopySound(task'[t])
  PROVE  QueueInv'
<1>1. \A j : CopySound(j) <=> CopySound(j)'
  BY DEF CopySound, Sound, Ordered, Covers, InQueue, Displaced, Overwritten
<1>2. Sound(queue, Len(pushed))'
  BY DEF QueueInv, Sound, Ordered, Covers, InQueue, Displaced, Overwritten
<1>3. ASSUME NEW t \in Tasks, At(t, "push")' PROVE CopySound(task[t])'
  <2>1. CopySound(task'[t])
    BY <1>3 DEF QueueInv, At
  <2>2. CopySound(task[t])' <=> CopySound(task'[t])
    BY DEF CopySound, Sound, Ordered, Covers, InQueue, Displaced, Overwritten
  <2> QED BY <2>1, <2>2
<1> QED BY <1>2, <1>3 DEF QueueInv

LEMMA PushKeepsQueueInv ==
  ASSUME TypeOK, QueueInv, NEW t \in Tasks, PushContext(t)
  PROVE  QueueInv'
<1> DEFINE N == Len(pushed) + 1
           q == task[t].copy
           k == task[t].seen
           b == task[t].blank
<1>1. /\ q \in Seq(Nat) /\ k \in Nat /\ b \in BOOLEAN /\ CopySound(task[t])
      /\ Len(pushed) \in Nat /\ N \in Nat /\ Idle.step = "idle"
  BY JobUpdate, LenProperties DEF TypeOK, Steps, QueueInv, PushContext, Idle
<1>2. /\ Become(t, Idle)
      /\ \E w \in BOOLEAN : pushed' = Append(pushed, [seen |-> k, blank |-> b, written |-> w])
  BY DEF PushContext, Finish, Pushed
<1>3. ASSUME NEW w \in BOOLEAN,
             pushed' = Append(pushed, [seen |-> k, blank |-> b, written |-> w])
      PROVE  /\ Len(pushed') = N
             /\ pushed'[N].seen = k /\ pushed'[N].blank = b /\ pushed'[N].written = w
             /\ \A n \in 1..Len(pushed) : pushed'[n] = pushed[n]
             /\ \A n \in Nat : Overwritten(n) => Overwritten(n)'
             /\ \A j \in Job : CopySound(j) => CopySound(j)'
             /\ \A p, m : m \in 0..Len(pushed) /\ Sound(p, m) => Sound(p, m)'
  <2>1. [seen |-> k, blank |-> b, written |-> w] \in Push
    BY <1>1 DEF Push
  <2>2. \A j \in Job : CopySound(j) => CopySound(j)'
    BY <1>3, <2>1, CopySoundKept
  <2>3. \A p, m : m \in 0..Len(pushed) /\ Sound(p, m) => Sound(p, m)'
    BY <1>3, <2>1, SoundKept
  <2> QED BY <1>3, <2>1, <2>2, <2>3, HistoryGrows
<1>4. (\A u \in Tasks : At(u, "push") => CopySound(task[u]))'
  <2>1. \A j \in Job : CopySound(j) => CopySound(j)'
    BY <1>2, <1>3
  <2> SUFFICES ASSUME NEW u \in Tasks, task'[u].step = "push" PROVE CopySound(task[u])'
    BY DEF At
  <2>2. task'[u] = task[u]
    BY <1>1, <1>2, BecomeIs
  <2>3. CopySound(task[u]) /\ task[u] \in Job
    BY <2>2 DEF QueueInv, At, TypeOK
  <2>4. PICK j \in Job : j = task'[u] /\ CopySound(j)
    BY <2>2, <2>3
  <2>5. CopySound(j)'
    BY <2>1, <2>4
  <2> QED BY <2>4, <2>5 DEF CopySound, Sound, Ordered, Covers, InQueue, Displaced, Overwritten
<1>5. Sound(queue, Len(pushed))'
  <2>1. CASE Pushed(t, FALSE) /\ UNCHANGED queue
    <3>1. /\ pushed' = Append(pushed, [seen |-> k, blank |-> b, written |-> FALSE])
          /\ queue' = queue
      BY <2>1 DEF Pushed
    <3>2. Sound(queue, Len(pushed))
      BY DEF QueueInv
    <3>3. /\ Len(queue) <= Capacity /\ Ordered(queue)
          /\ \A i \in 1..Len(queue) : queue[i] \in 1..Len(pushed)
      BY <3>2 DEF Sound
    <3>4. \A i \in 1..Len(queue) : queue[i] \in 1..N
      BY <1>1, <3>3
    <3>5. ASSUME NEW n \in 1..N, pushed'[n].written
          PROVE  InQueue(queue, n) \/ Displaced(queue, n) \/ Overwritten(n)'
      <4>1. n \in 1..Len(pushed)
        BY <1>1, <1>3, <3>1, <3>5
      <4>2. pushed[n].written /\ n \in Nat
        BY <1>3, <3>1, <3>5, <4>1
      <4>3. InQueue(queue, n) \/ Displaced(queue, n) \/ Overwritten(n)
        BY <3>2, <4>1, <4>2 DEF Sound, Covers
      <4> QED BY <1>3, <3>1, <4>2, <4>3
    <3>6. Len(pushed') = N
      BY <1>3, <3>1
    <3>7. Covers(queue, Len(pushed))'
      BY <3>1, <3>5, <3>6 DEF Covers, InQueue, Displaced
    <3>8. Ordered(queue)'
      BY <3>1, <3>3 DEF Ordered
    <3> QED BY <3>1, <3>3, <3>4, <3>6, <3>7, <3>8 DEF Sound
  <2>2. CASE Pushed(t, TRUE) /\ queue' = Last(Append(q, Len(pushed')), Capacity)
    <3>1. pushed' = Append(pushed, [seen |-> k, blank |-> b, written |-> TRUE])
      BY <2>2 DEF Pushed
    <3>2. Len(pushed') = N /\ queue' = Last(Append(q, N), Capacity)
      BY <1>3, <2>2, <3>1
    <3>3. /\ k < N /\ Len(q) <= Capacity /\ Ordered(q)
          /\ \A i \in 1..Len(q) : q[i] \in 1..k
      <4>1. CASE b
        <5>1. q = <<>> /\ k <= Len(pushed) /\ Len(q) = 0
          BY <1>1, <4>1 DEF CopySound
        <5> QED BY <1>1, <5>1, ExtensionAssumption DEF Ordered
      <4>2. CASE ~b
        BY <1>1, <4>2 DEF CopySound, Sound
      <4> QED BY <1>1, <4>1, <4>2
    <3>4. \A i \in 1..Len(q) : q[i] < N
      BY <1>1, <3>3
    <3> DEFINE r == queue'
    <3>5. /\ r \in Seq(Nat) /\ Len(r) <= Capacity /\ Ordered(r)
          /\ \A i \in 1..Len(r) : r[i] = N \/ InQueue(q, r[i])
          /\ InQueue(r, N)
          /\ \A n : InQueue(q, n) => InQueue(r, n) \/ Displaced(r, n)
          /\ \A n \in Nat : n < N /\ Displaced(q, n) => Displaced(r, n)
      <4> HIDE DEF N, q
      <4>1. SUFFICES ASSUME NEW x, x = Last(Append(q, N), Capacity)
                     PROVE  /\ x \in Seq(Nat) /\ Len(x) <= Capacity /\ Ordered(x)
                            /\ \A i \in 1..Len(x) : x[i] = N \/ InQueue(q, x[i])
                            /\ InQueue(x, N)
                            /\ \A n : InQueue(q, n) => InQueue(x, n) \/ Displaced(x, n)
                            /\ \A n \in Nat : n < N /\ Displaced(q, n) => Displaced(x, n)
        BY <3>2
      <4> QED BY <1>1, <3>3, <3>4, <4>1, LastAppend
    <3>6. \A i \in 1..Len(r) : r[i] \in 1..N
      <4> SUFFICES ASSUME NEW i \in 1..Len(r) PROVE r[i] \in 1..N
        OBVIOUS
      <4>1. CASE r[i] = N
        BY <1>1, <4>1
      <4>2. CASE InQueue(q, r[i])
        <5>1. r[i] \in 1..k
          BY <3>3, <4>2 DEF InQueue
        <5> QED BY <1>1, <3>3, <5>1
      <4> QED BY <3>5, <4>1, <4>2
    <3>7. ASSUME NEW n \in 1..N, pushed'[n].written
          PROVE  InQueue(r, n) \/ Displaced(r, n) \/ Overwritten(n)'
      <4>1. CASE n = N
        BY <3>5, <4>1
      <4>2. CASE n # N /\ (b \/ k < n)
        <5>1. N \in (n + 1)..Len(pushed') /\ pushed'[N].written
              /\ (pushed'[N].blank \/ pushed'[N].seen < n)
          BY <1>1, <1>3, <3>1, <3>2, <4>2
        <5> QED BY <5>1 DEF Overwritten
      <4>3. CASE n # N /\ ~b /\ ~(k < n)
        <5>1. n \in 1..k /\ n \in 1..Len(pushed) /\ n \in Nat /\ n < N
          BY <1>1, <3>3, <4>3
        <5>2. pushed[n].written
          BY <1>3, <3>1, <3>7, <5>1
        <5>3. InQueue(q, n) \/ Displaced(q, n) \/ Overwritten(n)
          BY <1>1, <4>3, <5>1, <5>2 DEF CopySound, Sound, Covers
        <5> QED BY <1>3, <3>1, <3>5, <5>1, <5>3
      <4> QED BY <4>1, <4>2, <4>3
    <3>8. Covers(queue, Len(pushed))'
      BY <3>2, <3>7 DEF Covers, InQueue, Displaced
    <3>9. Ordered(queue)'
      BY <3>5 DEF Ordered
    <3> QED BY <3>2, <3>5, <3>6, <3>8, <3>9 DEF Sound
  <2> QED BY <2>1, <2>2 DEF PushContext
<1> QED BY <1>4, <1>5 DEF QueueInv

LEMMA NextQueueInv ==
  ASSUME TypeOK, QueueInv, [Next]_vars
  PROVE  QueueInv'
<1>b. Idle.step = "idle"
  BY DEF Idle
<1>1. ASSUME NEW t \in Tasks, PushContext(t) PROVE QueueInv'
  BY <1>1, PushKeepsQueueInv
<1>2. ASSUME NEW t \in Tasks, ReadQueue(t) PROVE QueueInv'
  <2>1. /\ UNCHANGED <<queue, pushed>>
        /\ \A u \in Tasks : task'[u] = task[u] \/ task'[u] \in {ReadOk, ReadFails}
    BY <1>2, ReadQueueStep, BecomeIs DEF rows, history
  <2>2. Len(pushed) <= Len(pushed)
    BY LenProperties DEF TypeOK
  <2>3. \A j \in {ReadOk, ReadFails} : CopySound(j)
    <3>1. Sound(queue, Len(pushed))
      BY DEF QueueInv
    <3> QED BY <2>2, <3>1, ReadQueueJob DEF CopySound
  <2> QED BY <2>1, <2>3, QueueKept
<1>3. ASSUME NEW t \in Tasks,
             \/ \E e \in Exts : Issue(t, e) \/ Rotate(t, e) \/ Approve(t, e) \/ Revoke(t, e)
             \/ ReadSecret(t) \/ CreateSecret(t) \/ Sign(t)
             \/ ChangeTtl(t) \/ WriteTtl(t) \/ ListExtensions(t) \/ SettingsDone(t)
             \/ \E k \in tokens : Request(t, k)
             \/ CheckOptIn(t) \/ SetOptIn(t) \/ Unlock(t) \/ Lock(t) \/ Close(t)
      PROVE  UNCHANGED <<queue, pushed>>
  BY <1>3 DEF Issue, Rotate, Approve, Revoke, ReadSecret, CreateSecret, Sign, ChangeTtl, WriteTtl,
       ListExtensions, SettingsDone, Request, CheckOptIn, SetOptIn, Unlock, Lock, Close, rows,
       history
<1>4. ASSUME NEW t \in Tasks, SetOptIn(t) \/ Unlock(t) PROVE QueueInv'
  <2>1. task' = task
    BY <1>4 DEF SetOptIn, Unlock
  <2> QED BY <1>3, <1>4, <2>1, QueueKept
<1>5. ASSUME NEW t \in Tasks, NEW j, Become(t, j), j.step # "push", UNCHANGED <<queue, pushed>>
      PROVE  QueueInv'
  BY <1>5, BecomeIs, QueueKept
<1>6. ASSUME NEW t \in Tasks,
             \/ \E e \in Exts : Issue(t, e) \/ Rotate(t, e) \/ Approve(t, e) \/ Revoke(t, e)
             \/ ReadSecret(t) \/ CreateSecret(t) \/ Sign(t)
             \/ ChangeTtl(t) \/ WriteTtl(t) \/ ListExtensions(t) \/ SettingsDone(t)
             \/ \E k \in tokens : Request(t, k)
             \/ CheckOptIn(t) \/ Lock(t) \/ Close(t)
      PROVE  \E j : Become(t, j) /\ j.step # "push"
  <2>1. ASSUME NEW step \in Steps \ {"push"}, NEW x
        PROVE  /\ Moved(t, step).step # "push"
               /\ [Moved(t, step) EXCEPT !.key = x].step # "push"
               /\ [Moved(t, step) EXCEPT !.todo = x].step # "push"
               /\ [Idle EXCEPT !.step = step].step # "push"
               /\ [Idle EXCEPT !.step = step, !.ext = x].step # "push"
               /\ [Idle EXCEPT !.step = step, !.before = x].step # "push"
    BY DEF Moved, TypeOK, Job, Idle
  <2>a. {"idle", "read", "create", "sign", "setTtl", "list", "rotate", "optIn", "queue", "close"}
          \subseteq Steps \ {"push"}
    BY DEF Steps
  <2>2. ASSUME NEW e \in Exts, Rotate(t, e) PROVE \E j : Become(t, j) /\ j.step # "push"
    <3> DEFINE i == [task[t] EXCEPT !.todo = @ \ {e}]
    <3>1. At(t, "rotate") /\ (Become(t, Idle) \/ Become(t, i))
      BY <2>2 DEF Rotate, GiveUp, Finish, Store
    <3>2. i.step = "rotate"
      BY <3>1 DEF At, TypeOK, Job
    <3> HIDE DEF i
    <3> QED BY <1>b, <3>1, <3>2
  <2>3. CASE \E e \in Exts : Issue(t, e)
    BY <2>1, <2>a, <2>3 DEF Issue
  <2>4. CASE \E e \in Exts : Approve(t, e) \/ Revoke(t, e)
    BY <1>b, <2>4 DEF Approve, Revoke, Store, Finish
  <2>5. CASE ReadSecret(t) \/ CreateSecret(t)
    BY <1>b, <2>1, <2>a, <2>5 DEF ReadSecret, CreateSecret, Store, Finish
  <2>6. CASE Sign(t) \/ SettingsDone(t)
    BY <1>b, <2>6 DEF Sign, SettingsDone, Finish
  <2>7. CASE ChangeTtl(t) \/ \E k \in tokens : Request(t, k)
    BY <2>1, <2>a, <2>7 DEF ChangeTtl, Request
  <2>8. CASE WriteTtl(t) \/ ListExtensions(t) \/ CheckOptIn(t)
    BY <1>b, <2>1, <2>a, <2>8 DEF WriteTtl, ListExtensions, CheckOptIn, GiveUp, Finish
  <2>9. CASE Lock(t) \/ Close(t)
    BY <1>b, <2>1, <2>a, <2>9 DEF Lock, Close, Finish
  <2> QED BY <1>6, <2>2, <2>3, <2>4, <2>5, <2>6, <2>7, <2>8, <2>9
<1>7. CASE Restart
  <2>1. UNCHANGED <<queue, pushed>> /\ \A u \in Tasks : task'[u] = Idle
    BY <1>7 DEF Restart, rows
  <2> QED BY <1>b, <2>1, QueueKept
<1>8. CASE UNCHANGED vars
  BY <1>8, QueueKept DEF vars, rows, history
<1> QED
  BY <1>1, <1>2, <1>3, <1>4, <1>5, <1>6, <1>7, <1>8 DEF Next

\* handle_mcp_context_push: a context that was written to the queue stays until
\* there are enough later ones, whatever requests, failed statements and restarts
\* come in between, unless a request wrote back a queue that it had read too early
\* or failed to read.
THEOREM QueueAlwaysHasLatest == Spec => []QueueHasLatest
<1>1. Init => TypeOK /\ QueueInv
  <2> SUFFICES ASSUME Init PROVE QueueInv
    BY InitTypeOK
  <2>1. queue = <<>> /\ pushed = <<>> /\ Len(<<>>) = 0 /\ Capacity \in Nat
    BY ExtensionAssumption DEF Init
  <2>2. Sound(queue, Len(pushed))
    BY <2>1 DEF Sound, Ordered, Covers
  <2>3. \A t \in Tasks : ~At(t, "push")
    BY DEF Init, Idle, At
  <2> QED BY <2>2, <2>3 DEF QueueInv
<1>2. TypeOK /\ QueueInv /\ [Next]_vars => (TypeOK /\ QueueInv)'
  BY NextTypeOK, NextQueueInv
<1>3. QueueInv => QueueHasLatest
  BY DEF QueueInv, Sound, Ordered, Covers, QueueHasLatest
<1> QED BY <1>1, <1>2, <1>3, PTL DEF Spec

-----------------------------------------------------------------------------
(***************************************************************************)
(* DevicePairing, for any devices, users, PINs, runs and bounds: nobody is *)
(* signed in on a vault that is not theirs (VaultInv), and a key pair lets *)
(* in one joiner at most (PairInv).                                        *)
(***************************************************************************)

Sending  == {"start", "open", "opened", "finalize", "upload", "store", "stored"}
Entering == {"initialize", "write", "unlock", "save", "enter"}
Joins    == {"join", "claim", "joined", "apply"} \cup Entering

\* What a run has at hand at each of its steps.
Data(r) ==
  /\ r.step # "idle" => r.key \in KeyPairs
  /\ r.step \in {"start", "open"} => r.user \in Users
  /\ (r.step \in Sending => r.role = "initiator") /\ (r.step \in Joins => r.role = "joiner")
  /\ r.step \in {"finalize", "store", "claim", "joined"} => r.seen \in Channels /\ r.seen # None
  /\ r.step = "finalize" => r.seen.joiner \in KeyPairs
  /\ r.step \in {"upload", "store"} => r.payload \in Payloads
  /\ r.step \in Entering \cup {"apply"} => r.payload \in Payloads /\ r.payload # None
  /\ r.step \in Entering => r.key = r.payload.to

TypeInv == PairingTypeOK /\ \A f \in Flows : Data(flow[f])

Put(f, j) == flow' = [flow EXCEPT ![f] = j]

-----------------------------------------------------------------------------
(* Types.                                                                  *)

LEMMA IdleData == IdleFlow \in Flow /\ Data(IdleFlow) /\ IdleFlow.step = "idle"
BY PairingAssumption DEF IdleFlow, Flow, Data, Sending, Joins, Entering, FlowSteps, Roles, Hooks

\* A run whose hook is told something has the same data.
LEMMA HookData ==
  ASSUME NEW r \in Flow, Data(r), NEW h \in Hooks
  PROVE  LET s == [r EXCEPT !.hook = h]
         IN  /\ s \in Flow /\ Data(s)
             /\ s.step = r.step /\ s.role = r.role /\ s.dev = r.dev /\ s.pin = r.pin
             /\ s.key = r.key /\ s.user = r.user /\ s.seen = r.seen /\ s.payload = r.payload
<1> DEFINE s == [r EXCEPT !.hook = h]
<1>1. /\ s \in Flow
      /\ s.step = r.step /\ s.role = r.role /\ s.dev = r.dev /\ s.pin = r.pin
      /\ s.key = r.key /\ s.user = r.user /\ s.seen = r.seen /\ s.payload = r.payload
  BY DEF Flow
<1> HIDE DEF s
<1>2. Data(s)
  BY <1>1 DEF Data
<1> QED BY <1>1, <1>2 DEF s

\* A run that only goes on to another step.
LEMMA StepFields ==
  ASSUME NEW r \in Flow, NEW x \in FlowSteps
  PROVE  LET s == [r EXCEPT !.step = x]
         IN  /\ s \in Flow /\ s.step = x /\ s.role = r.role /\ s.dev = r.dev /\ s.pin = r.pin
             /\ s.key = r.key /\ s.user = r.user /\ s.seen = r.seen /\ s.payload = r.payload
BY DEF Flow

\* What a run is after a step: over, or the same run of the same hook.
Goes(f, j) ==
  /\ j \in Flow /\ Data(j)
  /\ \/ j = IdleFlow
     \/ j.step # "idle" /\ j.role = flow[f].role /\ j.dev = flow[f].dev

\* Every step of a run is its own.
LEMMA StepPuts ==
  ASSUME TypeInv, NEW f \in Flows, Step(f) \/ Lose(f)
  PROVE  ~FlowAt(f, "idle") /\ \E j : Put(f, j) /\ Goes(f, j)
<1> DEFINE r == flow[f]
<1>a. r \in Flow /\ Data(r)
  BY DEF TypeInv, PairingTypeOK
<1>b. /\ channel \in [Pins -> Channels \cup {None}] /\ account \in [Devices -> Users \cup {None}]
      /\ pairing \in [Devices -> Pairings \cup {None}] /\ None \notin Users \cup KeyPairs
  BY PairingAssumption DEF TypeInv, PairingTypeOK
<1>c. ASSUME End(f) PROVE \E j : Put(f, j) /\ Goes(f, j)
  BY <1>c, IdleData DEF End, Put, Goes
<1>d. ASSUME NEW x \in FlowSteps, Goto(f, x), Data([r EXCEPT !.step = x]), x # "idle"
      PROVE  \E j : Put(f, j) /\ Goes(f, j)
  <2> DEFINE j == [r EXCEPT !.step = x]
  <2>1. j \in Flow /\ j.step = x /\ j.role = r.role /\ j.dev = r.dev
    BY <1>a, StepFields
  <2>2. Put(f, j)
    BY <1>d DEF Goto, Put
  <2> QED BY <1>d, <2>1, <2>2 DEF Goes
<1> USE DEF FlowAt, Dev
<1>1. CASE Draw(f)
  <2>1. PICK p \in Pins : flow' = [flow EXCEPT ![f].step = "open", ![f].pin = p]
    BY <1>1 DEF Draw
  <2> DEFINE j == [r EXCEPT !.step = "open", !.pin = p]
  <2>2. /\ j \in Flow /\ j.step = "open" /\ j.role = r.role /\ j.dev = r.dev
        /\ j.key = r.key /\ j.user = r.user
    BY <1>a DEF Flow, FlowSteps
  <2>3. Put(f, j) /\ r.step = "start"
    BY <1>1, <2>1 DEF Draw, Put
  <2> HIDE DEF j
  <2>4. Data(j)
    BY <1>a, <2>2, <2>3 DEF Data, Sending, Joins, Entering
  <2> QED BY <2>2, <2>3, <2>4 DEF Goes
<1>2. CASE Open(f)
  <2>1. Goto(f, "opened") /\ r.step = "open"
    BY <1>2 DEF Open
  <2>2. Data([r EXCEPT !.step = "opened"])
    BY <1>a, <2>1, StepFields DEF Data, Sending, Joins, Entering, FlowSteps
  <2> QED BY <1>d, <2>1, <2>2 DEF FlowSteps
<1>3. CASE Opened(f)
  <2>1. r.step = "opened" /\ (End(f) \/ Goto(f, "poll"))
    BY <1>3 DEF Opened, Continue
  <2>2. Data([r EXCEPT !.step = "poll"])
    BY <1>a, <2>1, StepFields DEF Data, Sending, Joins, Entering, FlowSteps
  <2> QED BY <1>c, <1>d, <2>1, <2>2 DEF FlowSteps
<1>4. CASE PollInitiator(f)
  <2>1. CASE End(f)
    BY <1>4, <1>c, <2>1 DEF PollInitiator
  <2>2. CASE ~End(f)
    <3> DEFINE c == channel[r.pin]
               j == [r EXCEPT !.step = "finalize", !.seen = c]
    <3>1. /\ r.step = "poll" /\ r.role = "initiator" /\ c # None /\ c.joiner # None
          /\ flow' = [flow EXCEPT ![f].step = "finalize", ![f].seen = c]
      BY <1>4, <2>2 DEF PollInitiator
    <3>2. c \in Channels /\ c.joiner \in KeyPairs
      BY <1>a, <1>b, <3>1 DEF Flow, Channels
    <3>3. /\ j \in Flow /\ j.step = "finalize" /\ j.role = r.role /\ j.dev = r.dev
          /\ j.key = r.key /\ j.seen = c
      BY <1>a, <3>2 DEF Flow, FlowSteps
    <3>4. Put(f, j)
      BY <3>1 DEF Put
    <3> HIDE DEF j, c
    <3>5. Data(j)
      BY <1>a, <3>1, <3>2, <3>3 DEF Data, Sending, Joins, Entering
    <3> QED BY <3>1, <3>3, <3>4, <3>5 DEF Goes
  <2> QED BY <2>1, <2>2
<1>5. CASE Finalize(f)
  <2>1. r.step = "finalize" /\ r.dev \in Devices /\ r.role = "initiator"
    BY <1>a, <1>5 DEF Finalize, Data, Sending, Flow
  <2>2. CASE End(f)
    BY <1>c, <2>1, <2>2
  <2>3. CASE ~End(f)
    <3> DEFINE q == [user |-> account[r.dev], from |-> pairing[r.dev].key,
                     to |-> r.seen.joiner, pin |-> r.pin]
               j == [r EXCEPT !.step = "upload", !.user = account[r.dev], !.payload = q]
    <3>1. /\ Holds(r.dev, "initiator", r.pin) /\ account[r.dev] # None
          /\ flow' = [flow EXCEPT ![f].step = "upload", ![f].user = account[r.dev],
                                  ![f].payload = q]
      BY <1>5, <2>3 DEF Finalize
    <3>2. account[r.dev] \in Users /\ pairing[r.dev].key \in KeyPairs /\ r.pin \in Pins
          /\ r.seen.joiner \in KeyPairs
      BY <1>a, <1>b, <2>1, <3>1 DEF Holds, Pairings, Flow, Data
    <3>3. q \in Payloads
      BY <3>2 DEF Payloads
    <3>4. Put(f, j)
      BY <3>1 DEF Put
    <3> HIDE DEF q
    <3>5. /\ j \in Flow /\ j.step = "upload" /\ j.role = r.role /\ j.dev = r.dev
          /\ j.key = r.key /\ j.payload = q
      BY <1>a, <3>2, <3>3 DEF Flow, FlowSteps
    <3> HIDE DEF j
    <3>6. Data(j)
      BY <1>a, <2>1, <3>3, <3>5 DEF Data, Sending, Joins, Entering
    <3> QED BY <2>1, <3>4, <3>5, <3>6 DEF Goes
  <2> QED BY <2>2, <2>3
<1>6. CASE Upload(f)
  <2>1. r.step = "upload"
    BY <1>6 DEF Upload
  <2>2. CASE End(f)
    BY <1>c, <2>1, <2>2
  <2>3. CASE ~End(f)
    <3> DEFINE c == channel[r.pin]
               j == [r EXCEPT !.step = "store", !.seen = c]
    <3>1. c # None /\ flow' = [flow EXCEPT ![f].step = "store", ![f].seen = c]
      BY <1>6, <2>3 DEF Upload
    <3>2. c \in Channels
      BY <1>a, <1>b, <3>1 DEF Flow
    <3>3. /\ j \in Flow /\ j.step = "store" /\ j.role = r.role /\ j.dev = r.dev
          /\ j.key = r.key /\ j.seen = c /\ j.payload = r.payload
      BY <1>a, <3>2 DEF Flow, FlowSteps
    <3>4. Put(f, j)
      BY <3>1 DEF Put
    <3> HIDE DEF j, c
    <3>5. Data(j)
      BY <1>a, <2>1, <3>1, <3>2, <3>3 DEF Data, Sending, Joins, Entering
    <3> QED BY <2>1, <3>3, <3>4, <3>5 DEF Goes
  <2> QED BY <2>2, <2>3
<1>7. CASE FlowStore(f)
  <2>1. Goto(f, "stored") /\ r.step = "store"
    BY <1>7 DEF FlowStore
  <2>2. Data([r EXCEPT !.step = "stored"])
    BY <1>a, <2>1, StepFields DEF Data, Sending, Joins, Entering, FlowSteps
  <2> QED BY <1>d, <2>1, <2>2 DEF FlowSteps
<1>8. CASE Stored(f)
  BY <1>8, <1>c DEF Stored
<1>9. CASE Claim(f)
  <2>1. r.step = "join"
    BY <1>9 DEF Claim
  <2>2. CASE End(f)
    BY <1>c, <2>1, <2>2
  <2>3. CASE ~End(f)
    <3> DEFINE c == channel[r.pin]
               j == [r EXCEPT !.step = "claim", !.seen = c]
    <3>1. c # None /\ flow' = [flow EXCEPT ![f].step = "claim", ![f].seen = c]
      BY <1>9, <2>3 DEF Claim
    <3>2. c \in Channels
      BY <1>a, <1>b, <3>1 DEF Flow
    <3>3. /\ j \in Flow /\ j.step = "claim" /\ j.role = r.role /\ j.dev = r.dev
          /\ j.key = r.key /\ j.seen = c
      BY <1>a, <3>2 DEF Flow, FlowSteps
    <3>4. Put(f, j)
      BY <3>1 DEF Put
    <3> HIDE DEF j, c
    <3>5. Data(j)
      BY <1>a, <2>1, <3>1, <3>2, <3>3 DEF Data, Sending, Joins, Entering
    <3> QED BY <2>1, <3>3, <3>4, <3>5 DEF Goes
  <2> QED BY <2>2, <2>3
<1>10. CASE Claimed(f)
  <2>1. Goto(f, "joined") /\ r.step = "claim"
    BY <1>10 DEF Claimed
  <2>2. Data([r EXCEPT !.step = "joined"])
    BY <1>a, <2>1, StepFields DEF Data, Sending, Joins, Entering, FlowSteps
  <2> QED BY <1>d, <2>1, <2>2 DEF FlowSteps
<1>11. CASE Joined(f)
  <2>1. r.step = "joined" /\ r.seen \in Channels /\ r.role = "joiner"
    BY <1>a, <1>11 DEF Joined, Data, Joins
  <2>2. CASE End(f)
    BY <1>c, <2>1, <2>2
  <2>3. CASE ~End(f)
    <3> DEFINE x == IF r.seen.payload = None THEN "poll" ELSE "apply"
               j == [r EXCEPT !.payload = r.seen.payload, !.step = x]
    <3>1. flow' = [flow EXCEPT ![f].payload = r.seen.payload, ![f].step = x]
      BY <1>11, <2>3 DEF Joined
    <3>2. r.seen.payload \in Payloads \cup {None}
      BY <2>1 DEF Channels
    <3>3. x \in {"poll", "apply"} /\ x \in FlowSteps /\ (x = "apply" => r.seen.payload # None)
      BY DEF FlowSteps
    <3>4. Put(f, j)
      BY <3>1 DEF Put
    <3> HIDE DEF x
    <3>5. /\ j \in Flow /\ j.step = x /\ j.role = r.role /\ j.dev = r.dev
          /\ j.key = r.key /\ j.payload = r.seen.payload
      BY <1>a, <3>2, <3>3 DEF Flow
    <3> HIDE DEF j
    <3>6. Data(j)
      BY <1>a, <2>1, <3>2, <3>3, <3>5 DEF Data, Sending, Joins, Entering
    <3> QED BY <2>1, <3>3, <3>4, <3>5, <3>6 DEF Goes
  <2> QED BY <2>2, <2>3
<1>12. CASE PollJoiner(f)
  <2>1. r.step = "poll" /\ r.role = "joiner"
    BY <1>12 DEF PollJoiner
  <2>2. CASE End(f)
    BY <1>c, <2>1, <2>2
  <2>3. CASE ~End(f)
    <3> DEFINE p == pin[r.dev]
               q == channel[p].payload
               j == [r EXCEPT !.step = "apply", !.pin = p, !.payload = q]
    <3>1. /\ Holds(r.dev, "joiner", p) /\ channel[p] # None /\ q # None
          /\ flow' = [flow EXCEPT ![f].step = "apply", ![f].pin = p, ![f].payload = q]
      BY <1>12, <2>3 DEF PollJoiner
    <3>2. r.dev \in Devices
      BY <1>a DEF Flow
    <3>3. p \in Pins
      BY <1>b, <3>1, <3>2 DEF Holds, Pairings
    <3>4. q \in Payloads
      BY <1>b, <3>1, <3>3 DEF Channels
    <3>5. Put(f, j)
      BY <3>1 DEF Put
    <3> HIDE DEF q, p
    <3>6. /\ j \in Flow /\ j.step = "apply" /\ j.role = r.role /\ j.dev = r.dev
          /\ j.key = r.key /\ j.payload = q
      BY <1>a, <3>3, <3>4 DEF Flow, FlowSteps
    <3> HIDE DEF j
    <3>7. Data(j)
      BY <1>a, <2>1, <3>1, <3>4, <3>6 DEF Data, Sending, Joins, Entering
    <3> QED BY <2>1, <3>5, <3>6, <3>7 DEF Goes
  <2> QED BY <2>2, <2>3
<1>13. CASE Apply(f)
  <2>1. r.step = "apply" /\ r.role = "joiner" /\ r.payload \in Payloads /\ r.payload # None
    BY <1>a, <1>13 DEF Apply, Data, Joins
  <2>2. CASE End(f)
    BY <1>c, <2>1, <2>2
  <2>3. CASE ~End(f)
    <3> DEFINE k == pairing[r.dev].key
               j == [r EXCEPT !.step = "initialize", !.key = k]
    <3>1. /\ Holds(r.dev, "joiner", r.pin) /\ Opens(r.dev, r.payload)
          /\ flow' = [flow EXCEPT ![f].step = "initialize", ![f].key = k]
      BY <1>13, <2>3 DEF Apply
    <3>2. k \in KeyPairs /\ k = r.payload.to
      BY <1>a, <1>b, <3>1 DEF Holds, Opens, Pairings, Flow
    <3>3. Put(f, j)
      BY <3>1 DEF Put
    <3> HIDE DEF k
    <3>4. /\ j \in Flow /\ j.step = "initialize" /\ j.role = r.role /\ j.dev = r.dev
          /\ j.key = k /\ j.payload = r.payload
      BY <1>a, <3>2 DEF Flow, FlowSteps
    <3> HIDE DEF j
    <3>5. Data(j)
      BY <1>a, <2>1, <3>2, <3>4 DEF Data, Sending, Joins, Entering
    <3> QED BY <2>1, <3>3, <3>4, <3>5 DEF Goes
  <2> QED BY <2>2, <2>3
<1>14. CASE Initialize(f) \/ Write(f) \/ FlowUnlock(f) \/ Save(f) \/ Enter(f)
  <2>1. r.step \in Entering
    BY <1>14 DEF Initialize, Write, FlowUnlock, Save, Enter, Entering
  <2>2. End(f) \/ \E x \in {"write", "unlock", "save", "enter"} : Goto(f, x)
    BY <1>14 DEF Initialize, Write, FlowUnlock, Save, Enter
  <2>3. \A x \in {"write", "unlock", "save", "enter"} : Data([r EXCEPT !.step = x])
    BY <1>a, <2>1, StepFields DEF Data, Sending, Joins, Entering, FlowSteps
  <2> QED BY <1>c, <1>d, <2>1, <2>2, <2>3 DEF FlowSteps, Entering
<1>15. CASE Lose(f)
  BY <1>15, <1>c DEF Lose
<1> QED
  BY <1>1, <1>2, <1>3, <1>4, <1>5, <1>6, <1>7, <1>8, <1>9, <1>10, <1>11, <1>12, <1>13, <1>14,
     <1>15 DEF Step

\* What a step of anything but a run makes of the runs: some are over, the hooks
\* of some are told something, and one may begin.
Same(r, s) ==
  /\ s.step = r.step /\ s.role = r.role /\ s.dev = r.dev /\ s.pin = r.pin
  /\ s.key = r.key /\ s.user = r.user /\ s.seen = r.seen /\ s.payload = r.payload

Left == \A f \in Flows : flow'[f] = IdleFlow \/ Same(flow[f], flow'[f])

Begun(f, d, p, role, step) ==
  /\ FlowAt(f, "idle") /\ drawn' = drawn + 1 /\ drawn + 1 \in KeyPairs
  /\ LET r == flow'[f]
     IN  /\ r.step = step /\ r.role = role /\ r.dev = d /\ r.pin = p /\ r.key = drawn + 1
         /\ r.user = account[d] /\ r.seen = None /\ r.payload = None
  /\ \A g \in Flows \ {f} : Same(flow[g], flow'[g])

FlowsTyped == flow' \in [Flows -> Flow] /\ \A f \in Flows : Data(flow'[f])

LEMMA BeginFlows ==
  ASSUME TypeInv, NEW f \in Flows, NEW d \in Devices, NEW p \in Pins, NEW role \in Roles,
         NEW step \in {"start", "join"}, NEW again,
         step = "start" => role = "initiator" /\ account[d] \in Users,
         step = "join" => role = "joiner",
         BeginFlow(f, d, p, role, step, again)
  PROVE  FlowsTyped /\ Begun(f, d, p, role, step) /\ drawn' \in 0..MaxKeys
<1> DEFINE n == [IdleFlow EXCEPT !.step = step, !.role = role, !.dev = d, !.pin = p,
                                 !.key = drawn + 1, !.user = account[d]]
           h(g) == [flow[g] EXCEPT !.hook = "on"]
           m(g) == IF g = f THEN n ELSE IF g \in again THEN h(g) ELSE flow[g]
<1>1. /\ FlowAt(f, "idle") /\ drawn < pairSetup.keys /\ drawn' = drawn + 1
      /\ flow' = [g \in Flows |-> m(g)]
  BY DEF BeginFlow
<1>2. drawn \in Nat /\ MaxKeys \in Nat /\ pairSetup.keys \in 0..MaxKeys
      /\ flow \in [Flows -> Flow] /\ account[d] \in Users \cup {None}
      /\ \A g \in Flows : Data(flow[g])
  BY PairingAssumption DEF TypeInv, PairingTypeOK
<1>3. drawn + 1 \in KeyPairs /\ drawn' \in 0..MaxKeys
  BY <1>1, <1>2 DEF KeyPairs
<1>4. /\ n \in Flow /\ n.step = step /\ n.role = role /\ n.dev = d /\ n.pin = p
      /\ n.key = drawn + 1 /\ n.user = account[d]
  BY <1>2, <1>3, IdleData DEF Flow, FlowSteps
<1>5. n.seen = None /\ n.payload = None
  BY DEF IdleFlow
<1> HIDE DEF n
<1>6. Data(n)
  BY <1>3, <1>4 DEF Data, Sending, Joins, Entering
<1>7. \A g \in Flows : h(g) \in Flow /\ Data(h(g)) /\ Same(flow[g], h(g))
  BY <1>2, HookData DEF Same, Hooks
<1> HIDE DEF h
<1>8. \A g \in Flows : m(g) \in Flow /\ Data(m(g)) /\ flow'[g] = m(g)
  BY <1>1, <1>2, <1>4, <1>6, <1>7
<1>9. \A g \in Flows \ {f} : Same(flow[g], flow'[g])
  BY <1>7, <1>8 DEF Same
<1>10. flow'[f] = n
  BY <1>8
<1>11. FlowsTyped
  BY <1>1, <1>8 DEF FlowsTyped
<1>12. Begun(f, d, p, role, step)
  BY <1>1, <1>3, <1>4, <1>5, <1>9, <1>10 DEF Begun
<1> QED BY <1>3, <1>11, <1>12

\* Cancel, LockVault and RestartDevice, and what leaves the runs alone.
LEMMA OtherFlows ==
  ASSUME TypeInv,
         \/ \E d \in Devices : (\E r \in Roles : Cancel(d, r)) \/ LockVault(d) \/ RestartDevice(d)
         \/ UNCHANGED flow
  PROVE  FlowsTyped /\ Left
<1>1. flow \in [Flows -> Flow] /\ \A g \in Flows : Data(flow[g])
  BY DEF TypeInv, PairingTypeOK
<1> DEFINE h(g, x) == [flow[g] EXCEPT !.hook = x]
<1>2. \A g \in Flows, x \in Hooks : h(g, x) \in Flow /\ Data(h(g, x)) /\ Same(flow[g], h(g, x))
  BY <1>1, HookData DEF Same
<1> HIDE DEF h
<1>3. ASSUME flow' = [g \in Flows |-> flow'[g]],
             \A g \in Flows : flow'[g] \in {IdleFlow, flow[g], h(g, "cancelled"), h(g, "left")}
      PROVE  FlowsTyped /\ Left
  <2>1. \A g \in Flows : /\ flow'[g] \in Flow /\ Data(flow'[g])
                         /\ flow'[g] = IdleFlow \/ Same(flow[g], flow'[g])
    BY <1>1, <1>2, <1>3, IdleData DEF Hooks, Same
  <2> QED BY <1>3, <2>1 DEF FlowsTyped, Left
<1>4. ASSUME NEW d \in Devices, NEW r \in Roles, Cancel(d, r) PROVE FlowsTyped /\ Left
  <2>1. PICK timer : flow' = [f \in Flows |->
         IF f \in timer THEN IdleFlow
         ELSE IF f \in Running(d, r) /\ flow[f].hook = "on"
           THEN [flow[f] EXCEPT !.hook = "cancelled"] ELSE flow[f]]
    BY <1>4 DEF Cancel
  <2> QED BY <1>3, <2>1 DEF h
<1>5. ASSUME NEW d \in Devices, LockVault(d) PROVE FlowsTyped /\ Left
  <2>1. PICK timers : flow' = [f \in Flows |->
         IF f \in timers THEN IdleFlow
         ELSE IF f \in Running(d, "initiator") /\ flow[f].hook = "on"
           THEN [flow[f] EXCEPT !.hook = "left"] ELSE flow[f]]
    BY <1>5 DEF LockVault
  <2> QED BY <1>3, <2>1 DEF h
<1>6. ASSUME NEW d \in Devices, RestartDevice(d) PROVE FlowsTyped /\ Left
  <2>1. flow' = [f \in Flows |-> IF Dev(f) = d THEN IdleFlow ELSE flow[f]]
    BY <1>6 DEF RestartDevice
  <2> QED BY <1>3, <2>1
<1>7. ASSUME UNCHANGED flow PROVE FlowsTyped /\ Left
  BY <1>1, <1>7 DEF FlowsTyped, Left, Same
<1> QED BY <1>4, <1>5, <1>6, <1>7

\* A step of a run leaves the other runs alone, and is over or goes on.
LEMMA StepFlows ==
  ASSUME TypeInv, NEW f \in Flows, Step(f) \/ Lose(f)
  PROVE  /\ FlowsTyped /\ ~FlowAt(f, "idle") /\ \A g \in Flows \ {f} : flow'[g] = flow[g]
         /\ \/ flow'[f] = IdleFlow
            \/ ~FlowAt(f, "idle")' /\ flow'[f].role = flow[f].role /\ flow'[f].dev = flow[f].dev
<1>1. flow \in [Flows -> Flow] /\ \A g \in Flows : Data(flow[g])
  BY DEF TypeInv, PairingTypeOK
<1>2. PICK j : Put(f, j) /\ Goes(f, j)
  BY StepPuts
<1>3. flow'[f] = j /\ \A g \in Flows \ {f} : flow'[g] = flow[g]
  BY <1>1, <1>2 DEF Put
<1>4. FlowsTyped
  BY <1>1, <1>2, <1>3 DEF FlowsTyped, Put, Goes
<1> QED BY <1>2, <1>3, <1>4, StepPuts DEF Goes, FlowAt

\* Fields of a function after an EXCEPT.
LEMMA Typed ==
  ASSUME NEW D, NEW R, NEW m \in [D -> R], NEW d \in D, NEW x \in R
  PROVE  [m EXCEPT ![d] = x] \in [D -> R]
OBVIOUS

LEMMA StepTypes ==
  ASSUME TypeInv, NEW f \in Flows, Step(f) \/ Lose(f)
  PROVE  PairingTypeOK'
<1> DEFINE r == flow[f]
<1>a. r \in Flow /\ Data(r) /\ r.dev \in Devices /\ r.pin \in Pins
  BY DEF TypeInv, PairingTypeOK, Flow
<1>b. PairingTypeOK /\ flow' \in [Flows -> Flow]
  BY StepFlows DEF TypeInv, FlowsTyped
<1>c. pairSetup.faults \in Nat /\ pairSetup.edits \in Nat
  BY <1>b, PairingAssumption DEF PairingTypeOK
<1>d. ASSUME PairFault PROVE pairFaults' \in 0..pairSetup.faults /\ edits' = edits
  BY <1>b, <1>c, <1>d DEF PairFault, PairingTypeOK
<1>e. ASSUME NEW c \in Channels \cup {None}, channel' = [channel EXCEPT ![r.pin] = c]
      PROVE  channel' \in [Pins -> Channels \cup {None}]
  BY <1>a, <1>b, <1>e, Typed DEF PairingTypeOK
<1>f. ASSUME NEW q \in Pairings \cup {None}, pairing' = [pairing EXCEPT ![r.dev] = q]
      PROVE  pairing' \in [Devices -> Pairings \cup {None}]
  BY <1>a, <1>b, <1>f, Typed DEF PairingTypeOK
<1>g. ASSUME NEW m \in [Devices -> Users \cup {None}], NEW u \in Users \cup {None}
      PROVE  [m EXCEPT ![r.dev] = u] \in [Devices -> Users \cup {None}]
  BY <1>a, <1>g, Typed
<1> USE DEF FlowAt, Dev
<1>1. CASE Draw(f)
  <2>1. doubled' \subseteq KeyPairs
    <3>1. r.step = "start"
      BY <1>1 DEF Draw
    <3>2. \A g \in Flows : ~FlowAt(g, "idle") => flow[g].key \in KeyPairs
      BY DEF TypeInv, Data
    <3>3. PICK p \in Pins :
            LET old == {g \in Running(Dev(f), "initiator") : ~FlowAt(g, "start")}
                met == {g \in old : flow[g].pin = p}
            IN  doubled' = IF met = {} THEN doubled
                           ELSE doubled \cup {flow[g].key : g \in met \cup {f}}
      BY <1>1 DEF Draw
    <3> QED BY <1>b, <3>1, <3>2, <3>3 DEF PairingTypeOK, Running
  <2> QED BY <1>1, <1>b, <2>1 DEF Draw, PairingTypeOK, device, counters
<1>2. CASE Open(f)
  <2> DEFINE c == [user |-> r.user, initiator |-> r.key, joiner |-> None, payload |-> None]
  <2>1. c \in Channels /\ channel' = [channel EXCEPT ![r.pin] = c]
    BY <1>2, <1>a DEF Open, Data, Channels
  <2> HIDE DEF c
  <2> QED BY <1>2, <1>b, <1>e, <2>1 DEF Open, PairingTypeOK, device, counters, pairHistory
<1>3. CASE Opened(f)
  <2> DEFINE q == [role |-> "initiator", pin |-> r.pin, key |-> r.key, peer |-> None]
  <2>1. q \in Pairings /\ pairing' = [pairing EXCEPT ![r.dev] = q]
    BY <1>3, <1>a DEF Opened, Data, Pairings, Roles
  <2> HIDE DEF q
  <2> QED BY <1>3, <1>b, <1>f, <2>1 DEF Opened, PairingTypeOK, device, counters, pairHistory
<1>4. CASE PollInitiator(f) \/ Finalize(f) \/ Upload(f) \/ Claim(f) \/ PollJoiner(f) \/ Apply(f)
  BY <1>4, <1>b DEF PollInitiator, Finalize, Upload, Claim, PollJoiner, Apply, PairingTypeOK, device,
       counters, pairHistory
<1>5. CASE FlowStore(f)
  <2> DEFINE c == [r.seen EXCEPT !.payload = r.payload]
  <2>1. c \in Channels /\ channel' = [channel EXCEPT ![r.pin] = c]
    BY <1>5, <1>a DEF FlowStore, Data, Channels
  <2> HIDE DEF c
  <2> QED BY <1>5, <1>b, <1>e, <2>1 DEF FlowStore, PairingTypeOK, device, counters, pairHistory
<1>6. CASE Stored(f)
  BY <1>6, <1>b, <1>f DEF Stored, PairingTypeOK, device, counters, pairHistory
<1>7. CASE Claimed(f)
  <2> DEFINE c == [r.seen EXCEPT !.joiner = r.key]
  <2>1. c \in Channels /\ channel' = [channel EXCEPT ![r.pin] = c]
    BY <1>7, <1>a DEF Claimed, Data, Channels
  <2> HIDE DEF c
  <2> QED BY <1>7, <1>b, <1>e, <2>1 DEF Claimed, PairingTypeOK, device, counters, pairHistory
<1>8. CASE Joined(f)
  <2> DEFINE q == [role |-> "joiner", pin |-> r.pin, key |-> r.key, peer |-> r.seen.initiator]
  <2>1. q \in Pairings /\ pairing' = [pairing EXCEPT ![r.dev] = q]
    BY <1>8, <1>a DEF Joined, Data, Pairings, Channels, Roles
  <2> HIDE DEF q
  <2> QED BY <1>8, <1>b, <1>f, <2>1 DEF Joined, PairingTypeOK, device, counters, pairHistory
<1>9. CASE Initialize(f)
  BY <1>9, <1>a, <1>b DEF Initialize, PairingTypeOK, device, counters
<1>10. ASSUME r.step \in Entering PROVE r.payload.user \in Users /\ r.payload.from \in KeyPairs
                                        /\ r.payload.to \in KeyPairs /\ r.key = r.payload.to
  BY <1>10, <1>a DEF Data, Payloads
<1>11. CASE Write(f)
  <2>1. r.payload.user \in Users
    BY <1>10, <1>11 DEF Write, Entering
  <2>2. vault' \in [Devices -> Users \cup {None}] /\ session' \in [Devices -> Users \cup {None}]
    BY <1>11, <1>b, <1>g, <2>1 DEF Write, PairingTypeOK
  <2> QED BY <1>11, <1>b, <2>2 DEF Write, PairingTypeOK, counters, pairHistory
<1>12. CASE FlowUnlock(f)
  <2>1. r.payload.user \in Users
    BY <1>10, <1>12 DEF FlowUnlock, Entering
  <2>2. phrase' \in [Devices -> Users \cup {None}]
    BY <1>12, <1>b, <1>g, <2>1 DEF FlowUnlock, PairingTypeOK
  <2> QED BY <1>12, <1>b, <2>2 DEF FlowUnlock, PairingTypeOK, counters, pairHistory
<1>13. CASE Save(f)
  <2>1. r.payload.user \in Users
    BY <1>10, <1>13 DEF Save, Entering
  <2>2. session' \in [Devices -> Users \cup {None}]
    BY <1>13, <1>b, <1>g, <2>1 DEF Save, PairingTypeOK
  <2>3. pairFaults' \in 0..pairSetup.faults /\ edits' \in 0..pairSetup.edits
    BY <1>13, <1>b, <1>d DEF Save, PairingTypeOK, counters
  <2> QED BY <1>13, <1>b, <2>2, <2>3 DEF Save, PairingTypeOK, pairHistory
<1>14. CASE Enter(f)
  <2>1. r.payload.user \in Users /\ r.payload.from \in KeyPairs /\ r.key \in KeyPairs
    BY <1>10, <1>14 DEF Enter, Entering
  <2>2. account' \in [Devices -> Users \cup {None}]
    BY <1>14, <1>b, <1>g, <2>1 DEF Enter, PairingTypeOK
  <2>3. pairing' \in [Devices -> Pairings \cup {None}]
    BY <1>14, <1>f DEF Enter
  <2>4. entered' \in [KeyPairs -> SUBSET KeyPairs]
    BY <1>14, <1>b, <2>1 DEF Enter, PairingTypeOK
  <2> QED BY <1>14, <1>b, <2>2, <2>3, <2>4 DEF Enter, PairingTypeOK, counters
<1>15. CASE Lose(f)
  BY <1>15, <1>b, <1>d DEF Lose, PairingTypeOK, device, pairHistory
<1> QED
  BY <1>1, <1>2, <1>3, <1>4, <1>5, <1>6, <1>7, <1>8, <1>9, <1>11, <1>12, <1>13, <1>14, <1>15
     DEF Step

\* The kinds of steps.
Starts(f, d) == Start(f, d) /\ Begun(f, d, IdleFlow.pin, "initiator", "start")
JoinsIn(f, d, p) == Join(f, d, p) /\ Begun(f, d, p, "joiner", "join")
Beside ==
  \/ \E d \in Devices : \/ LockVault(d) \/ UnlockVault(d) \/ RestartDevice(d)
                        \/ \E r \in Roles : Cancel(d, r)
  \/ \E p \in Pins : Expire(p)

LEMMA StartTypes ==
  ASSUME TypeInv, NEW f \in Flows, NEW d \in Devices, Start(f, d)
  PROVE  TypeInv' /\ Starts(f, d)
<1>1. BeginFlow(f, d, IdleFlow.pin, "initiator", "start", {}) /\ account[d] \in Users
  BY DEF Start, TypeInv, PairingTypeOK
<1>2. IdleFlow.pin \in Pins
  BY IdleData DEF Flow
<1>3. FlowsTyped /\ Begun(f, d, IdleFlow.pin, "initiator", "start") /\ drawn' \in 0..MaxKeys
  BY <1>1, <1>2, BeginFlows DEF Roles
<1> QED BY <1>3 DEF Start, Starts, TypeInv, PairingTypeOK, FlowsTyped, device, counters, pairHistory

LEMMA JoinTypes ==
  ASSUME TypeInv, NEW f \in Flows, NEW d \in Devices, NEW p \in Pins, Join(f, d, p)
  PROVE  TypeInv' /\ JoinsIn(f, d, p)
<1>1. BeginFlow(f, d, p, "joiner", "join", Running(d, "joiner"))
  BY DEF Join
<1>2. FlowsTyped /\ Begun(f, d, p, "joiner", "join") /\ drawn' \in 0..MaxKeys
  BY <1>1, BeginFlows DEF Roles
<1> QED BY <1>2 DEF Join, JoinsIn, TypeInv, PairingTypeOK, FlowsTyped, device, counters, pairHistory

LEMMA BesideTypes == TypeInv /\ Beside => TypeInv' /\ Left
<1> SUFFICES ASSUME TypeInv, Beside PROVE TypeInv' /\ Left
  OBVIOUS
<1>1. FlowsTyped /\ Left
  BY OtherFlows DEF Beside, UnlockVault, Expire
<1>2. pairSetup.edits \in Nat
  BY PairingAssumption DEF TypeInv, PairingTypeOK
<1>3. ASSUME Edit PROVE pairFaults' \in 0..pairSetup.faults /\ edits' \in 0..pairSetup.edits
  BY <1>2, <1>3 DEF Edit, TypeInv, PairingTypeOK
<1>a. PairingTypeOK
  BY DEF TypeInv
<1>4. ASSUME NEW d \in Devices, LockVault(d) PROVE PairingTypeOK'
  BY <1>a, <1>1, <1>3, <1>4 DEF LockVault, PairingTypeOK, FlowsTyped, pairHistory
<1>5. ASSUME NEW d \in Devices, UnlockVault(d) PROVE PairingTypeOK'
  BY <1>a, <1>1, <1>3, <1>5 DEF UnlockVault, PairingTypeOK, FlowsTyped, pairHistory
<1>6. ASSUME NEW d \in Devices, RestartDevice(d) PROVE PairingTypeOK'
  BY <1>a, <1>1, <1>3, <1>6 DEF RestartDevice, PairingTypeOK, FlowsTyped, pairHistory
<1>7. ASSUME NEW d \in Devices, NEW r \in Roles, Cancel(d, r) PROVE PairingTypeOK'
  BY <1>a, <1>1, <1>3, <1>7 DEF Cancel, PairingTypeOK, FlowsTyped, device, pairHistory
<1>8. ASSUME NEW p \in Pins, Expire(p) PROVE PairingTypeOK'
  BY <1>a, <1>1, <1>3, <1>8 DEF Expire, PairingTypeOK, FlowsTyped, device, pairHistory
<1> QED BY <1>1, <1>4, <1>5, <1>6, <1>7, <1>8 DEF Beside, TypeInv, FlowsTyped

LEMMA NextKinds ==
  PairingNext => \/ \E f \in Flows, d \in Devices : Start(f, d) \/ \E p \in Pins : Join(f, d, p)
                 \/ \E f \in Flows : Step(f) \/ Lose(f)
                 \/ Beside
BY DEF PairingNext, Beside

LEMMA InitTypeInv == PairingInit => TypeInv
<1> SUFFICES ASSUME PairingInit PROVE TypeInv
  OBVIOUS
<1>1. pairSetup \in Setups /\ pairSetup.users \in [Devices -> Users \cup {None}]
      /\ 0 \in 0..pairSetup.faults /\ 0 \in 0..pairSetup.edits /\ 0 \in 0..MaxKeys
  BY PairingAssumption DEF PairingInit
<1>2. flow = [f \in Flows |-> IdleFlow]
  BY DEF PairingInit
<1>3. flow \in [Flows -> Flow] /\ \A f \in Flows : Data(flow[f])
  BY <1>2, IdleData
<1> QED BY <1>1, <1>3 DEF PairingInit, TypeInv, PairingTypeOK

LEMMA NextTypeInv == TypeInv /\ [PairingNext]_pairVars => TypeInv'
<1> SUFFICES ASSUME TypeInv, [PairingNext]_pairVars PROVE TypeInv'
  OBVIOUS
<1>1. ASSUME NEW f \in Flows, Step(f) \/ Lose(f) PROVE TypeInv'
  BY <1>1, StepFlows, StepTypes DEF TypeInv, FlowsTyped
<1>2. CASE UNCHANGED pairVars
  BY <1>2 DEF TypeInv, PairingTypeOK, pairVars, device, counters, pairHistory
<1> QED BY <1>1, <1>2, NextKinds, StartTypes, JoinTypes, BesideTypes

\* Every value has its type, and a run has at hand what its step needs.
THEOREM PairingTyped == PairingSpec => []PairingTypeOK
<1>1. TypeInv => PairingTypeOK
  BY DEF TypeInv
<1> QED BY <1>1, InitTypeInv, NextTypeInv, PTL DEF PairingSpec

-----------------------------------------------------------------------------
(* Nobody is signed in on a vault that is not theirs.                      *)

\* A device without a vault has no account and at most one run about to write
\* one; the session is of the vault's user, and so is what runs go on with.
VaultOf(d) ==
  /\ vault[d] = None => account[d] = None
  /\ account[d] # None => vault[d] = account[d] /\ session[d] = account[d]
  /\ session[d] \in {None, vault[d]}

RunOf(f, d) ==
  /\ FlowAt(f, "write") => vault[d] = None
  /\ FlowAt(f, "save") => vault[d] = flow[f].payload.user
  /\ FlowAt(f, "enter") => vault[d] = flow[f].payload.user /\ session[d] = flow[f].payload.user

LoneWriter(d) ==
  \A f, g \in Flows : Dev(f) = d /\ Dev(g) = d /\ FlowAt(f, "write") /\ FlowAt(g, "write") => f = g

VaultInv ==
  \A d \in Devices \ clashed :
    VaultOf(d) /\ LoneWriter(d) /\ \A f \in Flows : Dev(f) = d => RunOf(f, d)

Writers == {"write", "save", "enter"}

\* Runs that are over, go on elsewhere or have begun do not matter.
LEMMA VaultStays ==
  ASSUME TypeInv, VaultInv, UNCHANGED <<vault, session>>, clashed \subseteq clashed',
         \A d \in Devices : account'[d] \in {account[d], None, session[d]},
         \A f \in Flows : flow'[f].step \in Writers => Same(flow[f], flow'[f])
  PROVE  VaultInv'
<1> SUFFICES ASSUME NEW d \in Devices, d \notin clashed'
             PROVE  /\ VaultOf(d)' /\ LoneWriter(d)'
                    /\ \A f \in Flows : Dev(f)' = d => RunOf(f, d)'
  BY DEF VaultInv
<1>1. VaultOf(d) /\ LoneWriter(d) /\ \A f \in Flows : Dev(f) = d => RunOf(f, d)
  BY DEF VaultInv
<1>2. VaultOf(d)'
  BY <1>1 DEF VaultOf
<1>3. LoneWriter(d)'
  BY <1>1 DEF LoneWriter, Same, Writers, FlowAt, Dev
<1>4. ASSUME NEW f \in Flows, Dev(f)' = d PROVE RunOf(f, d)'
  BY <1>1, <1>4 DEF RunOf, Same, Writers, FlowAt, Dev
<1> QED BY <1>2, <1>3, <1>4

\* Which step comes next.
LEMMA NextStep ==
  ASSUME TypeInv, NEW f \in Flows
  PROVE  LET x == flow'[f].step IN
         /\ Draw(f) => x = "open"
         /\ Open(f) => x = "opened"
         /\ Opened(f) => x \in {"idle", "poll"}
         /\ PollInitiator(f) => x \in {"idle", "finalize"}
         /\ Finalize(f) => x \in {"idle", "upload"}
         /\ Upload(f) => x \in {"idle", "store"}
         /\ FlowStore(f) => x = "stored"
         /\ Claim(f) => x \in {"idle", "claim"}
         /\ Claimed(f) => x = "joined"
         /\ Joined(f) => x \in {"idle", "poll", "apply"}
         /\ PollJoiner(f) => x \in {"idle", "apply"}
         /\ Apply(f) => x \in {"idle", "initialize"}
         /\ Stored(f) \/ Enter(f) \/ Lose(f) => x = "idle"
<1>1. flow \in [Flows -> Flow] /\ flow[f] \in Flow
  BY DEF TypeInv, PairingTypeOK
<1>2. End(f) => flow'[f].step = "idle"
  BY <1>1, IdleData DEF End
<1>3. \A x \in FlowSteps : Goto(f, x) => flow'[f].step = x
  BY <1>1, StepFields DEF Goto
<1>4. Draw(f) => flow'[f].step = "open"
  BY <1>1 DEF Draw, Flow
<1>5. Open(f) \/ FlowStore(f) \/ Claimed(f) =>
        (Open(f) => Goto(f, "opened")) /\ (FlowStore(f) => Goto(f, "stored"))
        /\ (Claimed(f) => Goto(f, "joined"))
  BY DEF Open, FlowStore, Claimed
<1>6. Opened(f) => End(f) \/ Goto(f, "poll")
  BY DEF Opened, Continue
<1>7. PollInitiator(f) => flow'[f].step \in {"idle", "finalize"}
  BY <1>1, <1>2 DEF PollInitiator, Flow
<1>8. Finalize(f) => flow'[f].step \in {"idle", "upload"}
  <2>1. SUFFICES ASSUME NEW u, NEW q,
                        flow' = [flow EXCEPT ![f].step = "upload", ![f].user = u, ![f].payload = q]
                 PROVE  flow'[f].step = "upload"
    BY <1>2 DEF Finalize
  <2> QED BY <1>1, <2>1 DEF Flow
<1>9. Upload(f) => flow'[f].step \in {"idle", "store"}
  BY <1>1, <1>2 DEF Upload, Flow
<1>10. Claim(f) => flow'[f].step \in {"idle", "claim"}
  BY <1>1, <1>2 DEF Claim, Flow
<1>11. Joined(f) => flow'[f].step \in {"idle", "poll", "apply"}
  BY <1>1, <1>2 DEF Joined, Flow
<1>12. PollJoiner(f) => flow'[f].step \in {"idle", "apply"}
  BY <1>1, <1>2 DEF PollJoiner, Flow
<1>13. Apply(f) => flow'[f].step \in {"idle", "initialize"}
  BY <1>1, <1>2 DEF Apply, Flow
<1>14. Stored(f) \/ Enter(f) \/ Lose(f) => End(f)
  BY DEF Stored, Enter, Lose
<1> QED
  BY <1>2, <1>3, <1>4, <1>5, <1>6, <1>7, <1>8, <1>9, <1>10, <1>11, <1>12, <1>13, <1>14
     DEF FlowSteps

LEMMA VaultSteps ==
  ASSUME TypeInv, VaultInv, NEW f \in Flows, Step(f) \/ Lose(f)
  PROVE  VaultInv'
<1>0. PICK d, u : d = flow[f].dev /\ u = flow[f].payload.user
  OBVIOUS
<1>a. /\ flow[f] \in Flow /\ d \in Devices /\ Data(flow[f])
      /\ flow \in [Flows -> Flow] /\ vault \in [Devices -> Users \cup {None}]
      /\ session \in [Devices -> Users \cup {None}] /\ account \in [Devices -> Users \cup {None}]
      /\ None \notin Users /\ clashed \subseteq Devices
  BY <1>0, PairingAssumption DEF TypeInv, PairingTypeOK, Flow
<1>b. \A g \in Flows \ {f} : flow'[g] = flow[g]
  BY StepFlows
<1>u. flow[f].step \in Entering => u \in Users /\ u # None
  BY <1>0, <1>a DEF Data, Payloads
<1>c. ASSUME UNCHANGED <<vault, session>>, UNCHANGED account, UNCHANGED clashed,
             flow'[f].step \notin Writers
      PROVE  VaultInv'
  BY <1>a, <1>b, <1>c, VaultStays DEF Same
<1>1. CASE \/ Draw(f) \/ Open(f) \/ Opened(f) \/ PollInitiator(f) \/ Finalize(f) \/ Upload(f)
           \/ FlowStore(f) \/ Stored(f) \/ Claim(f) \/ Claimed(f) \/ Joined(f) \/ PollJoiner(f)
           \/ Apply(f) \/ Lose(f)
  <2>1. flow'[f].step \notin Writers
    BY <1>1, NextStep DEF Writers
  <2>2. UNCHANGED <<vault, session, account, clashed>>
    BY <1>1 DEF Draw, Open, Opened, PollInitiator, Finalize, Upload, FlowStore, Stored, Claim,
         Claimed, Joined, PollJoiner, Apply, Lose, device, pairHistory
  <2> QED BY <1>c, <2>1, <2>2
<1>d. \A e \in Devices \ clashed :
        VaultOf(e) /\ LoneWriter(e) /\ \A g \in Flows : Dev(g) = e => RunOf(g, e)
  BY DEF VaultInv
\* What holds of the other devices goes on doing so.
<1>e. ASSUME flow'[f] = IdleFlow \/ flow'[f].dev = d, clashed \subseteq clashed',
             \A e \in Devices \ {d} : /\ vault'[e] = vault[e] /\ session'[e] = session[e]
                                      /\ account'[e] = account[e],
             d \notin clashed' => /\ VaultOf(d)' /\ LoneWriter(d)'
                                  /\ \A g \in Flows : Dev(g)' = d => RunOf(g, d)'
      PROVE  VaultInv'
  <2>1. ASSUME NEW e \in Devices \ clashed', e # d
        PROVE  VaultOf(e)' /\ LoneWriter(e)' /\ \A g \in Flows : Dev(g)' = e => RunOf(g, e)'
    <3>1. VaultOf(e) /\ LoneWriter(e) /\ \A g \in Flows : Dev(g) = e => RunOf(g, e)
      BY <1>d, <1>e, <2>1
    <3>2. VaultOf(e)'
      BY <1>e, <2>1, <3>1 DEF VaultOf
    <3>3. LoneWriter(e)'
      BY <1>b, <1>e, <2>1, <3>1, IdleData DEF LoneWriter, FlowAt, Dev
    <3>4. \A g \in Flows : Dev(g)' = e => RunOf(g, e)'
      BY <1>b, <1>e, <2>1, <3>1, IdleData DEF RunOf, FlowAt, Dev
    <3> QED BY <3>2, <3>3, <3>4
  <2> QED BY <1>e, <2>1 DEF VaultInv
<1>2. CASE Initialize(f)
  <2>1. UNCHANGED <<vault, session, account>>
    BY <1>2 DEF Initialize, device
  <2>2. /\ clashed \subseteq clashed'
        /\ d \notin clashed' => \A g \in Flows \ {f} : Dev(g) = d => ~FlowAt(g, "write")
    BY <1>0, <1>2 DEF Initialize, FlowAt, Dev
  <2>3. flow'[f] = IdleFlow \/ (flow'[f].dev = d /\ flow'[f].step = "write" /\ vault[d] = None)
    BY <1>0, <1>2, <1>a, IdleData DEF Initialize, End, Goto, Dev, Flow
  <2>4. ASSUME d \notin clashed'
        PROVE  VaultOf(d)' /\ LoneWriter(d)' /\ \A g \in Flows : Dev(g)' = d => RunOf(g, d)'
    <3>1. VaultOf(d) /\ LoneWriter(d) /\ \A g \in Flows : Dev(g) = d => RunOf(g, d)
      BY <1>a, <1>d, <2>2, <2>4
    <3>2. VaultOf(d)'
      BY <2>1, <3>1 DEF VaultOf
    <3>3. LoneWriter(d)'
      BY <1>b, <2>2, <2>3, <2>4, IdleData DEF LoneWriter, FlowAt, Dev
    <3>4. \A g \in Flows : Dev(g)' = d => RunOf(g, d)'
      BY <1>b, <2>1, <2>3, <3>1, IdleData DEF RunOf, FlowAt, Dev
    <3> QED BY <3>2, <3>3, <3>4
  <2> QED BY <1>e, <2>1, <2>2, <2>3, <2>4
<1>3. CASE Write(f)
  <2>1. /\ FlowAt(f, "write") /\ flow'[f].step = "unlock" /\ flow'[f].dev = d
        /\ UNCHANGED <<account, clashed>>
        /\ vault' = [vault EXCEPT ![d] = u] /\ session' = [session EXCEPT ![d] = None]
    BY <1>0, <1>3, <1>a DEF Write, Goto, Dev, Flow, pairHistory
  <2>2. u # None /\ vault'[d] = u /\ session'[d] = None /\ account'[d] = account[d]
    BY <1>a, <1>u, <2>1 DEF FlowAt, Entering
  <2>3. ASSUME d \notin clashed'
        PROVE  VaultOf(d)' /\ LoneWriter(d)' /\ \A g \in Flows : Dev(g)' = d => RunOf(g, d)'
    <3>1. VaultOf(d) /\ LoneWriter(d) /\ \A g \in Flows : Dev(g) = d => RunOf(g, d)
      BY <1>a, <1>d, <2>1, <2>3
    <3>2. vault[d] = None /\ account[d] = None
      BY <1>0, <2>1, <3>1 DEF RunOf, VaultOf, Dev
    <3>3. VaultOf(d)'
      BY <2>2, <3>2 DEF VaultOf
    <3>4. LoneWriter(d)'
      BY <1>b, <2>1, <3>1 DEF LoneWriter, FlowAt, Dev
    <3>5. ASSUME NEW g \in Flows, Dev(g)' = d PROVE RunOf(g, d)'
      <4>1. CASE g = f
        BY <2>1, <4>1 DEF RunOf, FlowAt
      <4>2. CASE g # f
        <5>1. flow'[g] = flow[g] /\ RunOf(g, d) /\ Dev(g) = d
          BY <1>b, <3>1, <3>5, <4>2 DEF Dev
        <5>2. ~FlowAt(g, "write")
          BY <1>0, <2>1, <3>1, <4>2, <5>1 DEF LoneWriter, Dev
        <5>3. flow[g].step \in {"save", "enter"} => flow[g].payload.user \in Users
          BY DEF TypeInv, Data, Entering, Payloads
        <5> QED BY <1>a, <3>2, <5>1, <5>2, <5>3 DEF RunOf, FlowAt
      <4> QED BY <4>1, <4>2
    <3> QED BY <3>3, <3>4, <3>5
  <2> QED BY <1>a, <1>e, <2>1, <2>3
<1>4. CASE FlowUnlock(f)
  <2>1. /\ UNCHANGED <<vault, session, account, clashed>>
        /\ \/ flow'[f] = IdleFlow
           \/ flow'[f].dev = d /\ flow'[f].step = "save" /\ flow'[f].payload = flow[f].payload
              /\ vault[d] = u
    BY <1>0, <1>4, <1>a DEF FlowUnlock, Goto, End, Dev, Flow, pairHistory
  <2>2. ASSUME d \notin clashed'
        PROVE  VaultOf(d)' /\ LoneWriter(d)' /\ \A g \in Flows : Dev(g)' = d => RunOf(g, d)'
    <3>1. VaultOf(d) /\ LoneWriter(d) /\ \A g \in Flows : Dev(g) = d => RunOf(g, d)
      BY <1>a, <1>d, <2>1, <2>2
    <3>2. VaultOf(d)' /\ LoneWriter(d)'
      BY <1>b, <2>1, <3>1, IdleData DEF VaultOf, LoneWriter, FlowAt, Dev
    <3>3. \A g \in Flows : Dev(g)' = d => RunOf(g, d)'
      BY <1>0, <1>b, <2>1, <3>1, IdleData DEF RunOf, FlowAt, Dev
    <3> QED BY <3>2, <3>3
  <2> QED BY <1>e, <2>1, <2>2
<1>5. CASE Save(f)
  <2>1. /\ FlowAt(f, "save") /\ UNCHANGED <<vault, account, clashed>>
        /\ \/ flow'[f] = IdleFlow /\ UNCHANGED session
           \/ /\ flow'[f].dev = d /\ flow'[f].step = "enter"
              /\ flow'[f].payload = flow[f].payload /\ session' = [session EXCEPT ![d] = u]
    BY <1>0, <1>5, <1>a DEF Save, Goto, End, Dev, Flow, pairHistory
  <2>2. ASSUME d \notin clashed'
        PROVE  VaultOf(d)' /\ LoneWriter(d)' /\ \A g \in Flows : Dev(g)' = d => RunOf(g, d)'
    <3>1. VaultOf(d) /\ LoneWriter(d) /\ \A g \in Flows : Dev(g) = d => RunOf(g, d)
      BY <1>a, <1>d, <2>1, <2>2
    <3>2. vault[d] = u /\ session'[d] \in {session[d], u}
      BY <1>0, <1>a, <2>1, <3>1 DEF RunOf, Dev
    <3>3. VaultOf(d)' /\ LoneWriter(d)'
      BY <1>b, <2>1, <3>1, <3>2, IdleData DEF VaultOf, LoneWriter, FlowAt, Dev
    <3>4. \A g \in Flows : Dev(g)' = d => RunOf(g, d)'
      BY <1>0, <1>a, <1>b, <2>1, <3>1, <3>2, IdleData DEF RunOf, FlowAt, Dev
    <3> QED BY <3>3, <3>4
  <2> QED BY <1>a, <1>e, <2>1, <2>2
<1>6. CASE Enter(f)
  <2>1. /\ FlowAt(f, "enter") /\ UNCHANGED <<vault, session, clashed>> /\ flow'[f] = IdleFlow
        /\ account' = [account EXCEPT ![d] = u]
    BY <1>0, <1>6, <1>a DEF Enter, End, Dev
  <2>2. ASSUME d \notin clashed'
        PROVE  VaultOf(d)' /\ LoneWriter(d)' /\ \A g \in Flows : Dev(g)' = d => RunOf(g, d)'
    <3>1. VaultOf(d) /\ LoneWriter(d) /\ \A g \in Flows : Dev(g) = d => RunOf(g, d)
      BY <1>a, <1>d, <2>1, <2>2
    <3>2. vault[d] = u /\ session[d] = u /\ account'[d] = u /\ u # None
      BY <1>0, <1>a, <1>u, <2>1, <3>1 DEF RunOf, FlowAt, Dev, Entering
    <3>3. VaultOf(d)' /\ LoneWriter(d)'
      BY <1>b, <2>1, <3>1, <3>2, IdleData DEF VaultOf, LoneWriter, FlowAt, Dev
    <3>4. \A g \in Flows : Dev(g)' = d => RunOf(g, d)'
      BY <1>b, <2>1, <3>1, IdleData DEF RunOf, FlowAt, Dev
    <3> QED BY <3>3, <3>4
  <2> QED BY <1>a, <1>e, <2>1, <2>2
<1> QED BY <1>1, <1>2, <1>3, <1>4, <1>5, <1>6 DEF Step

LEMMA VaultNext == TypeInv /\ VaultInv /\ [PairingNext]_pairVars => VaultInv'
<1> SUFFICES ASSUME TypeInv, VaultInv, [PairingNext]_pairVars PROVE VaultInv'
  OBVIOUS
<1>1. ASSUME NEW f \in Flows, NEW d \in Devices, NEW p, NEW role, NEW step \in {"start", "join"},
             Begun(f, d, p, role, step), UNCHANGED <<vault, session, account, clashed>>
      PROVE  VaultInv'
  <2>1. \A g \in Flows : flow'[g].step \in Writers => Same(flow[g], flow'[g])
    BY <1>1 DEF Begun, Writers
  <2> QED BY <1>1, <2>1, VaultStays
<1>2. ASSUME NEW f \in Flows, NEW d \in Devices, Start(f, d) PROVE VaultInv'
  BY <1>1, <1>2, StartTypes DEF Starts, Start, device, pairHistory
<1>3. ASSUME NEW f \in Flows, NEW d \in Devices, NEW p \in Pins, Join(f, d, p) PROVE VaultInv'
  BY <1>1, <1>3, JoinTypes DEF JoinsIn, Join, device, pairHistory
<1>4. CASE Beside
  <2>1. \A f \in Flows : flow'[f].step \in Writers => Same(flow[f], flow'[f])
    BY <1>4, BesideTypes, IdleData DEF Left, Writers
  <2>2. UNCHANGED <<vault, session, clashed>>
    BY <1>4 DEF Beside, LockVault, UnlockVault, RestartDevice, Cancel, Expire, device, pairHistory
  <2>3. account \in [Devices -> Users \cup {None}]
    BY DEF TypeInv, PairingTypeOK
  <2>4. \A e \in Devices : account'[e] \in {account[e], None, session[e]}
    BY <1>4, <2>3 DEF Beside, LockVault, UnlockVault, RestartDevice, Cancel, Expire, device
  <2> QED BY <2>1, <2>2, <2>4, VaultStays
<1>5. CASE UNCHANGED pairVars
  <2>1. UNCHANGED <<vault, session, clashed, account, flow>>
    BY <1>5 DEF pairVars, device, pairHistory
  <2> QED BY <2>1, VaultStays DEF Same
<1> QED BY <1>2, <1>3, <1>4, <1>5, NextKinds, VaultSteps

LEMMA VaultInit == PairingInit => VaultInv
BY PairingAssumption, IdleData DEF PairingInit, VaultInv, VaultOf, LoneWriter, RunOf, FlowAt, Dev

\* Nobody is signed in on a device whose vault is another's or lacks the session,
\* wherever an apply fails, is cancelled, locked or cut off, unless two applies
\* have both found no vault there.
THEOREM AccountAlwaysInVault == PairingSpec => []AccountInVault
<1>1. VaultInv => AccountInVault
  BY DEF VaultInv, VaultOf, AccountInVault
<1>2. TypeInv /\ VaultInv /\ [PairingNext]_pairVars => (TypeInv /\ VaultInv)'
  BY NextTypeInv, VaultNext
<1> QED BY <1>1, <1>2, InitTypeInv, VaultInit, PTL DEF PairingSpec

-----------------------------------------------------------------------------
(* A key pair lets in one joiner at most.                                  *)

Asks(f) == ~FlowAt(f, "idle") /\ flow[f].role = "initiator"
Unsent  == {"start", "open", "opened", "poll", "finalize"}
Polling == {"poll", "finalize"}

\* A payload that is on the relay or that a run may still go on with.
Sealed(q) == q \in Payloads /\ q # None
Carried(q) ==
  /\ Sealed(q)
  /\ \/ \E p \in Pins : channel[p] # None /\ channel[p].payload = q
     \/ \E f \in Flows : \/ flow[f].payload = q
                         \/ flow[f].seen # None /\ flow[f].seen.payload = q

\* x is in by key pair k, or may come in by it.
Guest(k, x) == x \in entered[k] \/ \E q : Carried(q) /\ q.from = k /\ q.to = x

\* Key pairs are drawn in turn, and each initiator has its own.
KeysInv ==
  /\ \A f \in Flows : ~FlowAt(f, "idle") => flow[f].key <= drawn
  /\ \A d \in Devices : pairing[d] # None => pairing[d].key <= drawn
  /\ \A k \in KeyPairs : \A x : Guest(k, x) => k <= drawn
  /\ \A f, g \in Flows : Asks(f) /\ Asks(g) /\ flow[f].key = flow[g].key => f = g

\* Two runs of a device that poll one PIN are counted, so that the pairing of
\* the device belongs to the run that polls it.
DoubledInv ==
  /\ \A f, g \in Flows :
       /\ f # g /\ Asks(f) /\ Asks(g) /\ Dev(f) = Dev(g) /\ flow[f].pin = flow[g].pin
       /\ ~FlowAt(f, "start") /\ ~FlowAt(g, "start")
       => flow[f].key \in doubled
  /\ \A f \in Flows :
       Asks(f) /\ flow[f].step \in Polling /\ Holds(Dev(f), "initiator", flow[f].pin)
         => pairing[Dev(f)].key \in doubled \cup {flow[f].key}

\* A key pair has one guest, and none before its run has sealed the payload.
GuestInv ==
  \A k \in KeyPairs \ doubled : \A x : Guest(k, x) =>
    /\ \A y : Guest(k, y) => y = x
    /\ \A f \in Flows : Asks(f) /\ flow[f].key = k => flow[f].step \notin Unsent

PairInv == KeysInv /\ DoubledInv /\ GuestInv

\* What a run that goes on has of what it had, and of what the relay and the
\* pairing have.
Keeps(f) ==
  LET r == flow[f]
      s == flow'[f]
  IN  /\ r.role = "initiator" =>
           /\ s.key = r.key /\ (Draw(f) \/ (s.pin = r.pin /\ r.step # "start"))
           /\ s.step \in Unsent => r.step \in Unsent
           /\ s.step \in Polling => Opened(f) \/ r.step \in Polling
      /\ s.key = r.key \/ (pairing[r.dev] # None /\ s.key = pairing[r.dev].key)
      /\ s.seen = r.seen \/ (channel[r.pin] # None /\ s.seen = channel[r.pin])
      /\ \/ Finalize(f) \/ s.payload = r.payload
         \/ r.seen # None /\ s.payload = r.seen.payload
         \/ \E p \in Pins : channel[p] # None /\ s.payload = channel[p].payload

LEMMA StepKeeps ==
  ASSUME TypeInv, NEW f \in Flows, Step(f) \/ Lose(f), ~FlowAt(f, "idle")'
  PROVE  Keeps(f)
<1> DEFINE r == flow[f]
           s == flow'[f]
<1>a. /\ flow \in [Flows -> Flow] /\ r \in Flow /\ Data(r) /\ r.pin \in Pins
      /\ pairing \in [Devices -> Pairings \cup {None}]
      /\ channel \in [Pins -> Channels \cup {None}]
  BY DEF TypeInv, PairingTypeOK, Flow
<1>b. ~End(f)
  BY <1>a, IdleData DEF End, FlowAt
<1>c. ASSUME NEW x \in FlowSteps, Goto(f, x)
      PROVE  /\ s.key = r.key /\ s.pin = r.pin /\ s.seen = r.seen /\ s.payload = r.payload
             /\ s.step = x
  BY <1>a, <1>c, StepFields DEF Goto
<1> USE DEF FlowAt, Dev
<1>1. CASE Draw(f)
  <2>1. PICK p \in Pins : flow' = [flow EXCEPT ![f].step = "open", ![f].pin = p]
    BY <1>1 DEF Draw
  <2>2. /\ s.step = "open" /\ s.key = r.key /\ s.seen = r.seen /\ s.payload = r.payload
        /\ r.step = "start"
    BY <1>1, <1>a, <2>1 DEF Flow, Draw
  <2> QED BY <1>1, <2>2 DEF Keeps, Unsent, Polling
<1>2. CASE Open(f)
  <2>1. Goto(f, "opened") /\ r.step = "open"
    BY <1>2 DEF Open
  <2> QED BY <1>c, <2>1 DEF Keeps, Unsent, Polling, FlowSteps
<1>3. CASE Opened(f)
  <2>1. Goto(f, "poll") /\ r.step = "opened"
    BY <1>3, <1>b DEF Opened, Continue
  <2> QED BY <1>3, <1>c, <2>1 DEF Keeps, Unsent, Polling, FlowSteps
<1>4. CASE PollInitiator(f)
  <2>1. /\ r.step = "poll" /\ channel[r.pin] # None
        /\ flow' = [flow EXCEPT ![f].step = "finalize", ![f].seen = channel[r.pin]]
    BY <1>4, <1>b DEF PollInitiator
  <2>2. /\ s.step = "finalize" /\ s.key = r.key /\ s.pin = r.pin /\ s.payload = r.payload
        /\ s.seen = channel[r.pin]
    BY <1>a, <2>1 DEF Flow
  <2> QED BY <2>1, <2>2 DEF Keeps, Unsent, Polling
<1>5. CASE Finalize(f)
  <2>1. r.step = "finalize" /\ \E u, q :
          flow' = [flow EXCEPT ![f].step = "upload", ![f].user = u, ![f].payload = q]
    BY <1>5, <1>b DEF Finalize
  <2>2. s.step = "upload" /\ s.key = r.key /\ s.pin = r.pin /\ s.seen = r.seen
    BY <1>a, <2>1 DEF Flow
  <2> QED BY <1>5, <2>1, <2>2 DEF Keeps, Unsent, Polling
<1>6. CASE Upload(f) \/ Claim(f)
  <2>1. /\ r.step \in {"upload", "join"} /\ channel[r.pin] # None
        /\ \E x \in {"store", "claim"} :
             flow' = [flow EXCEPT ![f].step = x, ![f].seen = channel[r.pin]]
    BY <1>6, <1>b DEF Upload, Claim
  <2>2. /\ s.step \in {"store", "claim"} /\ s.key = r.key /\ s.pin = r.pin
        /\ s.payload = r.payload /\ s.seen = channel[r.pin]
    BY <1>a, <2>1 DEF Flow
  <2> QED BY <2>1, <2>2 DEF Keeps, Unsent, Polling
<1>7. CASE FlowStore(f) \/ Claimed(f)
  <2>1. \E x \in {"stored", "joined"} : Goto(f, x) /\ r.step \in {"store", "claim"}
    BY <1>7 DEF FlowStore, Claimed
  <2> QED BY <1>c, <2>1 DEF Keeps, Unsent, Polling, FlowSteps
<1>8. CASE Stored(f) \/ Enter(f) \/ Lose(f)
  BY <1>8, <1>b DEF Stored, Enter, Lose
<1>9. CASE Joined(f)
  <2>1. /\ r.step = "joined" /\ r.role = "joiner" /\ r.seen # None
    BY <1>9, <1>a DEF Joined, Data, Joins
  <2>2. \E x : flow' = [flow EXCEPT ![f].payload = r.seen.payload, ![f].step = x]
    BY <1>9, <1>b DEF Joined
  <2>3. s.key = r.key /\ s.pin = r.pin /\ s.seen = r.seen /\ s.payload = r.seen.payload
    BY <1>a, <2>2 DEF Flow
  <2> QED BY <2>1, <2>3 DEF Keeps
<1>10. CASE PollJoiner(f)
  <2>1. r.role = "joiner" /\ \E p \in Pins : channel[p] # None /\ flow' =
          [flow EXCEPT ![f].step = "apply", ![f].pin = p, ![f].payload = channel[p].payload]
    <3>1. r.dev \in Devices
      BY <1>a DEF Flow
    <3>2. Holds(r.dev, "joiner", pin[r.dev]) => pin[r.dev] \in Pins
      BY <1>a, <3>1 DEF Holds, Pairings
    <3> QED BY <1>10, <1>b, <3>2 DEF PollJoiner
  <2>2. \E p \in Pins : /\ channel[p] # None /\ s.payload = channel[p].payload
                        /\ s.key = r.key /\ s.seen = r.seen
    BY <1>a, <2>1 DEF Flow
  <2> QED BY <2>1, <2>2 DEF Keeps
<1>11. CASE Apply(f)
  <2>1. /\ r.role = "joiner" /\ pairing[r.dev] # None
        /\ flow' = [flow EXCEPT ![f].step = "initialize", ![f].key = pairing[r.dev].key]
    BY <1>11, <1>a, <1>b DEF Apply, Holds, Data, Joins
  <2>2. s.key = pairing[r.dev].key /\ s.seen = r.seen /\ s.payload = r.payload
    BY <1>a, <2>1 DEF Flow
  <2> QED BY <2>1, <2>2 DEF Keeps
<1>12. CASE Initialize(f) \/ Write(f) \/ FlowUnlock(f) \/ Save(f)
  <2>1. r.role = "joiner" /\ \E x \in {"write", "unlock", "save", "enter"} : Goto(f, x)
    BY <1>12, <1>a, <1>b DEF Initialize, Write, FlowUnlock, Save, Data, Joins, Entering
  <2> QED BY <1>c, <2>1 DEF Keeps, FlowSteps
<1> QED
  BY <1>1, <1>2, <1>3, <1>4, <1>5, <1>6, <1>7, <1>8, <1>9, <1>10, <1>11, <1>12 DEF Step

\* The relay's record has a payload that was there or that the request brought.
LEMMA ChannelKeeps ==
  ASSUME TypeInv, NEW f \in Flows, Step(f) \/ Lose(f), NEW p \in Pins, channel'[p] # None
  PROVE  \/ channel[p] # None /\ channel'[p].payload = channel[p].payload
         \/ channel'[p].payload \in {None, flow[f].payload}
         \/ flow[f].seen # None /\ channel'[p].payload = flow[f].seen.payload
<1> DEFINE r == flow[f]
<1>a. r \in Flow /\ Data(r) /\ channel \in [Pins -> Channels \cup {None}]
  BY DEF TypeInv, PairingTypeOK
<1>1. ASSUME NEW c, channel' = [channel EXCEPT ![r.pin] = c], c.payload \in {None, r.payload} \/
             (r.seen # None /\ c.payload = r.seen.payload)
      PROVE  \/ channel'[p] = channel[p]
             \/ channel'[p].payload \in {None, r.payload}
             \/ r.seen # None /\ channel'[p].payload = r.seen.payload
  BY <1>a, <1>1
<1>2. CASE Open(f)
  <2>1. [user |-> r.user, initiator |-> r.key, joiner |-> None, payload |-> None].payload = None
    OBVIOUS
  <2> QED BY <1>1, <1>2, <2>1 DEF Open
<1>3. CASE FlowStore(f)
  <2>1. [r.seen EXCEPT !.payload = r.payload].payload = r.payload
    BY <1>a, <1>3 DEF FlowStore, FlowAt, Data, Channels
  <2> QED BY <1>1, <1>3, <2>1 DEF FlowStore
<1>4. CASE Claimed(f)
  <2>1. [r.seen EXCEPT !.joiner = r.key].payload = r.seen.payload /\ r.seen # None
    BY <1>a, <1>4 DEF Claimed, FlowAt, Data, Channels
  <2> QED BY <1>1, <1>4, <2>1 DEF Claimed
<1>5. CASE ~(Open(f) \/ FlowStore(f) \/ Claimed(f))
  <2>1. UNCHANGED channel
    BY <1>5 DEF Step, Draw, Opened, PollInitiator, Finalize, Upload, Stored, Claim, Joined,
         PollJoiner, Apply, Initialize, Write, FlowUnlock, Save, Enter, Lose
  <2> QED BY <2>1
<1> QED BY <1>2, <1>3, <1>4, <1>5

\* Who is in was a guest.
LEMMA EnteredKeeps ==
  ASSUME TypeInv, NEW f \in Flows, Step(f) \/ Lose(f), NEW k \in KeyPairs, NEW x,
         x \in entered'[k]
  PROVE  x \in entered[k] \/ LET q == flow[f].payload
                             IN  Sealed(q) /\ q.from = k /\ q.to = x
<1>1. CASE Enter(f)
  <2> DEFINE q == flow[f].payload
  <2>1. Sealed(q) /\ flow[f].key = q.to
    BY <1>1 DEF Enter, FlowAt, TypeInv, Data, Entering, Sealed
  <2>2. entered' = [entered EXCEPT ![q.from] = @ \cup {q.to}]
    BY <1>1, <2>1 DEF Enter
  <2>3. entered \in [KeyPairs -> SUBSET KeyPairs]
    BY DEF TypeInv, PairingTypeOK
  <2> HIDE DEF q
  <2>4. k = q.from \/ entered'[k] = entered[k]
    BY <2>2, <2>3
  <2>5. k = q.from => entered'[k] = entered[k] \cup {q.to}
    BY <2>2, <2>3
  <2> QED BY <2>1, <2>4, <2>5 DEF q
<1>2. CASE ~Enter(f)
  BY <1>2 DEF Step, Draw, Open, Opened, PollInitiator, Finalize, Upload, FlowStore, Stored, Claim,
       Claimed, Joined, PollJoiner, Apply, Initialize, Write, FlowUnlock, Save, Lose, pairHistory
<1> QED BY <1>1, <1>2

\* Nothing but finalize makes a guest.
LEMMA GuestsStay ==
  ASSUME TypeInv, NEW f \in Flows, Step(f) \/ Lose(f), NEW k \in KeyPairs, NEW x, Guest(k, x)'
  PROVE  \/ Guest(k, x)
         \/ /\ Finalize(f) /\ Holds(Dev(f), "initiator", flow[f].pin)
            /\ k = pairing[Dev(f)].key /\ x = flow[f].seen.joiner
<1>1. CASE x \in entered'[k]
  BY <1>1, EnteredKeeps DEF Guest, Carried
<1>2. CASE \E q : Carried(q)' /\ q.from = k /\ q.to = x
  <2>1. PICK q : Carried(q)' /\ q.from = k /\ q.to = x
    BY <1>2
  <2>2. Sealed(q)
    BY <2>1 DEF Carried
  <2>3. CASE \E p \in Pins : channel'[p] # None /\ channel'[p].payload = q
    BY <2>1, <2>2, <2>3, ChannelKeeps DEF Guest, Carried, Sealed
  <2>4. CASE \E g \in Flows \ {f} : \/ flow'[g].payload = q
                                    \/ flow'[g].seen # None /\ flow'[g].seen.payload = q
    BY <2>1, <2>2, <2>4, StepFlows DEF Guest, Carried
  <2>5. CASE flow'[f].seen # None /\ flow'[f].seen.payload = q
    <3>1. flow'[f] # IdleFlow /\ flow[f].pin \in Pins
      BY <2>5 DEF IdleFlow, TypeInv, PairingTypeOK, Flow
    <3>2. flow'[f].seen = flow[f].seen
            \/ (channel[flow[f].pin] # None /\ flow'[f].seen = channel[flow[f].pin])
      BY <3>1, StepFlows, StepKeeps DEF Keeps
    <3> QED BY <2>1, <2>2, <2>5, <3>1, <3>2 DEF Guest, Carried
  <2>6. CASE flow'[f].payload = q
    <3>1. flow'[f] # IdleFlow
      BY <2>2, <2>6 DEF IdleFlow, Sealed
    <3>2. \/ Finalize(f) \/ flow'[f].payload = flow[f].payload
          \/ flow[f].seen # None /\ flow'[f].payload = flow[f].seen.payload
          \/ \E p \in Pins : channel[p] # None /\ flow'[f].payload = channel[p].payload
      BY <3>1, StepFlows, StepKeeps DEF Keeps
    <3>3. CASE Finalize(f)
      <4>1. ~End(f)
        BY <3>1 DEF End, TypeInv, PairingTypeOK
      <4> DEFINE n == [user |-> account[Dev(f)], from |-> pairing[Dev(f)].key,
                       to |-> flow[f].seen.joiner, pin |-> flow[f].pin]
      <4>2. /\ Holds(Dev(f), "initiator", flow[f].pin)
            /\ \E u : flow' = [flow EXCEPT ![f].step = "upload", ![f].user = u, ![f].payload = n]
        BY <3>3, <4>1 DEF Finalize
      <4>3. n.from = pairing[Dev(f)].key /\ n.to = flow[f].seen.joiner
        OBVIOUS
      <4> HIDE DEF n
      <4>4. flow \in [Flows -> Flow]
        BY DEF TypeInv, PairingTypeOK
      <4>5. flow'[f].payload = n
        BY <4>2, <4>4 DEF Flow
      <4> QED BY <2>1, <2>6, <3>3, <4>2, <4>3, <4>5
    <3>4. CASE ~Finalize(f)
      BY <2>1, <2>2, <2>6, <3>2, <3>4 DEF Guest, Carried
    <3> QED BY <3>3, <3>4
  <2> QED BY <2>1, <2>3, <2>4, <2>5, <2>6 DEF Carried
<1> QED BY <1>1, <1>2 DEF Guest

\* The pairing of a device after a step of a run.
LEMMA PairingKeeps ==
  ASSUME TypeInv, NEW f \in Flows, Step(f) \/ Lose(f), NEW d \in Devices
  PROVE  \/ pairing'[d] = pairing[d] \/ pairing'[d] = None
         \/ /\ d = Dev(f) /\ pairing'[d].key = flow[f].key /\ pairing'[d].pin = flow[f].pin
            /\ \/ Opened(f) /\ flow[f].role = "initiator"
               \/ pairing'[d].role = "joiner"
<1>a. pairing \in [Devices -> Pairings \cup {None}] /\ Data(flow[f])
  BY DEF TypeInv, PairingTypeOK
<1>1. CASE Opened(f)
  <2> DEFINE q == [role |-> "initiator", pin |-> flow[f].pin, key |-> flow[f].key, peer |-> None]
  <2>1. q.key = flow[f].key /\ q.pin = flow[f].pin /\ pairing' = [pairing EXCEPT ![Dev(f)] = q]
    BY <1>1 DEF Opened
  <2>2. flow[f].role = "initiator"
    BY <1>1, <1>a DEF Opened, FlowAt, Data, Sending
  <2> HIDE DEF q
  <2> QED BY <1>1, <1>a, <2>1, <2>2
<1>2. CASE Joined(f)
  <2> DEFINE q == [role |-> "joiner", pin |-> flow[f].pin, key |-> flow[f].key,
                   peer |-> flow[f].seen.initiator]
  <2>1. /\ q.key = flow[f].key /\ q.pin = flow[f].pin /\ q.role = "joiner"
        /\ pairing' = [pairing EXCEPT ![Dev(f)] = q]
    BY <1>2 DEF Joined
  <2> HIDE DEF q
  <2> QED BY <1>a, <2>1
<1>3. CASE ~Opened(f) /\ ~Joined(f)
  BY <1>3, <1>a DEF Step, Draw, Open, PollInitiator, Finalize, Upload, FlowStore, Stored, Claim,
       Claimed, PollJoiner, Apply, Initialize, Write, FlowUnlock, Save, Enter, Lose
<1> QED BY <1>1, <1>2, <1>3

\* Steps that no run makes leave the guests as they are.
LEMMA GuestsLeft ==
  ASSUME UNCHANGED entered, \A p \in Pins : channel'[p] \in {None, channel[p]},
         \A f \in Flows : \/ Same(flow[f], flow'[f])
                          \/ flow'[f].payload = None /\ flow'[f].seen = None,
         NEW k \in KeyPairs, NEW x, Guest(k, x)'
  PROVE  Guest(k, x)
<1>1. CASE x \in entered'[k]
  BY <1>1 DEF Guest
<1>2. ASSUME NEW q, Carried(q)', q.from = k, q.to = x PROVE Guest(k, x)
  <2>1. Carried(q)
    BY <1>2 DEF Carried, Sealed, Same
  <2> QED BY <1>2, <2>1 DEF Guest
<1> QED BY <1>1, <1>2 DEF Guest

LEMMA PairSteps ==
  ASSUME TypeInv, PairInv, NEW f \in Flows, Step(f) \/ Lose(f)
  PROVE  PairInv'
<1>0. PICK d : d = Dev(f) /\ d \in Devices
  BY DEF TypeInv, PairingTypeOK, Flow, Dev
<1>a. /\ flow \in [Flows -> Flow] /\ pairing \in [Devices -> Pairings \cup {None}]
      /\ \A g \in Flows \ {f} : flow'[g] = flow[g]
      /\ doubled \subseteq KeyPairs
  BY StepFlows DEF TypeInv, PairingTypeOK
<1>b. ~FlowAt(f, "idle") /\ (~FlowAt(f, "idle")' =>
        Keeps(f) /\ flow'[f].role = flow[f].role /\ flow'[f].dev = flow[f].dev)
  BY StepFlows, StepKeeps, IdleData DEF FlowAt
<1>c. \A g \in Flows : Asks(g)' =>
        Asks(g) /\ flow'[g].key = flow[g].key /\ flow'[g].dev = flow[g].dev
  BY <1>a, <1>b DEF Asks, FlowAt, Keeps
<1>d. drawn' = drawn
  BY DEF Step, Draw, Open, Opened, PollInitiator, Finalize, Upload, FlowStore, Stored, Claim,
       Claimed, Joined, PollJoiner, Apply, Initialize, Write, FlowUnlock, Save, Enter, Lose
<1>1. KeysInv'
  <2>1. \A g \in Flows : ~FlowAt(g, "idle")' => flow'[g].key <= drawn'
    BY <1>0, <1>a, <1>b, <1>d DEF PairInv, KeysInv, Keeps, FlowAt, Dev
  <2>2. \A e \in Devices : pairing'[e] # None => pairing'[e].key <= drawn'
    BY <1>b, <1>d, PairingKeeps DEF PairInv, KeysInv
  <2>3. \A k \in KeyPairs : \A x : Guest(k, x)' => k <= drawn'
    <3>1. ASSUME NEW k \in KeyPairs, NEW x, Guest(k, x)' PROVE k <= drawn
      <4>1. Guest(k, x) \/ (k = pairing[d].key /\ pairing[d] # None)
        BY <1>0, <3>1, GuestsStay DEF Holds
      <4> QED BY <1>0, <4>1 DEF PairInv, KeysInv
    <3> QED BY <1>d, <3>1
  <2>4. \A g, h \in Flows : Asks(g)' /\ Asks(h)' /\ flow'[g].key = flow'[h].key => g = h
    BY <1>c DEF PairInv, KeysInv
  <2> QED BY <2>1, <2>2, <2>3, <2>4 DEF KeysInv
\* Two runs of one device that poll one PIN were counted when they met.
<1>2. ASSUME NEW g \in Flows, NEW h \in Flows, g # h, Asks(g)', Asks(h)', Dev(g)' = Dev(h)',
             flow'[g].pin = flow'[h].pin, ~FlowAt(g, "start")', ~FlowAt(h, "start")'
      PROVE  flow'[g].key \in doubled' /\ flow'[h].key \in doubled'
  <2>1. Asks(g) /\ Asks(h) /\ Dev(g) = Dev(h)
    BY <1>2, <1>c DEF Dev
  <2>2. CASE ~Draw(f)
    <3>1. \A i \in {g, h} : ~FlowAt(i, "start") /\ flow'[i].pin = flow[i].pin
      BY <1>2, <1>a, <1>b, <2>1, <2>2 DEF Keeps, Asks, FlowAt
    <3>2. UNCHANGED doubled
      BY <2>2 DEF Step, Open, Opened, PollInitiator, Finalize, Upload, FlowStore, Stored, Claim,
           Claimed, Joined, PollJoiner, Apply, Initialize, Write, FlowUnlock, Save, Enter,
           Lose, pairHistory
    <3> QED BY <1>2, <1>c, <2>1, <3>1, <3>2 DEF PairInv, DoubledInv
  <2>3. CASE Draw(f)
    <3>1. PICK p \in Pins :
            /\ flow' = [flow EXCEPT ![f].step = "open", ![f].pin = p]
            /\ LET old == {i \in Running(Dev(f), "initiator") : ~FlowAt(i, "start")}
                   met == {i \in old : flow[i].pin = p}
               IN  doubled' = IF met = {} THEN doubled
                              ELSE doubled \cup {flow[i].key : i \in met \cup {f}}
      BY <2>3 DEF Draw
    <3>2. flow'[f].pin = p /\ doubled \subseteq doubled'
      BY <1>a, <3>1 DEF Flow
    <3>3. CASE g # f /\ h # f
      BY <1>2, <1>a, <2>1, <3>2, <3>3 DEF PairInv, DoubledInv, FlowAt, Dev
    <3>4. ASSUME NEW i \in Flows, i # f, i \in {g, h}, f \in {g, h}
          PROVE  flow[i].key \in doubled' /\ flow[f].key \in doubled'
      <4>1. Asks(i) /\ ~FlowAt(i, "start") /\ flow[i].pin = p /\ Dev(i) = Dev(f)
        BY <1>2, <1>a, <2>1, <3>2, <3>4 DEF FlowAt
      <4>2. i \in Running(Dev(f), "initiator")
        BY <4>1 DEF Asks, Running
      <4> QED BY <3>1, <4>1, <4>2
    <3> QED BY <1>2, <1>c, <3>3, <3>4
  <2> QED BY <2>2, <2>3
<1>3. ASSUME NEW g \in Flows, Asks(g)', flow'[g].step \in Polling,
             Holds(Dev(g), "initiator", flow[g].pin)'
      PROVE  pairing'[Dev(g)'].key \in doubled' \cup {flow'[g].key}
  <2> DEFINE e == flow[g].dev
  <2>1. /\ Asks(g) /\ flow'[g].key = flow[g].key /\ flow'[g].dev = e /\ e \in Devices
        /\ pairing'[e] # None /\ pairing'[e].role = "initiator"
        /\ pairing'[e].pin = flow'[g].pin
    BY <1>3, <1>a, <1>c DEF Holds, Dev, Flow
  <2>2. doubled \subseteq doubled'
    BY DEF Step, Draw, Open, Opened, PollInitiator, Finalize, Upload, FlowStore, Stored, Claim,
         Claimed, Joined, PollJoiner, Apply, Initialize, Write, FlowUnlock, Save, Enter, Lose,
         pairHistory
  <2>3. CASE pairing'[e] = pairing[e]
    <3>1. CASE Opened(f) /\ g = f
      BY <1>a, <2>1, <3>1 DEF Opened, Dev
    <3>2. CASE ~(Opened(f) /\ g = f)
      <4>1. flow[g].step \in Polling /\ flow'[g].pin = flow[g].pin
        <5>1. CASE g # f
          BY <1>3, <1>a, <5>1
        <5>2. CASE g = f
          <6>1. ~Draw(f)
            BY <1>3, <5>2, NextStep DEF Polling
          <6> QED BY <1>3, <1>b, <2>1, <3>2, <5>2, <6>1 DEF Keeps, Asks, FlowAt, Polling
        <5> QED BY <5>1, <5>2
      <4> QED BY <2>1, <2>2, <2>3, <4>1 DEF PairInv, DoubledInv, Holds, Dev
    <3> QED BY <3>1, <3>2
  <2>4. CASE pairing'[e] # pairing[e]
    <3>1. e = Dev(f) /\ pairing'[e].key = flow[f].key /\ pairing'[e].pin = flow[f].pin /\ Opened(f)
          /\ flow[f].role = "initiator"
      BY <2>1, <2>4, PairingKeeps
    <3>2. CASE g = f
      BY <2>1, <3>1, <3>2 DEF Dev
    <3>3. CASE g # f
      <4>1. Asks(f) /\ flow[f].step = "opened" /\ flow[g].step \in Polling
        BY <1>3, <1>a, <1>b, <3>1, <3>3 DEF Asks, Opened, FlowAt
      <4>2. flow[g].pin = flow[f].pin /\ Dev(g) = Dev(f)
        BY <1>a, <2>1, <3>1, <3>3 DEF Dev
      <4>3. flow[f].key \in doubled
        BY <2>1, <3>3, <4>1, <4>2 DEF PairInv, DoubledInv, FlowAt, Polling
      <4> QED BY <2>1, <2>2, <3>1, <4>3 DEF Dev
    <3> QED BY <3>2, <3>3
  <2> QED BY <2>3, <2>4
<1>4. DoubledInv'
  BY <1>2, <1>3 DEF DoubledInv, Dev, FlowAt
<1>5. ASSUME NEW g \in Flows, Asks(g)', flow'[g].step \in Unsent PROVE flow[g].step \in Unsent
  BY <1>5, <1>a, <1>b DEF Keeps, Asks, FlowAt
<1>6. ASSUME NEW k \in KeyPairs \ doubled', NEW x, Guest(k, x)'
      PROVE  /\ \A y : Guest(k, y)' => y = x
             /\ \A g \in Flows : Asks(g)' /\ flow'[g].key = k => flow'[g].step \notin Unsent
  <2>1. k \in KeyPairs \ doubled
    BY <1>6 DEF Step, Draw, Open, Opened, PollInitiator, Finalize, Upload, FlowStore, Stored,
       Claim,
         Claimed, Joined, PollJoiner, Apply, Initialize, Write, FlowUnlock, Save, Enter, Lose,
         pairHistory
  <2>2. CASE Finalize(f) /\ Holds(d, "initiator", flow[f].pin) /\ k = pairing[d].key
    <3>1. flow[f].step = "finalize" /\ Asks(f)
      BY <2>2 DEF Finalize, FlowAt, Asks, TypeInv, Data, Sending
    <3>2. flow[f].key = k
      BY <1>0, <2>1, <2>2, <3>1 DEF PairInv, DoubledInv, Polling
    <3>3. \A y : ~Guest(k, y)
      BY <2>1, <3>1, <3>2 DEF PairInv, GuestInv, Unsent
    <3>4. \A y : Guest(k, y)' => y = flow[f].seen.joiner
      BY <1>6, <3>3, GuestsStay
    <3>5. ASSUME NEW g \in Flows, Asks(g)', flow'[g].key = k PROVE flow'[g].step \notin Unsent
      <4>1. g = f
        BY <1>c, <3>1, <3>2, <3>5 DEF PairInv, KeysInv
      <4> QED BY <2>2, <4>1, NextStep DEF Unsent
    <3> QED BY <1>6, <3>4, <3>5
  <2>3. CASE ~(Finalize(f) /\ Holds(d, "initiator", flow[f].pin) /\ k = pairing[d].key)
    <3>1. \A y : Guest(k, y)' => Guest(k, y)
      BY <1>0, <1>6, <2>3, GuestsStay
    <3>2. /\ \A y : Guest(k, y) => y = x
          /\ \A g \in Flows : Asks(g) /\ flow[g].key = k => flow[g].step \notin Unsent
      BY <1>6, <2>1, <3>1 DEF PairInv, GuestInv
    <3> QED BY <1>5, <1>c, <3>1, <3>2
  <2> QED BY <2>2, <2>3
<1>7. GuestInv'
  BY <1>6 DEF GuestInv
<1> QED BY <1>1, <1>4, <1>7 DEF PairInv

\* Steps that no run makes: runs begin with key pairs of their own, or end.
LEMMA PairStays ==
  ASSUME TypeInv, TypeInv', PairInv, UNCHANGED <<entered, doubled>>,
         \A p \in Pins : channel'[p] \in {None, channel[p]},
         \A d \in Devices : pairing'[d] \in {None, pairing[d]},
         NEW new \in SUBSET Flows, drawn' = drawn \/ drawn' = drawn + 1,
         \A f \in Flows \ new : flow'[f] = IdleFlow \/ Same(flow[f], flow'[f]),
         \A f \in new : /\ flow'[f].step \in {"start", "join"} /\ flow'[f].key = drawn'
                        /\ flow'[f].payload = None /\ flow'[f].seen = None,
         \A f \in new : drawn' = drawn + 1 /\ new = {f}
  PROVE  PairInv'
<1>a. drawn \in Nat /\ drawn' \in Nat /\ drawn <= drawn' /\ KeyPairs \subseteq Nat
      /\ \A f \in Flows : ~FlowAt(f, "idle") => flow[f].key \in KeyPairs
  BY PairingAssumption DEF TypeInv, PairingTypeOK, Data, FlowAt, KeyPairs
<1>e. ASSUME NEW i \in KeyPairs, i <= drawn PROVE i <= drawn'
  <2>1. i \in Nat
    BY <1>a
  <2> QED BY ONLY <1>a, <1>e, <2>1
<1>b. \A f \in Flows \ new : ~FlowAt(f, "idle")' =>
        Same(flow[f], flow'[f]) /\ ~FlowAt(f, "idle") /\ flow[f].key <= drawn
  <2>1. ASSUME NEW f \in Flows \ new, ~FlowAt(f, "idle")' PROVE Same(flow[f], flow'[f])
    BY <2>1, IdleData DEF FlowAt
  <2>2. ASSUME NEW f \in Flows \ new, ~FlowAt(f, "idle")' PROVE ~FlowAt(f, "idle")
    BY <2>1, <2>2 DEF FlowAt, Same
  <2>3. \A f \in Flows : ~FlowAt(f, "idle") => flow[f].key <= drawn
    BY DEF PairInv, KeysInv
  <2> QED BY <2>1, <2>2, <2>3
<1>c. \A k \in KeyPairs : \A x : Guest(k, x)' => Guest(k, x)
  <2>1. \A f \in Flows : \/ Same(flow[f], flow'[f])
                         \/ flow'[f].payload = None /\ flow'[f].seen = None
    <3>1. IdleFlow.payload = None /\ IdleFlow.seen = None
      BY DEF IdleFlow
    <3> QED BY <3>1
  <2> QED BY <2>1, GuestsLeft
<1>d. \A f, g \in Flows : Asks(f)' /\ Asks(g)' /\ flow'[f].key = flow'[g].key => f = g
  <2>1. ASSUME NEW f \in Flows \ new, NEW g \in new, ~FlowAt(f, "idle")'
        PROVE  flow'[f].key # flow'[g].key
    BY <1>a, <1>b, <2>1 DEF Same
  <2>2. \A f \in Flows \ new : Asks(f)' => Asks(f) /\ flow'[f].key = flow[f].key
    BY <1>b DEF Asks, Same, FlowAt
  <2> QED BY <2>1, <2>2 DEF PairInv, KeysInv, Asks
<1>1. KeysInv'
  <2>1. \A f \in Flows : ~FlowAt(f, "idle")' => flow'[f].key <= drawn'
    <3>1. ASSUME NEW f \in Flows \ new, ~FlowAt(f, "idle")' PROVE flow'[f].key <= drawn'
      BY <1>a, <1>b, <1>e, <3>1 DEF Same
    <3>2. drawn' <= drawn'
      BY <1>a
    <3> QED BY <3>1, <3>2
  <2>2. \A d \in Devices : pairing'[d] # None => pairing'[d].key <= drawn'
    <3>1. ASSUME NEW d \in Devices, pairing'[d] # None PROVE pairing'[d].key <= drawn'
      <4>1. pairing[d].key \in KeyPairs /\ pairing[d].key <= drawn /\ pairing'[d] = pairing[d]
        BY <3>1 DEF PairInv, KeysInv, TypeInv, PairingTypeOK, Pairings
      <4> QED BY <1>e, <4>1
    <3> QED BY <3>1
  <2>3. \A k \in KeyPairs : \A x : Guest(k, x)' => k <= drawn'
    <3>1. ASSUME NEW k \in KeyPairs, NEW x, Guest(k, x)' PROVE k <= drawn'
      <4>1. k <= drawn
        BY <1>c, <3>1 DEF PairInv, KeysInv
      <4> QED BY <1>e, <4>1
    <3> QED BY <3>1
  <2> QED BY <1>d, <2>1, <2>2, <2>3 DEF KeysInv
<1>2. DoubledInv'
  <2>1. \A f \in Flows : Asks(f)' /\ ~FlowAt(f, "start")' => f \notin new /\ Same(flow[f], flow'[f])
    BY <1>b, TypeInv' DEF Asks, FlowAt, TypeInv, Data, Joins
  <2>2. \A f \in Flows : flow[f].dev \in Devices
    BY DEF TypeInv, PairingTypeOK, Flow
  <2>3. ASSUME NEW f \in Flows, NEW g \in Flows, f # g, Asks(f)', Asks(g)', Dev(f)' = Dev(g)',
               flow'[f].pin = flow'[g].pin, ~FlowAt(f, "start")', ~FlowAt(g, "start")'
        PROVE  flow'[f].key \in doubled'
    BY <2>1, <2>3 DEF PairInv, DoubledInv, Asks, FlowAt, Dev, Same
  <2>4. ASSUME NEW f \in Flows, Asks(f)', flow'[f].step \in Polling,
               Holds(Dev(f), "initiator", flow[f].pin)'
        PROVE  pairing'[flow'[f].dev].key \in doubled' \cup {flow'[f].key}
    <3>1. Asks(f) /\ Same(flow[f], flow'[f]) /\ flow[f].step \in Polling
      BY <2>1, <2>4 DEF Asks, FlowAt, Same, Polling
    <3>2. pairing'[flow[f].dev] = pairing[flow[f].dev] /\ Holds(Dev(f), "initiator", flow[f].pin)
      BY <2>2, <2>4, <3>1 DEF Holds, Dev, Same
    <3> QED BY <3>1, <3>2 DEF PairInv, DoubledInv, Dev, Same
  <2> QED BY <2>3, <2>4 DEF DoubledInv, Dev
<1>3. GuestInv'
  <2>1. ASSUME NEW k \in KeyPairs \ doubled, NEW x, Guest(k, x)'
        PROVE  /\ \A y : Guest(k, y)' => y = x
               /\ \A g \in Flows : Asks(g)' /\ flow'[g].key = k => flow'[g].step \notin Unsent
    <3>1. /\ k <= drawn /\ \A y : Guest(k, y) => y = x
          /\ \A g \in Flows : Asks(g) /\ flow[g].key = k => flow[g].step \notin Unsent
      BY <1>c, <2>1 DEF PairInv, KeysInv, GuestInv
    <3>2. \A g \in new : flow'[g].key # k
      BY <1>a, <3>1
    <3> QED BY <1>b, <1>c, <2>1, <3>1, <3>2 DEF Asks, Same, FlowAt
  <2> QED BY <2>1 DEF GuestInv
<1> QED BY <1>1, <1>2, <1>3 DEF PairInv

LEMMA PairNext == TypeInv /\ PairInv /\ [PairingNext]_pairVars => PairInv'
<1> SUFFICES ASSUME TypeInv, PairInv, [PairingNext]_pairVars PROVE PairInv'
  OBVIOUS
<1>0. TypeInv'
  BY NextTypeInv
<1>1. ASSUME NEW f \in Flows, NEW d, NEW p, NEW role, NEW step \in {"start", "join"},
             Begun(f, d, p, role, step), UNCHANGED <<entered, doubled, channel, pairing>>
      PROVE  PairInv'
  <2>1. {f} \in SUBSET Flows
    OBVIOUS
  <2> QED BY <1>0, <1>1, <2>1, PairStays DEF Begun
<1>2. ASSUME NEW f \in Flows, NEW d \in Devices, Start(f, d) PROVE PairInv'
  BY <1>1, <1>2, StartTypes DEF Starts, Start, pairHistory
<1>3. ASSUME NEW f \in Flows, NEW d \in Devices, NEW p \in Pins, Join(f, d, p) PROVE PairInv'
  BY <1>1, <1>3, JoinTypes DEF JoinsIn, Join, pairHistory
<1>4. ASSUME Left, UNCHANGED <<entered, doubled, drawn>>,
             \A p \in Pins : channel'[p] \in {None, channel[p]},
             \A d \in Devices : pairing'[d] \in {None, pairing[d]}
      PROVE  PairInv'
  <2>1. {} \in SUBSET Flows
    OBVIOUS
  <2> QED BY <1>0, <1>4, <2>1, PairStays DEF Left
<1>5. CASE Beside
  <2>1. UNCHANGED <<entered, doubled, drawn>>
    BY <1>5 DEF Beside, LockVault, UnlockVault, RestartDevice, Cancel, Expire, pairHistory
  <2>2. channel \in [Pins -> Channels \cup {None}] /\ pairing \in [Devices -> Pairings \cup {None}]
    BY DEF TypeInv, PairingTypeOK
  <2>3. \A p \in Pins : channel'[p] \in {None, channel[p]}
    BY <1>5, <2>2 DEF Beside, LockVault, UnlockVault, RestartDevice, Cancel, Expire
  <2>4. \A d \in Devices : pairing'[d] \in {None, pairing[d]}
    BY <1>5, <2>2 DEF Beside, LockVault, UnlockVault, RestartDevice, Cancel, Expire
  <2> QED BY <1>4, <1>5, <2>1, <2>3, <2>4, BesideTypes
<1>6. CASE UNCHANGED pairVars
  <2>1. UNCHANGED <<entered, doubled, drawn, channel, pairing, flow>>
    BY <1>6 DEF pairVars, pairHistory
  <2> QED BY <1>4, <2>1 DEF Left, Same
<1> QED BY <1>2, <1>3, <1>5, <1>6, NextKinds, PairSteps

LEMMA PairInit == PairingInit => PairInv
<1> SUFFICES ASSUME PairingInit PROVE PairInv
  OBVIOUS
<1>1. /\ flow = [f \in Flows |-> IdleFlow] /\ pairing = [d \in Devices |-> None]
      /\ channel = [p \in Pins |-> None] /\ entered = [k \in KeyPairs |-> {}]
  BY DEF PairingInit
<1>2. \A f \in Flows : flow[f].step = "idle" /\ flow[f].payload = None /\ flow[f].seen = None
  BY <1>1 DEF IdleFlow
<1>3. \A k \in KeyPairs : \A x : ~Guest(k, x)
  BY <1>1, <1>2 DEF Guest, Carried, Sealed
<1> QED BY <1>1, <1>2, <1>3 DEF PairInv, KeysInv, DoubledInv, GuestInv, Asks, FlowAt

\* However many devices and runs of the hooks race for a PIN, and whatever the
\* relay's lost updates make of the channel, an initiator's key pair lets in one
\* joiner at most, unless a run of its device drew the PIN that it still polls.
THEOREM OneJoinerAlways == PairingSpec => []PairsOnce
<1>1. TypeInv /\ PairInv => PairsOnce
  <2> SUFFICES ASSUME TypeInv, PairInv, NEW k \in KeyPairs \ doubled
               PROVE  Cardinality(entered[k]) <= 1
    BY DEF PairsOnce
  <2>1. \A x, y \in entered[k] : x = y
    BY DEF PairInv, GuestInv, Guest
  <2>2. entered[k] = {} \/ \E x : entered[k] = {x}
    BY <2>1
  <2>3. \A x : Cardinality({x}) = 1
    BY FS_Singleton
  <2>4. CASE entered[k] = {}
    <3>1. Cardinality(entered[k]) = 0
      BY <2>4, FS_EmptySet
    <3> QED BY ONLY <3>1
  <2>5. CASE \E x : entered[k] = {x}
    <3>1. Cardinality(entered[k]) = 1
      BY <2>3, <2>5
    <3> QED BY ONLY <3>1
  <2> QED BY <2>2, <2>4, <2>5
<1>2. TypeInv /\ PairInv /\ [PairingNext]_pairVars => (TypeInv /\ PairInv)'
  BY NextTypeInv, PairNext
<1> QED BY <1>1, <1>2, InitTypeInv, PairInit, PTL DEF PairingSpec
=============================================================================
