------------------------ MODULE VaultProcessesProofs ------------------------
(***************************************************************************)
(* Proofs about VaultProcesses for any sets of credentials, values and     *)
(* invocations, any quota and any bounds: what the tool reports is in the  *)
(* file while turns are taken (TurnsInv), a child gets live values         *)
(* (RowsInv), a copied secret has somebody who will clear it, and the      *)
(* quota of reveals holds: each answered reveal of the last hour has a     *)
(* place of its own in the history (PlacesInv).                            *)
(***************************************************************************)
EXTENDS VaultProcesses, Integers, FiniteSetTheorems, SequenceTheorems,
        WellFoundedInduction, TLAPS

-----------------------------------------------------------------------------
(* Types.                                                                  *)

LEMMA IdleType == Idle \in Invocation /\ Empty \in Records
BY DEF Idle, Invocation, Steps, Empty, Records

\* An invocation that starts, and one that goes on.
LEMMA InvocationType ==
  ASSUME NEW inv \in Invocation, NEW step \in Steps
  PROVE  /\ [inv EXCEPT !.step = step] \in Invocation
         /\ \A cs \in SUBSET Creds : [inv EXCEPT !.step = step, !.creds = cs] \in Invocation
         /\ \A cs \in SUBSET Creds, v \in Values :
              [inv EXCEPT !.step = step, !.creds = cs, !.value = v] \in Invocation
         /\ \A v \in Values : [inv EXCEPT !.step = step, !.value = v] \in Invocation
         /\ \A r \in Records : [inv EXCEPT !.step = step, !.recs = r] \in Invocation
         /\ \A r \in Records, cs \in SUBSET Creds :
              [inv EXCEPT !.step = step, !.recs = r, !.dead = cs] \in Invocation
         /\ inv.creds \subseteq Creds /\ inv.recs \in Records
         /\ inv.value \in Values \cup {Absent}
BY DEF Invocation

LEMMA BecomeType ==
  ASSUME cli \in [Tools -> Invocation], NEW t, NEW inv \in Invocation, Become(t, inv)
  PROVE  cli' \in [Tools -> Invocation]
BY DEF Become

LEMMA FaultType ==
  ASSUME faults \in 0..MaxFaults, Fault \/ NoFault
  PROVE  faults' \in 0..MaxFaults
BY ProcessesAssumption DEF Fault, NoFault

LEMMA LeastNumber ==
  ASSUME NEW T, T \subseteq Nat, T # {}
  PROVE  \E m \in T : \A n \in T : m <= n
<1> DEFINE R == {p \in Nat \X Nat : p[1] < p[2]}
<1>1. IsWellFoundedOn(R, Nat)
  BY NatLessThanWellFounded DEF OpToRel
<1>2. PICK m \in T : \A n \in T : <<n, m>> \notin R
  <2> HIDE DEF R
  <2> QED BY <1>1, WFMin
<1>3. ASSUME NEW n \in T PROVE m <= n
  <2>1. m \in Nat /\ n \in Nat
    OBVIOUS
  <2>2. CASE n < m
    <3>1. <<n, m>> \in Nat \X Nat /\ <<n, m>>[1] = n /\ <<n, m>>[2] = m
      BY <2>1
    <3>2. <<n, m>> \in R
      BY <2>2, <3>1
    <3> QED BY <1>2, <3>2
  <2> QED BY <2>1, <2>2
<1> QED BY <1>3

\* The reveals that are dropped are older than an hour.
LEMMA OldType ==
  ASSUME TypeOK, NEW h \in Seq(0..MaxNow)
  PROVE  /\ Old(h) \in 0..Len(h)
         /\ \A i \in 1..Old(h) : h[i] + Hour < now
         /\ Young(h) \in Seq(0..MaxNow) /\ Len(Young(h)) = Len(h) - Old(h)
         /\ \A i \in 1..Len(Young(h)) : Young(h)[i] = h[Old(h) + i]
<1> DEFINE P(n) == \A i \in 1..n : h[i] + Hour < now
<1>0. /\ Len(h) \in Nat /\ now \in Nat /\ Hour \in Nat /\ h \in Seq(0..MaxNow)
      /\ \A i \in 1..Len(h) : h[i] \in 0..MaxNow /\ h[i] \in Nat
  BY ProcessesAssumption DEF TypeOK
<1>1. \E n \in 0..Len(h) : P(n) /\ (n < Len(h) => h[n + 1] + Hour >= now)
  <2> DEFINE T == {n \in 0..Len(h) : n < Len(h) => h[n + 1] + Hour >= now}
  <2>1. T \subseteq Nat /\ Len(h) \in T
    BY <1>0
  <2>2. PICK m \in T : \A n \in T : m <= n
    BY <2>1, LeastNumber
  <2>3. ASSUME NEW i \in 1..m PROVE h[i] + Hour < now
    <3>1. i - 1 \in 0..Len(h) /\ i - 1 < Len(h) /\ i \in 1..Len(h) /\ i - 1 < m
      BY <1>0, <2>2
    <3>2. i - 1 \notin T
      BY <1>0, <2>2, <3>1
    <3> QED BY <1>0, <3>1, <3>2
  <2> QED BY <2>2, <2>3
<1>2. Old(h) \in 0..Len(h) /\ P(Old(h))
  BY <1>1 DEF Old
<1>3. Old(h) + 1 \in 1..(Len(h) + 1)
  BY <1>0, <1>2
<1>4. Young(h) \in Seq(0..MaxNow) /\ Len(Young(h)) = Len(h) - Old(h)
      /\ \A i \in 1..(Len(h) - Old(h)) : Young(h)[i] = h[Old(h) + i]
  <2> DEFINE a == Old(h) + 1
  <2>1. /\ SubSeq(h, a, Len(h)) \in Seq(0..MaxNow)
        /\ Len(SubSeq(h, a, Len(h))) = IF a <= Len(h) THEN Len(h) - a + 1 ELSE 0
        /\ \A i \in 1..(Len(h) - a + 1) : SubSeq(h, a, Len(h))[i] = h[a + i - 1]
    <3>1. a \in Int /\ Len(h) \in Int /\ \A i \in a..Len(h) : h[i] \in 0..MaxNow
      BY <1>0, <1>3
    <3> QED BY <3>1, SubSeqProperties
  <2> QED BY <1>0, <1>2, <2>1 DEF Young
<1> QED BY <1>2, <1>4

\* No more copies wait for their timer than were made.
TypeInv == TypeOK /\ copies <= copied

LEMMA InitTypeInv == Init => TypeInv
<1> SUFFICES ASSUME Init PROVE TypeInv
  OBVIOUS
<1>1. << >> \in Seq(0..MaxNow) /\ 0 \in 0..MaxNow /\ 0 \in 0..MaxCopies /\ 0 \in 0..MaxFaults
  BY ProcessesAssumption
<1>2. rows \in [Creds -> Statuses] /\ cli \in [Tools -> Invocation]
  BY IdleType DEF Init, Statuses
<1>3. TypeOK
  BY <1>1, <1>2, IdleType DEF Init, TypeOK
<1> QED
  BY <1>3 DEF Init, TypeInv

LEMMA NextTypeInv ==
  ASSUME TypeInv, [Next]_vars
  PROVE  TypeInv'
<1> USE DEF disk, desktop, server, clipboard, reports
<1>0. turns' = turns
  BY DEF Next, vars
<1>a. \A c \in Creds : recs[c] \in Values \cup {Absent} /\ file[c] \in Values \cup {Absent}
  BY DEF TypeInv, TypeOK, Records
<1>b. \A c \in Creds, v \in Values \cup {Absent} : [recs EXCEPT ![c] = v] \in Records
  BY DEF TypeInv, TypeOK, Records
<1>c. \A c \in Creds, st \in Statuses : [rows EXCEPT ![c] = st] \in [Creds -> Statuses]
  BY DEF TypeOK, TypeInv
<1>d. "active" \in Statuses /\ "revoked" \in Statuses /\ "deleted" \in Statuses
  BY DEF Statuses
<1>e. \A t \in Tools : /\ cli[t] \in Invocation /\ cli[t].creds \subseteq Creds
                       /\ cli[t].recs \in Records /\ cli[t].value \in Values \cup {Absent}
  BY DEF TypeInv, TypeOK, Invocation
<1>f. MaxNow \in Nat /\ MaxCopies \in Nat /\ MaxFaults \in Nat
  BY ProcessesAssumption
<1>1. CASE Unlock
  BY <1>0, <1>1 DEF Unlock, TypeOK, TypeInv
<1>2. ASSUME NEW c \in Creds, NEW v \in Values, Create(c, v) PROVE TypeInv'
  BY <1>0, <1>2, <1>b, <1>c, <1>d DEF Create, TypeOK, TypeInv
<1>3. ASSUME NEW c \in Creds, NEW v \in Values, Rotate(c, v) PROVE TypeInv'
  BY <1>0, <1>3, <1>b, FaultType DEF Rotate, TypeOK, TypeInv
<1>4. ASSUME NEW c \in Creds, Delete(c) PROVE TypeInv'
  BY <1>0, <1>4, <1>b, <1>c, <1>d DEF Delete, TypeOK, TypeInv
<1>5. ASSUME NEW c \in Creds, NEW e \in BOOLEAN, Revoke(c, e) PROVE TypeInv'
  BY <1>0, <1>5, <1>c, <1>d DEF Revoke, TypeOK, TypeInv
<1>6. ASSUME NEW c \in Creds, Erase(c) PROVE TypeInv'
  <2>1. marked' \in SUBSET Creds /\ recs' \in Records
    BY <1>6, <1>b DEF Erase, TypeOK, TypeInv
  <2>2. faults' \in 0..MaxFaults /\ file' \in Records
    BY <1>6, <2>1, FaultType DEF Erase, TypeOK, TypeInv
  <2>3. dirty' \in BOOLEAN /\ killed' \in SUBSET Creds
    BY <1>6 DEF Erase, TypeOK, TypeInv
  <2> QED BY <1>0, <1>6, <2>1, <2>2, <2>3 DEF Erase, TypeOK, TypeInv
<1>7. CASE Lock
  BY <1>0, <1>7, IdleType DEF Lock, TypeOK, TypeInv
<1>8. ASSUME NEW c \in Creds, Copy(c) PROVE TypeInv'
  <2>1. copies' \in 0..MaxCopies /\ copied' \in 0..MaxCopies /\ copies' <= copied'
    BY <1>f, <1>8 DEF Copy, TypeOK, TypeInv
  <2>2. clip' \in Values \cup {NoText, UserText} /\ left' \in BOOLEAN
    BY <1>8, <1>a DEF Copy, Overwrite
  <2> QED BY <1>0, <1>8, <2>1, <2>2 DEF Copy, TypeOK, TypeInv
<1>9. CASE SpawnTimer
  BY <1>0, <1>9, <1>f DEF SpawnTimer, TypeOK, TypeInv
<1>10. CASE TimerClears
  <2>1. left' \in BOOLEAN
    <3>1. left' = FALSE \/ left' = (left \/ clip \in Values)
      BY <1>10 DEF TimerClears, Overwrite
    <3> QED BY <3>1
  <2>3. clip' \in Values \cup {NoText, UserText}
    BY <1>10 DEF TimerClears, Overwrite, TypeOK, TypeInv
  <2>2. faults' \in 0..MaxFaults
    BY <1>10, FaultType DEF TimerClears, NoFault, TypeOK, TypeInv
  <2> QED BY <1>0, <1>10, <2>1, <2>2, <2>3 DEF TimerClears, TypeOK, TypeInv
<1>11. CASE DesktopEnds
  <2>1. faults' \in 0..MaxFaults
    BY <1>11, FaultType DEF DesktopEnds, TypeOK, TypeInv
  <2>2. {} \in SUBSET Creds /\ 0 \in 0..MaxCopies /\ copied \in Nat
    BY <1>f DEF TypeOK, TypeInv
  <2>3. copies' <= copied'
    BY <1>11, <2>2 DEF DesktopEnds
  <2>4. TypeOK'
    BY <1>0, <1>11, <2>1, <2>2, IdleType DEF DesktopEnds, TypeOK, TypeInv
  <2> QED BY <2>3, <2>4 DEF TypeInv
<1>12. ASSUME NEW t \in Tools, NEW c \in Creds, NEW v \in Values, Add(t, c, v) PROVE TypeInv'
  <2>1. [Idle EXCEPT !.step = "add", !.creds = {c}, !.value = v] \in Invocation
    <3>1. {c} \in SUBSET Creds
      OBVIOUS
    <3> QED BY <3>1, IdleType, InvocationType DEF Steps
  <2> QED BY <1>0, <1>12, <2>1, BecomeType DEF Add, TypeOK, TypeInv
<1>13. ASSUME NEW t \in Tools, AddUnlock(t) PROVE TypeInv'
  <2>1. [cli[t] EXCEPT !.step = "added", !.recs = file] \in Invocation
    BY <1>e, InvocationType DEF Steps, TypeOK, TypeInv
  <2> QED BY <1>0, <1>13, <2>1, BecomeType DEF AddUnlock, TypeOK, TypeInv
<1>14. ASSUME NEW t \in Tools, AddRow(t) PROVE TypeInv'
  <2>1. [cli[t] EXCEPT !.step = "put"] \in Invocation
    BY <1>e, InvocationType DEF Steps
  <2> QED BY <1>0, <1>14, <1>d, <2>1, BecomeType DEF AddRow, TypeOK, TypeInv
<1>15. ASSUME NEW t \in Tools, AddFlush(t) PROVE TypeInv'
  <2>1. [c \in Creds |-> IF c \in cli[t].creds THEN cli[t].value ELSE cli[t].recs[c]] \in Records
    BY <1>e DEF Records
  <2> QED BY <1>0, <1>15, <1>d, <1>e, <2>1, IdleType, BecomeType, FaultType DEF AddFlush,
     TypeOK, TypeInv
<1>16. ASSUME NEW t \in Tools, NEW c \in Creds, Reveal(t, c) PROVE TypeInv'
  <2>1. [Idle EXCEPT !.step = "reveal", !.creds = {c}] \in Invocation
    <3>1. {c} \in SUBSET Creds
      OBVIOUS
    <3> QED BY <3>1, IdleType, InvocationType DEF Steps
  <2> QED BY <1>0, <1>16, <2>1, BecomeType DEF Reveal, TypeOK, TypeInv
<1>17. ASSUME NEW t \in Tools, RevealCopies(t) PROVE TypeInv'
  <2>1. PICK c \in cli[t].creds :
          \/ /\ file[c] # Absent /\ copied < MaxCopies
             /\ clip' = file[c] /\ copied' = copied + 1 /\ left' \in BOOLEAN
             /\ \/ Become(t, [Idle EXCEPT !.step = "wait", !.value = file[c]])
                \/ Become(t, Idle)
          \/ Become(t, Idle) /\ UNCHANGED <<clip, copied, left>>
    BY <1>17 DEF RevealCopies, Overwrite
  <2>2. file[c] # Absent => /\ file[c] \in Values
                            /\ [Idle EXCEPT !.step = "wait", !.value = file[c]] \in Invocation
    BY <1>a, <1>e, IdleType, InvocationType DEF Steps
  <2>3. cli' \in [Tools -> Invocation]
    BY <2>1, <2>2, IdleType, BecomeType DEF TypeOK, TypeInv
  <2>4. clip' \in Values \cup {NoText, UserText} /\ copied' \in 0..MaxCopies
    BY <1>f, <2>1, <2>2 DEF TypeOK, TypeInv
  <2>5. left' \in BOOLEAN
    BY <2>1 DEF TypeOK, TypeInv
  <2>6. copies <= copied'
    BY <1>f, <2>1 DEF TypeOK, TypeInv
  <2> QED BY <1>0, <1>17, <2>3, <2>4, <2>5, <2>6 DEF RevealCopies, TypeOK, TypeInv
<1>18. ASSUME NEW t \in Tools, LookBeforeClear(t) PROVE TypeInv'
  <2>1. [cli[t] EXCEPT !.step = "clear"] \in Invocation
    BY <1>e, InvocationType DEF Steps
  <2>2. cli' \in [Tools -> Invocation]
    BY <1>18, <2>1, IdleType, BecomeType DEF LookBeforeClear, Unable, TypeOK, TypeInv
  <2> QED BY <1>0, <1>18, <2>2, FaultType DEF LookBeforeClear, Unable, NoFault, TypeOK, TypeInv
<1>19. ASSUME NEW t \in Tools, Clear(t) PROVE TypeInv'
  <2>1. cli' \in [Tools -> Invocation]
    BY <1>19, IdleType, BecomeType DEF Clear, Unable, TypeOK, TypeInv
  <2> QED BY <1>0, <1>19, <2>1, FaultType DEF Clear, Unable, Overwrite, NoFault, TypeOK, TypeInv
<1>20. ASSUME NEW t \in Tools, NEW cs \in SUBSET Creds, Run(t, cs) PROVE TypeInv'
  <2>1. [Idle EXCEPT !.step = "run", !.creds = cs] \in Invocation
    BY IdleType, InvocationType DEF Steps
  <2> QED BY <1>0, <1>20, <2>1, BecomeType DEF Run, TypeOK, TypeInv
<1>21. ASSUME NEW t \in Tools, RunUnlock(t) PROVE TypeInv'
  <2>1. [cli[t] EXCEPT !.step = "child", !.recs = file, !.dead = killed] \in Invocation
    BY <1>e, InvocationType DEF Steps, TypeOK, TypeInv
  <2> QED BY <1>0, <1>21, <2>1, IdleType, BecomeType DEF RunUnlock, TypeOK, TypeInv
<1>22. ASSUME NEW t \in Tools, ChildEnds(t) PROVE TypeInv'
  BY <1>0, <1>22, IdleType, BecomeType DEF ChildEnds, TypeOK, TypeInv
<1>23. ASSUME NEW t \in Tools, ToolEnds(t) PROVE TypeInv'
  BY <1>0, <1>23, IdleType, BecomeType, FaultType DEF ToolEnds, TypeOK, TypeInv
<1>24. CASE ServerStarts \/ ServerStops
  <2>1. << >> \in Seq(0..MaxNow)
    BY <1>f
  <2> QED BY <1>0, <1>24, <2>1, IdleType DEF ServerStarts, ServerStops, TypeOK, TypeInv
<1>25. ASSUME NEW c \in Creds, ServerReveals(c) PROVE TypeInv'
  <2>1. Young(hist) \in Seq(0..MaxNow)
    BY OldType DEF TypeOK, TypeInv
  <2>2. Append(Young(hist), now) \in Seq(0..MaxNow) /\ Append(answered, now) \in Seq(0..MaxNow)
    BY <2>1 DEF TypeOK, TypeInv
  <2> QED BY <1>0, <1>25, <2>1, <2>2 DEF ServerReveals, TypeOK, TypeInv
<1>26. CASE Tick
  BY <1>0, <1>26, <1>f DEF Tick, TypeOK, TypeInv
<1>27. CASE UserCopies
  BY <1>0, <1>27 DEF UserCopies, Overwrite, TypeOK, TypeInv
<1>28. CASE UNCHANGED vars
  BY <1>28 DEF vars, TypeOK, TypeInv
<1> QED
  BY <1>1, <1>2, <1>3, <1>4, <1>5, <1>6, <1>7, <1>8, <1>9, <1>10, <1>11, <1>12, <1>13, <1>14,
     <1>15, <1>16, <1>17, <1>18, <1>19, <1>20, <1>21, <1>22, <1>23, <1>24, <1>25, <1>26, <1>27,
     <1>28 DEF Next
LEMMA TypeInvariant == Spec => []TypeInv
BY InitTypeInv, NextTypeInv, PTL DEF Spec

LEMMA BecomeIs ==
  ASSUME TypeInv, NEW t \in Tools, NEW inv, Become(t, inv)
  PROVE  \A u \in Tools : cli'[u] = IF u = t THEN inv ELSE cli[u]
BY DEF Become, TypeInv, TypeOK

LEMMA IdleIs == Idle.step = "idle" /\ Idle.value = Absent
BY DEF Idle

-----------------------------------------------------------------------------
(* Writers that take turns.                                                *)

AddSteps == {"add", "added", "put"}
Gone     == {c \in Creds : rows[c] \in {"revoked", "deleted"}}

\* The credentials of two invocations of `add` differ, and none has a row before
\* its AddRow.  What was revoked or deleted never becomes active again.
RowsInv ==
  /\ \A t \in Tools :
       cli[t].step \in AddSteps =>
         /\ cli[t].value \in Values
         /\ \A c \in cli[t].creds : (cli[t].step = "put") <=> (rows[c] # "new")
         /\ \A u \in Tools \ {t} :
              cli[u].step \in AddSteps => cli[t].creds \cap cli[u].creds = {}
  /\ marked \cup killed \subseteq Gone
  /\ \A c \in acked : rows[c] # "new"

\* What an `add` has read is the file still: the desktop is locked, and no other
\* `add` is as far.  An erased value is back nowhere.  A value reported is in the
\* file, and in the records the desktop will write.
TurnsInv ==
  turns =>
    /\ \A t \in Tools : Adding(t) => /\ ~open /\ cli[t].recs = file
                                     /\ \A c \in cli[t].creds : rows[c] \in {"new", "active"}
                                     /\ \A u \in Tools : Adding(u) => u = t
    /\ \A c \in killed : file[c] = Absent /\ recs[c] = Absent
    /\ \A c \in acked \cap Active : file[c] # Absent /\ (open => recs[c] # Absent)

\* The steps of an invocation that is no `add`.
OtherTool(t) ==
  \/ \E c \in Creds : Reveal(t, c)
  \/ RevealCopies(t) \/ LookBeforeClear(t) \/ Clear(t)
  \/ \E cs \in SUBSET Creds : Run(t, cs)
  \/ RunUnlock(t) \/ ChildEnds(t) \/ ToolEnds(t)

\* No step but RunUnlock starts a child, and none of these goes on with an `add`.
Becomes(t, inv) ==
  Become(t, inv) /\ inv.step \notin AddSteps /\ (inv.step = "child" => RunUnlock(t))

LEMMA OtherToolIs ==
  ASSUME TypeInv, NEW t \in Tools, OtherTool(t)
  PROVE  /\ \E inv : Becomes(t, inv)
         /\ UNCHANGED <<rows, file, open, recs, marked, killed, acked>>
<1> USE DEF disk, desktop, server, clipboard, reports
<1>0. cli[t] \in Invocation
  BY DEF TypeInv, TypeOK
<1>1. ASSUME NEW c \in Creds, Reveal(t, c) PROVE \E inv : Becomes(t, inv)
  <2>1. [Idle EXCEPT !.step = "reveal", !.creds = {c}].step = "reveal"
    BY DEF Idle
  <2> QED BY <1>1, <2>1 DEF Reveal, AddSteps, Becomes
<1>2. ASSUME RevealCopies(t) PROVE \E inv : Becomes(t, inv)
  <2>1. \A v : [Idle EXCEPT !.step = "wait", !.value = v].step = "wait"
    BY DEF Idle
  <2> QED BY <1>2, <2>1, IdleIs DEF RevealCopies, AddSteps, Becomes
<1>3. ASSUME LookBeforeClear(t) PROVE \E inv : Becomes(t, inv)
  <2>1. [cli[t] EXCEPT !.step = "clear"].step = "clear"
    BY <1>0 DEF Invocation
  <2> QED BY <1>3, <2>1, IdleIs DEF LookBeforeClear, Unable, AddSteps, Becomes
<1>4. ASSUME NEW cs \in SUBSET Creds, Run(t, cs)
      PROVE  \E inv : Becomes(t, inv)
  <2>1. [Idle EXCEPT !.step = "run", !.creds = cs].step = "run"
    BY DEF Idle
  <2> QED BY <1>4, <2>1 DEF Run, AddSteps, Becomes
<1>5. ASSUME RunUnlock(t) PROVE \E inv : Becomes(t, inv)
  <2>1. [cli[t] EXCEPT !.step = "child", !.recs = file, !.dead = killed].step = "child"
    BY <1>0 DEF Invocation
  <2> QED BY <1>5, <2>1, IdleIs DEF RunUnlock, AddSteps, Becomes
<1>6. ASSUME Clear(t) \/ ChildEnds(t) \/ ToolEnds(t)
      PROVE  \E inv : Becomes(t, inv)
  BY <1>6, IdleIs DEF Clear, Unable, ChildEnds, ToolEnds, AddSteps, Becomes
<1>7. UNCHANGED <<rows, file, open, recs, marked, killed, acked>>
  BY DEF OtherTool, Reveal, RevealCopies, LookBeforeClear, Clear, Run, RunUnlock, ChildEnds,
     ToolEnds
<1> QED BY <1>1, <1>2, <1>3, <1>4, <1>5, <1>6, <1>7 DEF OtherTool

LEMMA NextRowsInv ==
  ASSUME TypeInv, RowsInv, [Next]_vars
  PROVE  RowsInv'
<1> USE DEF disk, desktop, server, clipboard, reports
<1>a. rows \in [Creds -> Statuses] /\ \A t \in Tools : cli[t].creds \subseteq Creds
  BY DEF TypeInv, TypeOK, Invocation
<1>b. acked \subseteq Creds /\ marked \subseteq Creds /\ killed \subseteq Creds
  BY DEF TypeInv, TypeOK
<1>1. ASSUME NEW c \in Creds, NEW v \in Values, Create(c, v) PROVE RowsInv'
  BY <1>1, <1>a DEF Create, Fresh, RowsInv, Gone
<1>2. ASSUME NEW c \in Creds, Delete(c) PROVE RowsInv'
  BY <1>2, <1>a DEF Delete, Listed, RowsInv, Gone
<1>3. ASSUME NEW c \in Creds, NEW e \in BOOLEAN, Revoke(c, e) PROVE RowsInv'
  BY <1>3, <1>a DEF Revoke, Active, RowsInv, Gone
<1>4. ASSUME NEW c \in Creds, Erase(c) PROVE RowsInv'
  BY <1>4 DEF Erase, RowsInv, Gone
<1>5. ASSUME NEW t \in Tools, NEW c \in Creds, NEW v \in Values, Add(t, c, v) PROVE RowsInv'
  <2>1. /\ rows[c] = "new" /\ \A u \in Tools : c \notin cli[u].creds
        /\ UNCHANGED <<rows, marked, killed, acked>>
    BY <1>5 DEF Add, Fresh
  <2>2. /\ cli'[t].step = "add" /\ cli'[t].creds = {c} /\ cli'[t].value = v
        /\ \A u \in Tools \ {t} : cli'[u] = cli[u]
    <3> DEFINE inv == [Idle EXCEPT !.step = "add", !.creds = {c}, !.value = v]
    <3>1. Become(t, inv)
      BY <1>5 DEF Add
    <3>2. inv.step = "add" /\ inv.creds = {c} /\ inv.value = v
      BY DEF Idle
    <3> HIDE DEF inv
    <3> QED BY <3>1, <3>2, BecomeIs
  <2> QED BY <2>1, <2>2 DEF RowsInv, Gone, AddSteps
<1>6. ASSUME NEW t \in Tools, AddUnlock(t) PROVE RowsInv'
  <2>1. cli[t].step = "add" /\ UNCHANGED <<rows, marked, killed, acked>>
    BY <1>6 DEF AddUnlock
  <2>2. /\ cli'[t].step = "added" /\ cli'[t].creds = cli[t].creds
        /\ cli'[t].value = cli[t].value
        /\ \A u \in Tools \ {t} : cli'[u] = cli[u]
    <3> DEFINE inv == [cli[t] EXCEPT !.step = "added", !.recs = file]
    <3>1. Become(t, inv)
      BY <1>6 DEF AddUnlock
    <3>2. inv.step = "added" /\ inv.creds = cli[t].creds /\ inv.value = cli[t].value
      BY DEF TypeInv, TypeOK, Invocation
    <3> HIDE DEF inv
    <3> QED BY <3>1, <3>2, BecomeIs
  <2> QED BY <2>1, <2>2 DEF RowsInv, Gone, AddSteps
<1>7. ASSUME NEW t \in Tools, AddRow(t) PROVE RowsInv'
  <2>1. /\ cli[t].step = "added" /\ UNCHANGED <<marked, killed, acked>>
        /\ \A c \in Creds : rows'[c] = IF c \in cli[t].creds THEN "active" ELSE rows[c]
    BY <1>7 DEF AddRow
  <2>2. /\ cli'[t].step = "put" /\ cli'[t].creds = cli[t].creds
        /\ cli'[t].value = cli[t].value
        /\ \A u \in Tools \ {t} : cli'[u] = cli[u]
    BY <1>7, BecomeIs DEF AddRow, TypeInv, TypeOK, Invocation
  <2>3. \A c \in cli[t].creds : rows[c] = "new"
    BY <2>1 DEF RowsInv, AddSteps
  <2>4. (\A u \in Tools :
          cli[u].step \in AddSteps =>
            /\ cli[u].value \in Values
            /\ \A c \in cli[u].creds : (cli[u].step = "put") <=> (rows[c] # "new"))'
    <3> SUFFICES ASSUME NEW u \in Tools, cli'[u].step \in AddSteps
                 PROVE  /\ cli'[u].value \in Values
                        /\ \A c \in cli'[u].creds : (cli'[u].step = "put") <=> (rows'[c] # "new")
      OBVIOUS
    <3>1. CASE u = t
      BY <1>a, <2>1, <2>2, <3>1 DEF RowsInv, AddSteps
    <3>2. CASE u # t
      <4>1. cli[t].creds \cap cli[u].creds = {}
        BY <2>1, <2>2, <3>2 DEF RowsInv, AddSteps
      <4> QED BY <1>a, <2>1, <2>2, <3>2, <4>1 DEF RowsInv
    <3> QED BY <3>1, <3>2
  <2>5. (\A u \in Tools : \A w \in Tools \ {u} :
           cli[u].step \in AddSteps /\ cli[w].step \in AddSteps
             => cli[u].creds \cap cli[w].creds = {})'
    BY <2>1, <2>2 DEF RowsInv, AddSteps
  <2>6. (marked \cup killed \subseteq Gone /\ \A c \in acked : rows[c] # "new")'
    BY <2>1, <2>3, <1>b DEF RowsInv, Gone
  <2> QED BY <2>4, <2>5, <2>6 DEF RowsInv
<1>8. ASSUME NEW t \in Tools, AddFlush(t) PROVE RowsInv'
  <2>1. /\ cli[t].step = "put" /\ UNCHANGED <<marked, killed>>
        /\ acked' \subseteq acked \cup cli[t].creds
        /\ \/ rows' = rows
           \/ \A c \in Creds : rows'[c] = IF c \in cli[t].creds THEN "deleted" ELSE rows[c]
    BY <1>8 DEF AddFlush
  <2>2. cli'[t].step = "idle" /\ \A u \in Tools \ {t} : cli'[u] = cli[u]
    BY <1>8, BecomeIs, IdleIs DEF AddFlush
  <2>3. \A c \in cli[t].creds : rows[c] # "new"
    BY <2>1 DEF RowsInv, AddSteps
  <2>4. \A c \in Creds : (rows'[c] # "new" <=> rows[c] # "new") /\ (c \in Gone => c \in Gone')
    BY <2>1, <2>3 DEF Gone
  <2> QED BY <1>a, <1>b, <2>1, <2>2, <2>3, <2>4 DEF RowsInv, AddSteps
<1>9. ASSUME NEW t \in Tools, OtherTool(t) PROVE RowsInv'
  <2>1. PICK inv : Become(t, inv) /\ inv.step \notin AddSteps
    BY <1>9, OtherToolIs DEF Becomes
  <2>2. \A u \in Tools : cli'[u] = IF u = t THEN inv ELSE cli[u]
    BY <2>1, BecomeIs
  <2> QED BY <1>9, <2>1, <2>2, OtherToolIs DEF RowsInv, Gone
<1>10. CASE \/ Unlock \/ Lock \/ SpawnTimer \/ TimerClears \/ DesktopEnds
            \/ ServerStarts \/ ServerStops \/ Tick \/ UserCopies
            \/ \E c \in Creds : Copy(c) \/ ServerReveals(c) \/ \E v \in Values : Rotate(c, v)
  BY <1>10 DEF Unlock, Lock, SpawnTimer, TimerClears, DesktopEnds, ServerStarts,
     ServerStops, Tick,
     UserCopies, Copy, ServerReveals, Rotate, RowsInv, Gone
<1>11. CASE UNCHANGED vars
  BY <1>11 DEF vars, RowsInv, Gone
<1> QED
  BY <1>1, <1>2, <1>3, <1>4, <1>5, <1>6, <1>7, <1>8, <1>9, <1>10, <1>11 DEF Next, OtherTool
LEMMA NextTurnsInv ==
  ASSUME TypeInv, RowsInv, TurnsInv, [Next]_vars
  PROVE  TurnsInv'
<1> USE DEF disk, desktop, server, clipboard, reports
<1>0. turns' = turns
  BY DEF Next, vars
<1> SUFFICES ASSUME turns PROVE TurnsInv'
  BY <1>0 DEF TurnsInv
<1>a. /\ rows \in [Creds -> Statuses] /\ file \in [Creds -> Values \cup {Absent}]
      /\ recs \in [Creds -> Values \cup {Absent}] /\ Absent \notin Values
      /\ acked \subseteq Creds /\ marked \subseteq Creds /\ killed \subseteq Creds
  BY ProcessesAssumption DEF TypeInv, TypeOK, Records
<1>b. killed \subseteq Gone /\ marked \subseteq Gone /\ \A c \in acked : rows[c] # "new"
  BY DEF RowsInv
<1>c. Gone \cap Active = {} /\ \A c \in Gone : rows[c] # "new"
  BY DEF Gone, Active
<1>d. open => \A t \in Tools : ~Adding(t)
  BY DEF TurnsInv
<1>e. \A t \in Tools : /\ cli[t] \in Invocation /\ cli[t].creds \subseteq Creds
  BY DEF TypeInv, TypeOK, Invocation
<1>f. \A c \in Creds : Empty[c] = Absent
  BY DEF Empty
<1>1. CASE Unlock
  BY <1>0, <1>1, <1>a, <1>b DEF Unlock, TurnsInv, Adding, Active
<1>2. ASSUME NEW c \in Creds, NEW v \in Values, Create(c, v) PROVE TurnsInv'
  <2>1. c \notin killed /\ c \notin acked /\ \A t \in Tools : ~Adding(t)'
    BY <1>2, <1>b, <1>c, <1>d DEF Create, Fresh, Adding
  <2> QED BY <1>0, <1>2, <1>a, <2>1 DEF Create, TurnsInv, Active
<1>3. ASSUME NEW c \in Creds, NEW v \in Values, Rotate(c, v) PROVE TurnsInv'
  <2>1. c \notin killed /\ \A t \in Tools : ~Adding(t)'
    BY <1>3, <1>b, <1>c, <1>d DEF Rotate, Adding
  <2> QED BY <1>0, <1>3, <1>a, <2>1 DEF Rotate, TurnsInv, Active
<1>4. ASSUME NEW c \in Creds, Delete(c) PROVE TurnsInv'
  <2>1. \A t \in Tools : ~Adding(t)'
    BY <1>4, <1>d DEF Delete, Adding
  <2> QED BY <1>0, <1>4, <1>a, <2>1 DEF Delete, TurnsInv, Active
<1>5. ASSUME NEW c \in Creds, NEW e \in BOOLEAN, Revoke(c, e) PROVE TurnsInv'
  <2>1. \A t \in Tools : ~Adding(t)'
    BY <1>5, <1>d DEF Revoke, Adding
  <2> QED BY <1>0, <1>5, <1>a, <2>1 DEF Revoke, TurnsInv, Active
<1>6. ASSUME NEW c \in Creds, Erase(c) PROVE TurnsInv'
  <2>1. c \notin Active /\ rows' = rows /\ acked' = acked /\ cli' = cli /\ open' = open
    BY <1>6, <1>b, <1>c DEF Erase
  <2>2. CASE open
    <3>1. \A t \in Tools : ~Adding(t)'
      BY <1>d, <2>1, <2>2 DEF Adding
    <3>2. \A x \in Creds : recs'[x] = IF x = c THEN Absent ELSE recs[x]
      BY <1>6, <1>a, <2>2 DEF Erase
    <3>3. (file' = recs' /\ killed' = killed \cup {c}) \/ (file' = file /\ killed' = killed)
      BY <1>6, <2>2 DEF Erase
    <3>4. (\A x \in killed : file[x] = Absent /\ recs[x] = Absent)'
      BY <1>a, <3>2, <3>3 DEF TurnsInv
    <3>5. (\A x \in acked \cap Active : file[x] # Absent /\ recs[x] # Absent)'
      BY <1>a, <2>1, <2>2, <3>2, <3>3 DEF TurnsInv, Active
    <3> QED BY <1>0, <3>1, <3>4, <3>5 DEF TurnsInv
  <2>3. CASE ~open
    BY <1>0, <1>6, <2>1, <2>3 DEF Erase, TurnsInv, Adding, Active
  <2> QED BY <2>2, <2>3
<1>7. CASE Lock
  <2>1. \A t \in Tools : ~Adding(t)'
    BY <1>7, <1>d DEF Lock, Adding
  <2> QED BY <1>0, <1>7, <1>a, <1>f, <2>1 DEF Lock, TurnsInv, Active
<1>8. CASE DesktopEnds
  BY <1>0, <1>8, <1>a, <1>f DEF DesktopEnds, TurnsInv, Adding, Active
<1>9. ASSUME NEW t \in Tools, NEW c \in Creds, NEW v \in Values, Add(t, c, v) PROVE TurnsInv'
  <2>1. UNCHANGED <<rows, file, open, recs, killed, acked>>
    BY <1>9 DEF Add
  <2> DEFINE inv == [Idle EXCEPT !.step = "add", !.creds = {c}, !.value = v]
  <2>2. Become(t, inv) /\ inv.step = "add"
    BY <1>9 DEF Add, Idle
  <2> HIDE DEF inv
  <2>3. \A u \in Tools : Adding(u)' => Adding(u) /\ cli'[u] = cli[u]
    BY <2>2, BecomeIs DEF Adding
  <2> QED BY <1>0, <2>1, <2>3 DEF TurnsInv, Active
<1>10. ASSUME NEW t \in Tools, AddUnlock(t) PROVE TurnsInv'
  <2>1. /\ UNCHANGED <<rows, file, open, recs, killed, acked>> /\ cli[t].step = "add"
        /\ ~open /\ \A u \in Tools : ~Adding(u)
    BY <1>10 DEF AddUnlock
  <2> DEFINE inv == [cli[t] EXCEPT !.step = "added", !.recs = file]
  <2>2. Become(t, inv) /\ inv.recs = file /\ inv.creds = cli[t].creds
    BY <1>10, <1>e DEF AddUnlock, Invocation
  <2> HIDE DEF inv
  <2>3. \A u \in Tools : cli'[u] = IF u = t THEN inv ELSE cli[u]
    BY <2>2, BecomeIs
  <2>4. \A u \in Tools : Adding(u)' => u = t
    BY <2>1, <2>3 DEF Adding
  <2>5. \A c \in cli[t].creds : rows[c] = "new"
    BY <2>1, <1>a, <1>e DEF RowsInv, AddSteps
  <2> QED BY <1>0, <2>1, <2>2, <2>3, <2>4, <2>5 DEF TurnsInv, Active
<1>11. ASSUME NEW t \in Tools, AddRow(t) PROVE TurnsInv'
  <2>1. /\ UNCHANGED <<file, open, recs, killed, acked>> /\ cli[t].step = "added"
        /\ \A c \in Creds : rows'[c] = IF c \in cli[t].creds THEN "active" ELSE rows[c]
    BY <1>11 DEF AddRow
  <2> DEFINE inv == [cli[t] EXCEPT !.step = "put"]
  <2>2. /\ Become(t, inv) /\ inv.recs = cli[t].recs /\ inv.creds = cli[t].creds
    BY <1>11, <1>e DEF AddRow, Invocation
  <2> HIDE DEF inv
  <2>3. \A u \in Tools : cli'[u] = IF u = t THEN inv ELSE cli[u]
    BY <2>2, BecomeIs
  <2>4. Adding(t) /\ \A u \in Tools : Adding(u)' => u = t
    BY <2>1, <2>3 DEF Adding, TurnsInv
  <2>5. acked \cap Active' \subseteq acked \cap Active
    BY <1>a, <1>b, <2>1 DEF RowsInv, AddSteps, Active
  <2> QED BY <1>0, <1>e, <2>1, <2>2, <2>3, <2>4, <2>5 DEF TurnsInv
<1>12. ASSUME NEW t \in Tools, AddFlush(t) PROVE TurnsInv'
  <2> DEFINE mine == cli[t].creds
  <2>1. /\ Adding(t) /\ ~open /\ cli[t].recs = file /\ cli[t].value \in Values
        /\ \A c \in mine : rows[c] \in {"new", "active"}
        /\ \A u \in Tools : Adding(u) => u = t
    BY <1>12 DEF AddFlush, Adding, TurnsInv, RowsInv, AddSteps
  <2>2. \A u \in Tools : cli'[u] = IF u = t THEN Idle ELSE cli[u]
    BY <1>12, BecomeIs DEF AddFlush
  <2>3. \A u \in Tools : ~Adding(u)'
    BY <2>1, <2>2, IdleIs DEF Adding
  <2>4. UNCHANGED <<open, recs, killed>>
    BY <1>12 DEF AddFlush
  <2>5. \/ /\ \A c \in Creds : file'[c] = IF c \in mine THEN cli[t].value ELSE file[c]
           /\ acked' = acked \cup mine /\ rows' = rows
        \/ /\ file' = file /\ acked' = acked
           /\ \/ \A c \in Creds : rows'[c] = IF c \in mine THEN "deleted" ELSE rows[c]
              \/ rows' = rows
    BY <1>12, <2>1 DEF AddFlush
  <2>6. mine \cap killed = {}
    BY <1>b, <2>1 DEF Gone
  <2>7. (\A c \in killed : file[c] = Absent /\ recs[c] = Absent)'
    BY <1>a, <2>4, <2>5, <2>6 DEF TurnsInv
  <2>8. (\A c \in acked \cap Active : file[c] # Absent)'
    BY <1>a, <1>e, <2>1, <2>5 DEF TurnsInv, Active
  <2> QED BY <1>0, <2>1, <2>3, <2>4, <2>7, <2>8 DEF TurnsInv
<1>13. ASSUME NEW t \in Tools, OtherTool(t) PROVE TurnsInv'
  <2>1. PICK inv : Become(t, inv) /\ inv.step \notin AddSteps
    BY <1>13, OtherToolIs DEF Becomes
  <2>2. UNCHANGED <<rows, file, open, recs, killed, acked>>
    BY <1>13, OtherToolIs
  <2>3. \A u \in Tools : Adding(u)' => Adding(u) /\ cli'[u] = cli[u]
    BY <2>1, BecomeIs DEF Adding, AddSteps
  <2> QED BY <1>0, <2>2, <2>3 DEF TurnsInv, Active
<1>14. CASE \/ SpawnTimer \/ TimerClears \/ ServerStarts \/ ServerStops \/ Tick \/ UserCopies
            \/ \E c \in Creds : Copy(c) \/ ServerReveals(c)
  BY <1>0, <1>14 DEF SpawnTimer, TimerClears, ServerStarts, ServerStops, Tick, UserCopies,
     Copy,
     ServerReveals, TurnsInv, Adding, Active
<1>15. CASE UNCHANGED vars
  BY <1>15 DEF vars, TurnsInv, Adding, Active
<1> QED
  BY <1>1, <1>2, <1>3, <1>4, <1>5, <1>6, <1>7, <1>8, <1>9, <1>10, <1>11, <1>12, <1>13, <1>14,
     <1>15 DEF Next, OtherTool

LEMMA TurnsInvariant == Spec => [](TypeInv /\ RowsInv /\ TurnsInv)
<1>1. Init => TypeInv /\ RowsInv /\ TurnsInv
  <2> SUFFICES ASSUME Init PROVE RowsInv /\ TurnsInv
    BY InitTypeInv
  <2>1. (\A t \in Tools : cli[t].step = "idle") /\ acked = {} /\ killed = {} /\ marked = {}
    BY IdleIs DEF Init
  <2> QED BY <2>1 DEF RowsInv, TurnsInv, AddSteps, Adding
<1>2. TypeInv /\ RowsInv /\ TurnsInv /\ [Next]_vars => (TypeInv /\ RowsInv /\ TurnsInv)'
  BY NextTypeInv, NextRowsInv, NextTurnsInv
<1> QED BY <1>1, <1>2, PTL DEF Spec

\* cmd_add: when writers take turns, a credential that was reported has its value
\* in vault.age until it is revoked or deleted.
THEOREM AckedAlwaysSurvives == Spec => []AckedSurvives
<1>1. TurnsInv => AckedSurvives
  BY DEF TurnsInv, AckedSurvives
<1> QED BY <1>1, TurnsInvariant, PTL
-----------------------------------------------------------------------------
(* What `run` hands to a child.                                            *)

\* Only its own RunUnlock makes an invocation one with a child.
LEMMA NoOtherChild ==
  ASSUME TypeInv, [Next]_vars, \A t \in Tools : ~RunUnlock(t)
  PROVE  \A u \in Tools : cli'[u].step = "child" => cli'[u] = cli[u]
<1> USE DEF disk, desktop, server, clipboard, reports
<1>0. \A t \in Tools : cli[t] \in Invocation
  BY DEF TypeInv, TypeOK
<1>a. ASSUME NEW t \in Tools, NEW inv, Become(t, inv), inv.step # "child"
      PROVE  \A u \in Tools : cli'[u].step = "child" => cli'[u] = cli[u]
  BY <1>a, BecomeIs
<1>1. ASSUME NEW t \in Tools, OtherTool(t)
      PROVE  \A u \in Tools : cli'[u].step = "child" => cli'[u] = cli[u]
  BY <1>1, <1>a, OtherToolIs DEF Becomes
<1>2. ASSUME NEW t \in Tools, NEW c \in Creds, NEW v \in Values, Add(t, c, v)
      PROVE  \A u \in Tools : cli'[u].step = "child" => cli'[u] = cli[u]
  <2>1. [Idle EXCEPT !.step = "add", !.creds = {c}, !.value = v].step = "add"
    BY DEF Idle
  <2>2. Become(t, [Idle EXCEPT !.step = "add", !.creds = {c}, !.value = v])
    BY <1>2 DEF Add
  <2> QED BY <1>a, <2>1, <2>2
<1>3. ASSUME NEW t \in Tools, AddUnlock(t)
      PROVE  \A u \in Tools : cli'[u].step = "child" => cli'[u] = cli[u]
  <2>1. [cli[t] EXCEPT !.step = "added", !.recs = file].step = "added"
    BY <1>0 DEF Invocation
  <2>2. Become(t, [cli[t] EXCEPT !.step = "added", !.recs = file])
    BY <1>3 DEF AddUnlock
  <2> QED BY <1>a, <2>1, <2>2
<1>4. ASSUME NEW t \in Tools, AddRow(t)
      PROVE  \A u \in Tools : cli'[u].step = "child" => cli'[u] = cli[u]
  <2>1. [cli[t] EXCEPT !.step = "put"].step = "put"
    BY <1>0 DEF Invocation
  <2>2. Become(t, [cli[t] EXCEPT !.step = "put"])
    BY <1>4 DEF AddRow
  <2> QED BY <1>a, <2>1, <2>2
<1>5. ASSUME NEW t \in Tools, AddFlush(t)
      PROVE  \A u \in Tools : cli'[u].step = "child" => cli'[u] = cli[u]
  BY <1>5, <1>a, IdleIs DEF AddFlush
<1>6. CASE \/ Unlock \/ Lock \/ SpawnTimer \/ TimerClears \/ DesktopEnds
           \/ ServerStarts \/ ServerStops \/ Tick \/ UserCopies
           \/ \E c \in Creds :
                \/ Delete(c) \/ Erase(c) \/ Copy(c) \/ ServerReveals(c)
                \/ \E v \in Values : Create(c, v) \/ Rotate(c, v)
                \/ \E e \in BOOLEAN : Revoke(c, e)
  BY <1>6 DEF Unlock, Lock, SpawnTimer, TimerClears, DesktopEnds, ServerStarts,
     ServerStops, Tick,
     UserCopies, Delete, Erase, Copy, ServerReveals, Create, Rotate, Revoke
<1>7. CASE UNCHANGED vars
  BY <1>7 DEF vars
<1> QED BY <1>1, <1>6, <1>7, <1>2, <1>3, <1>4, <1>5 DEF Next, OtherTool

LEMMA NextRunInjectsLive ==
  ASSUME TypeInv, TurnsInv, RunInjectsLive, [Next]_vars
  PROVE  RunInjectsLive'
<1>0. turns' = turns
  BY DEF Next, vars
<1>1. ASSUME NEW t \in Tools, RunUnlock(t), turns PROVE RunInjectsLive'
  <2>0. cli[t] \in Invocation
    BY DEF TypeInv, TypeOK
  <2> DEFINE inv == [cli[t] EXCEPT !.step = "child", !.recs = file, !.dead = killed]
  <2>1. inv.creds = cli[t].creds /\ inv.dead = killed
    BY <2>0 DEF Invocation
  <2>2. \/ Become(t, Idle)
        \/ Become(t, inv) /\ \A c \in cli[t].creds : file[c] # Absent
    BY <1>1 DEF RunUnlock
  <2> HIDE DEF inv
  <2>3. \A c \in killed : file[c] = Absent
    BY <1>1 DEF TurnsInv
  <2>4. CASE Become(t, Idle)
    <3>1. \A u \in Tools : cli'[u] = IF u = t THEN Idle ELSE cli[u]
      BY <2>4, BecomeIs
    <3> QED BY <1>1, <3>1, IdleIs DEF RunInjectsLive
  <2>5. CASE Become(t, inv) /\ \A c \in cli[t].creds : file[c] # Absent
    <3>1. inv.creds \cap inv.dead = {}
      BY <2>1, <2>3, <2>5
    <3>2. \A u \in Tools : cli'[u] = IF u = t THEN inv ELSE cli[u]
      BY <2>5, BecomeIs
    <3> QED BY <1>1, <3>1, <3>2 DEF RunInjectsLive
  <2> QED BY <2>2, <2>4, <2>5
<1>2. ASSUME \A t \in Tools : ~RunUnlock(t) PROVE RunInjectsLive'
  BY <1>0, <1>2, NoOtherChild DEF RunInjectsLive
<1> QED BY <1>0, <1>1, <1>2 DEF RunInjectsLive

\* cmd_run: a child is given no value whose erasure was saved before the file
\* was read, although the status was looked at before the passphrase was asked.
THEOREM RunAlwaysInjectsLive == Spec => []RunInjectsLive
<1>1. Init => RunInjectsLive
  BY IdleIs DEF Init, RunInjectsLive
<1>2. TypeInv /\ TurnsInv /\ RunInjectsLive /\ [Next]_vars => RunInjectsLive'
  BY NextRunInjectsLive
<1> QED BY <1>1, <1>2, TurnsInvariant, PTL DEF Spec

-----------------------------------------------------------------------------
(* The clipboard.                                                          *)

LEMMA NextSecretHasTimer ==
  ASSUME TypeInv, SecretHasTimer, [Next]_vars
  PROVE  SecretHasTimer'
<1> USE DEF disk, desktop, server, clipboard, reports
<1>0. /\ copies \in Nat /\ timer \in BOOLEAN /\ left \in BOOLEAN
      /\ NoText \notin Values /\ UserText \notin Values
  BY ProcessesAssumption DEF TypeInv, TypeOK
<1>b. \A t \in Tools : cli[t] \in Invocation
  BY DEF TypeInv, TypeOK
<1>1. ASSUME NEW t \in Tools, NEW inv, Become(t, inv),
             clip' = clip, timer' = timer, copies' = copies,
             left \/ (ToClear(t) /\ clip = cli[t].value) => left'
      PROVE  SecretHasTimer'
  <2>1. \A u \in Tools : u # t => cli'[u] = cli[u]
    BY <1>1, BecomeIs
  <2> QED BY <1>1, <2>1 DEF SecretHasTimer, ToClear
<1>2. ASSUME NEW t \in Tools,
             \/ \E c \in Creds, v \in Values : Add(t, c, v)
             \/ AddUnlock(t) \/ AddRow(t) \/ AddFlush(t)
             \/ \E c \in Creds : Reveal(t, c)
             \/ \E cs \in SUBSET Creds : Run(t, cs)
             \/ RunUnlock(t) \/ ChildEnds(t)
      PROVE  SecretHasTimer'
  <2>1. ~ToClear(t)
    BY <1>2, IdleIs DEF Add, AddUnlock, AddRow, AddFlush, Reveal, Run, RunUnlock, ChildEnds,
       ToClear
  <2>2. (\E inv : Become(t, inv)) /\ UNCHANGED <<clip, timer, copies, left>>
    BY <1>2 DEF Add, AddUnlock, AddRow, AddFlush, Reveal, Run, RunUnlock, ChildEnds
  <2> QED BY <1>1, <2>1, <2>2
<1>3. ASSUME NEW t \in Tools, RevealCopies(t) PROVE SecretHasTimer'
  <2>1. PICK c \in cli[t].creds :
          \/ /\ clip' = file[c] /\ Become(t, [Idle EXCEPT !.step = "wait", !.value = file[c]])
          \/ left'
          \/ Become(t, Idle) /\ clip' = clip /\ left' = left
    BY <1>3 DEF RevealCopies, Overwrite
  <2>2. CASE Become(t, Idle) /\ clip' = clip /\ left' = left
    <3>1. ~ToClear(t) /\ timer' = timer /\ copies' = copies
      BY <1>3 DEF RevealCopies, ToClear
    <3> QED BY <1>1, <2>2, <3>1
  <2>3. CASE clip' = file[c] /\ Become(t, [Idle EXCEPT !.step = "wait", !.value = file[c]])
    <3> DEFINE inv == [Idle EXCEPT !.step = "wait", !.value = file[c]]
    <3>1. inv.step = "wait" /\ inv.value = clip' /\ Become(t, inv)
      BY <2>3 DEF Idle
    <3> HIDE DEF inv
    <3> QED BY <3>1, BecomeIs DEF SecretHasTimer, ToClear
  <2>4. CASE left'
    BY <2>4 DEF SecretHasTimer
  <2> QED BY <2>1, <2>2, <2>3, <2>4
<1>4. ASSUME NEW t \in Tools, Unable(t), timer' = timer, copies' = copies PROVE SecretHasTimer'
  BY <1>1, <1>4 DEF Unable
<1>5. ASSUME NEW t \in Tools, LookBeforeClear(t), ~Unable(t) PROVE SecretHasTimer'
  <2> DEFINE inv == [cli[t] EXCEPT !.step = "clear"]
  <2>1. inv.step = "clear" /\ inv.value = cli[t].value
    BY <1>b DEF Invocation
  <2>2. /\ Become(t, IF clip = cli[t].value THEN inv ELSE Idle)
        /\ UNCHANGED <<clip, timer, copies, left>>
    BY <1>5 DEF LookBeforeClear
  <2> HIDE DEF inv
  <2>3. \A u \in Tools : cli'[u] = IF u = t THEN IF clip = cli[t].value THEN inv ELSE Idle ELSE cli[u]
    BY <2>2, BecomeIs
  <2>4. CASE clip = cli[t].value
    BY <2>1, <2>2, <2>3, <2>4 DEF SecretHasTimer, ToClear
  <2>5. CASE clip # cli[t].value
    BY <1>1, <2>2, <2>5
  <2> QED BY <2>4, <2>5
<1>6. ASSUME NEW t \in Tools, LookBeforeClear(t) \/ Clear(t) \/ ToolEnds(t)
      PROVE  SecretHasTimer'
  <2>1. CASE Unable(t)
    BY <1>4, <1>6, <2>1 DEF LookBeforeClear, Clear, ToolEnds
  <2>2. CASE Clear(t) /\ ~Unable(t)
    BY <1>0, <2>2 DEF Clear, Overwrite, SecretHasTimer
  <2>3. CASE ToolEnds(t)
    BY <1>1, <2>3 DEF ToolEnds
  <2> QED BY <1>5, <1>6, <2>1, <2>2, <2>3
<1>7. CASE UserCopies
  BY <1>0, <1>7 DEF UserCopies, Overwrite, SecretHasTimer
<1>8. CASE TimerClears
  BY <1>0, <1>8 DEF TimerClears, Overwrite, SecretHasTimer
<1>9. CASE DesktopEnds
  BY <1>0, <1>9 DEF DesktopEnds, SecretHasTimer, ToClear
<1>10. CASE SpawnTimer \/ \E c \in Creds : Copy(c)
  <2>1. timer' \/ copies' > 0
    BY <1>0, <1>10 DEF SpawnTimer, Copy
  <2> QED BY <2>1 DEF SecretHasTimer
<1>11. ASSUME UNCHANGED <<cli, clip, timer, copies, left>>
       PROVE  SecretHasTimer'
  BY <1>11 DEF SecretHasTimer, ToClear
<1>12. CASE \/ Unlock \/ Lock \/ ServerStarts \/ ServerStops \/ Tick
            \/ \E c \in Creds :
                 \/ Delete(c) \/ Erase(c) \/ ServerReveals(c)
                 \/ \E v \in Values : Create(c, v) \/ Rotate(c, v)
                 \/ \E e \in BOOLEAN : Revoke(c, e)
  BY <1>11, <1>12 DEF Unlock, Lock, ServerStarts, ServerStops, Tick, Delete, Erase,
     ServerReveals, Create, Rotate, Revoke
<1>13. CASE UNCHANGED vars
  BY <1>11, <1>13 DEF vars
<1> QED BY <1>2, <1>3, <1>6, <1>7, <1>8, <1>9, <1>10, <1>12, <1>13 DEF Next

\* spawn_timer and copy_to_clipboard_with_clear: a copied secret in the clipboard
\* has someone who is about to clear it, or was left by whoever was to.
THEOREM SecretAlwaysHasTimer == Spec => []SecretHasTimer
<1>1. Init => SecretHasTimer
  BY ProcessesAssumption DEF Init, SecretHasTimer
<1>2. TypeInv /\ SecretHasTimer /\ [Next]_vars => SecretHasTimer'
  BY NextSecretHasTimer
<1> QED BY <1>1, <1>2, TypeInvariant, PTL DEF Spec
-----------------------------------------------------------------------------
(* The quota of the server.                                                *)

\* f says where each reveal that was answered stands in reveal_history.  One that
\* was dropped, with a place before the first, is older than an hour.
PlaceOf(f, given, kept, time) ==
  /\ \A i, j \in DOMAIN given : i # j => f[i] # f[j]
  /\ \A j \in DOMAIN given :
       /\ f[j] <= Len(kept)
       /\ f[j] >= 1 => kept[f[j]] = given[j]
       /\ f[j] < 1 => given[j] + Hour < time
PlacesInv == \E f \in [DOMAIN answered -> Int] : PlaceOf(f, answered, hist, now)

\* The reveals answered in the hour before the i-th.
InHour(given, i) == {j \in 1..i : given[j] + Hour >= given[i]}

QuotaInv == PlacesInv /\ QuotaHeld

LEMMA NextQuotaInv ==
  ASSUME TypeInv, QuotaInv, [Next]_vars
  PROVE  QuotaInv'
<1> USE DEF disk, desktop, server, clipboard, reports
<1>0. /\ Hour \in Nat /\ Quota \in Nat /\ now \in Nat
      /\ hist \in Seq(0..MaxNow) /\ answered \in Seq(0..MaxNow)
      /\ DOMAIN answered = 1..Len(answered) /\ Len(answered) \in Nat /\ Len(hist) \in Nat
      /\ \A j \in DOMAIN answered : answered[j] \in Nat
      /\ \A j \in 1..Len(hist) : hist[j] \in Nat
  BY ProcessesAssumption DEF TypeInv, TypeOK
<1>1. CASE ServerStarts \/ ServerStops
  <2>1. hist' = << >> /\ answered' = << >> /\ DOMAIN answered' = {}
    BY <1>1 DEF ServerStarts, ServerStops
  <2>2. PlacesInv'
    <3>1. \A f \in [DOMAIN answered' -> Int] : PlaceOf(f, answered', hist', now')
      BY <2>1 DEF PlaceOf
    <3>2. [j \in DOMAIN answered' |-> 0] \in [DOMAIN answered' -> Int]
      OBVIOUS
    <3> QED BY <3>1, <3>2 DEF PlacesInv
  <2> QED BY <2>1, <2>2 DEF QuotaInv, QuotaHeld
<1>2. CASE Tick
  <2>1. UNCHANGED <<hist, answered>> /\ now' = now + 1
    BY <1>2 DEF Tick
  <2>2. PICK f \in [DOMAIN answered -> Int] : PlaceOf(f, answered, hist, now)
    BY DEF QuotaInv, PlacesInv
  <2>3. PlaceOf(f, answered', hist', now')
    BY <1>0, <2>1, <2>2 DEF PlaceOf
  <2> QED BY <2>1, <2>3 DEF QuotaInv, PlacesInv, QuotaHeld
<1>3. ASSUME NEW c \in Creds, ServerReveals(c) PROVE QuotaInv'
  <2> DEFINE young == Young(hist)
             drop  == Old(hist)
             n     == Len(answered) + 1
  <2>0. /\ drop \in 0..Len(hist) /\ \A i \in 1..drop : hist[i] + Hour < now
        /\ young \in Seq(0..MaxNow) /\ Len(young) = Len(hist) - drop /\ Len(young) \in Nat
        /\ \A i \in 1..Len(young) : young[i] = hist[drop + i]
    BY <1>0, OldType DEF TypeInv
  <2>a. now' = now
    BY <1>3 DEF ServerReveals
  <2> HIDE DEF young, drop
  <2>1. PICK f \in [DOMAIN answered -> Int] : PlaceOf(f, answered, hist, now)
    BY DEF QuotaInv, PlacesInv
  \* Where the answers so far stand in what is left of reveal_history.
  <2> DEFINE g == [j \in DOMAIN answered |-> f[j] - drop]
  <2>b. \A j \in DOMAIN answered : g[j] \in Int /\ g[j] = f[j] - drop
    BY <1>0, <2>0
  <2>4. g \in [DOMAIN answered -> Int]
    BY <2>b
  <2> HIDE DEF g
  <2>2. \A j \in DOMAIN answered :
          /\ g[j] \in Int /\ g[j] = f[j] - drop /\ g[j] <= Len(young)
          /\ g[j] >= 1 => young[g[j]] = answered[j]
          /\ g[j] < 1 => answered[j] + Hour < now
    <3> SUFFICES ASSUME NEW j \in DOMAIN answered
                 PROVE  /\ g[j] \in Int /\ g[j] = f[j] - drop /\ g[j] <= Len(young)
                        /\ g[j] >= 1 => young[g[j]] = answered[j]
                        /\ g[j] < 1 => answered[j] + Hour < now
      OBVIOUS
    <3>1. f[j] \in Int /\ drop \in Nat /\ g[j] = f[j] - drop /\ g[j] \in Int
      BY <1>0, <2>0, <2>b
    <3>2. /\ f[j] <= Len(hist)
          /\ f[j] >= 1 => hist[f[j]] = answered[j]
          /\ f[j] < 1 => answered[j] + Hour < now
      BY <2>1 DEF PlaceOf
    <3>3. g[j] >= 1 => young[g[j]] = answered[j]
      <4> SUFFICES ASSUME g[j] >= 1 PROVE young[g[j]] = answered[j]
        OBVIOUS
      <4>1. g[j] \in 1..Len(young) /\ drop + g[j] = f[j] /\ f[j] >= 1
        <5>1. drop + g[j] = f[j] /\ f[j] >= g[j]
          BY <3>1
        <5>2. f[j] - drop <= Len(hist) - drop
          BY <1>0, <3>1, <3>2
        <5>3. g[j] <= Len(young)
          BY <2>0, <3>1, <5>2
        <5> QED BY <2>0, <3>1, <5>1, <5>3
      <4> QED BY <2>0, <3>2, <4>1
    <3>4. g[j] < 1 => answered[j] + Hour < now
      <4> SUFFICES ASSUME g[j] < 1, f[j] >= 1 PROVE answered[j] + Hour < now
        BY <3>1, <3>2
      <4>1. f[j] \in 1..drop
        BY <2>0, <3>1
      <4> QED BY <2>0, <3>2, <4>1
    <3> QED BY <1>0, <2>0, <3>1, <3>2, <3>3, <3>4
  <2>3. \A i, j \in DOMAIN answered : i # j => g[i] # g[j]
    <3>1. \A i \in DOMAIN answered : f[i] \in Int
      OBVIOUS
    <3> QED BY <1>0, <2>0, <2>1, <2>2, <3>1 DEF PlaceOf
  <2>5. CASE hist' = young /\ answered' = answered
    <3>1. PlaceOf(g, answered', hist', now')
      BY <2>a, <2>2, <2>3, <2>5 DEF PlaceOf
    <3> QED BY <2>4, <2>5, <3>1 DEF QuotaInv, PlacesInv, QuotaHeld
  <2>6. CASE hist' = Append(young, now) /\ answered' = answered
    <3>1. Len(hist') = Len(young) + 1 /\ \A i \in 1..Len(young) : hist'[i] = young[i]
      <4>1. young \in Seq(0..MaxNow) /\ now \in 0..MaxNow /\ hist' = Append(young, now)
        BY <2>0, <2>6 DEF TypeInv, TypeOK
      <4> QED BY ONLY <4>1, AppendProperties
    <3>2. PlaceOf(g, answered', hist', now')
      <4>1. \A j \in DOMAIN answered : g[j] >= 1 => g[j] \in 1..Len(young)
        BY <2>0, <2>2
      <4>2. \A j \in DOMAIN answered : g[j] <= Len(hist')
        BY <2>0, <2>2, <3>1
      <4> QED BY <2>a, <2>2, <2>3, <2>6, <3>1, <4>1, <4>2 DEF PlaceOf
    <3> QED BY <2>4, <2>6, <3>2 DEF QuotaInv, PlacesInv, QuotaHeld
  <2>7. CASE /\ Len(young) < Quota
             /\ hist' = Append(young, now) /\ answered' = Append(answered, now)
    <3>0. now \in 0..MaxNow
      BY DEF TypeInv, TypeOK
    <3>1. /\ Len(hist') = Len(young) + 1 /\ hist'[Len(young) + 1] = now
          /\ \A i \in 1..Len(young) : hist'[i] = young[i]
      BY <2>0, <2>7, <3>0, AppendProperties
    <3>2. /\ Len(answered') = n /\ DOMAIN answered' = 1..n /\ answered'[n] = now
          /\ \A j \in DOMAIN answered : answered'[j] = answered[j]
      BY <1>0, <2>7, <3>0, AppendProperties
    <3> DEFINE h == [j \in 1..n |-> IF j = n THEN Len(young) + 1 ELSE g[j]]
    <3>3. \A j \in 1..n : j = n \/ j \in DOMAIN answered
      BY <1>0
    <3>a. n \in 1..n /\ n \notin DOMAIN answered
      BY <1>0
    <3>4. /\ \A j \in DOMAIN answered : h[j] = g[j] /\ h[j] \in Int /\ h[j] <= Len(young)
          /\ h[n] = Len(young) + 1
      BY <1>0, <2>2, <3>a
    <3>5. h \in [DOMAIN answered' -> Int]
      BY <2>0, <2>2, <3>2, <3>3
    <3> HIDE DEF h
    <3>b. \A i, j \in 1..n : i # j => h[i] # h[j]
      BY <2>0, <2>3, <3>3, <3>4
    <3>6. PlaceOf(h, answered', hist', now')
      <4>2. ASSUME NEW j \in 1..n
            PROVE  /\ h[j] <= Len(hist')
                   /\ h[j] >= 1 => hist'[h[j]] = answered'[j]
                   /\ h[j] < 1 => answered'[j] + Hour < now
        <5>1. CASE j = n
          BY <2>0, <3>1, <3>2, <3>4, <5>1
        <5>2. CASE j \in DOMAIN answered
          <6>1. h[j] = g[j] /\ answered'[j] = answered[j] /\ h[j] <= Len(hist')
            BY <2>0, <3>1, <3>2, <3>4, <5>2
          <6>2. h[j] >= 1 => h[j] \in 1..Len(young)
            BY <2>0, <3>4, <5>2
          <6> QED BY <2>2, <3>1, <5>2, <6>1, <6>2
        <5> QED BY <3>3, <5>1, <5>2
      <4> QED BY <2>a, <3>2, <3>b, <4>2 DEF PlaceOf
    <3>7. \A i \in DOMAIN answered : InHour(answered', i) = InHour(answered, i)
      <4>1. \A i \in DOMAIN answered : 1..i \subseteq DOMAIN answered
        BY <1>0
      <4> QED BY <3>2, <4>1 DEF InHour
    <3>8. Cardinality(InHour(answered', n)) <= Quota
      <4> DEFINE S == InHour(answered', n)
                 T == 1..(Len(young) + 1)
                 p == [j \in S |-> h[j]]
      <4>1. \A j \in S : j \in 1..n /\ h[j] \in T
        <5> SUFFICES ASSUME NEW j \in S PROVE j \in 1..n /\ h[j] \in T
          OBVIOUS
        <5>1. j \in 1..n /\ answered'[j] + Hour >= now
          BY <3>2 DEF InHour
        <5>2. CASE j = n
          BY <2>0, <3>4, <5>1, <5>2
        <5>3. CASE j \in DOMAIN answered
          <6>1. h[j] = g[j] /\ h[j] \in Int /\ h[j] <= Len(young) /\ answered'[j] = answered[j]
            BY <3>2, <3>4, <5>3
          <6>2. ~(answered[j] + Hour < now)
            BY <1>0, <5>1, <5>3, <6>1
          <6>3. g[j] >= 1
            BY <2>2, <5>3, <6>1, <6>2
          <6> QED BY <2>0, <5>1, <6>1, <6>3
        <5> QED BY <3>3, <5>1, <5>2, <5>3
      <4>2. \A i, j \in S : h[i] = h[j] => i = j
        BY <3>b, <4>1
      <4> HIDE DEF S
      <4>3. p \in Injection(S, T)
        BY <4>1, <4>2 DEF Injection, IsInjective
      <4>4. IsFiniteSet(T) /\ Cardinality(T) = Len(young) + 1
        BY <2>0, FS_Interval
      <4>5. IsFiniteSet(S) /\ Cardinality(S) <= Cardinality(T)
        BY <4>3, <4>4, FS_Injection
      <4>6. Cardinality(S) \in Nat
        BY <4>5, FS_CardinalityType
      <4>7. Cardinality(S) <= Quota
        BY <1>0, <2>0, <2>7, <4>4, <4>5, <4>6
      <4> QED BY <4>7 DEF S
    <3>9. QuotaHeld'
      <4>1. \A i \in DOMAIN answered : Cardinality(InHour(answered, i)) <= Quota
        BY DEF QuotaInv, QuotaHeld, InHour
      <4>2. \A i \in 1..n : Cardinality(InHour(answered', i)) <= Quota
        BY <3>3, <3>7, <3>8, <4>1
      <4> QED BY <3>2, <4>2 DEF QuotaHeld, InHour
    <3> QED BY <3>5, <3>6, <3>9 DEF QuotaInv, PlacesInv
  <2>8. Len(young) >= Quota \/ Len(young) < Quota
    BY <1>0, <2>0
  <2> QED BY <1>3, <2>5, <2>6, <2>7, <2>8 DEF ServerReveals, young
<1>4. CASE UNCHANGED <<hist, answered, now>>
  BY <1>4 DEF QuotaInv, PlacesInv, PlaceOf, QuotaHeld
<1>5. ASSUME NEW t \in Tools,
             \/ \E c \in Creds, v \in Values : Add(t, c, v)
             \/ AddUnlock(t) \/ AddRow(t) \/ AddFlush(t)
             \/ \E c \in Creds : Reveal(t, c)
             \/ RevealCopies(t) \/ LookBeforeClear(t) \/ Clear(t)
             \/ \E cs \in SUBSET Creds : Run(t, cs)
             \/ RunUnlock(t) \/ ChildEnds(t) \/ ToolEnds(t)
      PROVE  UNCHANGED <<hist, answered, now>>
  BY <1>5 DEF Add, AddUnlock, AddRow, AddFlush, Reveal, RevealCopies, LookBeforeClear,
     Clear, Run,
     RunUnlock, ChildEnds, ToolEnds
<1>6. ASSUME \/ Unlock \/ Lock \/ SpawnTimer \/ TimerClears \/ DesktopEnds \/ UserCopies
             \/ \E c \in Creds :
                  \/ Delete(c) \/ Erase(c) \/ Copy(c)
                  \/ \E v \in Values : Create(c, v) \/ Rotate(c, v)
                  \/ \E e \in BOOLEAN : Revoke(c, e)
      PROVE  UNCHANGED <<hist, answered, now>>
  BY <1>6 DEF Unlock, Lock, SpawnTimer, TimerClears, DesktopEnds, UserCopies, Delete,
     Erase, Copy,
     Create, Rotate, Revoke
<1>7. CASE UNCHANGED vars
  BY <1>4, <1>7 DEF vars
<1> QED BY <1>1, <1>2, <1>3, <1>4, <1>5, <1>6, <1>7 DEF Next

\* tool_reveal_credential: in no hour are more reveals answered than the quota.
THEOREM QuotaAlwaysHeld == Spec => []QuotaHeld
<1>1. Init => QuotaInv
  <2> SUFFICES ASSUME Init PROVE QuotaInv
    OBVIOUS
  <2>1. answered = << >> /\ DOMAIN answered = {}
    BY DEF Init
  <2>2. [j \in DOMAIN answered |-> 0] \in [DOMAIN answered -> Int]
    OBVIOUS
  <2>3. \A f \in [DOMAIN answered -> Int] : PlaceOf(f, answered, hist, now)
    BY <2>1 DEF PlaceOf
  <2> QED BY <2>1, <2>2, <2>3 DEF QuotaInv, PlacesInv, QuotaHeld
<1>2. TypeInv /\ QuotaInv /\ [Next]_vars => QuotaInv'
  BY NextQuotaInv
<1>3. QuotaInv => QuotaHeld
  BY DEF QuotaInv
<1> QED BY <1>1, <1>2, <1>3, TypeInvariant, PTL DEF Spec
=============================================================================
