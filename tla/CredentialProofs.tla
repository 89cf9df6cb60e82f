-------------------------- MODULE CredentialProofs --------------------------
(***************************************************************************)
(* Proofs about CredentialStore and ImportSessions, which write credential *)
(* rows and vault records, for any values of their constants.              *)
(***************************************************************************)
EXTENDS CredentialStore, ImportSessions, TLAPS

-----------------------------------------------------------------------------
(***************************************************************************)
(* CredentialStore, for any tasks, values and bounds: types; every revoke  *)
(* was confirmed by the token issued for it, since a token is spent or     *)
(* still names what it was issued for (TokenInv) and a revoke under way has*)
(* its confirmation in kills (RevokeInv); an active row has its values,    *)
(* since a new id is nobody else's (IdInv, FreshInv); and what was killed  *)
(* stays erased when commands come one at a time (AloneInv).               *)
(***************************************************************************)

\* What the operators of rows and arguments return.
LEMMA NoArgIsArg == NoArg \in Arg
<1>1. PICK v \in Values : TRUE
  BY StoreAssumption
<1>2. [cred |-> 1, value |-> v, hint |-> v, flag |-> TRUE] \in Arg
  BY StoreAssumption DEF Arg, Creds
<1>3. QED BY <1>2 DEF NoArg

Records == [Slots -> Values \cup {Absent}]

LEMMA RowTypes ==
  /\ \A h \in Values \cup {NoHint} :
       [status |-> "active", hint |-> h, second |-> FALSE] \in Row
  /\ \A r \in Row : /\ Linked(r) \in Row /\ Dead(r) \in Row
                    /\ \A h \in Values \cup {NoHint} : Hinted(r, h) \in Row
BY DEF Row, Linked, Hinted, Dead

LEMMA ArgTypes ==
  /\ \A a \in Arg : a.cred \in Creds /\ a.value \in Values /\ a.hint \in Values \cup {NoHint}
  /\ \A a \in Arg, c \in Creds : Aim(a, c) \in Arg
  /\ \A a \in Arg, f \in BOOLEAN : Choose(a, f) \in Arg
  /\ \A c \in Creds, v \in Values, h \in Values \cup {NoHint}, f \in BOOLEAN :
       Input(c, v, h, f) \in Arg
BY DEF Arg, Input, Aim, Choose

LEMMA SlotTypes ==
  /\ \A c \in Creds : Primary(c) \in Slots /\ Secondary(c) \in Slots
  /\ Empty \in Records
BY DEF Slots, Primary, Secondary, Empty, Records

\* WithValues writes at most the two records of its credential.
LEMMA WithValuesType == ASSUME mem \in Records, NEW a \in Arg PROVE WithValues(a) \in Records
<1>1. [mem EXCEPT ![Primary(a.cred)] = a.value] \in Records
  BY ArgTypes, SlotTypes DEF Records
<1>2. QED BY <1>1, ArgTypes, SlotTypes DEF WithValues, Records

\* The parts of TypeOK, for the proofs.
ModeType == alone \in BOOLEAN
StoreType ==
  /\ rows \in [Creds -> Row \cup {NoRow}] /\ next \in 1..MaxCreds + 1
  /\ open \in BOOLEAN /\ mem \in Records /\ saved \in Records
  /\ ~open => mem = Empty
TaskType ==
  /\ pc \in [Tasks -> Steps] /\ op \in [Tasks -> Ops]
  /\ arg \in [Tasks -> Arg] /\ todo \in [Tasks -> SUBSET Creds]
KillType ==
  /\ tokens \in [1..MaxTokens -> Subjects \cup {NoSubject}]
  /\ grants \in [1..MaxTokens -> Subjects \cup {NoSubject}]
  /\ kills \in Seq([token : 1..MaxTokens, subject : Subjects])
  /\ erased \subseteq Creds
CountType ==
  /\ issued \in 0..MaxTokens /\ faults \in 0..MaxFaults
  /\ dbFaults \in 0..MaxDbFaults /\ restarts \in 0..MaxRestarts

LEMMA TypeParts ==
  TypeOK <=> ModeType /\ StoreType /\ TaskType /\ KillType /\ CountType
BY DEF TypeOK, ModeType, StoreType, TaskType, KillType, CountType, Records

LEMMA InitTypeOK == Init => TypeOK
<1> SUFFICES ASSUME Init PROVE TypeOK
  OBVIOUS
<1>1. StoreType
  <2>1. 1 \in 1..MaxCreds + 1
    BY StoreAssumption
  <2>2. QED BY <2>1, SlotTypes DEF Init, StoreType
<1>2. TaskType
  BY NoArgIsArg DEF Init, TaskType, Steps, Ops
<1>3. KillType
  BY DEF Init, KillType
<1>4. CountType
  BY StoreAssumption DEF Init, CountType
<1>5. ModeType
  BY DEF Init, ModeType
<1>6. QED BY <1>1, <1>2, <1>3, <1>4, <1>5, TypeParts

LEMMA StoreTypeStep == TypeOK /\ [Next]_vars => StoreType'
<1> SUFFICES ASSUME TypeOK, [Next]_vars PROVE StoreType'
  OBVIOUS
<1> USE TypeParts DEF StoreType, TaskType, Update, Creds, vault
<1>1. ASSUME NEW t \in Tasks, NEW v \in Values, NEW p \in BOOLEAN, NEW b \in BOOLEAN,
             Create(t, v, p, b)
      PROVE StoreType'
  BY <1>1, StoreAssumption DEF Create
<1>2. ASSUME NEW t \in Tasks, InsertRow(t) PROVE StoreType'
  BY <1>2, RowTypes, ArgTypes DEF InsertRow
<1>3. ASSUME NEW t \in Tasks, PutValues(t) PROVE StoreType'
  BY <1>3, ArgTypes, WithValuesType DEF PutValues
<1>4. ASSUME NEW t \in Tasks, LinkSecond(t) PROVE StoreType'
  BY ZenonT(60), <1>4, RowTypes, ArgTypes DEF LinkSecond, Listed
<1>5. ASSUME NEW t \in Tasks, NEW c \in Creds, Delete(t, c) PROVE StoreType'
  BY <1>5 DEF Delete
<1>6. ASSUME NEW t \in Tasks, DropValue(t) PROVE StoreType'
  BY <1>6, ArgTypes, SlotTypes DEF DropValue, Records
<1>7. ASSUME NEW t \in Tasks, DeleteRow(t) PROVE StoreType'
  BY <1>7, ArgTypes DEF DeleteRow
<1>8. ASSUME NEW t \in Tasks, NEW c \in Creds, NEW v \in Values,
             Rotate(t, c, v)
      PROVE StoreType'
  BY <1>8 DEF Rotate
<1>9. ASSUME NEW t \in Tasks, NEW c \in Creds, NEW v \in Values,
             Overwrite(t, c, v)
      PROVE StoreType'
  BY <1>9 DEF Overwrite
<1>10. ASSUME NEW t \in Tasks, Replace(t) PROVE StoreType'
  BY <1>10, ArgTypes, WithValuesType DEF Replace
<1>11. ASSUME NEW t \in Tasks, SetHint(t) PROVE StoreType'
  <2>1. Listed(arg[t].cred) => Hinted(rows[arg[t].cred], arg[t].hint) \in Row
    BY RowTypes, ArgTypes DEF Listed
  <2>2. QED BY <1>11, <2>1, ArgTypes DEF SetHint
<1>12. ASSUME NEW t \in Tasks, OverwriteValue(t) PROVE StoreType'
  BY <1>12, ArgTypes, WithValuesType DEF OverwriteValue
<1>13. ASSUME NEW t \in Tasks, NEW k \in 1..MaxTokens, NEW f \in BOOLEAN, NEW c \in Creds,
              Revoke(t, c, k, f)
       PROVE StoreType'
  BY <1>13 DEF Revoke
<1>14. ASSUME NEW t \in Tasks, NEW k \in 1..MaxTokens, NEW f \in BOOLEAN,
              RevokeIssuer(t, k, f)
       PROVE StoreType'
  BY <1>14 DEF RevokeIssuer
<1>15. ASSUME NEW t \in Tasks, NextOfBulk(t) PROVE StoreType'
  BY <1>15 DEF NextOfBulk
<1>16. ASSUME NEW t \in Tasks, Check(t) PROVE StoreType'
  BY <1>16 DEF Check
<1>17. ASSUME NEW t \in Tasks, SetRevoked(t) PROVE StoreType'
  BY ZenonT(60), <1>17, RowTypes, ArgTypes DEF SetRevoked, Listed
<1>18. ASSUME NEW t \in Tasks, Erase(t) PROVE StoreType'
  BY <1>18, ArgTypes, SlotTypes DEF Erase, Records
<1>19. ASSUME NEW c \in Creds, NEW v \in Values, PullValue(c, v) PROVE StoreType'
  BY <1>19, SlotTypes DEF PullValue, Records
<1>20. ASSUME NEW s \in Subjects, RequestConfirm(s) PROVE StoreType'
  BY <1>20 DEF RequestConfirm
<1>21. ASSUME NEW k \in 1..MaxTokens, Expire(k) PROVE StoreType'
  BY <1>21 DEF Expire
<1>22. CASE Unlock
  BY <1>22 DEF Unlock
<1>23. CASE Flush
  BY <1>23 DEF Flush
<1>24. CASE Lock
  BY <1>24, SlotTypes DEF Lock
<1>25. CASE Restart
  BY <1>25, SlotTypes DEF Restart
<1>26. CASE UNCHANGED vars
  BY <1>26 DEF vars
<1>27. QED
  BY <1>1, <1>2, <1>3, <1>4, <1>5, <1>6, <1>7, <1>8, <1>9, <1>10, <1>11, <1>12, <1>13,
     <1>14, <1>15, <1>16, <1>17, <1>18, <1>19, <1>20, <1>21, <1>22, <1>23, <1>24, <1>25,
     <1>26 DEF Next

LEMMA TaskTypeStep == TypeOK /\ [Next]_vars => TaskType'
<1> SUFFICES ASSUME TypeOK, [Next]_vars PROVE TaskType'
  OBVIOUS
<1> USE TypeParts DEF StoreType, TaskType, Goto, Begin, Revoked, Steps, Ops
<1>1. ASSUME NEW t \in Tasks, NEW v \in Values, NEW p \in BOOLEAN, NEW b \in BOOLEAN,
             Create(t, v, p, b)
      PROVE TaskType'
  BY <1>1, ArgTypes DEF Create
<1>2. ASSUME NEW t \in Tasks, InsertRow(t) PROVE TaskType'
  BY <1>2 DEF InsertRow
<1>3. ASSUME NEW t \in Tasks, PutValues(t) PROVE TaskType'
  BY <1>3 DEF PutValues
<1>4. ASSUME NEW t \in Tasks, LinkSecond(t) PROVE TaskType'
  BY <1>4 DEF LinkSecond
<1>5. ASSUME NEW t \in Tasks, NEW c \in Creds, Delete(t, c) PROVE TaskType'
  BY <1>5, ArgTypes, NoArgIsArg DEF Delete
<1>6. ASSUME NEW t \in Tasks, DropValue(t) PROVE TaskType'
  BY <1>6 DEF DropValue
<1>7. ASSUME NEW t \in Tasks, DeleteRow(t) PROVE TaskType'
  BY <1>7 DEF DeleteRow
<1>8. ASSUME NEW t \in Tasks, NEW c \in Creds, NEW v \in Values,
             Rotate(t, c, v)
      PROVE TaskType'
  BY <1>8, ArgTypes DEF Rotate
<1>9. ASSUME NEW t \in Tasks, NEW c \in Creds, NEW v \in Values,
             Overwrite(t, c, v)
      PROVE TaskType'
  BY <1>9, ArgTypes DEF Overwrite
<1>10. ASSUME NEW t \in Tasks, Replace(t) PROVE TaskType'
  BY <1>10 DEF Replace
<1>11. ASSUME NEW t \in Tasks, SetHint(t) PROVE TaskType'
  BY <1>11 DEF SetHint
<1>12. ASSUME NEW t \in Tasks, OverwriteValue(t) PROVE TaskType'
  BY <1>12 DEF OverwriteValue
<1>13. ASSUME NEW t \in Tasks, NEW k \in 1..MaxTokens, NEW f \in BOOLEAN, NEW c \in Creds,
              Revoke(t, c, k, f)
       PROVE TaskType'
  BY <1>13, ArgTypes, NoArgIsArg DEF Revoke
<1>14. ASSUME NEW t \in Tasks, NEW k \in 1..MaxTokens, NEW f \in BOOLEAN,
              RevokeIssuer(t, k, f)
       PROVE TaskType'
  BY ZenonT(60), <1>14, ArgTypes, NoArgIsArg DEF RevokeIssuer, Active
<1>15. ASSUME NEW t \in Tasks, NextOfBulk(t) PROVE TaskType'
  <2>1. CASE todo[t] = {}
    BY <2>1, <1>15 DEF NextOfBulk
  <2>2. ASSUME NEW c \in todo[t], arg' = [arg EXCEPT ![t] = Aim(@, c)],
               todo' = [todo EXCEPT ![t] = @ \ {c}], Goto(t, "check"), op' = op
        PROVE TaskType'
    <3>1. Aim(arg[t], c) \in Arg
      BY ArgTypes
    <3>2. QED BY <3>1, <2>2
  <2>3. QED BY <2>1, <2>2, <1>15 DEF NextOfBulk
<1>16. ASSUME NEW t \in Tasks, Check(t) PROVE TaskType'
  BY <1>16 DEF Check
<1>17. ASSUME NEW t \in Tasks, SetRevoked(t) PROVE TaskType'
  BY <1>17 DEF SetRevoked
<1>18. ASSUME NEW t \in Tasks, Erase(t) PROVE TaskType'
  BY <1>18 DEF Erase
<1>19. ASSUME NEW c \in Creds, NEW v \in Values, PullValue(c, v) PROVE TaskType'
  BY <1>19 DEF PullValue
<1>20. ASSUME NEW s \in Subjects, RequestConfirm(s) PROVE TaskType'
  BY <1>20 DEF RequestConfirm
<1>21. ASSUME NEW k \in 1..MaxTokens, Expire(k) PROVE TaskType'
  BY <1>21 DEF Expire
<1>22. CASE Unlock
  BY <1>22 DEF Unlock
<1>23. CASE Flush
  BY <1>23 DEF Flush
<1>24. CASE Lock
  BY <1>24 DEF Lock
<1>25. CASE Restart
  BY <1>25 DEF Restart
<1>26. CASE UNCHANGED vars
  BY <1>26 DEF vars
<1>27. QED
  BY <1>1, <1>2, <1>3, <1>4, <1>5, <1>6, <1>7, <1>8, <1>9, <1>10, <1>11, <1>12, <1>13,
     <1>14, <1>15, <1>16, <1>17, <1>18, <1>19, <1>20, <1>21, <1>22, <1>23, <1>24, <1>25,
     <1>26 DEF Next

\* Tokens, kills and counters are touched by few steps.
LEMMA KillTypeStep == TypeOK /\ [Next]_vars => KillType'
<1> SUFFICES ASSUME TypeOK, [Next]_vars PROVE KillType'
  OBVIOUS
<1> USE TypeParts DEF KillType
<1>1. CASE UNCHANGED history /\ (UNCHANGED tokens \/ Restart \/ \E k \in 1..MaxTokens : Expire(k))
  BY <1>1 DEF history, Restart, Expire
<1>2. ASSUME NEW k \in 1..MaxTokens, NEW s \in Subjects, Consume(k, s), UNCHANGED <<grants, erased>>
      PROVE KillType'
  BY <1>2 DEF Consume
<1>3. ASSUME NEW s \in Subjects, RequestConfirm(s) PROVE KillType'
  BY <1>3, StoreAssumption DEF RequestConfirm, CountType
<1>4. ASSUME NEW t \in Tasks, Erase(t) PROVE KillType'
  BY <1>4, ArgTypes DEF Erase, TaskType
<1>5. QED
  BY ZenonT(60), <1>1, <1>2, <1>3, <1>4
     DEF Next, vars, history, Subjects, Create, InsertRow, PutValues, LinkSecond, Delete, DropValue,
         DeleteRow, Rotate, Overwrite, Replace, SetHint, OverwriteValue, Revoke, RevokeIssuer,
         NextOfBulk, Check, SetRevoked, PullValue, Expire, Unlock, Flush, Lock, Restart

LEMMA CountTypeStep == TypeOK /\ [Next]_vars => CountType'
<1> SUFFICES ASSUME TypeOK, [Next]_vars PROVE CountType'
  OBVIOUS
<1> USE TypeParts, StoreAssumption DEF CountType
<1>1. CASE UNCHANGED counters
  BY <1>1 DEF counters
<1>2. CASE Fault
  BY <1>2 DEF Fault
<1>3. CASE DbFault
  BY <1>3 DEF DbFault
<1>4. ASSUME NEW s \in Subjects, RequestConfirm(s) PROVE CountType'
  BY <1>4 DEF RequestConfirm
<1>5. CASE Restart
  BY <1>5 DEF Restart
<1>6. QED
  BY ZenonT(60), <1>1, <1>2, <1>3, <1>4, <1>5
     DEF Next, vars, counters, Create, InsertRow, PutValues, LinkSecond, Delete, DropValue,
         DeleteRow, Rotate, Overwrite, Replace, SetHint, OverwriteValue, Revoke, RevokeIssuer,
         NextOfBulk, Check, SetRevoked, Erase, PullValue, Expire, Unlock, Flush, Lock

\* credentials.rs, kill_switch.rs: every variable keeps its shape, and a locked
\* vault has no record in memory.
THEOREM TypeCorrect == Spec => []TypeOK
<1>1. TypeOK /\ [Next]_vars => TypeOK'
  <2>1. ModeType' /\ StoreType' /\ TaskType' /\ KillType' /\ CountType' => TypeOK'
    BY DEF TypeOK, ModeType, StoreType, TaskType, KillType, CountType, Records
  <2>2. TypeOK /\ [Next]_vars => ModeType'
    BY DEF TypeOK, ModeType, Next, vars
  <2>3. QED BY <2>1, <2>2, StoreTypeStep, TaskTypeStep, KillTypeStep, CountTypeStep
<1>2. QED BY <1>1, InitTypeOK, PTL DEF Spec

-----------------------------------------------------------------------------
(* Revokes and their confirmations.                                        *)

\* A token still held confirms what it was issued for and has confirmed nothing;
\* no token confirms twice.
TokenInv ==
  /\ \A k \in 1..MaxTokens :
       tokens[k] # NoSubject
         => /\ k <= issued /\ tokens[k] = grants[k]
            /\ \A i \in DOMAIN kills : kills[i].token # k
  /\ \A i \in DOMAIN kills :
       kills[i].token <= issued /\ grants[kills[i].token] = kills[i].subject
  /\ \A i, j \in DOMAIN kills : i # j => kills[i].token # kills[j].token

Killed(s) == \E i \in DOMAIN kills : kills[i].subject = s

\* The confirmation of a revoke is on record while it is under way and as long as
\* its row says revoked.
RevokeInv ==
  /\ \A t \in Tasks :
       /\ pc[t] = "next" => op[t] = "bulk"
       /\ pc[t] \in {"check", "status", "erase", "next"}
            => IF op[t] = "bulk" THEN Killed(Issuer) ELSE Killed(arg[t].cred)
  /\ \A c \in Creds : Listed(c) /\ rows[c].status = "revoked" => Killed(c) \/ Killed(Issuer)

LEMMA InitKillInv == Init => TokenInv /\ RevokeInv
<1> SUFFICES ASSUME Init PROVE TokenInv /\ RevokeInv
  OBVIOUS
<1>1. TokenInv
  BY DEF Init, TokenInv
<1>2. RevokeInv
  BY DEF Init, RevokeInv, Listed
<1>3. QED BY <1>1, <1>2

LEMMA KillTypes ==
  ASSUME TypeOK
  PROVE  /\ Len(kills) \in Nat /\ DOMAIN kills = 1..Len(kills)
         /\ \A i \in DOMAIN kills : kills[i].token \in 1..MaxTokens
<1> DEFINE Kill == [token : 1..MaxTokens, subject : Subjects]
<1>1. kills \in Seq(Kill)
  BY TypeParts DEF KillType
<1> HIDE DEF Kill
<1>2. \A i \in DOMAIN kills : kills[i] \in Kill
  BY <1>1
<1>3. QED BY <1>1, <1>2 DEF Kill

\* What Consume appends.
LEMMA ConsumeAppends ==
  ASSUME TypeOK, NEW k \in 1..MaxTokens, NEW s \in Subjects, Consume(k, s)
  PROVE  /\ DOMAIN kills' = 1..(Len(kills) + 1)
         /\ \A i \in 1..Len(kills) : kills'[i] = kills[i]
         /\ kills'[Len(kills) + 1] = [token |-> k, subject |-> s]
BY TypeParts DEF Consume, KillType

LEMMA TokenInvStep == TypeOK /\ TokenInv /\ [Next]_vars => TokenInv'
<1> SUFFICES ASSUME TypeOK, TokenInv, [Next]_vars PROVE TokenInv'
  OBVIOUS
<1> USE StoreAssumption, TypeParts DEF TokenInv, KillType, CountType
<1>1. CASE UNCHANGED <<tokens, grants, kills, issued>>
  BY <1>1
<1>2. ASSUME NEW k \in 1..MaxTokens, NEW s \in Subjects, Consume(k, s),
             UNCHANGED <<grants, issued>>
      PROVE TokenInv'
  <2>1. /\ DOMAIN kills' = 1..(Len(kills) + 1)
        /\ \A i \in 1..Len(kills) : kills'[i] = kills[i]
        /\ kills'[Len(kills) + 1] = [token |-> k, subject |-> s]
    BY ONLY TypeOK, <1>2, ConsumeAppends
  <2>2. tokens[k] = s /\ tokens' = [tokens EXCEPT ![k] = NoSubject] /\ s # NoSubject
    BY <1>2 DEF Consume
  <2>3. k <= issued /\ grants[k] = s /\ \A i \in DOMAIN kills : kills[i].token # k
    BY <2>2
  <2>4. ASSUME NEW x \in 1..MaxTokens, tokens'[x] # NoSubject
        PROVE  /\ x <= issued' /\ tokens'[x] = grants'[x]
               /\ \A i \in DOMAIN kills' : kills'[i].token # x
    BY SMTT(60), <1>2, <2>2, <2>4, KillTypes, <2>1
  <2>5. \A i \in DOMAIN kills' :
          kills'[i].token <= issued' /\ grants'[kills'[i].token] = kills'[i].subject
    BY SMTT(60), <1>2, <2>3, KillTypes, <2>1
  <2>6. \A i, j \in DOMAIN kills' : i # j => kills'[i].token # kills'[j].token
    <3>1. \A i \in DOMAIN kills' : i \in DOMAIN kills \/ i = Len(kills) + 1
      BY <1>2, KillTypes, <2>1
    <3>2. \A i \in DOMAIN kills : kills'[i].token = kills[i].token /\ kills'[i].token # k
      BY <1>2, <2>3, KillTypes, <2>1
    <3>3. kills'[Len(kills) + 1].token = k
      BY <2>1
    <3>4. QED BY SMTT(60), <3>1, <3>2, <3>3
  <2>7. QED BY <2>4, <2>5, <2>6
<1>3. ASSUME NEW s \in Subjects, RequestConfirm(s) PROVE TokenInv'
  <2>1. /\ issued' = issued + 1 /\ kills' = kills
        /\ tokens' = [tokens EXCEPT ![issued + 1] = s]
        /\ grants' = [grants EXCEPT ![issued + 1] = s]
        /\ issued + 1 \in 1..MaxTokens
    BY <1>3 DEF RequestConfirm
  <2>2. \A i \in DOMAIN kills : kills[i].token <= issued /\ kills[i].token \in 1..MaxTokens
    BY KillTypes
  <2>3. \A k \in 1..MaxTokens : tokens[k] # NoSubject => k <= issued
    OBVIOUS
  <2>4. \A k \in 1..MaxTokens : k # issued + 1 => tokens'[k] = tokens[k] /\ grants'[k] = grants[k]
    BY <2>1
  <2>5. tokens'[issued + 1] = s /\ grants'[issued + 1] = s
    BY <2>1
  <2>6. \A i \in DOMAIN kills : kills[i].token # issued + 1
    BY <2>2
  <2>7. QED BY SMTT(60), <2>1, <2>2, <2>3, <2>4, <2>5, <2>6
<1>4. ASSUME NEW k \in 1..MaxTokens, Expire(k) PROVE TokenInv'
  BY <1>4 DEF Expire, counters, history
<1>5. CASE Restart
  BY <1>5 DEF Restart, history
<1>6. QED
  BY ZenonT(60), <1>1, <1>2, <1>3, <1>4, <1>5
     DEF Next, vars, counters, history, Subjects, Fault, DbFault, Create, InsertRow, PutValues,
         LinkSecond, Delete, DropValue, DeleteRow, Rotate, Overwrite, Replace, SetHint,
         OverwriteValue, Revoke, RevokeIssuer, NextOfBulk, Check, SetRevoked, Erase,
         PullValue,
         Unlock, Flush, Lock

\* kills only grows, by the token a revoke consumes.
LEMMA KilledStays ==
  ASSUME TypeOK, [Next]_vars PROVE \A s \in Subjects : Killed(s) => Killed(s)'
<1> USE DEF Killed
<1>1. CASE UNCHANGED kills
  BY <1>1
<1>2. ASSUME NEW k \in 1..MaxTokens, NEW s \in Subjects, Consume(k, s)
      PROVE \A x \in Subjects : Killed(x) => Killed(x)'
  <2>1. /\ DOMAIN kills' = 1..(Len(kills) + 1)
        /\ \A i \in 1..Len(kills) : kills'[i] = kills[i]
    BY ONLY TypeOK, <1>2, ConsumeAppends
  <2>2. QED BY <2>1, KillTypes
<1>3. QED
  BY ZenonT(60), <1>1, <1>2
     DEF Next, vars, history, Subjects, Create, InsertRow, PutValues, LinkSecond, Delete,
         DropValue, DeleteRow, Rotate, Overwrite, Replace, SetHint, OverwriteValue, Revoke,
         RevokeIssuer, NextOfBulk, Check, SetRevoked, Erase, RequestConfirm, PullValue,
         Expire,
         Unlock, Flush, Lock, Restart

LEMMA ConsumeKills ==
  ASSUME TypeOK, NEW k \in 1..MaxTokens, NEW s \in Subjects, Consume(k, s) PROVE Killed(s)'
<1>1. /\ DOMAIN kills' = 1..(Len(kills) + 1)
      /\ kills'[Len(kills) + 1] = [token |-> k, subject |-> s]
  BY ConsumeAppends
<1>2. QED BY <1>1, KillTypes DEF Killed

LEMMA RowFields ==
  /\ \A r \in Row : Linked(r).status = r.status /\ Dead(r).status = "revoked"
  /\ \A r \in Row, h \in Values \cup {NoHint} : Hinted(r, h).status = r.status
BY DEF Row, Linked, Hinted, Dead

LEMMA RevokeInvStep == TypeOK /\ RevokeInv /\ [Next]_vars => RevokeInv'
<1> SUFFICES ASSUME TypeOK, RevokeInv, [Next]_vars PROVE RevokeInv'
  OBVIOUS
<1> USE TypeParts, KilledStays, ArgTypes
    DEF TaskType, StoreType, RevokeInv, Goto, Begin, Revoked, Listed, Update, Subjects,
    Steps, Ops
<1>1. ASSUME NEW t \in Tasks, NEW v \in Values, NEW p \in BOOLEAN, NEW b \in BOOLEAN,
             Create(t, v, p, b)
      PROVE RevokeInv'
  BY <1>1 DEF Create
<1>2. ASSUME NEW t \in Tasks, InsertRow(t) PROVE RevokeInv'
  <2>1. /\ \A u \in Tasks : pc'[u] \in {"check", "status", "erase", "next"} => pc'[u] = pc[u]
        /\ op' = op /\ arg' = arg
    BY <1>2 DEF Goto, DbFault, InsertRow
  <2>2. arg[t].cred \in Creds
    BY ArgTypes
  <2>3. \A c \in Creds : c # arg[t].cred => rows'[c] = rows[c]
    BY <2>2, <1>2 DEF InsertRow
  <2>4. rows' # rows => rows'[arg[t].cred].status # "revoked"
    BY <2>2, <1>2 DEF InsertRow
  <2>5. QED BY <2>1, <2>3, <2>4
<1>3. ASSUME NEW t \in Tasks, PutValues(t) PROVE RevokeInv'
  BY ZenonT(60), <1>3 DEF PutValues
<1>4. ASSUME NEW t \in Tasks, LinkSecond(t) PROVE RevokeInv'
  <2>1. /\ \A u \in Tasks : pc'[u] \in {"check", "status", "erase", "next"} => pc'[u] = pc[u]
        /\ op' = op /\ arg' = arg
    BY <1>4 DEF Goto, LinkSecond
  <2>2. arg[t].cred \in Creds
    BY ArgTypes
  <2>3. \A c \in Creds : c # arg[t].cred => rows'[c] = rows[c]
    BY <2>2, <1>4 DEF LinkSecond
  <2>4. rows' # rows
          => \/ rows'[arg[t].cred].status # "revoked"
             \/ Listed(arg[t].cred) /\ rows[arg[t].cred].status = "revoked"
    BY <2>2, <1>4, RowFields DEF LinkSecond
  <2>5. QED BY <2>1, <2>3, <2>4
<1>5. ASSUME NEW t \in Tasks, NEW c \in Creds, Delete(t, c) PROVE RevokeInv'
  BY <1>5 DEF Delete
<1>6. ASSUME NEW t \in Tasks, DropValue(t) PROVE RevokeInv'
  BY <1>6 DEF DropValue
<1>7. ASSUME NEW t \in Tasks, DeleteRow(t) PROVE RevokeInv'
  BY <1>7 DEF DeleteRow
<1>8. ASSUME NEW t \in Tasks, NEW c \in Creds, NEW v \in Values,
             Rotate(t, c, v)
      PROVE RevokeInv'
  BY <1>8 DEF Rotate
<1>9. ASSUME NEW t \in Tasks, NEW c \in Creds, NEW v \in Values,
             Overwrite(t, c, v)
      PROVE RevokeInv'
  BY <1>9 DEF Overwrite
<1>10. ASSUME NEW t \in Tasks, Replace(t) PROVE RevokeInv'
  BY <1>10 DEF Replace
<1>11. ASSUME NEW t \in Tasks, SetHint(t) PROVE RevokeInv'
  <2>1. /\ \A u \in Tasks : pc'[u] \in {"check", "status", "erase", "next"} => pc'[u] = pc[u]
        /\ op' = op /\ arg' = arg
    BY <1>11 DEF Goto, SetHint
  <2>2. arg[t].cred \in Creds
    BY ArgTypes
  <2>3. \A c \in Creds : c # arg[t].cred => rows'[c] = rows[c]
    BY <2>2, <1>11 DEF SetHint
  <2>4. rows' # rows
          => \/ rows'[arg[t].cred].status # "revoked"
             \/ Listed(arg[t].cred) /\ rows[arg[t].cred].status = "revoked"
    BY <2>2, <1>11, RowFields DEF SetHint
  <2>5. QED BY <2>1, <2>3, <2>4
<1>12. ASSUME NEW t \in Tasks, OverwriteValue(t) PROVE RevokeInv'
  BY <1>12 DEF OverwriteValue
<1>13. ASSUME NEW t \in Tasks, NEW k \in 1..MaxTokens, NEW f \in BOOLEAN, NEW c \in Creds,
              Revoke(t, c, k, f)
       PROVE RevokeInv'
  <2>1. Killed(c)' /\ \A s \in Subjects : Killed(s) => Killed(s)'
    BY <1>13, ConsumeKills DEF Revoke
  <2>2. /\ pc' = [pc EXCEPT ![t] = "check"] /\ op' = [op EXCEPT ![t] = "revoke"]
        /\ arg' = [arg EXCEPT ![t] = Choose(Aim(NoArg, c), f)] /\ rows' = rows
    BY <1>13 DEF Revoke
  <2>3. Choose(Aim(NoArg, c), f).cred = c
    BY NoArgIsArg DEF Choose, Aim, Arg
  <2>4. QED BY <2>1, <2>2, <2>3
<1>14. ASSUME NEW t \in Tasks, NEW k \in 1..MaxTokens, NEW f \in BOOLEAN,
              RevokeIssuer(t, k, f)
       PROVE RevokeInv'
  BY <1>14, ConsumeKills DEF RevokeIssuer
<1>15. ASSUME NEW t \in Tasks, NextOfBulk(t) PROVE RevokeInv'
  BY <1>15 DEF NextOfBulk
<1>16. ASSUME NEW t \in Tasks, Check(t) PROVE RevokeInv'
  BY <1>16 DEF Check
<1>17. ASSUME NEW t \in Tasks, SetRevoked(t) PROVE RevokeInv'
  BY <1>17, RowFields DEF SetRevoked
<1>18. ASSUME NEW t \in Tasks, Erase(t) PROVE RevokeInv'
  BY <1>18 DEF Erase
<1>19. ASSUME NEW c \in Creds, NEW v \in Values, PullValue(c, v) PROVE RevokeInv'
  BY <1>19 DEF PullValue
<1>20. ASSUME NEW s \in Subjects, RequestConfirm(s) PROVE RevokeInv'
  BY <1>20 DEF RequestConfirm
<1>21. ASSUME NEW k \in 1..MaxTokens, Expire(k) PROVE RevokeInv'
  BY <1>21 DEF Expire
<1>22. CASE Unlock
  BY <1>22 DEF Unlock
<1>23. CASE Flush
  BY <1>23 DEF Flush
<1>24. CASE Lock
  BY <1>24 DEF Lock
<1>25. CASE Restart
  BY <1>25 DEF Restart
<1>26. CASE UNCHANGED vars
  BY <1>26 DEF vars
<1>27. QED
  BY <1>1, <1>2, <1>3, <1>4, <1>5, <1>6, <1>7, <1>8, <1>9, <1>10, <1>11, <1>12, <1>13,
     <1>14, <1>15, <1>16, <1>17, <1>18, <1>19, <1>20, <1>21, <1>22, <1>23, <1>24, <1>25,
     <1>26 DEF Next

\* kill_switch.rs: whatever commands overlap, every revoke was confirmed by one
\* token of its credential or of the issuer, no token confirmed two, and a
\* revoked row has a confirmation behind it.
THEOREM KillsAlwaysConfirmed == Spec => []KillsConfirmed
<1>1. TypeOK /\ TokenInv /\ RevokeInv => KillsConfirmed
  BY TypeParts DEF KillsConfirmed, TokenInv, RevokeInv, Killed
<1>2. QED BY <1>1, TypeCorrect, InitKillInv, TokenInvStep, RevokeInvStep, PTL DEF Spec
-----------------------------------------------------------------------------
(* Active credentials have their values.  An id belongs to one create, and *)
(* nothing else names it before its row is there (FreshInv); so a row that *)
(* was revoked or deleted never becomes active again under a task that     *)
(* takes its value away (ValueInv).                                        *)

\* The records that a reveal would read, or will once the vault is open.
Now == IF open THEN mem ELSE saved

Uses(t, c) == pc[t] \notin {"idle", "next"} /\ arg[t].cred = c

\* Whatever names a credential names one that was created.
IdInv ==
  /\ \A c \in Creds : Listed(c) => c < next
  /\ \A k \in 1..MaxTokens : tokens[k] \in Creds => tokens[k] < next
  /\ \A t \in Tasks, c \in Creds : Uses(t, c) \/ c \in todo[t] => c < next

FreshInv ==
  \A t \in Tasks, c \in Creds : pc[t] = "insert" /\ arg[t].cred = c =>
    /\ ~Listed(c)
    /\ \A u \in Tasks : c \notin todo[u] /\ (Uses(u, c) => u = t)
    /\ \A k \in 1..MaxTokens : tokens[k] # c

ValueInv ==
  /\ \A t \in Tasks : pc[t] = "link" => Now[Secondary(arg[t].cred)] # Absent
  /\ \A t \in Tasks : pc[t] = "erase" => arg[t].cred \notin Active
  /\ dbFaults = 0 /\ restarts = 0 =>
       \A c \in Active :
         /\ InProgress(c) \/ Now[Primary(c)] # Absent
         /\ rows[c].second => Now[Secondary(c)] # Absent

\* No secondary values, and no values of credentials killed with their value.
NothingLeft ==
  /\ \A c \in Creds : mem[Secondary(c)] = Absent /\ saved[Secondary(c)] = Absent
  /\ \A c \in erased : mem[Primary(c)] = Absent /\ saved[Primary(c)] = Absent

\* Commands of the main window, one at a time: no secondary values, and nothing
\* writes a value of a credential that was killed with its value.
AloneInv ==
  alone =>
    /\ \A t, u \in Tasks : pc[t] # "idle" /\ pc[u] # "idle" => t = u
    /\ \A t \in Tasks : pc[t] \notin {"link", "overwrite"}
    /\ \A t \in Tasks : pc[t] \in {"insert", "put", "replace"}
                          => ~arg[t].flag /\ arg[t].cred \notin erased
    /\ \A c \in erased : c < next /\ c \notin Active
    /\ NothingLeft

\* The credential that an argument aims at.
LEMMA AimsAt ==
  /\ \A c \in Creds : Aim(NoArg, c).cred = c
  /\ \A a \in Arg, c \in Creds, f \in BOOLEAN : Choose(Aim(a, c), f).cred = c /\ Aim(a, c).cred = c
  /\ \A a \in Arg, f \in BOOLEAN : Choose(a, f).cred = a.cred
  /\ \A c, v, h, f : /\ Input(c, v, h, f).cred = c /\ Input(c, v, h, f).value = v
                     /\ Input(c, v, h, f).flag = f
BY NoArgIsArg DEF Aim, Choose, Arg, Input

\* A step other than create names a credential that was named or has a row, and
\* only the insert of its create gives it one.
NamesKept ==
  /\ next' = next
  /\ \A u \in Tasks, c \in Creds : Uses(u, c)' =>
       Uses(u, c) \/ c \in todo[u] \/ Listed(c) \/ \E k \in 1..MaxTokens : tokens[k] = c
  /\ \A u \in Tasks : \A c \in todo'[u] : c \in todo[u] \/ Listed(c)
  /\ \A k \in 1..MaxTokens : tokens'[k] # tokens[k] /\ tokens'[k] \in Creds => Listed(tokens'[k])
  /\ \A t \in Tasks : pc'[t] = "insert" => pc[t] = "insert" /\ arg'[t] = arg[t]
  /\ \A c \in Creds : Listed(c)' =>
       Listed(c) \/ \E t \in Tasks : pc[t] = "insert" /\ arg[t].cred = c /\ pc'[t] # "insert"

\* A command begins on a credential that has a row or a token.
LEMMA BeginNames ==
  ASSUME TypeOK, NEW t \in Tasks, NEW o, NEW step \in Steps \ {"insert"}, NEW a \in Arg,
         Begin(t, o, step, a), UNCHANGED <<rows, next>>,
         step # "next" => Listed(a.cred) \/ \E k \in 1..MaxTokens : tokens[k] = a.cred,
         \A u \in Tasks : \A c \in todo'[u] : c \in todo[u] \/ Listed(c),
         \A k \in 1..MaxTokens : tokens'[k] \in {tokens[k], NoSubject}
  PROVE  NamesKept
<1>0. TaskType /\ NoSubject \notin Creds
  BY TypeParts, StoreAssumption DEF Subjects
<1>1. /\ pc'[t] = step /\ arg'[t] = a
      /\ \A u \in Tasks : u # t => pc'[u] = pc[u] /\ arg'[u] = arg[u]
  BY <1>0 DEF Begin, Goto, TaskType
<1>2. \A u \in Tasks, c \in Creds : Uses(u, c)' =>
       Uses(u, c) \/ Listed(c) \/ \E k \in 1..MaxTokens : tokens[k] = c
  BY <1>1 DEF Uses
<1>3. \A u \in Tasks : pc'[u] = "insert" => pc[u] = "insert" /\ arg'[u] = arg[u]
  BY <1>1
<1>4. QED BY <1>0, <1>2, <1>3 DEF NamesKept, Listed

LEMMA NamesStep ==
  ASSUME TypeOK, [Next]_vars, \A t \in Tasks, v \in Values, p, b \in BOOLEAN : ~Create(t, v, p, b)
  PROVE  NamesKept
<1>0. StoreType /\ TaskType /\ KillType /\ NoSubject \notin Subjects
  BY TypeParts, StoreAssumption
<1> USE <1>0 DEF NamesKept, TaskType, StoreType, KillType, Uses, Goto, Begin, Revoked, Listed, Update, vault
<1>1. ASSUME NEW t \in Tasks, InsertRow(t) PROVE NamesKept
  BY <1>1, ArgTypes DEF InsertRow
<1>2. ASSUME NEW t \in Tasks, PutValues(t) PROVE NamesKept
  BY <1>2, ArgTypes DEF PutValues
<1>3. ASSUME NEW t \in Tasks, LinkSecond(t) PROVE NamesKept
  BY <1>3 DEF LinkSecond
<1>4. ASSUME NEW t \in Tasks, NEW c \in Creds, Delete(t, c) PROVE NamesKept
  BY <1>4, AimsAt DEF Delete
<1>5. ASSUME NEW t \in Tasks, DropValue(t) PROVE NamesKept
  BY <1>5 DEF DropValue
<1>6. ASSUME NEW t \in Tasks, DeleteRow(t) PROVE NamesKept
  BY <1>6, ArgTypes DEF DeleteRow
<1>7. ASSUME NEW t \in Tasks, NEW c \in Creds, NEW v \in Values, Rotate(t, c, v)
      PROVE NamesKept
  <2>1. Input(c, v, v, FALSE) \in Arg /\ Input(c, v, v, FALSE).cred = c
    BY DEF Input, Arg
  <2>2. /\ Begin(t, "rotate", "replace", Input(c, v, v, FALSE)) /\ Listed(c)
        /\ UNCHANGED <<rows, next, todo, tokens>>
    BY ONLY <1>7 DEF Rotate, Active, vault
  <2>3. QED BY ONLY TypeOK, <2>1, <2>2, BeginNames DEF Steps
<1>8. ASSUME NEW t \in Tasks, NEW c \in Creds, NEW v \in Values, Overwrite(t, c, v)
      PROVE NamesKept
  <2>1. Input(c, v, NoHint, FALSE) \in Arg /\ Input(c, v, NoHint, FALSE).cred = c
    BY DEF Input, Arg
  <2>2. /\ Begin(t, "overwrite", "overwrite", Input(c, v, NoHint, FALSE)) /\ Listed(c)
        /\ UNCHANGED <<rows, next, todo, tokens>>
    BY ONLY <1>8 DEF Overwrite, vault
  <2>3. QED BY ONLY TypeOK, <2>1, <2>2, BeginNames DEF Steps
<1>9. ASSUME NEW t \in Tasks, Replace(t) PROVE NamesKept
  BY <1>9 DEF Replace
<1>10. ASSUME NEW t \in Tasks, SetHint(t) PROVE NamesKept
  BY <1>10 DEF SetHint
<1>11. ASSUME NEW t \in Tasks, OverwriteValue(t) PROVE NamesKept
  BY <1>11 DEF OverwriteValue
<1>12. ASSUME NEW t \in Tasks, NEW k \in 1..MaxTokens, NEW f \in BOOLEAN, NEW c \in Creds,
              Revoke(t, c, k, f)
      PROVE NamesKept
  <2>1. Choose(Aim(NoArg, c), f) \in Arg /\ Choose(Aim(NoArg, c), f).cred = c
    BY ONLY ArgTypes, AimsAt, NoArgIsArg
  <2>2. QED BY <1>12, <2>1, BeginNames DEF Revoke, Consume, Steps
<1>13. ASSUME NEW t \in Tasks, NEW k \in 1..MaxTokens, NEW f \in BOOLEAN,
              RevokeIssuer(t, k, f)
      PROVE NamesKept
  <2>1. Choose(NoArg, f) \in Arg
    BY ONLY ArgTypes, NoArgIsArg
  <2>2. \A u \in Tasks : \A c \in todo'[u] : c \in todo[u] \/ Listed(c)
    BY <1>13 DEF RevokeIssuer, Active
  <2>3. QED BY <1>13, <2>1, <2>2, BeginNames DEF RevokeIssuer, Consume, Steps
<1>14. ASSUME NEW t \in Tasks, NextOfBulk(t) PROVE NamesKept
  <2>1. CASE todo[t] = {}
    BY <1>14, <2>1 DEF NextOfBulk
  <2>2. ASSUME NEW c \in todo[t], arg' = [arg EXCEPT ![t] = Aim(@, c)],
               todo' = [todo EXCEPT ![t] = @ \ {c}], Goto(t, "check"),
               UNCHANGED <<rows, next, tokens>>
        PROVE  NamesKept
    <3>1. Aim(arg[t], c).cred = c
      BY AimsAt
    <3>2. QED BY <2>2, <3>1
  <2>3. QED BY <1>14, <2>1, <2>2 DEF NextOfBulk
<1>15. ASSUME NEW t \in Tasks, Check(t) PROVE NamesKept
  BY <1>15 DEF Check
<1>16. ASSUME NEW t \in Tasks, SetRevoked(t) PROVE NamesKept
  BY <1>16 DEF SetRevoked
<1>17. ASSUME NEW t \in Tasks, Erase(t) PROVE NamesKept
  BY <1>17 DEF Erase
<1>18. ASSUME NEW c \in Creds, NEW v \in Values, PullValue(c, v) PROVE NamesKept
  BY <1>18 DEF PullValue
<1>19. ASSUME NEW s \in Subjects, RequestConfirm(s) PROVE NamesKept
  BY <1>19, StoreAssumption DEF RequestConfirm, CountType, Subjects
<1>20. ASSUME NEW k \in 1..MaxTokens, Expire(k) PROVE NamesKept
  BY <1>20 DEF Expire, Subjects
<1>21. CASE Unlock
  BY <1>21 DEF Unlock
<1>22. CASE Flush
  BY <1>22 DEF Flush
<1>23. CASE Lock
  BY <1>23 DEF Lock
<1>24. CASE Restart
  BY <1>24 DEF Restart, Subjects
<1>25. CASE UNCHANGED vars
  BY <1>25 DEF vars
<1>26. QED
  BY <1>1, <1>2, <1>3, <1>4, <1>5, <1>6, <1>7, <1>8, <1>9, <1>10, <1>11, <1>12,
     <1>13, <1>14, <1>15, <1>16, <1>17, <1>18, <1>19, <1>20, <1>21, <1>22, <1>23,
     <1>24, <1>25 DEF Next

\* create takes the next id, which nothing names yet.
LEMMA CreateNames ==
  ASSUME TypeOK, IdInv, NEW t \in Tasks, NEW v \in Values, NEW p \in BOOLEAN, NEW b \in BOOLEAN,
         Create(t, v, p, b)
  PROVE  /\ next \in Creds /\ next' = next + 1 /\ UNCHANGED <<rows, tokens, todo, erased>>
         /\ pc'[t] = "insert" /\ arg'[t].cred = next
         /\ \A u \in Tasks : u # t => pc'[u] = pc[u] /\ arg'[u] = arg[u]
         /\ ~Listed(next) /\ \A k \in 1..MaxTokens : tokens[k] # next
         /\ \A u \in Tasks : ~Uses(u, next) /\ next \notin todo[u]
<1>1. StoreType /\ TaskType /\ next \in Nat
  BY TypeParts, StoreAssumption DEF StoreType
<1>2. ~Listed(next) /\ \A k \in 1..MaxTokens : tokens[k] # next
  BY <1>1 DEF IdInv, Create
<1>3. \A u \in Tasks : ~Uses(u, next) /\ next \notin todo[u]
  BY <1>1 DEF IdInv, Create
<1>4. QED BY <1>1, <1>2, <1>3, AimsAt DEF Create, Begin, Goto, TaskType, vault, history

LEMMA IdStep == TypeOK /\ IdInv /\ [Next]_vars => IdInv'
<1> SUFFICES ASSUME TypeOK, IdInv, [Next]_vars PROVE IdInv'
  OBVIOUS
<1>0. next \in Nat /\ Creds \subseteq Nat
  BY TypeParts DEF StoreType, Creds
<1>1. CASE NamesKept
  <2>1. \A c \in Creds : Listed(c) \/ (\E k \in 1..MaxTokens : tokens[k] = c) => c < next
    BY DEF IdInv
  <2>2. \A u \in Tasks, c \in Creds : (Uses(u, c) \/ c \in todo[u])' => c < next'
    BY <1>1, <2>1 DEF NamesKept, IdInv
  <2>3. \A c \in Creds : Listed(c)' => c < next'
    BY <1>1, <2>1 DEF NamesKept, IdInv, Uses
  <2>4. QED BY <1>1, <2>1, <2>2, <2>3 DEF NamesKept, IdInv
<1>2. ASSUME NEW t \in Tasks, NEW v \in Values, NEW p \in BOOLEAN, NEW b \in BOOLEAN,
             Create(t, v, p, b)
      PROVE  IdInv'
  <2>1. /\ next' = next + 1 /\ UNCHANGED <<rows, tokens, todo>>
        /\ arg'[t].cred = next /\ next \in Creds
        /\ \A u \in Tasks : u # t => pc'[u] = pc[u] /\ arg'[u] = arg[u]
    BY <1>2, CreateNames
  <2>2. \A c \in Creds : c < next => c < next'
    BY <1>0, <2>1
  <2>3. ASSUME NEW u \in Tasks, NEW c \in Creds, (Uses(u, c) \/ c \in todo[u])'
        PROVE  c < next'
    <3>1. c = next \/ Uses(u, c) \/ c \in todo[u]
      BY <2>1, <2>3 DEF Uses
    <3>2. c < next \/ c = next
      BY <3>1 DEF IdInv
    <3>3. QED BY <1>0, <2>1, <3>2
  <2>4. QED BY <2>1, <2>2, <2>3 DEF IdInv, Listed
<1>3. QED BY <1>1, <1>2, NamesStep

LEMMA FreshStep == TypeOK /\ IdInv /\ FreshInv /\ [Next]_vars => FreshInv'
<1> SUFFICES ASSUME TypeOK, IdInv, FreshInv, [Next]_vars PROVE FreshInv'
  OBVIOUS
<1>1. CASE NamesKept
  <2> SUFFICES ASSUME NEW t \in Tasks, NEW c \in Creds, pc'[t] = "insert", arg'[t].cred = c
               PROVE  /\ ~Listed(c)'
                      /\ \A u \in Tasks : c \notin todo'[u] /\ (Uses(u, c)' => u = t)
                      /\ \A k \in 1..MaxTokens : tokens'[k] # c
    BY DEF FreshInv
  <2>1. pc[t] = "insert" /\ arg[t].cred = c
    BY <1>1 DEF NamesKept
  <2>2. ~Listed(c) /\ \A k \in 1..MaxTokens : tokens[k] # c
    BY <2>1 DEF FreshInv
  <2>3. \A u \in Tasks : c \notin todo[u] /\ (Uses(u, c) => u = t)
    BY <2>1 DEF FreshInv
  <2>4. ~Listed(c)'
    BY <1>1, <2>2, <2>3 DEF NamesKept, Uses
  <2>5. \A u \in Tasks : c \notin todo'[u] /\ (Uses(u, c)' => u = t)
    BY <1>1, <2>2, <2>3 DEF NamesKept
  <2>6. QED BY <1>1, <2>2, <2>4, <2>5 DEF NamesKept
<1>2. ASSUME NEW t \in Tasks, NEW v \in Values, NEW p \in BOOLEAN, NEW b \in BOOLEAN,
             Create(t, v, p, b)
      PROVE  FreshInv'
  <2>1. /\ UNCHANGED <<rows, tokens, todo>>
        /\ pc'[t] = "insert" /\ arg'[t].cred = next
        /\ \A u \in Tasks : u # t => pc'[u] = pc[u] /\ arg'[u] = arg[u]
        /\ ~Listed(next) /\ \A k \in 1..MaxTokens : tokens[k] # next
        /\ \A u \in Tasks : ~Uses(u, next) /\ next \notin todo[u]
    BY <1>2, CreateNames
  <2> SUFFICES ASSUME NEW u \in Tasks, NEW c \in Creds, pc'[u] = "insert", arg'[u].cred = c
               PROVE  /\ ~Listed(c)'
                      /\ \A w \in Tasks : c \notin todo'[w] /\ (Uses(w, c)' => w = u)
                      /\ \A k \in 1..MaxTokens : tokens'[k] # c
    BY DEF FreshInv
  <2>2. CASE u = t
    BY <2>1, <2>2 DEF Uses, Listed
  <2>3. CASE u # t
    <3>1. pc[u] = "insert" /\ arg[u].cred = c /\ c # next
      BY <2>1, <2>3 DEF Uses
    <3>2. QED BY <2>1, <2>3, <3>1 DEF FreshInv, Uses, Listed
  <2>4. QED BY <2>2, <2>3
<1>3. QED BY <1>1, <1>2, NamesStep
\* A step other than a process end keeps the values that a reveal would read,
\* but for those that delete and the kill switch take away, and activates no row
\* but the one that create inserts.
ValuesKept ==
  /\ \A c \in Creds : Now[Secondary(c)] # Absent => Now'[Secondary(c)] # Absent
  /\ \A c \in Creds : Now[Primary(c)] # Absent =>
       \/ Now'[Primary(c)] # Absent \/ InProgress(c)'
       \/ \E t \in Tasks : pc[t] = "erase" /\ arg[t].cred = c
  /\ \A c \in Creds : InProgress(c) =>
       InProgress(c)' \/ Now'[Primary(c)] # Absent \/ c \notin Active' \/ dbFaults' # 0
  /\ \A c \in Active' \cap Active : rows'[c].second =>
       rows[c].second \/ \E t \in Tasks : pc[t] = "link" /\ arg[t].cred = c
  /\ \A c \in Active' \ Active :
       /\ InProgress(c)' /\ ~rows'[c].second
       /\ \E t \in Tasks : pc[t] = "insert" /\ arg[t].cred = c
  /\ \A t \in Tasks : pc'[t] = "link" =>
       \/ pc[t] = "link" /\ arg'[t] = arg[t]
       \/ Now'[Secondary(arg'[t].cred)] # Absent
  /\ \A t \in Tasks : pc'[t] = "erase" =>
       \/ pc[t] = "erase" /\ arg'[t] = arg[t]
       \/ arg'[t].cred \notin Active'
  /\ dbFaults # 0 => dbFaults' # 0

\* Two slots per credential.
LEMMA SlotsDiffer ==
  ASSUME NEW c \in Creds, NEW d \in Creds
  PROVE  /\ Primary(c) # Secondary(d)
         /\ Primary(c) = Primary(d) => c = d
         /\ Secondary(c) = Secondary(d) => c = d
         /\ Primary(c) \in Slots /\ Secondary(c) \in Slots
BY DEF Primary, Secondary, Slots

\* What a put leaves in the slots.
LEMMA PutSlots ==
  ASSUME mem \in Records, NEW a \in Arg, NEW c \in Creds
  PROVE  /\ WithValues(a)[Primary(a.cred)] \in Values
         /\ a.flag => WithValues(a)[Secondary(a.cred)] \in Values
         /\ WithValues(a)[Secondary(c)] # mem[Secondary(c)] => a.flag /\ c = a.cred
         /\ c # a.cred => WithValues(a)[Primary(c)] = mem[Primary(c)]
<1>1. a.cred \in Creds /\ a.value \in Values
  BY ArgTypes
<1> DEFINE m == [mem EXCEPT ![Primary(a.cred)] = a.value]
<1>2. m \in Records
  BY <1>1, SlotTypes DEF Records
<1>3. /\ m[Primary(a.cred)] = a.value
      /\ \A s \in Slots : s # Primary(a.cred) => m[s] = mem[s]
  BY <1>1, SlotTypes DEF Records
<1>4. \A s \in Slots : WithValues(a)[s] =
        IF s = Secondary(a.cred) /\ a.flag THEN a.value ELSE m[s]
  BY <1>1, <1>2, SlotTypes, SlotsDiffer DEF Records, WithValues
<1>5. QED BY <1>1, <1>3, <1>4, SlotsDiffer

\* A step that leaves rows, vault and faults alone, and puts no task at a step
\* that the values depend on.
LEMMA QuietStep ==
  ASSUME UNCHANGED <<rows, mem, saved, open>>, dbFaults # 0 => dbFaults' # 0,
         \A t \in Tasks :
           \/ pc'[t] = pc[t] /\ arg'[t] = arg[t]
           \/ pc'[t] \notin {"link", "erase"} /\ pc[t] \notin {"put", "unlist"}
  PROVE  ValuesKept
BY DEF ValuesKept, Now, InProgress, Active, Listed

\* The step that links a secondary value.
Links(t, c) == pc[t] = "link" /\ arg[t].cred = c

\* A row goes, or its statement fails; either ends the command.
LEMMA RowGone ==
  ASSUME NEW t \in Tasks, arg[t].cred \in Creds, UNCHANGED <<mem, saved, open, arg>>,
         dbFaults # 0 => dbFaults' # 0, rows \in [Creds -> Row \cup {NoRow}],
         pc'[t] = "idle", \A u \in Tasks : u # t => pc'[u] = pc[u],
         dbFaults' # 0 \/ rows' = [rows EXCEPT ![arg[t].cred] = NoRow],
         \A c \in Active' : c \in Active /\ rows'[c] = rows[c]
  PROVE  ValuesKept
<1>1. Now' = Now
  BY DEF Now
<1>2. \A c \in Creds : InProgress(c) => InProgress(c)' \/ c \notin Active' \/ dbFaults' # 0
  BY DEF InProgress, Active, Listed
<1>3. QED BY <1>1, <1>2 DEF ValuesKept

LEMMA RowSecond ==
  \A r \in Row : /\ Dead(r).second = r.second
                 /\ \A h \in Values \cup {NoHint} : Hinted(r, h).second = r.second
BY DEF Row, Hinted, Dead

\* A step of one task that changes one row, without activating it.
LEMMA RowStep ==
  ASSUME NEW t \in Tasks, TaskType, UNCHANGED <<mem, saved, open, arg>>,
         dbFaults # 0 => dbFaults' # 0,
         \A u \in Tasks : u # t => pc'[u] = pc[u],
         pc[t] \notin {"put", "unlist"}, pc'[t] # "link",
         pc'[t] = "erase" => arg[t].cred \notin Active',
         Active' \subseteq Active,
         \A c \in Active' : rows'[c].second => rows[c].second \/ Links(t, c)
  PROVE  ValuesKept
<1>1. Now' = Now /\ \A c \in Creds : InProgress(c) => InProgress(c)'
  BY DEF Now, InProgress
<1>2. QED BY <1>1 DEF ValuesKept, Active, Links

\* A put into an open vault, of the value and, with flag, the secondary one.
LEMMA PutStep ==
  ASSUME TypeOK, NEW t \in Tasks, open, mem' = WithValues(arg[t]),
         UNCHANGED <<rows, open, arg>>, dbFaults # 0 => dbFaults' # 0,
         \A u \in Tasks : u # t => pc'[u] = pc[u],
         pc[t] # "unlist", pc'[t] # "erase",
         pc'[t] = "link" => arg[t].flag
  PROVE  ValuesKept
<1>1. arg[t] \in Arg /\ arg[t].cred \in Creds /\ mem \in Records /\ Absent \notin Values
  BY TypeParts, ArgTypes, StoreAssumption DEF TaskType, StoreType
<1>2. Now = mem /\ Now' = WithValues(arg[t])
  BY DEF Now
<1>3. \A c \in Creds : /\ Now[Secondary(c)] # Absent => Now'[Secondary(c)] # Absent
                       /\ Now[Primary(c)] # Absent => Now'[Primary(c)] # Absent
  BY <1>1, <1>2, PutSlots
<1>4. /\ Now'[Primary(arg[t].cred)] # Absent
      /\ pc'[t] = "link" => Now'[Secondary(arg[t].cred)] # Absent
  BY <1>1, <1>2, PutSlots
<1>5. Active' = Active
  BY DEF Active, Listed
<1>6. \A c \in Creds : InProgress(c) => InProgress(c)' \/ Now'[Primary(c)] # Absent
  BY <1>4 DEF InProgress
<1>7. QED BY <1>3, <1>4, <1>5, <1>6 DEF ValuesKept

\* A step of a task that writes only the vault.
LEMMA ValuesStep ==
  ASSUME TypeOK, [Next]_vars, ~Restart
  PROVE  ValuesKept
<1>0. StoreType /\ TaskType /\ dbFaults \in Nat /\ Absent \notin Values
  BY TypeParts, StoreAssumption DEF CountType
<1> USE <1>0
<1>1. ASSUME NEW t \in Tasks, NEW v \in Values, NEW p \in BOOLEAN, NEW b \in BOOLEAN,
             Create(t, v, p, b)
      PROVE ValuesKept
  BY <1>1, QuietStep DEF Create, Begin, Goto, Revoked, TaskType, vault, counters
<1>2. ASSUME NEW t \in Tasks, InsertRow(t) PROVE ValuesKept
  <2>1. arg[t].cred \in Creds
    BY ArgTypes DEF TaskType
  <2>2. CASE rows' = rows
    BY <1>2, <2>2, QuietStep DEF InsertRow, Goto, TaskType, vault, counters, DbFault
  <2>3. CASE rows' # rows
    <3>1. /\ pc'[t] = "put" /\ \A u \in Tasks : u # t => pc'[u] = pc[u]
          /\ UNCHANGED <<mem, saved, open, arg, dbFaults>> /\ pc[t] = "insert"
      BY <1>2, <2>3 DEF InsertRow, Goto, TaskType, vault, counters
    <3>2. /\ \A c \in Creds : c # arg[t].cred => rows'[c] = rows[c]
          /\ ~rows'[arg[t].cred].second
      BY <1>2, <2>1, <2>3 DEF InsertRow, StoreType
    <3>3. Now' = Now /\ \A c \in Creds : InProgress(c) => InProgress(c)'
      BY <3>1 DEF Now, InProgress
    <3>4. InProgress(arg[t].cred)' /\ \A c \in Active' \ Active : c = arg[t].cred
      BY <2>1, <3>1, <3>2 DEF InProgress, Active, Listed
    <3>5. \A c \in Active' \cap Active : rows'[c].second => rows[c].second
      BY <3>2 DEF Active
    <3>6. QED BY <2>1, <3>1, <3>2, <3>3, <3>4, <3>5 DEF ValuesKept
  <2>4. QED BY <2>2, <2>3
<1>3. ASSUME NEW t \in Tasks, PutValues(t) PROVE ValuesKept
  <2>1. CASE open
    <3>1. /\ mem' = WithValues(arg[t]) /\ UNCHANGED <<rows, open, arg, dbFaults>>
          /\ pc[t] = "put" /\ pc'[t] = (IF arg[t].flag THEN "link" ELSE "idle")
          /\ \A u \in Tasks : u # t => pc'[u] = pc[u]
      BY <1>3, <2>1 DEF PutValues, Goto, TaskType, counters
    <3>2. QED BY <2>1, <3>1, PutStep
  <2>2. CASE ~open
    <3>1. arg[t].cred \in Creds
      BY ArgTypes DEF TaskType
    <3>2. /\ pc'[t] = "idle" /\ \A u \in Tasks : u # t => pc'[u] = pc[u]
          /\ UNCHANGED <<mem, saved, open, arg>> /\ (dbFaults # 0 => dbFaults' # 0)
      BY <1>3, <2>2 DEF PutValues, Goto, TaskType, counters, DbFault
    <3>3. dbFaults' # 0 \/ rows' = [rows EXCEPT ![arg[t].cred] = NoRow]
      BY <1>3, <2>2 DEF PutValues, DbFault
    <3>4. \A c \in Active' : c \in Active /\ rows'[c] = rows[c]
      BY <1>3, <2>2, <3>1 DEF PutValues, Active, Listed, StoreType
    <3>5. QED BY <3>1, <3>2, <3>3, <3>4, RowGone DEF StoreType
  <2>3. QED BY <2>1, <2>2
<1>4. ASSUME NEW t \in Tasks, LinkSecond(t) PROVE ValuesKept
  <2>1. arg[t].cred \in Creds
    BY ArgTypes DEF TaskType
  <2>2. \A c \in Creds : c # arg[t].cred => rows'[c] = rows[c]
    BY <1>4, <2>1 DEF LinkSecond, Update, StoreType
  <2>3. /\ Active' \subseteq Active
        /\ \A c \in Active' : rows'[c].second => rows[c].second \/ Links(t, c)
    <3>1. CASE rows' = rows
      BY <3>1 DEF Active, Listed
    <3>2. CASE rows' # rows
      <4>1. Listed(arg[t].cred) /\ rows[arg[t].cred] \in Row /\ arg[t].hint \in Values \cup {NoHint}
        BY <1>4, <2>1, <3>2 DEF LinkSecond, Update, StoreType, TaskType, Listed, Arg
      <4>2. rows'[arg[t].cred] = Linked(rows[arg[t].cred])
        BY <1>4, <2>1, <3>2, <4>1 DEF LinkSecond, Update, StoreType
      <4>3. /\ rows'[arg[t].cred].status = "active" => rows[arg[t].cred].status = "active"
            /\ rows'[arg[t].cred].second => rows[arg[t].cred].second \/ Links(t, arg[t].cred)
        BY <1>4, <4>1, <4>2, RowFields, RowSecond DEF LinkSecond, Links
      <4>4. QED BY <2>2, <4>1, <4>3 DEF Active, Listed
    <3>3. QED BY <3>1, <3>2
  <2>4. /\ UNCHANGED <<mem, saved, open, arg>> /\ (dbFaults # 0 => dbFaults' # 0)
        /\ \A u \in Tasks : u # t => pc'[u] = pc[u]
        /\ pc[t] \notin {"put", "unlist"} /\ pc'[t] # "link"
    BY <1>4 DEF LinkSecond, TaskType, Goto, Revoked, vault, counters, DbFault
  <2>5. pc'[t] # "erase"
    BY <1>4 DEF LinkSecond, TaskType, Goto
  <2>6. QED BY <2>3, <2>4, <2>5, RowStep
<1>5. ASSUME NEW t \in Tasks, NEW c \in Creds, Delete(t, c) PROVE ValuesKept
  BY <1>5, QuietStep DEF Delete, Begin, Goto, Revoked, TaskType, vault, counters
<1>6. ASSUME NEW t \in Tasks, DropValue(t) PROVE ValuesKept
  BY <1>6, ArgTypes, SlotsDiffer, PutSlots, WithValuesType DEF DropValue, ValuesKept, Now,
     InProgress, Active, Listed, Goto, Revoked, TaskType, StoreType, Records, counters,
     DbFault, Fault
<1>7. ASSUME NEW t \in Tasks, DeleteRow(t) PROVE ValuesKept
  <2>1. arg[t].cred \in Creds
    BY ArgTypes DEF TaskType
  <2>2. /\ pc'[t] = "idle" /\ \A u \in Tasks : u # t => pc'[u] = pc[u]
        /\ UNCHANGED <<mem, saved, open, arg>> /\ (dbFaults # 0 => dbFaults' # 0)
    BY <1>7 DEF DeleteRow, Goto, TaskType, vault, counters, DbFault
  <2>3. dbFaults' # 0 \/ rows' = [rows EXCEPT ![arg[t].cred] = NoRow]
    BY <1>7 DEF DeleteRow, DbFault
  <2>4. \A c \in Active' : c \in Active /\ rows'[c] = rows[c]
    BY <1>7, <2>1 DEF DeleteRow, Active, Listed, StoreType
  <2>5. QED BY <2>1, <2>2, <2>3, <2>4, RowGone DEF StoreType
<1>8. ASSUME NEW t \in Tasks, NEW c \in Creds, NEW v \in Values, Rotate(t, c, v)
      PROVE ValuesKept
  BY <1>8, QuietStep DEF Rotate, Begin, Goto, Revoked, TaskType, vault, counters
<1>9. ASSUME NEW t \in Tasks, NEW c \in Creds, NEW v \in Values, Overwrite(t, c, v)
      PROVE ValuesKept
  BY <1>9, QuietStep DEF Overwrite, Begin, Goto, Revoked, TaskType, vault, counters
<1>10. ASSUME NEW t \in Tasks, Replace(t) PROVE ValuesKept
  <2>1. CASE open
    BY <1>10, <2>1, PutStep DEF Replace, Goto, TaskType, counters, Fault
  <2>2. CASE ~open
    BY <1>10, <2>2, QuietStep DEF Replace, Goto, TaskType, counters
  <2>3. QED BY <2>1, <2>2
<1>11. ASSUME NEW t \in Tasks, SetHint(t) PROVE ValuesKept
  <2>1. arg[t].cred \in Creds
    BY ArgTypes DEF TaskType
  <2>2. \A c \in Creds : c # arg[t].cred => rows'[c] = rows[c]
    BY <1>11, <2>1 DEF SetHint, Update, StoreType
  <2>3. /\ Active' \subseteq Active
        /\ \A c \in Active' : rows'[c].second => rows[c].second \/ Links(t, c)
    <3>1. CASE rows' = rows
      BY <3>1 DEF Active, Listed
    <3>2. CASE rows' # rows
      <4>1. Listed(arg[t].cred) /\ rows[arg[t].cred] \in Row /\ arg[t].hint \in Values \cup {NoHint}
        BY <1>11, <2>1, <3>2 DEF SetHint, Update, StoreType, TaskType, Listed, Arg
      <4>2. rows'[arg[t].cred] = Hinted(rows[arg[t].cred], arg[t].hint)
        BY <1>11, <2>1, <3>2, <4>1 DEF SetHint, Update, StoreType
      <4>3. /\ rows'[arg[t].cred].status = "active" => rows[arg[t].cred].status = "active"
            /\ rows'[arg[t].cred].second => rows[arg[t].cred].second \/ Links(t, arg[t].cred)
        BY <1>11, <4>1, <4>2, RowFields, RowSecond DEF SetHint, Links
      <4>4. QED BY <2>2, <4>1, <4>3 DEF Active, Listed
    <3>3. QED BY <3>1, <3>2
  <2>4. /\ UNCHANGED <<mem, saved, open, arg>> /\ (dbFaults # 0 => dbFaults' # 0)
        /\ \A u \in Tasks : u # t => pc'[u] = pc[u]
        /\ pc[t] \notin {"put", "unlist"} /\ pc'[t] # "link"
    BY <1>11 DEF SetHint, TaskType, Goto, Revoked, vault, counters, DbFault
  <2>5. pc'[t] = "erase" => arg[t].cred \notin Active'
    BY <1>11, <2>1, RowFields DEF SetHint, Update, StoreType, TaskType, Active, Listed,
       Goto, Revoked
  <2>6. QED BY <2>3, <2>4, <2>5, RowStep
<1>12. ASSUME NEW t \in Tasks, OverwriteValue(t) PROVE ValuesKept
  <2>1. CASE open
    BY <1>12, <2>1, PutStep DEF OverwriteValue, Goto, TaskType, counters
  <2>2. CASE ~open
    BY <1>12, <2>2, QuietStep DEF OverwriteValue, Goto, TaskType, counters
  <2>3. QED BY <2>1, <2>2
<1>13. ASSUME NEW t \in Tasks, NEW k \in 1..MaxTokens, NEW f \in BOOLEAN, NEW c \in Creds,
              Revoke(t, c, k, f)
      PROVE ValuesKept
  BY <1>13, QuietStep DEF Revoke, Begin, Goto, Revoked, TaskType, vault, counters
<1>14. ASSUME NEW t \in Tasks, NEW k \in 1..MaxTokens, NEW f \in BOOLEAN,
              RevokeIssuer(t, k, f)
      PROVE ValuesKept
  BY <1>14, QuietStep DEF RevokeIssuer, Begin, Goto, Revoked, TaskType, vault, counters
<1>15. ASSUME NEW t \in Tasks, NextOfBulk(t) PROVE ValuesKept
  BY <1>15, QuietStep DEF NextOfBulk, Begin, Goto, Revoked, TaskType, vault, counters
<1>16. ASSUME NEW t \in Tasks, Check(t) PROVE ValuesKept
  BY <1>16, QuietStep DEF Check, Begin, Goto, Revoked, TaskType, vault, counters
<1>17. ASSUME NEW t \in Tasks, SetRevoked(t) PROVE ValuesKept
  <2>1. arg[t].cred \in Creds
    BY ArgTypes DEF TaskType
  <2>2. \A c \in Creds : c # arg[t].cred => rows'[c] = rows[c]
    BY <1>17, <2>1 DEF SetRevoked, Update, StoreType
  <2>3. /\ Active' \subseteq Active
        /\ \A c \in Active' : rows'[c].second => rows[c].second \/ Links(t, c)
    <3>1. CASE rows' = rows
      BY <3>1 DEF Active, Listed
    <3>2. CASE rows' # rows
      <4>1. Listed(arg[t].cred) /\ rows[arg[t].cred] \in Row /\ arg[t].hint \in Values \cup {NoHint}
        BY <1>17, <2>1, <3>2 DEF SetRevoked, Update, StoreType, TaskType, Listed, Arg
      <4>2. rows'[arg[t].cred] = Dead(rows[arg[t].cred])
        BY <1>17, <2>1, <3>2, <4>1 DEF SetRevoked, Update, StoreType
      <4>3. /\ rows'[arg[t].cred].status = "active" => rows[arg[t].cred].status = "active"
            /\ rows'[arg[t].cred].second => rows[arg[t].cred].second \/ Links(t, arg[t].cred)
        BY <1>17, <4>1, <4>2, RowFields, RowSecond DEF SetRevoked, Links
      <4>4. QED BY <2>2, <4>1, <4>3 DEF Active, Listed
    <3>3. QED BY <3>1, <3>2
  <2>4. /\ UNCHANGED <<mem, saved, open, arg>> /\ (dbFaults # 0 => dbFaults' # 0)
        /\ \A u \in Tasks : u # t => pc'[u] = pc[u]
        /\ pc[t] \notin {"put", "unlist"} /\ pc'[t] # "link"
    BY <1>17 DEF SetRevoked, TaskType, Goto, Revoked, vault, counters, DbFault
  <2>5. pc'[t] = "erase" => arg[t].cred \notin Active'
    BY <1>17, <2>1, RowFields DEF SetRevoked, Update, StoreType, TaskType, Active, Listed,
       Goto, Revoked
  <2>6. QED BY <2>3, <2>4, <2>5, RowStep
<1>18. ASSUME NEW t \in Tasks, Erase(t) PROVE ValuesKept
  BY <1>18, ArgTypes, SlotsDiffer, PutSlots, WithValuesType DEF Erase, ValuesKept, Now,
     InProgress, Active, Listed, Goto, Revoked, TaskType, StoreType, Records, counters,
     DbFault, Fault
<1>19. ASSUME NEW c \in Creds, NEW v \in Values, PullValue(c, v) PROVE ValuesKept
  BY <1>19, ArgTypes, SlotsDiffer, PutSlots, WithValuesType DEF PullValue, ValuesKept, Now,
     InProgress, Active, Listed, Goto, Revoked, TaskType, StoreType, Records, counters,
     DbFault, Fault
<1>20. ASSUME NEW s \in Subjects, RequestConfirm(s) PROVE ValuesKept
  BY <1>20, QuietStep DEF RequestConfirm, Begin, Goto, Revoked, TaskType, vault, counters
<1>21. ASSUME NEW k \in 1..MaxTokens, Expire(k) PROVE ValuesKept
  BY <1>21, QuietStep DEF Expire, Begin, Goto, Revoked, TaskType, vault, counters
<1>22. CASE Unlock
  BY <1>22, ArgTypes, SlotsDiffer, PutSlots, WithValuesType DEF Unlock, ValuesKept, Now,
     InProgress, Active, Listed, Goto, Revoked, TaskType, StoreType, Records, counters,
     DbFault, Fault
<1>23. CASE Flush
  BY <1>23, ArgTypes, SlotsDiffer, PutSlots, WithValuesType DEF Flush, ValuesKept, Now,
     InProgress, Active, Listed, Goto, Revoked, TaskType, StoreType, Records, counters,
     DbFault, Fault
<1>24. CASE Lock
  BY <1>24, ArgTypes, SlotsDiffer, PutSlots, WithValuesType DEF Lock, ValuesKept, Now,
     InProgress, Active, Listed, Goto, Revoked, TaskType, StoreType, Records, counters,
     DbFault, Fault
<1>25. CASE UNCHANGED vars
  BY <1>25, QuietStep DEF vars
<1>26. QED
  BY <1>1, <1>2, <1>3, <1>4, <1>5, <1>6, <1>7, <1>8, <1>9, <1>10, <1>11, <1>12,
     <1>13, <1>14, <1>15, <1>16, <1>17, <1>18, <1>19, <1>20, <1>21, <1>22, <1>23,
     <1>24, <1>25 DEF Next

LEMMA ValueStep == TypeOK /\ FreshInv /\ ValueInv /\ [Next]_vars => ValueInv'
<1> SUFFICES ASSUME TypeOK, FreshInv, ValueInv, [Next]_vars PROVE ValueInv'
  OBVIOUS
<1>0. \A t \in Tasks : arg[t] \in Arg /\ arg[t].cred \in Creds
  BY TypeParts, ArgTypes DEF TaskType
<1>1. CASE Restart
  <2>1. restarts' # 0
    BY <1>1, TypeParts DEF Restart, CountType
  <2>2. QED BY <1>1, <2>1 DEF Restart, ValueInv
<1>2. CASE ValuesKept /\ restarts' = restarts
  <2>1. ASSUME NEW t \in Tasks, pc'[t] = "link" PROVE Now'[Secondary(arg'[t].cred)] # Absent
    BY <1>0, <1>2, <2>1 DEF ValuesKept, ValueInv
  <2>2. ASSUME NEW t \in Tasks, pc'[t] = "erase" PROVE arg'[t].cred \notin Active'
    <3>1. CASE pc[t] = "erase" /\ arg'[t] = arg[t]
      <4>1. arg[t].cred \notin Active /\ Uses(t, arg[t].cred)
        BY <3>1 DEF ValueInv, Uses
      <4>2. \A u \in Tasks : ~(pc[u] = "insert" /\ arg[u].cred = arg[t].cred)
        BY <1>0, <3>1, <4>1 DEF FreshInv
      <4>3. QED BY <1>2, <3>1, <4>1, <4>2 DEF ValuesKept
    <3>2. QED BY <1>2, <2>2, <3>1 DEF ValuesKept
  <2>3. ASSUME dbFaults' = 0, restarts' = 0, NEW c \in Active'
        PROVE  /\ InProgress(c)' \/ Now'[Primary(c)] # Absent
               /\ rows'[c].second => Now'[Secondary(c)] # Absent
    <3>1. c \in Creds /\ dbFaults = 0 /\ restarts = 0
      BY <1>2, <2>3 DEF ValuesKept, Active
    <3>2. CASE c \notin Active
      BY <1>2, <3>2 DEF ValuesKept
    <3>3. CASE c \in Active
      <4>1. /\ InProgress(c) \/ Now[Primary(c)] # Absent
            /\ rows[c].second => Now[Secondary(c)] # Absent
            /\ \A t \in Tasks : pc[t] = "erase" => arg[t].cred # c
            /\ \A t \in Tasks : pc[t] = "link" /\ arg[t].cred = c => Now[Secondary(c)] # Absent
        BY <3>1, <3>3 DEF ValueInv
      <4>2. QED BY <1>2, <2>3, <3>1, <3>3, <4>1 DEF ValuesKept
    <3>4. QED BY <3>2, <3>3
  <2>4. QED BY <2>1, <2>2, <2>3 DEF ValueInv
<1>3. ~Restart => restarts' = restarts
  BY ZenonT(60)
     DEF Next, vars, counters, Fault, DbFault, Create, InsertRow, PutValues,
         LinkSecond, Delete, DropValue, DeleteRow, Rotate, Overwrite, Replace, SetHint,
         OverwriteValue, Revoke, RevokeIssuer, NextOfBulk, Check, SetRevoked, Erase,
         PullValue,
         RequestConfirm, Expire, Unlock, Flush, Lock
<1>4. QED BY <1>1, <1>2, <1>3, ValuesStep
\* A step of a command that erases no value, when commands run alone.
LEMMA AloneFrame ==
  ASSUME NEW t \in Tasks, AloneInv, alone, next \in Nat, next' \in {next, next + 1},
         pc[t] = "idle" => AllIdle,
         \A u \in Tasks : u # t => pc'[u] = pc[u] /\ arg'[u] = arg[u],
         pc'[t] \notin {"link", "overwrite"},
         pc'[t] \in {"insert", "put", "replace"}
           => ~arg'[t].flag /\ arg'[t].cred \notin erased,
         UNCHANGED erased, erased \subseteq Creds, \A c \in erased : c \notin Active', NothingLeft'
  PROVE  AloneInv'
<1>1. \A u, w \in Tasks : pc'[u] # "idle" /\ pc'[w] # "idle" => u = w
  BY DEF AloneInv, AllIdle
<1>2. \A c \in erased : c < next'
  BY DEF AloneInv, Creds
<1>3. QED BY <1>1, <1>2 DEF AloneInv

\* A put without a secondary value, for a credential that was not killed.
LEMMA AlonePut ==
  ASSUME TypeOK, NothingLeft, NEW a \in Arg, ~a.flag, a.cred \notin erased,
         mem' = WithValues(a), saved' \in {saved, mem'}, UNCHANGED erased
  PROVE  NothingLeft'
<1>1. mem \in Records /\ erased \subseteq Creds
  BY TypeParts DEF StoreType, KillType
<1>2. QED BY <1>1, PutSlots DEF NothingLeft

\* The primary value of one credential goes.
LEMMA AloneTake ==
  ASSUME TypeOK, NothingLeft, NEW c \in Creds, mem' = [mem EXCEPT ![Primary(c)] = Absent],
         \/ saved' = saved /\ erased' = erased
         \/ saved' = mem' /\ erased' = erased \cup {c}
  PROVE  NothingLeft'
<1>1. mem \in Records /\ erased \subseteq Creds
  BY TypeParts DEF StoreType, KillType
<1>2. \A s \in Slots : mem'[s] = IF s = Primary(c) THEN Absent ELSE mem[s]
  BY <1>1, SlotsDiffer DEF Records
<1>3. QED BY <1>1, <1>2, SlotsDiffer DEF NothingLeft

\* The status of a row, when it changes.
LEMMA StaysDead ==
  ASSUME NEW c \in Creds, rows \in [Creds -> Row \cup {NoRow}], NEW row,
         Update(c, row), Listed(c) /\ row.status = "active" => rows[c].status = "active"
  PROVE  Active' \subseteq Active
BY DEF Update, Active, Listed

LEMMA AloneStep ==
  ASSUME TypeOK, IdInv, ValueInv, AloneInv, [Next]_vars
  PROVE  AloneInv'
<1>a. SUFFICES ASSUME alone, alone' PROVE AloneInv'
  BY DEF AloneInv, Next, vars
<1>b. /\ StoreType /\ TaskType /\ KillType /\ next \in Nat /\ erased \subseteq Creds
      /\ rows \in [Creds -> Row \cup {NoRow}] /\ pc \in [Tasks -> Steps]
      /\ arg \in [Tasks -> Arg] /\ \A t \in Tasks : arg[t] \in Arg /\ arg[t].cred \in Creds
      /\ \A c \in erased : c < next /\ c \notin Active
      /\ NothingLeft
  BY <1>a, TypeParts, ArgTypes DEF StoreType, TaskType, KillType, AloneInv, Creds
<1> USE <1>a, <1>b
<1>c. UNCHANGED <<mem, saved, erased>> => NothingLeft'
  BY DEF NothingLeft
<1>d. UNCHANGED rows => Active' = Active
  BY DEF Active, Listed
<1>1. ASSUME NEW t \in Tasks, NEW v \in Values, NEW p \in BOOLEAN, NEW b \in BOOLEAN,
             Create(t, v, p, b)
      PROVE AloneInv'
  <2>1. ~p /\ ~b /\ next \notin erased
    BY <1>1 DEF Create
  <2>2. /\ pc'[t] = "insert" /\ arg'[t].cred = next /\ ~arg'[t].flag
        /\ \A u \in Tasks : u # t => pc'[u] = pc[u] /\ arg'[u] = arg[u]
        /\ AllIdle /\ next' = next + 1 /\ UNCHANGED <<rows, mem, saved, erased>>
    BY <1>1, <2>1, AimsAt DEF Create, Begin, Goto, vault, history
  <2>3. QED BY <2>1, <2>2, <1>c, <1>d, AloneFrame
<1>2. ASSUME NEW t \in Tasks, InsertRow(t) PROVE AloneInv'
  <2>1. /\ pc[t] = "insert" /\ pc'[t] \in {"put", "idle"}
        /\ \A u \in Tasks : u # t => pc'[u] = pc[u]
        /\ next' = next /\ UNCHANGED <<arg, mem, saved, erased>>
    BY <1>2 DEF InsertRow, Goto, Revoked, vault, history
  <2>2. \A c \in erased : c \notin Active'
    <3>1. arg[t].cred \notin erased
      BY <2>1 DEF AloneInv
    <3>2. \A c \in Creds : c # arg[t].cred => rows'[c] = rows[c]
      BY <1>2 DEF InsertRow
    <3>3. QED BY <3>1, <3>2 DEF Active, Listed
  <2>3. QED BY <1>2, <2>1, <2>2, <1>c, AloneFrame DEF AloneInv
<1>3. ASSUME NEW t \in Tasks, PutValues(t) PROVE AloneInv'
  <2>1. /\ pc[t] = "put" /\ ~arg[t].flag /\ arg[t].cred \notin erased
    BY <1>3 DEF PutValues, AloneInv
  <2>2. /\ pc'[t] = "idle"
        /\ \A u \in Tasks : u # t => pc'[u] = pc[u]
        /\ next' = next /\ UNCHANGED <<arg, saved, erased>>
        /\ mem' \in {mem, WithValues(arg[t])}
    BY <1>3, <2>1 DEF PutValues, Goto, vault, history
  <2>3. NothingLeft'
    BY <2>1, <2>2, <1>c, AlonePut
  <2>4. \A c \in erased : c \notin Active'
    BY <1>3 DEF PutValues, Active, Listed
  <2>5. QED BY <2>1, <2>2, <2>3, <2>4, AloneFrame
<1>4. ASSUME NEW t \in Tasks, LinkSecond(t) PROVE AloneInv'
  BY <1>4 DEF LinkSecond, AloneInv
<1>5. ASSUME NEW t \in Tasks, NEW c \in Creds, Delete(t, c) PROVE AloneInv'
  BY <1>5, <1>c, <1>d, AloneFrame DEF Delete, Begin, Goto, Revoked, vault, history
<1>6. ASSUME NEW t \in Tasks, DropValue(t) PROVE AloneInv'
  <2>1. /\ pc[t] = "drop" /\ pc'[t] \in {"unlist", "idle"}
        /\ \A u \in Tasks : u # t => pc'[u] = pc[u]
        /\ next' = next /\ UNCHANGED <<rows, arg, saved, erased>>
        /\ mem' \in {mem, [mem EXCEPT ![Primary(arg[t].cred)] = Absent]}
    BY <1>6 DEF DropValue, Goto, history
  <2>2. NothingLeft'
    BY <2>1, <1>c, AloneTake
  <2>3. QED BY <2>1, <2>2, <1>d, AloneFrame
<1>7. ASSUME NEW t \in Tasks, DeleteRow(t) PROVE AloneInv'
  <2>1. /\ pc[t] = "unlist" /\ pc'[t] \in {"idle"}
        /\ \A u \in Tasks : u # t => pc'[u] = pc[u]
        /\ next' = next /\ UNCHANGED <<arg, mem, saved, erased>>
    BY <1>7 DEF DeleteRow, Goto, Revoked, vault, history
  <2>2. \A c \in erased : c \notin Active'
    BY <1>7 DEF DeleteRow, Active, Listed
  <2>3. QED BY <1>7, <2>1, <2>2, <1>c, AloneFrame DEF AloneInv
<1>8. ASSUME NEW t \in Tasks, NEW c \in Creds, NEW v \in Values, Rotate(t, c, v)
      PROVE AloneInv'
  <2>0. c \in Active /\ c \notin erased
    BY <1>8 DEF Rotate
  <2>1. /\ pc'[t] = "replace" /\ arg'[t].cred = c /\ ~arg'[t].flag
        /\ \A u \in Tasks : u # t => pc'[u] = pc[u] /\ arg'[u] = arg[u]
        /\ AllIdle /\ next' = next /\ UNCHANGED <<rows, mem, saved, erased>>
    <3>1. Input(c, v, v, FALSE).cred = c /\ Input(c, v, v, FALSE).flag = FALSE
      BY DEF Input
    <3>2. QED BY <1>8, <3>1 DEF Rotate, Begin, Goto, vault, history
  <2>2. QED BY <2>0, <2>1, <1>c, <1>d, AloneFrame
<1>9. ASSUME NEW t \in Tasks, NEW c \in Creds, NEW v \in Values, Overwrite(t, c, v)
      PROVE AloneInv'
  BY <1>9 DEF Overwrite
<1>10. ASSUME NEW t \in Tasks, Replace(t) PROVE AloneInv'
  <2>1. /\ pc[t] = "replace" /\ ~arg[t].flag /\ arg[t].cred \notin erased
    BY <1>10 DEF Replace, AloneInv
  <2>2. /\ pc'[t] \in {"hint", "idle"}
        /\ \A u \in Tasks : u # t => pc'[u] = pc[u]
        /\ next' = next /\ UNCHANGED <<rows, arg, erased>>
        /\ \/ mem' = WithValues(arg[t]) /\ saved' \in {saved, mem'}
           \/ UNCHANGED <<mem, saved>>
    BY <1>10 DEF Replace, Goto, history
  <2>3. NothingLeft'
    BY <2>1, <2>2, <1>c, AlonePut
  <2>4. QED BY <2>1, <2>2, <2>3, <1>d, AloneFrame
<1>11. ASSUME NEW t \in Tasks, SetHint(t) PROVE AloneInv'
  <2>1. /\ pc[t] = "hint" /\ pc'[t] \in {"idle"}
        /\ \A u \in Tasks : u # t => pc'[u] = pc[u]
        /\ next' = next /\ UNCHANGED <<arg, mem, saved, erased>>
    BY <1>11 DEF SetHint, Goto, Revoked, vault, history
  <2>2. \A c \in erased : c \notin Active'
    <3>1. CASE rows' = rows
      BY <3>1, <1>d
    <3>2. CASE rows' # rows
      <4>1. Listed(arg[t].cred) /\ Update(arg[t].cred, Hinted(rows[arg[t].cred], arg[t].hint))
        BY <1>11, <3>2 DEF SetHint, Update
      <4>2. QED BY <4>1, RowFields, StaysDead, ArgTypes DEF Listed
    <3>3. QED BY <3>1, <3>2
  <2>3. QED BY <1>11, <2>1, <2>2, <1>c, AloneFrame DEF AloneInv
<1>12. ASSUME NEW t \in Tasks, OverwriteValue(t) PROVE AloneInv'
  BY <1>12 DEF OverwriteValue, AloneInv
<1>13. ASSUME NEW t \in Tasks, NEW k \in 1..MaxTokens, NEW f \in BOOLEAN, NEW c \in Creds,
              Revoke(t, c, k, f)
      PROVE AloneInv'
  BY <1>13, <1>c, <1>d, AloneFrame DEF Revoke, Begin, Goto, Revoked, vault, history
<1>14. ASSUME NEW t \in Tasks, NEW k \in 1..MaxTokens, NEW f \in BOOLEAN,
              RevokeIssuer(t, k, f)
      PROVE AloneInv'
  BY <1>14, <1>c, <1>d, AloneFrame DEF RevokeIssuer, Begin, Goto, Revoked, vault, history
<1>15. ASSUME NEW t \in Tasks, NextOfBulk(t) PROVE AloneInv'
  BY <1>15, <1>c, <1>d, AloneFrame DEF NextOfBulk, Begin, Goto, Revoked, vault, history
<1>16. ASSUME NEW t \in Tasks, Check(t) PROVE AloneInv'
  BY <1>16, <1>c, <1>d, AloneFrame DEF Check, Begin, Goto, Revoked, vault, history
<1>17. ASSUME NEW t \in Tasks, SetRevoked(t) PROVE AloneInv'
  <2>1. /\ pc[t] = "status" /\ pc'[t] \in {"erase", "next", "idle"}
        /\ \A u \in Tasks : u # t => pc'[u] = pc[u]
        /\ next' = next /\ UNCHANGED <<arg, mem, saved, erased>>
    BY <1>17 DEF SetRevoked, Goto, Revoked, vault, history
  <2>2. \A c \in erased : c \notin Active'
    <3>1. CASE rows' = rows
      BY <3>1, <1>d
    <3>2. CASE rows' # rows
      <4>1. Listed(arg[t].cred) /\ Update(arg[t].cred, Dead(rows[arg[t].cred]))
        BY <1>17, <3>2 DEF SetRevoked, Update
      <4>2. QED BY <4>1, RowFields, StaysDead DEF Listed
    <3>3. QED BY <3>1, <3>2
  <2>3. QED BY <1>17, <2>1, <2>2, <1>c, AloneFrame DEF AloneInv
<1>18. ASSUME NEW t \in Tasks, Erase(t) PROVE AloneInv'
  <2>1. /\ pc[t] = "erase" /\ pc'[t] \in {"next", "idle"}
        /\ \A u \in Tasks : u # t => pc'[u] = pc[u]
        /\ UNCHANGED <<rows, next, arg>>
    BY <1>18 DEF Erase, Goto, Revoked
  <2>2. CASE UNCHANGED <<mem, saved, erased>>
    BY <2>1, <2>2, <1>c, <1>d, AloneFrame
  <2>3. CASE mem' = [mem EXCEPT ![Primary(arg[t].cred)] = Absent]
    <3>1. \/ saved' = saved /\ erased' = erased
          \/ saved' = mem' /\ erased' = erased \cup {arg[t].cred}
      BY <1>18, <2>3 DEF Erase
    <3>2. NothingLeft'
      BY <2>3, <3>1, AloneTake
    <3>3. arg[t].cred < next /\ arg[t].cred \notin Active
      BY <2>1 DEF IdInv, Uses, ValueInv
    <3>4. \A u \in Tasks : pc'[u] \notin {"link", "overwrite", "insert", "put", "replace"}
      BY <2>1 DEF AloneInv
    <3>5. \A u, w \in Tasks : pc'[u] # "idle" /\ pc'[w] # "idle" => u = w
      BY <2>1 DEF AloneInv
    <3>6. QED BY <2>1, <3>1, <3>2, <3>3, <3>4, <3>5, <1>d DEF AloneInv
  <2>4. QED BY <1>18, <2>2, <2>3 DEF Erase
<1>19. ASSUME NEW c \in Creds, NEW v \in Values, PullValue(c, v) PROVE AloneInv'
  BY <1>19 DEF PullValue
<1>20. ASSUME NEW s \in Subjects, RequestConfirm(s) PROVE AloneInv'
  BY <1>20, <1>c, <1>d DEF RequestConfirm, AloneInv, vault, history
<1>21. ASSUME NEW k \in 1..MaxTokens, Expire(k) PROVE AloneInv'
  BY <1>21, <1>c, <1>d DEF Expire, AloneInv, vault, history
<1>22. CASE Unlock
  <2>1. NothingLeft'
    BY <1>22, SlotsDiffer DEF Unlock, NothingLeft, Empty, history
  <2>2. QED BY <1>22, <2>1, <1>d DEF Unlock, AloneInv, history
<1>23. CASE Flush
  <2>1. NothingLeft'
    BY <1>23, SlotsDiffer DEF Flush, NothingLeft, Empty, history
  <2>2. QED BY <1>23, <2>1, <1>d DEF Flush, AloneInv, history
<1>24. CASE Lock
  <2>1. NothingLeft'
    BY <1>24, SlotsDiffer DEF Lock, NothingLeft, Empty, history
  <2>2. QED BY <1>24, <2>1, <1>d DEF Lock, AloneInv, history
<1>25. CASE Restart
  <2>1. NothingLeft'
    BY <1>25, SlotsDiffer DEF Restart, NothingLeft, Empty, history
  <2>2. QED BY <1>25, <2>1, <1>d DEF Restart, AloneInv, history
<1>26. CASE UNCHANGED vars
  BY <1>26, <1>c, <1>d DEF vars, AloneInv
<1>27. QED
  BY <1>1, <1>2, <1>3, <1>4, <1>5, <1>6, <1>7, <1>8, <1>9, <1>10, <1>11, <1>12,
     <1>13, <1>14, <1>15, <1>16, <1>17, <1>18, <1>19, <1>20, <1>21, <1>22, <1>23,
     <1>24, <1>25, <1>26 DEF Next

LEMMA InitValues == Init => IdInv /\ FreshInv /\ ValueInv /\ AloneInv
<1> SUFFICES ASSUME Init PROVE IdInv /\ FreshInv /\ ValueInv /\ AloneInv
  OBVIOUS
<1>1. /\ Active = {} /\ \A c \in Creds : ~Listed(c)
      /\ \A t \in Tasks : pc[t] = "idle" /\ todo[t] = {}
      /\ \A k \in 1..MaxTokens : tokens[k] \notin Creds
  BY StoreAssumption DEF Init, Active, Listed, Subjects
<1>2. NothingLeft
  BY SlotsDiffer DEF Init, Empty, NothingLeft
<1>3. IdInv /\ FreshInv
  BY <1>1 DEF IdInv, FreshInv, Uses
<1>4. ValueInv /\ AloneInv
  BY <1>1, <1>2 DEF Init, ValueInv, AloneInv
<1>5. QED BY <1>3, <1>4

LEMMA ValuesAlways == Spec => [](TypeOK /\ IdInv /\ FreshInv /\ ValueInv /\ AloneInv)
BY TypeCorrect, InitValues, IdStep, FreshStep, ValueStep, AloneStep, PTL DEF Spec

\* commands/credentials.rs, kill_switch.rs: whatever commands, values from the
\* extension and values from the relay overlap, an active credential that is
\* not in the middle of its create or delete has its values in an open vault.
THEOREM ActiveAlwaysHasValue == Spec => []ActiveHasValue
<1>1. ValueInv => ActiveHasValue
  BY DEF ValueInv, ActiveHasValue, RowsHaveValues, Now
<1>2. QED BY <1>1, ValuesAlways, PTL

\* kill_switch.rs, when commands run one at a time: what a kill erased with its
\* value is in neither the open vault nor its file, after a crash either.
THEOREM KilledAlwaysErased == Spec => []AloneKilledIsErased
<1>1. TypeOK /\ AloneInv => AloneKilledIsErased
  <2> SUFFICES ASSUME TypeOK, AloneInv, alone, NEW s \in Slots, s[1] \in erased
               PROVE  mem[s] = Absent /\ saved[s] = Absent
    BY DEF AloneKilledIsErased, KilledIsErased
  <2>1. s[1] \in Creds /\ (s = Primary(s[1]) \/ s = Secondary(s[1]))
    BY DEF Slots, Primary, Secondary
  <2>2. QED BY <2>1 DEF AloneInv, NothingLeft
<1>2. QED BY <1>1, ValuesAlways, PTL

-----------------------------------------------------------------------------
(***************************************************************************)
(* ImportSessions, for any tasks, sessions, entries and bounds: taking a   *)
(* session once is enough to import its entries once, and what a commit    *)
(* reports is in the file (ReportedInv, DoneInv).                          *)
(***************************************************************************)

Busy(t) == job[t].step # "idle"

\* The shape of what the proofs use.
Shape ==
  /\ held \subseteq drawn /\ drawn \subseteq Sessions
  /\ imported \subseteq Ids /\ vaultMem \subseteq Ids /\ vaultFile \subseteq Ids
  /\ reported \subseteq Ids /\ deleted \subseteq Ids
  /\ vaultOpen \in BOOLEAN /\ lock \in Commits \cup {Nobody} /\ blamed \in BOOLEAN
  /\ job \in [Commits -> Job]
  /\ \A t \in Commits : lock = t <=> job[t].step \in {"row", "put", "usage", "flush"}

\* A session that is committed, or has been, is taken, and by one task.
OneCommit ==
  /\ \A t \in Commits : Busy(t) => job[t].session \in drawn \ held
  /\ \A t, u \in Commits : Busy(t) /\ Busy(u) /\ job[t].session = job[u].session => t = u
  /\ \A c \in imported : c.session \in drawn \ held

\* The commit has no row yet of what it has to do, but for the entry at hand.
RowsAreDone ==
  \A t \in Commits, c \in imported :
    Busy(t) /\ c.session = job[t].session /\ c.entry \in job[t].todo
      => job[t].step \in {"put", "usage"} /\ c.entry = job[t].entry

OnceInv == Shape /\ OneCommit /\ RowsAreDone /\ ImportedOnce

-----------------------------------------------------------------------------
(* Jobs.                                                                   *)

LEMMA IdleJob == Idle \in Job /\ Idle.step = "idle" /\ Idle.todo = {} /\ Idle.done = {}
<1>1. PICK s \in Sessions, e \in Entries : TRUE
  BY ImportAssumption
<1>2. DEFINE j == [step |-> "idle", session |-> s, todo |-> {}, done |-> {}, entry |-> e]
<1>3. j \in Job /\ j.step = "idle" /\ j.todo = {} /\ j.done = {}
  BY DEF Job, JobSteps
<1>4. QED BY <1>3 DEF Idle

\* What an update of a job leaves.
LEMMA Moved ==
  ASSUME NEW j \in Job, NEW st \in JobSteps
  PROVE  LET k == [j EXCEPT !.step = st]
         IN  /\ k \in Job /\ k.step = st /\ k.session = j.session /\ k.todo = j.todo
             /\ k.done = j.done /\ k.entry = j.entry
BY DEF Job

Passed(j, td, dn, st) == [j EXCEPT !.todo = td, !.done = dn, !.step = st]

LEMMA PassedOn ==
  ASSUME NEW j \in Job, NEW st \in JobSteps, NEW td \in SUBSET Entries, NEW dn \in SUBSET Entries
  PROVE  /\ Passed(j, td, dn, st) \in Job /\ Passed(j, td, dn, st).step = st
         /\ Passed(j, td, dn, st).session = j.session /\ Passed(j, td, dn, st).todo = td
         /\ Passed(j, td, dn, st).done = dn /\ Passed(j, td, dn, st).entry = j.entry
BY DEF Job, Passed

LEMMA JobFields ==
  ASSUME NEW j \in Job
  PROVE  /\ j.step \in JobSteps /\ j.session \in Sessions /\ j.entry \in Entries
         /\ j.todo \subseteq Entries /\ j.done \subseteq Entries
BY DEF Job

\* The job of t is now at step st, with td to do and dn done; others are as they were.
Changes(t, st, td, dn) ==
  /\ job' \in [Commits -> Job] /\ \A u \in Commits : u # t => job'[u] = job[u]
  /\ job'[t].step = st /\ job'[t].session = job[t].session
  /\ job'[t].todo = td /\ job'[t].done = dn

LEMMA GotoChanges ==
  ASSUME job \in [Commits -> Job], NEW t \in Commits, NEW st \in JobSteps, JobGoto(t, st)
  PROVE  Changes(t, st, job[t].todo, job[t].done) /\ job'[t].entry = job[t].entry
<1> DEFINE k == [job[t] EXCEPT !.step = st]
<1>1. /\ k \in Job /\ k.step = st /\ k.session = job[t].session /\ k.todo = job[t].todo
      /\ k.done = job[t].done /\ k.entry = job[t].entry
  BY Moved
<1>2. job' = [job EXCEPT ![t] = k]
  BY DEF JobGoto, Set
<1> HIDE DEF k
<1> QED BY <1>1, <1>2 DEF Changes

LEMMA ThroughChanges ==
  ASSUME job \in [Commits -> Job], NEW t \in Commits, NEW done \in SUBSET Entries, Through(t, done)
  PROVE  \E st \in {"flush", "row"} : Changes(t, st, Rest(t), done)
<1> DEFINE st == IF Rest(t) = {} THEN "flush" ELSE "row"
           k == Passed(job[t], Rest(t), done, st)
<1>1. st \in JobSteps /\ st \in {"flush", "row"} /\ Rest(t) \in SUBSET Entries
  BY JobFields DEF Rest, JobSteps
<1>2. job' = [job EXCEPT ![t] = k]
  BY DEF Through, Set, Passed
<1> HIDE DEF st
<1>3. /\ k \in Job /\ k.step = st /\ k.session = job[t].session /\ k.todo = Rest(t)
      /\ k.done = done
  BY <1>1, PassedOn
<1> HIDE DEF k
<1>4. Changes(t, st, Rest(t), done)
  BY <1>2, <1>3 DEF Changes
<1> QED BY <1>1, <1>4

LEMMA IdleEnds ==
  ASSUME job \in [Commits -> Job], NEW t \in Commits, Set(t, Idle)
  PROVE  /\ job' \in [Commits -> Job] /\ \A u \in Commits : u # t => job'[u] = job[u]
         /\ job'[t].step = "idle"
BY IdleJob DEF Set

-----------------------------------------------------------------------------
(* A session is taken once.                                                *)

\* Every step of a commit but the first leaves sessions and rows to OnceInv.
LEMMA StepKeepsOnce ==
  ASSUME OnceInv, UNCHANGED <<held, drawn>>, Shape', NEW t \in Commits,
         \A u \in Commits : u # t => job'[u] = job[u],
         Busy(t), Busy(t)' => job'[t].session = job[t].session /\ job'[t].todo \subseteq job[t].todo,
         imported' \subseteq imported,
         Busy(t)' => \A e \in job'[t].todo : \A c \in imported' :
           c.session = job[t].session /\ c.entry = e
             => job'[t].step \in {"put", "usage"} /\ e = job'[t].entry
  PROVE  OnceInv'
<1>1. OneCommit'
  BY DEF OnceInv, OneCommit, Busy
<1>2. RowsAreDone'
  <2> SUFFICES ASSUME NEW u \in Commits, NEW c \in imported', Busy(u)',
                      c.session = job'[u].session, c.entry \in job'[u].todo
               PROVE  job'[u].step \in {"put", "usage"} /\ c.entry = job'[u].entry
    BY DEF RowsAreDone
  <2>1. CASE u = t
    BY <2>1
  <2>2. CASE u # t
    BY <2>2 DEF OnceInv, RowsAreDone, Busy
  <2> QED BY <2>1, <2>2
<1>3. ImportedOnce'
  BY DEF OnceInv, ImportedOnce
<1> QED BY <1>1, <1>2, <1>3 DEF OnceInv

LEMMA InitOnceInv == ImportInit => OnceInv
<1> SUFFICES ASSUME ImportInit PROVE OnceInv
  OBVIOUS
<1>1. \A t \in Commits : job[t] = Idle /\ ~Busy(t)
  BY IdleJob DEF ImportInit, Busy
<1>2. Shape
  BY <1>1, IdleJob, ImportAssumption DEF ImportInit, Shape
<1>3. OneCommit /\ RowsAreDone /\ ImportedOnce
  BY <1>1 DEF ImportInit, OneCommit, RowsAreDone, ImportedOnce
<1> QED BY <1>2, <1>3 DEF OnceInv

LEMMA NextOnceInv == OnceInv /\ [ImportNext]_importVars => OnceInv'
<1> SUFFICES ASSUME OnceInv, [ImportNext]_importVars PROVE OnceInv'
  OBVIOUS
<1> USE DEF store, tables, vaultState, importHistory, importCounters, At, Set, JobGoto
<1>0. Shape /\ job \in [Commits -> Job]
  BY DEF OnceInv, Shape
<1>1. ASSUME NEW s \in Sessions, Prepare(s) PROVE OnceInv'
  BY <1>1 DEF Prepare, Swept, OnceInv, Shape, OneCommit, RowsAreDone, ImportedOnce, Busy
<1>2. CASE Tick
  BY <1>2 DEF Tick, OnceInv, Shape, OneCommit, RowsAreDone, ImportedOnce, Busy
<1>3. ASSUME NEW t \in Commits, NEW s \in Sessions, NEW sel \in SUBSET Entries,
             NEW outside \in BOOLEAN, Commit(t, s, sel, outside)
      PROVE  OnceInv'
  <2>1. /\ held' \subseteq held /\ s \notin held' /\ s \in drawn
        /\ UNCHANGED <<drawn, imported, vaultMem, vaultFile, reported, deleted, vaultOpen, lock, blamed>>
    BY <1>3 DEF Commit, Take, Swept
  <2>2. CASE UNCHANGED job
    BY <2>1, <2>2 DEF OnceInv, Shape, OneCommit, RowsAreDone, ImportedOnce, Busy
  <2>3. CASE job' # job
    <3> DEFINE k == [Idle EXCEPT !.step = "issuers", !.session = s, !.todo = sel]
    <3>1. s \in held /\ job' = [job EXCEPT ![t] = k] /\ ~Busy(t)
      BY <1>3, <2>3 DEF Commit, Swept, Busy
    <3>2. k \in Job /\ k.step = "issuers" /\ k.session = s /\ k.todo = sel
      BY IdleJob DEF Job, JobSteps
    <3> HIDE DEF k
    <3>3. job' \in [Commits -> Job] /\ job'[t] = k /\ \A u \in Commits : u # t => job'[u] = job[u]
      BY <1>0, <3>1, <3>2
    <3>4. Shape'
      BY <2>1, <3>1, <3>2, <3>3, <1>0 DEF Shape, Busy
    <3>5. OneCommit'
      BY <2>1, <3>1, <3>2, <3>3 DEF OnceInv, OneCommit, Shape, Busy
    <3>6. RowsAreDone'
      BY <2>1, <3>1, <3>2, <3>3 DEF OnceInv, OneCommit, RowsAreDone, Busy
    <3>7. ImportedOnce'
      BY <2>1 DEF OnceInv, ImportedOnce
    <3> QED BY <3>4, <3>5, <3>6, <3>7 DEF OnceInv
  <2> QED BY <2>2, <2>3
<1>4. ASSUME NEW t \in Commits, Issuers(t) PROVE OnceInv'
  <2>1. /\ UNCHANGED <<held, drawn, imported, vaultMem, vaultFile, reported, deleted, vaultOpen, lock, blamed>>
        /\ job[t].step = "issuers"
    BY <1>4 DEF Issuers
  <2>2. /\ job' \in [Commits -> Job] /\ \A u \in Commits : u # t => job'[u] = job[u]
        /\ \/ job'[t].step = "idle"
           \/ /\ job'[t].step \in {"project", "lock"}
              /\ job'[t].session = job[t].session /\ job'[t].todo = job[t].todo
    <3>1. CASE Set(t, Idle)
      BY <1>0, <3>1, IdleEnds
    <3>2. CASE JobGoto(t, "project")
      BY <1>0, <3>2, GotoChanges DEF Changes, JobSteps
    <3>3. CASE JobGoto(t, "lock")
      BY <1>0, <3>3, GotoChanges DEF Changes, JobSteps
    <3> QED BY <1>4, <3>1, <3>2, <3>3 DEF Issuers
  <2>3. Shape'
    BY <1>0, <2>1, <2>2 DEF Shape
  <2> QED BY <2>1, <2>2, <2>3, StepKeepsOnce DEF OnceInv, RowsAreDone, Busy
<1>5. ASSUME NEW t \in Commits, InsertProject(t) PROVE OnceInv'
  <2>1. /\ UNCHANGED <<held, drawn, imported, vaultMem, vaultFile, reported, deleted, vaultOpen, lock, blamed>>
        /\ job[t].step = "project"
    BY <1>5 DEF InsertProject
  <2>2. /\ job' \in [Commits -> Job] /\ \A u \in Commits : u # t => job'[u] = job[u]
        /\ \/ job'[t].step = "idle"
           \/ /\ job'[t].step = "lock"
              /\ job'[t].session = job[t].session /\ job'[t].todo = job[t].todo
    <3>1. CASE Set(t, Idle)
      BY <1>0, <3>1, IdleEnds
    <3>2. CASE JobGoto(t, "lock")
      BY <1>0, <3>2, GotoChanges DEF Changes, JobSteps
    <3> QED BY <1>5, <3>1, <3>2 DEF InsertProject
  <2>3. Shape'
    BY <1>0, <2>1, <2>2 DEF Shape
  <2> QED BY <2>1, <2>2, <2>3, StepKeepsOnce DEF OnceInv, RowsAreDone, Busy
<1>6. ASSUME NEW t \in Commits, Acquire(t) PROVE OnceInv'
  <2>1. /\ UNCHANGED <<held, drawn, imported, vaultMem, vaultFile, reported, deleted, vaultOpen, blamed>>
        /\ job[t].step = "lock" /\ lock = Nobody /\ lock' = t
    BY <1>6 DEF Acquire
  <2>2. \E st \in {"flush", "row"} : Changes(t, st, job[t].todo, job[t].done)
    <3>1. CASE JobGoto(t, "flush")
      BY <1>0, <3>1, GotoChanges DEF JobSteps
    <3>2. CASE JobGoto(t, "row")
      BY <1>0, <3>2, GotoChanges DEF JobSteps
    <3> QED BY <1>6, <3>1, <3>2 DEF Acquire
  <2>3. Shape'
    BY <1>0, <2>1, <2>2, ImportAssumption DEF Shape, Changes
  <2> QED BY <2>1, <2>2, <2>3, StepKeepsOnce DEF OnceInv, RowsAreDone, Busy, Changes
<1>7. ASSUME NEW t \in Commits, InsertImport(t) PROVE OnceInv'
  <2>1. /\ UNCHANGED <<held, drawn, vaultMem, vaultFile, reported, deleted, vaultOpen, lock, blamed>>
        /\ job[t].step = "row"
    BY <1>7 DEF InsertImport
  <2>2. PICK e \in job[t].todo :
          \/ /\ imported' = imported \cup {[session |-> job[t].session, entry |-> e, by |-> t]}
             /\ job' = [job EXCEPT ![t] = [job[t] EXCEPT !.entry = e, !.step = "put"]]
          \/ /\ imported' = imported
             /\ job' = [job EXCEPT ![t] = [job[t] EXCEPT !.todo = job[t].todo \ {e},
                          !.step = IF job[t].todo = {e} THEN "flush" ELSE "row"]]
    BY <1>7 DEF InsertImport
  <2>3. e \in Entries /\ job[t] \in Job /\ job[t].session \in Sessions
    BY <1>0, JobFields
  <2>4. CASE job' = [job EXCEPT ![t] = [job[t] EXCEPT !.entry = e, !.step = "put"]]
             /\ imported' = imported \cup {[session |-> job[t].session, entry |-> e, by |-> t]}
    <3> DEFINE k == [job[t] EXCEPT !.entry = e, !.step = "put"]
               c == [session |-> job[t].session, entry |-> e, by |-> t]
    <3>1. /\ k \in Job /\ k.step = "put" /\ k.session = job[t].session /\ k.todo = job[t].todo
          /\ k.entry = e
      BY <2>3 DEF Job, JobSteps
    <3>2. c \in Ids /\ c.session = job[t].session /\ c.entry = e
      BY <2>3 DEF Ids
    <3>3. job' = [job EXCEPT ![t] = k] /\ imported' = imported \cup {c}
      BY <2>4
    <3> HIDE DEF k, c
    <3>4. /\ job' \in [Commits -> Job] /\ job'[t] = k
          /\ \A u \in Commits : u # t => job'[u] = job[u]
      BY <1>0, <3>1, <3>3
    <3>5. Shape'
      BY <1>0, <2>1, <3>1, <3>2, <3>3, <3>4 DEF Shape
    <3>6. OneCommit'
      BY <2>1, <3>1, <3>2, <3>3, <3>4 DEF OnceInv, OneCommit, Busy
    <3>7. RowsAreDone'
      <4> SUFFICES ASSUME NEW u \in Commits, NEW d \in imported', Busy(u)',
                          d.session = job'[u].session, d.entry \in job'[u].todo
                   PROVE  job'[u].step \in {"put", "usage"} /\ d.entry = job'[u].entry
        BY DEF RowsAreDone
      <4>1. CASE u = t
        BY <2>1, <3>1, <3>2, <3>3, <3>4, <4>1 DEF OnceInv, RowsAreDone, Busy
      <4>2. CASE u # t /\ d = c
        BY <2>1, <3>1, <3>2, <3>4, <4>2 DEF OnceInv, OneCommit, Busy
      <4>3. CASE u # t /\ d \in imported
        BY <3>4, <4>3 DEF OnceInv, RowsAreDone, Busy
      <4> QED BY <3>3, <4>1, <4>2, <4>3
    <3>8. ImportedOnce'
      <4>1. \A d \in imported : ~(d.session = c.session /\ d.entry = c.entry)
        BY <2>1, <2>2, <3>2 DEF OnceInv, RowsAreDone, Busy
      <4> QED BY <3>3, <4>1 DEF OnceInv, ImportedOnce
    <3> QED BY <3>5, <3>6, <3>7, <3>8 DEF OnceInv
  <2>5. CASE /\ imported' = imported
             /\ job' = [job EXCEPT ![t] = [job[t] EXCEPT !.todo = job[t].todo \ {e},
                          !.step = IF job[t].todo = {e} THEN "flush" ELSE "row"]]
    <3> DEFINE st == IF job[t].todo = {e} THEN "flush" ELSE "row"
               td == job[t].todo \ {e}
               k  == [job[t] EXCEPT !.todo = td, !.step = st]
    <3>1. st \in {"flush", "row"} /\ td \in SUBSET Entries /\ td \subseteq job[t].todo
      BY <2>3, JobFields
    <3>2. job' = [job EXCEPT ![t] = k]
      BY <2>5
    <3> HIDE DEF td, st
    <3>3. /\ k \in Job /\ k.step = st /\ k.session = job[t].session /\ k.todo = td
      BY <2>3, <3>1 DEF Job, JobSteps
    <3> HIDE DEF k
    <3>4. /\ job' \in [Commits -> Job] /\ job'[t] = k
          /\ \A u \in Commits : u # t => job'[u] = job[u]
      BY <1>0, <3>2, <3>3
    <3>5. Shape'
      BY <1>0, <2>1, <2>5, <3>1, <3>3, <3>4 DEF Shape
    <3>6. \A i \in job[t].todo : \A c \in imported : ~(c.session = job[t].session /\ c.entry = i)
      BY <2>1 DEF OnceInv, RowsAreDone, Busy
    <3>7. /\ Busy(t) /\ job'[t].session = job[t].session /\ job'[t].todo \subseteq job[t].todo
          /\ \A i \in job'[t].todo : \A c \in imported' :
               ~(c.session = job[t].session /\ c.entry = i)
      <4>1. job'[t].session = job[t].session /\ job'[t].todo \subseteq job[t].todo
        BY <3>1, <3>3, <3>4
      <4>2. imported' = imported
        BY <2>5
      <4> QED BY <2>1, <3>6, <4>1, <4>2 DEF Busy
    <3>8. UNCHANGED <<held, drawn>> /\ imported' \subseteq imported
      BY <2>1, <2>5
    <3> QED BY <3>4, <3>5, <3>7, <3>8, StepKeepsOnce
  <2> QED BY <2>2, <2>4, <2>5
<1>8. ASSUME NEW t \in Commits, Put(t) PROVE OnceInv'
  <2>1. /\ UNCHANGED <<held, drawn, vaultFile, reported, deleted, vaultOpen, lock>>
        /\ job[t].step = "put" /\ imported' \subseteq imported /\ blamed' \in BOOLEAN
        /\ vaultMem' \in {vaultMem, vaultMem \cup {IdOf(t)}}
    BY <1>0, <1>8 DEF Put, Shape
  <2>2. IdOf(t) \in Ids /\ job[t].done \cup {job[t].entry} \in SUBSET Entries
        /\ job[t].done \in SUBSET Entries
    BY <1>0, JobFields DEF IdOf, Ids
  <2>3. \/ Changes(t, "usage", job[t].todo, job[t].done) /\ job'[t].entry = job[t].entry
        \/ \E st \in {"flush", "row"}, done \in SUBSET Entries : Changes(t, st, Rest(t), done)
    <3>1. CASE JobGoto(t, "usage")
      BY <1>0, <3>1, GotoChanges DEF JobSteps
    <3>2. CASE \E done \in {job[t].done, job[t].done \cup {job[t].entry}} : Through(t, done)
      BY <1>0, <2>2, <3>2, ThroughChanges
    <3>3. \/ JobGoto(t, "usage") \/ Through(t, job[t].done)
          \/ Through(t, job[t].done \cup {job[t].entry})
      BY <1>8 DEF Put
    <3> QED BY <3>1, <3>2, <3>3
  <2>4. Shape'
    BY <1>0, <2>1, <2>2, <2>3 DEF Shape, Changes
  <2>5. CASE Changes(t, "usage", job[t].todo, job[t].done) /\ job'[t].entry = job[t].entry
    BY <2>1, <2>4, <2>5, StepKeepsOnce DEF OnceInv, RowsAreDone, Busy, Changes
  <2>6. CASE \E st \in {"flush", "row"}, done \in SUBSET Entries : Changes(t, st, Rest(t), done)
    BY <2>1, <2>4, <2>6, StepKeepsOnce DEF OnceInv, RowsAreDone, Busy, Changes, Rest
  <2> QED BY <2>3, <2>5, <2>6
<1>9. ASSUME NEW t \in Commits, InsertUsage(t) PROVE OnceInv'
  <2>1. /\ UNCHANGED <<held, drawn, imported, vaultMem, vaultFile, reported, deleted, vaultOpen, lock, blamed>>
        /\ job[t].step = "usage"
    BY <1>9 DEF InsertUsage
  <2>2. \E st \in {"flush", "row"}, done \in SUBSET Entries : Changes(t, st, Rest(t), done)
    BY <1>0, <1>9, JobFields, ThroughChanges DEF InsertUsage
  <2>3. Shape'
    BY <1>0, <2>1, <2>2 DEF Shape, Changes
  <2> QED BY <2>1, <2>2, <2>3, StepKeepsOnce DEF OnceInv, RowsAreDone, Busy, Changes, Rest
<1>10. ASSUME NEW t \in Commits, FlushImports(t) PROVE OnceInv'
  <2>0. job[t].done \subseteq Entries /\ job[t].session \in Sessions
    BY <1>0, JobFields
  <2>a. {[session |-> job[t].session, entry |-> e, by |-> t] : e \in job[t].done} \subseteq Ids
    BY <2>0 DEF Ids
  <2>1. /\ UNCHANGED <<held, drawn, imported, vaultMem, deleted, vaultOpen>>
        /\ job[t].step = "flush" /\ lock' = Nobody /\ vaultFile' \in {vaultFile, vaultMem}
        /\ blamed' \in BOOLEAN
        /\ reported' \subseteq reported \cup Ids
    <3>1. blamed' \in BOOLEAN /\ vaultFile' \in {vaultFile, vaultMem}
      BY <1>0, <1>10 DEF FlushImports, Shape
    <3> QED BY <1>10, <2>a, <3>1 DEF FlushImports
  <2>2. /\ job' \in [Commits -> Job] /\ \A u \in Commits : u # t => job'[u] = job[u]
        /\ job'[t].step = "idle"
    BY <1>0, <1>10, IdleEnds DEF FlushImports
  <2>3. Shape'
    BY <1>0, <2>1, <2>2, ImportAssumption DEF Shape
  <2> QED BY <2>1, <2>2, <2>3, StepKeepsOnce DEF OnceInv, RowsAreDone, Busy
<1>11. CASE LockVault \/ UnlockVault
  <2>1. /\ UNCHANGED <<held, drawn, imported, lock, job, reported, deleted, blamed>>
        /\ vaultOpen' \in BOOLEAN /\ vaultFile' \in {vaultFile, vaultMem} /\ vaultMem' \in {{}, vaultFile}
    BY <1>11 DEF LockVault, UnlockVault, store, tables, importHistory
  <2>2. Shape'
    BY <1>0, <2>1 DEF Shape
  <2> QED BY <2>1, <2>2 DEF OnceInv, OneCommit, RowsAreDone, ImportedOnce, Busy
<1>12. ASSUME NEW c \in Ids, DeleteCredential(c) PROVE OnceInv'
  BY <1>12 DEF DeleteCredential, OnceInv, Shape, OneCommit, RowsAreDone, ImportedOnce, Busy
<1>13. ASSUME NEW s \in Scans, DeleteProject(s) PROVE OnceInv'
  BY <1>13 DEF DeleteProject, OnceInv, Shape, OneCommit, RowsAreDone, ImportedOnce, Busy
<1>14. CASE ImportRestart
  <2>1. \A t \in Commits : job'[t] = Idle /\ ~Busy(t)'
    BY <1>14, IdleJob DEF ImportRestart, Busy
  <2>2. Shape'
    BY <1>0, <1>14, <2>1, IdleJob, ImportAssumption DEF ImportRestart, Shape
  <2> QED BY <1>14, <2>1, <2>2 DEF ImportRestart, OnceInv, Shape, OneCommit, RowsAreDone,
     ImportedOnce
<1>15. CASE UNCHANGED importVars
  BY <1>15 DEF importVars, OnceInv, Shape, OneCommit, RowsAreDone, ImportedOnce, Busy
<1> QED BY <1>1, <1>2, <1>3, <1>4, <1>5, <1>6, <1>7, <1>8, <1>9, <1>10, <1>11, <1>12, <1>13,
           <1>14, <1>15 DEF ImportNext

LEMMA OnceInvariant == ImportSpec => []OnceInv
BY InitOnceInv, NextOnceInv, PTL DEF ImportSpec

\* ImportSessionStore::take, and the commits of both kinds: an entry of a
\* session becomes one credential at most, however many commits race for it.
THEOREM ImportsOnce == ImportSpec => []ImportedOnce
<1>1. OnceInv => ImportedOnce
  BY DEF OnceInv
<1> QED BY <1>1, OnceInvariant, PTL
-----------------------------------------------------------------------------
(* What is reported is saved.                                              *)

\* The id of the row for entry e of the session that t commits.
Made(t, e) == [session |-> job[t].session, entry |-> e, by |-> t]

\* Reported credentials belong to commits that are over, and are saved: the
\* flush of each was of an open vault that held all of them.
ReportedInv ==
  /\ ~blamed => /\ reported \ deleted \subseteq imported \cap vaultFile
                /\ vaultOpen => reported \ deleted \subseteq vaultMem
  /\ \A c \in reported : /\ c.session \in drawn \ held
                         /\ \A t \in Commits : Busy(t) => job[t].session # c.session

\* What a commit has put so far is there while it holds the vault lock.
DoneOf(t) ==
  /\ job[t].done # {} => vaultOpen /\ job[t].step \in {"row", "put", "usage", "flush"}
  /\ \A e \in job[t].done : Made(t, e) \in imported \cap vaultMem
  /\ job[t].step \in {"put", "usage"} => IdOf(t) \in imported
  /\ job[t].step = "usage" => vaultOpen /\ IdOf(t) \in vaultMem
DoneInv == \A t \in Commits : DoneOf(t)

\* A step of t leaves what the other commits have put: they are not at their
\* rows, or t is not and touches neither rows nor vault.
LEMMA OthersDone ==
  ASSUME OnceInv, DoneInv, NEW t \in Commits, \A u \in Commits : u # t => job'[u] = job[u],
         UNCHANGED <<imported, vaultMem, vaultOpen>> \/ lock \in {t, Nobody}
  PROVE  \A u \in Commits : u # t => DoneOf(u)'
<1> SUFFICES ASSUME NEW u \in Commits, u # t PROVE DoneOf(u)'
  OBVIOUS
<1>1. DoneOf(u)
  BY DEF DoneInv
<1>2. CASE UNCHANGED <<imported, vaultMem, vaultOpen>>
  BY <1>1, <1>2 DEF DoneOf, Made, IdOf
<1>3. CASE lock \in {t, Nobody}
  <2>1. job[u].step \notin {"row", "put", "usage", "flush"}
    BY <1>3, ImportAssumption DEF OnceInv, Shape
  <2>2. job[u].done = {}
    BY <1>1, <2>1 DEF DoneOf
  <2>3. QED BY <2>1, <2>2 DEF DoneOf
<1>4. QED BY <1>2, <1>3

\* A step that reports nothing, and starts at most one commit, of a session that
\* was held.
LEMMA ReportedFrame ==
  ASSUME ReportedInv, Shape, UNCHANGED <<reported, deleted, vaultFile, vaultOpen>>, vaultMem \subseteq vaultMem',
         ~blamed' => ~blamed, reported \cap imported \subseteq imported',
         drawn \subseteq drawn', held' \cap drawn \subseteq held,
         \A t \in Commits : Busy(t)' => \/ Busy(t) /\ job'[t].session = job[t].session
                                        \/ job'[t].session \in held
  PROVE  ReportedInv'
<1>1. ~blamed' => /\ reported \ deleted \subseteq imported' \cap vaultFile
                  /\ vaultOpen => reported \ deleted \subseteq vaultMem'
  BY DEF ReportedInv
<1>2. \A c \in reported : /\ c.session \in drawn' \ held'
                          /\ \A t \in Commits : Busy(t)' => job'[t].session # c.session
  BY DEF ReportedInv
<1>3. QED BY <1>1, <1>2 DEF ReportedInv

\* A step of a commit before it has the lock.
LEMMA EarlyStep ==
  ASSUME OnceInv, ReportedInv, DoneInv, UNCHANGED <<imported, vaultMem, vaultFile, vaultOpen, reported, deleted, blamed>>,
         UNCHANGED <<held, drawn>>, NEW t \in Commits, \A u \in Commits : u # t => job'[u] = job[u],
         Busy(t), Busy(t)' => job'[t].session = job[t].session,
         job'[t].step \notin {"put", "usage"}, job'[t].done = {}
  PROVE  ReportedInv' /\ DoneInv'
<1>1. DoneOf(t)'
  BY DEF DoneOf
<1>2. \A u \in Commits : u # t => DoneOf(u)'
  BY OthersDone
<1>3. ReportedInv'
  BY ReportedFrame DEF OnceInv, Busy
<1>4. QED BY <1>1, <1>2, <1>3 DEF DoneInv

LEMMA NextReported ==
  ASSUME OnceInv, ReportedInv, DoneInv, [ImportNext]_importVars
  PROVE  ReportedInv' /\ DoneInv'
<1> USE DEF store, tables, vaultState, importHistory, importCounters
<1>0. /\ Shape /\ job \in [Commits -> Job] /\ \A t \in Commits : DoneOf(t)
      /\ \A t \in Commits : job[t] \in Job /\ job[t].done \subseteq Entries /\ job[t].entry \in Entries
      /\ \A t \in Commits : job[t].step \in {"row", "put", "usage", "flush"} => lock = t
  BY JobFields DEF OnceInv, Shape, DoneInv
<1>a. \A t \in Commits : job[t].step \in {"idle", "issuers", "project", "lock"} => job[t].done = {}
  BY <1>0 DEF DoneOf
<1>b. UNCHANGED <<job, imported, vaultMem, vaultOpen>> => DoneInv'
  BY DEF DoneInv, DoneOf, Made, IdOf
<1>1. ASSUME NEW s \in Sessions, Prepare(s) PROVE ReportedInv' /\ DoneInv'
  <2>1. /\ UNCHANGED <<job, imported, vaultMem, vaultOpen, vaultFile, reported, deleted, blamed>>
        /\ drawn \subseteq drawn' /\ held' \cap drawn \subseteq held
    BY <1>1 DEF Prepare, Swept
  <2>2. QED BY <1>0, <1>b, <2>1, ReportedFrame DEF Busy
<1>2. CASE Tick
  BY <1>0, <1>2, <1>b, ReportedFrame DEF Tick, Busy
<1>3. ASSUME NEW t \in Commits, NEW s \in Sessions, NEW sel \in SUBSET Entries,
             NEW outside \in BOOLEAN, Commit(t, s, sel, outside)
      PROVE  ReportedInv' /\ DoneInv'
  <2>1. /\ UNCHANGED <<drawn, imported, vaultMem, vaultOpen, vaultFile, reported, deleted, blamed>>
        /\ held' \subseteq held /\ ~Busy(t)
    BY <1>3 DEF Commit, Take, Swept, At, Busy
  <2>2. CASE UNCHANGED job
    BY <1>0, <1>b, <2>1, <2>2, ReportedFrame DEF Busy
  <2>3. CASE job' # job
    <3> DEFINE k == [Idle EXCEPT !.step = "issuers", !.session = s, !.todo = sel]
    <3>1. s \in held /\ job' = [job EXCEPT ![t] = k]
      BY <1>3, <2>3 DEF Commit, Swept, Set
    <3>2. k.step = "issuers" /\ k.session = s /\ k.done = {}
      BY IdleJob DEF Job
    <3> HIDE DEF k
    <3>3. /\ job'[t].step = "issuers" /\ job'[t].session = s /\ job'[t].done = {}
          /\ \A u \in Commits : u # t => job'[u] = job[u]
      BY <1>0, <3>1, <3>2
    <3>4. DoneOf(t)'
      BY <3>3 DEF DoneOf
    <3>5. \A u \in Commits : u # t => DoneOf(u)'
      BY <2>1, <3>3, OthersDone
    <3>6. ReportedInv'
      BY <1>0, <2>1, <3>1, <3>3, ReportedFrame DEF Busy
    <3>7. QED BY <3>4, <3>5, <3>6 DEF DoneInv
  <2>4. QED BY <2>2, <2>3
<1>4. ASSUME NEW t \in Commits, Issuers(t) PROVE ReportedInv' /\ DoneInv'
  <2>1. /\ UNCHANGED <<held, drawn, imported, vaultMem, vaultFile, reported, deleted, vaultOpen, blamed>>
        /\ job[t].step = "issuers"
    BY <1>4 DEF Issuers, At
  <2>2. /\ \A u \in Commits : u # t => job'[u] = job[u]
        /\ job'[t].done = {} /\ job'[t].step \in {"idle", "project", "lock"}
        /\ job'[t].step # "idle" => job'[t].session = job[t].session
    <3>1. CASE Set(t, Idle)
      BY <1>0, <3>1, IdleJob DEF Set
    <3>2. CASE JobGoto(t, "project") \/ JobGoto(t, "lock")
      BY <1>0, <1>a, <2>1, <3>2, GotoChanges DEF Changes, JobSteps
    <3>3. QED BY <1>4, <3>1, <3>2 DEF Issuers
  <2>3. QED BY <2>1, <2>2, EarlyStep DEF Busy
<1>5. ASSUME NEW t \in Commits, InsertProject(t) PROVE ReportedInv' /\ DoneInv'
  <2>1. /\ UNCHANGED <<held, drawn, imported, vaultMem, vaultFile, reported, deleted, vaultOpen, blamed>>
        /\ job[t].step = "project"
    BY <1>5 DEF InsertProject, At
  <2>2. /\ \A u \in Commits : u # t => job'[u] = job[u]
        /\ job'[t].done = {} /\ job'[t].step \in {"idle", "lock"}
        /\ job'[t].step # "idle" => job'[t].session = job[t].session
    <3>1. CASE Set(t, Idle)
      BY <1>0, <3>1, IdleJob DEF Set
    <3>2. CASE JobGoto(t, "lock")
      BY <1>0, <1>a, <2>1, <3>2, GotoChanges DEF Changes, JobSteps
    <3>3. QED BY <1>5, <3>1, <3>2 DEF InsertProject
  <2>3. QED BY <2>1, <2>2, EarlyStep DEF Busy
<1>6. ASSUME NEW t \in Commits, Acquire(t) PROVE ReportedInv' /\ DoneInv'
  <2>1. /\ UNCHANGED <<held, drawn, imported, vaultMem, vaultFile, reported, deleted, vaultOpen, blamed>>
        /\ job[t].step = "lock"
    BY <1>6 DEF Acquire, At
  <2>2. /\ \A u \in Commits : u # t => job'[u] = job[u]
        /\ job'[t].done = {} /\ job'[t].step \in {"flush", "row"}
        /\ job'[t].session = job[t].session
    <3>1. JobGoto(t, "flush") \/ JobGoto(t, "row")
      BY <1>6 DEF Acquire
    <3>2. QED BY <1>0, <1>a, <2>1, <3>1, GotoChanges DEF Changes, JobSteps
  <2>3. QED BY <2>1, <2>2, EarlyStep DEF Busy
<1>7. ASSUME NEW t \in Commits, InsertImport(t) PROVE ReportedInv' /\ DoneInv'
  <2>1. /\ UNCHANGED <<held, drawn, vaultMem, vaultFile, reported, deleted, vaultOpen, blamed>>
        /\ job[t].step = "row" /\ lock = t /\ imported \subseteq imported'
    BY <1>0, <1>7 DEF InsertImport, At
  <2>2. /\ \A u \in Commits : u # t => job'[u] = job[u]
        /\ job'[t].session = job[t].session /\ job'[t].done = job[t].done
        /\ \/ job'[t].step = "put" /\ Made(t, job'[t].entry) \in imported'
           \/ job'[t].step \in {"row", "flush"}
    <3>1. PICK e \in job[t].todo :
            \/ /\ imported' = imported \cup {[session |-> job[t].session, entry |-> e, by |-> t]}
               /\ job' = [job EXCEPT ![t] = [job[t] EXCEPT !.entry = e, !.step = "put"]]
            \/ job' = [job EXCEPT ![t] = [job[t] EXCEPT !.todo = job[t].todo \ {e},
                            !.step = IF job[t].todo = {e} THEN "flush" ELSE "row"]]
      BY <1>7 DEF InsertImport, Set
    <3> DEFINE k == [job[t] EXCEPT !.entry = e, !.step = "put"]
               m == [job[t] EXCEPT !.todo = job[t].todo \ {e},
                            !.step = IF job[t].todo = {e} THEN "flush" ELSE "row"]
    <3>2. /\ k.session = job[t].session /\ k.done = job[t].done /\ k.step = "put" /\ k.entry = e
          /\ m.session = job[t].session /\ m.done = job[t].done /\ m.step \in {"row", "flush"}
      BY <1>0 DEF Job
    <3>3. \/ job' = [job EXCEPT ![t] = k] /\ Made(t, e) \in imported'
          \/ job' = [job EXCEPT ![t] = m]
      BY <3>1 DEF Made
    <3> HIDE DEF k, m
    <3>4. QED BY <1>0, <3>2, <3>3
  <2>3. DoneOf(t)'
    BY <1>0, <2>1, <2>2 DEF DoneOf, Made, IdOf
  <2>4. \A u \in Commits : u # t => DoneOf(u)'
    BY <2>1, <2>2, OthersDone
  <2>5. ReportedInv'
    BY <1>0, <2>1, <2>2, ReportedFrame DEF Busy
  <2>6. QED BY <2>3, <2>4, <2>5 DEF DoneInv
<1>8. ASSUME NEW t \in Commits, Put(t) PROVE ReportedInv' /\ DoneInv'
  <2>1. /\ UNCHANGED <<held, drawn, vaultFile, reported, deleted, vaultOpen>>
        /\ job[t].step = "put" /\ lock = t /\ (~blamed' => ~blamed)
    BY <1>0, <1>8 DEF Put, At
  <2>2. /\ IdOf(t) = Made(t, job[t].entry) /\ IdOf(t) \in imported /\ IdOf(t) \notin reported
        /\ IdOf(t).session = job[t].session
    <3>1. \A c \in reported : c.session # job[t].session
      BY <2>1 DEF ReportedInv, Busy
    <3>2. QED BY <1>0, <2>1, <3>1 DEF IdOf, Made, DoneOf
  <2>3. CASE vaultOpen
    <3>1. vaultMem' = vaultMem \cup {IdOf(t)} /\ UNCHANGED <<imported, blamed>>
      BY <1>8, <2>3 DEF Put
    <3>2. \/ JobGoto(t, "usage")
          \/ Through(t, job[t].done \cup {job[t].entry})
      BY <1>8, <2>3 DEF Put
    <3>3. job[t].done \cup {job[t].entry} \in SUBSET Entries
      BY <1>0
    <3>4. /\ \A u \in Commits : u # t => job'[u] = job[u]
          /\ job'[t].session = job[t].session
          /\ \/ /\ job'[t].step = "usage" /\ job'[t].done = job[t].done
                /\ job'[t].entry = job[t].entry
             \/ /\ job'[t].step \in {"row", "flush"}
                /\ job'[t].done = job[t].done \cup {job[t].entry}
      <4>1. CASE JobGoto(t, "usage")
        BY <1>0, <4>1, GotoChanges DEF Changes, JobSteps
      <4>2. CASE Through(t, job[t].done \cup {job[t].entry})
        BY <1>0, <3>3, <4>2, ThroughChanges DEF Changes
      <4>3. QED BY <3>2, <4>1, <4>2
    <3>5. Made(t, job[t].entry) \in imported' \cap vaultMem' /\ \A e \in job[t].done : Made(t, e) \in imported' \cap vaultMem'
      BY <1>0, <2>2, <3>1 DEF DoneOf
    <3>6. \A e : Made(t, e)' = Made(t, e)
      BY <3>4 DEF Made
    <3>7. DoneOf(t)'
      BY <2>1, <2>3, <3>4, <3>5, <3>6 DEF DoneOf, Made, IdOf
    <3>8. \A u \in Commits : u # t => DoneOf(u)'
      BY <2>1, <3>4, OthersDone
    <3>9. ReportedInv'
      BY <1>0, <2>1, <3>1, <3>4, ReportedFrame DEF Busy
    <3>10. QED BY <3>7, <3>8, <3>9 DEF DoneInv
  <2>4. CASE ~vaultOpen
    <3>1. vaultMem' = vaultMem /\ imported' \in {imported, imported \ {IdOf(t)}} /\ Through(t, job[t].done)
      BY <1>8, <2>4 DEF Put
    <3>2. job[t].done = {}
      BY <1>0, <2>4 DEF DoneOf
    <3>3. /\ \A u \in Commits : u # t => job'[u] = job[u]
          /\ job'[t].session = job[t].session /\ job'[t].done = {}
          /\ job'[t].step \in {"row", "flush"}
      BY <1>0, <3>1, <3>2, ThroughChanges DEF Changes
    <3>4. DoneOf(t)'
      BY <3>3 DEF DoneOf
    <3>5. \A u \in Commits : u # t => DoneOf(u)'
      BY <2>1, <3>3, OthersDone
    <3>6. ReportedInv'
      BY <1>0, <2>1, <2>2, <3>1, <3>3, ReportedFrame DEF Busy
    <3>7. QED BY <3>4, <3>5, <3>6 DEF DoneInv
  <2>5. QED BY <2>3, <2>4
<1>9. ASSUME NEW t \in Commits, InsertUsage(t) PROVE ReportedInv' /\ DoneInv'
  <2>1. /\ UNCHANGED <<held, drawn, imported, vaultMem, vaultFile, reported, deleted, vaultOpen, blamed>>
        /\ job[t].step = "usage" /\ vaultOpen /\ IdOf(t) \in imported \cap vaultMem
    BY <1>0, <1>9 DEF InsertUsage, At, DoneOf
  <2>2. /\ \A u \in Commits : u # t => job'[u] = job[u]
        /\ job'[t].session = job[t].session /\ job'[t].step \in {"row", "flush"}
        /\ job'[t].done = job[t].done \cup {job[t].entry}
    BY <1>0, <1>9, ThroughChanges DEF InsertUsage, Changes
  <2>3. DoneOf(t)'
    <3>1. \A e : Made(t, e)' = Made(t, e)
      BY <2>2 DEF Made
    <3>2. \A e \in job'[t].done : Made(t, e) \in imported \cap vaultMem
      BY <1>0, <2>1, <2>2 DEF DoneOf, Made, IdOf
    <3>3. QED BY <2>1, <2>2, <3>1, <3>2 DEF DoneOf
  <2>4. \A u \in Commits : u # t => DoneOf(u)'
    BY <2>1, <2>2, OthersDone
  <2>5. ReportedInv'
    BY <1>0, <2>1, <2>2, ReportedFrame DEF Busy
  <2>6. QED BY <2>3, <2>4, <2>5 DEF DoneInv
<1>10. ASSUME NEW t \in Commits, FlushImports(t) PROVE ReportedInv' /\ DoneInv'
  <2>1. /\ UNCHANGED <<held, drawn, imported, vaultMem, deleted, vaultOpen>>
        /\ job[t].step = "flush" /\ lock = t
        /\ reported' = reported \cup {Made(t, e) : e \in job[t].done}
        /\ blamed' \/ (blamed' = blamed /\ vaultFile' = IF vaultOpen THEN vaultMem ELSE vaultFile)
    BY <1>0, <1>10 DEF FlushImports, At, Made
  <2>2. /\ \A u \in Commits : u # t => job'[u] = job[u]
        /\ job'[t].done = {} /\ job'[t].step = "idle"
    BY <1>0, <1>10, IdleJob DEF FlushImports, Set
  <2>3. DoneInv'
    <3>1. DoneOf(t)'
      BY <2>2 DEF DoneOf
    <3>2. \A u \in Commits : u # t => DoneOf(u)'
      BY <2>1, <2>2, OthersDone
    <3>3. QED BY <3>1, <3>2 DEF DoneInv
  <2>4. /\ \A e \in job[t].done : Made(t, e) \in imported \cap vaultMem
        /\ job[t].done # {} => vaultOpen
    BY <1>0 DEF DoneOf
  <2>5. ~blamed' => /\ reported' \ deleted \subseteq imported \cap vaultFile'
                    /\ vaultOpen => reported' \ deleted \subseteq vaultMem
    BY <2>1, <2>4 DEF ReportedInv
  <2>6. ASSUME NEW c \in reported'
        PROVE  /\ c.session \in drawn \ held
               /\ \A u \in Commits : Busy(u)' => job'[u].session # c.session
    <3>1. CASE c \in reported
      BY <2>2, <3>1 DEF ReportedInv, Busy
    <3>2. CASE c \notin reported
      <4>1. c.session = job[t].session
        BY <2>1, <3>2 DEF Made
      <4>2. QED BY <2>1, <2>2, <4>1 DEF OnceInv, OneCommit, Busy
    <3>3. QED BY <3>1, <3>2
  <2>7. QED BY <2>1, <2>3, <2>5, <2>6 DEF ReportedInv
<1>11. CASE LockVault \/ UnlockVault
  <2>1. /\ UNCHANGED <<held, drawn, imported, lock, job, reported, deleted, blamed>> /\ lock = Nobody
        /\ \/ vaultOpen /\ ~vaultOpen' /\ vaultFile' = vaultMem
           \/ vaultOpen' /\ vaultFile' = vaultFile /\ vaultMem' = vaultFile
    BY <1>11 DEF LockVault, UnlockVault
  <2>2. \A t \in Commits : job[t].done = {} /\ job[t].step \notin {"put", "usage"}
    BY <1>0, <2>1, ImportAssumption DEF DoneOf
  <2>3. DoneInv'
    BY <2>1, <2>2 DEF DoneInv, DoneOf
  <2>4. ReportedInv'
    BY <2>1 DEF ReportedInv, Busy
  <2>5. QED BY <2>3, <2>4
<1>12. ASSUME NEW c \in Ids, DeleteCredential(c) PROVE ReportedInv' /\ DoneInv'
  <2>1. \A t \in Commits : job[t].done = {} /\ job[t].step \notin {"put", "usage"}
    BY <1>0, <1>12, ImportAssumption DEF DoneOf, DeleteCredential
  <2>2. DoneInv'
    BY <1>12, <2>1 DEF DoneInv, DoneOf, DeleteCredential
  <2>3. ReportedInv'
    BY <1>12 DEF ReportedInv, Busy, DeleteCredential
  <2>4. QED BY <2>2, <2>3
<1>13. ASSUME NEW s \in Scans, DeleteProject(s) PROVE ReportedInv' /\ DoneInv'
  BY <1>0, <1>13, <1>b, ReportedFrame DEF DeleteProject, Busy
<1>14. CASE ImportRestart
  <2>1. \A t \in Commits : job'[t] = Idle
    BY <1>14 DEF ImportRestart
  <2>2. DoneInv'
    BY <2>1, IdleJob DEF DoneInv, DoneOf
  <2>3. \A t \in Commits : ~Busy(t)'
    BY <2>1, IdleJob DEF Busy
  <2>4. UNCHANGED <<drawn, imported, vaultFile, reported, deleted>> /\ held' = {} /\ ~vaultOpen'
        /\ (~blamed' => ~blamed)
    BY <1>14 DEF ImportRestart
  <2>5. QED BY <2>2, <2>3, <2>4 DEF ReportedInv
<1>15. CASE UNCHANGED importVars
  BY <1>0, <1>15, <1>b, ReportedFrame DEF importVars, Busy
<1>16. QED
  BY <1>1, <1>2, <1>3, <1>4, <1>5, <1>6, <1>7, <1>8, <1>9, <1>10, <1>11, <1>12, <1>13,
     <1>14, <1>15 DEF ImportNext

LEMMA InitReported == ImportInit => ReportedInv /\ DoneInv
BY IdleJob DEF ImportInit, ReportedInv, DoneInv, DoneOf

\* do_import_csv_commit, do_env_scan_commit: one vault lock over all rows and
\* one flush at its end are enough; what is reported as imported is in the file
\* and stays there until it is deleted, whatever locks, deletions, other commits
\* and process ends come between (unless a flush or a rollback failed).
THEOREM ReportedAlwaysSaved == ImportSpec => []ReportedIsSaved
<1>1. ReportedInv => ReportedIsSaved
  BY DEF ReportedInv, ReportedIsSaved
<1> QED
  BY <1>1, OnceInvariant, InitReported, NextReported, PTL DEF ImportSpec
=============================================================================
