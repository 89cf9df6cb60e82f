----------------------------- MODULE SignInProofs -----------------------------
(***************************************************************************)
(* Proofs about VaultSession and RelaySignIn: the session on the desktop,  *)
(* and how the relay gives one.                                            *)
(*                                                                         *)
(* For any set of tasks and any bounds: what vault_unlock hands out,       *)
(* vault_lock takes back, whatever overlaps; and, serial, a session that   *)
(* was dropped or signed out is gone (SerialInv).                          *)
(*                                                                         *)
(* For any desktops, addresses, accounts and bounds, whatever overlaps, is *)
(* cut off or expires: one user each; and a sign-in that nothing disturbs  *)
(* succeeds (LoneInv, CrossedInv).                                         *)
(***************************************************************************)
EXTENDS VaultSession, RelaySignIn, TLAPS

-----------------------------------------------------------------------------
(* VaultSession.                                                           *)

UnlockSteps == {"passphrase", "identity", "load", "bridge"}
LockSteps   == {"dropIdentity", "dropPassphrase", "dropBridge", "close"}
SessionSteps == {"post", "inherit", "save", "clear"}

\* Which commands take which steps.
OwnSteps ==
  \A t \in Tasks : /\ pc[t] \in UnlockSteps => op[t] = "unlock"
                   /\ pc[t] \in LockSteps => op[t] = "lock"
                   /\ pc[t] \in SessionSteps => op[t] \in SessionOps
                   /\ pc[t] \in {"derive", "set"} => op[t] # "lock"
                   /\ pc[t] = "dropSession" => op[t] # "unlock"

\* An unlock runs alone among unlocks and locks, so the vault stays open.
UnlockAlone ==
  \A t, u \in Tasks :
    /\ pc[t] # "idle" /\ op[t] = "unlock" => open
    /\ pc[t] # "idle" /\ op[t] = "unlock" /\ pc[u] # "idle" /\ op[u] \in {"unlock", "lock"}
         => t = u

\* What a lock has dropped is not held again before it ends.
StayDropped ==
  \A t \in Tasks :
    pc[t] # "idle" /\ op[t] = "lock"
      => /\ pc[t] \in {"dropSession", "dropPassphrase", "dropBridge", "close"}
              => "identity" \notin held
         /\ pc[t] \in {"dropBridge", "close"} => "passphrase" \notin held
         /\ pc[t] = "close" => "bridge" \notin held

Shape == held \subseteq Secrets /\ pc \in [Tasks -> Steps] /\ op \in [Tasks -> Ops]
LockInv == Shape /\ OwnSteps /\ UnlockAlone /\ StayDropped /\ SecretsDropped

LEMMA InitLockInv == Init => LockInv
BY DEF Init, LockInv, Shape, OwnSteps, UnlockAlone, StayDropped, SecretsDropped, Steps, Ops,
       SessionOps, UnlockSteps, LockSteps, SessionSteps

LEMMA NextLockInv == LockInv /\ [Next]_vars => LockInv'
<1> SUFFICES ASSUME LockInv, [Next]_vars PROVE LockInv'
  OBVIOUS
<1> USE DEF Goto, Begin, Drop, stored, Running, LockInv, Shape, OwnSteps, UnlockAlone,
            StayDropped, SecretsDropped, Steps, Ops, SessionOps, UnlockSteps, LockSteps,
            SessionSteps, Secrets
<1>1. ASSUME NEW t \in Tasks, OpenVault(t) PROVE LockInv'
  BY <1>1 DEF OpenVault
<1>2. ASSUME NEW t \in Tasks, SetPassphrase(t) PROVE LockInv'
  BY <1>2 DEF SetPassphrase
<1>3. ASSUME NEW t \in Tasks, SetIdentity(t) PROVE LockInv'
  BY ZenonT(60), <1>3 DEF SetIdentity
<1>4. ASSUME NEW t \in Tasks, Load(t) PROVE LockInv'
  BY <1>4 DEF Load
<1>5. ASSUME NEW t \in Tasks, SetBridge(t) PROVE LockInv'
  BY <1>5 DEF SetBridge
<1>6. ASSUME NEW t \in Tasks, SignIn(t) PROVE LockInv'
  BY <1>6 DEF SignIn, InMainView
<1>7. ASSUME NEW t \in Tasks, Refresh(t) PROVE LockInv'
  BY <1>7 DEF Refresh, InMainView
<1>8. ASSUME NEW t \in Tasks, SignOut(t) PROVE LockInv'
  BY <1>8 DEF SignOut, InMainView
<1>9. ASSUME NEW t \in Tasks, Post(t) PROVE LockInv'
  BY <1>9 DEF Post
<1>10. ASSUME NEW t \in Tasks, PostFails(t) PROVE LockInv'
  BY <1>10 DEF PostFails
<1>11. ASSUME NEW t \in Tasks, Inherit(t) PROVE LockInv'
  BY <1>11 DEF Inherit
<1>12. ASSUME NEW t \in Tasks, Derive(t) PROVE LockInv'
  BY <1>12 DEF Derive
<1>13. ASSUME NEW t \in Tasks, Save(t) PROVE LockInv'
  BY <1>13 DEF Save
<1>14. ASSUME NEW t \in Tasks, SetSession(t) PROVE LockInv'
  BY <1>14 DEF SetSession
<1>15. ASSUME NEW t \in Tasks, ClearStored(t) PROVE LockInv'
  BY <1>15 DEF ClearStored
<1>16. ASSUME NEW t \in Tasks, Lock(t) PROVE LockInv'
  BY <1>16 DEF Lock, InMainView
<1>17. ASSUME NEW t \in Tasks, DropIdentity(t) PROVE LockInv'
  BY <1>17 DEF DropIdentity
<1>18. ASSUME NEW t \in Tasks, DropSession(t) PROVE LockInv'
  BY <1>18 DEF DropSession
<1>19. ASSUME NEW t \in Tasks, DropPassphrase(t) PROVE LockInv'
  BY <1>19 DEF DropPassphrase
<1>20. ASSUME NEW t \in Tasks, DropBridge(t) PROVE LockInv'
  BY <1>20 DEF DropBridge
<1>21. ASSUME NEW t \in Tasks, Close(t) PROVE LockInv'
  BY <1>21 DEF Close
<1>22. CASE Restart
  BY <1>22 DEF Restart
<1>23. CASE UNCHANGED vars
  BY <1>23 DEF vars
<1>24. QED
  BY <1>1, <1>2, <1>3, <1>4, <1>5, <1>6, <1>7, <1>8, <1>9, <1>10, <1>11, <1>12, <1>13, <1>14,
     <1>15, <1>16, <1>17, <1>18, <1>19, <1>20, <1>21, <1>22, <1>23 DEF Next

LEMMA LockInvariant == Spec => []LockInv
BY InitLockInv, NextLockInv, PTL DEF Spec

\* vault_lock: a locked vault with no unlock or lock under way leaves neither
\* passphrase nor signing key nor bridge behind, whatever session commands
\* overlap it.
THEOREM LockDropsSecrets == Spec => []SecretsDropped
<1>1. LockInv => SecretsDropped
  BY DEF LockInv
<1>2. QED BY <1>1, LockInvariant, PTL
-----------------------------------------------------------------------------
(* Types: among them that enc_key never reaches the vault.                 *)

Maybe == Session \cup {NoSession}

\* The steps that fill in a session have one.
HasNew ==
  \A t \in Tasks :
    /\ pc[t] \in {"inherit", "save"} => new[t] \in Session
    /\ pc[t] = "derive" /\ op[t] # "unlock" => new[t] \in Session

SessionType ==
  /\ mem \in Maybe /\ saved \in Maybe /\ auth \in Maybe /\ new \in [Tasks -> Maybe]
  /\ (mem # NoSession => ~mem.enc) /\ (saved # NoSession => ~saved.enc)
  /\ tokens \in 0..MaxTokens /\ HasNew

LEMMA SessionFields ==
  ASSUME NEW s \in Session, NEW b \in BOOLEAN
  PROVE  /\ [s EXCEPT !.enc = b] \in Session /\ [s EXCEPT !.enc = b].enc = b
         /\ [s EXCEPT !.salts = b] \in Session /\ s.salts \in BOOLEAN
BY DEF Session

LEMMA NextSessionType ==
  ASSUME LockInv, SessionType, [Next]_vars
  PROVE  SessionType'
<1> USE NoSessionAssumption
    DEF Goto, Begin, Drop, stored, LockInv, Shape, OwnSteps, SessionType, HasNew, Maybe,
        Steps, Ops, SessionOps, UnlockSteps, LockSteps, SessionSteps
<1>1. ASSUME NEW t \in Tasks, OpenVault(t) PROVE SessionType'
  BY <1>1 DEF OpenVault
<1>2. ASSUME NEW t \in Tasks, SetPassphrase(t) PROVE SessionType'
  BY <1>2 DEF SetPassphrase
<1>3. ASSUME NEW t \in Tasks, SetIdentity(t) PROVE SessionType'
  BY <1>3 DEF SetIdentity
<1>4. ASSUME NEW t \in Tasks, Load(t) PROVE SessionType'
  BY <1>4 DEF Load
<1>5. ASSUME NEW t \in Tasks, SetBridge(t) PROVE SessionType'
  BY <1>5 DEF SetBridge
<1>6. ASSUME NEW t \in Tasks, SignIn(t) PROVE SessionType'
  BY <1>6 DEF SignIn
<1>7. ASSUME NEW t \in Tasks, Refresh(t) PROVE SessionType'
  BY <1>7 DEF Refresh
<1>8. ASSUME NEW t \in Tasks, SignOut(t) PROVE SessionType'
  BY <1>8 DEF SignOut
<1>9. ASSUME NEW t \in Tasks, Post(t) PROVE SessionType'
  <2> DEFINE s == [token |-> tokens + 1, salts |-> op[t] = "signin", enc |-> FALSE]
  <2>1. tokens + 1 \in 1..MaxTokens
    BY <1>9, SessionAssumption DEF Post
  <2>2. s \in Session
    BY <2>1 DEF Session
  <2>3. new' = [new EXCEPT ![t] = s] /\ tokens' \in 0..MaxTokens
    BY <1>9, <2>1 DEF Post
  <2> HIDE DEF s
  <2>4. HasNew'
    BY <1>9, <2>2, <2>3 DEF Post
  <2>5. QED BY <1>9, <2>2, <2>3, <2>4 DEF Post
<1>10. ASSUME NEW t \in Tasks, PostFails(t) PROVE SessionType'
  BY <1>10 DEF PostFails
<1>11. ASSUME NEW t \in Tasks, Inherit(t) PROVE SessionType'
  <2> DEFINE b == new[t].salts \/ (auth # NoSession /\ auth.salts)
             s == [new[t] EXCEPT !.salts = b]
  <2>1. new[t] \in Session
    BY <1>11 DEF Inherit
  <2>2. b \in BOOLEAN
    OBVIOUS
  <2> HIDE DEF b
  <2>3. s \in Session
    BY <2>1, <2>2, SessionFields
  <2>4. new' = [new EXCEPT ![t] = s]
    BY <1>11, <2>1 DEF Inherit, b
  <2> HIDE DEF s
  <2>5. QED BY <1>11, <2>3, <2>4 DEF Inherit
<1>12. ASSUME NEW t \in Tasks, Derive(t) PROVE SessionType'
  <2>1. CASE new[t] = NoSession
    BY <1>12, <2>1 DEF Derive
  <2>2. CASE new[t] # NoSession
    <3> DEFINE b == new[t].salts /\ "passphrase" \in held
               s == [new[t] EXCEPT !.enc = b]
    <3>1. new[t] \in Session /\ b \in BOOLEAN
      BY <2>2
    <3> HIDE DEF b
    <3>2. s \in Session
      BY <3>1, SessionFields
    <3>3. new' = [new EXCEPT ![t] = s]
      BY <1>12, <2>2, <3>1 DEF Derive, b
    <3> HIDE DEF s
    <3>4. QED BY <1>12, <3>2, <3>3 DEF Derive
  <2>3. QED BY <2>1, <2>2
<1>13. ASSUME NEW t \in Tasks, Save(t) PROVE SessionType'
  <2>1. CASE ~open
    BY <1>13, <2>1 DEF Save
  <2>2. CASE open
    <3> DEFINE s == [new[t] EXCEPT !.enc = FALSE]
    <3>1. s \in Session /\ ~s.enc
      BY <1>13, SessionFields DEF Save
    <3>2. mem' = s /\ (saved' = s \/ saved' = saved) /\ UNCHANGED <<auth, new, tokens, op>>
      BY <1>13, <2>2 DEF Save
    <3>3. \A u \in Tasks : pc'[u] = pc[u] \/ pc'[u] \in {"set", "idle"}
      BY <1>13 DEF Save
    <3> HIDE DEF s
    <3>4. QED BY <3>1, <3>2, <3>3
  <2>3. QED BY <2>1, <2>2
<1>14. ASSUME NEW t \in Tasks, SetSession(t) PROVE SessionType'
  BY <1>14 DEF SetSession
<1>15. ASSUME NEW t \in Tasks, ClearStored(t) PROVE SessionType'
  BY <1>15 DEF ClearStored
<1>16. ASSUME NEW t \in Tasks, Lock(t) PROVE SessionType'
  BY <1>16 DEF Lock
<1>17. ASSUME NEW t \in Tasks, DropIdentity(t) PROVE SessionType'
  BY <1>17 DEF DropIdentity
<1>18. ASSUME NEW t \in Tasks, DropSession(t) PROVE SessionType'
  BY <1>18 DEF DropSession
<1>19. ASSUME NEW t \in Tasks, DropPassphrase(t) PROVE SessionType'
  BY <1>19 DEF DropPassphrase
<1>20. ASSUME NEW t \in Tasks, DropBridge(t) PROVE SessionType'
  BY <1>20 DEF DropBridge
<1>21. ASSUME NEW t \in Tasks, Close(t) PROVE SessionType'
  BY <1>21 DEF Close
<1>22. CASE Restart
  BY <1>22 DEF Restart
<1>23. CASE UNCHANGED vars
  BY <1>23 DEF vars
<1>24. QED
  BY <1>1, <1>2, <1>3, <1>4, <1>5, <1>6, <1>7, <1>8, <1>9, <1>10, <1>11, <1>12, <1>13,
     <1>14, <1>15, <1>16, <1>17, <1>18, <1>19, <1>20, <1>21, <1>22, <1>23 DEF Next

LEMMA TypeAlways == Spec => [](LockInv /\ SessionType)
<1>1. Init => SessionType
  BY SessionAssumption DEF Init, SessionType, HasNew, Maybe
<1>2. QED BY <1>1, InitLockInv, NextLockInv, NextSessionType, PTL DEF Spec

-----------------------------------------------------------------------------
(* The session, when session commands overlap neither each other nor a     *)
(* lock.                                                                   *)

Serves(t, ops) == pc[t] # "idle" /\ op[t] \in ops

\* In serial mode a session command runs alone, on an open vault.
SessionAlone ==
  \A t, u \in Tasks : Serves(t, SessionOps) => open /\ (pc[u] # "idle" => t = u)

\* vault_lock has dropped the session, and nothing sets one before it is done.
SessionDropped ==
  /\ \A t \in Tasks : Serves(t, {"lock"}) /\ pc[t] \in {"dropPassphrase", "dropBridge", "close"}
                        => auth = NoSession
  /\ ~open /\ ~Running({"unlock", "lock"}) => auth = NoSession

\* auth_signout has cleared records and file before it drops the session; from
\* then on no command has one to set.
SignedOut ==
  /\ \A t \in Tasks : Serves(t, {"signout"}) =>
       \/ pc[t] = "clear"
       \/ pc[t] = "dropSession" /\ mem = NoSession /\ saved = NoSession
  /\ signedOut =>
       /\ auth = NoSession /\ mem = NoSession /\ saved = NoSession
       /\ \A t \in Tasks : ~Serves(t, {"signin", "refresh"})
       /\ \A t \in Tasks : pc[t] \in {"derive", "set"} => new[t] = NoSession

SerialInv == serial => SessionAlone /\ SessionDropped /\ SignedOut

LEMMA NextSerialInv ==
  ASSUME LockInv, SessionType, SerialInv, [Next]_vars
  PROVE  SerialInv'
<1>b. serial' = serial
  BY DEF Next, vars, Begin, Drop, OpenVault, SetPassphrase, SetIdentity, Load, SetBridge,
         SignIn, Refresh, SignOut, Post, PostFails, Inherit, Derive, Save, SetSession,
         ClearStored, Lock, DropIdentity, DropSession, DropPassphrase, DropBridge, Close,
         Restart
<1>a. SUFFICES ASSUME serial, serial' PROVE SerialInv'
  BY <1>b DEF SerialInv
<1>0. SessionAlone /\ SessionDropped /\ SignedOut
  BY <1>a DEF SerialInv
<1> USE <1>0, <1>a
    DEF Goto, Begin, Drop, stored, Running, InMainView, LockInv, Shape, OwnSteps, UnlockAlone,
        SessionType, SessionAlone, SessionDropped, SignedOut, Serves, SerialInv,
        Steps, Ops, SessionOps, UnlockSteps, LockSteps, SessionSteps
<1>1. ASSUME NEW t \in Tasks, OpenVault(t) PROVE SerialInv'
  BY <1>1 DEF OpenVault
<1>2. ASSUME NEW t \in Tasks, SetPassphrase(t) PROVE SerialInv'
  BY <1>2 DEF SetPassphrase
<1>3. ASSUME NEW t \in Tasks, SetIdentity(t) PROVE SerialInv'
  BY <1>3 DEF SetIdentity
<1>4. ASSUME NEW t \in Tasks, Load(t) PROVE SerialInv'
  BY <1>4 DEF Load
<1>5. ASSUME NEW t \in Tasks, SetBridge(t) PROVE SerialInv'
  BY <1>5 DEF SetBridge
<1>6. ASSUME NEW t \in Tasks, SignIn(t) PROVE SerialInv'
  BY <1>6 DEF SignIn
<1>7. ASSUME NEW t \in Tasks, Refresh(t) PROVE SerialInv'
  BY <1>7 DEF Refresh
<1>8. ASSUME NEW t \in Tasks, SignOut(t) PROVE SerialInv'
  BY <1>8 DEF SignOut
<1>9. ASSUME NEW t \in Tasks, Post(t) PROVE SerialInv'
  BY <1>9 DEF Post
<1>10. ASSUME NEW t \in Tasks, PostFails(t) PROVE SerialInv'
  BY <1>10 DEF PostFails
<1>11. ASSUME NEW t \in Tasks, Inherit(t) PROVE SerialInv'
  BY <1>11 DEF Inherit
<1>12. ASSUME NEW t \in Tasks, Derive(t) PROVE SerialInv'
  BY <1>12 DEF Derive
<1>13. ASSUME NEW t \in Tasks, Save(t) PROVE SerialInv'
  BY <1>13 DEF Save
<1>14. ASSUME NEW t \in Tasks, SetSession(t) PROVE SerialInv'
  BY <1>14 DEF SetSession
<1>15. ASSUME NEW t \in Tasks, ClearStored(t) PROVE SerialInv'
  BY <1>15 DEF ClearStored
<1>16. ASSUME NEW t \in Tasks, Lock(t) PROVE SerialInv'
  BY <1>16 DEF Lock
<1>17. ASSUME NEW t \in Tasks, DropIdentity(t) PROVE SerialInv'
  BY <1>17 DEF DropIdentity
<1>18. ASSUME NEW t \in Tasks, DropSession(t) PROVE SerialInv'
  <2>1. /\ pc[t] = "dropSession" /\ auth' = NoSession /\ UNCHANGED <<open, mem, saved, op, new>>
        /\ \A u \in Tasks : u # t => pc'[u] = pc[u]
        /\ pc'[t] = IF op[t] = "lock" THEN "dropPassphrase" ELSE "idle"
        /\ signedOut' = (signedOut \/ op[t] = "signout")
    BY <1>18 DEF DropSession
  <2>2. CASE op[t] = "lock"
    BY <2>1, <2>2, ZenonT(60)
  <2>3. CASE op[t] = "signout"
    <3>1. /\ mem = NoSession /\ saved = NoSession /\ open
          /\ \A u \in Tasks : u # t => pc[u] = "idle"
      BY <2>1, <2>3
    <3>2. \A u \in Tasks : pc'[u] = "idle"
      BY <2>1, <2>3, <3>1
    <3>3. QED BY <2>1, <3>1, <3>2
  <2>4. CASE op[t] \notin {"lock", "signout"}
    BY <2>1, <2>4, ZenonT(60)
  <2>5. QED BY <2>2, <2>3, <2>4
<1>19. ASSUME NEW t \in Tasks, DropPassphrase(t) PROVE SerialInv'
  BY <1>19 DEF DropPassphrase
<1>20. ASSUME NEW t \in Tasks, DropBridge(t) PROVE SerialInv'
  BY <1>20 DEF DropBridge
<1>21. ASSUME NEW t \in Tasks, Close(t) PROVE SerialInv'
  BY <1>21 DEF Close
<1>22. CASE Restart
  BY <1>22 DEF Restart
<1>23. CASE UNCHANGED vars
  BY <1>23 DEF vars
<1>24. QED
  BY <1>1, <1>2, <1>3, <1>4, <1>5, <1>6, <1>7, <1>8, <1>9, <1>10, <1>11, <1>12, <1>13,
     <1>14, <1>15, <1>16, <1>17, <1>18, <1>19, <1>20, <1>21, <1>22, <1>23 DEF Next

\* auth_signout and vault_lock, when session commands overlap neither each other
\* nor a lock: a locked vault has dropped the session, and a session that was
\* signed out is in memory, vault and file no more, through any locks, failed
\* flushes and restarts, until the next sign-in.
THEOREM SessionAlwaysGone == Spec => []SessionGone
<1>1. Init => SerialInv
  BY DEF Init, SerialInv, SessionAlone, SessionDropped, SignedOut, Serves
<1>2. LockInv /\ SerialInv => SessionGone
  BY DEF LockInv, SecretsDropped, SerialInv, SessionDropped, SignedOut, SessionGone,
     AllIdle, Running
<1>3. QED BY <1>1, <1>2, TypeAlways, NextSerialInv, PTL DEF Spec

-----------------------------------------------------------------------------
(* RelaySignIn.                                                            *)

\* The user an address or an account leads to.
Owner(x) == IF x \in Accounts THEN linked[x] ELSE users[x]

RelayShape ==
  /\ users \in [Addresses -> People] /\ passkeys \in [Tries -> People]
  /\ linked \in [Accounts -> People]
  /\ at \in [Apps -> Places] /\ way \in [Apps -> Ways]
  /\ by \in [Apps -> Addresses \cup {Nobody}] /\ mail \in [Apps -> Addresses \cup {Nobody}]
  /\ shown \in [Accounts -> Emails \cup {Nobody}]
  /\ who \in [Apps -> People] /\ salts \in [Apps -> People]
  /\ try \in [Apps -> Nat] /\ tries \in Nat

\* Which way takes which steps, and with what.
Course(a) ==
  at[a] # "page" =>
    /\ try[a] \in Tries
    /\ way[a] = "oauth" => by[a] \in Accounts /\ mail[a] \in Addresses
    /\ way[a] # "oauth" => by[a] \in Emails /\ mail[a] = by[a]
    /\ at[a] \in {"assertStart", "sign"} => way[a] = "assert"
    /\ at[a] \in {"registerStart", "make"} => way[a] = "register"
    /\ at[a] \in {"browser", "lookup", "find", "link"} => way[a] = "oauth"
    /\ at[a] = "create" => way[a] # "assert"
    /\ at[a] = "list" => way[a] # "oauth"

\* What a handler has found in the tables is still there.
Found(a) ==
  /\ at[a] \in {"list", "sign", "make"}
       \/ (at[a] \in {"put", "consume", "delete", "finish"} /\ way[a] # "oauth")
     => salts[a] = users[by[a]] /\ salts[a] # Nobody
  /\ at[a] = "link" => who[a] = salts[a] /\ who[a] # Nobody
  /\ at[a] = "answer" => who[a] = salts[a] /\ who[a] # Nobody /\ who[a] = Owner(by[a])

Answered ==
  \A x \in answers : /\ x.by \in Addresses
                     /\ x.user = x.salts /\ x.user # Nobody /\ x.user = Owner(x.by)

RelayInv == RelayShape /\ (\A a \in Apps : Course(a) /\ Found(a)) /\ Answered

LEMMA InitRelayInv == RelayInit => RelayInv
BY RelayAssumption
   DEF RelayInit, RelayInv, RelayShape, Course, Found, Answered, Owner, Places, Ways, People,
       Addresses

LEMMA Typed == ASSUME NEW S, NEW T, NEW f \in [S -> T], NEW x \in S, NEW y \in T
               PROVE  [f EXCEPT ![x] = y] \in [S -> T]
OBVIOUS

\* The steps that branch, case by case.
LEMMA BranchShape ==
  ASSUME RelayShape, \A a \in Apps : Course(a), NEW a \in Apps,
         \/ AssertStart(a) \/ RegisterStart(a) \/ ListPasskeys(a) \/ PutChallenge(a)
         \/ Sign(a) \/ MakeKey(a) \/ GetChallenge(a) \/ AssertVerify(a)
         \/ RegisterVerify(a) \/ FindAccount(a) \/ FindUser(a) \/ CreateUser(a) \/ InsertAccount(a)
  PROVE  RelayShape'
<1> USE RelayAssumption DEF tables, desk, bounds, past, End, Move
<1>a. /\ Nobody \in People /\ Tries \subseteq People
      /\ Emails \subseteq Addresses /\ Accounts \subseteq Addresses
      /\ at[a] # "page" =>
           by[a] \in Addresses /\ mail[a] \in Addresses /\ try[a] \in Tries
  BY DEF People, Addresses, Course
<1>b. /\ \A u \in People : /\ [who EXCEPT ![a] = u] \in [Apps -> People]
                           /\ [salts EXCEPT ![a] = u] \in [Apps -> People]
      /\ \A p \in Places : [at EXCEPT ![a] = p] \in [Apps -> Places]
      /\ \A p \in {"page", "registerStart", "create", "list", "put", "sign", "make", "browser",
                   "consume", "delete", "find", "link", "answer"} : p \in Places
  BY Typed DEF RelayShape, Places
<1>1. CASE AssertStart(a)
  <2>0. users[by[a]] \in People
    BY <1>1, <1>a DEF RelayShape, AssertStart
  <2>1. CASE users[by[a]] = Nobody
    <3>1. /\ at' = [at EXCEPT ![a] = "registerStart"]
          /\ way' = [way EXCEPT ![a] = "register"] /\ salts' = salts
      BY <1>1, <2>1 DEF AssertStart
    <3>2. QED BY <3>1, <2>0, <1>1, <1>a, <1>b DEF AssertStart, RelayShape, Ways
  <2>2. CASE users[by[a]] # Nobody
    <3>1. /\ at' = [at EXCEPT ![a] = "list"]
          /\ way' = way /\ salts' = [salts EXCEPT ![a] = users[by[a]]]
      BY <1>1, <2>2 DEF AssertStart
    <3>2. QED BY <3>1, <2>0, <1>1, <1>a, <1>b DEF AssertStart, RelayShape, Ways
  <2>3. QED BY <2>1, <2>2
<1>2. CASE Sign(a)
  <2>1. CASE {k \in offered[a] : <<salts[a], k>> \in rings[a]} = {}
    <3>1. at' = [at EXCEPT ![a] = "page"]
      BY <1>2, <2>1 DEF Sign
    <3>2. QED BY <3>1, <1>2, <1>a, <1>b DEF Sign, RelayShape, Ways
  <2>2. CASE {k \in offered[a] : <<salts[a], k>> \in rings[a]} # {}
    <3>1. at' = [at EXCEPT ![a] = "consume"]
      BY <1>2, <2>2 DEF Sign
    <3>2. QED BY <3>1, <1>2, <1>a, <1>b DEF Sign, RelayShape, Ways
  <2>3. QED BY <2>1, <2>2
<1>3. CASE MakeKey(a)
  <2>1. CASE \E k \in offered[a] : <<salts[a], k>> \in rings[a]
    <3>1. at' = [at EXCEPT ![a] = "page"]
      BY <1>3, <2>1 DEF MakeKey
    <3>2. QED BY <3>1, <1>3, <1>a, <1>b DEF MakeKey, RelayShape, Ways
  <2>2. CASE ~(\E k \in offered[a] : <<salts[a], k>> \in rings[a])
    <3>1. at' = [at EXCEPT ![a] = "consume"]
      BY <1>3, <2>2 DEF MakeKey
    <3>2. QED BY <3>1, <1>3, <1>a, <1>b DEF MakeKey, RelayShape, Ways
  <2>3. QED BY <2>1, <2>2
<1>4. CASE GetChallenge(a)
  <2>1. CASE got'[a] = 0
    <3>1. at' = [at EXCEPT ![a] = "page"]
      BY <1>4, <2>1 DEF GetChallenge
    <3>2. QED BY <3>1, <1>4, <1>a, <1>b DEF GetChallenge, RelayShape, Ways
  <2>2. CASE got'[a] # 0
    <3>1. at' = [at EXCEPT ![a] = "delete"]
      BY <1>4, <2>2 DEF GetChallenge
    <3>2. QED BY <3>1, <1>4, <1>a, <1>b DEF GetChallenge, RelayShape, Ways
  <2>3. QED BY <2>1, <2>2
<1>5. CASE AssertVerify(a)
  <2>0. users[by[a]] \in People
    BY <1>5, <1>a DEF RelayShape, AssertVerify
  <2>1. CASE got[a] = try[a] /\ passkeys[key[a]] = users[by[a]]
    <3>1. /\ at' = [at EXCEPT ![a] = "answer"]
          /\ who' = [who EXCEPT ![a] = users[by[a]]]
      BY <1>5, <2>1 DEF AssertVerify
    <3>2. QED BY <3>1, <2>0, <1>5, <1>a, <1>b DEF AssertVerify, RelayShape, Ways
  <2>2. CASE ~(got[a] = try[a] /\ passkeys[key[a]] = users[by[a]])
    <3>1. /\ at' = [at EXCEPT ![a] = "page"]
          /\ who' = who
      BY <1>5, <2>2 DEF AssertVerify
    <3>2. QED BY <3>1, <2>0, <1>5, <1>a, <1>b DEF AssertVerify, RelayShape, Ways
  <2>3. QED BY <2>1, <2>2
<1>6. CASE RegisterVerify(a)
  <2>0. users[by[a]] \in People
    BY <1>6, <1>a DEF RelayShape, RegisterVerify
  <2>1. CASE got[a] = try[a]
    <3>1. /\ at' = [at EXCEPT ![a] = "answer"]
          /\ who' = [who EXCEPT ![a] = users[by[a]]]
          /\ passkeys' = [passkeys EXCEPT ![try[a]] = users[by[a]]]
      BY <1>6, <2>1 DEF RegisterVerify
    <3>2. QED BY <3>1, <2>0, <1>6, <1>a, <1>b DEF RegisterVerify, RelayShape, Ways
  <2>2. CASE got[a] # try[a]
    <3>1. /\ at' = [at EXCEPT ![a] = "page"]
          /\ who' = who
          /\ passkeys' = passkeys
      BY <1>6, <2>2 DEF RegisterVerify
    <3>2. QED BY <3>1, <2>0, <1>6, <1>a, <1>b DEF RegisterVerify, RelayShape, Ways
  <2>3. QED BY <2>1, <2>2
<1>7. CASE FindAccount(a)
  <2>0. linked[by[a]] \in People
    BY <1>7, <1>a DEF RelayShape, FindAccount, Course
  <2>1. CASE linked[by[a]] = Nobody
    <3>1. /\ at' = [at EXCEPT ![a] = "find"]
          /\ who' = who
          /\ salts' = salts
      BY <1>7, <2>1 DEF FindAccount
    <3>2. QED BY <3>1, <2>0, <1>7, <1>a, <1>b DEF FindAccount, RelayShape, Ways
  <2>2. CASE linked[by[a]] # Nobody
    <3>1. /\ at' = [at EXCEPT ![a] = "answer"]
          /\ who' = [who EXCEPT ![a] = linked[by[a]]]
          /\ salts' = [salts EXCEPT ![a] = linked[by[a]]]
      BY <1>7, <2>2 DEF FindAccount
    <3>2. QED BY <3>1, <2>0, <1>7, <1>a, <1>b DEF FindAccount, RelayShape, Ways
  <2>3. QED BY <2>1, <2>2
<1>8. CASE FindUser(a)
  <2>0. users[mail[a]] \in People
    BY <1>8, <1>a DEF RelayShape, FindUser
  <2>1. CASE users[mail[a]] = Nobody
    <3>1. /\ at' = [at EXCEPT ![a] = "create"]
          /\ who' = who
          /\ salts' = salts
      BY <1>8, <2>1 DEF FindUser
    <3>2. QED BY <3>1, <2>0, <1>8, <1>a, <1>b DEF FindUser, RelayShape, Ways
  <2>2. CASE users[mail[a]] # Nobody
    <3>1. /\ at' = [at EXCEPT ![a] = "link"]
          /\ who' = [who EXCEPT ![a] = users[mail[a]]]
          /\ salts' = [salts EXCEPT ![a] = users[mail[a]]]
      BY <1>8, <2>2 DEF FindUser
    <3>2. QED BY <3>1, <2>0, <1>8, <1>a, <1>b DEF FindUser, RelayShape, Ways
  <2>3. QED BY <2>1, <2>2
<1>9. CASE CreateUser(a)
  <2>0. mail[a] \in Addresses /\ try[a] \in People
    BY <1>9, <1>a DEF RelayShape, CreateUser
  <2>1. CASE users[mail[a]] = Nobody
    <3>1. /\ at' = [at EXCEPT ![a] = IF way[a] = "oauth" THEN "link" ELSE "list"]
          /\ users' = [users EXCEPT ![mail[a]] = try[a]]
          /\ who' = [who EXCEPT ![a] = try[a]]
          /\ salts' = [salts EXCEPT ![a] = try[a]]
      BY <1>9, <2>1 DEF CreateUser
    <3>2. QED BY <3>1, <2>0, <1>9, <1>a, <1>b DEF CreateUser, RelayShape, Ways
  <2>2. CASE users[mail[a]] # Nobody
    <3>1. /\ at' = [at EXCEPT ![a] = "page"]
          /\ users' = users
          /\ who' = who
          /\ salts' = salts
      BY <1>9, <2>2 DEF CreateUser
    <3>2. QED BY <3>1, <2>0, <1>9, <1>a, <1>b DEF CreateUser, RelayShape, Ways
  <2>3. QED BY <2>1, <2>2
<1>10. CASE InsertAccount(a)
  <2>1. CASE linked[by[a]] = Nobody
    <3>1. /\ at' = [at EXCEPT ![a] = "answer"]
          /\ linked' = [linked EXCEPT ![by[a]] = who[a]]
      BY <1>10, <2>1 DEF InsertAccount
    <3>2. QED BY <3>1, <1>10, <1>a, <1>b DEF InsertAccount, RelayShape, Ways
  <2>2. CASE linked[by[a]] # Nobody
    <3>1. /\ at' = [at EXCEPT ![a] = "page"]
          /\ linked' = linked
      BY <1>10, <2>2 DEF InsertAccount
    <3>2. QED BY <3>1, <1>10, <1>a, <1>b DEF InsertAccount, RelayShape, Ways
  <2>3. QED BY <2>1, <2>2
<1>11. CASE RegisterStart(a)
  <2>0. users[by[a]] \in People
    BY <1>11, <1>a DEF RelayShape, RegisterStart
  <2>1. CASE users[by[a]] = Nobody
    <3>1. /\ at' = [at EXCEPT ![a] = "create"]
          /\ way' = way /\ salts' = salts
      BY <1>11, <2>1 DEF RegisterStart
    <3>2. QED BY <3>1, <2>0, <1>11, <1>a, <1>b DEF RegisterStart, RelayShape, Ways
  <2>2. CASE users[by[a]] # Nobody
    <3>1. /\ at' = [at EXCEPT ![a] = "list"]
          /\ way' = way /\ salts' = [salts EXCEPT ![a] = users[by[a]]]
      BY <1>11, <2>2 DEF RegisterStart
    <3>2. QED BY <3>1, <2>0, <1>11, <1>a, <1>b DEF RegisterStart, RelayShape, Ways
  <2>3. QED BY <2>1, <2>2
<1>12. CASE ListPasskeys(a)
  <2>1. CASE way[a] = "assert" /\ KeysOf(salts[a]) = {}
    <3>1. /\ at' = [at EXCEPT ![a] = "registerStart"]
          /\ way' = [way EXCEPT ![a] = "register"]
      BY <1>12, <2>1 DEF ListPasskeys
    <3>2. QED BY <3>1, <1>12, <1>a, <1>b DEF ListPasskeys, RelayShape, Ways
  <2>2. CASE ~(way[a] = "assert" /\ KeysOf(salts[a]) = {})
    <3>1. at' = [at EXCEPT ![a] = "put"] /\ way' = way
      BY <1>12, <2>2 DEF ListPasskeys
    <3>2. QED BY <3>1, <1>12, <1>a, <1>b DEF ListPasskeys, RelayShape, Ways
  <2>3. QED BY <2>1, <2>2
<1>13. CASE PutChallenge(a)
  <2>1. \/ at' = [at EXCEPT ![a] = "sign"]
        \/ at' = [at EXCEPT ![a] = "make"]
        \/ at' = [at EXCEPT ![a] = "browser"]
    BY <1>13 DEF PutChallenge, RelayShape, Ways
  <2>2. QED BY <2>1, <1>13, <1>a, <1>b DEF PutChallenge, RelayShape, Ways
<1>14. QED BY <1>1, <1>2, <1>3, <1>4, <1>5, <1>6, <1>7, <1>8, <1>9,
           <1>10, <1>11, <1>12, <1>13

LEMMA NextRelayInv == RelayInv /\ [RelayNext]_relayVars => RelayInv'
<1> SUFFICES ASSUME RelayInv, [RelayNext]_relayVars PROVE RelayInv'
  OBVIOUS
<1> USE RelayAssumption
    DEF RelayInv, RelayShape, Course, Found, Answered, Owner, Places, Ways, People, Addresses,
        Tries, Move, End, tables, desk, bounds, past
<1>1. ASSUME NEW a \in Apps, NEW e \in Emails, ContinueWithPasskey(a, e) PROVE RelayInv'
  BY <1>1 DEF ContinueWithPasskey, Start
<1>2. ASSUME NEW a \in Apps, NEW p \in Accounts, ContinueWithAccount(a, p) PROVE RelayInv'
  BY <1>2 DEF ContinueWithAccount, Start
<1>3. ASSUME NEW a \in Apps, AssertStart(a) PROVE RelayInv'
  <2>1. RelayShape'
    BY <1>3, BranchShape
  <2>2. \A b \in Apps : Course(b)'
    BY <1>3 DEF AssertStart
  <2>3. \A b \in Apps : Found(b)'
    BY <1>3 DEF AssertStart
  <2>4. Answered'
    BY <1>3 DEF AssertStart
  <2>5. QED BY <2>1, <2>2, <2>3, <2>4
<1>4. ASSUME NEW a \in Apps, RegisterStart(a) PROVE RelayInv'
  <2>1. RelayShape'
    BY <1>4, BranchShape
  <2>2. \A b \in Apps : Course(b)'
    BY <1>4 DEF RegisterStart
  <2>3. \A b \in Apps : Found(b)'
    BY <1>4 DEF RegisterStart
  <2>4. Answered'
    BY <1>4 DEF RegisterStart
  <2>5. QED BY <2>1, <2>2, <2>3, <2>4
<1>5. ASSUME NEW a \in Apps, ListPasskeys(a) PROVE RelayInv'
  <2>1. RelayShape'
    BY <1>5, BranchShape
  <2>2. \A b \in Apps : Course(b)'
    BY <1>5 DEF ListPasskeys
  <2>3. \A b \in Apps : Found(b)'
    BY <1>5 DEF ListPasskeys
  <2>4. Answered'
    BY <1>5 DEF ListPasskeys
  <2>5. QED BY <2>1, <2>2, <2>3, <2>4
<1>6. ASSUME NEW a \in Apps, Sign(a) PROVE RelayInv'
  <2>1. RelayShape'
    BY <1>6, BranchShape
  <2>2. \A b \in Apps : Course(b)'
    BY <1>6 DEF Sign
  <2>3. \A b \in Apps : Found(b)'
    BY <1>6 DEF Sign
  <2>4. Answered'
    BY <1>6 DEF Sign
  <2>5. QED BY <2>1, <2>2, <2>3, <2>4
<1>7. ASSUME NEW a \in Apps, MakeKey(a) PROVE RelayInv'
  <2>1. RelayShape'
    BY <1>7, BranchShape
  <2>2. /\ at' = [at EXCEPT ![a] = "page"] \/ at' = [at EXCEPT ![a] = "consume"]
        /\ at[a] = "make"
    BY <1>7 DEF MakeKey
  <2>3. UNCHANGED <<users, linked, way, by, try, mail, who, salts, answers>>
    BY <1>7 DEF MakeKey
  <2>4. \A b \in Apps : Course(b)'
    BY <2>2, <2>3
  <2>5. \A b \in Apps : Found(b)'
    BY <2>2, <2>3
  <2>6. Answered'
    BY <2>3
  <2>7. QED BY <2>1, <2>4, <2>5, <2>6
<1>8. ASSUME NEW a \in Apps, PutChallenge(a) PROVE RelayInv'
  <2>1. RelayShape'
    BY <1>8, BranchShape
  <2>2. \A b \in Apps : Course(b)'
    BY <1>8 DEF PutChallenge
  <2>3. \A b \in Apps : Found(b)'
    BY <1>8 DEF PutChallenge
  <2>4. Answered'
    BY <1>8 DEF PutChallenge
  <2>5. QED BY <2>1, <2>2, <2>3, <2>4
<1>9. ASSUME NEW a \in Apps, Consent(a) PROVE RelayInv'
  BY <1>9 DEF Consent
<1>10. ASSUME NEW a \in Apps, GetChallenge(a) PROVE RelayInv'
  <2>1. RelayShape'
    BY <1>10, BranchShape
  <2>2. \A b \in Apps : Course(b)'
    BY <1>10 DEF GetChallenge
  <2>3. \A b \in Apps : Found(b)'
    BY <1>10 DEF GetChallenge
  <2>4. Answered'
    BY <1>10 DEF GetChallenge
  <2>5. QED BY <2>1, <2>2, <2>3, <2>4
<1>11. ASSUME NEW a \in Apps, DeleteChallenge(a) PROVE RelayInv'
  BY <1>11 DEF DeleteChallenge
<1>12. ASSUME NEW a \in Apps, AssertVerify(a) PROVE RelayInv'
  <2>1. RelayShape'
    BY <1>12, BranchShape
  <2>2. \A b \in Apps : Course(b)'
    BY <1>12 DEF AssertVerify
  <2>3. \A b \in Apps : Found(b)'
    BY <1>12 DEF AssertVerify
  <2>4. Answered'
    BY <1>12 DEF AssertVerify
  <2>5. QED BY <2>1, <2>2, <2>3, <2>4
<1>13. ASSUME NEW a \in Apps, RegisterVerify(a) PROVE RelayInv'
  <2>1. RelayShape'
    BY <1>13, BranchShape
  <2>2. \A b \in Apps : Course(b)'
    BY <1>13 DEF RegisterVerify
  <2>3. \A b \in Apps : Found(b)'
    BY <1>13 DEF RegisterVerify
  <2>4. Answered'
    BY <1>13 DEF RegisterVerify
  <2>5. QED BY <2>1, <2>2, <2>3, <2>4
<1>14. ASSUME NEW a \in Apps, Exchange(a) PROVE RelayInv'
  BY <1>14 DEF Exchange
<1>15. ASSUME NEW a \in Apps, FindAccount(a) PROVE RelayInv'
  <2>1. RelayShape'
    BY <1>15, BranchShape
  <2>2. \A b \in Apps : Course(b)'
    BY <1>15 DEF FindAccount
  <2>3. \A b \in Apps : Found(b)'
    BY <1>15 DEF FindAccount
  <2>4. Answered'
    BY <1>15 DEF FindAccount
  <2>5. QED BY <2>1, <2>2, <2>3, <2>4
<1>16. ASSUME NEW a \in Apps, FindUser(a) PROVE RelayInv'
  <2>1. RelayShape'
    BY <1>16, BranchShape
  <2>2. \A b \in Apps : Course(b)'
    BY <1>16 DEF FindUser
  <2>3. \A b \in Apps : Found(b)'
    BY <1>16 DEF FindUser
  <2>4. Answered'
    BY <1>16 DEF FindUser
  <2>5. QED BY <2>1, <2>2, <2>3, <2>4
<1>17. ASSUME NEW a \in Apps, CreateUser(a) PROVE RelayInv'
  <2>1. RelayShape'
    BY <1>17, BranchShape
  <2>2. \A b \in Apps : Course(b)'
    BY <1>17 DEF CreateUser
  <2>3. \A b \in Apps : Found(b)'
    BY <1>17 DEF CreateUser
  <2>4. Answered'
    BY <1>17 DEF CreateUser
  <2>5. QED BY <2>1, <2>2, <2>3, <2>4
<1>18. ASSUME NEW a \in Apps, InsertAccount(a) PROVE RelayInv'
  <2>1. RelayShape'
    BY <1>18, BranchShape
  <2>2. \A b \in Apps : Course(b)'
    BY <1>18 DEF InsertAccount
  <2>3. \A b \in Apps : Found(b)'
    BY <1>18 DEF InsertAccount
  <2>4. Answered'
    BY <1>18 DEF InsertAccount
  <2>5. QED BY <2>1, <2>2, <2>3, <2>4
<1>19. ASSUME NEW a \in Apps, Deliver(a) PROVE RelayInv'
  <2>1. RelayShape'
    BY <1>19 DEF Deliver
  <2>2. \A b \in Apps : Course(b)'
    BY <1>19 DEF Deliver
  <2>3. \A b \in Apps : Found(b)'
    BY <1>19 DEF Deliver
  <2>4. Answered'
    <3> DEFINE last == [by |-> by[a], user |-> who[a], salts |-> salts[a]]
    <3>1. /\ answers' = answers \cup {last}
          /\ UNCHANGED <<users, linked>>
      BY <1>19 DEF Deliver
    <3>2. /\ by[a] \in Addresses /\ who[a] = salts[a] /\ who[a] # Nobody
          /\ who[a] = Owner(by[a])
      BY <1>19 DEF Deliver
    <3>3. /\ last.by \in Addresses /\ last.user = last.salts /\ last.user # Nobody
          /\ last.user = Owner(last.by)
      BY <3>2
    <3> HIDE DEF last
    <3>4. QED BY <3>1, <3>3
  <2>5. QED BY <2>1, <2>2, <2>3, <2>4
<1>20. ASSUME NEW a \in Apps, Cut(a) PROVE RelayInv'
  BY <1>20 DEF Cut
<1>21. ASSUME NEW s \in Slots, ExpireChallenge(s) PROVE RelayInv'
  BY <1>21 DEF ExpireChallenge
<1>22. ASSUME NEW p \in Accounts, NEW m \in Emails \cup {Nobody}, ChangeAddress(p, m)
       PROVE RelayInv'
  BY <1>22 DEF ChangeAddress
<1>23. CASE UNCHANGED relayVars
  BY <1>23 DEF relayVars
<1>24. QED
  BY <1>1, <1>2, <1>3, <1>4, <1>5, <1>6, <1>7, <1>8, <1>9, <1>10, <1>11, <1>12, <1>13, <1>14,
     <1>15, <1>16, <1>17, <1>18, <1>19, <1>20, <1>21, <1>22, <1>23 DEF RelayNext

\* oauth.ts and passkey.ts: one address or account, one user and its salts, on
\* every desktop: rows of users and accounts are inserted once and never changed,
\* and what a handler answers it has read from them.
THEOREM OneUserEach == RelaySpec => []SameKeyEverywhere
<1>1. RelayInv => SameKeyEverywhere
  BY DEF RelayInv, Answered, SameKeyEverywhere
<1>2. QED BY <1>1, InitRelayInv, NextRelayInv, PTL DEF RelaySpec
-----------------------------------------------------------------------------
(* A sign-in that nothing comes between.                                   *)

\* What it has read is still so, and its challenge is the one that was put.
Undisturbed(a) ==
  /\ \A b \in Apps : b # a => at[b] = "page"
  /\ outcome[a] # "failed"
  /\ at[a] = "create" => users[mail[a]] = Nobody
  /\ at[a] \in {"find", "link"} \/ (at[a] = "create" /\ way[a] = "oauth")
       => linked[by[a]] = Nobody
  /\ at[a] \in {"sign", "make", "browser", "consume"} => cache[Slot(a)] = try[a]
  /\ at[a] \in {"delete", "finish"} => got[a] = try[a]
  /\ way[a] = "assert" /\ at[a] \in {"put", "sign"} => offered[a] \subseteq KeysOf(salts[a])
  /\ way[a] = "assert" /\ at[a] \in {"consume", "delete", "finish"}
       => passkeys[key[a]] = users[by[a]]

LoneInv == \A a \in Apps : lone[a] => Undisturbed(a)

\* Numbers given so far.
NumbersInv ==
  /\ \A a \in Apps : try[a] <= tries
  /\ \A m \in Addresses : users[m] # Nobody => users[m] <= tries
  /\ \A k \in Tries : passkeys[k] # Nobody => k <= tries /\ passkeys[k] <= tries

\* As long as no sign-ins overlapped: whoever has passkeys has one of them on
\* the authenticators, and registers only without any.
Usable(u) == \A a \in Apps : KeysOf(u) # {} => \E k \in KeysOf(u) : <<u, k>> \in rings[a]

Uncrossed(a) ==
  /\ outcome[a] # "refused"
  /\ at[a] \notin {"page", "answer"} =>
       passkeys[try[a]] = Nobody /\ \A k \in Tries : passkeys[k] # try[a]
  /\ way[a] = "assert" /\ at[a] \in {"put", "sign"} =>
       offered[a] = KeysOf(salts[a]) /\ offered[a] # {}
  /\ way[a] = "register" /\ at[a] \notin {"page", "answer"} => KeysOf(users[by[a]]) = {}
  /\ way[a] = "register" /\ at[a] \in {"put", "make"} => offered[a] = {}
  /\ way[a] = "register" /\ at[a] \in {"consume", "delete", "finish"} =>
       \A b \in Apps : <<salts[a], try[a]>> \in rings[b]

CrossedInv ==
  ~crossed /\ synced =>
    /\ \A a, b \in Apps : at[a] # "page" /\ at[b] # "page" => a = b
    /\ \A a, b \in Apps : rings[a] = rings[b]
    /\ \A u \in Tries : Usable(u)
    /\ \A a \in Apps : Uncrossed(a)

\* The rest of the shape.
DeskShape ==
  /\ offered \in [Apps -> SUBSET Tries] /\ key \in [Apps -> Nat] /\ got \in [Apps -> Nat]
  /\ cache \in [Slots -> Nat] /\ rings \in [Apps -> SUBSET (People \X Tries)]
  /\ outcome \in [Apps -> {"none", "in", "failed", "refused"}]
  /\ lone \in [Apps -> BOOLEAN] /\ crossed \in BOOLEAN /\ synced \in BOOLEAN

\* The steps of a sign-in after its start.
Handler(a) ==
  \/ AssertStart(a) \/ RegisterStart(a) \/ ListPasskeys(a) \/ Sign(a) \/ MakeKey(a) \/ Consent(a)
  \/ PutChallenge(a) \/ GetChallenge(a) \/ DeleteChallenge(a) \/ AssertVerify(a)
  \/ RegisterVerify(a) \/ Exchange(a) \/ FindAccount(a) \/ FindUser(a) \/ CreateUser(a)
  \/ InsertAccount(a) \/ Deliver(a)

LEMMA SlotOf ==
  ASSUME RelayInv, NEW a \in Apps, at[a] # "page"
  PROVE  Slot(a) \in Slots
BY DEF RelayInv, RelayShape, Course, Ways, Slot, Slots

\* What all of them have in common.
LEMMA HandlerFrame ==
  ASSUME RelayShape, NEW a \in Apps, Handler(a)
  PROVE  /\ at[a] # "page" /\ UNCHANGED <<shown, synced, by, try, tries, moves, cuts, lone, crossed>>
         /\ \A b \in Apps : b # a => at'[b] = at[b]
<1>1. CASE AssertStart(a)
  BY <1>1 DEF AssertStart, RelayShape, Move, End, desk, bounds, past
<1>2. CASE RegisterStart(a)
  BY <1>2 DEF RegisterStart, RelayShape, Move, End, desk, bounds, past
<1>3. CASE ListPasskeys(a)
  BY <1>3 DEF ListPasskeys, RelayShape, Move, End, desk, bounds, past
<1>4. CASE Sign(a)
  BY <1>4 DEF Sign, RelayShape, Move, End, desk, bounds, past
<1>5. CASE MakeKey(a)
  BY <1>5 DEF MakeKey, RelayShape, Move, End, desk, bounds, past
<1>6. CASE Consent(a)
  BY <1>6 DEF Consent, RelayShape, Move, End, desk, bounds, past
<1>7. CASE PutChallenge(a)
  BY <1>7 DEF PutChallenge, RelayShape, Move, End, desk, bounds, past
<1>8. CASE GetChallenge(a)
  BY <1>8 DEF GetChallenge, RelayShape, Move, End, desk, bounds, past
<1>9. CASE DeleteChallenge(a)
  BY <1>9 DEF DeleteChallenge, RelayShape, Move, End, desk, bounds, past
<1>10. CASE AssertVerify(a)
  BY <1>10 DEF AssertVerify, RelayShape, Move, End, desk, bounds, past
<1>11. CASE RegisterVerify(a)
  BY <1>11 DEF RegisterVerify, RelayShape, Move, End, desk, bounds, past
<1>12. CASE Exchange(a)
  BY <1>12 DEF Exchange, RelayShape, Move, End, desk, bounds, past
<1>13. CASE FindAccount(a)
  BY <1>13 DEF FindAccount, RelayShape, Move, End, desk, bounds, past
<1>14. CASE FindUser(a)
  BY <1>14 DEF FindUser, RelayShape, Move, End, desk, bounds, past
<1>15. CASE CreateUser(a)
  BY <1>15 DEF CreateUser, RelayShape, Move, End, desk, bounds, past
<1>16. CASE InsertAccount(a)
  BY <1>16 DEF InsertAccount, RelayShape, Move, End, desk, bounds, past
<1>17. CASE Deliver(a)
  BY <1>17 DEF Deliver, RelayShape, Move, End, desk, bounds, past
<1>18. QED
  BY <1>1, <1>2, <1>3, <1>4, <1>5, <1>6, <1>7, <1>8, <1>9, <1>10, <1>11, <1>12, <1>13,
     <1>14, <1>15, <1>16, <1>17 DEF Handler

LEMMA DeskShapeStep ==
  ASSUME RelayInv, DeskShape, [RelayNext]_relayVars
  PROVE  DeskShape'
<1> USE DEF DeskShape, Move, End, tables, desk, bounds, past
<1>1. ASSUME NEW a \in Apps, Handler(a) PROVE DeskShape'
  <2>1. CASE AssertStart(a)
    BY <2>1 DEF AssertStart
  <2>2. CASE RegisterStart(a)
    BY <2>2 DEF RegisterStart
  <2>3. CASE ListPasskeys(a)
    <3>1. KeysOf(salts[a]) \in SUBSET Tries
      BY DEF KeysOf
    <3>2. QED BY <2>3, <3>1 DEF ListPasskeys
  <2>4. CASE Sign(a)
    <3>1. CASE {k \in offered[a] : <<salts[a], k>> \in rings[a]} = {}
      BY <2>4, <3>1 DEF Sign
    <3>2. CASE {k \in offered[a] : <<salts[a], k>> \in rings[a]} # {}
      <4>1. (CHOOSE k \in {k \in offered[a] : <<salts[a], k>> \in rings[a]} : TRUE) \in Nat
        BY <3>2 DEF Tries
      <4>2. QED BY <2>4, <3>2, <4>1 DEF Sign
    <3>3. QED BY <3>1, <3>2
  <2>5. CASE MakeKey(a)
    <3> DEFINE made(b) == {r \in rings[b] : r[1] # salts[a]} \cup {<<salts[a], try[a]>>}
    <3>1. salts[a] \in People /\ try[a] \in Tries
      BY <2>5 DEF MakeKey, RelayInv, RelayShape, Course
    <3>2. \A b \in Apps : made(b) \in SUBSET (People \X Tries)
      BY <3>1
    <3>3. rings' = rings \/ rings' = [b \in Apps |-> IF synced \/ b = a THEN made(b) ELSE rings[b]]
      BY <2>5 DEF MakeKey
    <3>4. outcome' = outcome \/ outcome' = [outcome EXCEPT ![a] = "refused"]
      BY <2>5 DEF MakeKey
    <3> HIDE DEF made
    <3>5. QED BY <2>5, <3>2, <3>3, <3>4 DEF MakeKey
  <2>6. CASE Consent(a)
    BY <2>6 DEF Consent
  <2>7. CASE PutChallenge(a)
    <3>1. try[a] \in Nat /\ Slot(a) \in Slots
      BY <2>7, SlotOf DEF PutChallenge, RelayInv, RelayShape
    <3>2. QED BY <2>7, <3>1 DEF PutChallenge
  <2>8. CASE GetChallenge(a)
    <3>1. cache[Slot(a)] \in Nat
      BY <2>8, SlotOf DEF GetChallenge
    <3>2. got' \in [Apps -> Nat]
      BY <2>8, <3>1 DEF GetChallenge
    <3>3. outcome' = outcome \/ outcome' = [outcome EXCEPT ![a] = "failed"]
      BY <2>8 DEF GetChallenge
    <3>4. QED BY <2>8, <3>2, <3>3 DEF GetChallenge
  <2>9. CASE DeleteChallenge(a)
    BY <2>9 DEF DeleteChallenge
  <2>10. CASE AssertVerify(a)
    BY <2>10 DEF AssertVerify
  <2>11. CASE RegisterVerify(a)
    BY <2>11 DEF RegisterVerify
  <2>12. CASE Exchange(a)
    BY <2>12 DEF Exchange
  <2>13. CASE FindAccount(a)
    BY <2>13 DEF FindAccount
  <2>14. CASE FindUser(a)
    BY <2>14 DEF FindUser
  <2>15. CASE CreateUser(a)
    BY <2>15 DEF CreateUser
  <2>16. CASE InsertAccount(a)
    BY <2>16 DEF InsertAccount
  <2>17. CASE Deliver(a)
    BY <2>17 DEF Deliver
  <2>18. QED
    BY <1>1, <2>1, <2>2, <2>3, <2>4, <2>5, <2>6, <2>7, <2>8, <2>9, <2>10, <2>11, <2>12, <2>13,
       <2>14, <2>15, <2>16, <2>17 DEF Handler
<1>2. ASSUME NEW a \in Apps, NEW w, NEW x, NEW place, Start(a, w, x, place)
      PROVE  DeskShape'
  BY <1>2 DEF Start
<1>3. ASSUME NEW a \in Apps, Cut(a) PROVE DeskShape'
  BY <1>3 DEF Cut
<1>4. ASSUME NEW s \in Slots, ExpireChallenge(s) PROVE DeskShape'
  BY <1>4 DEF ExpireChallenge
<1>5. ASSUME NEW p, NEW m, ChangeAddress(p, m) PROVE DeskShape'
  BY <1>5 DEF ChangeAddress
<1>6. CASE UNCHANGED relayVars
  BY <1>6 DEF relayVars
<1>7. QED
  BY <1>1, <1>2, <1>3, <1>4, <1>5, <1>6
     DEF RelayNext, Handler, ContinueWithPasskey, ContinueWithAccount
\* Nothing a sign-in does to itself disturbs it.
LEMMA UndisturbedStep ==
  ASSUME RelayInv, DeskShape, NEW a \in Apps, Undisturbed(a), Handler(a)
  PROVE  Undisturbed(a)'
<1>a. /\ RelayShape /\ Course(a) /\ Found(a) /\ at[a] # "page"
      /\ \A b \in Apps : b # a => at'[b] = at[b]
  BY HandlerFrame DEF RelayInv
<1>b. Slot(a) \in Slots
  BY <1>a, SlotOf
<1> USE <1>a, <1>b
    DEF Undisturbed, DeskShape, RelayShape, Course, Found, Move, End, tables, desk, bounds, past
<1>1. CASE AssertStart(a)
  BY <1>1 DEF AssertStart, Slot, KeysOf
<1>2. CASE RegisterStart(a)
  BY <1>2 DEF RegisterStart, Slot, KeysOf
<1>3. CASE ListPasskeys(a)
  BY <1>3 DEF ListPasskeys, Slot, KeysOf
<1>4. CASE Sign(a)
  <2> DEFINE own == {k \in offered[a] : <<salts[a], k>> \in rings[a]}
  <2>1. CASE own = {}
    BY <1>4, <2>1 DEF Sign
  <2>2. CASE own # {}
    <3> DEFINE k == CHOOSE k \in own : TRUE
    <3>1. k \in own
      BY <2>2
    <3>2. /\ key' = [key EXCEPT ![a] = k] /\ at' = [at EXCEPT ![a] = "consume"]
          /\ UNCHANGED <<users, passkeys, cache, way, by, try, mail, salts, outcome>>
      BY <1>4, <2>2 DEF Sign
    <3>3. at[a] = "sign" /\ way[a] = "assert"
      BY <1>4 DEF Sign
    <3>4. passkeys[k] = users[by[a]]
      BY <3>1, <3>3 DEF KeysOf
    <3> HIDE DEF k, own
    <3>5. QED BY <3>2, <3>3, <3>4 DEF Slot
  <2>3. QED BY <2>1, <2>2
<1>5. CASE MakeKey(a)
  BY <1>5 DEF MakeKey, Slot, KeysOf
<1>6. CASE Consent(a)
  BY <1>6 DEF Consent, Slot, KeysOf
<1>7. CASE PutChallenge(a)
  <2>1. /\ cache' = [cache EXCEPT ![Slot(a)] = try[a]] /\ at[a] = "put"
        /\ UNCHANGED <<users, passkeys, linked, way, by, try, mail, salts, offered, outcome>>
    BY <1>7 DEF PutChallenge
  <2>2. \/ at'[a] = "sign" /\ way[a] = "assert"
        \/ at'[a] = "make" /\ way[a] = "register"
        \/ at'[a] = "browser" /\ way[a] = "oauth"
    BY <1>7 DEF PutChallenge, Ways
  <2>3. Slot(a)' = Slot(a) /\ cache'[Slot(a)] = try[a]
    BY <2>1 DEF Slot
  <2>4. QED BY <2>1, <2>2, <2>3 DEF KeysOf
<1>8. CASE GetChallenge(a)
  <2>1. at[a] = "consume" /\ cache[Slot(a)] = try[a] /\ try[a] # 0
    BY <1>8 DEF GetChallenge, Tries
  <2>2. /\ got' = [got EXCEPT ![a] = try[a]] /\ at' = [at EXCEPT ![a] = "delete"]
        /\ UNCHANGED <<users, passkeys, linked, way, by, try, mail, key, outcome>>
    BY <1>8, <2>1 DEF GetChallenge
  <2>3. QED BY <2>1, <2>2
<1>9. CASE DeleteChallenge(a)
  BY <1>9 DEF DeleteChallenge, Slot, KeysOf
<1>10. CASE AssertVerify(a)
  BY <1>10 DEF AssertVerify, Slot, KeysOf
<1>11. CASE RegisterVerify(a)
  BY <1>11 DEF RegisterVerify, Slot, KeysOf
<1>12. CASE Exchange(a)
  BY <1>12 DEF Exchange, Slot, KeysOf
<1>13. CASE FindAccount(a)
  BY <1>13 DEF FindAccount, Slot, KeysOf
<1>14. CASE FindUser(a)
  BY <1>14 DEF FindUser, Slot, KeysOf
<1>15. CASE CreateUser(a)
  BY <1>15 DEF CreateUser, Slot, KeysOf
<1>16. CASE InsertAccount(a)
  BY <1>16 DEF InsertAccount, Slot, KeysOf
<1>17. CASE Deliver(a)
  BY <1>17 DEF Deliver, Slot, KeysOf
<1>18. QED
  BY <1>1, <1>2, <1>3, <1>4, <1>5, <1>6, <1>7, <1>8, <1>9, <1>10, <1>11, <1>12, <1>13,
     <1>14, <1>15, <1>16, <1>17 DEF Handler
LEMMA LoneStep ==
  ASSUME RelayInv, DeskShape, LoneInv, [RelayNext]_relayVars
  PROVE  LoneInv'
<1> SUFFICES ASSUME NEW b \in Apps, lone'[b] PROVE Undisturbed(b)'
  BY DEF LoneInv
<1> USE DEF LoneInv, DeskShape, RelayInv, RelayShape
<1>1. ASSUME NEW a \in Apps, Handler(a) PROVE Undisturbed(b)'
  <2>1. lone[b] /\ at[a] # "page"
    BY <1>1, HandlerFrame
  <2>2. a = b
    BY <2>1 DEF Undisturbed
  <2>3. QED BY <1>1, <2>1, <2>2, UndisturbedStep
<1>2. ASSUME NEW a \in Apps, NEW e \in Emails, ContinueWithPasskey(a, e)
      PROVE  Undisturbed(b)'
  <2>1. b = a /\ \A c \in Apps : at[c] = "page"
    BY <1>2 DEF ContinueWithPasskey, Start
  <2>2. QED BY <1>2, <2>1 DEF ContinueWithPasskey, Start, Undisturbed, Move
<1>3. ASSUME NEW a \in Apps, NEW p \in Accounts, ContinueWithAccount(a, p)
      PROVE  Undisturbed(b)'
  <2>1. b = a /\ \A c \in Apps : at[c] = "page"
    BY <1>3 DEF ContinueWithAccount, Start
  <2>2. QED BY <1>3, <2>1 DEF ContinueWithAccount, Start, Undisturbed, Move
<1>4. ASSUME NEW a \in Apps, Cut(a) PROVE Undisturbed(b)'
  <2>1. b # a /\ lone[b] /\ at[a] # "page"
    BY <1>4 DEF Cut
  <2>2. QED BY <2>1 DEF Undisturbed
<1>5. ASSUME NEW s \in Slots, ExpireChallenge(s) PROVE Undisturbed(b)'
  BY <1>5 DEF ExpireChallenge
<1>6. ASSUME NEW p, NEW m, ChangeAddress(p, m) PROVE Undisturbed(b)'
  BY <1>6 DEF ChangeAddress, Undisturbed, Slot, KeysOf, tables, desk, past
<1>7. CASE UNCHANGED relayVars
  BY <1>7 DEF relayVars, Undisturbed, Slot, KeysOf
<1>8. QED
  BY <1>1, <1>2, <1>3, <1>4, <1>5, <1>6, <1>7 DEF RelayNext, Handler

LEMMA NumbersStep ==
  ASSUME RelayInv, NumbersInv, [RelayNext]_relayVars
  PROVE  NumbersInv'
<1> USE DEF NumbersInv, RelayInv, RelayShape, Course, Found, tables, desk, bounds, past
<1>1. ASSUME NEW a \in Apps, Handler(a) PROVE NumbersInv'
  <2>1. UNCHANGED <<try, tries>>
    BY <1>1, HandlerFrame DEF RelayInv
  <2>2. CASE RegisterVerify(a)
    <3>1. try[a] \in Tries /\ (users[by[a]] = Nobody \/ users[by[a]] <= tries)
      BY <2>2 DEF RegisterVerify, Addresses
    <3>2. QED BY <2>1, <2>2, <3>1 DEF RegisterVerify
  <2>3. CASE CreateUser(a)
    BY <2>1, <2>3 DEF CreateUser
  <2>4. CASE UNCHANGED <<users, passkeys>>
    BY <2>1, <2>4
  <2>5. RegisterVerify(a) \/ CreateUser(a) \/ UNCHANGED <<users, passkeys>>
    BY <1>1
       DEF Handler, AssertStart, RegisterStart, ListPasskeys, Sign, MakeKey, Consent,
       PutChallenge,
           GetChallenge, DeleteChallenge, AssertVerify, Exchange, FindAccount, FindUser,
           InsertAccount, Deliver
  <2>6. QED BY <2>2, <2>3, <2>4, <2>5
<1>2. ASSUME NEW a \in Apps, NEW w, NEW x, NEW place, Start(a, w, x, place)
      PROVE  NumbersInv'
  <2>1. tries' = tries + 1 /\ tries \in Nat /\ UNCHANGED <<users, passkeys>>
    BY <1>2 DEF Start
  <2>2. \A b \in Apps : try'[b] \in {try[b], tries + 1}
    BY <1>2 DEF Start
  <2>3. \A b \in Apps : try'[b] <= tries'
    BY <2>1, <2>2
  <2>4. \A m \in Addresses : users[m] # Nobody => users[m] \in Nat
    BY DEF People, Tries
  <2>5. \A k \in Tries : k \in Nat /\ (passkeys[k] # Nobody => passkeys[k] \in Nat)
    BY DEF People, Tries
  <2>6. QED BY <2>1, <2>3, <2>4, <2>5
<1>3. ASSUME NEW a \in Apps, Cut(a) PROVE NumbersInv'
  BY <1>3 DEF Cut
<1>4. ASSUME NEW s \in Slots, ExpireChallenge(s) PROVE NumbersInv'
  BY <1>4 DEF ExpireChallenge
<1>5. ASSUME NEW p, NEW m, ChangeAddress(p, m) PROVE NumbersInv'
  BY <1>5 DEF ChangeAddress
<1>6. CASE UNCHANGED relayVars
  BY <1>6 DEF relayVars
<1>7. QED
  BY <1>1, <1>2, <1>3, <1>4, <1>5, <1>6
     DEF RelayNext, Handler, ContinueWithPasskey, ContinueWithAccount

\* What CrossedInv says while nothing has overlapped.
Calm ==
  /\ \A a, b \in Apps : at[a] # "page" /\ at[b] # "page" => a = b
  /\ \A a, b \in Apps : rings[a] = rings[b]
  /\ \A u \in Tries : Usable(u)
  /\ \A a \in Apps : Uncrossed(a)

\* What MakeKey leaves on an authenticator.
Remade(a, b) == {r \in rings[b] : r[1] # salts[a]} \cup {<<salts[a], try[a]>>}

\* The desktop that signs in.
LEMMA UncrossedStep ==
  ASSUME RelayInv, DeskShape, NumbersInv, synced, Calm, NEW a \in Apps, Handler(a)
  PROVE  Uncrossed(a)' /\ \A b, c \in Apps : rings'[b] = rings'[c]
<1>a. /\ RelayShape /\ Course(a) /\ Found(a) /\ at[a] # "page" /\ Uncrossed(a)
      /\ \A b \in Apps : b # a => at'[b] = at[b]
      /\ Nobody \notin Tries
  BY HandlerFrame, RelayAssumption DEF RelayInv, Calm
<1> USE <1>a
    DEF Uncrossed, Calm, DeskShape, RelayShape, Course, Found, Move, End, tables, desk, bounds, past
<1>1. CASE AssertStart(a)
  BY <1>1 DEF AssertStart, KeysOf
<1>2. CASE RegisterStart(a)
  BY <1>2 DEF RegisterStart, KeysOf
<1>3. CASE ListPasskeys(a)
  BY <1>3 DEF ListPasskeys, KeysOf
<1>4. CASE Sign(a)
  <2> DEFINE own == {k \in offered[a] : <<salts[a], k>> \in rings[a]}
  <2>1. at[a] = "sign" /\ way[a] = "assert" /\ salts[a] \in Tries
    BY <1>4 DEF Sign, People
  <2>2. offered[a] = KeysOf(salts[a]) /\ KeysOf(salts[a]) # {} /\ Usable(salts[a])
    BY <2>1
  <2>3. own # {}
    <3>1. PICK k \in KeysOf(salts[a]) : <<salts[a], k>> \in rings[a]
      BY <2>2 DEF Usable
    <3>2. QED BY <2>2, <3>1
  <2>4. /\ at' = [at EXCEPT ![a] = "consume"]
        /\ UNCHANGED <<users, passkeys, rings, way, by, try, salts, offered, outcome>>
    BY <1>4, <2>3 DEF Sign
  <2> HIDE DEF own
  <2>5. QED BY <2>1, <2>4
<1>5. CASE MakeKey(a)
  <2>1. at[a] = "make" /\ way[a] = "register" /\ offered[a] = {}
    BY <1>5 DEF MakeKey
  <2>2. /\ rings' = [b \in Apps |-> IF synced \/ b = a THEN Remade(a, b) ELSE rings[b]]
        /\ at' = [at EXCEPT ![a] = "consume"]
        /\ UNCHANGED <<users, passkeys, way, by, try, salts, offered, outcome>>
    BY <1>5, <2>1 DEF MakeKey, Remade
  <2>3. \A b, c \in Apps : Remade(a, b) = Remade(a, c)
    BY <2>1 DEF Remade
  <2>4. \A b \in Apps : <<salts[a], try[a]>> \in Remade(a, b)
    BY DEF Remade
  <2>5. \A b \in Apps : rings'[b] = Remade(a, b)
    BY <2>2
  <2>6. (\A b, c \in Apps : rings'[b] = rings'[c]) /\ \A b \in Apps : <<salts[a], try[a]>> \in rings'[b]
    BY ONLY <2>3, <2>4, <2>5
  <2>7. KeysOf(users[by[a]])' = KeysOf(users[by[a]])
    BY <2>2 DEF KeysOf
  <2>8. QED BY <2>1, <2>2, <2>6, <2>7
<1>6. CASE Consent(a)
  BY <1>6 DEF Consent, KeysOf
<1>7. CASE PutChallenge(a)
  BY <1>7 DEF PutChallenge, KeysOf
<1>8. CASE GetChallenge(a)
  BY <1>8 DEF GetChallenge, KeysOf
<1>9. CASE DeleteChallenge(a)
  BY <1>9 DEF DeleteChallenge, KeysOf
<1>10. CASE AssertVerify(a)
  BY <1>10 DEF AssertVerify, KeysOf
<1>11. CASE RegisterVerify(a)
  BY <1>11 DEF RegisterVerify, KeysOf
<1>12. CASE Exchange(a)
  BY <1>12 DEF Exchange, KeysOf
<1>13. CASE FindAccount(a)
  BY <1>13 DEF FindAccount, KeysOf
<1>14. CASE FindUser(a)
  BY <1>14 DEF FindUser, KeysOf
<1>15. CASE CreateUser(a)
  BY <1>15 DEF CreateUser, KeysOf
<1>16. CASE InsertAccount(a)
  BY <1>16 DEF InsertAccount, KeysOf
<1>17. CASE Deliver(a)
  BY <1>17 DEF Deliver, KeysOf
<1>18. QED
  BY <1>1, <1>2, <1>3, <1>4, <1>5, <1>6, <1>7, <1>8, <1>9, <1>10, <1>11, <1>12, <1>13,
     <1>14, <1>15, <1>16, <1>17 DEF Handler

\* Passkeys and authenticators stay in step.
LEMMA UsableStep ==
  ASSUME RelayInv, DeskShape, NumbersInv, synced, Calm, NEW a \in Apps, Handler(a),
         NEW u \in Tries
  PROVE  Usable(u)'
<1>a. /\ RelayShape /\ Course(a) /\ Found(a) /\ Uncrossed(a) /\ Usable(u) /\ at[a] # "page"
      /\ Nobody \notin Tries
  BY HandlerFrame, RelayAssumption DEF RelayInv, Calm
<1>1. CASE RegisterVerify(a)
  <2>1. at[a] = "finish" /\ way[a] = "register" /\ try[a] \in Tries /\ rings' = rings
    BY <1>1, <1>a DEF RegisterVerify, Course
  <2>2. /\ passkeys[try[a]] = Nobody /\ \A b \in Apps : <<users[by[a]], try[a]>> \in rings[b]
    BY <1>a, <2>1 DEF Uncrossed, Found
  <2>3. passkeys' \in {passkeys, [passkeys EXCEPT ![try[a]] = users[by[a]]]}
    BY <1>1 DEF RegisterVerify
  <2>4. \A k \in Tries : k # try[a] => passkeys'[k] = passkeys[k]
    BY <2>3, <1>a DEF RelayShape
  <2>5. CASE passkeys' = passkeys
    BY <1>a, <2>1, <2>5 DEF Usable, KeysOf
  <2>6. CASE passkeys' = [passkeys EXCEPT ![try[a]] = users[by[a]]] /\ users[by[a]] = u
    <3>1. try[a] \in KeysOf(u)'
      BY <1>a, <2>1, <2>6 DEF KeysOf, RelayShape
    <3>2. QED BY <2>1, <2>2, <2>6, <3>1 DEF Usable
  <2>7. CASE passkeys' = [passkeys EXCEPT ![try[a]] = users[by[a]]] /\ users[by[a]] # u
    <3>1. passkeys'[try[a]] # u /\ passkeys[try[a]] # u
      BY <1>a, <2>1, <2>2, <2>7 DEF RelayShape
    <3>2. KeysOf(u)' = KeysOf(u)
      BY <2>4, <3>1 DEF KeysOf
    <3>3. QED BY <1>a, <2>1, <3>2 DEF Usable
  <2>8. QED BY <2>3, <2>5, <2>6, <2>7
<1>2. CASE MakeKey(a)
  <2>1. /\ at[a] = "make" /\ way[a] = "register" /\ salts[a] = users[by[a]]
        /\ KeysOf(salts[a]) = {} /\ passkeys' = passkeys
    BY <1>2, <1>a DEF MakeKey, Course, Found, Uncrossed, tables
  <2>2. KeysOf(u)' = KeysOf(u)
    BY <2>1 DEF KeysOf
  <2>3. CASE u = salts[a]
    BY <2>1, <2>2, <2>3 DEF Usable
  <2>4. CASE u # salts[a]
    <3>1. \A b \in Apps, k \in Tries : <<u, k>> \in rings[b] => <<u, k>> \in rings'[b]
      BY <1>2, <2>4 DEF MakeKey, DeskShape
    <3>2. KeysOf(u) \subseteq Tries
      BY DEF KeysOf
    <3>3. QED BY <1>a, <2>2, <3>1, <3>2 DEF Usable
  <2>5. QED BY <2>3, <2>4
<1>3. CASE UNCHANGED <<passkeys, rings>>
  BY <1>a, <1>3 DEF Usable, KeysOf
<1>4. QED
  BY <1>1, <1>2, <1>3
     DEF Handler, AssertStart, RegisterStart, ListPasskeys, Sign, Consent, PutChallenge,
         GetChallenge, DeleteChallenge, AssertVerify, Exchange, FindAccount, FindUser,
         CreateUser, InsertAccount, Deliver, tables

\* Sign-ins at rest.
LEMMA OutcomeFrame ==
  ASSUME DeskShape, NEW a \in Apps, Handler(a), NEW b \in Apps, b # a
  PROVE  outcome'[b] = outcome[b]
BY DEF Handler, DeskShape, AssertStart, RegisterStart, ListPasskeys, Sign, MakeKey, Consent,
       PutChallenge, GetChallenge, DeleteChallenge, AssertVerify, RegisterVerify, Exchange,
       FindAccount, FindUser, CreateUser, InsertAccount, Deliver, Move, End

LEMMA UsableFrame ==
  ASSUME UNCHANGED <<passkeys, rings>>, NEW u, Usable(u)
  PROVE  Usable(u)'
<1>1. KeysOf(u)' = KeysOf(u)
  BY DEF KeysOf
<1>2. QED BY <1>1 DEF Usable

LEMMA CalmFrame ==
  ASSUME Calm, UNCHANGED <<users, passkeys, rings, way, by, try, salts, offered>>,
         \A b \in Apps : at'[b] \in {at[b], "page"} /\ outcome'[b] \in {outcome[b], "failed"}
  PROVE  Calm'
<1>1. \A u \in Tries : Usable(u)'
  BY UsableFrame DEF Calm
<1>2. ASSUME NEW b \in Apps PROVE Uncrossed(b)'
  <2>1. KeysOf(users[by[b]])' = KeysOf(users[by[b]]) /\ KeysOf(salts[b])' = KeysOf(salts[b])
    BY DEF KeysOf
  <2>2. QED BY <2>1 DEF Calm, Uncrossed
<1>3. QED BY <1>1, <1>2 DEF Calm

\* The number of the next sign-in is in no table.
LEMMA FreshNumber ==
  ASSUME RelayShape, NumbersInv, tries + 1 \in Tries
  PROVE  \A k \in Tries : passkeys[k] # tries + 1 /\ (k = tries + 1 => passkeys[k] = Nobody)
<1>1. \A k \in Tries : passkeys[k] # Nobody => k <= tries /\ passkeys[k] <= tries
  BY DEF NumbersInv
<1>2. tries \in Nat /\ \A k \in Tries : k \in Nat /\ (passkeys[k] = Nobody \/ passkeys[k] \in Nat)
  BY RelayAssumption DEF RelayShape, People, Tries
<1>3. Nobody # tries + 1
  BY RelayAssumption
<1>4. QED BY <1>1, <1>2, <1>3

LEMMA CrossedStep ==
  ASSUME RelayInv, DeskShape, NumbersInv, CrossedInv, [RelayNext]_relayVars
  PROVE  CrossedInv'
<1> USE DEF RelayInv, RelayShape, DeskShape, tables, desk, bounds, past
<1>1. ASSUME NEW a \in Apps, Handler(a) PROVE CrossedInv'
  <2> SUFFICES ASSUME ~crossed', synced' PROVE Calm'
    BY DEF CrossedInv, Calm
  <2>1. /\ synced /\ Calm /\ at[a] # "page" /\ \A b \in Apps : b # a => at'[b] = at[b]
    BY <1>1, HandlerFrame DEF CrossedInv, Calm
  <2>2. \A b \in Apps : b # a => at[b] = "page" /\ at'[b] = "page"
    BY <2>1 DEF Calm
  <2>3. \A b \in Apps : b # a => outcome'[b] = outcome[b]
    BY <1>1, OutcomeFrame
  <2>4. \A b \in Apps : b # a => Uncrossed(b)'
    BY <2>1, <2>2, <2>3 DEF Calm, Uncrossed
  <2>5. Uncrossed(a)' /\ \A b, c \in Apps : rings'[b] = rings'[c]
    BY <1>1, <2>1, UncrossedStep
  <2>6. \A u \in Tries : Usable(u)'
    BY <1>1, <2>1, UsableStep
  <2>7. QED BY <2>2, <2>4, <2>5, <2>6 DEF Calm
<1>2. ASSUME NEW a \in Apps, NEW e \in Emails, ContinueWithPasskey(a, e) PROVE CrossedInv'
  <2> SUFFICES ASSUME ~crossed', synced' PROVE Calm'
    BY DEF CrossedInv, Calm
  <2>1. synced /\ Calm /\ UNCHANGED <<passkeys, rings>> /\ \A b \in Apps : at[b] = "page"
    BY <1>2 DEF ContinueWithPasskey, Start, CrossedInv, Calm
  <2>2. /\ at'[a] = "assertStart" /\ way'[a] = "assert" /\ try'[a] = tries + 1
        /\ outcome'[a] = "none"
        /\ \A b \in Apps : b # a => at'[b] = "page" /\ outcome'[b] = outcome[b]
    BY <1>2, <2>1 DEF ContinueWithPasskey, Start, Move
  <2>3. tries + 1 \in Tries
    BY <1>2, RelayAssumption DEF ContinueWithPasskey, Start, Tries
  <2>4. \A k \in Tries : passkeys[k] # tries + 1 /\ (k = tries + 1 => passkeys[k] = Nobody)
    BY <2>3, FreshNumber
  <2>5. Uncrossed(a)'
    BY <2>1, <2>2, <2>3, <2>4 DEF Uncrossed
  <2>6. \A b \in Apps : b # a => Uncrossed(b)'
    BY <2>1, <2>2 DEF Calm, Uncrossed
  <2>7. \A u \in Tries : Usable(u)'
    BY <2>1, UsableFrame DEF Calm
  <2>8. QED BY <2>1, <2>2, <2>5, <2>6, <2>7 DEF Calm
<1>3. ASSUME NEW a \in Apps, NEW p \in Accounts, ContinueWithAccount(a, p) PROVE CrossedInv'
  <2> SUFFICES ASSUME ~crossed', synced' PROVE Calm'
    BY DEF CrossedInv, Calm
  <2>1. synced /\ Calm /\ UNCHANGED <<passkeys, rings>> /\ \A b \in Apps : at[b] = "page"
    BY <1>3 DEF ContinueWithAccount, Start, CrossedInv, Calm
  <2>2. /\ at'[a] = "put" /\ way'[a] = "oauth" /\ try'[a] = tries + 1
        /\ outcome'[a] = "none"
        /\ \A b \in Apps : b # a => at'[b] = "page" /\ outcome'[b] = outcome[b]
    BY <1>3, <2>1 DEF ContinueWithAccount, Start, Move
  <2>3. tries + 1 \in Tries
    BY <1>3, RelayAssumption DEF ContinueWithAccount, Start, Tries
  <2>4. \A k \in Tries : passkeys[k] # tries + 1 /\ (k = tries + 1 => passkeys[k] = Nobody)
    BY <2>3, FreshNumber
  <2>5. Uncrossed(a)'
    BY <2>1, <2>2, <2>3, <2>4 DEF Uncrossed
  <2>6. \A b \in Apps : b # a => Uncrossed(b)'
    BY <2>1, <2>2 DEF Calm, Uncrossed
  <2>7. \A u \in Tries : Usable(u)'
    BY <2>1, UsableFrame DEF Calm
  <2>8. QED BY <2>1, <2>2, <2>5, <2>6, <2>7 DEF Calm
<1>4. ASSUME NEW a \in Apps, Cut(a) PROVE CrossedInv'
  BY <1>4, CalmFrame DEF Cut, End, Move, CrossedInv, Calm
<1>5. ASSUME NEW s \in Slots, ExpireChallenge(s) PROVE CrossedInv'
  BY <1>5, CalmFrame DEF ExpireChallenge, CrossedInv, Calm
<1>6. ASSUME NEW p, NEW m, ChangeAddress(p, m) PROVE CrossedInv'
  BY <1>6, CalmFrame DEF ChangeAddress, CrossedInv, Calm
<1>7. CASE UNCHANGED relayVars
  BY <1>7, CalmFrame DEF relayVars, CrossedInv, Calm
<1>8. QED
  BY <1>1, <1>2, <1>3, <1>4, <1>5, <1>6, <1>7 DEF RelayNext, Handler

LEMMA InitSignIns == RelayInit => DeskShape /\ LoneInv /\ NumbersInv /\ CrossedInv
<1> SUFFICES ASSUME RelayInit PROVE DeskShape /\ LoneInv /\ NumbersInv /\ CrossedInv
  OBVIOUS
<1>1. DeskShape
  BY DEF RelayInit, DeskShape, Slots
<1>2. LoneInv /\ NumbersInv
  BY RelayAssumption DEF RelayInit, LoneInv, NumbersInv
<1>3. Calm
  <2>1. \A u : KeysOf(u) = {}
    BY DEF RelayInit, KeysOf
  <2>2. QED BY <2>1 DEF RelayInit, Calm, Uncrossed, Usable
<1>4. QED BY <1>1, <1>2, <1>3 DEF CrossedInv, Calm

\* routes/auth: a sign-in that no other one, no lost answer and no expiry comes
\* between succeeds, whatever the ones before it left in cache and tables; and an
\* authenticator that all desktops share refuses only after sign-ins overlapped.
THEOREM LoneSignInAlwaysSucceeds == RelaySpec => []LoneSignInSucceeds
<1>1. LoneInv /\ CrossedInv => LoneSignInSucceeds
  BY DEF LoneInv, Undisturbed, CrossedInv, Uncrossed, LoneSignInSucceeds
<1>2. QED
  BY <1>1, InitRelayInv, NextRelayInv, InitSignIns, DeskShapeStep, LoneStep, NumbersStep,
     CrossedStep, PTL DEF RelaySpec
=============================================================================
