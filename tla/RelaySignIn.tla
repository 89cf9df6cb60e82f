----------------------------- MODULE RelaySignIn -----------------------------
(***************************************************************************)
(* Signing in to the relay by passkey or by an account at GitHub or Google *)
(* (secretbank-relay/src/routes/auth, driven by features/auth and          *)
(* commands/auth.rs).  Each handler is a sequence of single reads and      *)
(* writes of a key-value cache and of SQL statements without a             *)
(* transaction, between which the handlers of other desktops run.  What    *)
(* the desktop does with the session it gets is in module VaultSession.    *)
(***************************************************************************)
EXTENDS Naturals, FiniteSets

CONSTANTS
  Apps,       \* desktops; a handler whose desktop no longer waits is as another's
  Emails,     \* addresses
  Accounts,   \* accounts at the providers
  Nobody,     \* no user; an account that shows no address
  MaxTries,   \* bound: sign-ins begun
  MaxMoves,   \* bound: changes of an account's address
  MaxCuts     \* bound: requests or answers lost, ceremonies left, challenges expired

\* Each sign-in has a number, which also stands for the challenge and the state
\* it is given, the passkey it makes and the user it creates.
Tries     == 1..MaxTries
People    == Tries \cup {Nobody}
Addresses == Emails \cup Accounts        \* an account's own is the synthetic one
Slots     == ({"assert", "register"} \X Emails) \cup Apps
Ways      == {"assert", "register", "oauth"}
Places    == {"page", "assertStart", "registerStart", "create", "list", "put", "sign",
              "make", "browser", "consume", "delete", "finish", "lookup", "find", "link",
              "answer"}

ASSUME RelayAssumption ==
  /\ MaxTries \in Nat /\ MaxMoves \in Nat /\ MaxCuts \in Nat
  /\ Nobody \notin Tries \cup Addresses /\ Emails \cap Accounts = {}

VARIABLES
  users,       \* user table: id by email, which is UNIQUE
  passkeys,    \* passkey table: user by credential
  linked,      \* oauth_account table: user by (provider, provider_id)
  cache,       \* TOKEN_CACHE: challenge by key
  shown,       \* the address each account shows
  rings, synced,        \* the passkey each authenticator has of a user; they are shared
  at, way, by, try,     \* per desktop: place, way, what it signs in with, number
  offered, key,         \* passkeys the relay listed, the one that signed
  got, mail,            \* challenge read, address the user row goes by
  who, salts,           \* user found, user whose salts were sent
  tries, moves, cuts,
  outcome, lone, crossed, answers   \* history: how a sign-in ended, nothing came
                                    \* between, some overlapped, what was answered

tables  == <<users, passkeys, linked>>
desk    == <<by, try, mail>>
bounds  == <<tries, moves, cuts>>
past    == <<lone, crossed, answers>>
relayVars == <<users, passkeys, linked, cache, shown, rings, synced, at, way, by, try,
               offered, key, got, mail, who, salts, tries, moves, cuts,
               outcome, lone, crossed, answers>>

RelayInit ==
  /\ users = [m \in Addresses |-> Nobody] /\ passkeys = [k \in Tries |-> Nobody]
  /\ linked = [p \in Accounts |-> Nobody] /\ cache = [s \in Slots |-> 0]
  /\ shown \in [Accounts -> Emails \cup {Nobody}]
  /\ rings = [a \in Apps |-> {}] /\ synced \in BOOLEAN
  /\ at = [a \in Apps |-> "page"] /\ way = [a \in Apps |-> "assert"]
  /\ by = [a \in Apps |-> Nobody] /\ mail = by /\ try = [a \in Apps |-> 0]
  /\ offered = [a \in Apps |-> {}] /\ key = [a \in Apps |-> 0] /\ got = [a \in Apps |-> 0]
  /\ who = [a \in Apps |-> Nobody] /\ salts = [a \in Apps |-> Nobody]
  /\ tries = 0 /\ moves = 0 /\ cuts = 0
  /\ outcome = [a \in Apps |-> "none"] /\ lone = [a \in Apps |-> FALSE]
  /\ crossed = FALSE /\ answers = {}

Move(a, place) == at' = [at EXCEPT ![a] = place]
End(a, how)    == Move(a, "page") /\ outcome' = [outcome EXCEPT ![a] = how]
Slot(a)        == IF way[a] = "oauth" THEN a ELSE <<way[a], by[a]>>
KeysOf(u)      == {k \in Tries : passkeys[k] = u /\ u # Nobody}

-----------------------------------------------------------------------------
(* The sign-in page and what it waits for.  A passkey and an account that  *)
(* one page tries at once are as two desktops.                             *)

Start(a, w, x, place) ==
  /\ at[a] = "page" /\ tries < MaxTries /\ tries' = tries + 1
  /\ try' = [try EXCEPT ![a] = tries + 1] /\ way' = [way EXCEPT ![a] = w]
  /\ by' = [by EXCEPT ![a] = x] /\ mail' = [mail EXCEPT ![a] = x] /\ Move(a, place)
  /\ outcome' = [outcome EXCEPT ![a] = "none"]
  /\ LET first == \A b \in Apps : at[b] = "page"
     IN  lone' = [b \in Apps |-> b = a /\ first] /\ crossed' = (crossed \/ ~first)
  /\ UNCHANGED <<tables, cache, shown, rings, synced, offered, key, got, who, salts,
                 moves, cuts, answers>>

ContinueWithPasskey(a, e)  == Start(a, "assert", e, "assertStart")
ContinueWithAccount(a, p)  == Start(a, "oauth", p, "put")

\* The authenticator signs with a passkey the relay listed, or refuses.
Sign(a) ==
  /\ at[a] = "sign"
  /\ LET own == {k \in offered[a] : <<salts[a], k>> \in rings[a]}
     IN  IF own = {} THEN End(a, "refused") /\ UNCHANGED key
         ELSE /\ key' = [key EXCEPT ![a] = CHOOSE k \in own : TRUE]
              /\ Move(a, "consume") /\ UNCHANGED outcome
  /\ UNCHANGED <<tables, cache, shown, rings, synced, way, desk, offered, got, who, salts,
                 bounds, past>>

\* It refuses to make one when it has one the relay listed, and otherwise
\* replaces the one it has of the same user.
MakeKey(a) ==
  /\ at[a] = "make"
  /\ LET u == salts[a]
         made(b) == {r \in rings[b] : r[1] # u} \cup {<<u, try[a]>>}
     IN  IF \E k \in offered[a] : <<u, k>> \in rings[a]
           THEN End(a, "refused") /\ UNCHANGED rings
           ELSE /\ rings' = [b \in Apps |-> IF synced \/ b = a THEN made(b) ELSE rings[b]]
                /\ Move(a, "consume") /\ UNCHANGED outcome
  /\ UNCHANGED <<tables, cache, shown, synced, way, desk, offered, key, got, who, salts,
                 bounds, past>>

\* The provider sends the browser back with a code and the state.
Consent(a) ==
  /\ at[a] = "browser" /\ Move(a, "consume")
  /\ UNCHANGED <<tables, cache, shown, rings, synced, way, desk, offered, key, got, who, salts,
                 bounds, outcome, past>>

\* The tokens arrive with the salts of this call or of the one before it.
Deliver(a) ==
  /\ at[a] = "answer" /\ End(a, "in")
  /\ answers' = answers \cup {[by |-> by[a], user |-> who[a], salts |-> salts[a]]}
  /\ UNCHANGED <<tables, cache, shown, rings, synced, way, desk, offered, key, got, who, salts,
                 bounds, lone, crossed>>

-----------------------------------------------------------------------------
(* Passkeys.                                                               *)

\* Without a user or a passkey the page goes on to register.
AssertStart(a) ==
  /\ at[a] = "assertStart"
  /\ LET u == users[by[a]]
     IN  IF u = Nobody
           THEN /\ Move(a, "registerStart") /\ way' = [way EXCEPT ![a] = "register"]
                /\ UNCHANGED salts
           ELSE /\ Move(a, "list") /\ salts' = [salts EXCEPT ![a] = u] /\ UNCHANGED way
  /\ UNCHANGED <<tables, cache, shown, rings, synced, desk, offered, key, got, who, bounds,
                 outcome, past>>

RegisterStart(a) ==
  /\ at[a] = "registerStart"
  /\ LET u == users[by[a]]
     IN  IF u = Nobody
           THEN Move(a, "create") /\ UNCHANGED salts
           ELSE Move(a, "list") /\ salts' = [salts EXCEPT ![a] = u]
  /\ UNCHANGED <<tables, cache, shown, rings, synced, way, desk, offered, key, got, who,
                 bounds, outcome, past>>

\* The passkeys to sign with, or those that exclude an authenticator.
ListPasskeys(a) ==
  /\ at[a] = "list"
  /\ offered' = [offered EXCEPT ![a] = KeysOf(salts[a])]
  /\ IF way[a] = "assert" /\ KeysOf(salts[a]) = {}
       THEN Move(a, "registerStart") /\ way' = [way EXCEPT ![a] = "register"]
       ELSE Move(a, "put") /\ UNCHANGED way
  /\ UNCHANGED <<tables, cache, shown, rings, synced, desk, key, got, who, salts, bounds,
                 outcome, past>>

\* The challenge must be the one that was signed, the passkey one of the address.
AssertVerify(a) ==
  /\ at[a] = "finish" /\ way[a] = "assert"
  /\ LET u == passkeys[key[a]]
     IN  IF got[a] = try[a] /\ u = users[by[a]]
           THEN who' = [who EXCEPT ![a] = u] /\ Move(a, "answer") /\ UNCHANGED outcome
           ELSE End(a, "failed") /\ UNCHANGED who
  /\ UNCHANGED <<tables, cache, shown, rings, synced, way, desk, offered, key, got, salts,
                 bounds, past>>

RegisterVerify(a) ==
  /\ at[a] = "finish" /\ way[a] = "register"
  /\ LET u == users[by[a]]
     IN  IF got[a] = try[a]
           THEN /\ passkeys' = [passkeys EXCEPT ![try[a]] = u]
                /\ who' = [who EXCEPT ![a] = u] /\ Move(a, "answer") /\ UNCHANGED outcome
           ELSE End(a, "failed") /\ UNCHANGED <<passkeys, who>>
  /\ UNCHANGED <<users, linked, cache, shown, rings, synced, way, desk, offered, key, got, salts,
                 bounds, past>>

-----------------------------------------------------------------------------
(* The challenges of all three ways: putChallenge, and consumeChallenge,   *)
(* which is a get and then a delete.                                       *)

PutChallenge(a) ==
  /\ at[a] = "put" /\ cache' = [cache EXCEPT ![Slot(a)] = try[a]]
  /\ Move(a, CASE way[a] = "assert" -> "sign" [] way[a] = "register" -> "make"
               [] way[a] = "oauth" -> "browser")
  /\ UNCHANGED <<tables, shown, rings, synced, way, desk, offered, key, got, who, salts,
                 bounds, outcome, past>>

GetChallenge(a) ==
  /\ at[a] = "consume"
  /\ got' = [got EXCEPT ![a] = cache[Slot(a)]]
  /\ IF got'[a] = 0 THEN End(a, "failed") ELSE Move(a, "delete") /\ UNCHANGED outcome
  /\ UNCHANGED <<tables, cache, shown, rings, synced, way, desk, offered, key, who, salts,
                 bounds, past>>

DeleteChallenge(a) ==
  /\ at[a] = "delete" /\ Move(a, "finish")
  /\ cache' = [cache EXCEPT ![Slot(a)] = 0]
  /\ UNCHANGED <<tables, shown, rings, synced, way, desk, offered, key, got, who, salts,
                 bounds, outcome, past>>

-----------------------------------------------------------------------------
(* OAuth, and the row of a user, which registration creates as well.       *)

\* exchangeCode: who is at the provider, and the verified address shown at the
\* time; without one the account gets a synthetic address of its own.
Exchange(a) ==
  /\ at[a] = "finish" /\ way[a] = "oauth" /\ Move(a, "lookup")
  /\ mail' = [mail EXCEPT ![a] = IF shown[by[a]] = Nobody THEN @ ELSE shown[by[a]]]
  /\ UNCHANGED <<tables, cache, shown, rings, synced, way, by, try, offered, key, got, who,
                 salts, bounds, outcome, past>>

FindAccount(a) ==
  /\ at[a] = "lookup"
  /\ LET u == linked[by[a]]
     IN  IF u = Nobody
           THEN Move(a, "find") /\ UNCHANGED <<who, salts>>
           ELSE /\ who' = [who EXCEPT ![a] = u] /\ salts' = [salts EXCEPT ![a] = u]
                /\ Move(a, "answer")
  /\ UNCHANGED <<tables, cache, shown, rings, synced, way, desk, offered, key, got,
                 bounds, outcome, past>>

CreateWithoutLook(a) ==
  /\ at[a] = "find" /\ Move(a, "create")
  /\ UNCHANGED <<tables, cache, shown, rings, synced, way, desk, offered, key, got, who, salts,
                 bounds, outcome, past>>

FindUser(a) ==
  /\ at[a] = "find"
  /\ LET u == users[mail[a]]
     IN  IF u = Nobody
           THEN Move(a, "create") /\ UNCHANGED <<who, salts>>
           ELSE /\ who' = [who EXCEPT ![a] = u] /\ salts' = [salts EXCEPT ![a] = u]
                /\ Move(a, "link")
  /\ UNCHANGED <<tables, cache, shown, rings, synced, way, desk, offered, key, got,
                 bounds, outcome, past>>

\* createUser: a second INSERT of an address fails, and so does the request.
CreateUser(a) ==
  /\ at[a] = "create"
  /\ IF users[mail[a]] = Nobody
       THEN /\ users' = [users EXCEPT ![mail[a]] = try[a]]
            /\ who' = [who EXCEPT ![a] = try[a]] /\ salts' = [salts EXCEPT ![a] = try[a]]
            /\ Move(a, IF way[a] = "oauth" THEN "link" ELSE "list") /\ UNCHANGED outcome
       ELSE End(a, "failed") /\ UNCHANGED <<users, who, salts>>
  /\ UNCHANGED <<passkeys, linked, cache, shown, rings, synced, way, desk, offered, key, got,
                 bounds, past>>

UpsertAccount(a) ==
  /\ at[a] = "link" /\ Move(a, "answer")
  /\ linked' = [linked EXCEPT ![by[a]] = who[a]]
  /\ UNCHANGED <<users, passkeys, cache, shown, rings, synced, way, desk, offered, key, got, who,
                 salts, bounds, outcome, past>>

\* insertOAuthAccount: likewise for (provider, provider_id).
InsertAccount(a) ==
  /\ at[a] = "link"
  /\ IF linked[by[a]] = Nobody
       THEN /\ linked' = [linked EXCEPT ![by[a]] = who[a]]
            /\ Move(a, "answer") /\ UNCHANGED outcome
       ELSE End(a, "failed") /\ UNCHANGED linked
  /\ UNCHANGED <<users, passkeys, cache, shown, rings, synced, way, desk, offered, key, got, who,
                 salts, bounds, past>>

-----------------------------------------------------------------------------
(* What comes between: a request or its answer is lost, the Worker is cut  *)
(* off, the user leaves; five minutes pass; an account shows another       *)
(* address.                                                                *)

Cut(a) ==
  /\ at[a] # "page" /\ cuts < MaxCuts /\ cuts' = cuts + 1
  /\ End(a, "failed") /\ lone' = [lone EXCEPT ![a] = FALSE]
  /\ UNCHANGED <<tables, cache, shown, rings, synced, way, desk, offered, key, got, who, salts,
                 tries, moves, crossed, answers>>

ExpireChallenge(s) ==
  /\ cache[s] # 0 /\ cuts < MaxCuts /\ cuts' = cuts + 1
  /\ cache' = [cache EXCEPT ![s] = 0] /\ lone' = [a \in Apps |-> FALSE]
  /\ UNCHANGED <<tables, shown, rings, synced, at, way, desk, offered, key, got, who, salts,
                 tries, moves, outcome, crossed, answers>>

ChangeAddress(p, m) ==
  /\ moves < MaxMoves /\ moves' = moves + 1
  /\ m # shown[p] /\ shown' = [shown EXCEPT ![p] = m]
  /\ UNCHANGED <<tables, cache, rings, synced, at, way, desk, offered, key, got, who, salts,
                 tries, cuts, outcome, past>>

RelayNext ==
  \/ \E a \in Apps :
       \/ \E e \in Emails : ContinueWithPasskey(a, e)
       \/ \E p \in Accounts : ContinueWithAccount(a, p)
       \/ AssertStart(a) \/ RegisterStart(a) \/ ListPasskeys(a) \/ Sign(a) \/ MakeKey(a)
       \/ Consent(a) \/ PutChallenge(a)
       \/ GetChallenge(a) \/ DeleteChallenge(a)
       \/ AssertVerify(a) \/ RegisterVerify(a)
       \/ Exchange(a) \/ FindAccount(a) \/ FindUser(a) \/ CreateUser(a) \/ InsertAccount(a)
       \/ Deliver(a) \/ Cut(a)
  \/ \E s \in Slots : ExpireChallenge(s)
  \/ \E p \in Accounts, m \in Emails \cup {Nobody} : ChangeAddress(p, m)

RelaySpec == RelayInit /\ [][RelayNext]_relayVars

-----------------------------------------------------------------------------
(* Properties.                                                             *)

\* All desktops that sign in with one address or one account are given one user
\* and the salts of that user, from which they derive the same enc_key
\* (0002_auth.sql, salt_enc), also when first sign-ins overlap, stop half way,
\* or the account shows another address in between.
SameKeyEverywhere ==
  /\ \A x \in answers : x.user = x.salts
  /\ \A x, y \in answers : x.by = y.by => x.user = y.user

\* Whatever earlier sign-ins left behind, one that nothing disturbs succeeds; an
\* authenticator refuses only where the passkeys are on another one, or after
\* sign-ins that overlapped.
LoneSignInSucceeds ==
  \A a \in Apps : /\ outcome[a] = "failed" => ~lone[a]
                  /\ outcome[a] = "refused" => crossed \/ ~synced

\* Read as a promise of the source; TLC refutes it (see README.md).

\* auth.rs:275, the check that keeps the authenticator and the relay from
\* falling out of step: one that all desktops share can always sign in.
PasskeysUsable ==
  synced /\ (\A a \in Apps : at[a] = "page") =>
    \A e \in Emails, a \in Apps :
      LET keys == KeysOf(users[e])
      IN  keys # {} => \E k \in keys : <<users[e], k>> \in rings[a]
=============================================================================
