--------------------------- MODULE CharterRecovery ---------------------------
(***************************************************************************)
(* The vault charter: what initialize and recovery print for the user      *)
(* (secretbank-charter: a phrase, or three shares of which two suffice),   *)
(* how it is typed in again, and the recovery itself (commands/vault.rs),  *)
(* which replaces charter and password and then records the event in the   *)
(* sidecar file of services/charter_cooldown.rs.  That file, read by       *)
(* vault_unlock before the vault is opened, is changed by reading, changing*)
(* and writing it without a lock; its file operations may be interleaved,  *)
(* may fail, and may be the last of the process.  The vault file is        *)
(* replaced in one step (module AgeVault), and so is the storage behind it *)
(* (module VaultSession).  Module VaultSettings continues vault_unlock.    *)
(***************************************************************************)
EXTENDS Naturals, Sequences, FiniteSets

CONSTANTS
  Tasks,      \* commands that may run at the same time
  Absent,     \* no vault file, no sidecar, no temporary file
  Setups      \* configurations, see Setup

Modes == {"none", "single", "shamir"}

\* windows: the sidecar is removed before the rename; prints: the charters that
\* are asked for, with the papers whose checksum is 0003; polls: whether the
\* scheduler has pollers, or only its restarts are of interest; and bounds.
Setup == [windows : BOOLEAN, prints : SUBSET (Modes \X SUBSET (0..3)), polls : BOOLEAN,
          issues : Nat, edits : Nat, settings : Nat, faults : Nat]

ASSUME CharterAssumption ==
  /\ Setups \subseteq Setup
  /\ Absent \notin Nat \cup [enabled : BOOLEAN, until : BOOLEAN]

VARIABLES
  setup,           \* constant: the bounds
  open,            \* the vault is unlocked
  file,            \* vault.age, by the charter its envelope is for; 0, none
  issues,          \* charters issued so far; each is named by its number
  papers,          \* what the user has been shown and keeps
  draft,           \* per task: the charter it is to return
  sidecar, tmp,    \* the cooldown file and the one it is renamed from
  seen,            \* per task: what it has read of the sidecar, changed
  step, op,        \* per task: step, command
  edits, faults,
  wanted,          \* history: a command has turned the cooldown on, none off since
  due,             \* history: a recovery has started one that is not over
  excused          \* history: the sidecar was read within a write, was lost or could not be read

charter == <<open, file, issues, papers, draft>>
cooldown == <<sidecar, tmp, seen>>
history == <<wanted, due, excused>>
charterVars == <<setup, charter, cooldown, step, op, edits, faults, history>>
-----------------------------------------------------------------------------
(* The charter on paper.                                                   *)

TotalShares == 3
Threshold   == 2
WordCount   == 2   \* words of a phrase or share; the code has six and seven

\* The checksum of the words is a number of four digits, of which only one
\* matters: TotalShares, which the parser also meets in "Share 1 of 3".
Verifiers == {TotalShares, TotalShares + 4}

\* A phrase has index 0.
Paper == [charter : Nat, index : 0..TotalShares, verifier : Verifiers]

NoPaper == [charter |-> 0, index |-> 0, verifier |-> TotalShares]

\* What splitting a typed line at its spaces gives: words, "of", numbers.
Token(kind, n, p) == [kind |-> kind, n |-> n, paper |-> p]
Number(n) == Token("number", n, NoPaper)
Of        == Token("of", 0, NoPaper)
Words(p)  == [k \in 1..WordCount |-> Token("word", k, p)]

\* Charter::formatted: the words and the verifier.
FormattedPhrase(p) == Append(Words(p), Number(p.verifier))

\* ShamirShare::formatted, "Share 1 of 3: ...", and the short form, "1: ...".
FormattedShare(p) == <<Number(p.index), Of, Number(TotalShares)>> \o FormattedPhrase(p)
ShortShare(p)     == <<Number(p.index)>> \o FormattedPhrase(p)

IsNumber(token, n) == token.kind = "number" /\ token.n = n

\* find_share_index: the first number from 1 to 3 with "of" or a word after it.
IndexAt(tokens, i) ==
  /\ i < Len(tokens) /\ tokens[i + 1].kind \in {"of", "word"}
  /\ \E n \in 1..TotalShares : IsNumber(tokens[i], n)

BodyOfAll(tokens, i) == SubSeq(tokens, i + 1, Len(tokens))

\* What follows the index, without "of" and without any number 3.
Kept(tokens, i) ==
  {j \in i + 1..Len(tokens) : tokens[j].kind # "of" /\ ~IsNumber(tokens[j], TotalShares)}

Body(tokens, i) ==
  LET kept == Kept(tokens, i)
      nth(k) == CHOOSE j \in kept : Cardinality({m \in kept : m < j}) = k - 1
  IN  [k \in 1..Cardinality(kept) |-> tokens[nth(k)]]

\* The papers whose words and verifier the tokens are, one at most.
Decoded(tokens) ==
  IF Len(tokens) # WordCount + 1 THEN {}
  ELSE {p \in {tokens[k].paper : k \in {j \in 1..WordCount : tokens[j].kind = "word"}} :
          tokens = FormattedPhrase(p)}

\* Charter::parse and to_secret.
ParsePhrase(tokens) == {p \in Decoded(tokens) : p.index = 0}

\* ShamirShare::parse; the index goes into the checksum.
ParseShare(tokens) ==
  LET at == {i \in DOMAIN tokens : IndexAt(tokens, i)}
  IN  IF at = {} THEN {}
      ELSE LET i == CHOOSE j \in at : \A k \in at : j <= k
           IN  {p \in Decoded(Body(tokens, i)) : IsNumber(tokens[i], p.index)}

\* shamir_combine of shares that have been parsed: two or more shares of one
\* charter give its secret; shares of several give a secret that opens nothing.
Combine(shares) ==
  IF \E a, b \in shares : a.index # b.index THEN {p.charter : p \in shares} ELSE {}

\* parse_recovery_input: the charters that what is typed stands for.
Recovered(mode, typed) ==
  IF mode = "single" THEN {p.charter : p \in UNION {ParsePhrase(ts) : ts \in typed}}
  ELSE IF \E ts \in typed : ParseShare(ts) = {} THEN {}
  ELSE Combine(UNION {ParseShare(ts) : ts \in typed})

\* unwrap_enc_key of the envelope in the header.
Opens(mode, typed) == file # 0 /\ Recovered(mode, typed) = {file}

\* What the user may type from shares, each in its long or its short form.
SharesTyped(shares) ==
  {{FormattedShare(p) : p \in shares \ short} \cup {ShortShare(p) : p \in short} :
     short \in SUBSET shares}

\* CharterMode: no charter, Charter::from_secret, shamir_split.
Printed(n, mode, odd) ==
  LET verifier(i) == IF i \in odd THEN TotalShares ELSE TotalShares + 4
      paper(i)    == [charter |-> n, index |-> i, verifier |-> verifier(i)]
  IN  CASE mode = "none"   -> {}
        [] mode = "single" -> {paper(0)}
        [] mode = "shamir" -> {paper(i) : i \in 1..TotalShares}

-----------------------------------------------------------------------------
(* State.                                                                  *)

Steps == {"idle", "read", "tmp", "remove", "rename", "answer", "check", "open",
          "keys", "queue", "take", "join", "list", "write", "put", "refresh"}
Ops == {"none", "init", "recover", "unlock", "enable", "disable", "clear",
        "set", "save", "drop", "refresh"}
Sidecar == [enabled : BOOLEAN, until : BOOLEAN]
Default == [enabled |-> FALSE, until |-> FALSE]

CharterTypeOK ==
  /\ setup \in Setups /\ open \in BOOLEAN
  /\ file \in 0..issues \cup {Absent} /\ issues \in 0..setup.issues
  /\ papers \subseteq Paper /\ draft \in [Tasks -> SUBSET Paper]
  /\ sidecar \in Sidecar \cup {Absent} /\ tmp \in Sidecar \cup {Absent}
  /\ seen \in [Tasks -> Sidecar]
  /\ step \in [Tasks -> Steps] /\ op \in [Tasks -> Ops]
  /\ edits \in 0..setup.edits /\ faults \in 0..setup.faults
  /\ wanted \in BOOLEAN /\ due \in BOOLEAN /\ excused \in BOOLEAN

CharterInit ==
  /\ setup \in Setups
  /\ open = FALSE /\ file = Absent /\ issues = 0 /\ papers = {}
  /\ draft = [t \in Tasks |-> {}]
  /\ sidecar = Absent /\ tmp = Absent /\ seen = [t \in Tasks |-> Default]
  /\ step = [t \in Tasks |-> "idle"] /\ op = [t \in Tasks |-> "none"]
  /\ edits = 0 /\ faults = 0
  /\ wanted = FALSE /\ due = FALSE /\ excused = FALSE

Idle(t)    == step[t] = "idle"
AllIdle    == \A t \in Tasks : Idle(t)
Goto(t, s) ==
  /\ step' = [step EXCEPT ![t] = s]
  /\ op' = [op EXCEPT ![t] = IF s = "idle" THEN "none" ELSE op[t]]
Fault      == faults < setup.faults /\ faults' = faults + 1

\* A command of the interface starts.
Begin(t, o, s) ==
  Idle(t) /\ op' = [op EXCEPT ![t] = o] /\ step' = [step EXCEPT ![t] = s]

-----------------------------------------------------------------------------
(* vault_init_with_charter and vault_recovery_unlock, up to the new vault. *)

\* The file is written, with the envelope for a new charter or without one,
\* and the storage is replaced by one that is locked.
Issue(t, mode, odd) ==
  /\ issues < setup.issues /\ issues' = issues + 1
  /\ file' = IF mode = "none" THEN 0 ELSE issues + 1
  /\ draft' = [draft EXCEPT ![t] = Printed(issues + 1, mode, odd)]
  /\ open' = FALSE
  /\ UNCHANGED <<setup, papers, cooldown, edits, faults, history>>

InitVault(t, mode, odd) ==
  /\ file = Absent /\ Begin(t, "init", "answer") /\ Issue(t, mode, odd)

\* The papers that are not those of an earlier charter.
Current == {p \in papers : p.charter = file}

\* The dialog is one of the lock screen.  Any other input changes nothing.
Recover(t, mode, odd) ==
  /\ ~open /\ file # Absent /\ Begin(t, "recover", "read")
  /\ \E kept \in SUBSET Current :
       \/ \E p \in kept : Opens("single", {FormattedPhrase(p)})
       \/ \E typed \in SharesTyped(kept) : Opens("shamir", typed)
  /\ Issue(t, mode, odd)

-----------------------------------------------------------------------------
(* charter_cooldown: apply_recovery_event, set_enabled, clear_cooldown.    *)

\* A toggle and the button to clear, both on a page of the open vault.
Edit(t, o) ==
  /\ open /\ o \in {"enable", "disable", "clear"} /\ Begin(t, o, "read")
  /\ edits < setup.edits /\ edits' = edits + 1
  /\ UNCHANGED <<setup, charter, cooldown, faults, history>>

Contents == IF sidecar = Absent THEN Default ELSE sidecar

ChangedAfresh(t, s) ==
  CASE op[t] = "recover" -> [s EXCEPT !.until = s.enabled \/ s.until]
    [] op[t] = "enable"  -> [Default EXCEPT !.enabled = TRUE]
    [] op[t] = "disable" -> Default
    [] op[t] = "clear"   -> [s EXCEPT !.until = FALSE]

\* set_enabled preserves the time of a cooldown.
Changed(t, s) ==
  CASE op[t] = "recover" -> [s EXCEPT !.until = s.enabled \/ s.until]
    [] op[t] = "enable"  -> [s EXCEPT !.enabled = TRUE]
    [] op[t] = "disable" -> [s EXCEPT !.enabled = FALSE]
    [] op[t] = "clear"   -> [s EXCEPT !.until = FALSE]

\* Between the read of a sidecar and the rename of its successor.
Writing(t) == step[t] \in {"tmp", "remove", "rename"}
Meanwhile(t) == \E u \in Tasks \ {t} : Writing(u)

Read(t) ==
  /\ step[t] = "read" /\ Goto(t, "tmp")
  /\ seen' = [seen EXCEPT ![t] = Changed(t, Contents)]
  /\ excused' = (excused \/ Meanwhile(t))
  /\ UNCHANGED <<setup, charter, sidecar, tmp, edits, faults, wanted, due>>

WriteTmp(t) ==
  /\ step[t] = "tmp" /\ Goto(t, IF setup.windows THEN "remove" ELSE "rename")
  /\ tmp' = seen[t]
  /\ UNCHANGED <<setup, charter, sidecar, seen, edits, faults, history>>

RemoveOld(t) ==
  /\ step[t] = "remove" /\ Goto(t, "rename") /\ sidecar' = Absent
  /\ UNCHANGED <<setup, charter, tmp, seen, edits, faults, history>>

Rename(t) ==
  /\ step[t] = "rename" /\ tmp # Absent /\ Goto(t, "answer")
  /\ sidecar' = tmp /\ tmp' = Absent
  /\ wanted' = ((wanted /\ op[t] # "disable") \/ op[t] = "enable")
  /\ due' = ((due /\ op[t] \in {"recover", "enable"}) \/ (op[t] = "recover" /\ wanted))
  /\ UNCHANGED <<setup, charter, seen, edits, faults, excused>>

\* Any of these steps fails, the rename also because the temporary file is
\* gone: an error is returned, and no charter.
CooldownFails(t) ==
  /\ Goto(t, "idle") /\ draft' = [draft EXCEPT ![t] = {}]
  /\ \/ step[t] = "rename" /\ tmp = Absent /\ UNCHANGED faults
     \/ step[t] \in {"read", "tmp", "rename"} /\ Fault
  /\ seen' = [seen EXCEPT ![t] = Default]
  /\ excused' = (excused \/ (setup.windows /\ step[t] = "rename"))
  /\ UNCHANGED <<setup, open, file, issues, papers, sidecar, tmp, edits, wanted, due>>

\* The charter is shown, once; the toggle shows its new state.
Answer(t) ==
  /\ step[t] = "answer" /\ Goto(t, "idle")
  /\ papers' = papers \cup draft[t] /\ draft' = [draft EXCEPT ![t] = {}]
  /\ seen' = [seen EXCEPT ![t] = Default]
  /\ UNCHANGED <<setup, open, file, issues, sidecar, tmp, edits, faults, history>>

\* A recovery under way has counted its seven days from now, and the write of
\* a sidecar takes less.
Counted(t) == op[t] = "recover" /\ Writing(t) /\ seen[t].enabled

\* The seven days that have been counted before are over.
Past(s) == IF s = Absent THEN s ELSE [s EXCEPT !.until = FALSE]
Expire ==
  /\ due \/ Contents.until
  /\ due' = FALSE /\ sidecar' = Past(sidecar)
  /\ seen' = [t \in Tasks |-> IF Counted(t) THEN seen[t] ELSE Past(seen[t])]
  /\ tmp' = IF \E t \in Tasks : Counted(t) /\ step[t] # "tmp" /\ tmp = seen[t]
            THEN tmp ELSE Past(tmp)
  /\ UNCHANGED <<setup, charter, step, op, edits, faults, wanted, excused>>

-----------------------------------------------------------------------------
(* vault_unlock up to the vault.                                           *)

Unlock(t) ==
  /\ ~open /\ file # Absent /\ Begin(t, "unlock", "check")
  /\ UNCHANGED <<setup, charter, cooldown, edits, faults, history>>

\* check_active
Active(s) == s.enabled /\ s.until

\* check_active; only Ok(Some(_)) refuses.
Check(t) ==
  /\ step[t] = "check"
  /\ \/ /\ Goto(t, IF Active(Contents) THEN "idle" ELSE "open")
        /\ excused' = (excused \/ Meanwhile(t)) /\ UNCHANGED faults
     \/ Fault /\ Goto(t, "open") /\ excused' = TRUE
  /\ UNCHANGED <<setup, charter, cooldown, edits, wanted, due>>

WrongPassword(t) ==
  /\ step[t] = "open" /\ Goto(t, "idle")
  /\ UNCHANGED <<setup, charter, cooldown, edits, faults, history>>

Open(t) ==
  /\ step[t] = "open" /\ Goto(t, "keys") /\ open' = TRUE
  /\ UNCHANGED <<setup, file, issues, papers, draft, cooldown, edits, faults, history>>

\* The process ends, and is started again.  On Windows the sidecar may be
\* missing then.
Restarted ==
  /\ Fault /\ open' = FALSE
  /\ step' = [t \in Tasks |-> "idle"] /\ op' = [t \in Tasks |-> "none"]
  /\ draft' = [t \in Tasks |-> {}] /\ seen' = [t \in Tasks |-> Default]
  /\ excused' = (excused \/ (setup.windows /\ \E t \in Tasks : step[t] = "rename"))
  /\ UNCHANGED <<setup, file, issues, papers, sidecar, tmp, edits, wanted, due>>

CharterStep(t) ==
  \/ \E p \in setup.prints : InitVault(t, p[1], p[2]) \/ Recover(t, p[1], p[2])
  \/ \E o \in Ops : Edit(t, o)
  \/ Read(t) \/ WriteTmp(t) \/ RemoveOld(t) \/ Rename(t) \/ CooldownFails(t) \/ Answer(t)
  \/ Unlock(t) \/ Check(t) \/ WrongPassword(t)

-----------------------------------------------------------------------------
(* Properties.                                                             *)

\* Whatever is between them, a charter that vault.age was sealed for reaches the
\* user: nothing failed, so what initialize or recovery issued is on paper, and
\* the phrase, or any two shares or three, typed in either form, open the vault.
\* A share whose checksum is 0003 is not read back (ShamirShare::parse).
CharterKept ==
  file \in Nat \ {0} /\ (\A t \in Tasks : \A p \in draft[t] : p.charter # file) =>
    /\ faults = 0 /\ ~excused => Current # {}
    /\ \A p \in Current : p.index = 0 => Opens("single", {FormattedPhrase(p)})
    /\ \A kept \in SUBSET {p \in Current : p.index # 0 /\ p.verifier # TotalShares} :
         Cardinality(kept) >= Threshold =>
           \A typed \in SharesTyped(kept) : Opens("shamir", typed)

\* "any 2 reconstruct" (shamir.rs).
AnyTwoReconstruct ==
  \A kept \in SUBSET {p \in Current : p.index # 0} :
    Cardinality(kept) >= Threshold =>
      \A typed \in SharesTyped(kept) : Opens("shamir", typed)

\* Once a recovery has recorded itself while the cooldown was on, no unlock gets
\* past the check until the seven days are over or the owner ends them, whatever
\* toggles, crashes, locks and failed writes there are in between; unless the
\* sidecar was read while another command was writing it, or could not be read,
\* or, on Windows, was removed by a write that came to no end.
CooldownHolds ==
  [][due => \A t \in Tasks : step[t] = "check" /\ step'[t] = "open" => excused']_charterVars

\* The same without the exceptions.
CooldownAlwaysHolds ==
  [][due => \A t \in Tasks : ~(step[t] = "check" /\ step'[t] = "open")]_charterVars

\* A failed write of the sidecar does not take the new charter from the user.
IssuedIsShown ==
  file \in Nat \ {0} /\ (\A t \in Tasks : \A p \in draft[t] : p.charter # file) =>
    Current # {}
=============================================================================
