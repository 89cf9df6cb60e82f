--------------------------- MODULE SecurityChecks ---------------------------
(***************************************************************************)
(* The security checks of commands/security_check.rs: run_security_check   *)
(* lists the credentials, reads their values from the vault, looks for     *)
(* weak, reused and unprotected ones (secretbank-feeds/security_check.rs), *)
(* asks a directory of two-factor sites and, on request, the range search  *)
(* of leaked passwords, and replaces the alerts of each credential in a    *)
(* transaction (storage: repositories/security_alert.rs).  Checks overlap  *)
(* with each other and with rotations, deletions, dismissals and the lock. *)
(***************************************************************************)
EXTENDS Naturals

CONSTANTS
  Tasks,        \* checks that may run at the same time
  Credentials,  \* credential ids
  Values,       \* values a credential may have
  Weak,         \* values that is_weak_password finds weak
  Leaked,       \* values that the range search has seen
  Insecure,     \* credentials whose URL is http://
  Unguarded,    \* credentials of a site with TOTP that have no TOTP themselves
  Unread,       \* no value: the vault has none, or is locked
  MaxRuns,      \* bound: checks begun
  MaxEdits,     \* bound: what the user does meanwhile
  MaxFaults     \* bound: failing statements and requests

ASSUME CheckAssumption ==
  /\ Weak \subseteq Values /\ Leaked \subseteq Values /\ Unread \notin Values
  /\ Insecure \subseteq Credentials /\ Unguarded \subseteq Credentials
  /\ MaxRuns \in Nat /\ MaxEdits \in Nat /\ MaxFaults \in Nat

VARIABLES
  credentials, value,       \* credentials, and their values in the vault
  open,                     \* the vault is unlocked
  alerts, dismissedAlerts,  \* security_alerts; those with dismissed_at
  check,                    \* per task: the check
  runs, userEdits, checkFaults,
  revived,                  \* history: rows undismissed by the user
  quiet                     \* history: "no", or what the last check that nothing
                            \* disturbed has asked: "local" or "leaks"

alertTables == <<credentials, value, alerts, dismissedAlerts>>
checksVars == <<alertTables, open, check, runs, userEdits, checkFaults, revived, quiet>>

Kinds == {"weak_password", "reused_password", "unsecured_website", "missing_two_factor",
          "compromised_password"}
Alerts == [cred : Credentials, kind : Kinds]
\* A row has a fresh id: it tells which check wrote it.
Rows  == [run : 1..MaxRuns, cred : Credentials, kind : Kinds]
Check == [step : {"idle", "list", "read", "local", "leaks", "replace"}, run : 0..MaxRuns,
          force : BOOLEAN, snap : SUBSET Credentials,
          got : [Credentials -> Values \cup {Unread}],
          found : SUBSET Alerts, left : SUBSET Credentials]
IdleCheck == [step |-> "idle", run |-> 0, force |-> FALSE, snap |-> {},
              got |-> [c \in Credentials |-> Unread], found |-> {}, left |-> {}]

ChecksTypeOK ==
  /\ credentials \subseteq Credentials /\ value \in [Credentials -> Values]
  /\ open \in BOOLEAN
  /\ alerts \subseteq Rows /\ (\A r \in alerts : r.cred \in credentials)
  /\ dismissedAlerts \subseteq alerts
  /\ check \in [Tasks -> Check]
  /\ runs \in 0..MaxRuns /\ userEdits \in 0..MaxEdits /\ checkFaults \in 0..MaxFaults
  /\ revived \subseteq Rows /\ quiet \in {"no", "local", "leaks"}

ChecksInit ==
  /\ credentials = Credentials /\ value \in [Credentials -> Values] /\ open = TRUE
  /\ alerts = {} /\ dismissedAlerts = {}
  /\ check = [t \in Tasks |-> IdleCheck]
  /\ runs = 0 /\ userEdits = 0 /\ checkFaults = 0
  /\ revived = {} /\ quiet = "no"

CheckAt(t, step) == check[t].step = step
Active == alerts \ dismissedAlerts
Alone(t) == \A u \in Tasks \ {t} : CheckAt(u, "idle")

-----------------------------------------------------------------------------
(* The local checks.                                                       *)

ReusedUnpaired(snap, got) ==
  {c \in snap : got[c] # Unread /\ \E d \in Credentials : got[d] = got[c]}

\* detect_reused_passwords: groups of two and more by fingerprint.
Reused(snap, got) ==
  {c \in snap : got[c] # Unread /\ \E d \in snap \ {c} : got[d] = got[c]}

\* Steps 5 to 7; supported is what the two-factor directory has answered.
Local(snap, got, supported) ==
  [cred : {c \in snap : got[c] \in Weak}, kind : {"weak_password"}]
    \cup [cred : Reused(snap, got), kind : {"reused_password"}]
    \cup [cred : snap \cap Insecure, kind : {"unsecured_website"}]
    \cup [cred : snap \cap supported, kind : {"missing_two_factor"}]

-----------------------------------------------------------------------------
(* run_security_check.                                                     *)

BeginCheck(t, force) ==
  /\ CheckAt(t, "idle") /\ runs < MaxRuns /\ open
  /\ runs' = runs + 1
  /\ check' = [check EXCEPT ![t] = [IdleCheck EXCEPT !.step = "list", !.run = runs + 1,
                                                     !.force = force]]
  /\ quiet' = IF ~Alone(t) THEN "no" ELSE IF force THEN "leaks" ELSE "local"
  /\ UNCHANGED <<alertTables, open, userEdits, checkFaults, revived>>

List(t) ==
  /\ CheckAt(t, "list")
  /\ check' = [check EXCEPT ![t].step = "read", ![t].snap = credentials]
  /\ UNCHANGED <<alertTables, open, runs, userEdits, checkFaults, revived, quiet>>

\* One read lock for all values.  The vault may be locked by now: then no value
\* is read, and the check goes on.
Read(t) ==
  /\ CheckAt(t, "read")
  /\ check' = [check EXCEPT ![t].step = "local", ![t].got =
       [c \in Credentials |->
          IF open /\ c \in check[t].snap \cap credentials THEN value[c] ELSE Unread]]
  /\ UNCHANGED <<alertTables, open, runs, userEdits, checkFaults, revived, quiet>>

\* The directory may be out of reach: then no site supports TOTP.
LocalChecks(t) ==
  /\ CheckAt(t, "local")
  /\ \E supported \in {Unguarded, {}} :
       /\ \/ supported = Unguarded /\ UNCHANGED <<checkFaults, quiet>>
          \/ checkFaults < MaxFaults /\ checkFaults' = checkFaults + 1 /\ quiet' = "no"
       /\ check' = [check EXCEPT
            ![t].found = Local(check[t].snap, check[t].got, supported),
            ![t].left = check[t].snap,
            ![t].step = IF check[t].force THEN "leaks"
                        ELSE IF check[t].snap = {} THEN "idle" ELSE "replace"]
  /\ UNCHANGED <<alertTables, open, runs, userEdits, revived>>

\* Up to ten requests at a time; a failed one counts as nothing found.
Leaks(t) ==
  /\ CheckAt(t, "leaks")
  /\ \E failed \in SUBSET {c \in check[t].snap : check[t].got[c] # Unread} :
       /\ \/ failed = {} /\ UNCHANGED <<checkFaults, quiet>>
          \/ /\ failed # {} /\ checkFaults < MaxFaults
             /\ checkFaults' = checkFaults + 1 /\ quiet' = "no"
       /\ check' = [check EXCEPT
            ![t].found = @ \cup [cred : {c \in check[t].snap \ failed : check[t].got[c] \in Leaked},
                                 kind : {"compromised_password"}],
            ![t].step = IF check[t].snap = {} THEN "idle" ELSE "replace"]
  /\ UNCHANGED <<alertTables, open, runs, userEdits, revived>>

Found(t, c) == {a \in check[t].found : a.cred = c}
NewRows(t, c) == [run : {check[t].run}, cred : {c}, kind : {a.kind : a \in Found(t, c)}]

WrittenOver(t, c) == {r \in alerts : r.cred # c} \cup NewRows(t, c)
WrittenBeside(t, c) == alerts \cup NewRows(t, c)

\* replace_alerts_for_credential: the active rows go, dismissed ones stay.
Written(t, c) == {r \in alerts : r.cred # c \/ r \in dismissedAlerts} \cup NewRows(t, c)

\* One transaction per credential, in no order.  One that fails, as when the
\* credential is gone, ends the check.
Replace(t) ==
  /\ CheckAt(t, "replace")
  /\ \E c \in check[t].left :
       LET fails == c \notin credentials /\ Found(t, c) # {} IN
       \/ /\ ~fails /\ alerts' = Written(t, c)
          /\ dismissedAlerts' = dismissedAlerts \cap Written(t, c)
          /\ check' = [check EXCEPT ![t] = IF check[t].left = {c} THEN IdleCheck
                                           ELSE [check[t] EXCEPT !.left = @ \ {c}]]
          /\ UNCHANGED <<checkFaults, quiet>>
       \/ /\ \/ fails /\ UNCHANGED checkFaults
             \/ checkFaults < MaxFaults /\ checkFaults' = checkFaults + 1
          /\ check' = [check EXCEPT ![t] = IdleCheck] /\ quiet' = "no"
          /\ UNCHANGED <<alerts, dismissedAlerts>>
  /\ UNCHANGED <<credentials, value, open, runs, userEdits, revived>>

-----------------------------------------------------------------------------
(* What the user does meanwhile.                                           *)

UserEdit == userEdits < MaxEdits /\ userEdits' = userEdits + 1

\* dismiss_security_alert and undismiss_security_alert, by the id of a row.
DismissAlert(r) ==
  /\ UserEdit /\ r \in Active /\ dismissedAlerts' = dismissedAlerts \cup {r}
  /\ quiet' = "no"
  /\ UNCHANGED <<credentials, value, alerts, open, check, runs, checkFaults, revived>>

Undismiss(r) ==
  /\ UserEdit /\ r \in dismissedAlerts /\ dismissedAlerts' = dismissedAlerts \ {r}
  /\ revived' = revived \cup {r} /\ quiet' = "no"
  /\ UNCHANGED <<credentials, value, alerts, open, check, runs, checkFaults>>

\* Rotation and deletion of a credential (module CredentialStore); a row goes
\* with its credential.
Rotate(c, v) ==
  /\ UserEdit /\ open /\ c \in credentials /\ v # value[c]
  /\ value' = [value EXCEPT ![c] = v] /\ quiet' = "no"
  /\ UNCHANGED <<credentials, alerts, dismissedAlerts, open, check, runs, checkFaults, revived>>

DeleteKeepingAlerts(c) ==
  /\ UserEdit /\ open /\ c \in credentials /\ credentials' = credentials \ {c} /\ quiet' = "no"
  /\ UNCHANGED <<value, alerts, dismissedAlerts, open, check, runs, checkFaults, revived>>

Delete(c) ==
  /\ UserEdit /\ open /\ c \in credentials /\ credentials' = credentials \ {c}
  /\ alerts' = {r \in alerts : r.cred # c} /\ dismissedAlerts' = dismissedAlerts \cap alerts'
  /\ quiet' = "no"
  /\ UNCHANGED <<value, open, check, runs, checkFaults, revived>>

LockOrUnlock ==
  /\ UserEdit /\ open' = ~open /\ quiet' = "no"
  /\ UNCHANGED <<alertTables, check, runs, checkFaults, revived>>

CheckStep(t) == List(t) \/ Read(t) \/ LocalChecks(t) \/ Leaks(t) \/ Replace(t)

ChecksNext ==
  \/ \E t \in Tasks : CheckStep(t) \/ \E force \in BOOLEAN : BeginCheck(t, force)
  \/ \E r \in Rows : DismissAlert(r) \/ Undismiss(r)
  \/ \E c \in Credentials : Delete(c) \/ \E v \in Values : Rotate(c, v)
  \/ LockOrUnlock

ChecksSpec == ChecksInit /\ [][ChecksNext]_checksVars

-----------------------------------------------------------------------------
(* Properties.                                                             *)

AllChecksIdle == \A t \in Tasks : CheckAt(t, "idle")

\* What there is to find about a credential, by definition.
True(c, kind) ==
  CASE kind = "weak_password"        -> value[c] \in Weak
    [] kind = "reused_password"      -> \E d \in credentials : d # c /\ value[d] = value[c]
    [] kind = "unsecured_website"    -> c \in Insecure
    [] kind = "missing_two_factor"   -> c \in Unguarded
    [] kind = "compromised_password" -> quiet = "leaks" /\ value[c] \in Leaked

\* After a check that nothing has disturbed, whatever earlier checks and
\* dismissals left in the table, the active alerts are what there is to find.
QuietCheckExact ==
  AllChecksIdle /\ quiet # "no" =>
    \A c \in credentials, kind \in Kinds :
      True(c, kind) <=> \E r \in Active : r.cred = c /\ r.kind = kind

\* However checks overlap, fail half way or are cut short by a deletion, the
\* active alerts of a credential come from one check, but for those that the user
\* has undismissed.
AlertsOfOneCheck ==
  \A r, s \in Active \ revived : r.cred = s.cred => r.run = s.run

\* A dismissed alert stays dismissed through every check (security_alert.rs:9),
\* until the user undismisses it or the credential goes.
DismissedAlertStays ==
  [][\A r \in dismissedAlerts : \/ r \in dismissedAlerts' \/ r.cred \notin credentials'
                                \/ r \in revived' /\ r \in alerts']_checksVars

\* Read as a promise of the source; TLC refutes it (see README.md).

\* A check keeps the alerts of a credential whose value it could not read
\* (commands/security_check.rs, step 9).
UnreadKept ==
  [][\A t \in Tasks : \A c \in check[t].left \ check'[t].left :
       CheckAt(t, "replace") /\ check[t].got[c] = Unread /\ c \in credentials
         => {r \in Active : r.cred = c /\ r.kind \in {"weak_password", "reused_password"}}
              \subseteq alerts']_checksVars
=============================================================================
