---------------------------- MODULE IncidentFeeds ----------------------------
(***************************************************************************)
(* The incident pollers of services/feed_scheduler.rs: one task per feed,  *)
(* each with a ticker and a circuit breaker, beside the manual refresh of  *)
(* commands/incidents.rs; the incident and incident_match tables they fill *)
(* (storage/sqlite/repositories/incident.rs); and the shutdown of the      *)
(* scheduler when the application exits (lib.rs).  Polls interleave at     *)
(* every statement and request.  Feeds are read over clients               *)
(* (secretbank-feeds/{rss,nvd,ghsa,hibp}.rs) that may fail, or, without a  *)
(* timeout, never answer.  An entry is normalised (feed_normalize.rs) and  *)
(* matched (secretbank-feeds/matcher.rs) with the credentials; the alerts  *)
(* are read by the incident list, by the panel of a credential, and by the *)
(* banner that the extension shows on a site.                              *)
(***************************************************************************)
EXTENDS Naturals

CONSTANTS
  Items,      \* entries the feeds publish, by source id
  SourceOf,   \* Items -> Sources
  Creds,      \* credential ids
  Entry,      \* Items -> [slug, domain, mentions, severe]: what an entry says
  Issuers, Hosts, None,
  Owner,      \* Creds -> Issuers
  Site,       \* Creds -> host of the credential's address, or None
  Domains,    \* Issuers -> sets of hosts
  Under,      \* pairs of hosts, of which the first is the second or a subdomain
  Setups,     \* configurations: [pollers spawned, and bounds: faults, edits]
  Skips,      \* Sources -> ticks that fall into a cooldown of one hour
  Answers     \* whether every request to nvd, ghsa and hibp ends

Sources == {"rss", "nvd", "ghsa", "hibp"}

ASSUME FeedAssumption ==
  /\ SourceOf \in [Items -> Sources]
  /\ Entry \in [Items -> [slug : Issuers \cup {None}, domain : Hosts \cup {None},
                         mentions : SUBSET Issuers, severe : BOOLEAN]]
  /\ Owner \in [Creds -> Issuers] /\ Site \in [Creds -> Hosts \cup {None}]
  /\ Domains \in [Issuers -> SUBSET Hosts]
  /\ Under \subseteq Hosts \X Hosts /\ \A h \in Hosts : <<h, h>> \in Under
  /\ Setups \subseteq [pollers : SUBSET Sources, faults : Nat, edits : Nat]
  /\ Skips \in [Sources -> Nat] /\ Answers \in BOOLEAN

VARIABLES
  setup,                  \* constant: pollers spawned, failures and edits there may be
  listed, old,            \* entries published; those older than their feed's last tick
  creds, gone,            \* credentials, and those deleted
  rows, active, dismissed,\* incidents; their matches, and those dismissed
  poll,                   \* per poller, and for the refresh: what it is doing
  fails, cool,            \* per poller: consecutive failures, ticks still to skip
  exit,                   \* "no", "asked", "cancelled", "ended"
  faults,                 \* failed statements and requests
  edits,                  \* credentials added or deleted, dismissals, refreshes
  shown,                  \* what list and panels read at the last announcement
  snapOf,                 \* history: credentials that the poll storing a row knew
  silent                  \* history: a count or a statement was lost after a store

feeds   == <<listed, old>>
tables  == <<creds, gone, rows, active, dismissed>>
breaker == <<fails, cool>>
spawned == setup.pollers
vars == <<setup, feeds, tables, poll, breaker, exit, faults, edits, shown, snapOf, silent>>

Windowed == {"nvd", "ghsa"}              \* read what changed since one interval ago
Polls    == Sources \cup {"refresh"}
Pairs    == Items \X Creds
Poll == [step : {"idle", "fetch", "insert", "match", "stopped"},
         src : Sources, rest : SUBSET Sources, since : SUBSET Items, snap : SUBSET Creds,
         left : SUBSET Items, todo : SUBSET Pairs, count : Nat]
Idle == [step |-> "idle", src |-> "rss", rest |-> {}, since |-> {}, snap |-> {},
         left |-> {}, todo |-> {}, count |-> 0]

TypeOK ==
  /\ setup \in Setups
  /\ listed \subseteq Items /\ old \subseteq Items
  /\ creds \subseteq Creds /\ gone \subseteq Creds \ creds /\ rows \subseteq Items
  /\ active \subseteq Pairs /\ dismissed \subseteq Pairs /\ active \cap dismissed = {}
  /\ \A m \in active \cup dismissed : m[1] \in rows /\ m[2] \in creds
  /\ poll \in [Polls -> Poll]
  /\ fails \in [Sources -> Nat] /\ cool \in [Sources -> Nat]
  /\ exit \in {"no", "asked", "cancelled", "ended"}
  /\ faults \in 0..setup.faults /\ edits \in 0..setup.edits
  /\ shown \in [list : SUBSET (Items \cup Pairs), panels : SUBSET Pairs]
  /\ snapOf \in [Items -> SUBSET Creds] /\ silent \in BOOLEAN

Init ==
  /\ setup \in Setups
  /\ listed = {} /\ old = {}
  /\ creds \in SUBSET Creds /\ gone = {}
  /\ rows = {} /\ active = {} /\ dismissed = {}
  /\ poll = [p \in Polls |-> Idle]
  /\ fails = [s \in Sources |-> 0] /\ cool = [s \in Sources |-> 0]
  /\ exit = "no" /\ faults = 0 /\ edits = 0
  /\ shown = [list |-> {}, panels |-> {}] /\ snapOf = [i \in Items |-> {}] /\ silent = FALSE

At(p, step)  == poll[p].step = step
Set(p, r)    == poll' = [poll EXCEPT ![p] = r]
Goto(p, step) == Set(p, [poll[p] EXCEPT !.step = step])
Fault == faults < setup.faults /\ faults' = faults + 1
Edit  == edits < setup.edits /\ edits' = edits + 1
Entries(s) == {i \in listed : SourceOf[i] = s}

-----------------------------------------------------------------------------
(* The world: feeds publish, the user edits.                               *)

Publish(i) ==
  /\ i \notin listed /\ SourceOf[i] \in spawned /\ exit = "no"
  /\ listed' = listed \cup {i}
  /\ UNCHANGED <<setup, old, tables, poll, breaker, exit, faults, edits, shown, snapOf, silent>>

AddCredential(c) ==
  /\ Edit /\ c \notin creds \cup gone /\ exit = "no" /\ creds' = creds \cup {c}
  /\ UNCHANGED <<setup, feeds, gone, rows, active, dismissed, poll, breaker, exit, faults, shown,
                 snapOf, silent>>

DeleteKeepsMatches(c) ==
  /\ Edit /\ c \in creds /\ exit = "no"
  /\ creds' = creds \ {c} /\ gone' = gone \cup {c}
  /\ UNCHANGED <<setup, feeds, rows, active, dismissed, poll, breaker, exit, faults, shown,
                 snapOf, silent>>

\* incident_match references credential with ON DELETE CASCADE; a deleted
\* credential does not come back under the same id.
DeleteCredential(c) ==
  /\ Edit /\ c \in creds /\ exit = "no"
  /\ creds' = creds \ {c} /\ gone' = gone \cup {c}
  /\ active' = {m \in active : m[2] # c} /\ dismissed' = {m \in dismissed : m[2] # c}
  /\ UNCHANGED <<setup, feeds, rows, poll, breaker, exit, faults, shown, snapOf, silent>>

\* dismiss_matches_for_incident: every match that is active now.
Dismiss(i) ==
  /\ Edit /\ exit = "no" /\ \E c \in Creds : <<i, c>> \in active
  /\ active' = {m \in active : m[1] # i}
  /\ dismissed' = dismissed \cup (active \ active')
  /\ UNCHANGED <<setup, feeds, creds, gone, rows, poll, breaker, exit, faults, shown, snapOf, silent>>

\* The computer sleeps, or a poll outlasts the interval: the wall clock, by
\* which the windows are asked for, has run on without a tick.
Sleep ==
  /\ Fault /\ exit = "no"
  /\ old' = {i \in listed : SourceOf[i] \in Windowed}
  /\ UNCHANGED <<setup, listed, tables, poll, breaker, exit, edits, shown, snapOf, silent>>

-----------------------------------------------------------------------------
(* The pollers: run_rss_poller, run_nvd_poller, run_ghsa_poller and        *)
(* run_hibp_breaches_poller are one loop.                                  *)

\* Breaker::is_open.
IsOpen(p) == cool[p] > 0

OnSuccess(p) == fails' = [fails EXCEPT ![p] = 0] /\ cool' = [cool EXCEPT ![p] = 0]

\* Failures are counted on; after the cooldown a single one opens it again.
OnFailure(p) ==
  /\ fails' = [fails EXCEPT ![p] = IF @ < 3 THEN @ + 1 ELSE @]
  /\ cool' = [cool EXCEPT ![p] = IF fails'[p] = 3 THEN Skips[p] ELSE @]

\* A refresh that fails in a later source has stored what the earlier ones
\* gave it, and returns neither their count nor an event.
Fail(p) ==
  /\ Fault /\ Set(p, Idle)
  /\ IF p = "refresh" THEN UNCHANGED breaker ELSE OnFailure(p)
  /\ silent' = (silent \/ poll[p].count > 0)

\* A poll first reads issuers and credentials, once.
Start(p, r) ==
  \/ /\ Set(p, [r EXCEPT !.step = "fetch", !.snap = creds])
     /\ UNCHANGED <<breaker, faults, silent>>
  \/ Fail(p)

TickStuck(p) ==
  /\ p \in spawned /\ At(p, "idle")
  /\ IF IsOpen(p) THEN UNCHANGED <<poll, breaker, faults, silent>>
                  ELSE Start(p, [Idle EXCEPT !.src = p, !.since = old \cap Entries(p)])
  /\ old' = old \cup (IF p \in Windowed THEN Entries(p) ELSE {})
  /\ UNCHANGED <<setup, listed, tables, exit, edits, shown, snapOf>>

\* The ticker's arm of select!.  A tick in the cooldown is skipped; a poll of
\* nvd or ghsa asks for what changed within one interval before its tick.
Tick(p) ==
  /\ p \in spawned /\ At(p, "idle")
  /\ IF IsOpen(p)
       THEN cool' = [cool EXCEPT ![p] = @ - 1] /\ UNCHANGED <<poll, fails, faults, silent>>
       ELSE Start(p, [Idle EXCEPT !.src = p, !.since = old \cap Entries(p)])
  /\ old' = old \cup (IF p \in Windowed THEN Entries(p) ELSE {})
  /\ UNCHANGED <<setup, listed, tables, exit, edits, shown, snapOf>>

\* The other arm, which stops the loop once the token is cancelled.
Stop(p) ==
  /\ p \in spawned /\ At(p, "idle") /\ exit = "cancelled" /\ Goto(p, "stopped")
  /\ UNCHANGED <<setup, feeds, tables, breaker, exit, faults, edits, shown, snapOf, silent>>

-----------------------------------------------------------------------------
(* trigger_once, which incident_feed_refresh runs holding the scheduler's  *)
(* lock: rss, nvd, ghsa, hibp, each as configured.                         *)

First(ss) == IF "rss" \in ss THEN "rss" ELSE IF "nvd" \in ss THEN "nvd"
             ELSE IF "ghsa" \in ss THEN "ghsa" ELSE "hibp"

Refresh ==
  /\ Edit /\ exit = "no" /\ At("refresh", "idle")
  /\ Start("refresh", [Idle EXCEPT !.src = First(spawned), !.rest = spawned \ {First(spawned)}])
  /\ UNCHANGED <<setup, feeds, tables, exit, shown, snapOf>>

-----------------------------------------------------------------------------
(* One poll.                                                               *)

Got(p, entries) == Set(p, [poll[p] EXCEPT !.step = "insert", !.left = entries, !.since = {}])

\* fetch_all skips the sources that fail and returns what the others list.
FetchRss(p) ==
  /\ At(p, "fetch") /\ poll[p].src = "rss"
  /\ \/ Got(p, Entries("rss")) /\ UNCHANGED faults
     \/ Fault /\ \E some \in SUBSET Entries("rss") : some # Entries("rss") /\ Got(p, some)
  /\ UNCHANGED <<setup, feeds, tables, breaker, exit, edits, shown, snapOf, silent>>

\* fetch_incremental and fetch_advisories: every page of the window, or an error.
\* The hours before a refresh reach back beyond the last tick.
FetchWindow(p) ==
  /\ At(p, "fetch") /\ poll[p].src \in Windowed
  /\ \/ /\ IF p # "refresh" THEN Got(p, Entries(poll[p].src) \ poll[p].since)
             ELSE \E since \in SUBSET old : Got(p, Entries(poll[p].src) \ since)
        /\ UNCHANGED <<breaker, faults, silent>>
     \/ Fail(p)
  /\ UNCHANGED <<setup, feeds, tables, exit, edits, shown, snapOf>>

\* list_breaches: the whole catalogue.
FetchHibp(p) ==
  /\ At(p, "fetch") /\ poll[p].src = "hibp"
  /\ \/ Got(p, Entries("hibp")) /\ UNCHANGED <<breaker, faults, silent>>
     \/ Fail(p)
  /\ UNCHANGED <<setup, feeds, tables, exit, edits, shown, snapOf>>

Fetch(p) == FetchRss(p) \/ FetchWindow(p) \/ FetchHibp(p)

\* Only the status pages of known issuers say whose they are, and they have no
\* severity; only the breach catalogue names a domain.
NormalizeRss(e)    == [e EXCEPT !.domain = None, !.severe = FALSE]
NormalizeWindow(e) == [e EXCEPT !.slug = None, !.domain = None]
NormalizeHibp(e)   == [e EXCEPT !.slug = None]

Incident(i) ==
  CASE SourceOf[i] = "rss"    -> NormalizeRss(Entry[i])
    [] SourceOf[i] \in Windowed -> NormalizeWindow(Entry[i])
    [] SourceOf[i] = "hibp"   -> NormalizeHibp(Entry[i])

\* host_matches_domain, tried both ways.
Related(h, d) == <<h, d>> \in Under \/ <<d, h>> \in Under

IssuerMatch(n, c)  == n.slug # None /\ Owner[c] = n.slug
DomainMatch(n, c)  == /\ n.domain # None
                      /\ \/ \E d \in Domains[Owner[c]] : Related(d, n.domain)
                         \/ Site[c] # None /\ <<Site[c], n.domain>> \in Under
KeywordMatch(n, c) == Owner[c] \in n.mentions

\* match_incident: the strongest of three rules for each credential.
Reason(m) ==
  LET n == Incident(m[1])
  IN  IF IssuerMatch(n, m[2]) THEN "issuer_match"
      ELSE IF DomainMatch(n, m[2]) THEN "domain"
      ELSE IF KeywordMatch(n, m[2]) THEN "keyword" ELSE "none"

\* For the credentials of the snapshot.
Matches(i, snap) == {m \in {i} \X snap : Reason(m) # "none"}

ToMatch(p, r, todo) ==
  Set(p, [r EXCEPT !.todo = todo, !.step = IF todo = {} THEN "insert" ELSE "match"])

Count(i) == IF i \in rows THEN 0 ELSE 1

\* IncidentRepo::insert: INSERT OR IGNORE by (source, source_id), then the
\* SELECT of the canonical id, which is the new one for the poll that stored
\* the row.  Either may fail, and the loop goes on with the next entry.
Insert(p, i) ==
  /\ At(p, "insert") /\ i \in poll[p].left
  /\ LET left == poll[p].left \ {i}
     IN  \/ /\ rows' = rows \cup {i}
            /\ snapOf' = IF i \in rows THEN snapOf ELSE [snapOf EXCEPT ![i] = poll[p].snap]
            /\ ToMatch(p, [poll[p] EXCEPT !.left = left, !.count = @ + Count(i)],
                       Matches(i, poll[p].snap))
            /\ UNCHANGED <<faults, silent>>
         \/ /\ Fault /\ Set(p, [poll[p] EXCEPT !.left = left])
            /\ \/ UNCHANGED <<rows, silent>>
               \/ rows' = rows \cup {i} /\ silent' = (silent \/ i \notin rows)
            /\ UNCHANGED snapOf
  /\ UNCHANGED <<setup, feeds, creds, gone, active, dismissed, breaker, exit, edits, shown>>

\* What the schema lets into incident_match: a credential that still exists
\* and, by the CHECK on reason, no "domain".
Storable(m) == m[2] \in creds /\ Reason(m) # "domain"

\* INSERT OR IGNORE by (incident, credential, reason); an error is logged.
ReplaceMatch(p, m) ==
  /\ At(p, "match") /\ m \in poll[p].todo
  /\ ToMatch(p, poll[p], poll[p].todo \ {m})
  /\ \/ /\ active' = IF Storable(m) THEN active \cup {m} ELSE active
        /\ dismissed' = dismissed \ active'
        /\ UNCHANGED <<faults, silent>>
     \/ Fault /\ silent' = TRUE /\ UNCHANGED <<active, dismissed>>
  /\ UNCHANGED <<setup, feeds, creds, gone, rows, breaker, exit, edits, shown, snapOf>>

InsertMatch(p, m) ==
  /\ At(p, "match") /\ m \in poll[p].todo
  /\ ToMatch(p, poll[p], poll[p].todo \ {m})
  /\ \/ /\ active' = IF Storable(m) /\ m \notin dismissed THEN active \cup {m} ELSE active
        /\ UNCHANGED <<faults, silent>>
     \/ Fault /\ silent' = TRUE /\ UNCHANGED active
  /\ UNCHANGED <<setup, feeds, creds, gone, rows, dismissed, breaker, exit, edits, shown, snapOf>>

-----------------------------------------------------------------------------
(* The readers of the alerts.                                              *)

MatchesOf(i, ms) == {m \in ms : m[1] = i}

\* All its matches, of which there are some, are dismissed.
Hidden(i) == MatchesOf(i, active) = {} /\ MatchesOf(i, dismissed) # {}

\* list_with_matches: a LEFT JOIN, so an incident without matches is listed.
Visible == {i \in rows : ~Hidden(i)}
IncidentList == Visible \cup {m \in active \cup dismissed : m[1] \in Visible}

\* list_incidents_with_matches_for_credential, dismissed ones included.
ForCredential(c) == {m \in active \cup dismissed : m[2] = c}

\* incident_matches_host.  Without an issuer_id every issuer is relevant.
BannerIssuers(n) == IF n.slug # None THEN {n.slug} ELSE Issuers
MatchesHost(n, h) ==
  \/ n.domain # None /\ Related(h, n.domain)
  \/ \E u \in BannerIssuers(n) : \E d \in Domains[u] : Related(h, d)

\* match_incidents_by_host: those of medium severity and above.
OnHost(h, is) == {i \in is : Incident(i).severe /\ MatchesHost(Incident(i), h)}

\* incident_matches_for_host, and the bridge's handler for the extension.
Banner(h) == OnHost(h, Visible)

AnnounceNothing(count) == shown' = shown

\* incidents:updated: the list, and the panel of a credential, read again.
Announce(count) ==
  shown' = IF count > 0
             THEN [list |-> IncidentList, panels |-> UNION {ForCredential(c) : c \in creds}]
             ELSE shown

-----------------------------------------------------------------------------

\* The poll returns its count.  A refresh goes on with the next source; the
\* interface reads the list after each refresh that returns.
Return(p) ==
  /\ At(p, "insert") /\ poll[p].left = {}
  /\ IF p # "refresh"
       THEN /\ OnSuccess(p) /\ Announce(poll[p].count) /\ Set(p, Idle)
            /\ UNCHANGED <<faults, silent>>
       ELSE IF poll[p].rest # {}
         THEN /\ Start(p, [poll[p] EXCEPT !.src = First(poll[p].rest), !.rest = @ \ {First(@)}])
              /\ UNCHANGED shown
         ELSE Announce(1) /\ Set(p, Idle) /\ UNCHANGED <<breaker, faults, silent>>
  /\ UNCHANGED <<setup, feeds, tables, exit, edits, snapOf>>

-----------------------------------------------------------------------------
(* RunEvent::Exit.                                                         *)

AskExit ==
  /\ exit = "no" /\ exit' = "asked"
  /\ UNCHANGED <<setup, feeds, tables, poll, breaker, faults, edits, shown, snapOf, silent>>

ShutdownUncancelled ==
  /\ exit = "asked" /\ At("refresh", "idle")
  /\ UNCHANGED vars

\* The handle is taken under the scheduler's lock, which a refresh holds.
Shutdown ==
  /\ exit = "asked" /\ At("refresh", "idle") /\ exit' = "cancelled"
  /\ UNCHANGED <<setup, feeds, tables, poll, breaker, faults, edits, shown, snapOf, silent>>

\* join_next until no task is left.
Joined ==
  /\ exit = "cancelled" /\ \A p \in spawned : At(p, "stopped")
  /\ exit' = "ended"
  /\ UNCHANGED <<setup, feeds, tables, poll, breaker, faults, edits, shown, snapOf, silent>>

Step(p) ==
  \/ (\E i \in Items : Insert(p, i)) \/ (\E m \in Pairs : InsertMatch(p, m)) \/ Return(p)

Next ==
  \/ \E i \in Items : Publish(i) \/ Dismiss(i)
  \/ \E c \in Creds : AddCredential(c) \/ DeleteCredential(c)
  \/ \E p \in Sources : Tick(p) \/ Stop(p)
  \/ Refresh
  \/ \E p \in Polls : Step(p) \/ Fetch(p)
  \/ Sleep \/ AskExit \/ Shutdown \/ Joined

\* Tokio runs every task that can run and every ticker ticks; select! picks at
\* random among its ready arms, so a cancelled loop stops.  Only the rss
\* client has a timeout: the others answer if the servers do.
Fairness ==
  /\ \A p \in Sources : WF_vars(Tick(p)) /\ SF_vars(Stop(p))
  /\ \A p \in Polls : /\ WF_vars(Step(p)) /\ WF_vars(FetchRss(p))
                      /\ Answers => WF_vars(FetchWindow(p) \/ FetchHibp(p))
  /\ WF_vars(Shutdown) /\ WF_vars(Joined)

Spec == Init /\ [][Next]_vars /\ Fairness

-----------------------------------------------------------------------------
(* Properties.                                                             *)

AllIdle == \A p \in Polls : poll[p].step \in {"idle", "stopped"}

\* What the interface read at the last announcement has every stored incident
\* (in the list, unless it was dismissed), and the matches of the poll that stored
\* it in the panels of their credentials, whatever polls and refreshes overlap.  (A
\* failed statement, or a refresh that fails half way, may lose an announcement.)
\* And whoever visits a site of the issuer of a credential is warned there of each
\* severe incident that the credential's own alerts show.
Announced ==
  /\ AllIdle /\ ~silent =>
       \A i \in rows :
         /\ i \in shown.list \/ MatchesOf(i, dismissed) # {} \/ gone # {}
         /\ \A m \in Matches(i, snapOf[i]) : Storable(m) => m \in shown.panels
  /\ \A m \in active : \A d \in Domains[Owner[m[2]]] :
       Incident(m[1]).severe => m[1] \in Banner(d)

\* A dismissed match stays dismissed while its credential exists: no poll that
\* finds it again, or had found it before, makes it active (migration 0004).
DismissedStays ==
  [][\A m \in dismissed : m \in dismissed' \/ m[2] \notin creds']_vars

\* What a feed publishes is stored in the end, through failures and cooldowns,
\* as long as the application runs: always for a feed that is read whole, for one
\* read by windows if no poll fails and the computer does not sleep.
EventuallyStored ==
  \A i \in Items :
    i \in listed ~> \/ i \in rows \/ exit # "no"
                    \/ SourceOf[i] \in Windowed /\ faults > 0

\* An incident of a feed that is read whole is matched with the credentials that
\* it concerns in the end, with those added later too.
EventuallyMatched ==
  \A m \in {n \in Pairs : SourceOf[n[1]] \notin Windowed /\ Reason(n) # "none"} :
    m[1] \in listed /\ Storable(m)
      ~> m \in active \cup dismissed \/ ~Storable(m) \/ exit # "no"

\* Nothing a feed publishes is lost between the servers and the alerts.
EventuallyHandled == EventuallyStored /\ EventuallyMatched

\* The application exits: shutdown waits for a refresh and for polls that are
\* under way, and both end if the servers answer.
ExitEnds == exit = "asked" ~> exit = "ended"

\* Read as promises of the sources; TLC refutes them (see README.md).

\* Every match that match_incident returns is stored (matcher.rs:31, rule 2).
MatchesStored ==
  AllIdle /\ faults = 0 =>
    \A i \in rows : \A m \in Matches(i, snapOf[i]) : m[2] \in creds => m \in active \cup dismissed

\* The banner of a site tells of the incidents of that site (incidents.rs:165): it
\* goes through the "issuers linked to this incident" (matcher.rs:159).
BannerConcernsHost ==
  \A h \in Hosts : \A i \in Banner(h) :
    LET n == Incident(i)
    IN  \/ n.domain # None /\ Related(h, n.domain)
        \/ \E u \in Issuers : /\ u = n.slug \/ u \in n.mentions \/ \E m \in MatchesOf(i, active) :
                                                                    Owner[m[2]] = u
                              /\ \E d \in Domains[u] : Related(h, d)
=============================================================================
