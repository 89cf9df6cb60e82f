---------------------------- MODULE AlertProofs -----------------------------
(***************************************************************************)
(* Proofs about IncidentFeeds and SecurityChecks, the two components that  *)
(* raise alerts about credentials, for any values of their constants.      *)
(***************************************************************************)
EXTENDS IncidentFeeds, SecurityChecks, TLAPS

-----------------------------------------------------------------------------
(***************************************************************************)
(* IncidentFeeds, for any entries, credentials, issuers, hosts and bounds: *)
(* a stored incident and its matches are shown, or with a poll that will   *)
(* announce them (RowInv), and a dismissed match is not made active again. *)
(***************************************************************************)

\* A poll has matches to store only while it stores them, and of a row only; what
\* it takes for the credentials was there when it began.
PollInv ==
  \A p \in Polls : /\ poll[p].step # "match" => poll[p].todo = {}
                   /\ \A m \in poll[p].todo : m[1] \in rows /\ Reason(m) # "none"
                   /\ poll[p].snap \subseteq creds \cup gone

\* The poll will announce what it has stored, unless it fails.
Owes(p) == poll[p].step \in {"fetch", "insert", "match"} /\ poll[p].count > 0

\* A stored incident is in the list, or announced later; each of its matches is
\* in the table, or with the poll that has still to store it, and in the panels,
\* or announced later.
RowInv ==
  ~silent =>
    \A i \in rows :
      /\ \/ i \in shown.list \/ MatchesOf(i, dismissed) # {} \/ gone # {}
         \/ \E p \in Polls : Owes(p)
      /\ \A m \in Matches(i, snapOf[i]) : Storable(m) =>
           /\ \/ m \in active \cup dismissed
              \/ \E p \in Polls : Owes(p) /\ m \in poll[p].todo
           /\ m \in shown.panels \/ \E p \in Polls : Owes(p)

\* What a row is matched with was there when it was stored, so that it does not
\* come back once it is gone.
SnapInv == ~silent => \A i \in rows : snapOf[i] \subseteq creds \cup gone

\* The table holds what the schema lets in.
ReasonInv == \A m \in active : Reason(m) \in {"issuer_match", "keyword"}

FeedInv == TypeOK /\ PollInv /\ RowInv /\ SnapInv /\ ReasonInv

-----------------------------------------------------------------------------
(* Types.                                                                  *)

LEMMA SetupTyped ==
  ASSUME FeedAssumption, TypeOK
  PROVE  spawned \subseteq Sources /\ setup.faults \in Nat /\ setup.edits \in Nat
BY DEF FeedAssumption, TypeOK, spawned

LEMMA IdleTyped == Idle \in Poll
BY DEF Idle, Poll, Sources

LEMMA FirstTyped == \A ss : First(ss) \in Sources
BY DEF First, Sources

\* A poll is replaced by another one.
LEMMA SetTyped ==
  ASSUME TypeOK, NEW p \in Polls, NEW r \in Poll, Set(p, r)
  PROVE  /\ poll' \in [Polls -> Poll] /\ poll'[p] = r
         /\ \A q \in Polls \ {p} : poll'[q] = poll[q]
BY DEF TypeOK, Set

\* It begins, or fails before it has begun.
Failed(p) ==
  /\ poll'[p] = Idle /\ silent' = (silent \/ poll[p].count > 0)

LEMMA FailMakes ==
  ASSUME FeedAssumption, TypeOK, NEW p \in Polls, Fail(p), setup' = setup
  PROVE  /\ poll' \in [Polls -> Poll] /\ \A q \in Polls \ {p} : poll'[q] = poll[q]
         /\ Failed(p) /\ silent' \in BOOLEAN
         /\ faults' \in 0..setup.faults
         /\ fails' \in [Sources -> Nat] /\ cool' \in [Sources -> Nat]
<1>1. Set(p, Idle) /\ silent' = (silent \/ poll[p].count > 0)
  BY DEF Fail
<1>2. faults' \in 0..setup.faults
  BY SetupTyped DEF Fail, Fault, TypeOK
<1>3. fails' \in [Sources -> Nat] /\ cool' \in [Sources -> Nat]
  <2>1. CASE p = "refresh"
    BY <2>1 DEF Fail, breaker, TypeOK
  <2>2. CASE p # "refresh"
    <3>1. p \in Sources /\ OnFailure(p)
      BY <2>2 DEF Fail, Polls
    <3>2. fails' \in [Sources -> Nat]
      BY <3>1 DEF OnFailure, TypeOK
    <3>3. cool' \in [Sources -> Nat]
      BY <3>1, <3>2 DEF OnFailure, TypeOK, FeedAssumption
    <3>4. QED BY <3>2, <3>3
  <2>3. QED BY <2>1, <2>2
<1>4. silent' \in BOOLEAN
  BY <1>1 DEF TypeOK
<1>5. QED BY <1>1, <1>2, <1>3, <1>4, SetTyped, IdleTyped DEF Failed

Started(p, r) ==
  /\ poll'[p] = [r EXCEPT !.step = "fetch", !.snap = creds] /\ UNCHANGED silent

LEMMA StartMakes ==
  ASSUME FeedAssumption, TypeOK, NEW p \in Polls, NEW r \in Poll, Start(p, r), setup' = setup
  PROVE  /\ poll' \in [Polls -> Poll] /\ \A q \in Polls \ {p} : poll'[q] = poll[q]
         /\ Started(p, r) \/ Failed(p)
         /\ silent' \in BOOLEAN
         /\ faults' \in 0..setup.faults
         /\ fails' \in [Sources -> Nat] /\ cool' \in [Sources -> Nat]
<1>1. CASE Set(p, [r EXCEPT !.step = "fetch", !.snap = creds]) /\ UNCHANGED <<breaker, faults, silent>>
  <2>1. [r EXCEPT !.step = "fetch", !.snap = creds] \in Poll
    BY DEF Poll, TypeOK
  <2>2. QED BY <1>1, <2>1, SetTyped DEF Started, TypeOK, breaker
<1>2. CASE Fail(p)
  BY <1>2, FailMakes
<1>3. QED BY <1>1, <1>2 DEF Start

\* The steps of a poll that store nothing.
Fetched(p) ==
  /\ poll'[p].step = "insert" /\ UNCHANGED silent
  /\ poll'[p].todo = poll[p].todo /\ poll'[p].count = poll[p].count
  /\ poll'[p].snap = poll[p].snap

LEMMA GotMakes ==
  ASSUME TypeOK, NEW p \in Polls, NEW entries \in SUBSET Items, Got(p, entries)
  PROVE  /\ poll' \in [Polls -> Poll] /\ \A q \in Polls \ {p} : poll'[q] = poll[q]
         /\ UNCHANGED silent => Fetched(p)
<1> DEFINE r == [poll[p] EXCEPT !.step = "insert", !.left = entries, !.since = {}]
<1>1. poll[p] \in Poll
  BY DEF TypeOK
<1>2. r \in Poll
  BY <1>1 DEF Poll
<1>3. /\ r.step = "insert" /\ r.todo = poll[p].todo /\ r.count = poll[p].count
      /\ r.snap = poll[p].snap
  BY <1>1 DEF Poll
<1>4. QED BY <1>2, <1>3, SetTyped DEF Got, Fetched

LEMMA FetchMakes ==
  ASSUME FeedAssumption, TypeOK, NEW p \in Polls, Fetch(p)
  PROVE  /\ poll' \in [Polls -> Poll] /\ \A q \in Polls \ {p} : poll'[q] = poll[q]
         /\ At(p, "fetch") /\ (Fetched(p) \/ Failed(p))
         /\ silent' \in BOOLEAN
         /\ faults' \in 0..setup.faults
         /\ fails' \in [Sources -> Nat] /\ cool' \in [Sources -> Nat]
         /\ UNCHANGED <<setup, feeds, tables, exit, edits, shown, snapOf>>
<1>0. \A s : Entries(s) \subseteq Items
  BY DEF Entries, TypeOK
<1>1. CASE FetchRss(p)
  <2>1. PICK some \in SUBSET Entries("rss") : Got(p, some)
    BY <1>1 DEF FetchRss
  <2>2. faults' \in 0..setup.faults
    BY <1>1, SetupTyped DEF FetchRss, Fault, TypeOK
  <2>3. some \subseteq Items
    BY <1>0
  <2>4. QED BY <1>1, <2>1, <2>2, <2>3, GotMakes DEF FetchRss, breaker, TypeOK
<1>2. CASE FetchWindow(p)
  <2>1. setup' = setup
    BY <1>2 DEF FetchWindow
  <2>2. CASE Fail(p)
    BY <1>2, <2>1, <2>2, FailMakes DEF FetchWindow
  <2>3. CASE \E entries \in SUBSET Items : Got(p, entries) /\ UNCHANGED <<breaker, faults, silent>>
    BY <1>2, <2>3, GotMakes DEF FetchWindow, breaker, TypeOK
  <2>4. QED BY <1>0, <1>2, <2>2, <2>3 DEF FetchWindow
<1>3. CASE FetchHibp(p)
  <2>1. setup' = setup
    BY <1>3 DEF FetchHibp
  <2>2. CASE Fail(p)
    BY <1>3, <2>1, <2>2, FailMakes DEF FetchHibp
  <2>3. CASE Got(p, Entries("hibp")) /\ UNCHANGED <<breaker, faults, silent>>
    BY <1>0, <1>3, <2>3, GotMakes DEF FetchHibp, breaker, TypeOK
  <2>4. QED BY <1>3, <2>2, <2>3 DEF FetchHibp
<1>4. QED BY <1>1, <1>2, <1>3 DEF Fetch

\* A poll begins, with the ticker or by hand.
LEMMA BeginMakes ==
  ASSUME FeedAssumption, TypeOK, NEW p \in Polls, (p \in Sources /\ Tick(p)) \/ (p = "refresh" /\ Refresh)
  PROVE  /\ poll' \in [Polls -> Poll] /\ \A q \in Polls \ {p} : poll'[q] = poll[q]
         /\ At(p, "idle")
         /\ \/ UNCHANGED <<poll, silent>> \/ Failed(p)
            \/ poll'[p].todo = {} /\ poll'[p].snap = creds /\ poll'[p].step = "fetch"
                 /\ UNCHANGED silent
         /\ silent' \in BOOLEAN
         /\ faults' \in 0..setup.faults
         /\ fails' \in [Sources -> Nat] /\ cool' \in [Sources -> Nat]
         /\ old' \subseteq Items /\ edits' \in 0..setup.edits
         /\ UNCHANGED <<setup, listed, tables, exit, shown, snapOf>>
<1>1. CASE p \in Sources /\ Tick(p)
  <2> DEFINE r == [Idle EXCEPT !.src = p, !.since = old \cap Entries(p)]
  <2>1. r \in Poll /\ r.todo = {}
    BY <1>1, IdleTyped DEF Poll, Idle, TypeOK
  <2>2. CASE IsOpen(p)
    <3>1. cool' = [cool EXCEPT ![p] = @ - 1] /\ UNCHANGED <<poll, fails, faults, silent>>
      BY <1>1, <2>2 DEF Tick
    <3>2. cool[p] \in Nat /\ cool[p] > 0
      BY <1>1, <2>2 DEF IsOpen, TypeOK
    <3>3. cool[p] - 1 \in Nat
      BY <3>2
    <3>5. cool' \in [Sources -> Nat]
      BY <3>1, <3>3 DEF TypeOK
    <3>4. QED BY <1>1, <3>1, <3>5 DEF Tick, TypeOK, Entries
  <2>3. CASE ~IsOpen(p)
    <3>1. Start(p, r) /\ setup' = setup
      BY <1>1, <2>3 DEF Tick
    <3>2. Started(p, r) => /\ poll'[p].todo = {} /\ poll'[p].snap = creds
                           /\ poll'[p].step = "fetch" /\ UNCHANGED silent
      BY <2>1 DEF Started, Poll
    <3>3. QED BY <1>1, <2>1, <3>1, <3>2, StartMakes DEF Tick, TypeOK, Entries
  <2>4. QED BY <2>2, <2>3
<1>2. CASE p = "refresh" /\ Refresh
  <2> DEFINE r == [Idle EXCEPT !.src = First(spawned), !.rest = spawned \ {First(spawned)}]
  <2>1. r \in Poll /\ r.todo = {}
    BY <1>2, IdleTyped, FirstTyped, SetupTyped DEF Poll, Idle
  <2>2. Start(p, r) /\ setup' = setup
    BY <1>2 DEF Refresh
  <2>3. Started(p, r) => /\ poll'[p].todo = {} /\ poll'[p].snap = creds
                         /\ poll'[p].step = "fetch" /\ UNCHANGED silent
    BY <2>1 DEF Started, Poll
  <2>4. edits' \in 0..setup.edits /\ old' \subseteq Items
    BY <1>2, SetupTyped DEF Refresh, Edit, TypeOK, feeds
  <2>5. QED BY <1>2, <2>1, <2>2, <2>3, <2>4, StartMakes DEF Refresh, feeds, TypeOK
<1>3. QED BY <1>1, <1>2

\* A poll ends and announces what it has stored, or goes on with the next feed.
LEMMA ReturnMakes ==
  ASSUME FeedAssumption, TypeOK, NEW p \in Polls, Return(p)
  PROVE  /\ poll' \in [Polls -> Poll] /\ \A q \in Polls \ {p} : poll'[q] = poll[q]
         /\ At(p, "insert")
         /\ \/ Failed(p) /\ UNCHANGED shown
            \/ /\ poll'[p].step = "fetch" /\ poll'[p].todo = poll[p].todo
               /\ poll'[p].count = poll[p].count /\ poll'[p].snap = creds
               /\ UNCHANGED <<silent, shown>>
            \/ /\ poll'[p] = Idle /\ UNCHANGED silent
               /\ \/ Announce(1)
                  \/ poll[p].count = 0 /\ UNCHANGED shown
         /\ silent' \in BOOLEAN
         /\ faults' \in 0..setup.faults
         /\ fails' \in [Sources -> Nat] /\ cool' \in [Sources -> Nat]
         /\ UNCHANGED <<setup, feeds, tables, exit, edits, snapOf>>
<1>0. poll[p] \in Poll /\ poll[p].count \in Nat
  BY DEF TypeOK, Poll
<1>1. CASE p # "refresh"
  <2>1. p \in Sources /\ OnSuccess(p) /\ Set(p, Idle) /\ UNCHANGED <<faults, silent>>
    BY <1>1 DEF Return, Polls
  <2>2. Announce(poll[p].count) => \/ Announce(1)
                                   \/ poll[p].count = 0 /\ UNCHANGED shown
    BY <1>0 DEF Announce
  <2>3. fails' \in [Sources -> Nat] /\ cool' \in [Sources -> Nat]
    BY <2>1 DEF OnSuccess, TypeOK
  <2>4. QED BY <1>1, <2>1, <2>2, <2>3, SetTyped, IdleTyped DEF Return, TypeOK
<1>2. CASE p = "refresh" /\ poll[p].rest # {}
  <2> DEFINE r == [poll[p] EXCEPT !.src = First(poll[p].rest), !.rest = @ \ {First(@)}]
  <2>1. r \in Poll /\ r.todo = poll[p].todo /\ r.count = poll[p].count
    BY <1>0, FirstTyped DEF Poll
  <2>2. Start(p, r) /\ UNCHANGED <<setup, shown>>
    BY <1>2 DEF Return
  <2>3. Started(p, r) => /\ poll'[p].step = "fetch" /\ poll'[p].todo = poll[p].todo
                         /\ poll'[p].count = poll[p].count /\ poll'[p].snap = creds
                         /\ UNCHANGED silent
    BY <2>1 DEF Started, Poll
  <2>4. QED BY <1>2, <2>1, <2>2, <2>3, StartMakes DEF Return
<1>3. CASE p = "refresh" /\ poll[p].rest = {}
  <2>1. Announce(1) /\ Set(p, Idle) /\ UNCHANGED <<breaker, faults, silent>>
    BY <1>3 DEF Return
  <2>2. QED BY <1>3, <2>1, SetTyped, IdleTyped DEF Return, breaker, TypeOK
<1>4. QED BY <1>1, <1>2, <1>3

\* What a poll has still to store, when it takes up an entry or stores a match.
LEMMA ToMatchMakes ==
  ASSUME TypeOK, NEW p \in Polls, NEW r \in Poll, NEW todo \in SUBSET Pairs, ToMatch(p, r, todo)
  PROVE  /\ poll' \in [Polls -> Poll] /\ \A q \in Polls \ {p} : poll'[q] = poll[q]
         /\ poll'[p].step \in {"insert", "match"} /\ poll'[p].todo = todo
         /\ (poll'[p].step # "match" => todo = {})
         /\ poll'[p].count = r.count /\ poll'[p].snap = r.snap
<1> DEFINE q == [r EXCEPT !.todo = todo, !.step = IF todo = {} THEN "insert" ELSE "match"]
<1>1. q \in Poll
  BY DEF Poll
<1>2. /\ q.step \in {"insert", "match"} /\ q.todo = todo /\ (q.step # "match" => todo = {})
      /\ q.count = r.count /\ q.snap = r.snap
  BY DEF Poll
<1>3. Set(p, q)
  BY DEF ToMatch
<1> HIDE DEF q
<1>4. QED BY <1>1, <1>2, <1>3, SetTyped

\* An entry is stored, or there already; or a statement fails.
Took(p, i) ==
  /\ poll'[p].todo = Matches(i, poll[p].snap) /\ poll'[p].snap = poll[p].snap
  /\ poll'[p].step # "match" => poll'[p].todo = {}
  /\ poll'[p].step \in {"insert", "match"}
  /\ poll'[p].count = poll[p].count + Count(i)
  /\ rows' = rows \cup {i} /\ UNCHANGED silent
  /\ snapOf' = IF i \in rows THEN snapOf ELSE [snapOf EXCEPT ![i] = poll[p].snap]

Missed(p, i) ==
  /\ poll'[p].step = poll[p].step /\ poll'[p].todo = poll[p].todo
  /\ poll'[p].count = poll[p].count /\ poll'[p].snap = poll[p].snap
  /\ \/ UNCHANGED <<rows, silent>>
     \/ rows' = rows \cup {i} /\ silent' = (silent \/ i \notin rows)
  /\ UNCHANGED snapOf

LEMMA InsertMakes ==
  ASSUME FeedAssumption, TypeOK, NEW p \in Polls, NEW i \in Items, Insert(p, i)
  PROVE  /\ poll' \in [Polls -> Poll] /\ \A q \in Polls \ {p} : poll'[q] = poll[q]
         /\ At(p, "insert") /\ (Took(p, i) \/ Missed(p, i))
         /\ silent' \in BOOLEAN /\ faults' \in 0..setup.faults
         /\ snapOf' \in [Items -> SUBSET Creds]
         /\ UNCHANGED <<setup, feeds, creds, gone, active, dismissed, breaker, exit, edits, shown>>
<1>0. poll[p] \in Poll /\ poll[p].count \in Nat /\ poll[p].snap \subseteq Creds
  BY DEF TypeOK, Poll
<1> DEFINE left == poll[p].left \ {i}
           r == [poll[p] EXCEPT !.left = left, !.count = @ + Count(i)]
           s == [poll[p] EXCEPT !.left = left]
<1>1. poll[p].count + Count(i) \in Nat
  BY <1>0 DEF Count
<1>2. r \in Poll /\ r.count = poll[p].count + Count(i) /\ r.snap = poll[p].snap
  BY <1>0, <1>1 DEF Poll
<1>3. /\ s \in Poll /\ s.step = poll[p].step /\ s.todo = poll[p].todo
      /\ s.count = poll[p].count /\ s.snap = poll[p].snap
  BY <1>0 DEF Poll
<1>4. Matches(i, poll[p].snap) \subseteq Pairs
  BY <1>0 DEF Matches, Pairs
<1>5. CASE /\ rows' = rows \cup {i}
           /\ snapOf' = IF i \in rows THEN snapOf ELSE [snapOf EXCEPT ![i] = poll[p].snap]
           /\ ToMatch(p, r, Matches(i, poll[p].snap))
           /\ UNCHANGED <<faults, silent>>
  <2>1. snapOf' \in [Items -> SUBSET Creds]
    BY <1>0, <1>5 DEF TypeOK
  <2>2. Took(p, i) /\ poll' \in [Polls -> Poll] /\ \A q \in Polls \ {p} : poll'[q] = poll[q]
    <3> HIDE DEF r
    <3>1. QED BY <1>2, <1>4, <1>5, ToMatchMakes DEF Took
  <2>3. QED BY <1>5, <2>1, <2>2 DEF Insert, TypeOK
<1>6. CASE /\ Fault /\ Set(p, s)
           /\ \/ UNCHANGED <<rows, silent>>
              \/ rows' = rows \cup {i} /\ silent' = (silent \/ i \notin rows)
           /\ UNCHANGED snapOf
  <2>1. faults' \in 0..setup.faults
    BY <1>6, SetupTyped DEF Fault, TypeOK
  <2>2. Missed(p, i) /\ poll' \in [Polls -> Poll] /\ \A q \in Polls \ {p} : poll'[q] = poll[q]
    BY <1>3, <1>6, SetTyped DEF Missed
  <2>3. silent' \in BOOLEAN /\ snapOf' \in [Items -> SUBSET Creds]
    BY <1>6 DEF TypeOK
  <2>4. QED BY <2>1, <2>2, <2>3 DEF Insert
<1>7. QED BY <1>5, <1>6 DEF Insert

\* A match is stored, is dismissed already, or is refused by the schema; or the
\* statement fails.
LEMMA InsertMatchMakes ==
  ASSUME FeedAssumption, TypeOK, NEW p \in Polls, NEW m \in Pairs, InsertMatch(p, m)
  PROVE  /\ poll' \in [Polls -> Poll] /\ \A q \in Polls \ {p} : poll'[q] = poll[q]
         /\ At(p, "match") /\ m \in poll[p].todo
         /\ poll'[p].todo = poll[p].todo \ {m} /\ poll'[p].snap = poll[p].snap
         /\ poll'[p].step # "match" => poll'[p].todo = {}
         /\ poll'[p].step \in {"insert", "match"} /\ poll'[p].count = poll[p].count
         /\ \/ UNCHANGED silent /\ active' = IF Storable(m) /\ m \notin dismissed
                                               THEN active \cup {m} ELSE active
            \/ silent' = TRUE /\ UNCHANGED active
         /\ silent' \in BOOLEAN /\ faults' \in 0..setup.faults
         /\ UNCHANGED <<setup, feeds, creds, gone, rows, dismissed, breaker, exit, edits, shown, snapOf>>
<1>1. poll[p] \in Poll /\ poll[p].todo \ {m} \subseteq Pairs
  BY DEF TypeOK, Poll
<1>2. ToMatch(p, poll[p], poll[p].todo \ {m})
  BY DEF InsertMatch
<1>3. (UNCHANGED <<faults, silent>>) \/ (Fault /\ silent' = TRUE)
  BY DEF InsertMatch
<1>4. silent' \in BOOLEAN
  BY <1>3 DEF TypeOK
<1>5. faults' \in 0..setup.faults
  BY <1>3, SetupTyped DEF Fault, TypeOK
<1>6. QED BY <1>1, <1>2, <1>4, <1>5, ToMatchMakes DEF InsertMatch

LEMMA StopMakes ==
  ASSUME TypeOK, NEW p \in Sources, Stop(p)
  PROVE  /\ poll' \in [Polls -> Poll] /\ \A q \in Polls \ {p} : poll'[q] = poll[q]
         /\ At(p, "idle") /\ poll'[p].step = "stopped"
         /\ poll'[p].todo = poll[p].todo /\ poll'[p].snap = poll[p].snap
<1> DEFINE r == [poll[p] EXCEPT !.step = "stopped"]
<1>1. p \in Polls
  BY DEF Polls
<1>2. r \in Poll /\ r.step = "stopped" /\ r.todo = poll[p].todo /\ r.snap = poll[p].snap
  BY <1>1 DEF TypeOK, Poll
<1>3. QED BY <1>1, <1>2, SetTyped DEF Stop, Goto

-----------------------------------------------------------------------------
(* The invariant.                                                          *)

LEMMA InitFeedInv == FeedAssumption /\ Init => FeedInv
<1> SUFFICES ASSUME FeedAssumption, Init PROVE FeedInv
  OBVIOUS
<1>1. TypeOK
  <2>1. setup \in Setups /\ faults \in 0..setup.faults /\ edits \in 0..setup.edits
    BY DEF FeedAssumption, Init
  <2>2. /\ poll \in [Polls -> Poll] /\ fails \in [Sources -> Nat] /\ cool \in [Sources -> Nat]
        /\ shown \in [list : SUBSET (Items \cup Pairs), panels : SUBSET Pairs]
        /\ snapOf \in [Items -> SUBSET Creds]
    BY IdleTyped DEF Init
  <2>3. QED BY <2>1, <2>2 DEF Init, TypeOK
<1>2. PollInv /\ RowInv /\ SnapInv /\ ReasonInv
  BY DEF Init, PollInv, RowInv, SnapInv, ReasonInv, Idle
<1>3. QED BY <1>1, <1>2 DEF FeedInv

\* What the world, the user and the shutdown do.
UserStep ==
  \/ \E i \in Items : Publish(i) \/ Dismiss(i)
  \/ \E c \in Creds : AddCredential(c) \/ DeleteCredential(c)
  \/ Sleep \/ AskExit \/ Shutdown \/ Joined

\* The five things a poll does.
PollStep(p) ==
  \/ (p \in Sources /\ Tick(p)) \/ (p = "refresh" /\ Refresh)
  \/ p \in Sources /\ Stop(p)
  \/ Fetch(p) \/ Return(p)
  \/ (\E i \in Items : Insert(p, i)) \/ (\E m \in Pairs : InsertMatch(p, m))

LEMMA NextCases == Next => UserStep \/ \E p \in Polls : PollStep(p)
<1> SUFFICES ASSUME Next PROVE UserStep \/ \E p \in Polls : PollStep(p)
  OBVIOUS
<1>1. ASSUME NEW p \in Sources, Tick(p) \/ Stop(p) PROVE \E q \in Polls : PollStep(q)
  BY <1>1 DEF Polls, PollStep
<1>2. CASE Refresh
  BY <1>2 DEF Polls, PollStep
<1>3. ASSUME NEW p \in Polls, Step(p) \/ Fetch(p) PROVE PollStep(p)
  BY <1>3 DEF Step, PollStep
<1>4. QED BY <1>1, <1>2, <1>3 DEF Next, UserStep

LEMMA UserTyped == FeedAssumption /\ TypeOK /\ UserStep => TypeOK'
<1> SUFFICES ASSUME FeedAssumption, TypeOK, UserStep PROVE TypeOK'
  OBVIOUS
<1>1. ASSUME NEW i \in Items, Publish(i) PROVE TypeOK'
  BY <1>1 DEF Publish, TypeOK, tables, breaker
<1>2. ASSUME NEW i \in Items, Dismiss(i) PROVE TypeOK'
  BY <1>2, SetupTyped DEF Dismiss, TypeOK, feeds, breaker, Edit
<1>3. ASSUME NEW c \in Creds, AddCredential(c) PROVE TypeOK'
  BY <1>3, SetupTyped DEF AddCredential, TypeOK, feeds, breaker, Edit
<1>4. ASSUME NEW c \in Creds, DeleteCredential(c) PROVE TypeOK'
  BY <1>4, SetupTyped DEF DeleteCredential, TypeOK, feeds, breaker, Edit
<1>5. CASE Sleep
  BY <1>5, SetupTyped DEF Sleep, TypeOK, tables, breaker, Fault
<1>6. CASE AskExit \/ Shutdown \/ Joined
  BY <1>6 DEF AskExit, Shutdown, Joined, TypeOK, feeds, tables, breaker
<1>7. QED BY <1>1, <1>2, <1>3, <1>4, <1>5, <1>6 DEF UserStep

LEMMA PollTyped == FeedAssumption /\ TypeOK /\ PollInv /\ (\E p \in Polls : PollStep(p)) => TypeOK'
<1> SUFFICES ASSUME FeedAssumption, TypeOK, PollInv, NEW p \in Polls, PollStep(p) PROVE TypeOK'
  OBVIOUS
<1>1. CASE (p \in Sources /\ Tick(p)) \/ (p = "refresh" /\ Refresh)
  BY <1>1, BeginMakes DEF TypeOK, tables
<1>2. CASE p \in Sources /\ Stop(p)
  BY <1>2, StopMakes DEF Stop, TypeOK, feeds, tables, breaker
<1>3. CASE Fetch(p)
  BY <1>3, FetchMakes DEF TypeOK, feeds, tables
<1>4. CASE Return(p)
  <2>1. shown' \in [list : SUBSET (Items \cup Pairs), panels : SUBSET Pairs]
    <3>1. IncidentList \in SUBSET (Items \cup Pairs)
      BY DEF IncidentList, Visible, TypeOK
    <3>2. UNION {ForCredential(c) : c \in creds} \in SUBSET Pairs
      BY DEF ForCredential, TypeOK
    <3>3. CASE UNCHANGED shown
      BY <3>3 DEF TypeOK
    <3>4. CASE Announce(1)
      BY <3>1, <3>2, <3>4 DEF Announce
    <3>5. QED BY <1>4, <3>3, <3>4, ReturnMakes
  <2>2. QED BY <1>4, <2>1, ReturnMakes DEF TypeOK, feeds, tables
<1>5. ASSUME NEW i \in Items, Insert(p, i) PROVE TypeOK'
  <2>1. rows' \subseteq Items /\ rows \subseteq rows'
    BY <1>5, InsertMakes DEF Took, Missed, TypeOK
  <2>2. QED BY <1>5, <2>1, InsertMakes DEF TypeOK, feeds, breaker
<1>6. ASSUME NEW m \in Pairs, InsertMatch(p, m) PROVE TypeOK'
  <2>1. m[1] \in rows
    BY <1>6, InsertMatchMakes DEF PollInv
  <2>2. active' \subseteq active \cup {m}
    BY <1>6, InsertMatchMakes
  <2>3. m \in active' \ active => m[2] \in creds /\ m \notin dismissed
    BY <1>6, InsertMatchMakes DEF Storable
  <2>4. /\ active' \subseteq Pairs /\ active' \cap dismissed = {}
        /\ \A n \in active' \cup dismissed : n[1] \in rows /\ n[2] \in creds
    BY <2>1, <2>2, <2>3 DEF TypeOK
  <2>5. QED BY <1>6, <2>4, InsertMatchMakes DEF TypeOK, feeds, breaker
<1>7. QED BY <1>1, <1>2, <1>3, <1>4, <1>5, <1>6 DEF PollStep

\* Everybody there ever was is there or gone.
LEMMA UserKeeps ==
  ASSUME UserStep
  PROVE  /\ UNCHANGED <<poll, rows, silent, shown, snapOf>>
         /\ creds \cup gone \subseteq creds' \cup gone' /\ gone \subseteq gone'
         /\ creds' \cap (creds \cup gone) \subseteq creds
         /\ active' \subseteq active
         /\ \A m \in dismissed : m \in dismissed' \/ gone' # {}
         /\ \A m \in active \cup dismissed : m[2] \in creds' => m \in active' \cup dismissed'
BY DEF UserStep, Publish, Dismiss, AddCredential, DeleteCredential, Sleep, AskExit, Shutdown,
       Joined, feeds, tables, breaker

LEMMA NextPollInv == FeedAssumption /\ FeedInv /\ Next => PollInv'
<1> SUFFICES ASSUME FeedAssumption, FeedInv, Next PROVE PollInv'
  OBVIOUS
<1> USE DEF FeedInv
<1>1. CASE UserStep
  BY <1>1, UserKeeps DEF PollInv
<1>2. ASSUME NEW p \in Polls, PollStep(p) PROVE PollInv'
  <2>0. \A q \in Polls : poll[q].snap \subseteq creds \cup gone
    BY DEF PollInv
  <2> DEFINE Goes == /\ poll'[p].step # "match" => poll'[p].todo = {}
                     /\ \A m \in poll'[p].todo : m[1] \in rows' /\ Reason(m) # "none"
                     /\ poll'[p].snap \subseteq creds \cup gone
  <2>1. CASE (p \in Sources /\ Tick(p)) \/ (p = "refresh" /\ Refresh)
    <3>1. Goes
      BY <2>1, BeginMakes DEF PollInv, Failed, Idle, tables
    <3>2. QED BY <2>1, <3>1, BeginMakes DEF PollInv, tables
  <2>2. CASE p \in Sources /\ Stop(p)
    <3>1. Goes
      BY <2>2, StopMakes DEF PollInv, Stop, tables, At
    <3>2. QED BY <2>2, <3>1, StopMakes DEF PollInv, Stop, tables
  <2>3. CASE Fetch(p)
    <3>1. Goes
      BY <2>3, FetchMakes DEF PollInv, Failed, Fetched, Idle, tables, At
    <3>2. QED BY <2>3, <3>1, FetchMakes DEF PollInv, tables
  <2>4. CASE Return(p)
    <3>1. Goes
      BY <2>4, ReturnMakes DEF PollInv, Failed, Idle, tables, At
    <3>2. QED BY <2>4, <3>1, ReturnMakes DEF PollInv, tables
  <2>5. ASSUME NEW i \in Items, Insert(p, i) PROVE PollInv'
    <3>1. rows \subseteq rows'
      BY <2>5, InsertMakes DEF Took, Missed
    <3>2. CASE Took(p, i)
      <4>1. \A m \in Matches(i, poll[p].snap) : m[1] \in rows' /\ Reason(m) # "none"
        BY <3>2 DEF Took, Matches
      <4>2. /\ \A q \in Polls \ {p} : poll'[q] = poll[q]
            /\ poll'[p].todo = Matches(i, poll[p].snap) /\ poll'[p].snap = poll[p].snap
            /\ poll'[p].step # "match" => poll'[p].todo = {}
            /\ UNCHANGED <<creds, gone>>
        BY <2>5, <3>2, InsertMakes DEF Took
      <4>3. QED BY <3>1, <4>1, <4>2 DEF PollInv
    <3>3. CASE Missed(p, i)
      BY <2>5, <3>1, <3>3, InsertMakes DEF PollInv, Missed
    <3>4. QED BY <2>5, <3>2, <3>3, InsertMakes
  <2>6. ASSUME NEW m \in Pairs, InsertMatch(p, m) PROVE PollInv'
    <3>1. /\ \A q \in Polls \ {p} : poll'[q] = poll[q]
          /\ poll'[p].todo \subseteq poll[p].todo /\ poll'[p].snap = poll[p].snap
          /\ poll'[p].step # "match" => poll'[p].todo = {}
          /\ UNCHANGED <<creds, gone, rows>>
      BY <2>6, InsertMatchMakes
    <3>2. QED BY <3>1 DEF PollInv
  <2>7. QED BY <1>2, <2>1, <2>2, <2>3, <2>4, <2>5, <2>6 DEF PollStep
<1>3. QED BY <1>1, <1>2, NextCases

\* A poll that stores nothing touches no row and no match.
LEMMA PollReads ==
  ASSUME FeedAssumption, TypeOK, NEW p \in Polls, PollStep(p)
  PROVE  \/ UNCHANGED <<creds, gone, rows, active, dismissed, snapOf>> 
         \/ \E i \in Items : Insert(p, i)
         \/ \E m \in Pairs : InsertMatch(p, m)
BY BeginMakes, FetchMakes, ReturnMakes DEF PollStep, Stop, tables

LEMMA NextSnapInv == FeedAssumption /\ FeedInv /\ Next => SnapInv' /\ ReasonInv'
<1> SUFFICES ASSUME FeedAssumption, FeedInv, Next PROVE SnapInv' /\ ReasonInv'
  OBVIOUS
<1> USE DEF FeedInv
<1>1. CASE UserStep
  BY <1>1, UserKeeps DEF SnapInv, ReasonInv
<1>2. ASSUME NEW p \in Polls, PollStep(p) PROVE SnapInv' /\ ReasonInv'
  <2>0. poll[p].snap \subseteq creds \cup gone
    BY DEF PollInv
  <2>1. ASSUME NEW i \in Items, Insert(p, i) PROVE SnapInv' /\ ReasonInv'
    <3>1. ReasonInv'
      BY <2>1, InsertMakes DEF ReasonInv
    <3>2. CASE Took(p, i)
      <4>1. \A j \in rows' : (j \in rows /\ snapOf'[j] = snapOf[j]) \/ snapOf'[j] = poll[p].snap
        BY <3>2 DEF Took, TypeOK
      <4>2. UNCHANGED <<creds, gone, silent>>
        BY <2>1, InsertMakes, <3>2 DEF Took
      <4>3. QED BY <2>0, <3>1, <4>1, <4>2 DEF SnapInv
    <3>3. CASE Missed(p, i)
      BY <2>1, <3>1, <3>3, InsertMakes DEF SnapInv, Missed
    <3>4. QED BY <2>1, <3>2, <3>3, InsertMakes
  <2>2. ASSUME NEW m \in Pairs, InsertMatch(p, m) PROVE SnapInv' /\ ReasonInv'
    <3>1. Storable(m) => Reason(m) \in {"issuer_match", "keyword"}
      <4>1. Reason(m) # "none"
        <5>1. m \in poll[p].todo
          BY <2>2, InsertMatchMakes
        <5>2. QED BY <5>1 DEF PollInv
      <4>2. QED BY <4>1 DEF Storable, Reason
    <3>2. \A n \in active' : n \in active \/ (n = m /\ Storable(m))
      <4>1. \/ active' = IF Storable(m) /\ m \notin dismissed THEN active \cup {m} ELSE active
            \/ active' = active
        BY <2>2, InsertMatchMakes
      <4>2. CASE active' = active
        BY <4>2
      <4>3. CASE Storable(m) /\ active' = active \cup {m}
        BY <4>3
      <4>4. QED BY <4>1, <4>2, <4>3
    <3>4. ReasonInv'
      BY <3>1, <3>2 DEF ReasonInv
    <3>3. QED BY <2>2, <3>4, InsertMatchMakes DEF SnapInv
  <2>4. CASE UNCHANGED <<creds, gone, rows, active, dismissed, snapOf>>
    <3>1. silent => silent'
      BY <1>2, BeginMakes, FetchMakes, ReturnMakes, InsertMakes, InsertMatchMakes
      DEF PollStep, Stop, Failed, Fetched, Took, Missed
    <3>2. QED BY <2>4, <3>1 DEF SnapInv, ReasonInv
  <2>5. QED BY <1>2, <2>1, <2>2, <2>4, PollReads
<1>3. QED BY <1>1, <1>2, NextCases

-----------------------------------------------------------------------------
(* Rows and announcements.                                                 *)

\* Why a match is one depends on no variable.
LEMMA ReasonFixed == \A m : Reason(m)' = Reason(m)
BY DEF Reason, Incident, IssuerMatch, DomainMatch, KeywordMatch, NormalizeRss, NormalizeWindow,
       NormalizeHibp

\* A step that stores no row, takes back no match, and leaves every poll that
\* owes an announcement owing it.
LEMMA RowsKept ==
  ASSUME RowInv, SnapInv, UNCHANGED <<rows, snapOf, shown>>, silent => silent',
         creds' \cap (creds \cup gone) \subseteq creds, gone \subseteq gone',
         \A m \in dismissed : m \in dismissed' \/ gone' # {},
         \A m \in active \cup dismissed : m[2] \in creds' => m \in active' \cup dismissed',
         ~silent' => \A p \in Polls : Owes(p) =>
           /\ Owes(p)'
           /\ \A m \in poll[p].todo : \/ m \in poll'[p].todo \/ m[2] \notin creds'
                                      \/ Reason(m) = "domain" \/ m \in active' \cup dismissed'
  PROVE  RowInv'
<1> SUFFICES ASSUME ~silent', NEW i \in rows
             PROVE  /\ \/ i \in shown.list \/ MatchesOf(i, dismissed') # {} \/ gone' # {}
                       \/ \E p \in Polls : Owes(p)'
                    /\ \A m \in Matches(i, snapOf[i]) : m[2] \in creds' /\ Reason(m) # "domain" =>
                         /\ \/ m \in active' \cup dismissed'
                            \/ \E p \in Polls : Owes(p)' /\ m \in poll'[p].todo
                         /\ m \in shown.panels \/ \E p \in Polls : Owes(p)'
  BY ReasonFixed DEF RowInv, Storable, MatchesOf, Matches
<1>1. \A p \in Polls : Owes(p) => Owes(p)'
  OBVIOUS
<1>2. \/ i \in shown.list \/ MatchesOf(i, dismissed') # {} \/ gone' # {}
      \/ \E p \in Polls : Owes(p)'
  <2>1. \/ i \in shown.list \/ MatchesOf(i, dismissed) # {} \/ gone # {}
        \/ \E p \in Polls : Owes(p)
    BY DEF RowInv
  <2>2. MatchesOf(i, dismissed) # {} => MatchesOf(i, dismissed') # {} \/ gone' # {}
    BY DEF MatchesOf
  <2>3. QED BY <1>1, <2>1, <2>2
<1>3. ASSUME NEW m \in Matches(i, snapOf[i]), m[2] \in creds', Reason(m) # "domain"
      PROVE  /\ \/ m \in active' \cup dismissed'
                \/ \E p \in Polls : Owes(p)' /\ m \in poll'[p].todo
             /\ m \in shown.panels \/ \E p \in Polls : Owes(p)'
  <2>1. m[2] \in snapOf[i]
    BY <1>3 DEF Matches
  <2>2. Storable(m)
    BY <1>3, <2>1 DEF SnapInv, Storable
  <2>3. /\ \/ m \in active \cup dismissed
           \/ \E p \in Polls : Owes(p) /\ m \in poll[p].todo
        /\ m \in shown.panels \/ \E p \in Polls : Owes(p)
    BY <1>3, <2>2 DEF RowInv
  <2>4. QED BY <1>1, <1>3, <2>3
<1>4. QED BY <1>2, <1>3

\* The list and the panels are read again: they hold all that is stored, but for
\* what other polls have still to store.
LEMMA RowsAnnounced ==
  ASSUME FeedAssumption, TypeOK, RowInv, NEW p \in Polls, Announce(1), poll[p].todo = {},
         UNCHANGED <<tables, snapOf, silent>>, \A q \in Polls \ {p} : poll'[q] = poll[q]
  PROVE  RowInv'
<1>1. shown' = [list |-> IncidentList, panels |-> UNION {ForCredential(c) : c \in creds}]
  BY DEF Announce
<1>2. ASSUME ~silent', NEW i \in rows
      PROVE  /\ i \in shown'.list \/ MatchesOf(i, dismissed) # {}
             /\ \A m \in Matches(i, snapOf[i]) : Storable(m) =>
                  /\ \/ m \in active \cup dismissed
                     \/ \E q \in Polls : Owes(q)' /\ m \in poll'[q].todo
                  /\ m \in shown'.panels \/ \E q \in Polls : Owes(q)'
  <2>1. i \in shown'.list \/ MatchesOf(i, dismissed) # {}
    BY <1>1 DEF IncidentList, Visible, Hidden
  <2>2. ASSUME NEW m \in Matches(i, snapOf[i]), Storable(m)
        PROVE  /\ \/ m \in active \cup dismissed
                  \/ \E q \in Polls : Owes(q)' /\ m \in poll'[q].todo
               /\ m \in shown'.panels \/ \E q \in Polls : Owes(q)'
    <3>1. \/ m \in active \cup dismissed
          \/ \E q \in Polls : Owes(q) /\ m \in poll[q].todo
      BY <1>2, <2>2 DEF RowInv
    <3>2. CASE m \in active \cup dismissed
      <4>1. m \in ForCredential(m[2]) /\ m[2] \in creds
        BY <2>2, <3>2 DEF ForCredential, Storable
      <4>2. QED BY <1>1, <3>2, <4>1
    <3>3. ASSUME NEW q \in Polls, Owes(q), m \in poll[q].todo
          PROVE  Owes(q)' /\ m \in poll'[q].todo
      BY <3>3 DEF Owes
    <3>4. QED BY <3>1, <3>2, <3>3
  <2>3. QED BY <2>1, <2>2
<1>3. \A i, c : MatchesOf(i, dismissed)' = MatchesOf(i, dismissed)
  BY DEF MatchesOf, tables
<1>4. \A i \in rows : Matches(i, snapOf[i])' = Matches(i, snapOf[i])
  BY ReasonFixed DEF Matches
<1>5. \A m : Storable(m)' <=> Storable(m)
  BY ReasonFixed DEF Storable, tables
<1>6. QED BY <1>2, <1>3, <1>4, <1>5 DEF RowInv, tables

LEMMA InsertRowInv ==
  ASSUME FeedAssumption, FeedInv, NEW p \in Polls, NEW i \in Items, Insert(p, i)
  PROVE  RowInv'
<1> USE DEF FeedInv
<1>0. /\ \A q \in Polls \ {p} : poll'[q] = poll[q]
      /\ poll[p].step = "insert" /\ poll[p].todo = {} /\ poll[p].count \in Nat
      /\ UNCHANGED <<creds, gone, active, dismissed, shown>>
  BY InsertMakes DEF At, PollInv, TypeOK, Poll
<1>1. CASE Missed(p, i)
  <2>1. silent => silent'
    BY <1>1 DEF Missed
  <2>2. CASE ~silent' /\ rows' # rows
    BY <1>1, <2>2 DEF Missed
  <2>3. CASE silent'
    BY <2>3 DEF RowInv
  <2>4. CASE rows' = rows
    <3>1. \A q \in Polls : Owes(q) => Owes(q)' /\ poll'[q].todo = poll[q].todo
      BY <1>0, <1>1 DEF Owes, Missed
    <3>2. QED BY <1>0, <1>1, <2>1, <2>4, <3>1, RowsKept DEF Missed
  <2>5. QED BY <2>2, <2>3, <2>4
<1>2. CASE Took(p, i)
  <2>1. \A q \in Polls : Owes(q) => Owes(q)' /\ \A m \in poll[q].todo : m \in poll'[q].todo
    BY <1>0, <1>2 DEF Owes, Took, Count
  <2>2. CASE i \in rows
    <3>1. rows' = rows /\ snapOf' = snapOf /\ silent' = silent
      BY <1>2, <2>2 DEF Took
    <3>2. QED BY <1>0, <2>1, <3>1, RowsKept
  <2>3. CASE i \notin rows
    <3>1. Owes(p)'
      BY <1>0, <1>2, <2>3 DEF Owes, Took, Count
    <3>2. /\ rows' = rows \cup {i} /\ silent' = silent /\ snapOf'[i] = poll[p].snap
          /\ \A j \in rows : snapOf'[j] = snapOf[j]
      BY <1>2, <2>3 DEF Took, TypeOK
    <3>3. ASSUME NEW m \in Matches(i, poll[p].snap)
          PROVE  m \in poll'[p].todo
      BY <1>2, <3>3 DEF Took
    <3>4. ASSUME ~silent, NEW j \in rows, NEW m \in Matches(j, snapOf[j]), Storable(m)
          PROVE  m \in active \cup dismissed \/ \E q \in Polls : Owes(q)' /\ m \in poll'[q].todo
      BY <2>1, <3>4 DEF RowInv
    <3>5. ASSUME ~silent', NEW j \in rows', NEW m \in Matches(j, snapOf'[j]), Storable(m)
          PROVE  m \in active \cup dismissed \/ \E q \in Polls : Owes(q)' /\ m \in poll'[q].todo
      BY <3>1, <3>2, <3>3, <3>4, <3>5
    <3>7. \A m : Storable(m)' <=> Storable(m)
      BY <1>0, ReasonFixed DEF Storable
    <3>8. \A j \in rows' : Matches(j, snapOf[j])' = Matches(j, snapOf'[j])
      BY ReasonFixed DEF Matches
    <3>9. QED BY <1>0, <3>1, <3>5, <3>7, <3>8 DEF RowInv
  <2>4. QED BY <2>2, <2>3
<1>3. QED BY <1>1, <1>2, InsertMakes

LEMMA InsertMatchRowInv ==
  ASSUME FeedAssumption, FeedInv, NEW p \in Polls, NEW m \in Pairs, InsertMatch(p, m)
  PROVE  RowInv'
<1> USE DEF FeedInv
<1>0. /\ \A q \in Polls \ {p} : poll'[q] = poll[q]
      /\ poll[p].step = "match" /\ poll'[p].step \in {"insert", "match"}
      /\ poll'[p].count = poll[p].count /\ poll'[p].todo = poll[p].todo \ {m}
      /\ UNCHANGED <<creds, gone, rows, dismissed, shown, snapOf>>
  BY InsertMatchMakes DEF At
<1>1. CASE silent'
  BY <1>1 DEF RowInv
<1>2. CASE /\ UNCHANGED silent
           /\ active' = IF Storable(m) /\ m \notin dismissed THEN active \cup {m} ELSE active
  <2>1. active \subseteq active' /\ (Storable(m) => m \in active' \cup dismissed)
    BY <1>2
  <2>2. \A q \in Polls : Owes(q) =>
          /\ Owes(q)'
          /\ \A n \in poll[q].todo : \/ n \in poll'[q].todo \/ n[2] \notin creds'
                                     \/ Reason(n) = "domain" \/ n \in active' \cup dismissed'
    BY <1>0, <2>1 DEF Owes, Storable
  <2>3. QED BY <1>0, <1>2, <2>1, <2>2, RowsKept
<1>3. QED BY <1>1, <1>2, InsertMatchMakes

LEMMA NextRowInv == FeedAssumption /\ FeedInv /\ Next => RowInv'
<1> SUFFICES ASSUME FeedAssumption, FeedInv, Next PROVE RowInv'
  OBVIOUS
<1> USE DEF FeedInv
<1>1. CASE UserStep
  <2>1. \A q \in Polls : Owes(q) => Owes(q)' /\ poll'[q].todo = poll[q].todo
    BY <1>1, UserKeeps DEF Owes
  <2>2. QED BY <1>1, <2>1, UserKeeps, RowsKept
<1>2. ASSUME NEW p \in Polls, PollStep(p) PROVE RowInv'
  <2>0. poll[p].count \in Nat /\ (poll[p].step # "match" => poll[p].todo = {})
    BY DEF TypeOK, Poll, PollInv
  \* Nothing is stored, the others go on as before, and an announcement that is
  \* owed is owed on.
  <2> DEFINE Keeps == /\ UNCHANGED <<creds, gone, rows, active, dismissed, snapOf, shown>>
                      /\ \A q \in Polls \ {p} : poll'[q] = poll[q]
                      /\ silent => silent'
                      /\ ~silent' /\ Owes(p) => Owes(p)' /\ poll'[p].todo = poll[p].todo
  <2>1. Keeps => RowInv'
    <3>1. ASSUME Keeps
          PROVE  ~silent' => \A q \in Polls : Owes(q) => Owes(q)' /\ poll'[q].todo = poll[q].todo
      BY <3>1 DEF Owes
    <3>2. QED BY <3>1, RowsKept
  <2>2. CASE (p \in Sources /\ Tick(p)) \/ (p = "refresh" /\ Refresh)
    <3>1. ~Owes(p)
      BY <2>2, BeginMakes DEF Owes, At
    <3>2. silent => silent'
      BY <2>2, BeginMakes DEF Failed
    <3>3. Keeps
      BY <2>2, <3>1, <3>2, BeginMakes DEF tables
    <3>4. QED BY <2>1, <3>3
  <2>3. CASE p \in Sources /\ Stop(p)
    <3>1. ~Owes(p)
      BY <2>3, StopMakes DEF Owes, At
    <3>2. Keeps
      BY <2>3, <3>1, StopMakes DEF Stop, tables
    <3>3. QED BY <2>1, <3>2
  <2>4. CASE Fetch(p)
    <3>1. silent => silent'
      BY <2>4, FetchMakes DEF Failed, Fetched
    <3>2. ~silent' /\ Owes(p) => Owes(p)' /\ poll'[p].todo = poll[p].todo
      BY <2>4, FetchMakes DEF Failed, Fetched, Owes
    <3>3. Keeps
      BY <2>4, <3>1, <3>2, FetchMakes DEF tables
    <3>4. QED BY <2>1, <3>3
  <2>5. CASE Return(p)
    <3>1. /\ \A q \in Polls \ {p} : poll'[q] = poll[q]
          /\ UNCHANGED <<creds, gone, rows, active, dismissed, snapOf>> /\ poll[p].todo = {}
      BY <2>0, <2>5, ReturnMakes DEF tables, At
    <3>2. CASE Failed(p) /\ UNCHANGED shown
      BY <2>1, <3>1, <3>2 DEF Failed, Owes
    <3>3. CASE /\ poll'[p].step = "fetch" /\ poll'[p].todo = poll[p].todo
               /\ poll'[p].count = poll[p].count /\ UNCHANGED <<silent, shown>>
      BY <2>1, <3>1, <3>3 DEF Owes
    <3>4. CASE Announce(1) /\ UNCHANGED silent
      BY <3>1, <3>4, RowsAnnounced DEF tables
    <3>5. CASE poll[p].count = 0 /\ UNCHANGED <<silent, shown>>
      BY <2>1, <3>1, <3>5 DEF Owes
    <3>6. QED BY <2>5, <3>2, <3>3, <3>4, <3>5, ReturnMakes
  <2>6. ASSUME NEW i \in Items, Insert(p, i) PROVE RowInv'
    BY <2>6, InsertRowInv
  <2>7. ASSUME NEW m \in Pairs, InsertMatch(p, m) PROVE RowInv'
    BY <2>7, InsertMatchRowInv
  <2>8. QED BY <1>2, <2>2, <2>3, <2>4, <2>5, <2>6, <2>7 DEF PollStep
<1>3. QED BY <1>1, <1>2, NextCases

LEMMA FeedInvInductive == FeedAssumption /\ FeedInv /\ [Next]_vars => FeedInv'
<1> SUFFICES ASSUME FeedAssumption, FeedInv, [Next]_vars PROVE FeedInv'
  OBVIOUS
<1>1. CASE Next
  <2>1. TypeOK'
    BY <1>1, NextCases, UserTyped, PollTyped DEF FeedInv
  <2>2. QED BY <1>1, <2>1, NextPollInv, NextSnapInv, NextRowInv DEF FeedInv
<1>2. CASE UNCHANGED vars
  <2> USE <1>2 DEF vars, feeds, tables, breaker
  <2>1. TypeOK' /\ PollInv'
    BY DEF FeedInv, TypeOK, PollInv
  <2>2. SnapInv' /\ ReasonInv'
    BY DEF FeedInv, SnapInv, ReasonInv
  <2>3. RowInv'
    BY RowsKept DEF FeedInv, Owes
  <2>4. QED BY <2>1, <2>2, <2>3 DEF FeedInv
<1>3. QED BY <1>1, <1>2

-----------------------------------------------------------------------------
(* Theorems.                                                               *)

\* The types, and that no match is active and dismissed at once, or of an incident
\* or a credential that is not there.
THEOREM FeedsTyped == Spec => []TypeOK
<1>1. FeedInv => TypeOK
  BY DEF FeedInv
<1>2. QED BY <1>1, InitFeedInv, FeedInvInductive, FeedAssumption, PTL DEF Spec

\* A severe alert of a credential is shown on every site of its issuer.
LEMMA BannerShows ==
  ASSUME FeedAssumption, TypeOK, ReasonInv, NEW m \in active,
         NEW d \in Domains[Owner[m[2]]], Incident(m[1]).severe
  PROVE  m[1] \in Banner(d)
<1> DEFINE i == m[1]
           n == Incident(m[1])
<1>1. m \in Pairs /\ i \in Items /\ m[2] \in Creds /\ i \in rows
  BY DEF TypeOK, Pairs
<1>2. Owner[m[2]] \in Issuers /\ d \in Hosts
  BY <1>1 DEF FeedAssumption
<1>3. i \in Visible
  BY <1>1 DEF Visible, Hidden, MatchesOf
<1>4. Owner[m[2]] \in BannerIssuers(n)
  <2>1. CASE IssuerMatch(n, m[2])
    BY <2>1 DEF IssuerMatch, BannerIssuers
  <2>2. CASE ~IssuerMatch(n, m[2])
    <3>1. SourceOf[i] \in Sources /\ Entry[i].severe \in BOOLEAN
      BY <1>1 DEF FeedAssumption
    <3>2. SourceOf[i] # "rss"
      BY <1>1, <3>1 DEF Incident, NormalizeRss, FeedAssumption, Windowed
    <3>3. n.slug = None
      BY <1>1, <3>1, <3>2 DEF Incident, NormalizeWindow, NormalizeHibp, FeedAssumption, Sources, Windowed
    <3>4. QED BY <1>2, <3>3 DEF BannerIssuers
  <2>3. QED BY <2>1, <2>2
<1>5. MatchesHost(n, d)
  BY <1>2, <1>4 DEF MatchesHost, Related, FeedAssumption
<1>6. QED BY <1>3, <1>5 DEF Banner, OnHost

\* Once every poll is over, what the interface has read has every stored incident and
\* its matches, unless a failed statement or refresh lost the announcement; and a
\* severe alert of a credential is shown on the sites of its issuer at all times.
THEOREM AlwaysAnnounced == Spec => []Announced
<1>1. FeedAssumption /\ FeedInv => Announced
  <2> SUFFICES ASSUME FeedAssumption, FeedInv PROVE Announced
    OBVIOUS
  <2>1. AllIdle => \A p \in Polls : ~Owes(p)
    BY DEF AllIdle, Owes
  <2>2. \A m \in active : \A d \in Domains[Owner[m[2]]] :
          Incident(m[1]).severe => m[1] \in Banner(d)
    BY BannerShows DEF FeedInv
  <2>3. QED BY <2>1, <2>2 DEF FeedInv, RowInv, Announced
<1>2. QED BY <1>1, InitFeedInv, FeedInvInductive, FeedAssumption, PTL DEF Spec

\* No poll that finds a dismissed match again makes it active while its credential
\* is there.
THEOREM DismissedMatchesStay == Spec => DismissedStays
<1>1. FeedAssumption /\ FeedInv /\ [Next]_vars
        => [\A m \in dismissed : m \in dismissed' \/ m[2] \notin creds']_vars
  <2> SUFFICES ASSUME FeedAssumption, FeedInv, Next, NEW m \in dismissed
               PROVE  m \in dismissed' \/ m[2] \notin creds'
    OBVIOUS
  <2>1. CASE UserStep
    BY <2>1 DEF UserStep, Publish, Dismiss, AddCredential, DeleteCredential, Sleep, AskExit, Shutdown,
       Joined, feeds, tables, breaker
  <2>2. ASSUME NEW p \in Polls, PollStep(p) PROVE dismissed' = dismissed
    BY <2>2, PollReads, InsertMakes, InsertMatchMakes DEF FeedInv
  <2>3. QED BY <2>1, <2>2, NextCases
<1>2. QED BY <1>1, InitFeedInv, FeedInvInductive, FeedAssumption, PTL DEF Spec, DismissedStays

-----------------------------------------------------------------------------
(***************************************************************************)
(* SecurityChecks, for any credentials, values, checks and bounds: a check *)
(* has a number of its own and no rows of the credentials it has still to  *)
(* come to (RunInv), and one that nothing disturbs goes by what is there   *)
(* (QuietCheck).                                                           *)
(***************************************************************************)

Runs(t) == check[t].step # "idle"

\* A row is of a check that has begun; one that is under way has a number of its
\* own, and no rows of the credentials it has still to come to.
RunInv ==
  /\ \A r \in alerts : r.run <= runs
  /\ \A t \in Tasks : Runs(t) =>
       /\ check[t].run \in 1..runs
       /\ \A u \in Tasks \ {t} : Runs(u) => check[u].run # check[t].run
       /\ \A r \in alerts : r.run = check[t].run
            => CheckAt(t, "replace") /\ r.cred \notin check[t].left

Exact(c) == \A kind \in Kinds : True(c, kind) <=> \E r \in Active : r.cred = c /\ r.kind = kind

\* What an undisturbed check has found.
Finds(t) ==
  CASE CheckAt(t, "leaks")   -> [cred : credentials, kind : Kinds \ {"compromised_password"}]
    [] CheckAt(t, "replace") -> [cred : credentials, kind : Kinds]

\* An undisturbed check goes by what is there ...
QuietCheck(t) ==
  /\ Alone(t)
  /\ quiet = IF check[t].force THEN "leaks" ELSE "local"
  /\ ~CheckAt(t, "list") => check[t].snap = credentials
  /\ check[t].step \in {"local", "leaks", "replace"} =>
       check[t].got = [c \in Credentials |-> IF c \in credentials THEN value[c] ELSE Unread]
  /\ CheckAt(t, "leaks") => check[t].force
  /\ check[t].step \in {"leaks", "replace"} =>
       check[t].found = {a \in Finds(t) : True(a.cred, a.kind)}
  /\ CheckAt(t, "leaks") => check[t].left = credentials
  /\ CheckAt(t, "replace") => /\ check[t].left \subseteq credentials
                              /\ \A c \in credentials \ check[t].left : Exact(c)

\* ... and leaves it exact.
QuietInv ==
  quiet # "no" => /\ open
                  /\ \A t \in Tasks : Runs(t) => QuietCheck(t)
                  /\ AllChecksIdle => \A c \in credentials : Exact(c)

CheckInv == ChecksTypeOK /\ RunInv /\ QuietInv /\ AlertsOfOneCheck

-----------------------------------------------------------------------------
(* Types and rows.                                                         *)

LEMMA InitCheckInv == CheckAssumption /\ ChecksInit => CheckInv
<1> SUFFICES ASSUME CheckAssumption, ChecksInit PROVE CheckInv
  OBVIOUS
<1>1. ChecksTypeOK
  BY DEF CheckAssumption, ChecksInit, ChecksTypeOK, Check, IdleCheck
<1>2. RunInv /\ AlertsOfOneCheck /\ QuietInv
  BY DEF ChecksInit, RunInv, AlertsOfOneCheck, QuietInv, Runs, Active, IdleCheck
<1>3. QED BY <1>1, <1>2 DEF CheckInv

\* Only BeginCheck, and the steps of a check, change what the tasks are doing.
UserEdits ==
  \/ \E r \in Rows : DismissAlert(r) \/ Undismiss(r)
  \/ \E c \in Credentials : Delete(c) \/ \E v \in Values : Rotate(c, v)
  \/ LockOrUnlock

LEMMA UserStepIs ==
  ASSUME UserEdits
  PROVE  quiet' = "no" /\ alerts' \subseteq alerts /\ UNCHANGED <<check, runs, checkFaults>>
BY DEF UserEdits, DismissAlert, Undismiss, Delete, Rotate, LockOrUnlock, alertTables

LEMMA UserTypeOK == CheckAssumption /\ ChecksTypeOK /\ UserEdits => ChecksTypeOK'
<1> SUFFICES ASSUME CheckAssumption, ChecksTypeOK, UserEdits PROVE ChecksTypeOK'
  OBVIOUS
<1> USE DEF CheckAssumption, ChecksTypeOK, UserEdit, Active
<1>1. ASSUME NEW r \in Rows, DismissAlert(r) PROVE ChecksTypeOK'
  BY <1>1 DEF DismissAlert
<1>2. ASSUME NEW r \in Rows, Undismiss(r) PROVE ChecksTypeOK'
  BY <1>2 DEF Undismiss
<1>3. ASSUME NEW c \in Credentials, Delete(c) PROVE ChecksTypeOK'
  BY <1>3 DEF Delete
<1>4. ASSUME NEW c \in Credentials, NEW v \in Values, Rotate(c, v) PROVE ChecksTypeOK'
  BY <1>4 DEF Rotate
<1>5. CASE LockOrUnlock
  BY <1>5 DEF LockOrUnlock, alertTables
<1>6. QED BY <1>1, <1>2, <1>3, <1>4, <1>5 DEF UserEdits

\* A task's check is replaced by another one.
LEMMA CheckTyped ==
  ASSUME ChecksTypeOK, NEW t \in Tasks, NEW r \in Check, check' = [check EXCEPT ![t] = r]
  PROVE  /\ check' \in [Tasks -> Check] /\ check'[t] = r
         /\ \A u \in Tasks \ {t} : check'[u] = check[u]
BY DEF ChecksTypeOK

\* A check that goes on keeps its number.
LEMMA StepChecks ==
  ASSUME CheckAssumption, ChecksTypeOK, RunInv, NEW t \in Tasks,
         CheckStep(t) \/ \E force \in BOOLEAN : BeginCheck(t, force)
  PROVE  /\ check' \in [Tasks -> Check]
         /\ \A u \in Tasks \ {t} : check'[u] = check[u]
<1> USE DEF CheckAssumption, RunInv, Runs, CheckAt
<1>0. check[t] \in Check
  BY DEF ChecksTypeOK
<1>1. ASSUME NEW force \in BOOLEAN, BeginCheck(t, force)
      PROVE  \E r \in Check : check' = [check EXCEPT ![t] = r]
  <2> DEFINE r == [IdleCheck EXCEPT !.step = "list", !.run = runs + 1, !.force = force]
  <2>1. check' = [check EXCEPT ![t] = r]
    BY <1>1 DEF BeginCheck
  <2>2. runs \in 0..MaxRuns /\ runs < MaxRuns
    BY <1>1 DEF BeginCheck, ChecksTypeOK
  <2>3. runs + 1 \in 0..MaxRuns
    BY <2>2
  <2>4. r \in Check
    BY <2>3 DEF IdleCheck, Check
  <2>5. QED BY <2>1, <2>4
<1>2. ASSUME List(t) PROVE \E r \in Check : check' = [check EXCEPT ![t] = r]
  <2> DEFINE r == [check[t] EXCEPT !.step = "read", !.snap = credentials]
  <2>1. check' = [check EXCEPT ![t] = r]
    BY <1>0, <1>2 DEF List, Check
  <2>2. r \in Check
    BY <1>0 DEF Check, ChecksTypeOK
  <2>3. QED BY <2>1, <2>2
<1>3. ASSUME Read(t) PROVE \E r \in Check : check' = [check EXCEPT ![t] = r]
  <2> DEFINE g == [c \in Credentials |-> IF open /\ c \in check[t].snap \cap credentials
                                     THEN value[c] ELSE Unread]
             r == [check[t] EXCEPT !.step = "local", !.got = g]
  <2>1. check' = [check EXCEPT ![t] = r]
    BY <1>0, <1>3 DEF Read, Check
  <2>2. g \in [Credentials -> Values \cup {Unread}]
    BY DEF ChecksTypeOK
  <2>3. r \in Check
    BY <1>0, <2>2 DEF Check
  <2>4. QED BY <2>1, <2>3
<1>4. ASSUME LocalChecks(t) PROVE \E r \in Check : check' = [check EXCEPT ![t] = r]
  <2>1. PICK supported \in {Unguarded, {}} :
          check' = [check EXCEPT
            ![t].found = Local(check[t].snap, check[t].got, supported),
            ![t].left = check[t].snap,
            ![t].step = IF check[t].force THEN "leaks"
                        ELSE IF check[t].snap = {} THEN "idle" ELSE "replace"]
    BY <1>4 DEF LocalChecks
  <2> DEFINE f == Local(check[t].snap, check[t].got, supported)
             r == [check[t] EXCEPT !.found = f, !.left = check[t].snap,
                     !.step = IF check[t].force THEN "leaks"
                              ELSE IF check[t].snap = {} THEN "idle" ELSE "replace"]
  <2>2. check' = [check EXCEPT ![t] = r]
    BY <1>0, <2>1 DEF Check
  <2>3. check[t].snap \subseteq Credentials
    BY <1>0 DEF Check
  <2>4. f \subseteq Alerts
    BY <2>3 DEF Local, Reused, Alerts, Kinds
  <2> HIDE DEF f
  <2>5. r \in Check
    BY <1>0, <2>3, <2>4 DEF Check
  <2>6. QED BY <2>2, <2>5
<1>5. ASSUME Leaks(t) PROVE \E r \in Check : check' = [check EXCEPT ![t] = r]
  <2>1. PICK failed :
          check' = [check EXCEPT
            ![t].found = @ \cup [cred : {c \in check[t].snap \ failed : check[t].got[c] \in Leaked},
                                 kind : {"compromised_password"}],
            ![t].step = IF check[t].snap = {} THEN "idle" ELSE "replace"]
    BY <1>5 DEF Leaks
  <2> DEFINE f == check[t].found
                    \cup [cred : {c \in check[t].snap \ failed : check[t].got[c] \in Leaked},
                          kind : {"compromised_password"}]
             r == [check[t] EXCEPT !.found = f,
                     !.step = IF check[t].snap = {} THEN "idle" ELSE "replace"]
  <2>2. check' = [check EXCEPT ![t] = r]
    BY <1>0, <2>1 DEF Check
  <2>3. check[t].snap \subseteq Credentials /\ check[t].found \subseteq Alerts
    BY <1>0 DEF Check
  <2>4. f \subseteq Alerts
    BY <2>3 DEF Alerts, Kinds
  <2> HIDE DEF f
  <2>5. r \in Check
    BY <1>0, <2>4 DEF Check
  <2>6. QED BY <2>2, <2>5
<1>6. ASSUME Replace(t) PROVE \E r \in Check : check' = [check EXCEPT ![t] = r]
  <2>1. IdleCheck \in Check
    BY DEF IdleCheck, Check, CheckAssumption
  <2>2. PICK c : check' = [check EXCEPT ![t] = IdleCheck]
              \/ check' = [check EXCEPT ![t] = IF check[t].left = {c} THEN IdleCheck
                                               ELSE [check[t] EXCEPT !.left = @ \ {c}]]
    BY <1>6 DEF Replace
  <2> DEFINE r == [check[t] EXCEPT !.left = @ \ {c}]
  <2>3. r \in Check
    BY <1>0 DEF Check
  <2>4. check' = [check EXCEPT ![t] = IdleCheck] \/ check' = [check EXCEPT ![t] = r]
    BY <2>2
  <2>5. QED BY <2>1, <2>3, <2>4
<1>7. \E r \in Check : check' = [check EXCEPT ![t] = r]
  BY <1>1, <1>2, <1>3, <1>4, <1>5, <1>6 DEF CheckStep
<1>8. QED BY <1>7, CheckTyped

\* What each step makes of its check.
LEMMA BeginCheckMakes ==
  ASSUME ChecksTypeOK, NEW t \in Tasks, NEW force \in BOOLEAN, BeginCheck(t, force)
  PROVE  check'[t].step = "list" /\ check'[t].run = runs + 1 /\ check'[t].force = force
BY DEF BeginCheck, IdleCheck, ChecksTypeOK, Check, CheckAt

GoesOn(t) ==
  /\ check'[t].run = check[t].run /\ check'[t].force = check[t].force
  /\ UNCHANGED <<alertTables, open, runs>>

LEMMA ListMakes ==
  ASSUME ChecksTypeOK, NEW t \in Tasks, List(t)
  PROVE  GoesOn(t) /\ check'[t].step = "read" /\ check'[t].snap = credentials /\ quiet' = quiet
BY DEF List, GoesOn, ChecksTypeOK, Check, CheckAt

LEMMA ReadMakes ==
  ASSUME ChecksTypeOK, NEW t \in Tasks, Read(t)
  PROVE  /\ GoesOn(t) /\ check'[t].step = "local" /\ check'[t].snap = check[t].snap
         /\ check'[t].got = [c \in Credentials |-> IF open /\ c \in check[t].snap \cap credentials
                                               THEN value[c] ELSE Unread]
         /\ quiet' = quiet
BY DEF Read, GoesOn, ChecksTypeOK, Check, CheckAt

LEMMA LocalMakes ==
  ASSUME ChecksTypeOK, NEW t \in Tasks, LocalChecks(t)
  PROVE  /\ GoesOn(t) /\ check'[t].snap = check[t].snap /\ check'[t].got = check[t].got
         /\ check'[t].left = check[t].snap
         /\ check'[t].step = IF check[t].force THEN "leaks"
                             ELSE IF check[t].snap = {} THEN "idle" ELSE "replace"
         /\ \/ quiet' = "no"
            \/ quiet' = quiet
                 /\ check'[t].found = Local(check[t].snap, check[t].got, Unguarded)
BY DEF LocalChecks, GoesOn, ChecksTypeOK, Check, CheckAt

LEMMA LeaksMakes ==
  ASSUME ChecksTypeOK, NEW t \in Tasks, Leaks(t)
  PROVE  /\ GoesOn(t) /\ check'[t].snap = check[t].snap /\ check'[t].got = check[t].got
         /\ check'[t].left = check[t].left
         /\ check'[t].step = IF check[t].snap = {} THEN "idle" ELSE "replace"
         /\ \/ quiet' = "no"
            \/ quiet' = quiet
                 /\ check'[t].found = check[t].found
                      \cup [cred : {c \in check[t].snap : check[t].got[c] \in Leaked},
                            kind : {"compromised_password"}]
BY DEF Leaks, GoesOn, ChecksTypeOK, Check, CheckAt

\* The transaction of a credential, or the end of the check.
Replaces(t, c) ==
  /\ c \in credentials \/ Found(t, c) = {}
  /\ alerts' = Written(t, c) /\ dismissedAlerts' = dismissedAlerts \cap alerts' /\ quiet' = quiet
  /\ IF check[t].left = {c} THEN check'[t] = IdleCheck
                            ELSE check'[t] = [check[t] EXCEPT !.left = @ \ {c}]

LEMMA ReplaceMakes ==
  ASSUME ChecksTypeOK, NEW t \in Tasks, Replace(t)
  PROVE  \/ \E c \in check[t].left : Replaces(t, c)
         \/ check'[t] = IdleCheck /\ quiet' = "no" /\ UNCHANGED <<alerts, dismissedAlerts>>
<1>1. PICK c \in check[t].left :
        \/ /\ ~(c \notin credentials /\ Found(t, c) # {})
           /\ alerts' = Written(t, c) /\ dismissedAlerts' = dismissedAlerts \cap Written(t, c)
           /\ check' = [check EXCEPT ![t] = IF check[t].left = {c} THEN IdleCheck
                                            ELSE [check[t] EXCEPT !.left = @ \ {c}]]
           /\ quiet' = quiet
        \/ check' = [check EXCEPT ![t] = IdleCheck] /\ quiet' = "no" /\ UNCHANGED <<alerts, dismissedAlerts>>
  BY DEF Replace
<1>2. QED BY <1>1 DEF Replaces, ChecksTypeOK

LEMMA StepTypeOK ==
  ASSUME CheckAssumption, ChecksTypeOK, RunInv, NEW t \in Tasks,
         CheckStep(t) \/ \E force \in BOOLEAN : BeginCheck(t, force)
  PROVE  ChecksTypeOK'
<1>1. check' \in [Tasks -> Check]
  BY StepChecks
<1>2. CASE Replace(t)
  <2>1. UNCHANGED <<credentials, value, open, runs, userEdits, revived>> /\ checkFaults' \in 0..MaxFaults
        /\ quiet' \in {"no", "local", "leaks"}
    BY <1>2 DEF Replace, ChecksTypeOK, CheckAssumption
  <2>2. /\ alerts' \subseteq Rows /\ (\A r \in alerts' : r.cred \in credentials)
        /\ dismissedAlerts' \subseteq alerts'
    <3>1. ASSUME NEW c \in check[t].left, Replaces(t, c)
          PROVE  alerts' \subseteq Rows /\ \A r \in alerts' : r.cred \in credentials
      <4>1. check[t].run \in 1..MaxRuns /\ check[t].found \subseteq Alerts /\ c \in Credentials
        BY <1>2, <3>1 DEF Replace, CheckAt, RunInv, Runs, ChecksTypeOK, Check, CheckAssumption
      <4>2. NewRows(t, c) \subseteq Rows /\ \A r \in NewRows(t, c) : r.cred \in credentials
        BY <3>1, <4>1 DEF NewRows, Found, Alerts, Rows, Replaces
      <4>3. QED BY <3>1, <4>2 DEF Replaces, Written, ChecksTypeOK
    <3>2. QED BY <1>2, <3>1, ReplaceMakes DEF ChecksTypeOK, Replaces
  <2>3. QED BY <1>1, <2>1, <2>2 DEF ChecksTypeOK
<1>3. ASSUME NEW force \in BOOLEAN, BeginCheck(t, force) PROVE ChecksTypeOK'
  <2>1. runs \in 0..MaxRuns /\ runs < MaxRuns /\ runs' = runs + 1
    BY <1>3 DEF BeginCheck, ChecksTypeOK
  <2>2. runs' \in 0..MaxRuns
    BY <2>1 DEF CheckAssumption
  <2>3. QED BY <1>1, <1>3, <2>2 DEF BeginCheck, ChecksTypeOK, alertTables
<1>4. CASE List(t) \/ Read(t)
  BY <1>1, <1>4 DEF List, Read, ChecksTypeOK, alertTables
<1>5. CASE LocalChecks(t)
  BY <1>1, <1>5 DEF LocalChecks, ChecksTypeOK, CheckAssumption, alertTables
<1>6. CASE Leaks(t)
  BY <1>1, <1>6 DEF Leaks, ChecksTypeOK, CheckAssumption, alertTables
<1>7. QED BY <1>2, <1>3, <1>4, <1>5, <1>6 DEF CheckStep

LEMMA NextRunInv == CheckAssumption /\ ChecksTypeOK /\ RunInv /\ [ChecksNext]_checksVars => RunInv'
<1> SUFFICES ASSUME CheckAssumption, ChecksTypeOK, RunInv, [ChecksNext]_checksVars PROVE RunInv'
  OBVIOUS
<1>0. runs \in Nat
  BY DEF ChecksTypeOK, CheckAssumption
<1>1. CASE UserEdits
  BY <1>1, UserStepIs DEF RunInv, Runs, CheckAt
<1>2. ASSUME NEW t \in Tasks, NEW force \in BOOLEAN, BeginCheck(t, force) PROVE RunInv'
  <2>1. runs' = runs + 1 /\ alerts' = alerts /\ \A u \in Tasks \ {t} : check'[u] = check[u]
    BY <1>2, StepChecks DEF BeginCheck, alertTables
  <2>2. check'[t].step = "list" /\ check'[t].run = runs + 1
    BY <1>2, BeginCheckMakes
  <2>3. \A r \in alerts : r.run \in Nat
    BY DEF ChecksTypeOK, Rows, CheckAssumption
  <2>4. QED BY <1>0, <2>1, <2>2, <2>3 DEF RunInv, Runs, CheckAt
<1>3. ASSUME NEW t \in Tasks, List(t) \/ Read(t) \/ LocalChecks(t) \/ Leaks(t) PROVE RunInv'
  <2>1. \A u \in Tasks \ {t} : check'[u] = check[u]
    BY <1>3, StepChecks DEF CheckStep
  <2>2. GoesOn(t) /\ Runs(t) /\ ~CheckAt(t, "replace")
    BY <1>3, ListMakes, ReadMakes, LocalMakes, LeaksMakes
       DEF List, Read, LocalChecks, Leaks, CheckAt, Runs
  <2>3. QED BY <2>1, <2>2 DEF RunInv, Runs, CheckAt, GoesOn, alertTables
<1>4. ASSUME NEW t \in Tasks, Replace(t) PROVE RunInv'
  <2>1. /\ \A u \in Tasks \ {t} : check'[u] = check[u]
        /\ runs' = runs /\ CheckAt(t, "replace")
    BY <1>4, StepChecks DEF Replace, CheckStep
  <2>2. ASSUME NEW c \in check[t].left, Replaces(t, c) PROVE RunInv'
    <3>1. \A r \in alerts' : r \in alerts \/ (r.run = check[t].run /\ r.cred = c)
      BY <2>2 DEF Replaces, Written, NewRows
    <3>2. \/ check'[t].step = "idle"
          \/ /\ check'[t].step = "replace" /\ check'[t].run = check[t].run
             /\ check'[t].left = check[t].left \ {c}
      BY <2>1, <2>2 DEF Replaces, IdleCheck, ChecksTypeOK, Check, CheckAt
    <3>3. Runs(t) /\ check[t].run \in 1..runs
      BY <2>1 DEF RunInv, Runs, CheckAt
    <3>4. QED BY <1>0, <2>1, <3>1, <3>2, <3>3 DEF RunInv, Runs, CheckAt
  <2>3. CASE check'[t] = IdleCheck /\ alerts' = alerts
    BY <2>1, <2>3 DEF RunInv, Runs, CheckAt, IdleCheck
  <2>4. QED BY <1>4, <2>2, <2>3, ReplaceMakes
<1>5. CASE UNCHANGED checksVars
  BY <1>5 DEF checksVars, alertTables, RunInv, Runs, CheckAt
<1>6. QED BY <1>1, <1>2, <1>3, <1>4, <1>5 DEF ChecksNext, CheckStep, UserEdits

-----------------------------------------------------------------------------
(* What the table says.                                                    *)

LEMMA NextAlertsOfOneCheck ==
  ChecksTypeOK /\ AlertsOfOneCheck /\ [ChecksNext]_checksVars => AlertsOfOneCheck'
<1> SUFFICES ASSUME ChecksTypeOK, AlertsOfOneCheck, [ChecksNext]_checksVars PROVE AlertsOfOneCheck'
  OBVIOUS
<1> USE DEF AlertsOfOneCheck, Active
<1>1. ASSUME NEW t \in Tasks, Replace(t) PROVE AlertsOfOneCheck'
  <2>1. revived' = revived
    BY <1>1 DEF Replace
  <2>2. ASSUME NEW c \in check[t].left, Replaces(t, c) PROVE AlertsOfOneCheck'
    BY <2>1, <2>2 DEF Replaces, Written, NewRows
  <2>3. QED BY <1>1, <2>1, <2>2, ReplaceMakes
<1>2. ASSUME NEW r \in Rows, DismissAlert(r) \/ Undismiss(r) PROVE AlertsOfOneCheck'
  BY <1>2 DEF DismissAlert, Undismiss
<1>3. ASSUME NEW c \in Credentials, Delete(c) PROVE AlertsOfOneCheck'
  BY <1>3 DEF Delete, ChecksTypeOK
<1>4. ASSUME UNCHANGED <<alerts, dismissedAlerts, revived>> PROVE AlertsOfOneCheck'
  BY <1>4
<1>5. QED
  BY <1>1, <1>2, <1>3, <1>4 DEF ChecksNext, CheckStep, BeginCheck, List, Read, LocalChecks, Leaks, Rotate,
     LockOrUnlock, alertTables, checksVars

\* The alerts of one check's credential are what it has found.
LEMMA ReplacedExact ==
  ASSUME CheckAssumption, ChecksTypeOK, RunInv, NEW t \in Tasks, CheckAt(t, "replace"),
         NEW c \in check[t].left, Replaces(t, c), UNCHANGED <<credentials, value>>
  PROVE  /\ \A kind \in Kinds : [cred |-> c, kind |-> kind] \in check[t].found
                                  <=> \E r \in Active' : r.cred = c /\ r.kind = kind
         /\ \A d \in Credentials \ {c} : Exact(d) => Exact(d)'
<1>1. \A r \in alerts : r.run = check[t].run => r.cred # c
  BY DEF RunInv, Runs, CheckAt
<1>2. dismissedAlerts \subseteq alerts /\ check[t].found \subseteq Alerts
  BY DEF ChecksTypeOK, Check
<1>3. {r \in Active' : r.cred = c} = NewRows(t, c)
  BY <1>1, <1>2 DEF Active, Replaces, Written, NewRows
<1>4. \A kind \in Kinds : [cred |-> c, kind |-> kind] \in check[t].found
                            <=> \E r \in NewRows(t, c) : r.kind = kind
  <2>1. ASSUME NEW kind \in Kinds, NEW r \in NewRows(t, c), r.kind = kind
        PROVE  [cred |-> c, kind |-> kind] \in check[t].found
    <3>1. PICK a \in check[t].found : a.cred = c /\ a.kind = kind
      BY <2>1 DEF NewRows, Found
    <3>2. a = [cred |-> c, kind |-> kind]
      BY <1>2, <3>1 DEF Alerts
    <3>3. QED BY <3>1, <3>2
  <2>2. ASSUME NEW kind \in Kinds, [cred |-> c, kind |-> kind] \in check[t].found
        PROVE  \E r \in NewRows(t, c) : r.kind = kind
    <3>1. kind \in {a.kind : a \in Found(t, c)}
      BY <2>2 DEF Found
    <3>2. [run |-> check[t].run, cred |-> c, kind |-> kind] \in NewRows(t, c)
      BY <3>1 DEF NewRows
    <3>3. QED BY <3>2
  <2>3. QED BY <2>1, <2>2
<1>5. ASSUME NEW d \in Credentials \ {c}
      PROVE  {r \in Active' : r.cred = d} = {r \in Active : r.cred = d}
  BY <1>2 DEF Active, Replaces, Written, NewRows
<1>6. ASSUME NEW d, NEW kind \in Kinds PROVE True(d, kind)' = True(d, kind)
  BY DEF Replaces, True, Kinds
<1>7. QED
  <2>1. \A kind \in Kinds : [cred |-> c, kind |-> kind] \in check[t].found
                              <=> \E r \in Active' : r.cred = c /\ r.kind = kind
    BY <1>3, <1>4 DEF NewRows
  <2>2. ASSUME NEW d \in Credentials \ {c}, Exact(d) PROVE Exact(d)'
    BY <2>2, <1>5, <1>6 DEF Exact
  <2>3. QED BY <2>1, <2>2

-----------------------------------------------------------------------------
(* A check that nothing disturbs.                                          *)

\* The local checks, and the range search after them, find what there is.
LEMMA LocalFinds ==
  ASSUME CheckAssumption, ChecksTypeOK,
         NEW got, got = [c \in Credentials |-> IF c \in credentials THEN value[c] ELSE Unread]
  PROVE  /\ Local(credentials, got, Unguarded)
              = {a \in [cred : credentials, kind : Kinds \ {"compromised_password"}] :
                   True(a.cred, a.kind)}
         /\ quiet # "leaks" =>
              Local(credentials, got, Unguarded)
                = {a \in [cred : credentials, kind : Kinds] : True(a.cred, a.kind)}
         /\ quiet = "leaks" =>
              Local(credentials, got, Unguarded)
                \cup [cred : {c \in credentials : got[c] \in Leaked}, kind : {"compromised_password"}]
                = {a \in [cred : credentials, kind : Kinds] : True(a.cred, a.kind)}
<1> DEFINE All == [cred : credentials, kind : Kinds]
           L == Local(credentials, got, Unguarded)
           P == [cred : {c \in credentials : got[c] \in Leaked}, kind : {"compromised_password"}]
<1>1. credentials \subseteq Credentials /\ \A c \in credentials : got[c] = value[c] /\ value[c] \in Values
  BY DEF ChecksTypeOK
<1>2. \A c \in credentials : got[c] # Unread
  BY <1>1 DEF CheckAssumption
<1>3. \A c \in credentials : c \in Reused(credentials, got) <=> \E d \in credentials : d # c /\ value[d] = value[c]
  BY <1>1, <1>2 DEF Reused
<1>4. L \subseteq All /\ P \subseteq All
  BY DEF Local, Reused, Kinds
<1>5. ASSUME NEW a \in All
      PROVE  /\ a.kind # "compromised_password" => (a \in L <=> True(a.cred, a.kind))
             /\ a.kind = "compromised_password" => a \notin L
             /\ a.kind # "compromised_password" => a \notin P
             /\ a.kind = "compromised_password" =>
                  (a \in P <=> value[a.cred] \in Leaked)
  <2>1. a.cred \in credentials /\ a.kind \in Kinds /\ a = [cred |-> a.cred, kind |-> a.kind]
    OBVIOUS
  <2>2. a \in L <=> \/ a.kind = "weak_password" /\ got[a.cred] \in Weak
                    \/ a.kind = "reused_password" /\ a.cred \in Reused(credentials, got)
                    \/ a.kind = "unsecured_website" /\ a.cred \in Insecure
                    \/ a.kind = "missing_two_factor" /\ a.cred \in Unguarded
    BY <2>1 DEF Local, Reused
  <2>3. a \in P <=> a.kind = "compromised_password" /\ got[a.cred] \in Leaked
    BY <2>1
  <2> HIDE DEF L, P
  <2>4. QED BY <1>1, <1>3, <2>1, <2>2, <2>3 DEF True, Kinds
<1>6. \A a \in All : a.kind = "compromised_password" =>
        (True(a.cred, a.kind) <=> quiet = "leaks" /\ value[a.cred] \in Leaked)
  BY DEF True
<1> HIDE DEF L, P
<1>7. L = {a \in [cred : credentials, kind : Kinds \ {"compromised_password"}] : True(a.cred, a.kind)}
  BY <1>4, <1>5
<1>8. quiet # "leaks" => L = {a \in All : True(a.cred, a.kind)}
  BY <1>4, <1>5, <1>6
<1>9. quiet = "leaks" => L \cup P = {a \in All : True(a.cred, a.kind)}
  BY <1>4, <1>5, <1>6
<1>10. QED BY <1>7, <1>8, <1>9 DEF L, P

LEMMA TrueSame ==
  ASSUME UNCHANGED <<credentials, value, quiet>>
  PROVE  \A c, kind : kind \in Kinds => True(c, kind)' = True(c, kind)
BY DEF True, Kinds

LEMMA FoundSame ==
  ASSUME NEW t \in Tasks, UNCHANGED <<credentials, value, quiet>>
  PROVE  /\ check'[t].step = "leaks"
              => {a \in Finds(t)' : True(a.cred, a.kind)'}
                   = {a \in [cred : credentials, kind : Kinds \ {"compromised_password"}] :
                        True(a.cred, a.kind)}
         /\ check'[t].step = "replace"
              => {a \in Finds(t)' : True(a.cred, a.kind)'}
                   = {a \in [cred : credentials, kind : Kinds] : True(a.cred, a.kind)}
BY TrueSame DEF Finds, CheckAt

LEMMA StepQuietInv ==
  ASSUME CheckAssumption, ChecksTypeOK, RunInv, QuietInv, NEW t \in Tasks, CheckStep(t), quiet' # "no"
  PROVE  QuietInv'
<1>1. quiet # "no" /\ quiet' = quiet /\ Runs(t) /\ open' = open
  BY ListMakes, ReadMakes, LocalMakes, LeaksMakes, ReplaceMakes
     DEF CheckStep, List, Read, LocalChecks, Leaks, Replace, Replaces, CheckAt, Runs, GoesOn
<1>2. open /\ QuietCheck(t)
  BY <1>1 DEF QuietInv, QuietCheck
<1>3. Alone(t)'
  <2>1. \A u \in Tasks \ {t} : check'[u] = check[u]
    BY StepChecks
  <2>2. QED BY <1>2, <2>1 DEF QuietCheck, Alone, CheckAt
<1> DEFINE Now == [c \in Credentials |-> IF c \in credentials THEN value[c] ELSE Unread]
<1>4. SUFFICES /\ Runs(t)' => QuietCheck(t)'
               /\ ~Runs(t)' => \A c \in credentials' : Exact(c)'
  <2>1. Alone(t)' /\ open'
    BY <1>1, <1>2, <1>3
  <2>2. QED BY <2>1 DEF QuietInv, QuietCheck, Alone, Runs, CheckAt, AllChecksIdle
<1>5. CASE List(t)
  BY <1>1, <1>2, <1>3, <1>5, ListMakes DEF QuietCheck, GoesOn, alertTables, Runs, CheckAt
<1>6. CASE Read(t)
  <2>1. check'[t].got = Now
    <3>1. open /\ check[t].snap = credentials /\ credentials \subseteq Credentials
      BY <1>2, <1>6 DEF QuietCheck, Read, CheckAt, ChecksTypeOK
    <3>2. QED BY <1>6, <3>1, ReadMakes
  <2>2. QED
    BY <1>1, <1>2, <1>3, <1>6, <2>1, ReadMakes
       DEF QuietCheck, GoesOn, alertTables, Runs, CheckAt, Read
<1>7. CASE LocalChecks(t)
  <2>1. /\ check[t].got = Now /\ check[t].snap = credentials
        /\ check'[t].got = Now /\ check'[t].snap = credentials /\ check'[t].left = credentials
        /\ check'[t].found = Local(credentials, Now, Unguarded)
        /\ check'[t].force = check[t].force /\ UNCHANGED <<credentials, value, alerts, dismissedAlerts>>
    BY <1>1, <1>2, <1>7, LocalMakes DEF QuietCheck, LocalChecks, CheckAt, GoesOn, alertTables
  <2>2. CASE check[t].force
    <3>1. check'[t].step = "leaks"
      BY <1>7, <2>2, LocalMakes
    <3>2. check'[t].found = {a \in Finds(t)' : True(a.cred, a.kind)'}
      BY <1>1, <2>1, <3>1, LocalFinds, FoundSame
    <3>3. QED BY <1>1, <1>2, <1>3, <2>1, <2>2, <3>1, <3>2 DEF QuietCheck, Runs, CheckAt
  <2>3. CASE ~check[t].force /\ credentials # {}
    <3>1. check'[t].step = "replace" /\ quiet # "leaks"
      BY <1>2, <1>7, <2>1, <2>3, LocalMakes DEF QuietCheck
    <3>2. check'[t].found = {a \in Finds(t)' : True(a.cred, a.kind)'}
      BY <1>1, <2>1, <3>1, LocalFinds, FoundSame
    <3>3. QED BY <1>1, <1>2, <1>3, <2>1, <2>3, <3>1, <3>2 DEF QuietCheck, Runs, CheckAt
  <2>4. CASE ~check[t].force /\ credentials = {}
    BY <1>7, <2>1, <2>4, LocalMakes DEF Runs
  <2>5. QED BY <2>2, <2>3, <2>4
<1>8. CASE Leaks(t)
  <2>1. /\ check[t].got = Now /\ check[t].snap = credentials
        /\ check'[t].got = Now /\ check'[t].snap = credentials /\ check'[t].left = credentials
        /\ check'[t].force = check[t].force /\ check[t].force /\ quiet = "leaks"
        /\ check[t].found = {a \in [cred : credentials, kind : Kinds \ {"compromised_password"}] :
                               True(a.cred, a.kind)}
        /\ UNCHANGED <<credentials, value, alerts, dismissedAlerts>>
    BY <1>1, <1>2, <1>8, LeaksMakes DEF QuietCheck, Leaks, CheckAt, GoesOn, alertTables, Finds
  <2>2. check'[t].found = {a \in [cred : credentials, kind : Kinds] : True(a.cred, a.kind)}
    <3>1. check'[t].found = check[t].found \cup [cred : {c \in credentials : Now[c] \in Leaked},
                                                 kind : {"compromised_password"}]
      BY <1>1, <1>8, <2>1, LeaksMakes
    <3>2. check[t].found = Local(credentials, Now, Unguarded)
      BY <2>1, LocalFinds
    <3>3. QED BY <2>1, <3>1, <3>2, LocalFinds
  <2>3. CASE credentials # {}
    <3>1. check'[t].step = "replace"
      BY <1>8, <2>1, <2>3, LeaksMakes
    <3>2. check'[t].found = {a \in Finds(t)' : True(a.cred, a.kind)'}
      BY <1>1, <2>1, <2>2, <3>1, FoundSame
    <3>3. QED BY <1>1, <1>2, <1>3, <2>1, <3>1, <3>2 DEF QuietCheck, Runs, CheckAt
  <2>4. CASE credentials = {}
    BY <1>8, <2>1, <2>4, LeaksMakes DEF Runs
  <2>5. QED BY <2>3, <2>4
<1>9. CASE Replace(t)
  <2>1. PICK c \in check[t].left : Replaces(t, c)
    BY <1>1, <1>9, ReplaceMakes DEF Runs
  <2>2. /\ CheckAt(t, "replace") /\ UNCHANGED <<credentials, value>> /\ c \in credentials /\ credentials \subseteq Credentials
        /\ check[t].found = {a \in [cred : credentials, kind : Kinds] : True(a.cred, a.kind)}
        /\ check[t].left \subseteq credentials /\ \A d \in credentials \ check[t].left : Exact(d)
    BY <1>2, <1>9, <2>1 DEF Replace, CheckAt, QuietCheck, Finds, ChecksTypeOK
  <2>3. Exact(c)'
    <3>1. \A kind \in Kinds : [cred |-> c, kind |-> kind] \in check[t].found <=> True(c, kind)
      BY <2>2
    <3>2. \A kind \in Kinds : True(c, kind)' = True(c, kind)
      BY <1>1, <2>2, TrueSame
    <3>3. \A kind \in Kinds : True(c, kind)' <=> \E r \in Active' : r.cred = c /\ r.kind = kind
      <4>1. \A kind \in Kinds : [cred |-> c, kind |-> kind] \in check[t].found
                                  <=> \E r \in Active' : r.cred = c /\ r.kind = kind
        BY <2>1, <2>2, ReplacedExact
      <4>2. QED BY <3>1, <3>2, <4>1
    <3>4. QED BY <3>3 DEF Exact
  <2>4. \A d \in credentials' \ (check[t].left \ {c}) : Exact(d)'
    BY <2>1, <2>2, <2>3, ReplacedExact
  <2>5. CASE check[t].left = {c}
    BY <2>1, <2>4, <2>5 DEF Replaces, Runs, IdleCheck
  <2>6. CASE check[t].left # {c}
    <3>1. check'[t] = [check[t] EXCEPT !.left = @ \ {c}]
      BY <2>1, <2>6 DEF Replaces
    <3>2. /\ check'[t].step = "replace" /\ check'[t].snap = check[t].snap
          /\ check'[t].got = check[t].got /\ check'[t].force = check[t].force
          /\ check'[t].found = check[t].found /\ check'[t].left = check[t].left \ {c}
      BY <2>2, <3>1 DEF ChecksTypeOK, Check, CheckAt
    <3>3. check'[t].found = {a \in Finds(t)' : True(a.cred, a.kind)'}
      BY <1>1, <2>2, <3>2, FoundSame
    <3>4. QED
      BY <1>1, <1>2, <1>3, <2>2, <2>4, <3>2, <3>3 DEF QuietCheck, Runs, CheckAt
  <2>7. QED BY <2>5, <2>6
<1>10. QED BY <1>5, <1>6, <1>7, <1>8, <1>9 DEF CheckStep

LEMMA NextQuietInv ==
  CheckAssumption /\ ChecksTypeOK /\ RunInv /\ QuietInv /\ [ChecksNext]_checksVars => QuietInv'
<1> SUFFICES ASSUME CheckAssumption, ChecksTypeOK, RunInv, QuietInv, [ChecksNext]_checksVars, quiet' # "no"
             PROVE  QuietInv'
  BY DEF QuietInv
<1>1. ASSUME NEW t \in Tasks, NEW force \in BOOLEAN, BeginCheck(t, force) PROVE QuietInv'
  <2>1. /\ Alone(t) /\ open' = open /\ open
        /\ quiet' = IF force THEN "leaks" ELSE "local"
        /\ \A u \in Tasks \ {t} : check'[u] = check[u]
    BY <1>1, StepChecks DEF BeginCheck
  <2>2. check'[t].step = "list" /\ check'[t].force = force
    BY <1>1, BeginCheckMakes
  <2>3. Alone(t)'
    BY <2>1 DEF Alone, CheckAt
  <2>4. QED BY <2>1, <2>2, <2>3 DEF QuietInv, QuietCheck, Alone, Runs, CheckAt, AllChecksIdle
<1>2. CASE UNCHANGED checksVars
  <2>1. UNCHANGED <<credentials, value, open, alerts, dismissedAlerts, check, quiet>>
    BY <1>2 DEF checksVars, alertTables
  <2>2. \A c : Exact(c)' = Exact(c)
    BY <2>1, TrueSame DEF Exact, Active
  <2>3. \A t \in Tasks : check[t].step \in {"leaks", "replace"} =>
          {a \in Finds(t)' : True(a.cred, a.kind)'} = {a \in Finds(t) : True(a.cred, a.kind)}
    BY <2>1, FoundSame DEF Finds, CheckAt
  <2>4. QED BY <2>1, <2>2, <2>3 DEF QuietInv, QuietCheck, Runs, Alone, CheckAt, AllChecksIdle
<1>3. QED BY <1>1, <1>2, StepQuietInv, UserStepIs DEF ChecksNext, UserEdits

-----------------------------------------------------------------------------
(* The theorems.                                                           *)

LEMMA CheckInvariant == ChecksSpec => []CheckInv
<1>1. CheckInv /\ [ChecksNext]_checksVars => CheckInv'
  <2> SUFFICES ASSUME CheckInv, [ChecksNext]_checksVars PROVE CheckInv'
    OBVIOUS
  <2>1. ChecksTypeOK'
    <3>1. CASE UNCHANGED checksVars
      BY <3>1 DEF checksVars, alertTables, CheckInv, ChecksTypeOK
    <3>2. QED
      BY <3>1, CheckAssumption, StepTypeOK, UserTypeOK DEF CheckInv, ChecksNext, UserEdits
  <2>2. QED
    BY <2>1, CheckAssumption, NextRunInv, NextQuietInv, NextAlertsOfOneCheck DEF CheckInv
<1>2. QED BY <1>1, InitCheckInv, CheckAssumption, PTL DEF ChecksSpec

\* Types, for every run.
THEOREM ChecksTyped == ChecksSpec => []ChecksTypeOK
BY CheckInvariant, PTL DEF CheckInv

\* After a check that nothing has disturbed the active alerts are what there is
\* to find, whatever the table held before.
THEOREM QuietCheckAlwaysExact == ChecksSpec => []QuietCheckExact
<1>1. CheckInv => QuietCheckExact
  BY DEF CheckInv, QuietInv, QuietCheckExact, Exact
<1>2. QED BY <1>1, CheckInvariant, PTL

\* The active alerts of a credential come from one check, but for those that the
\* user has undismissed.
THEOREM AlertsAlwaysOfOneCheck == ChecksSpec => []AlertsOfOneCheck
BY CheckInvariant, PTL DEF CheckInv

\* No check brings back an alert that the user has dismissed.
THEOREM DismissedAlertsStay == ChecksSpec => DismissedAlertStays
<1>1. CheckInv /\ [ChecksNext]_checksVars =>
        [\A r \in dismissedAlerts : \/ r \in dismissedAlerts' \/ r.cred \notin credentials'
                                    \/ r \in revived' /\ r \in alerts']_checksVars
  <2> SUFFICES ASSUME CheckInv, ChecksNext, NEW r \in dismissedAlerts
               PROVE  \/ r \in dismissedAlerts' \/ r.cred \notin credentials'
                      \/ r \in revived' /\ r \in alerts'
    BY DEF checksVars
  <2>0. ChecksTypeOK
    BY DEF CheckInv
  <2>1. ASSUME NEW t \in Tasks, Replace(t) PROVE r \in dismissedAlerts'
    BY <2>0, <2>1, ReplaceMakes DEF Replaces, Written, ChecksTypeOK
  <2>2. ASSUME NEW s \in Rows, DismissAlert(s) \/ Undismiss(s)
        PROVE  r \in dismissedAlerts' \/ (r \in revived' /\ r \in alerts')
    BY <2>0, <2>2 DEF DismissAlert, Undismiss, ChecksTypeOK
  <2>3. ASSUME NEW c \in Credentials, Delete(c) PROVE r \in dismissedAlerts' \/ r.cred \notin credentials'
    BY <2>0, <2>3 DEF Delete, ChecksTypeOK
  <2>4. QED
    BY <2>1, <2>2, <2>3 DEF ChecksNext, CheckStep, BeginCheck, List, Read, LocalChecks, Leaks, Rotate,
       LockOrUnlock, alertTables
<1>2. QED BY <1>1, CheckInvariant, PTL DEF ChecksSpec, DismissedAlertStays
=============================================================================
