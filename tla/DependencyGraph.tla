--------------------------- MODULE DependencyGraph ---------------------------
(***************************************************************************)
(* What depends on a credential: the tables issuer, credential, usage,     *)
(* project and deployment (storage/sqlite/repositories, migrations/0001),  *)
(* the commands that change them (commands/{projects,deployments,usage}.rs *)
(* and the inserts and deletes of credentials), and the readers that build *)
(* secretbank_core::graph::DependencyGraph from five SELECTs, between      *)
(* which rows come and go: graph_fetch, graph_for_credential,              *)
(* blast_radius_for_credential and blast_radius_for_host                   *)
(* (commands/graph.rs), some of them for the browser extension             *)
(* (services/nm_bridge.rs) and for the command line tool                   *)
(* (secretbank-cli/main.rs).                                               *)
(*                                                                         *)
(* A reader shares nothing with another one, so one call at a time is      *)
(* enough.  Names, urls and environments label nodes and are left out.     *)
(***************************************************************************)
EXTENDS Naturals, FiniteSets

CONSTANTS
  Issuers, Projects, Deploys, Usages,  \* ids
  Creds,        \* ids: numbers, in the order of creation
  IssuerOf,     \* Creds -> Issuers
  Passwords,    \* the credentials of kind Password
  Starts,       \* databases to begin with
  Visible,      \* MAX_VISIBLE_PROJECTS, MAX_VISIBLE_BLAST, MAX_VISIBLE
  MaxEdits,     \* bound: changes of the tables
  MaxGraphFaults  \* bound: failing SELECTs

Links == [usage : Usages, cred : Creds, project : Projects]
Hosted == [deploy : Deploys, project : Projects]
Tables == [issuers : SUBSET Issuers, creds : SUBSET Creds, usages : SUBSET Links,
           projects : SUBSET Projects, deploys : SUBSET Hosted]
NoTables == [issuers |-> {}, creds |-> {}, usages |-> {}, projects |-> {}, deploys |-> {}]

\* The foreign keys and primary keys of migration 0001.
Consistent(s) ==
  /\ \A c \in s.creds : IssuerOf[c] \in s.issuers
  /\ \A u \in s.usages : u.cred \in s.creds /\ u.project \in s.projects
  /\ \A d \in s.deploys : d.project \in s.projects
  /\ \A u, v \in s.usages : u.usage = v.usage => u = v
  /\ \A d, e \in s.deploys : d.deploy = e.deploy => d = e

ASSUME GraphAssumption ==
  /\ Creds \subseteq Nat \ {0} /\ IssuerOf \in [Creds -> Issuers] /\ Passwords \subseteq Creds
  /\ Starts \subseteq Tables /\ \A s \in Starts : Consistent(s)
  /\ Visible \in Nat /\ MaxEdits \in Nat /\ MaxGraphFaults \in Nat
  /\ IsFiniteSet(Projects) /\ IsFiniteSet(Deploys)
  /\ Issuers \cap (Creds \cup Projects \cup Deploys) = {}   \* a ULID is of one row
  /\ Creds \cap (Projects \cup Deploys) = {} /\ Projects \cap Deploys = {}

VARIABLES
  db,       \* the tables
  used,     \* ids given so far: an id is a fresh ULID
  edits, graphFaults,
  call,     \* the reader: what it is asked, and how far it is
  got,      \* the lists it has read
  seen,     \* history: the sets of edges that the tables have held during the call
  reply     \* the last answer

graphVars == <<db, used, edits, graphFaults, call, got, seen, reply>>

-----------------------------------------------------------------------------
(* secretbank-core: graph.rs and blast_radius.rs.                          *)

\* The edges the rows call for: Issues, UsedBy (one for each pair), DeployedAs.
Edges(s) ==
  {<<IssuerOf[c], c>> : c \in s.creds} \cup {<<u.cred, u.project>> : u \in s.usages}
    \cup {<<d.project, d.deploy>> : d \in s.deploys}

Nodes(s) == s.issuers \cup s.creds \cup s.projects \cup {d.deploy : d \in s.deploys}

BuildUnchecked(s) == [nodes |-> Nodes(s), edges |-> Edges(s)]

\* A pair deduplicated by its project alone.
BuildOnePerProject(s) ==
  [nodes |-> Nodes(s),
   edges |-> {e \in Edges(s) : e[1] \in Nodes(s) /\ e[2] \in Nodes(s)}
               \ {e \in Creds \X Projects : \E u \in s.usages : u.project = e[2] /\ u.cred < e[1]}]

\* DependencyGraph::build adds an edge only between nodes it has.
Build(s) ==
  [nodes |-> Nodes(s),
   edges |-> {e \in Edges(s) : e[1] \in Nodes(s) /\ e[2] \in Nodes(s)}]

\* Neighbours along outgoing edges.
Out(edges, from) == {e[2] : e \in {f \in edges : f[1] \in from}}

\* blast_radius: breadth first from the credential, by depth 1, 2 and beyond.
Primary(g, c)   == Out(g.edges, {c}) \ {c}
Secondary(g, c) == Out(g.edges, Primary(g, c)) \ (Primary(g, c) \cup {c})
Tertiary(g, c)  ==
  Out(g.edges, Secondary(g, c)) \ (Secondary(g, c) \cup Primary(g, c) \cup {c})
BlastRadius(g, c) ==
  IF c \in g.nodes THEN Primary(g, c) \cup Secondary(g, c) \cup Tertiary(g, c) ELSE {}

-----------------------------------------------------------------------------
(* The commands that change the tables.                                    *)

\* One statement of SQLite; a call under way sees it between two of its own.
Change(s) ==
  /\ edits < MaxEdits /\ edits' = edits + 1
  /\ db' = s
  /\ seen' = IF call.step = 0 THEN seen ELSE seen \cup {Edges(s)}
  /\ UNCHANGED <<graphFaults, call, got, reply>>

Fresh(id) == id \notin used /\ used' = used \cup {id}

\* get_or_create_by_slug: issuers are never deleted by a command.
IssuerCreate(i) ==
  /\ Fresh(i) /\ Change([db EXCEPT !.issuers = @ \cup {i}])

CredentialCreate(c) ==
  /\ Fresh(c) /\ \A d \in Creds : d < c => d \in used
  /\ IssuerOf[c] \in db.issuers
  /\ Change([db EXCEPT !.creds = @ \cup {c}])

\* ON DELETE CASCADE takes the usages of the credential.
CredentialDelete(c) ==
  /\ c \in db.creds /\ UNCHANGED used
  /\ Change([db EXCEPT !.creds = @ \ {c}, !.usages = {u \in @ : u.cred # c}])

ProjectCreate(p) == Fresh(p) /\ Change([db EXCEPT !.projects = @ \cup {p}])

ProjectDeleteAlone(p) ==
  /\ p \in db.projects /\ UNCHANGED used
  /\ Change([db EXCEPT !.projects = @ \ {p}, !.deploys = {d \in @ : d.project # p}])

\* ON DELETE CASCADE takes the usages and the deployments of the project.
ProjectDelete(p) ==
  /\ p \in db.projects /\ UNCHANGED used
  /\ Change([db EXCEPT !.projects = @ \ {p}, !.usages = {u \in @ : u.project # p},
                       !.deploys = {d \in @ : d.project # p}])

DeploymentCreate(d, p) ==
  /\ Fresh(d) /\ p \in db.projects
  /\ Change([db EXCEPT !.deploys = @ \cup {[deploy |-> d, project |-> p]}])

DeploymentDelete(d) ==
  /\ \E r \in db.deploys : r.deploy = d
  /\ UNCHANGED used
  /\ Change([db EXCEPT !.deploys = {r \in @ : r.deploy # d}])

UsageCreate(u, c, p) ==
  /\ Fresh(u) /\ c \in db.creds /\ p \in db.projects
  /\ Change([db EXCEPT !.usages = @ \cup {[usage |-> u, cred |-> c, project |-> p]}])

UsageDelete(u) ==
  /\ \E r \in db.usages : r.usage = u
  /\ UNCHANGED used
  /\ Change([db EXCEPT !.usages = {r \in @ : r.usage # u}])

Write ==
  \/ \E i \in Issuers : IssuerCreate(i)
  \/ \E c \in Creds : CredentialCreate(c) \/ CredentialDelete(c)
  \/ \E p \in Projects :
       \/ ProjectCreate(p) \/ ProjectDelete(p)
       \/ \E d \in Deploys : DeploymentCreate(d, p)
       \/ \E u \in Usages, c \in Creds : UsageCreate(u, c, p)
  \/ \E d \in Deploys : DeploymentDelete(d)
  \/ \E u \in Usages : UsageDelete(u)

-----------------------------------------------------------------------------
(* The readers.                                                            *)

Kinds == {"graph_fetch", "graph_for_credential", "blast_radius_for_credential",
          "blast_radius_for_host"}
NoCred == 0
Lists == <<"issuers", "creds", "usages", "projects", "deploys">>

\* Who asks: the window, the browser extension over the bridge, the command line
\* tool, a process of its own on the same tables.
\* step 0: idle; 1 to 5: the list to read next; 6: to answer; 7: to choose the
\* credential of a host, whose issuer find_by_domain has given; 8, 9: to read
\* projects and deployments again for their labels; 10: to answer with them.
Call == [kind : Kinds, by : {"window", "extension", "tool"}, step : 0..10,
         cred : Creds \cup {NoCred}, issuer : Issuers \cup {NoCred}, partial : BOOLEAN,
         radius : SUBSET (Projects \cup Deploys)]
Idle == [kind |-> "graph_fetch", by |-> "window", step |-> 0, cred |-> NoCred,
         issuer |-> NoCred, partial |-> FALSE, radius |-> {}]
NoReply == [kind |-> "none", cred |-> NoCred, graph |-> [nodes |-> {}, edges |-> {}],
            shown |-> {}, hidden |-> 0, named |-> {}, partial |-> FALSE, seen |-> {}]
NoGraph == NoReply.graph

End(r) ==
  /\ call' = Idle /\ got' = NoTables /\ seen' = {} /\ reply' = r
  /\ UNCHANGED <<db, used, edits>>

Answer(g, shown, hidden, named) ==
  End([kind |-> call.kind, cred |-> call.cred, graph |-> g, shown |-> shown, hidden |-> hidden,
       named |-> named, partial |-> call.partial, seen |-> seen])

Begin(c) ==
  /\ call.step = 0 /\ call' = c
  /\ seen' = {Edges(db)} /\ reply' = NoReply
  /\ UNCHANGED <<db, used, edits, graphFaults, got>>

\* The commands of the window.
Ask(kind, c) ==
  Begin([Idle EXCEPT !.kind = kind, !.step = 1, !.cred = c])

\* The extension asks of an open vault: a locked one, and an id that does not
\* parse, are answered with an error before anything is read, and left out here.
AskExtension(c) ==
  Begin([Idle EXCEPT !.kind = "graph_for_credential", !.by = "extension", !.step = 1, !.cred = c])

\* `graph` and `blast-radius` of the tool need no vault, only its tables.
AskTool(kind, c) ==
  Begin([Idle EXCEPT !.kind = kind, !.by = "tool", !.step = 1, !.cred = c])

\* blast_radius_for_host: an issuer one of whose domains is the host, or an
\* empty answer, which is none of the graph's.
AskHost(by, i) ==
  /\ i \in db.issuers
  /\ Begin([Idle EXCEPT !.kind = "blast_radius_for_host", !.by = by, !.step = 7, !.issuer = i])

\* The password of the issuer that was created last.
Choose ==
  /\ call.step = 7
  /\ LET cs == {c \in db.creds \cap Passwords : IssuerOf[c] = call.issuer}
     IN  IF cs = {} THEN End(NoReply)
         ELSE /\ \E c \in cs : /\ \A d \in cs : d <= c
                               /\ call' = [call EXCEPT !.step = 1, !.cred = c]
              /\ UNCHANGED <<db, used, edits, got, seen, reply>>
  /\ UNCHANGED graphFaults

Read ==
  /\ call.step \in 1..5
  /\ got' = [got EXCEPT ![Lists[call.step]] = db[Lists[call.step]]]
  /\ call' = [call EXCEPT !.step = @ + 1]
  /\ UNCHANGED <<db, used, edits, graphFaults, seen, reply>>

SelectFails == graphFaults < MaxGraphFaults /\ graphFaults' = graphFaults + 1

\* blast_radius_for_host of the bridge takes an empty list for a SELECT that
\* fails (unwrap_or_default) and goes on.
TakesDefaults == call.by = "extension" /\ call.kind = "blast_radius_for_host" /\ call.step # 7

ReadDefault ==
  /\ call.step \in 1..5 /\ TakesDefaults /\ SelectFails
  /\ call' = [call EXCEPT !.step = @ + 1, !.partial = TRUE]
  /\ UNCHANGED <<db, used, edits, got, seen, reply>>

\* Every other handler ends with an error.
ReadFails ==
  /\ call.step \in 1..5 \cup {7} /\ ~TakesDefaults /\ SelectFails
  /\ End(NoReply)

\* The nodes whose row is among the rows at hand, and which get its label.
Named(rows, nodes) == nodes \cap Nodes(rows)

ReplyFetch ==
  /\ call.step = 6 /\ call.kind = "graph_fetch" /\ call.by = "window" /\ UNCHANGED graphFaults
  /\ Answer(Build(got), {}, 0, Named(got, Build(got).nodes))

\* The tool prints the graph with the same labels.
ToolGraph ==
  /\ call.step = 6 /\ call.kind = "graph_fetch" /\ call.by = "tool" /\ UNCHANGED graphFaults
  /\ Answer(Build(got), {}, 0, Named(got, Build(got).nodes))

ReplyBlast ==
  /\ call.step = 6 /\ call.kind = "blast_radius_for_credential" /\ call.by = "window"
  /\ UNCHANGED graphFaults
  /\ Answer(NoGraph, BlastRadius(Build(got), call.cred), 0, {})

\* The tool prints the ids by their distance.
ToolBlast ==
  /\ call.step = 6 /\ call.kind = "blast_radius_for_credential" /\ call.by = "tool"
  /\ UNCHANGED graphFaults
  /\ Answer(NoGraph, BlastRadius(Build(got), call.cred), 0, {})

\* The first few in the order of their labels or ids, and how many are left.
Cut(all) ==
  {shown \in SUBSET all :
     Cardinality(shown) = IF Cardinality(all) < Visible THEN Cardinality(all) ELSE Visible}

\* extract_credential_mini_graph: the projects at one hop, and the edges to them.
ReplyMini ==
  /\ call.step = 6 /\ call.kind = "graph_for_credential" /\ UNCHANGED graphFaults
  /\ LET hop == Out(Build(got).edges, {call.cred})
     IN  \E shown \in Cut(hop) :
           Answer([nodes |-> {call.cred} \cup shown, edges |-> {<<call.cred, p>> : p \in shown}],
                  shown, Cardinality(hop) - Cardinality(shown), Named(got, shown))

\* Primary and secondary, which the previews of a host show.
Affected ==
  LET g == Build(got)
  IN  IF call.cred \in g.nodes THEN Primary(g, call.cred) \cup Secondary(g, call.cred) ELSE {}

ReplyItems(all) ==
  \E shown \in Cut(all) :
    Answer(NoGraph, shown, Cardinality(all) - Cardinality(shown), Named(got, shown))

\* The bridge names them after the rows the graph was built from.
ReplyHost ==
  /\ call.step = 6 /\ call.kind = "blast_radius_for_host" /\ call.by = "extension"
  /\ UNCHANGED graphFaults /\ ReplyItems(Affected)

\* blast_radius_to_items of the window reads projects and deployments again, so
\* that a row may be gone, or the list be empty for a SELECT that failed; the
\* item stays and is called by its id.
TakeRadius ==
  /\ call.step = 6 /\ call.kind = "blast_radius_for_host" /\ call.by = "window"
  /\ call' = [call EXCEPT !.step = 8, !.radius = Affected] /\ got' = NoTables
  /\ UNCHANGED <<db, used, edits, graphFaults, seen, reply>>

Relist ==
  /\ call.step \in 8..9
  /\ LET list == Lists[call.step - 4]
     IN  \/ got' = [got EXCEPT ![list] = db[list]] /\ UNCHANGED graphFaults
         \/ SelectFails /\ UNCHANGED got
  /\ call' = [call EXCEPT !.step = @ + 1]
  /\ UNCHANGED <<db, used, edits, seen, reply>>

ReplyWindowHost ==
  /\ call.step = 10 /\ UNCHANGED graphFaults /\ ReplyItems(call.radius)

GraphInit ==
  /\ db \in Starts
  /\ used = Nodes(db) \cup {u.usage : u \in db.usages}
  /\ edits = 0 /\ graphFaults = 0
  /\ call = Idle /\ got = NoTables /\ seen = {} /\ reply = NoReply

GraphNext ==
  \/ Write
  \/ Ask("graph_fetch", NoCred) \/ AskTool("graph_fetch", NoCred)
  \/ \E c \in Creds :
       \/ \E kind \in {"blast_radius_for_credential", "graph_for_credential"} : Ask(kind, c)
       \/ AskExtension(c) \/ AskTool("blast_radius_for_credential", c)
  \/ \E by \in {"window", "extension"}, i \in Issuers : AskHost(by, i)
  \/ Choose \/ Read \/ ReadDefault \/ ReadFails
  \/ ReplyFetch \/ ToolGraph \/ ReplyBlast \/ ToolBlast \/ ReplyMini
  \/ ReplyHost \/ TakeRadius \/ Relist \/ ReplyWindowHost

GraphSpec == GraphInit /\ [][GraphNext]_graphVars

-----------------------------------------------------------------------------
(* Properties.                                                             *)

\* The tables keep their keys through every cascade, and a call its lists.
GraphTypeOK ==
  /\ db \in Tables /\ Consistent(db)
  /\ edits \in 0..MaxEdits /\ graphFaults \in 0..MaxGraphFaults
  /\ call \in Call /\ got \in Tables

\* Lists read at five moments still make a graph: each edge joins two nodes of
\* it, and existed at some moment of the call; no node of a whole graph is left
\* without its label.
GraphHeld ==
  /\ \A e \in reply.graph.edges :
       /\ e[1] \in reply.graph.nodes /\ e[2] \in reply.graph.nodes
       /\ e \in UNION reply.seen
  /\ reply.kind = "graph_fetch" => reply.graph.nodes \subseteq reply.named

\* Whatever is edited meanwhile, an answer that is not made from a failed read
\* counts every project and deployment that depended on the credential
\* throughout the call.
NothingMissed ==
  reply.kind \notin {"none", "graph_fetch"} /\ ~reply.partial =>
    LET direct == {n \in Projects : \A e \in reply.seen : <<reply.cred, n>> \in e}
        behind == {n \in Deploys : \A e \in reply.seen : \E p \in direct : <<p, n>> \in e}
    IN  Cardinality(direct \cup (IF reply.kind = "graph_for_credential" THEN {} ELSE behind))
          <= Cardinality(reply.shown) + reply.hidden

\* Read as a promise of blast_radius.rs; TLC refutes it (see README.md).

\* What blast_radius names would be affected if the credential were revoked: the
\* lists are of different moments, so a deployment may be named that the
\* credential never reached.
RadiusHeld ==
  reply.kind = "blast_radius_for_credential" =>
    \A n \in reply.shown : \E e \in reply.seen :
      n \in Out(e, {reply.cred}) \cup Out(e, Out(e, {reply.cred}))
=============================================================================
