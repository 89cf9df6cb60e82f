------------------------- MODULE MCDependencyGraph -------------------------
(***************************************************************************)
(* DependencyGraph for TLC: two passwords of one site and a key of         *)
(* another one, used by a project that is deployed, or not yet.            *)
(***************************************************************************)
EXTENDS DependencyGraph, TLC

CONSTANTS i1, i2, p1, p2, d1, d2, u1, u2

MCIssuerOf == <<i1, i2, i1>>
Row(u, c, p) == [usage |-> u, cred |-> c, project |-> p]
MCStarts ==
  {[issuers |-> {i1, i2}, creds |-> {1, 2}, usages |-> {Row(u1, 1, p1), Row(u2, 2, p1)},
    projects |-> {p1, p2}, deploys |-> {[deploy |-> d1, project |-> p1]}],
   [issuers |-> {i1}, creds |-> {1}, usages |-> {Row(u1, 1, p1)},
    projects |-> {p1}, deploys |-> {}]}
=============================================================================
