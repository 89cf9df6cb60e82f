--------------------------- MODULE MCVaultSettings ---------------------------
(* Instances of VaultSettings. *)
EXTENDS VaultSettings

CONSTANTS t1, t2

MCTasks == {t1, t2}
MCKeys == {1}
MCInstallations == {11, 12}
MCFeeds == {"rss"}
MCKeyFeeds == {"nvd"}

Plan(w, ps, p, i, e, s, f) ==
  [windows |-> w, prints |-> ps, polls |-> p,
   issues |-> i, edits |-> e, settings |-> s, faults |-> f]

\* Charters of every kind; recoveries among toggles, by both ways to replace a
\* file; settings, that two commands change, or one with pollers that delay it.
MCSetups ==
  {Plan(FALSE, Modes \X {{}, {0, 1}}, FALSE, 2, 0, 0, 1)}
  \cup {Plan(w, {<<"single", {}>>}, FALSE, IF w THEN 2 ELSE 3, 2, 0, 1) : w \in BOOLEAN}
  \cup {Plan(FALSE, {<<"none", {}>>}, p, 1, 0, IF p THEN 1 ELSE 2, 1) : p \in BOOLEAN}
=============================================================================
