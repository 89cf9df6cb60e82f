--------------------------- MODULE MCIncidentFeeds ---------------------------
(***************************************************************************)
(* IncidentFeeds for TLC: one entry per feed and one credential, whose     *)
(* issuer every entry concerns; a second issuer has nothing to do with it. *)
(***************************************************************************)
EXTENDS IncidentFeeds, TLC

CONSTANTS status, breach, cve, c1, cloud, shop

MCItems == {status, breach, cve}
MCSourceOf == status :> "rss" @@ breach :> "hibp" @@ cve :> "nvd"
MCHosts == {"cloud.io", "api.cloud.io", "shop.com"}
MCUnder == {<<h, h>> : h \in MCHosts} \cup {<<"api.cloud.io", "cloud.io">>}
MCDomains == cloud :> {"cloud.io"} @@ shop :> {"shop.com"}
MCSite == c1 :> "api.cloud.io"
MCOwner == c1 :> cloud

\* The status page is the issuer's; the breach and the CVE mention it in words.
MCEntry ==
  status :> [slug |-> cloud, domain |-> None, mentions |-> {}, severe |-> FALSE]
  @@ breach :> [slug |-> None, domain |-> None, mentions |-> {cloud}, severe |-> TRUE]
  @@ cve :> [slug |-> None, domain |-> None, mentions |-> {cloud}, severe |-> TRUE]

\* The breach names the site of the credential.
MCDomainEntry == [MCEntry EXCEPT ![breach].domain = "cloud.io"]

MCSetups == {[pollers |-> {"rss"}, faults |-> 3, edits |-> 2],
             [pollers |-> {"rss", "hibp"}, faults |-> 0, edits |-> 1],
             [pollers |-> {"rss", "hibp"}, faults |-> 1, edits |-> 0],
             [pollers |-> {"rss", "nvd"}, faults |-> 1, edits |-> 0]}
MCSkips == [s \in {"rss", "nvd", "ghsa", "hibp"} |-> IF s = "rss" THEN 2 ELSE 0]
=============================================================================
