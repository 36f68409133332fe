--------------------------------- MODULE MCCrawl -------------------------------
(***************************************************************************)
(* Instances of Crawl for TLC.                                             *)
(***************************************************************************)
EXTENDS Crawl

CONSTANTS p1, p2, c1, n1, n2, n3, m1

AuthorOf == [n \in Notes |-> IF n = m1 THEN p2 ELSE p1]
TimeOf   == [n \in Notes |-> CASE n = n1 -> 1 [] n = n2 -> 2 [] n = n3 -> 3 [] OTHER -> 2]

\* p1 has a relay list, p2 has none.
WritesOf == [x \in Authors |-> IF x = p1 THEN {2} ELSE {}]
\* Two processes of the legacy crawler, one of the other.
InstancesOf == [m \in Modes |-> IF m = "legacy" THEN Crawlers ELSE {c1}]
\* ... and one author for them, two for the other.
FollowedOf == [m \in Modes |-> IF m = "legacy" THEN {p1} ELSE Authors]
=============================================================================
