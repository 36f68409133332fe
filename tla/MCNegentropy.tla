----------------------------- MODULE MCNegentropy -----------------------------
(***************************************************************************)
(* Instances of CrawlModes for TLC.                                        *)
(***************************************************************************)
EXTENDS CrawlModes

CONSTANTS e1, e2, e3, e4

\* Of kind 1 two old events at one time, more than a relay reconciles; of kind 2
\* an old one and one that is published on relay 1 while the crawler runs.
KindOf == [e \in Ids |-> IF e \in {e1, e2} THEN 1 ELSE NumKinds]
TimeOf == [e \in Ids |-> CASE e \in {e1, e2} -> 2 [] e = e3 -> 5 [] OTHER -> 3]
LiveOf == {<<1, e3>>}
CapOf == [r \in Relays |-> 1]
=============================================================================
