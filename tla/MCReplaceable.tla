---------------------------- MODULE MCReplaceable ----------------------------
(***************************************************************************)
(* Instances of Replaceable for TLC.                                       *)
(***************************************************************************)
EXTENDS Replaceable

CONSTANTS a, b, ingester, backfill, crawler

\* The later list no longer names a.
TimeOf == [v \in Versions |-> v]
FollowsOf == [v \in Versions |-> IF v = 1 THEN {a, b} ELSE {b}]
PathOf == [w \in Workers |-> IF w = crawler THEN "store" ELSE IF w = backfill THEN "backfill" ELSE "graph"]
=============================================================================
