----------------------------- MODULE MCEngagement -----------------------------
(***************************************************************************)
(* Instances of Engagement for TLC.                                        *)
(***************************************************************************)
EXTENDS Engagement

CONSTANTS n1, n2, t1, t2

KindOf == [t \in Taps |-> IF t = t1 THEN "reaction" ELSE "repost"]

\* Everything is about n1, except t2.
TargetOne == [x \in Taps \cup Zaps |-> IF x = t2 THEN n2 ELSE n1]

\* n2 replies to n1.
ParentTwo == [n \in Notes |-> IF n = n2 THEN n1 ELSE None]
=============================================================================
