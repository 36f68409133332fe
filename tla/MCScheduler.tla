----------------------------- MODULE MCScheduler -----------------------------
(***************************************************************************)
(* Instances of Scheduler for TLC.                                         *)
(***************************************************************************)
EXTENDS Scheduler

CONSTANTS e1, e2, e3, u1, u2, r1, r2

\* Two users: u1 has a relay list, u2 relies on the cached top relays.
OwnerTwo == [e \in Events |-> IF e = e1 THEN u1 ELSE u2]
OwnerOne == [e \in Events |-> u1]

DueTwo == [e \in Events |-> IF e = e1 THEN 1 ELSE 2]
DueOne == [e \in Events |-> 1]

ListOne == [u \in Pubkeys |-> IF u = u1 THEN {r1} ELSE {}]
=============================================================================
