----------------------------- MODULE MCModeration -----------------------------
(***************************************************************************)
(* Instances of Moderation for TLC: one pubkey with a reply to the root    *)
(* note and a reply to that reply.                                         *)
(***************************************************************************)
EXTENDS Moderation

CONSTANTS p1, n1, n2, root

AuthorOne == [n \in Notes |-> p1]
Nested    == [n \in Notes |-> IF n = n1 THEN root ELSE n1]
=============================================================================
