---------------------------- MODULE ScheduledPost ----------------------------
(***************************************************************************)
(* What the scheduler relay promises its users, without saying how.        *)
(*                                                                         *)
(* A post is drafted, scheduled, and then either withdrawn or started.     *)
(* Only a started post is handed to relays, only once it is due, and to    *)
(* each relay at most once.  A withdrawn post is never started.  A started *)
(* post may be finished; nothing is handed out after that.                 *)
(***************************************************************************)
EXTENDS Naturals

CONSTANTS Events,   \* the posts users may submit
          Relays,   \* the relays a post may be handed to
          DueAt     \* DueAt[e]: the time post e asks to be published at

VARIABLES time,     \* the wall clock
          phase,    \* phase[e]: where post e is in its life
          given     \* given[e]: the relays post e was handed to

vars == <<time, phase, given>>

Phases == {"draft", "scheduled", "withdrawn", "started", "finished"}

Init == /\ time \in Nat
        /\ phase = [e \in Events |-> "draft"]
        /\ given = [e \in Events |-> {}]

Pass == /\ time' = time + 1
        /\ UNCHANGED <<phase, given>>

Schedule(e) == /\ phase[e] = "draft"
               /\ phase' = [phase EXCEPT ![e] = "scheduled"]
               /\ UNCHANGED <<time, given>>

\* A request names any number of posts; those still scheduled are withdrawn.
Withdraw(S) == /\ \A e \in S : phase[e] = "scheduled"
               /\ phase' = [e \in Events |-> IF e \in S THEN "withdrawn" ELSE phase[e]]
               /\ UNCHANGED <<time, given>>

Start(S) == /\ \A e \in S : phase[e] = "scheduled" /\ DueAt[e] <= time
            /\ phase' = [e \in Events |-> IF e \in S THEN "started" ELSE phase[e]]
            /\ UNCHANGED <<time, given>>

Hand(e, r) == /\ phase[e] = "started"
              /\ r \notin given[e]
              /\ given' = [given EXCEPT ![e] = @ \cup {r}]
              /\ UNCHANGED <<time, phase>>

Finish(e) == /\ phase[e] = "started"
             /\ phase' = [phase EXCEPT ![e] = "finished"]
             /\ UNCHANGED <<time, given>>

Next == \/ Pass
        \/ \E e \in Events : Schedule(e) \/ Finish(e)
        \/ \E S \in SUBSET Events : Withdraw(S) \/ Start(S)
        \/ \E e \in Events, r \in Relays : Hand(e, r)

Spec == Init /\ [][Next]_vars
=============================================================================
