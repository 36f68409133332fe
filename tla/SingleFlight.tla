----------------------------- MODULE SingleFlight -----------------------------
(***************************************************************************)
(* What the on-demand fetcher promises about simultaneous requests for one *)
(* key (ONDEMAND_FETCHER.md: they "share one fetch"), without the map, the *)
(* Notify objects or the waiters.                                          *)
(*                                                                         *)
(* A key is free or taken.  Whoever finds it free takes it and fetches,    *)
(* alone; only the fetch that took a key frees it.  A fetch that is        *)
(* dropped on the way leaves its key taken, and nobody fetches it again.   *)
(***************************************************************************)
CONSTANTS Keys, Callers

VARIABLES taken,    \* the keys that are taken
          fetching  \* fetching[k]: the callers that are fetching k

vars == <<taken, fetching>>

Init == /\ taken = {}
        /\ fetching = [k \in Keys |-> {}]

Begin(c, k) == /\ k \notin taken /\ fetching[k] = {}
               /\ taken' = taken \cup {k}
               /\ fetching' = [fetching EXCEPT ![k] = {c}]

Finish(c, k) == /\ k \in taken /\ fetching[k] = {c}
                /\ taken' = taken \ {k}
                /\ fetching' = [fetching EXCEPT ![k] = {}]

Drop(c, k) == /\ k \in taken /\ fetching[k] = {c}
              /\ fetching' = [fetching EXCEPT ![k] = {}]
              /\ UNCHANGED taken

Next == \E c \in Callers, k \in Keys : Begin(c, k) \/ Finish(c, k) \/ Drop(c, k)

Spec == Init /\ [][Next]_vars
=============================================================================
