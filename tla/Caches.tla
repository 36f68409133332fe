-------------------------------- MODULE Caches ---------------------------------
(***************************************************************************)
(* The sets kept in memory: who passes the web of trust (wot_cache.rs),    *)
(* who has enough followers (follower_cache.rs), and the profiles for      *)
(* searches (profile_search_cache.rs).  Whoever finds one too old          *)
(* refreshes it, and several can do so at once: query, for the web of      *)
(* trust replace the rows of wot_scores, swap the set, set the time.       *)
(*                                                                         *)
(* A set is the version of the follow graph that it was computed from.     *)
(***************************************************************************)
EXTENDS Integers

CONSTANTS
    CacheNames, \* "wot", and those that are computed from profile_search
    Callers,    \* tasks that use the caches
    None,
    MaxGraph,   \* bound: changes of the follow graph
    MaxFaults   \* bound: statements that fail

VARIABLES
    graph,     \* version of the follow graph
    view,      \* the version profile_search shows
    scores,    \* the versions whose rows are in wot_scores
    memory,    \* memory[c]: the version of the set
    old,       \* old[c]: last_refresh is longer ago than the interval
    pc,        \* pc[t]
    cache,     \* cache[t]: the one it refreshes, or None
    rows,      \* rows[t]: the version its query found
    unseen,    \* unseen[t]: the versions committed since its DELETE
    faults

locals == <<pc, cache, rows, unseen>>
vars   == <<graph, view, scores, memory, old, locals, faults>>

Versions == 0 .. MaxGraph

TypeOK ==
    /\ graph \in Versions /\ view \in Versions /\ scores \subseteq Versions
    /\ memory \in [CacheNames -> Versions] /\ old \in [CacheNames -> BOOLEAN]
    /\ pc \in [Callers -> {"idle", "query", "begin", "commit", "swap", "stamp"}]
    /\ cache \in [Callers -> CacheNames \cup {None}]
    /\ rows \in [Callers -> Versions]
    /\ unseen \in [Callers -> SUBSET Versions] /\ faults \in 0 .. MaxFaults

\* The sets are empty, and so old that the first use refreshes them.
Init ==
    /\ graph = 0 /\ view = 0 /\ scores = {0}
    /\ memory = [c \in CacheNames |-> 0] /\ old = [c \in CacheNames |-> TRUE]
    /\ pc = [t \in Callers |-> "idle"] /\ cache = [t \in Callers |-> None]
    /\ rows = [t \in Callers |-> 0] /\ unseen = [t \in Callers |-> {}] /\ faults = 0

-----------------------------------------------------------------------------
Goto(t, s) == pc' = [pc EXCEPT ![t] = s]

End(t) ==
    /\ Goto(t, "idle")
    /\ cache' = [cache EXCEPT ![t] = None]
    /\ rows' = [rows EXCEPT ![t] = 0]

Follow == graph < MaxGraph /\ graph' = graph + 1 /\ UNCHANGED <<view, scores, memory, old, locals, faults>>

\* REFRESH MATERIALIZED VIEW profile_search, once a day.
RefreshView == view' = graph /\ UNCHANGED <<graph, scores, memory, old, locals, faults>>

GrowOld(c) ==
    /\ ~old[c] /\ old' = [old EXCEPT ![c] = TRUE]
    /\ UNCHANGED <<graph, view, scores, memory, locals, faults>>

\* Bug: a set that is there is good enough.
TooOldAndEmpty(c) == old[c] /\ memory[c] = 0

TooOld(c) == old[c]

\* passes_wot, meets_threshold, ensure_fresh: the time is read under a lock that is
\* given back before the refresh.
Call(t, c) ==
    /\ pc[t] = "idle" /\ TooOld(c)
    /\ Goto(t, "query")
    /\ cache' = [cache EXCEPT ![t] = c]
    /\ UNCHANGED <<graph, view, scores, memory, old, rows, unseen, faults>>

\* An error leaves the cache as it was, and as old.
Fail(t) == faults < MaxFaults /\ faults' = faults + 1 /\ End(t)

Query(t) ==
    /\ pc[t] = "query"
    /\ \/ /\ rows' = [rows EXCEPT ![t] = IF cache[t] = "wot" THEN graph ELSE view]
          /\ Goto(t, IF cache[t] = "wot" THEN "begin" ELSE "swap")
          /\ UNCHANGED <<cache, faults>>
       \/ Fail(t)
    /\ UNCHANGED <<graph, view, scores, memory, old, unseen>>

\* BEGIN; DELETE FROM wot_scores; INSERT for each row.
BeginReplace(t) ==
    /\ pc[t] = "begin"
    /\ Goto(t, "commit")
    /\ UNCHANGED <<graph, view, scores, memory, old, cache, rows, unseen, faults>>

\* A DELETE does not see the rows that others commit after it: they stay, or make an
\* INSERT fail when the two share a pubkey.
CommitReplace(t) ==
    /\ pc[t] = "commit"
    /\ \/ /\ scores' = (scores \cap unseen[t]) \cup {rows[t]}
          /\ unseen' = [u \in Callers |-> IF u = t THEN {}
                                         ELSE IF pc[u] = "commit" THEN unseen[u] \cup {rows[t]}
                                         ELSE unseen[u]]
          /\ Goto(t, "swap")
          /\ UNCHANGED <<cache, rows, faults>>
       \/ /\ (unseen[t] # {} /\ End(t) /\ UNCHANGED faults) \/ Fail(t)
          /\ unseen' = [unseen EXCEPT ![t] = {}]
          /\ UNCHANGED scores
    /\ UNCHANGED <<graph, view, memory, old>>

\* The set is replaced under its lock, and the time set under another.
Swap(t) ==
    /\ pc[t] = "swap"
    /\ memory' = [memory EXCEPT ![cache[t]] = rows[t]]
    /\ Goto(t, "stamp")
    /\ UNCHANGED <<graph, view, scores, old, cache, rows, unseen, faults>>

Stamp(t) ==
    /\ pc[t] = "stamp"
    /\ old' = [old EXCEPT ![cache[t]] = FALSE]
    /\ End(t)
    /\ UNCHANGED <<graph, view, scores, memory, unseen, faults>>

-----------------------------------------------------------------------------
Refresh(t) == Query(t) \/ BeginReplace(t) \/ CommitReplace(t) \/ Swap(t) \/ Stamp(t)

Calls(c) == \E t \in Callers : Call(t, c)

Next == \/ Follow \/ RefreshView
        \/ \E c \in CacheNames : GrowOld(c) \/ Calls(c)
        \/ \E t \in Callers : Refresh(t)

Spec == Init /\ [][Next]_vars

\* The day's loop goes round, time passes, a refresh that was begun goes on, and each
\* cache is used again and again.
FairSpec ==
    /\ Spec /\ WF_vars(RefreshView)
    /\ \A t \in Callers : WF_vars(Refresh(t))
    /\ \A c \in CacheNames : WF_vars(GrowOld(c)) /\ SF_vars(Calls(c))
-----------------------------------------------------------------------------
(* Properties *)

\* Refreshes that overlap can put an older set over a newer one, and leave memory and
\* wot_scores (wot_cache.rs:108-136) with different ones.  That does not last: when
\* the graph no longer changes, all of them agree with it at last.
AllAgree == scores = {graph} /\ \A c \in CacheNames : memory[c] = graph
CachesCatchUp == <>[]AllAgree

=============================================================================
