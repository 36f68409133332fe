------------------------------ MODULE Replaceable ------------------------------
(***************************************************************************)
(* Replaceable events and the social graph (src/db/repository.rs).  Of an  *)
(* author's contact lists (kind 3) only the latest is to be kept in        *)
(* events; follow_lists says which list the author's rows in follows come  *)
(* from.  Both tables refer to events and go with it (ON DELETE CASCADE,   *)
(* migration 004).                                                         *)
(*                                                                         *)
(* Deliveries of the author's lists run side by side: upsert_kind3_event   *)
(* selects, deletes and inserts in three statements, upsert_follow_list    *)
(* reads and then rewrites the edges in a transaction, and only some of    *)
(* the callers of the first call the second.  Authors share no row, so     *)
(* there is one.  Relay lists (kind 10002) are kept by the same three      *)
(* statements, without a graph.                                            *)
(***************************************************************************)
EXTENDS Integers, FiniteSets

CONSTANTS
    Versions,   \* contact lists the author has signed
    Time,       \* Time[v]: created_at
    People,     \* whom they name
    Follows,    \* Follows[v]: those named by v who are not blocked
    Workers,    \* tasks that call insert_event
    Path,       \* Path[w]: what worker w does with a list
    None,
    MaxFaults   \* bound: statements that fail, workers that are killed

\* "graph": ingester and bootstrap, the edges follow what was inserted.
\* "store": negentropy sync, fetcher: insert_event alone.
\* "backfill": bin/backfill_follows, the edges follow in any case; it asks for the
\* authors that had no row in follow_lists when it started.
Paths == {"graph", "store", "backfill"}

ASSUME ReplaceableAssumption ==
    /\ Time \in [Versions -> Nat] /\ None \notin Versions
    /\ Follows \in [Versions -> SUBSET People]
    /\ Path \in [Workers -> Paths]
    /\ MaxFaults \in Nat

VARIABLES
    rows,    \* the author's kind-3 rows in events
    list,    \* the list of the author's row in follow_lists, or None
    edges,   \* edges[p]: source_event_id of the row of follows for p, or None
    pc, ver, \* where worker w is, with which list
    doomed,  \* doomed[w][p]: the edge its DELETE has found
    unbuilt, \* history: lists stored on a path that builds no graph, or by a
             \* delivery that a fault ended before it had built the graph
    met,     \* history: lists that have been in insert_event at the same time
    faults

tables == <<rows, list, edges>>
work   == <<pc, ver, doomed>>
vars   == <<tables, work, unbuilt, met, faults>>

NoEdges == [p \in People |-> None]
Steps == {"idle", "select", "delete", "insert", "read", "rewrite", "commit"}

\* Both foreign keys are part of the types.
TypeOK ==
    /\ rows \subseteq Versions
    /\ list \in rows \cup {None}
    /\ edges \in [People -> rows \cup {None}]
    /\ pc \in [Workers -> Steps]
    /\ ver \in [Workers -> Versions \cup {None}]
    /\ doomed \in [Workers -> [People -> Versions \cup {None}]]
    /\ unbuilt \subseteq Versions /\ met \subseteq SUBSET Versions
    /\ faults \in 0 .. MaxFaults

Init ==
    /\ rows = {} /\ list = None /\ edges = NoEdges
    /\ pc = [w \in Workers |-> "idle"]
    /\ ver = [w \in Workers |-> None]
    /\ doomed = [w \in Workers |-> NoEdges]
    /\ unbuilt = {} /\ met = {}
    /\ faults = 0

Goto(w, s) == pc' = [pc EXCEPT ![w] = s]

\* Worker w is done with its list.
Leave(w) ==
    /\ Goto(w, "idle")
    /\ ver' = [ver EXCEPT ![w] = None]
    /\ doomed' = [doomed EXCEPT ![w] = NoEdges]

-----------------------------------------------------------------------------
(* insert_event: upsert_kind3_event *)

Inserting(w) == pc[w] \in {"select", "delete", "insert"}

\* A relay sends a list: a new one, or one it has sent before.
Deliver(w, v) ==
    /\ pc[w] = "idle"
    /\ Goto(w, "select")
    /\ ver' = [ver EXCEPT ![w] = v]
    /\ met' = met \cup {{v, ver[x]} : x \in {y \in Workers : Inserting(y)}}
    /\ UNCHANGED <<tables, doomed, unbuilt, faults>>

\* Bug: the comparison is the other way round.
OutdatedReversed(v) == \E u \in rows : Time[u] <= Time[v]

\* The newest row is at least as new as v.
Outdated(v) == \E u \in rows : Time[u] >= Time[v]

\* Ok(false) ends the delivery, but not for the backfill.
Declined(w) ==
    IF Path[w] = "backfill" THEN Goto(w, "read") /\ UNCHANGED <<ver, doomed>> ELSE Leave(w)

SelectNewest(w) ==
    /\ pc[w] = "select"
    /\ \/ Outdated(ver[w]) /\ Declined(w)
       \/ /\ ~Outdated(ver[w])
          /\ Goto(w, IF rows = {} THEN "insert" ELSE "delete")
          /\ UNCHANGED <<ver, doomed>>
    /\ UNCHANGED <<tables, unbuilt, met, faults>>

\* Bug: DELETE is left out.
RemainingRows == rows

\* DELETE leaves none of the author's rows of this kind.
Remaining == {}

\* Bug: the tables do not refer to events.
CascadeNothing == UNCHANGED <<list, edges>>

\* Bug: follow_lists does not refer to events.
CascadeEdges ==
    /\ list' = list
    /\ edges' = [p \in People |-> IF edges[p] \in rows' THEN edges[p] ELSE None]

\* ON DELETE CASCADE.
Cascade ==
    /\ list' = IF list \in rows' THEN list ELSE None
    /\ edges' = [p \in People |-> IF edges[p] \in rows' THEN edges[p] ELSE None]

\* Every row of the kind, also one that came after the SELECT.
DeleteOld(w) ==
    /\ pc[w] = "delete"
    /\ rows' = Remaining
    /\ Cascade
    /\ Goto(w, "insert")
    /\ UNCHANGED <<ver, doomed, unbuilt, met, faults>>

\* ON CONFLICT (id) DO NOTHING, and Ok(true) in either case.
InsertNew(w) ==
    LET v == ver[w] IN
    /\ pc[w] = "insert"
    /\ rows' = rows \cup {v}
    /\ IF Path[w] = "store"
       THEN /\ unbuilt' = IF v \in rows THEN unbuilt ELSE unbuilt \cup {v}
            /\ Leave(w)
       ELSE /\ unbuilt' = unbuilt \ {v}
            /\ Goto(w, "read")
            /\ UNCHANGED <<ver, doomed>>
    /\ UNCHANGED <<list, edges, met, faults>>

-----------------------------------------------------------------------------
(* upsert_follow_list *)

\* The graph's list is at least as new as v.
UpToDate(v) == list # None /\ Time[list] >= Time[v]

\* created_at of the row in follow_lists, read before the transaction.
ReadList(w) ==
    /\ pc[w] = "read"
    /\ \/ UpToDate(ver[w]) /\ Leave(w)
       \/ ~UpToDate(ver[w]) /\ Goto(w, "rewrite") /\ UNCHANGED <<ver, doomed>>
    /\ UNCHANGED <<tables, unbuilt, met, faults>>

\* The transaction's DELETE finds the edges there are; nobody sees it yet.
DeleteEdges(w) ==
    /\ pc[w] = "rewrite"
    /\ doomed' = [doomed EXCEPT ![w] = edges]
    /\ Goto(w, "commit")
    /\ UNCHANGED <<tables, ver, unbuilt, met, faults>>

\* What the commit leaves of the edges: the ones it deleted, unless another
\* transaction replaced them first, make room for those of v.
Rewritten(w, v) ==
    [p \in People |->
        LET kept == IF edges[p] = doomed[w][p] THEN None ELSE edges[p]
        IN IF kept = None /\ p \in Follows[v] THEN v ELSE kept]

\* Rows that refer to v cannot be inserted when v has been deleted: the
\* transaction is rolled back.
CommitEdges(w) ==
    LET v == ver[w] IN
    /\ pc[w] = "commit"
    /\ \/ /\ v \in rows
          /\ edges' = Rewritten(w, v)
          /\ list' = v
       \/ v \notin rows /\ UNCHANGED <<list, edges>>
    /\ Leave(w)
    /\ UNCHANGED <<rows, unbuilt, met, faults>>

-----------------------------------------------------------------------------
(* Faults *)

\* A statement fails and the delivery ends, with an error that is logged; or the
\* worker is killed.
Abort(w) ==
    /\ pc[w] # "idle" /\ faults < MaxFaults
    /\ faults' = faults + 1
    /\ unbuilt' = IF Inserting(w) THEN unbuilt ELSE unbuilt \cup {ver[w]}
    /\ Leave(w)
    /\ UNCHANGED <<tables, met>>

Step(w) == \/ SelectNewest(w) \/ DeleteOld(w) \/ InsertNew(w)
           \/ ReadList(w) \/ DeleteEdges(w) \/ CommitEdges(w)

Next == \E w \in Workers : Step(w) \/ Abort(w) \/ \E v \in Versions : Deliver(w, v)

Spec == Init /\ [][Next]_vars

Latest == {v \in Versions : \A u \in Versions : Time[u] <= Time[v]}

\* A delivery goes on; relays send the latest list again whenever the ingester
\* connects again, because it always asks for everything since one fixed time.
FairSpec ==
    /\ Spec
    /\ \A w \in Workers : WF_vars(Step(w))
    /\ \A w \in Workers : Path[w] = "graph" => SF_vars(\E v \in Latest : Deliver(w, v))
-----------------------------------------------------------------------------
(* Properties *)

Quiet == \A w \in Workers : pc[w] = "idle"

\* When no delivery is under way and one list is stored, the graph is that of this
\* list, whatever order the statements of the deliveries came in: older lists that
\* were late to commit have been stopped by the foreign key.  Known causes to the
\* contrary: the list was stored by a path that builds no graph, or a fault ended
\* the delivery between the two.
GraphAgrees ==
    \A v \in Versions :
        Quiet /\ rows = {v} /\ v \notin unbuilt =>
            /\ list = v
            /\ \A p \in People : edges[p] = IF p \in Follows[v] THEN v ELSE None

\* "keep only the latest per pubkey" (repository.rs:411), but for deliveries that have
\* been between SELECT and INSERT at the same time: two lists that never met there are
\* not both kept.
OnlyRivalsKept == \A u, v \in rows : u # v => {u, v} \in met

OnlyLatestUnderWay == \A w \in Workers : ver[w] \in Latest \cup {None}

\* Once older lists are no longer sent, the latest list is stored for good, although
\* a delivery that selected earlier may have deleted it and left an older one.
LatestStays == <>[]OnlyLatestUnderWay => <>[](Latest \cap rows # {})
=============================================================================
