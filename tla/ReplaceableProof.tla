--------------------------- MODULE ReplaceableProof ----------------------------
(***************************************************************************)
(* Proofs about Replaceable for any number of lists, people and workers,   *)
(* and any faults.                                                         *)
(*                                                                         *)
(* OnlyRivalsKept needs to know, of every delivery that is about to insert *)
(* its list, that it has met each list that is there (Rivals).             *)
(*                                                                         *)
(* GraphAgrees speaks of quiet states; between them a delivery may be on   *)
(* its way (Building).  It holds because the rows only become {v} by way   *)
(* of no rows at all, when the cascade has emptied the graph too, and from *)
(* then on no transaction of another list can commit.                      *)
(***************************************************************************)
EXTENDS Replaceable, TLAPS

Graph(v) == [p \in People |-> IF p \in Follows[v] THEN v ELSE None]

(* The parts of the invariant *)

MetWhileInserting ==
    \A w, x \in Workers : w # x /\ Inserting(w) /\ Inserting(x) => {ver[w], ver[x]} \in met

Rivals ==
    \A w \in Workers, u \in rows :
        pc[w] = "insert" /\ u # ver[w] => {u, ver[w]} \in met

\* A worker at work has a list.
HasList == \A w \in Workers : pc[w] # "idle" => ver[w] \in Versions

Building(v) == \E w \in Workers : ver[w] = v /\ pc[w] \in {"read", "rewrite", "commit"}

EdgesNamed == \A p \in People : edges[p] # None => p \in Follows[edges[p]]

\* Of the only list there is.
Alone ==
    \A v \in Versions :
        rows = {v} =>
            /\ list = v => edges = Graph(v)
            /\ v \in unbuilt \/ list = v \/ Building(v)

LEMMA FirstState ==
  Init => /\ TypeOK /\ HasList /\ MetWhileInserting /\ Rivals /\ OnlyRivalsKept
          /\ EdgesNamed /\ Alone
  BY ReplaceableAssumption
     DEF Init, TypeOK, NoEdges, Steps, HasList, MetWhileInserting, Inserting, Rivals, OnlyRivalsKept,
         EdgesNamed, Alone

\* What Leave does to each worker.
LEMMA LeaveEach ==
  ASSUME TypeOK, NEW w \in Workers, Leave(w)
  PROVE  /\ pc' = [pc EXCEPT ![w] = "idle"]
         /\ ver' = [ver EXCEPT ![w] = None]
         /\ doomed' \in [Workers -> [People -> Versions \cup {None}]]
  BY DEF Leave, Goto, TypeOK, NoEdges

-----------------------------------------------------------------------------
(* Types *)

LEMMA TypeNext == TypeOK /\ HasList /\ [Next]_vars => TypeOK'
<1> SUFFICES ASSUME TypeOK, HasList, [Next]_vars PROVE TypeOK'
  OBVIOUS
<1> USE DEF TypeOK, Goto, Steps
<1>1. ASSUME NEW w \in Workers, Leave(w)
      PROVE  /\ pc' \in [Workers -> Steps] /\ ver' \in [Workers -> Versions \cup {None}]
             /\ doomed' \in [Workers -> [People -> Versions \cup {None}]]
  BY <1>1, LeaveEach
<1>2. ASSUME NEW w \in Workers, NEW v \in Versions, Deliver(w, v)
      PROVE  TypeOK'
  <2>1. met' \subseteq SUBSET Versions
    <3>1. \A y \in Workers : Inserting(y) => ver[y] \in Versions
      BY DEF Inserting, HasList
    <3> QED
      BY <1>2, <3>1 DEF Deliver
  <2> QED
    BY <1>2, <2>1 DEF Deliver, tables
<1>3. ASSUME NEW w \in Workers, SelectNewest(w)
      PROVE  TypeOK'
  BY <1>1, <1>3 DEF SelectNewest, Declined, tables
<1>4. ASSUME NEW w \in Workers, DeleteOld(w)
      PROVE  TypeOK'
  BY <1>4 DEF DeleteOld, Remaining, Cascade
<1>5. ASSUME NEW w \in Workers, InsertNew(w)
      PROVE  TypeOK'
  <2>1. ver[w] \in Versions
    BY <1>5 DEF InsertNew, HasList
  <2> QED
    BY <1>1, <1>5, <2>1 DEF InsertNew
<1>6. ASSUME NEW w \in Workers, ReadList(w)
      PROVE  TypeOK'
  BY <1>1, <1>6 DEF ReadList, tables
<1>7. ASSUME NEW w \in Workers, DeleteEdges(w)
      PROVE  TypeOK'
  BY <1>7 DEF DeleteEdges, tables
<1>8. ASSUME NEW w \in Workers, CommitEdges(w)
      PROVE  TypeOK'
  <2>1. ver[w] \in rows => Rewritten(w, ver[w]) \in [People -> rows \cup {None}]
    BY DEF Rewritten
  <2> QED
    BY <1>1, <1>8, <2>1 DEF CommitEdges
<1>9. ASSUME NEW w \in Workers, Abort(w)
      PROVE  TypeOK'
  <2>1. ver[w] \in Versions
    BY <1>9 DEF Abort, HasList
  <2>2. faults' \in 0 .. MaxFaults
    BY <1>9, ReplaceableAssumption DEF Abort
  <2> QED
    BY <1>1, <1>9, <2>1, <2>2 DEF Abort, tables
<1>10. CASE UNCHANGED vars
  BY <1>10 DEF vars, tables, work
<1> QED
  BY <1>2, <1>3, <1>4, <1>5, <1>6, <1>7, <1>8, <1>9, <1>10 DEF Next, Step

\* A step that moves no worker but w, which leaves, or keeps its list and goes on.
LEMMA HasListNext == TypeOK /\ HasList /\ [Next]_vars => HasList'
<1> SUFFICES ASSUME TypeOK, HasList, [Next]_vars PROVE HasList'
  OBVIOUS
<1> USE DEF HasList
<1>1. ASSUME NEW w \in Workers, Leave(w)
      PROVE  HasList'
  BY <1>1, LeaveEach DEF TypeOK
<1>2. ASSUME NEW w \in Workers, pc[w] # "idle", NEW s \in Steps, Goto(w, s), ver' = ver
      PROVE  HasList'
  BY <1>2 DEF TypeOK, Goto
<1>3. ASSUME NEW w \in Workers, NEW v \in Versions, Deliver(w, v)
      PROVE  HasList'
  BY <1>3 DEF TypeOK, Deliver, Goto
<1>4. ASSUME NEW w \in Workers, Step(w) \/ Abort(w)
      PROVE  \/ Leave(w)
             \/ pc[w] # "idle" /\ (\E s \in Steps : Goto(w, s)) /\ ver' = ver
  BY <1>4 DEF Step, SelectNewest, Declined, DeleteOld, InsertNew, ReadList, DeleteEdges, CommitEdges,
              Abort, Steps, work
<1>5. CASE UNCHANGED vars
  BY <1>5 DEF vars, work
<1> QED
  BY <1>1, <1>2, <1>3, <1>4, <1>5 DEF Next

-----------------------------------------------------------------------------
(* Which lists have met *)

\* No step but Deliver brings a worker into insert_event, and met only grows.
LEMMA MetNext ==
  TypeOK /\ HasList /\ MetWhileInserting /\ [Next]_vars => MetWhileInserting' /\ met \subseteq met'
<1> SUFFICES ASSUME TypeOK, HasList, MetWhileInserting, [Next]_vars
             PROVE  MetWhileInserting' /\ met \subseteq met'
  OBVIOUS
<1> USE DEF MetWhileInserting, Inserting
<1>1. ASSUME NEW w \in Workers, NEW v \in Versions, Deliver(w, v)
      PROVE  MetWhileInserting' /\ met \subseteq met'
  <2>1. /\ pc' = [pc EXCEPT ![w] = "select"] /\ ver' = [ver EXCEPT ![w] = v]
        /\ met' = met \cup {{v, ver[x]} : x \in {y \in Workers : Inserting(y)}}
    BY <1>1 DEF Deliver, Goto
  <2>2. \A x \in Workers : x # w /\ Inserting(x) => {v, ver[x]} \in met' /\ {ver[x], v} \in met'
    <3>1. \A x : {v, ver[x]} = {ver[x], v}
      OBVIOUS
    <3> QED
      BY <2>1, <3>1
  <2> QED
    BY <2>1, <2>2 DEF TypeOK
<1>2. ASSUME NEW w \in Workers, Step(w) \/ Abort(w)
      PROVE  MetWhileInserting' /\ met \subseteq met'
  <2>1. /\ met' = met
        /\ \A x \in Workers : Inserting(x)' => Inserting(x) /\ ver'[x] = ver[x]
    <3>1. CASE SelectNewest(w)
      BY <3>1, LeaveEach DEF SelectNewest, Declined, Goto, TypeOK
    <3>2. CASE DeleteOld(w)
      BY <3>2 DEF DeleteOld, Goto, TypeOK
    <3>3. CASE InsertNew(w)
      BY <3>3, LeaveEach DEF InsertNew, Goto, TypeOK
    <3>4. CASE ReadList(w)
      BY <3>4, LeaveEach DEF ReadList, Goto, TypeOK
    <3>5. CASE DeleteEdges(w)
      BY <3>5 DEF DeleteEdges, Goto, TypeOK
    <3>6. CASE CommitEdges(w)
      BY <3>6, LeaveEach DEF CommitEdges, TypeOK
    <3>7. CASE Abort(w)
      BY <3>7, LeaveEach DEF Abort, TypeOK
    <3> QED
      BY <1>2, <3>1, <3>2, <3>3, <3>4, <3>5, <3>6, <3>7 DEF Step
  <2> QED
    BY <2>1
<1>3. CASE UNCHANGED vars
  BY <1>3 DEF vars, work
<1> QED
  BY <1>1, <1>2, <1>3 DEF Next

\* What each step does to the rows, and who may be about to insert after it.
LEMMA RowsStep ==
  ASSUME TypeOK, HasList, [Next]_vars
  PROVE  \/ /\ rows' = rows
            /\ \A x \in Workers : pc'[x] = "insert" =>
                  ver'[x] = ver[x] /\ (pc[x] = "insert" \/ rows = {})
         \/ rows' = {}
         \/ \E w \in Workers :
               /\ pc[w] = "insert" /\ pc'[w] # "insert" /\ rows' = rows \cup {ver[w]}
               /\ \A x \in Workers : pc'[x] = "insert" =>
                     x # w /\ pc[x] = "insert" /\ ver'[x] = ver[x]
<1>1. ASSUME NEW w \in Workers, SelectNewest(w)
      PROVE  /\ rows' = rows
             /\ \A x \in Workers : pc'[x] = "insert" =>
                   ver'[x] = ver[x] /\ (pc[x] = "insert" \/ rows = {})
  BY <1>1, LeaveEach DEF SelectNewest, Declined, Goto, TypeOK, tables
<1>2. ASSUME NEW w \in Workers, DeleteOld(w)
      PROVE  rows' = {}
  BY <1>2 DEF DeleteOld, Remaining
<1>3. ASSUME NEW w \in Workers, InsertNew(w)
      PROVE  /\ pc[w] = "insert" /\ pc'[w] # "insert" /\ rows' = rows \cup {ver[w]}
             /\ \A x \in Workers : pc'[x] = "insert" =>
                   x # w /\ pc[x] = "insert" /\ ver'[x] = ver[x]
  BY <1>3, LeaveEach DEF InsertNew, Goto, TypeOK
<1>4. ASSUME NEW w \in Workers,
             \/ ReadList(w) \/ DeleteEdges(w) \/ CommitEdges(w) \/ Abort(w)
             \/ \E v \in Versions : Deliver(w, v)
      PROVE  /\ rows' = rows
             /\ \A x \in Workers : pc'[x] = "insert" => ver'[x] = ver[x] /\ pc[x] = "insert"
  <2>1. CASE Abort(w)
    BY <2>1, LeaveEach DEF Abort, TypeOK, tables
  <2>2. CASE ReadList(w)
    BY <2>2, LeaveEach DEF ReadList, Goto, TypeOK, tables
  <2>3. CASE DeleteEdges(w)
    BY <2>3 DEF DeleteEdges, Goto, TypeOK, tables
  <2>4. CASE CommitEdges(w)
    BY <2>4, LeaveEach DEF CommitEdges, TypeOK
  <2>5. ASSUME NEW v \in Versions, Deliver(w, v)
        PROVE  /\ rows' = rows
               /\ \A x \in Workers : pc'[x] = "insert" => ver'[x] = ver[x] /\ pc[x] = "insert"
    BY <2>5 DEF Deliver, Goto, TypeOK, tables
  <2> QED
    BY <1>4, <2>1, <2>2, <2>3, <2>4, <2>5
<1>5. CASE UNCHANGED vars
  BY <1>5 DEF vars, tables, work
<1> QED
  BY <1>1, <1>2, <1>3, <1>4, <1>5 DEF Next, Step

LEMMA RivalsNext ==
  /\ TypeOK /\ HasList /\ MetWhileInserting /\ Rivals /\ OnlyRivalsKept /\ [Next]_vars
  => Rivals' /\ OnlyRivalsKept'
<1> SUFFICES ASSUME TypeOK, HasList, MetWhileInserting, Rivals, OnlyRivalsKept, [Next]_vars
             PROVE  Rivals' /\ OnlyRivalsKept'
  OBVIOUS
<1> USE DEF Rivals, OnlyRivalsKept
<1>1. met \subseteq met'
  BY MetNext
<1>2. CASE /\ rows' = rows
           /\ \A x \in Workers : pc'[x] = "insert" =>
                 ver'[x] = ver[x] /\ (pc[x] = "insert" \/ rows = {})
  BY <1>1, <1>2
<1>3. CASE rows' = {}
  BY <1>3
<1>4. ASSUME NEW w \in Workers, pc[w] = "insert", pc'[w] # "insert", rows' = rows \cup {ver[w]},
             \A x \in Workers : pc'[x] = "insert" => x # w /\ pc[x] = "insert" /\ ver'[x] = ver[x]
      PROVE  Rivals' /\ OnlyRivalsKept'
  <2>1. ASSUME NEW x \in Workers, NEW u \in rows', pc'[x] = "insert", u # ver'[x]
        PROVE  {u, ver'[x]} \in met'
    <3>1. CASE u = ver[w]
      BY <1>1, <1>4, <2>1, <3>1 DEF MetWhileInserting, Inserting
    <3> QED
      BY <1>1, <1>4, <2>1, <3>1
  <2>2. ASSUME NEW u \in rows', NEW v \in rows', u # v
        PROVE  {u, v} \in met'
    <3>1. {u, v} = {v, u}
      OBVIOUS
    <3> QED
      BY <1>1, <1>4, <2>2, <3>1
  <2> QED
    BY <2>1, <2>2
<1> QED
  BY <1>2, <1>3, <1>4, RowsStep
-----------------------------------------------------------------------------
(* The graph *)

\* What a commit leaves of the edges, when no edge but those of v is there.
LEMMA RewrittenAlone ==
  ASSUME NEW w \in Workers, NEW v \in Versions, v # None,
         \A p \in People : edges[p] \in {v, None}, EdgesNamed
  PROVE  Rewritten(w, v) = Graph(v)
BY DEF Rewritten, Graph, EdgesNamed

LEMMA EdgesNamedNext == TypeOK /\ HasList /\ EdgesNamed /\ [Next]_vars => EdgesNamed'
<1> SUFFICES ASSUME TypeOK, HasList, EdgesNamed, [Next]_vars PROVE EdgesNamed'
  OBVIOUS
<1> USE DEF EdgesNamed
<1>1. CASE edges' = edges
  BY <1>1
<1>2. ASSUME NEW w \in Workers, DeleteOld(w)
      PROVE  EdgesNamed'
  BY <1>2 DEF DeleteOld, Cascade
<1>3. ASSUME NEW w \in Workers, CommitEdges(w)
      PROVE  EdgesNamed'
  <2>1. \A p \in People : Rewritten(w, ver[w])[p] # None => p \in Follows[Rewritten(w, ver[w])[p]]
    BY DEF Rewritten
  <2> QED
    BY <1>1, <1>3, <2>1 DEF CommitEdges
<1>4. ASSUME NEW w \in Workers,
             \/ SelectNewest(w) \/ InsertNew(w) \/ ReadList(w) \/ DeleteEdges(w) \/ Abort(w)
             \/ \E v \in Versions : Deliver(w, v)
      PROVE  edges' = edges
  BY <1>4 DEF SelectNewest, InsertNew, ReadList, DeleteEdges, Abort, Deliver, tables
<1>5. CASE UNCHANGED vars
  BY <1>1, <1>5 DEF vars, tables
<1> QED
  BY <1>1, <1>2, <1>3, <1>4, <1>5 DEF Next, Step

\* A step that leaves the tables alone and whose worker goes on, or gives its list up
\* for unbuilt, or finds the list up to date.
LEMMA AloneKept ==
  ASSUME TypeOK, HasList, Alone, UNCHANGED tables, NEW w \in Workers,
         unbuilt \subseteq unbuilt',
         \A x \in Workers : x # w => pc'[x] = pc[x] /\ ver'[x] = ver[x],
         \/ pc[w] \notin {"read", "rewrite", "commit"}
         \/ pc'[w] \in {"read", "rewrite", "commit"} /\ ver'[w] = ver[w]
         \/ ver[w] \in unbuilt'
         \/ rows = {ver[w]} => list = ver[w]
  PROVE  Alone'
<1> SUFFICES ASSUME NEW v \in Versions, rows' = {v}
             PROVE  /\ list' = v => edges' = Graph(v)
                    /\ v \in unbuilt' \/ list' = v \/ Building(v)'
  BY DEF Alone, Graph
<1>1. rows = {v} /\ list' = list /\ edges' = edges
  BY DEF tables
<1>2. ASSUME NEW x \in Workers, ver[x] = v, pc[x] \in {"read", "rewrite", "commit"}
      PROVE  v \in unbuilt' \/ list = v \/ Building(v)'
  BY <1>1, <1>2 DEF Building
<1> QED
  BY <1>1, <1>2 DEF Alone, Building

LEMMA AloneNext == TypeOK /\ HasList /\ EdgesNamed /\ Alone /\ [Next]_vars => Alone'
<1> SUFFICES ASSUME TypeOK, HasList, EdgesNamed, Alone, [Next]_vars PROVE Alone'
  OBVIOUS
<1>1. ASSUME NEW w \in Workers, NEW v \in Versions, Deliver(w, v)
      PROVE  Alone'
  BY <1>1, AloneKept DEF Deliver, Goto, TypeOK
<1>2. ASSUME NEW w \in Workers, SelectNewest(w)
      PROVE  Alone'
  BY <1>2, AloneKept, LeaveEach DEF SelectNewest, Declined, Goto, TypeOK
<1>3. ASSUME NEW w \in Workers, DeleteOld(w)
      PROVE  Alone'
  <2>1. rows' = {}
    BY <1>3 DEF DeleteOld, Remaining
  <2> QED
    BY <2>1 DEF Alone
<1>4. ASSUME NEW w \in Workers, InsertNew(w)
      PROVE  Alone'
  <2> DEFINE u == ver[w]
  <2>1. /\ u \in Versions /\ pc[w] = "insert" /\ rows' = rows \cup {u}
        /\ list' = list /\ edges' = edges
        /\ \A x \in Workers : x # w => pc'[x] = pc[x] /\ ver'[x] = ver[x]
        /\ \A v \in Versions : v # u => (v \in unbuilt => v \in unbuilt')
    BY <1>4, LeaveEach DEF InsertNew, HasList, Goto, TypeOK
  <2> SUFFICES ASSUME NEW v \in Versions, rows' = {v}
               PROVE  /\ list' = v => edges' = Graph(v)
                      /\ v \in unbuilt' \/ list' = v \/ Building(v)'
    BY DEF Alone, Graph
  <2>2. u = v /\ (rows = {} \/ rows = {v})
    BY <2>1 DEF TypeOK
  <2>3. list' = v => edges' = Graph(v)
    BY <2>1, <2>2, ReplaceableAssumption DEF Alone, TypeOK
  <2>4. CASE Path[w] # "store"
    <3>1. pc'[w] = "read" /\ ver'[w] = v
      BY <1>4, <2>2, <2>4 DEF InsertNew, Goto, TypeOK
    <3> QED
      BY <2>3, <3>1 DEF Building
  <2>5. CASE Path[w] = "store" /\ v \notin rows
    BY <1>4, <2>2, <2>3, <2>5 DEF InsertNew
  <2>6. CASE Path[w] = "store" /\ v \in rows
    <3>1. unbuilt' = unbuilt /\ rows = {v}
      BY <1>4, <2>2, <2>6 DEF InsertNew
    <3>2. Building(v) => Building(v)'
      BY <2>1 DEF Building
    <3> QED
      BY <2>1, <2>3, <3>1, <3>2 DEF Alone
  <2> QED
    BY <2>4, <2>5, <2>6
<1>5. ASSUME NEW w \in Workers, ReadList(w)
      PROVE  Alone'
  <2>1. CASE UpToDate(ver[w]) /\ Leave(w)
    <3>1. rows = {ver[w]} => list = ver[w]
      BY <2>1 DEF UpToDate, TypeOK
    <3> QED
      BY <1>5, <2>1, <3>1, AloneKept, LeaveEach DEF ReadList, TypeOK
  <2>2. CASE Goto(w, "rewrite") /\ UNCHANGED <<ver, doomed>>
    BY <1>5, <2>2, AloneKept DEF ReadList, Goto, TypeOK
  <2> QED
    BY <1>5, <2>1, <2>2 DEF ReadList
<1>6. ASSUME NEW w \in Workers, DeleteEdges(w)
      PROVE  Alone'
  BY <1>6, AloneKept DEF DeleteEdges, Goto, TypeOK
<1>7. ASSUME NEW w \in Workers, CommitEdges(w)
      PROVE  Alone'
  <2> DEFINE u == ver[w]
  <2>1. /\ pc[w] = "commit" /\ u \in Versions /\ rows' = rows /\ unbuilt' = unbuilt
        /\ \A x \in Workers : x # w => pc'[x] = pc[x] /\ ver'[x] = ver[x]
    BY <1>7, LeaveEach DEF CommitEdges, HasList, TypeOK
  <2>2. CASE u \notin rows
    <3>1. UNCHANGED tables
      BY <1>7, <2>2 DEF CommitEdges, tables
    <3> QED
      BY <2>1, <2>2, <3>1, AloneKept
  <2>3. CASE u \in rows
    <3>1. edges' = Rewritten(w, u) /\ list' = u
      BY <1>7, <2>3 DEF CommitEdges
    <3> SUFFICES ASSUME NEW v \in Versions, rows' = {v}
                 PROVE  list' = v /\ edges' = Graph(v)
      BY DEF Alone, Graph
    <3>2. u = v /\ v # None /\ \A p \in People : edges[p] \in {v, None}
      BY <2>1, <2>3, ReplaceableAssumption DEF TypeOK
    <3> QED
      BY <3>1, <3>2, RewrittenAlone
  <2> QED
    BY <2>2, <2>3
<1>8. ASSUME NEW w \in Workers, Abort(w)
      PROVE  Alone'
  <2>1. \/ pc[w] \notin {"read", "rewrite", "commit"}
        \/ ver[w] \in unbuilt'
    BY <1>8 DEF Abort, Inserting
  <2> QED
    BY <1>8, <2>1, AloneKept, LeaveEach DEF Abort, TypeOK
<1>9. CASE UNCHANGED vars
  BY <1>9 DEF vars, tables, work, Alone, Graph, Building
<1> QED
  BY <1>1, <1>2, <1>3, <1>4, <1>5, <1>6, <1>7, <1>8, <1>9 DEF Next, Step
-----------------------------------------------------------------------------
\* The rows of an author's lists, the graph and the deliveries keep their types; that
\* follow_lists and follows refer to stored lists (migration 004) is part of them.
THEOREM TypeCorrect == Spec => []TypeOK
<1>1. TypeOK /\ HasList /\ [Next]_vars => (TypeOK /\ HasList)'
  BY TypeNext, HasListNext
<1> QED
  BY <1>1, FirstState, PTL DEF Spec

\* Two lists of one author are both kept only when their deliveries have been between
\* the SELECT and the INSERT of upsert_kind3_event (repository.rs:411-470) together.
THEOREM RivalsOnly == Spec => []OnlyRivalsKept
<1> DEFINE IInv == TypeOK /\ HasList /\ MetWhileInserting /\ Rivals /\ OnlyRivalsKept
<1>1. IInv /\ [Next]_vars => IInv'
  BY TypeNext, HasListNext, MetNext, RivalsNext
<1> QED
  BY <1>1, FirstState, PTL DEF Spec

\* Whatever order the statements of the deliveries came in: when all is quiet and one
\* list is stored, follow_lists and follows are those of this list, unless it came on a
\* path that builds no graph or a fault ended the delivery.
THEOREM GraphOfTheList == Spec => []GraphAgrees
<1> DEFINE IInv == TypeOK /\ HasList /\ EdgesNamed /\ Alone
<1>1. IInv /\ [Next]_vars => IInv'
  BY TypeNext, HasListNext, EdgesNamedNext, AloneNext
<1>2. Alone => GraphAgrees
  BY DEF Alone, Building, GraphAgrees, Quiet, Graph
<1> QED
  BY <1>1, <1>2, FirstState, PTL DEF Spec
=============================================================================
