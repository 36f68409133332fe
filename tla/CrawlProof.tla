------------------------------ MODULE CrawlProof ------------------------------
(***************************************************************************)
(* What the cursors of Crawl promise, for any number of crawlers, authors, *)
(* relays and notes.                                                       *)
(***************************************************************************)
EXTENDS Crawl, FiniteSetTheorems, TLAPS

USE DEF NULL

\* What a crawler has found of an author is a range too, so that marking it keeps
\* the cursors a range.
FoundSpan ==
    \A c \in Crawlers, a \in Authors :
        stats[c][a].oldest # NULL =>
            stats[c][a].newest # NULL /\ stats[c][a].oldest <= stats[c][a].newest

\* A crawler at an author or at a relay knows which.
AtWork ==
    \A c \in Crawlers :
        /\ pc[c] \in {"backfill", "mark"} => at[c] \in Authors
        /\ pc[c] \in {"recentAt", "backfillAt"} => at[c] \in Relays

CursorsInv == TypeOK /\ AtWork /\ FoundSpan /\ Bracket

\* A range of what is there, and a NULL pair of nothing.
Ordered(s) == s.oldest # NULL => s.newest # NULL /\ s.oldest <= s.newest

-----------------------------------------------------------------------------
(* The operators *)

\* merge_min and merge_max stay among the times.
LEMMA EarlierType == ASSUME NEW s \in Times, NEW t \in Times PROVE Earlier(s, t) \in Times
  BY DEF Earlier

LEMMA LaterType == ASSUME NEW s \in Times, NEW t \in Times PROVE Later(s, t) \in Times
  BY DEF Later

\* merge_min never raises a cursor that is set, merge_max never lowers one.
LEMMA Widen ==
    ASSUME NEW s \in Times, NEW t \in Times
    PROVE  /\ s # NULL => Earlier(s, t) # NULL /\ Earlier(s, t) <= s
           /\ s <= Later(s, t)
           /\ t <= Later(s, t)
           /\ Earlier(s, t) \in {s, t}
  BY CrawlAssumption DEF Earlier, Later, Times

\* The span of a set of notes is ordered.
LEMMA SpanOrdered ==
    ASSUME NEW N \in SUBSET Notes, NEW s \in Spans(N)
    PROVE  s \in Span /\ Ordered(s)
  <1>1. CASE N = {}
    <2>1. s = [oldest |-> NULL, newest |-> NULL]
      BY <1>1 DEF Spans
    <2>. QED  BY <2>1, CrawlAssumption DEF Ordered, Span, Times
  <1>2. CASE N # {}
    <2>1. PICK n \in N, m \in N :
            /\ \A k \in N : Time[n] <= Time[k] /\ Time[k] <= Time[m]
            /\ s = [oldest |-> Time[n], newest |-> Time[m]]
      BY <1>2 DEF Spans
    <2>2. Time[n] \in 1 .. MaxTime /\ Time[m] \in 1 .. MaxTime /\ Time[n] <= Time[m]
      BY <2>1, CrawlAssumption
    <2>. QED  BY <2>1, <2>2, CrawlAssumption DEF Ordered, Span, Times
  <1>. QED  BY <1>1, <1>2

\* ... for each author in A.
LEMMA SpansOrdered ==
    ASSUME NEW A, NEW N \in SUBSET Notes, NEW s \in SpansOf(A, N), NEW a \in A
    PROVE  s[a] \in Span /\ Ordered(s[a])
  <1>1. s[a] \in Spans(N \cap By({a}))
    BY DEF SpansOf
  <1>. QED  BY <1>1, SpanOrdered

\* Merging two ordered spans gives one.
LEMMA MergeOrdered ==
    ASSUME NEW s \in Span, NEW t \in Span, Ordered(s), Ordered(t)
    PROVE  Merge(s, t) \in Span /\ Ordered(Merge(s, t))
  <1>1. s.oldest \in Times /\ s.newest \in Times /\ t.oldest \in Times /\ t.newest \in Times
    BY DEF Span
  <1>2. Merge(s, t) \in Span
    BY <1>1, EarlierType, LaterType DEF Merge, Span
  <1>3. Merge(s, t).oldest = Earlier(s.oldest, t.oldest) /\ Merge(s, t).newest = Later(s.newest, t.newest)
    BY DEF Merge
  <1>4. Ordered(Merge(s, t))
    BY <1>1, <1>3, CrawlAssumption DEF Ordered, Earlier, Later, Times
  <1>. QED  BY <1>2, <1>4

-----------------------------------------------------------------------------
(* What the steps have in common *)

\* What a crawler has found is unchanged but for one author or all, and ordered.
StatsOK == stats \in [Crawlers -> [Authors -> Span]] /\ FoundSpan

\* The initial state of what a crawler has found, and of its copies.
LEMMA NothingFound ==
    /\ NoStats \in [Authors -> Span] /\ NoCopy \in [Authors -> Cursors]
    /\ \A a \in Authors : NoStats[a].oldest = NULL
  <1>1. NULL \in Times
    BY CrawlAssumption DEF Times
  <1>. QED  BY <1>1 DEF NoStats, NoCopy, Span, Cursors

\* mark_crawled keeps the cursors a range and only widens them.
LEMMA MarkStep ==
    ASSUME CursorsInv, NEW c \in Crawlers, NEW a \in Authors, Mark(c, a)
    PROVE  /\ cursor' \in [Authors -> Times] /\ newest' \in [Authors -> Times]
           /\ due' \subseteq queued
           /\ Bracket'
           /\ \A b \in Authors : /\ cursor[b] # NULL => cursor'[b] # NULL /\ cursor'[b] <= cursor[b]
                                 /\ newest[b] <= newest'[b]
  <1> DEFINE s == stats[c][a]
  <1>1. s.oldest \in Times /\ s.newest \in Times /\ Ordered(s)
    BY DEF CursorsInv, TypeOK, FoundSpan, Ordered, Span
  <1>2. \A b \in Authors : cursor[b] \in Times /\ newest[b] \in Times
    BY DEF CursorsInv, TypeOK
  <1>3. /\ cursor' = [cursor EXCEPT ![a] = Earlier(cursor[a], s.oldest)]
        /\ newest' = [newest EXCEPT ![a] = Later(newest[a], s.newest)]
        /\ due' = due \ {a}
    BY DEF Mark
  <1>4. cursor' \in [Authors -> Times] /\ newest' \in [Authors -> Times]
    BY <1>1, <1>2, <1>3, EarlierType, LaterType DEF CursorsInv, TypeOK
  <1>5. cursor'[a] = Earlier(cursor[a], s.oldest) /\ newest'[a] = Later(newest[a], s.newest)
    BY <1>3 DEF CursorsInv, TypeOK
  <1>6. \A b \in Authors \ {a} : cursor'[b] = cursor[b] /\ newest'[b] = newest[b]
    BY <1>3 DEF CursorsInv, TypeOK
  <1>7. \A t, u \in Times : t <= u /\ u <= t => t = u
    BY CrawlAssumption DEF Times
  <1>8. /\ cursor[a] # NULL => cursor'[a] # NULL /\ cursor'[a] <= cursor[a]
        /\ newest[a] <= newest'[a]
    BY <1>1, <1>2, <1>5, Widen
  <1>9. \A b \in Authors : newest[b] <= newest[b] /\ cursor[b] <= cursor[b]
    BY <1>2, CrawlAssumption DEF Times
  <1>10. cursor'[a] # NULL => newest'[a] # NULL /\ cursor'[a] <= newest'[a]
    <2>1. cursor[a] # NULL => newest[a] # NULL /\ cursor[a] <= newest[a]
      BY DEF CursorsInv, Bracket
    <2>. QED  BY <1>1, <1>2, <1>5, <2>1, CrawlAssumption DEF Ordered, Earlier, Later, Times
  <1>11. Bracket'
    BY <1>6, <1>10 DEF CursorsInv, Bracket
  <1>. QED  BY <1>3, <1>4, <1>6, <1>8, <1>9, <1>11 DEF CursorsInv, TypeOK

\* The start-up sync raises newest_seen_at only.
LEMMA SyncStep ==
    ASSUME CursorsInv, SyncCursors
    PROVE  /\ newest' \in [Authors -> Times]
           /\ excused' \subseteq Notes
           /\ \A a \in Authors : newest[a] <= newest'[a]
  <1>1. PICK s \in SpansOf(Authors, stored) :
          newest' = [a \in Authors |->
                        IF a \in queued' THEN Later(newest[a], s[a].newest) ELSE newest[a]]
    BY DEF SyncCursors
  <1>2. ASSUME NEW a \in Authors PROVE newest'[a] \in Times /\ newest[a] <= newest'[a]
    <2>1. newest[a] \in Times /\ s[a].newest \in Times
      BY <1>1, SpansOrdered DEF CursorsInv, TypeOK, Span
    <2>2. newest[a] <= newest[a]
      BY <2>1, CrawlAssumption DEF Times
    <2>. QED  BY <1>1, <2>1, <2>2, Widen, LaterType
  <1>. QED  BY <1>1, <1>2 DEF SyncCursors, CursorsInv, TypeOK

\* Faults stay within their bound.
LEMMA CostsStep ==
    ASSUME CursorsInv, NEW k \in Nat, Costs(k)
    PROVE  faults' \in 0 .. MaxFaults
  BY CrawlAssumption DEF CursorsInv, TypeOK, Costs

LEMMA UnreadStep ==
    ASSUME CursorsInv, NEW k \in Nat, Unread(k)
    PROVE  /\ stored' \subseteq Notes /\ excused' \subseteq Notes /\ faults' \in 0 .. MaxFaults
           /\ stats' = stats
  BY CostsStep DEF CursorsInv, TypeOK, Unread

\* Reading a page leaves what was found ordered, and only of the authors asked for.
LEMMA ReadStep ==
    ASSUME CursorsInv, NEW c \in Crawlers, NEW r \in Relays, NEW q, q.authors \subseteq Authors,
           NEW all \in BOOLEAN, NEW k \in Nat, ReadPage(c, r, q, all, k)
    PROVE  /\ stored' \subseteq Notes /\ excused' \subseteq Notes /\ faults' \in 0 .. MaxFaults
           /\ StatsOK'
  <1> DEFINE S == Matching(r, q)
             size == Limit * Cardinality(q.authors)
             full(P) == P = S \/ Cardinality(P) = size
             found(P, D, X) == IF all THEN P ELSE P \ (X \cup D \cup stored)
             merged(s) == [a \in Authors |->
                 IF a \in q.authors THEN Merge(stats[c][a], s[a]) ELSE stats[c][a]]
  <1>1. S \subseteq Notes
    BY DEF Matching, By, CursorsInv, TypeOK
  <1>0. PICK P \in Pages(S, size) : \E D \in SUBSET (P \cap Refusable), X \in {{}} \cup {{n} : n \in P} :
          /\ Costs(k + Cardinality(X) + IF full(P) THEN 0 ELSE 1)
          /\ stored' = stored \cup (P \ (X \cup D))
          /\ \E s \in SpansOf(q.authors, found(P, D, X)) :
               stats' = [stats EXCEPT ![c] = merged(s)]
          /\ excused' = excused \cup (By(q.authors) \ relay[r]) \cup X \cup D
                                 \cup PassedOver(c, S \ P) \cup stored'
    BY Zenon DEF ReadPage
  <1>9. P \subseteq S
    BY <1>0 DEF Pages
  <1>2. PICK D \in SUBSET (P \cap Refusable), X \in {{}} \cup {{n} : n \in P} :
          /\ Costs(k + Cardinality(X) + IF full(P) THEN 0 ELSE 1)
          /\ stored' = stored \cup (P \ (X \cup D))
          /\ \E s \in SpansOf(q.authors, found(P, D, X)) :
               stats' = [stats EXCEPT ![c] = merged(s)]
          /\ excused' = excused \cup (By(q.authors) \ relay[r]) \cup X \cup D
                                 \cup PassedOver(c, S \ P) \cup stored'
    BY <1>0
  <1>3. PICK s \in SpansOf(q.authors, found(P, D, X)) :
          stats' = [stats EXCEPT ![c] = merged(s)]
    BY <1>2
  <1>4. Cardinality(X) \in Nat
    <2>1. X = {} \/ \E n \in P : X = {n}
      OBVIOUS
    <2>2. Cardinality({}) = 0 /\ \A n : Cardinality({n}) = 1
      BY FS_EmptySet, FS_Singleton
    <2>3. Cardinality(X) = 0 \/ Cardinality(X) = 1
      BY <2>1, <2>2, Zenon
    <2>. QED  BY <2>3
  <1>5. faults' \in 0 .. MaxFaults
    <2>1. k + Cardinality(X) + (IF full(P) THEN 0 ELSE 1) \in Nat
      BY <1>4
    <2>. QED  BY <1>2, <2>1, CostsStep
  <1>6. stored' \subseteq Notes /\ excused' \subseteq Notes
    <2>1. P \subseteq Notes /\ X \subseteq Notes
      BY <1>1, <1>2, <1>9
    <2>2. PassedOver(c, S \ P) \subseteq Notes /\ By(q.authors) \subseteq Notes
      BY <1>1 DEF PassedOver, By
    <2>. QED  BY <1>2, <2>1, <2>2 DEF CursorsInv, TypeOK
  <1>7. ASSUME NEW a \in q.authors
        PROVE  Merge(stats[c][a], s[a]) \in Span /\ Ordered(Merge(stats[c][a], s[a]))
    <2>1. found(P, D, X) \subseteq Notes
      BY <1>1, <1>9
    <2>2. s[a] \in Span /\ Ordered(s[a])
      BY <1>3, <2>1, SpansOrdered
    <2>3. stats[c][a] \in Span /\ Ordered(stats[c][a])
      BY DEF CursorsInv, TypeOK, FoundSpan, Ordered
    <2>. QED  BY <2>2, <2>3, MergeOrdered
  <1>8. StatsOK'
    <2> DEFINE new == [a \in Authors |-> IF a \in q.authors THEN Merge(stats[c][a], s[a]) ELSE stats[c][a]]
    <2>1. \A a \in Authors : new[a] \in Span /\ Ordered(new[a])
      BY <1>7 DEF CursorsInv, TypeOK, FoundSpan, Ordered
    <2>2. new \in [Authors -> Span]
      BY <2>1
    <2>3. stats' = [stats EXCEPT ![c] = new]
      BY <1>3
    <2> HIDE DEF new
    <2>4. stats' \in [Crawlers -> [Authors -> Span]]
      BY <2>2, <2>3 DEF CursorsInv, TypeOK
    <2>5. \A d \in Crawlers, a \in Authors : Ordered(stats'[d][a])
      BY <2>1, <2>3 DEF CursorsInv, TypeOK, FoundSpan, Ordered
    <2>. QED  BY <2>4, <2>5 DEF StatsOK, FoundSpan, Ordered
  <1>. QED  BY <1>5, <1>6, <1>8

\* Reconciliation stores notes, and the cursors then are to span what is stored.
LEMMA ReconcileStep ==
    ASSUME CursorsInv, NEW r \in Relays, NEW A \in SUBSET Authors, Reconcile(r, A)
    PROVE  stored' \subseteq Notes /\ excused' \subseteq Notes /\ faults' \in 0 .. MaxFaults
  <1> DEFINE need == (relay[r] \cap By(A)) \ stored
  <1>1. PICK X \in SUBSET need :
          /\ Costs(IF X \subseteq Refusable THEN 0 ELSE 1)
          /\ stored' = stored \cup (need \ X)
          /\ excused' = excused \cup (By(A) \ relay[r]) \cup X \cup stored'
    BY DEF Reconcile
  <1>2. faults' \in 0 .. MaxFaults
    BY <1>1, CostsStep
  <1>3. need \subseteq Notes /\ By(A) \subseteq Notes
    BY DEF By
  <1>. QED  BY <1>1, <1>2, <1>3 DEF CursorsInv, TypeOK

LEMMA SpanStoredStep ==
    ASSUME CursorsInv, NEW c \in Crawlers, NEW A \in SUBSET Authors, SpanStored(c, A),
           stored' \subseteq Notes
    PROVE  StatsOK'
  <1>1. PICK s \in SpansOf(A, stored') :
          stats' = [stats EXCEPT ![c] =
                      [a \in Authors |-> IF a \in A /\ s[a].oldest # NULL THEN s[a] ELSE stats[c][a]]]
    BY DEF SpanStored
  <1> DEFINE new == [a \in Authors |->
                        IF a \in A /\ s[a].oldest # NULL THEN s[a] ELSE stats[c][a]]
  <1>2. ASSUME NEW a \in A PROVE s[a] \in Span /\ Ordered(s[a])
    BY <1>1, SpansOrdered
  <1>3. \A a \in Authors : new[a] \in Span /\ Ordered(new[a])
    BY <1>2 DEF CursorsInv, TypeOK, FoundSpan, Ordered
  <1>4. new \in [Authors -> Span]
    BY <1>3
  <1>5. stats' = [stats EXCEPT ![c] = new]
    BY <1>1
  <1> HIDE DEF new
  <1>6. stats' \in [Crawlers -> [Authors -> Span]]
    BY <1>4, <1>5 DEF CursorsInv, TypeOK
  <1>7. \A d \in Crawlers, a \in Authors : Ordered(stats'[d][a])
    BY <1>3, <1>5 DEF CursorsInv, TypeOK, FoundSpan, Ordered
  <1>. QED  BY <1>6, <1>7 DEF StatsOK, FoundSpan, Ordered

\* A crawler that is done forgets what it found.
LEMMA ForgetStep ==
    ASSUME CursorsInv, NEW c \in Crawlers, stats' = [stats EXCEPT ![c] = NoStats]
    PROVE  StatsOK'
  <1>1. \A a \in Authors : NoStats[a].oldest = NULL
    BY NothingFound
  <1>. QED  BY <1>1, NothingFound DEF CursorsInv, TypeOK, StatsOK, FoundSpan

-----------------------------------------------------------------------------
(* The steps *)

\* What a step may do to the cursors.
Widens ==
    \A a \in Authors :
        /\ cursor[a] # NULL => cursor'[a] # NULL /\ cursor'[a] <= cursor[a]
        /\ newest[a] <= newest'[a]

\* A step that moves no cursor has the type of the work and of what was found to show.
LEMMA QuietStep ==
    ASSUME CursorsInv, UNCHANGED <<cursor, newest>>, TypeOK', AtWork', FoundSpan'
    PROVE  CursorsInv' /\ Widens
  <1>1. \A a \in Authors : cursor[a] \in Times /\ newest[a] \in Times
    BY DEF CursorsInv, TypeOK
  <1>2. \A t \in Times : t <= t
    BY CrawlAssumption DEF Times
  <1>. QED  BY <1>1, <1>2 DEF CursorsInv, Bracket, Widens

LEMMA OthersStep ==
    ASSUME CursorsInv,
           \/ Resync
           \/ \E a \in Authors : ComeDue(a)
           \/ \E n \in Notes : Ingest(n) \/ \E r \in Relays : Publish(r, n)
    PROVE  CursorsInv' /\ Widens
  <1>1. CASE Resync
    <2>1. PICK S \in SUBSET Authors : Seed(S)
      BY <1>1 DEF Resync
    <2>2. TypeOK'
      BY <1>1, <2>1 DEF CursorsInv, TypeOK, Resync, Seed, workVars, relayVars
    <2>. QED  BY <1>1, <2>2, QuietStep DEF AtWork, workVars, Resync, CursorsInv, FoundSpan
  <1>2. ASSUME NEW a \in Authors, ComeDue(a) PROVE CursorsInv' /\ Widens
    <2>1. TypeOK'
      BY <1>2 DEF CursorsInv, TypeOK, ComeDue, workVars, relayVars
    <2>. QED  BY <1>2, <2>1, QuietStep DEF AtWork, workVars, ComeDue, CursorsInv, FoundSpan
  <1>3. ASSUME NEW n \in Notes, Ingest(n) PROVE CursorsInv' /\ Widens
    <2>1. TypeOK'
      BY <1>3 DEF CursorsInv, TypeOK, Ingest, workVars, relayVars, tableVars
    <2>. QED  BY <1>3, <2>1, QuietStep DEF AtWork, workVars, Ingest, tableVars, CursorsInv, FoundSpan
  <1>4. ASSUME NEW n \in Notes, NEW r \in Relays, Publish(r, n) PROVE CursorsInv' /\ Widens
    <2>1. TypeOK'
      BY <1>4 DEF CursorsInv, TypeOK, Publish, workVars, tableVars
    <2>. QED  BY <1>4, <2>1, QuietStep DEF AtWork, workVars, Publish, tableVars, CursorsInv, FoundSpan
  <1>. QED  BY <1>1, <1>2, <1>3, <1>4

LEMMA StartStep ==
    ASSUME CursorsInv, NEW c \in Crawlers, StartCrawler(c)
    PROVE  CursorsInv' /\ Widens
  <1>1. PICK S \in SUBSET Authors : Seed(S)
    BY DEF StartCrawler
  <1>2. SyncCursors
    BY DEF StartCrawler
  <1>3. TypeOK'
    BY <1>1, <1>2, SyncStep DEF CursorsInv, TypeOK, StartCrawler, Seed, workVars, relayVars, Stages
  <1>4. FoundSpan'
    BY DEF CursorsInv, FoundSpan, StartCrawler
  <1>5. Widens /\ cursor' = cursor
    <2>1. \A a \in Authors : cursor[a] \in Times
      BY DEF CursorsInv, TypeOK
    <2>2. \A t \in Times : t <= t
      BY CrawlAssumption DEF Times
    <2>. QED  BY <1>2, <2>1, <2>2, SyncStep DEF StartCrawler, Widens
  <1>6. Bracket'
    <2>1. \A a \in Authors : /\ cursor[a] \in Times /\ newest[a] \in Times /\ newest'[a] \in Times
                             /\ newest[a] <= newest'[a]
      BY <1>2, SyncStep DEF CursorsInv, TypeOK
    <2>. QED  BY <1>5, <2>1, CrawlAssumption DEF CursorsInv, Bracket, Times
  <1>7. AtWork'
    BY DEF CursorsInv, TypeOK, AtWork, StartCrawler, workVars
  <1>. QED  BY <1>3, <1>4, <1>5, <1>6, <1>7 DEF CursorsInv

LEMMA TakeStep ==
    ASSUME CursorsInv, NEW c \in Crawlers, NEW S \in SUBSET Authors, TakeBatch(c, S)
    PROVE  CursorsInv' /\ Widens
  <1> DEFINE new == [a \in Authors |->
               IF a \in S THEN [cursor |-> cursor[a], newest |-> newest[a]] ELSE copy[c][a]]
  <1>1. new \in [Authors -> Cursors] /\ copy' = [copy EXCEPT ![c] = new]
    BY DEF CursorsInv, TypeOK, TakeBatch, Cursors
  <1>2. By({a \in S : \E d \in Crawlers : a \in batch[d]}) \subseteq Notes
    BY DEF By
  <1> HIDE DEF new
  <1>3. copy' \in [Crawlers -> [Authors -> Cursors]]
    BY <1>1 DEF CursorsInv, TypeOK
  <1>4. TypeOK'
    BY <1>2, <1>3, CrawlAssumption DEF CursorsInv, TypeOK, TakeBatch, relayVars, Stages
  <1>5. AtWork'
    BY DEF CursorsInv, TypeOK, AtWork, TakeBatch
  <1>. QED  BY <1>4, <1>5, QuietStep DEF TakeBatch, CursorsInv, FoundSpan

\* What a fetch leaves is of its type, and in order.
FetchOK == /\ stored' \subseteq Notes /\ excused' \subseteq Notes /\ faults' \in 0 .. MaxFaults
           /\ StatsOK'

LEMMA UnreadOK == ASSUME CursorsInv, NEW k \in Nat, Unread(k) PROVE FetchOK
  BY UnreadStep DEF FetchOK, StatsOK, CursorsInv, TypeOK, FoundSpan

LEMMA FetchStep ==
    ASSUME CursorsInv, NEW c \in Crawlers, NEW a \in Authors, NEW since, NEW until,
           FetchAuthorNotes(c, a, since, until)
    PROVE  FetchOK
  <1> DEFINE q == Request({a}, since, until)
  <1>1. PICK down \in {{}} \cup {{r} : r \in Relays} :
          \/ Unread(Cardinality(down))
          \/ \E r \in Relays : ReadPage(c, r, q, TRUE, Cardinality(down))
    BY DEF FetchAuthorNotes
  <1>2. Cardinality(down) \in Nat
    <2>1. down = {} \/ \E r \in Relays : down = {r}
      BY <1>1
    <2>2. Cardinality({}) = 0 /\ \A r : Cardinality({r}) = 1
      BY FS_EmptySet, FS_Singleton
    <2>3. Cardinality(down) = 0 \/ Cardinality(down) = 1
      BY <2>1, <2>2, Zenon
    <2>. QED  BY <2>3
  <1>3. q.authors = {a} /\ TRUE \in BOOLEAN
    BY DEF Request
  <1>4. CASE Unread(Cardinality(down))
    BY <1>2, <1>4, UnreadOK
  <1>5. ASSUME NEW r \in Relays, ReadPage(c, r, q, TRUE, Cardinality(down)) PROVE FetchOK
    <2>1. q.authors \subseteq Authors
      BY <1>3
    <2> HIDE DEF q
    <2>. QED  BY <1>2, <1>3, <1>5, <2>1, ReadStep DEF FetchOK
  <1>. QED  BY <1>1, <1>4, <1>5

\* The crawler that forgets its batch is idle with nothing at hand.
LEMMA DoneStep ==
    ASSUME CursorsInv, NEW c \in Crawlers, Done(c)
    PROVE  /\ pc' \in [Crawlers -> Stages]
           /\ batch' \in [Crawlers -> SUBSET Authors] /\ left' \in [Crawlers -> SUBSET Relays]
           /\ routed' \in [Crawlers -> SUBSET Authors]
           /\ copy' \in [Crawlers -> [Authors -> Cursors]]
           /\ StatsOK'
  <1>1. StatsOK'
    BY ForgetStep DEF Done
  <1>. QED  BY <1>1, NothingFound DEF CursorsInv, TypeOK, Done, Stages

\* The marks of both crawlers: mark_crawled succeeds or fails.
LEMMA MarkOrFail ==
    ASSUME CursorsInv, NEW c \in Crawlers, NEW a \in Authors,
           \/ Mark(c, a) /\ UNCHANGED faults
           \/ Costs(1) /\ UNCHANGED <<cursor, newest, due>>
    PROVE  /\ cursor' \in [Authors -> Times] /\ newest' \in [Authors -> Times]
           /\ due' \subseteq queued /\ faults' \in 0 .. MaxFaults
           /\ Bracket' /\ Widens
  <1>1. CASE Mark(c, a) /\ UNCHANGED faults
    BY <1>1, MarkStep DEF Widens, CursorsInv, TypeOK
  <1>2. CASE Costs(1) /\ UNCHANGED <<cursor, newest, due>>
    <2>1. faults' \in 0 .. MaxFaults
      BY <1>2, CostsStep
    <2>2. \A b \in Authors : cursor[b] \in Times /\ newest[b] \in Times
      BY DEF CursorsInv, TypeOK
    <2>3. \A t \in Times : t <= t
      BY CrawlAssumption DEF Times
    <2>. QED  BY <1>2, <2>1, <2>2, <2>3 DEF CursorsInv, TypeOK, Bracket, Widens
  <1>. QED  BY <1>1, <1>2

LEMMA LegacyStep ==
    ASSUME CursorsInv, NEW c \in Crawlers,
           (\E a \in Authors : FetchRecent(c, a)) \/ Backfill(c) \/ MarkAuthor(c)
    PROVE  CursorsInv' /\ Widens
  <1>1. ASSUME NEW a \in Authors, FetchRecent(c, a) PROVE CursorsInv' /\ Widens
    <2>1. FetchOK
      <3>1. CASE copy[c][a].newest # NULL
        BY <1>1, <3>1, FetchStep DEF FetchRecent
      <3>2. CASE copy[c][a].newest = NULL
        BY <1>1, <3>2, UnreadOK DEF FetchRecent
      <3>. QED  BY <3>1, <3>2
    <2>2. TypeOK'
      BY <1>1, <2>1 DEF CursorsInv, TypeOK, FetchRecent, FetchOK, StatsOK, Go, Stages,
                        relayVars, tableVars
    <2>3. AtWork'
      BY <1>1 DEF CursorsInv, TypeOK, AtWork, FetchRecent, Go
    <2>. QED  BY <1>1, <2>1, <2>2, <2>3, QuietStep DEF FetchRecent, tableVars, FetchOK, StatsOK
  <1>2. CASE Backfill(c) /\ at[c] \in Authors
    <2> DEFINE a == at[c]
    <2>1. FetchOK
      BY <1>2, FetchStep, UnreadOK DEF Backfill
    <2>2. TypeOK'
      BY <1>2, <2>1 DEF CursorsInv, TypeOK, Backfill, FetchOK, StatsOK, Go, Stages,
                        relayVars, tableVars, workVars
    <2>3. AtWork'
      BY <1>2 DEF CursorsInv, TypeOK, AtWork, Backfill, Go, workVars
    <2>. QED  BY <1>2, <2>1, <2>2, <2>3, QuietStep DEF Backfill, tableVars, FetchOK, StatsOK
  <1>3. CASE MarkAuthor(c) /\ at[c] \in Authors
    <2> DEFINE a == at[c]
    <2>1. /\ cursor' \in [Authors -> Times] /\ newest' \in [Authors -> Times]
          /\ due' \subseteq queued /\ faults' \in 0 .. MaxFaults
          /\ Bracket' /\ Widens
      BY <1>3, MarkOrFail DEF MarkAuthor
    <2>2. /\ pc' \in [Crawlers -> Stages]
          /\ batch' \in [Crawlers -> SUBSET Authors] /\ left' \in [Crawlers -> SUBSET Relays]
          /\ routed' \in [Crawlers -> SUBSET Authors]
          /\ copy' \in [Crawlers -> [Authors -> Cursors]]
          /\ StatsOK'
      <3>1. CASE todo[c] = {a}
        BY <1>3, <3>1, DoneStep DEF MarkAuthor
      <3>2. CASE todo[c] # {a}
        <4>1. StatsOK'
          BY <1>3, <3>2, ForgetStep DEF MarkAuthor
        <4>. QED  BY <1>3, <3>2, <4>1 DEF MarkAuthor, CursorsInv, TypeOK, Go, Stages
      <3>. QED  BY <3>1, <3>2
    <2>3. TypeOK'
      BY <1>3, <2>1, <2>2 DEF CursorsInv, TypeOK, MarkAuthor, StatsOK, relayVars
    <2>4. AtWork'
      BY <1>3 DEF CursorsInv, TypeOK, AtWork, MarkAuthor, Go, Done
    <2>. QED  BY <2>1, <2>2, <2>3, <2>4 DEF CursorsInv, StatsOK
  <1>4. (Backfill(c) \/ MarkAuthor(c)) => at[c] \in Authors
    BY DEF CursorsInv, AtWork, Backfill, MarkAuthor
  <1>. QED  BY <1>1, <1>2, <1>3, <1>4

\* Phase 1 and the end of each phase.
LEMMA PhaseStep ==
    ASSUME CursorsInv, NEW c \in Crawlers,
           \/ \E r \in Relays : VisitPrimary(c, r)
           \/ EndPrimary(c) \/ EndWrite(c) \/ EndFallback(c)
    PROVE  CursorsInv' /\ Widens
  <1>1. ASSUME NEW r \in Relays, VisitPrimary(c, r) PROVE CursorsInv' /\ Widens
    <2>1. batch[c] \in SUBSET Authors
      BY DEF CursorsInv, TypeOK
    <2>2. FetchOK
      <3>1. CASE Reconcile(r, batch[c]) /\ (SpanStored(c, batch[c]) \/ UNCHANGED stats)
        <4>1. StatsOK'
          BY <2>1, <3>1, ReconcileStep, SpanStoredStep DEF CursorsInv, TypeOK, StatsOK, FoundSpan
        <4>. QED  BY <2>1, <3>1, <4>1, ReconcileStep DEF FetchOK
      <3>2. CASE Unread(0)
        BY <3>2, UnreadOK
      <3>. QED  BY <1>1, <3>1, <3>2 DEF VisitPrimary
    <2>3. TypeOK'
      BY <1>1, <2>2 DEF CursorsInv, TypeOK, VisitPrimary, Leave, FetchOK, StatsOK,
                        relayVars, tableVars
    <2>4. AtWork'
      BY <1>1 DEF CursorsInv, AtWork, VisitPrimary
    <2>. QED  BY <1>1, <2>2, <2>3, <2>4, QuietStep DEF VisitPrimary, tableVars, FetchOK, StatsOK
  <1>2. CASE EndPrimary(c)
    <2>1. PICK A \in SUBSET {a \in batch[c] : Writes[a] # {}} :
            /\ routed' = [routed EXCEPT ![c] = A]
            /\ left' = [left EXCEPT ![c] = UNION {Writes[a] : a \in A} \ Primary]
      BY <1>2 DEF EndPrimary
    <2>2. A \subseteq Authors
      BY DEF CursorsInv, TypeOK
    <2>3. UNION {Writes[a] : a \in A} \subseteq Relays
      BY <2>2, CrawlAssumption
    <2>4. TypeOK'
      BY <1>2, <2>1, <2>2, <2>3 DEF CursorsInv, TypeOK, EndPrimary, Go, Stages,
                                    relayVars, tableVars
    <2>5. AtWork'
      BY <1>2 DEF CursorsInv, TypeOK, AtWork, EndPrimary, Go
    <2>. QED  BY <1>2, <2>4, <2>5, QuietStep DEF EndPrimary, tableVars, CursorsInv, FoundSpan
  <1>3. CASE EndWrite(c)
    <2>1. TypeOK'
      <3>1. CASE routed[c] = batch[c]
        BY <1>3, <3>1 DEF CursorsInv, TypeOK, EndWrite, Go, Stages, relayVars, tableVars
      <3>2. CASE routed[c] # batch[c]
        <4>1. left' \in [Crawlers -> SUBSET Relays]
          <5>1. left' = [left EXCEPT ![c] = Relays \ Primary]
            BY <1>3, <3>2 DEF EndWrite
          <5>2. left \in [Crawlers -> SUBSET Relays] /\ Relays \ Primary \in SUBSET Relays
            BY DEF CursorsInv, TypeOK
          <5>. QED  BY <5>1, <5>2
        <4>. QED  BY <1>3, <3>2, <4>1 DEF CursorsInv, TypeOK, EndWrite, Go, Stages,
                                          relayVars, tableVars
      <3>. QED  BY <3>1, <3>2
    <2>2. AtWork'
      BY <1>3 DEF CursorsInv, TypeOK, AtWork, EndWrite, Go
    <2>. QED  BY <1>3, <2>1, <2>2, QuietStep DEF EndWrite, tableVars, CursorsInv, FoundSpan
  <1>4. CASE EndFallback(c)
    <2>1. TypeOK'
      BY <1>4 DEF CursorsInv, TypeOK, EndFallback, Go, Stages, relayVars, tableVars
    <2>2. AtWork'
      BY <1>4 DEF CursorsInv, TypeOK, AtWork, EndFallback, Go
    <2>. QED  BY <1>4, <2>1, <2>2, QuietStep DEF EndFallback, tableVars, CursorsInv, FoundSpan
  <1>. QED  BY <1>1, <1>2, <1>3, <1>4

\* Where legacy_crawl_authors begins.
LEMMA BeginStep ==
    ASSUME CursorsInv, NEW c \in Crawlers, NEW r \in Relays, NEW A \in SUBSET Authors,
           BeginLegacy(c, r, A)
    PROVE  /\ FetchOK
           /\ pc' \in [Crawlers -> Stages] /\ todo' \in [Crawlers -> SUBSET Authors]
           /\ left' \in [Crawlers -> SUBSET Relays]
           /\ at' \in [Crawlers -> Relays \cup Authors \cup {None}]
           /\ AtWork'
  <1>1. FetchOK
    BY UnreadOK DEF BeginLegacy
  <1>2. AtWork'
    BY DEF CursorsInv, TypeOK, AtWork, BeginLegacy, Go
  <1>. QED  BY <1>1, <1>2 DEF BeginLegacy, CursorsInv, TypeOK, Go, Stages

\* Phases 2 and 3, at one relay.
LEMMA VisitStep ==
    ASSUME CursorsInv, NEW c \in Crawlers, NEW r \in Relays,
           VisitWrite(c, r) \/ VisitFallback(c, r)
    PROVE  CursorsInv' /\ Widens
  <1>1. CASE VisitWrite(c, r)
    <2> DEFINE A == {a \in routed[c] : r \in Writes[a]}
    <2>1. A \in SUBSET Authors
      BY DEF CursorsInv, TypeOK
    <2> HIDE DEF A
    <2>2. /\ FetchOK
          /\ pc' \in [Crawlers -> Stages] /\ todo' \in [Crawlers -> SUBSET Authors]
          /\ left' \in [Crawlers -> SUBSET Relays]
          /\ at' \in [Crawlers -> Relays \cup Authors \cup {None}]
          /\ AtWork'
      <3>1. CASE /\ Leave(c, r) /\ Reconcile(r, A) /\ UNCHANGED <<pc, todo, at>>
                 /\ SpanStored(c, A) \/ UNCHANGED stats
        <4>1. StatsOK'
          BY <2>1, <3>1, ReconcileStep, SpanStoredStep DEF CursorsInv, TypeOK, StatsOK, FoundSpan
        <4>2. FetchOK
          BY <2>1, <3>1, <4>1, ReconcileStep DEF FetchOK
        <4>. QED  BY <3>1, <4>2 DEF CursorsInv, TypeOK, AtWork, Leave
      <3>2. CASE BeginLegacy(c, r, A)
        BY <2>1, <3>2, BeginStep
      <3>. QED  BY <1>1, <3>1, <3>2 DEF VisitWrite, A
    <2>3. TypeOK'
      BY <1>1, <2>2 DEF CursorsInv, TypeOK, VisitWrite, FetchOK, StatsOK, relayVars, tableVars
    <2>. QED  BY <1>1, <2>2, <2>3, QuietStep DEF VisitWrite, tableVars, FetchOK, StatsOK
  <1>2. CASE VisitFallback(c, r)
    <2> DEFINE A == batch[c] \ routed[c]
    <2>1. A \in SUBSET Authors
      BY DEF CursorsInv, TypeOK
    <2> HIDE DEF A
    <2>2. /\ FetchOK
          /\ pc' \in [Crawlers -> Stages] /\ todo' \in [Crawlers -> SUBSET Authors]
          /\ left' \in [Crawlers -> SUBSET Relays]
          /\ at' \in [Crawlers -> Relays \cup Authors \cup {None}]
          /\ AtWork'
      <3>1. CASE /\ left' = [left EXCEPT ![c] = {}]
                 /\ UNCHANGED <<pc, todo, at>>
                 /\ (Reconcile(r, A) /\ UNCHANGED stats) \/ Unread(1)
        <4>1. FetchOK
          <5>1. CASE Reconcile(r, A) /\ UNCHANGED stats
            <6>1. StatsOK'
              BY <5>1 DEF CursorsInv, TypeOK, StatsOK, FoundSpan
            <6>. QED  BY <2>1, <5>1, <6>1, ReconcileStep DEF FetchOK
          <5>2. CASE Unread(1)
            BY <5>2, UnreadOK
          <5>. QED  BY <3>1, <5>1, <5>2
        <4>. QED  BY <3>1, <4>1 DEF CursorsInv, TypeOK, AtWork
      <3>2. CASE BeginLegacy(c, r, A)
        BY <2>1, <3>2, BeginStep
      <3>. QED  BY <1>2, <3>1, <3>2 DEF VisitFallback, A
    <2>3. TypeOK'
      BY <1>2, <2>2 DEF CursorsInv, TypeOK, VisitFallback, FetchOK, StatsOK, relayVars, tableVars
    <2>. QED  BY <1>2, <2>2, <2>3, QuietStep DEF VisitFallback, tableVars, FetchOK, StatsOK
  <1>. QED  BY <1>1, <1>2

\* legacy_crawl_authors, and the marks of a targeted cycle.
LEMMA TargetedStep ==
    ASSUME CursorsInv, NEW c \in Crawlers,
           \/ FetchRecentAt(c)
           \/ \E a \in Authors : BackfillAt(c, a) \/ MarkAll(c, a)
    PROVE  CursorsInv' /\ Widens
  <1>1. CASE FetchRecentAt(c)
    <2> DEFINE A == todo[c]
    <2>1. at[c] \in Relays /\ A \subseteq Authors
      BY <1>1 DEF CursorsInv, TypeOK, AtWork, FetchRecentAt
    <2>2. PICK since \in Times :
            Unread(1) \/ ReadPage(c, at[c], Request(A, since, MaxTime), FALSE, 0)
      BY <1>1 DEF FetchRecentAt
    <2>3. FetchOK
      <3>1. CASE Unread(1)
        BY <3>1, UnreadOK
      <3>2. CASE ReadPage(c, at[c], Request(A, since, MaxTime), FALSE, 0)
        <4>1. Request(A, since, MaxTime).authors \subseteq Authors
          BY <2>1 DEF Request
        <4>. QED  BY <2>1, <3>2, <4>1, ReadStep DEF FetchOK
      <3>. QED  BY <2>2, <3>1, <3>2
    <2>4. TypeOK'
      BY <1>1, <2>3 DEF CursorsInv, TypeOK, FetchRecentAt, FetchOK, StatsOK, Go, Stages,
                        relayVars, tableVars, workVars
    <2>5. AtWork'
      BY <1>1 DEF CursorsInv, TypeOK, AtWork, FetchRecentAt, Go, workVars
    <2>. QED  BY <1>1, <2>3, <2>4, <2>5, QuietStep DEF FetchRecentAt, tableVars, FetchOK, StatsOK
  <1>2. ASSUME NEW a \in Authors, BackfillAt(c, a) PROVE CursorsInv' /\ Widens
    <2>1. at[c] \in Relays
      BY <1>2 DEF CursorsInv, AtWork, BackfillAt
    <2>2. FetchOK
      <3>1. CASE Unread(0)
        BY <3>1, UnreadOK
      <3>2. CASE Unread(1)
        BY <3>2, UnreadOK
      <3>3. CASE ReadPage(c, at[c], Request({a}, 0, copy[c][a].cursor), FALSE, 0)
        <4>1. Request({a}, 0, copy[c][a].cursor).authors \subseteq Authors
          BY DEF Request
        <4>. QED  BY <2>1, <3>3, <4>1, ReadStep DEF FetchOK
      <3>. QED  BY <1>2, <3>1, <3>2, <3>3 DEF BackfillAt
    <2>3. /\ pc' \in [Crawlers -> Stages] /\ left' \in [Crawlers -> SUBSET Relays]
          /\ at' \in [Crawlers -> Relays \cup Authors \cup {None}]
          /\ AtWork'
      <3>1. CASE todo[c] = {a}
        <4>1. PICK s \in {"write", "fallback"} : pc' = [pc EXCEPT ![c] = s]
          BY <1>2, <3>1 DEF BackfillAt, Go
        <4>2. left' = [left EXCEPT ![c] = @ \ {at[c]}] /\ at' = [at EXCEPT ![c] = None]
          BY <1>2, <3>1 DEF BackfillAt, Leave
        <4>3. AtWork'
          BY <4>1, <4>2 DEF CursorsInv, TypeOK, AtWork
        <4>. QED  BY <4>1, <4>2, <4>3 DEF CursorsInv, TypeOK, Stages
      <3>2. CASE todo[c] # {a}
        BY <1>2, <3>2 DEF CursorsInv, TypeOK, AtWork, BackfillAt
      <3>. QED  BY <3>1, <3>2
    <2>4. TypeOK'
      BY <1>2, <2>2, <2>3 DEF CursorsInv, TypeOK, BackfillAt, FetchOK, StatsOK,
                              relayVars, tableVars
    <2>. QED  BY <1>2, <2>2, <2>3, <2>4, QuietStep DEF BackfillAt, tableVars, FetchOK, StatsOK
  <1>3. ASSUME NEW a \in Authors, MarkAll(c, a) PROVE CursorsInv' /\ Widens
    <2>1. /\ cursor' \in [Authors -> Times] /\ newest' \in [Authors -> Times]
          /\ due' \subseteq queued /\ faults' \in 0 .. MaxFaults
          /\ Bracket' /\ Widens
      BY <1>3, MarkOrFail DEF MarkAll
    <2>2. /\ pc' \in [Crawlers -> Stages]
          /\ batch' \in [Crawlers -> SUBSET Authors] /\ left' \in [Crawlers -> SUBSET Relays]
          /\ routed' \in [Crawlers -> SUBSET Authors]
          /\ copy' \in [Crawlers -> [Authors -> Cursors]]
          /\ StatsOK'
      <3>1. CASE todo[c] = {a}
        BY <1>3, <3>1, DoneStep DEF MarkAll
      <3>2. CASE todo[c] # {a}
        BY <1>3, <3>2 DEF MarkAll, CursorsInv, TypeOK, StatsOK, FoundSpan
      <3>. QED  BY <3>1, <3>2
    <2>3. TypeOK'
      BY <1>3, <2>1, <2>2 DEF CursorsInv, TypeOK, MarkAll, StatsOK, relayVars
    <2>4. AtWork'
      BY <1>3 DEF CursorsInv, TypeOK, AtWork, MarkAll, Done
    <2>. QED  BY <2>1, <2>2, <2>3, <2>4 DEF CursorsInv, StatsOK
  <1>. QED  BY <1>1, <1>2, <1>3

LEMMA CrashStep ==
    ASSUME CursorsInv, NEW c \in Crawlers, Crash(c)
    PROVE  CursorsInv' /\ Widens
  <1>1. StatsOK'
    BY ForgetStep DEF Crash
  <1>2. faults' \in 0 .. MaxFaults
    BY CostsStep DEF Crash
  <1>3. TypeOK'
    BY <1>1, <1>2, NothingFound DEF CursorsInv, TypeOK, Crash, StatsOK, Stages,
                                    relayVars, tableVars
  <1>4. AtWork'
    BY DEF CursorsInv, TypeOK, AtWork, Crash
  <1>. QED  BY <1>1, <1>3, <1>4, QuietStep DEF Crash, tableVars, StatsOK

-----------------------------------------------------------------------------
(* The theorems *)

LEMMA CursorsInitially == Init => CursorsInv
  <1> SUFFICES ASSUME Init PROVE CursorsInv
    OBVIOUS
  <1>1. NULL \in Times
    BY CrawlAssumption DEF Times
  <1>2. TypeOK
    BY <1>1, NothingFound, CrawlAssumption DEF Init, TypeOK, Stages
  <1>3. AtWork
    BY DEF Init, AtWork
  <1>4. FoundSpan
    BY NothingFound DEF Init, FoundSpan
  <1>5. Bracket
    BY DEF Init, Bracket
  <1>. QED  BY <1>2, <1>3, <1>4, <1>5 DEF CursorsInv

LEMMA CursorsStep == CursorsInv /\ [Next]_vars => CursorsInv' /\ Widens
  <1> SUFFICES ASSUME CursorsInv, [Next]_vars PROVE CursorsInv' /\ Widens
    OBVIOUS
  <1>1. CASE UNCHANGED vars
    <2>1. TypeOK'
      BY <1>1 DEF CursorsInv, TypeOK, vars, relayVars, tableVars, workVars
    <2>2. AtWork' /\ FoundSpan'
      BY <1>1 DEF CursorsInv, AtWork, FoundSpan, vars, workVars
    <2>. QED  BY <1>1, <2>1, <2>2, QuietStep DEF vars, tableVars
  <1>2. ASSUME NEW c \in Crawlers, Crawler(c) PROVE CursorsInv' /\ Widens
    BY <1>2, StartStep, TakeStep, LegacyStep, PhaseStep, VisitStep, TargetedStep
       DEF Crawler, Work
  <1>3. ASSUME NEW c \in Crawlers, Crash(c) PROVE CursorsInv' /\ Widens
    BY <1>3, CrashStep
  <1>. QED  BY <1>1, <1>2, <1>3, OthersStep DEF Next

\* The crawlers and the queue keep their types.
THEOREM TypeCorrect == Spec => []TypeOK
  <1>1. CursorsInv => TypeOK
    BY DEF CursorsInv
  <1>. QED  BY <1>1, CursorsInitially, CursorsStep, PTL DEF Spec

\* However many crawlers overlap on an author, whatever relays answer and whatever
\* fails, its cursors enclose a range (mark_crawled).
THEOREM Bracketed == Spec => []Bracket
  <1>1. CursorsInv => Bracket
    BY DEF CursorsInv
  <1>. QED  BY <1>1, CursorsInitially, CursorsStep, PTL DEF Spec

\* ... and no step narrows it.
THEOREM OnlyWiden == Spec => CursorsOnlyWiden
  <1>1. CursorsInv /\ [Next]_vars => [Widens]_<<cursor, newest>>
    BY CursorsStep
  <1>2. Spec => [][Widens]_<<cursor, newest>>
    BY <1>1, CursorsInitially, CursorsStep, PTL DEF Spec
  <1>. QED  BY <1>2 DEF CursorsOnlyWiden, Widens
-----------------------------------------------------------------------------
(* The holes *)

Covered == stored \cup excused

\* All notes of a are stored or passed over for a named cause.
Full(a) == By({a}) \subseteq Covered

\* The authors that c has leased and not marked yet.
MarkStages == {"recent", "backfill", "mark", "markAll"}
Unmarked(c) == IF pc[c] \in MarkStages THEN todo[c] ELSE batch[c]

\* What c knows of a when nobody else crawls it: its copy of crawl_cursor is that of
\* the row, and it has passed nothing over from the oldest note it found up to
\* the copy of newest_seen_at, nor from there up to the newest note it found.
Known(c, a) ==
    /\ copy[c][a].cursor = cursor[a] /\ copy[c][a].newest <= newest[a]
    /\ cursor[a] # NULL => copy[c][a].newest # NULL /\ cursor[a] <= copy[c][a].newest

Below(c, a, n) ==
    /\ stats[c][a].oldest # NULL /\ stats[c][a].oldest < Time[n]
    /\ copy[c][a].newest = NULL \/ Time[n] <= copy[c][a].newest

Above(c, a, n) ==
    copy[c][a].newest # NULL /\ copy[c][a].newest < Time[n] /\ Time[n] <= stats[c][a].newest

Raised(c, a, n) == copy[c][a].newest < Time[n] /\ Time[n] <= newest[a]

Clean(c, a) ==
    /\ Known(c, a)
    /\ \A n \in By({a}) : Below(c, a, n) \/ Above(c, a, n) \/ Raised(c, a, n) => n \in Covered

\* What a crawler has at hand fits its stage.
Leased ==
    \A c \in Crawlers :
        /\ pc[c] \in {"off", "idle"} => batch[c] = {} /\ stats[c] = NoStats
        /\ pc[c] \in MarkStages => todo[c] \subseteq batch[c]
        /\ pc[c] \in {"backfill", "mark"} => at[c] \in todo[c]

\* Two crawlers at the same author: all its notes were excused.
Shared ==
    \A c, d \in Crawlers : \A a \in batch[c] \cap batch[d] : c # d => Full(a)

Careful == \A c \in Crawlers : \A a \in Unmarked(c) : Full(a) \/ Clean(c, a)

HolesInv == HolesAreAccounted /\ Careful /\ Shared /\ Leased

\* What is stored or excused stays so.
Grows == stored \subseteq stored' /\ excused \subseteq excused'

LEMMA GrowsCovered ==
    ASSUME Grows
    PROVE  Covered \subseteq Covered' /\ \A a \in Authors : Full(a) => Full(a)'
  BY DEF Grows, Covered, Full, By

\* The span of something, or of nothing.
LEMMA SpanOf ==
    ASSUME NEW N \in SUBSET Notes, NEW s \in Spans(N)
    PROVE  \/ s.oldest = NULL /\ s.newest = NULL
           \/ /\ s.oldest # NULL
              /\ \E n \in N : s.oldest = Time[n]
              /\ \E m \in N : s.newest = Time[m]
  <1>1. CASE N = {}
    BY <1>1 DEF Spans
  <1>2. CASE N # {}
    <2>1. PICK n \in N, m \in N : s = [oldest |-> Time[n], newest |-> Time[m]]
      BY <1>2 DEF Spans
    <2>2. Time[n] # NULL
      BY CrawlAssumption
    <2>. QED  BY <2>1, <2>2
  <1>. QED  BY <1>1, <1>2

\* What a page s of what q asks for says of the notes of a: within q nothing is
\* passed over above the oldest note found, nor above the newest note known.
PageOf(c, q, a, s) ==
    /\ s \in Span
    /\ stats'[c][a] = Merge(stats[c][a], s)
    /\ s.oldest = NULL => s.newest = NULL
    /\ s.oldest # NULL => q.since <= s.oldest /\ s.newest <= q.until
    /\ \A n \in By({a}) :
         /\ q.since <= Time[n] /\ Time[n] <= q.until
         /\ \/ s.oldest # NULL /\ s.oldest < Time[n]
            \/ copy[c][a].newest # NULL /\ copy[c][a].newest < Time[n]
         => n \in Covered'

LEMMA PageStep ==
    ASSUME CursorsInv, NEW c \in Crawlers, NEW r \in Relays, NEW q, q.authors \subseteq Authors,
           NEW all \in BOOLEAN, NEW k \in Nat, ReadPage(c, r, q, all, k)
    PROVE  /\ Grows
           /\ \A d \in Crawlers, a \in Authors :
                d # c \/ a \notin q.authors => stats'[d][a] = stats[d][a]
           /\ \A a \in q.authors : \E s : PageOf(c, q, a, s)
  <1> DEFINE S == Matching(r, q)
             size == Limit * Cardinality(q.authors)
             found(P, D, X) == IF all THEN P ELSE P \ (X \cup D \cup stored)
             merged(s) == [a \in Authors |->
                 IF a \in q.authors THEN Merge(stats[c][a], s[a]) ELSE stats[c][a]]
  <1>1. S \subseteq Notes /\ \A n \in S : q.since <= Time[n] /\ Time[n] <= q.until
    BY DEF Matching, By
  <1>2. PICK P \in Pages(S, size) : \E D \in SUBSET (P \cap Refusable), X \in {{}} \cup {{n} : n \in P} :
          /\ stored' = stored \cup (P \ (X \cup D))
          /\ \E s \in SpansOf(q.authors, found(P, D, X)) :
               stats' = [stats EXCEPT ![c] = merged(s)]
          /\ excused' = excused \cup (By(q.authors) \ relay[r]) \cup X \cup D
                                 \cup PassedOver(c, S \ P) \cup stored'
    BY Zenon DEF ReadPage
  <1>3. PICK D \in SUBSET (P \cap Refusable), X \in {{}} \cup {{n} : n \in P} :
          /\ stored' = stored \cup (P \ (X \cup D))
          /\ \E s \in SpansOf(q.authors, found(P, D, X)) :
               stats' = [stats EXCEPT ![c] = merged(s)]
          /\ excused' = excused \cup (By(q.authors) \ relay[r]) \cup X \cup D
                                 \cup PassedOver(c, S \ P) \cup stored'
    BY <1>2
  <1>4. PICK t \in SpansOf(q.authors, found(P, D, X)) : stats' = [stats EXCEPT ![c] = merged(t)]
    BY <1>3
  <1>5. P \subseteq S /\ \A n \in P, m \in S \ P : Time[n] >= Time[m]
    BY <1>2 DEF Pages
  <1>6. Grows
    BY <1>3 DEF Grows
  <1> DEFINE F == found(P, D, X)
  <1>7. F \subseteq P
    OBVIOUS
  <1> HIDE DEF S, size, F
  <1>8. stats \in [Crawlers -> [Authors -> Span]]
    BY DEF CursorsInv, TypeOK
  <1>9. ASSUME NEW d \in Crawlers, NEW a \in Authors, d # c \/ a \notin q.authors
        PROVE  stats'[d][a] = stats[d][a]
    BY <1>4, <1>8, <1>9
  <1>10. ASSUME NEW a \in q.authors PROVE PageOf(c, q, a, t[a])
    <2> DEFINE s == t[a]
    <2>1. s \in Spans(F \cap By({a})) /\ F \cap By({a}) \in SUBSET Notes
      BY <1>1, <1>4, <1>5, <1>7 DEF SpansOf, F
    <2>2. \/ s.oldest = NULL /\ s.newest = NULL
          \/ /\ s.oldest # NULL
             /\ \E n \in F \cap By({a}) : s.oldest = Time[n]
             /\ \E m \in F \cap By({a}) : s.newest = Time[m]
      BY <2>1, SpanOf
    <2>3. s \in Span
      BY <2>1, SpanOrdered
    <2>4. stats'[c][a] = Merge(stats[c][a], s)
      BY <1>4, <1>8
    <2>5. s.oldest # NULL => q.since <= s.oldest /\ s.newest <= q.until
      BY <1>1, <1>5, <1>7, <2>2
    <2>6. ASSUME NEW n \in By({a}), q.since <= Time[n], Time[n] <= q.until,
                 \/ s.oldest # NULL /\ s.oldest < Time[n]
                 \/ copy[c][a].newest # NULL /\ copy[c][a].newest < Time[n]
          PROVE  n \in Covered'
      <3>0. n \in Notes /\ Author[n] = a /\ n \in By(q.authors)
        BY DEF By
      <3>1. CASE n \notin relay[r]
        BY <1>3, <3>0, <3>1 DEF Covered
      <3>2. CASE n \in P
        BY <1>3, <3>2 DEF Covered
      <3>3. CASE n \in relay[r] /\ n \notin P
        <4>1. n \in S \ P
          BY <2>6, <3>0, <3>3 DEF Matching, S
        <4>2. CASE s.oldest # NULL /\ s.oldest < Time[n]
          <5>1. PICK m \in F : s.oldest = Time[m]
            BY <2>2, <4>2
          <5>2. m \in P /\ Time[m] >= Time[n] /\ Time[m] \in Int /\ Time[n] \in Int
            BY <1>1, <1>5, <1>7, <4>1, CrawlAssumption
          <5>. QED  BY <4>2, <5>1, <5>2
        <4>3. CASE copy[c][a].newest # NULL /\ copy[c][a].newest < Time[n]
          <5>1. Time[n] > copy[c][a].newest
            BY <4>3
          <5>2. n \in PassedOver(c, S \ P)
            BY <3>0, <4>1, <4>3, <5>1 DEF PassedOver
          <5>. QED  BY <1>3, <5>2 DEF Covered
        <4>. QED  BY <2>6, <4>2, <4>3
      <3>. QED  BY <3>1, <3>2, <3>3
    <2>. QED  BY <2>2, <2>3, <2>4, <2>5, <2>6 DEF PageOf
  <1>. QED  BY <1>6, <1>9, <1>10

\* The requests of the crawlers: what is newer than newest_seen_at, everything, or
\* what is older than crawl_cursor.
Newer(c, a, q) ==
    /\ q.until = MaxTime
    /\ IF copy[c][a].newest = NULL THEN q.since = 0 ELSE q.since <= copy[c][a].newest + 1

Older(c, a, q) ==
    q.since = 0 /\ copy[c][a].cursor # NULL /\ q.until = copy[c][a].cursor

\* A page of either keeps what c knows of a.
LEMMA PageKeeps ==
    ASSUME CursorsInv, HolesAreAccounted, Grows, UNCHANGED <<cursor, newest, copy>>,
           NEW c \in Crawlers, NEW a \in Authors, Clean(c, a),
           NEW q, q.since \in Nat, Newer(c, a, q) \/ Older(c, a, q), NEW s, PageOf(c, q, a, s)
    PROVE  Clean(c, a)'
  <1> DEFINE o == stats[c][a]
             m == stats'[c][a]
             known == copy[c][a].newest
  <1>1. /\ o \in Span /\ s \in Span /\ known \in Times /\ cursor[a] \in Times /\ newest[a] \in Times
        /\ copy[c][a].cursor \in Times
    BY DEF CursorsInv, TypeOK, Cursors, PageOf
  <1>2. /\ o.oldest \in Times /\ o.newest \in Times /\ s.oldest \in Times /\ s.newest \in Times
    BY <1>1 DEF Span
  <1>3. m.oldest = Earlier(o.oldest, s.oldest) /\ m.newest = Later(o.newest, s.newest)
    BY DEF PageOf, Merge
  <1>4. /\ m.oldest = o.oldest \/ (m.oldest = s.oldest /\ s.oldest # NULL)
        /\ m.newest = o.newest \/ (m.newest = s.newest /\ s.newest # NULL)
    BY <1>3 DEF Earlier, Later
  <1>5. Known(c, a) /\ Known(c, a)'
    BY DEF Clean, Known
  <1>6. ASSUME NEW n \in By({a}), Below(c, a, n)' \/ Above(c, a, n)' \/ Raised(c, a, n)'
        PROVE  n \in Covered'
    <2>1. n \in Notes /\ Author[n] = a /\ Time[n] \in 1 .. MaxTime
      BY CrawlAssumption DEF By
    <2>2. n \in Covered => n \in Covered'
      BY GrowsCovered
    <2>3. CASE Raised(c, a, n)'
      BY <2>2, <2>3 DEF Raised, Clean
    <2>4. CASE Below(c, a, n)'
      <3>1. m.oldest # NULL /\ m.oldest < Time[n] /\ (known = NULL \/ Time[n] <= known)
        BY <2>4 DEF Below
      <3>2. CASE m.oldest = o.oldest
        <4>1. Below(c, a, n)
          BY <3>1, <3>2 DEF Below
        <4>. QED  BY <2>2, <4>1 DEF Clean
      <3>3. CASE m.oldest = s.oldest /\ s.oldest # NULL
        <4>1. q.since <= s.oldest
          BY <3>3 DEF PageOf
        <4>2. q.since <= Time[n] /\ s.oldest < Time[n]
          BY <1>2, <2>1, <3>1, <3>3, <4>1, CrawlAssumption DEF Times
        <4>3. Time[n] <= q.until => n \in Covered'
          BY <3>3, <4>2 DEF PageOf
        <4>4. CASE Newer(c, a, q)
          BY <2>1, <4>3, <4>4, CrawlAssumption DEF Newer
        <4>5. CASE Older(c, a, q) /\ ~(Time[n] <= q.until)
          <5>1. cursor[a] # NULL /\ q.until = cursor[a] /\ known # NULL /\ known <= newest[a]
            BY <1>5, <4>5 DEF Older, Known
          <5>2. cursor[a] < Time[n] /\ Time[n] <= newest[a]
            BY <1>1, <2>1, <3>1, <4>5, <5>1, CrawlAssumption DEF Times
          <5>. QED  BY <2>1, <2>2, <5>1, <5>2 DEF HolesAreAccounted, Covered
        <4>. QED  BY <4>3, <4>4, <4>5
      <3>. QED  BY <1>4, <3>2, <3>3
    <2>5. CASE Above(c, a, n)'
      <3>1. known # NULL /\ known < Time[n] /\ Time[n] <= m.newest
        BY <2>5 DEF Above
      <3>2. CASE Newer(c, a, q)
        <4>1. q.since <= Time[n] /\ Time[n] <= q.until
          BY <1>1, <2>1, <3>1, <3>2, CrawlAssumption DEF Newer, Times
        <4>. QED  BY <3>1, <4>1 DEF PageOf
      <3>3. CASE m.newest = o.newest
        <4>1. Above(c, a, n)
          BY <3>1, <3>3 DEF Above
        <4>. QED  BY <2>2, <4>1 DEF Clean
      <3>4. CASE Older(c, a, q) /\ m.newest = s.newest /\ s.newest # NULL
        <4>1. s.newest <= q.until
          BY <3>4 DEF PageOf
        <4>2. q.until = cursor[a] /\ cursor[a] # NULL /\ cursor[a] <= known
          BY <1>5, <3>4 DEF Older, Known
        <4>. QED  BY <1>1, <1>2, <2>1, <3>1, <3>4, <4>1, <4>2, CrawlAssumption DEF Times
      <3>. QED  BY <1>4, <3>2, <3>3, <3>4
    <2>. QED  BY <1>6, <2>3, <2>4, <2>5
  <1>. QED  BY <1>5, <1>6 DEF Clean

\* A successful mark_crawled of a by c leaves no hole that is not accounted for.
LEMMA MarkKeeps ==
    ASSUME CursorsInv, HolesAreAccounted, NEW c \in Crawlers, NEW a \in Authors,
           Full(a) \/ Clean(c, a), Mark(c, a), UNCHANGED <<stored, excused>>
    PROVE  HolesAreAccounted'
  <1> DEFINE o == stats[c][a]
             known == copy[c][a].newest
  <1>1. /\ o \in Span /\ known \in Times /\ cursor[a] \in Times /\ newest[a] \in Times
    BY DEF CursorsInv, TypeOK, Cursors
  <1>2. o.oldest \in Times /\ o.newest \in Times
    BY <1>1 DEF Span
  <1>3. /\ cursor'[a] = Earlier(cursor[a], o.oldest) /\ newest'[a] = Later(newest[a], o.newest)
        /\ \A b \in Authors \ {a} : cursor'[b] = cursor[b] /\ newest'[b] = newest[b]
    BY DEF Mark, CursorsInv, TypeOK
  <1>4. /\ cursor'[a] = cursor[a] \/ (cursor'[a] = o.oldest /\ o.oldest # NULL)
        /\ newest'[a] = newest[a] \/ newest'[a] = o.newest
        /\ cursor'[a] # NULL => (cursor[a] # NULL => cursor'[a] <= cursor[a])
    BY <1>1, <1>2, <1>3, CrawlAssumption DEF Earlier, Later, Times
  <1>5. SUFFICES ASSUME NEW n \in Notes, cursor'[Author[n]] # NULL,
                        cursor'[Author[n]] < Time[n], Time[n] <= newest'[Author[n]]
                 PROVE  n \in Covered
    BY DEF HolesAreAccounted, Covered
  <1>6. Author[n] \in Authors /\ Time[n] \in 1 .. MaxTime
    BY CrawlAssumption
  <1>7. CASE Author[n] # a
    BY <1>3, <1>5, <1>6, <1>7 DEF HolesAreAccounted, Covered
  <1>8. CASE Author[n] = a /\ Full(a)
    BY <1>8 DEF Full, By
  <1>9. CASE Author[n] = a /\ Clean(c, a)
    <2>1. n \in By({a})
      BY <1>9 DEF By
    <2>2. Raised(c, a, n) \/ Below(c, a, n) \/ Above(c, a, n) => n \in Covered
      BY <1>9, <2>1 DEF Clean
    <2>3. known <= newest[a] /\ (cursor[a] # NULL => known # NULL /\ cursor[a] <= known)
      BY <1>9 DEF Clean, Known
    <2>4. CASE known < Time[n] /\ Time[n] <= newest[a]
      BY <2>2, <2>4 DEF Raised
    <2>5. CASE known < Time[n] /\ ~(Time[n] <= newest[a]) /\ known # NULL
      <3>1. Time[n] <= o.newest
        BY <1>4, <1>5, <1>9, <2>5
      <3>. QED  BY <2>2, <2>5, <3>1 DEF Above
    <2>6. CASE cursor'[a] = o.oldest /\ o.oldest # NULL /\ (known = NULL \/ Time[n] <= known)
      BY <1>5, <1>9, <2>2, <2>6 DEF Below
    <2>7. CASE cursor'[a] = cursor[a] /\ (known = NULL \/ Time[n] <= known)
      <3>1. cursor[a] # NULL /\ cursor[a] < Time[n] /\ known # NULL
        BY <1>5, <1>9, <2>3, <2>7
      <3>2. Time[n] <= newest[a]
        BY <1>1, <1>6, <2>3, <2>7, <3>1, CrawlAssumption DEF Times
      <3>. QED  BY <1>9, <3>1, <3>2 DEF HolesAreAccounted, Covered
    <2>8. known < Time[n] \/ Time[n] <= known
      BY <1>1, <1>6, CrawlAssumption DEF Times
    <2>. QED  BY <1>4, <2>4, <2>5, <2>6, <2>7, <2>8
  <1>. QED  BY <1>7, <1>8, <1>9

\* What c knows of a stays known while nothing of a moves.
LEMMA CleanFrame ==
    ASSUME Grows, NEW c \in Crawlers, NEW a \in Authors, Clean(c, a),
           cursor'[a] = cursor[a], newest'[a] = newest[a],
           copy'[c][a] = copy[c][a],
           stats'[c][a] = stats[c][a] \/ stats'[c][a] = NoStats[a]
    PROVE  Clean(c, a)'
  <1>1. Known(c, a)'
    BY DEF Clean, Known
  <1>2. ASSUME NEW n \in By({a}), Below(c, a, n)' \/ Above(c, a, n)' \/ Raised(c, a, n)'
        PROVE  n \in Covered'
    <2>1. n \in Covered => n \in Covered'
      BY GrowsCovered
    <2>2. CASE Raised(c, a, n)'
      BY <2>1, <2>2 DEF Raised, Clean
    <2>3. CASE stats'[c][a] = stats[c][a]
      BY <1>2, <2>1, <2>2, <2>3 DEF Below, Above, Clean
    <2>4. CASE stats'[c][a] = NoStats[a]
      <3>1. stats'[c][a].oldest = NULL /\ stats'[c][a].newest = NULL
        BY <2>4 DEF NoStats
      <3>2. ~Below(c, a, n)'
        BY <3>1 DEF Below
      <3>3. CASE Above(c, a, n)'
        <4>1. Time[n] <= 0 /\ Time[n] \in 1 .. MaxTime
          BY <3>1, <3>3, CrawlAssumption DEF Above, By
        <4>. QED  BY <4>1, CrawlAssumption
      <3>. QED  BY <1>2, <2>2, <3>2, <3>3
    <2>. QED  BY <2>3, <2>4
  <1>. QED  BY <1>1, <1>2 DEF Clean

\* Whom c has not marked it has leased.
LEMMA UnmarkedLeased ==
    ASSUME CursorsInv, Leased, NEW c \in Crawlers
    PROVE  Unmarked(c) \subseteq batch[c] /\ Unmarked(c) \subseteq Authors
  BY DEF Leased, Unmarked, CursorsInv, TypeOK

\* A step of c between its lease and its marks keeps the invariant when it loses
\* nothing that c knew of an author, and marks nobody.
Learns(c) == \A a \in Unmarked(c) : Clean(c, a) => Full(a)' \/ Clean(c, a)'

OnlyOf(c) ==
    \A d \in Crawlers \ {c} : /\ pc'[d] = pc[d] /\ todo'[d] = todo[d] /\ at'[d] = at[d]
                              /\ stats'[d] = stats[d]

LEMMA WorkKeeps ==
    ASSUME CursorsInv, HolesInv, NEW c \in Crawlers, Grows, OnlyOf(c), Learns(c),
           UNCHANGED <<cursor, newest, batch, copy>>,
           pc'[c] \notin {"off", "idle"},
           Unmarked(c)' \subseteq Unmarked(c),
           pc'[c] \in MarkStages => todo'[c] \subseteq batch[c],
           pc'[c] \in {"backfill", "mark"} => at'[c] \in todo'[c]
    PROVE  HolesInv'
  <1>1. Covered \subseteq Covered' /\ \A a \in Authors : Full(a) => Full(a)'
    BY GrowsCovered
  <1>2. HolesAreAccounted'
    BY <1>1 DEF HolesInv, HolesAreAccounted, Covered
  <1>3. Careful'
    <2>1. ASSUME NEW d \in Crawlers, NEW a \in Unmarked(d)' PROVE (Full(a) \/ Clean(d, a))'
      <3>1. CASE d = c
        BY <1>1, <2>1, <3>1, UnmarkedLeased DEF HolesInv, Careful, Learns
      <3>2. CASE d # c
        <4>1. a \in Unmarked(d) /\ stats'[d][a] = stats[d][a]
          BY <2>1, <3>2 DEF OnlyOf, Unmarked
        <4>2. a \in Authors
          BY <4>1, UnmarkedLeased DEF HolesInv
        <4>3. Full(a) \/ Clean(d, a)
          BY <4>1 DEF HolesInv, Careful
        <4>. QED  BY <1>1, <4>1, <4>2, <4>3, CleanFrame
      <3>. QED  BY <3>1, <3>2
    <2>. QED  BY <2>1 DEF Careful
  <1>4. Shared'
    BY <1>1 DEF HolesInv, Shared, CursorsInv, TypeOK
  <1>5. Leased'
    BY DEF HolesInv, Leased, OnlyOf
  <1>. QED  BY <1>2, <1>3, <1>4, <1>5 DEF HolesInv

\* What relays can teach c.
LEMMA UnreadLearns ==
    ASSUME CursorsInv, HolesInv, NEW c \in Crawlers, NEW k \in Nat, Unread(k),
           UNCHANGED <<cursor, newest, copy>>
    PROVE  Grows /\ Learns(c) /\ UNCHANGED stats
  <1>1. Grows /\ UNCHANGED stats
    BY DEF Unread, Grows
  <1>2. Learns(c)
    BY <1>1, CleanFrame, UnmarkedLeased DEF Learns, HolesInv
  <1>. QED  BY <1>1, <1>2

LEMMA PageLearns ==
    ASSUME CursorsInv, HolesInv, NEW c \in Crawlers, NEW r \in Relays,
           NEW q, q.authors \subseteq Authors, q.since \in Nat,
           \A a \in q.authors : Newer(c, a, q) \/ Older(c, a, q),
           NEW all \in BOOLEAN, NEW k \in Nat, ReadPage(c, r, q, all, k),
           UNCHANGED <<cursor, newest, copy>>
    PROVE  Grows /\ Learns(c) /\ \A d \in Crawlers \ {c} : stats'[d] = stats[d]
  <1>1. /\ Grows
        /\ \A d \in Crawlers, a \in Authors :
             d # c \/ a \notin q.authors => stats'[d][a] = stats[d][a]
        /\ \A a \in q.authors : \E s : PageOf(c, q, a, s)
    BY PageStep
  <1>2. ASSUME NEW a \in Unmarked(c), Clean(c, a) PROVE Clean(c, a)'
    <2>1. a \in Authors
      BY UnmarkedLeased DEF HolesInv
    <2>2. CASE a \in q.authors
      <3>1. PICK s : PageOf(c, q, a, s)
        BY <1>1, <2>2
      <3>. QED  BY <1>1, <1>2, <2>1, <2>2, <3>1, PageKeeps DEF HolesInv
    <2>3. CASE a \notin q.authors
      BY <1>1, <1>2, <2>1, <2>3, CleanFrame
    <2>. QED  BY <2>2, <2>3
  <1>3. \A d \in Crawlers \ {c} : stats'[d] = stats[d]
    BY DEF ReadPage, CursorsInv, TypeOK
  <1>. QED  BY <1>1, <1>2, <1>3 DEF Learns

LEMMA ReconcileLearns ==
    ASSUME CursorsInv, HolesInv, NEW c \in Crawlers, NEW r \in Relays, NEW A \in SUBSET Authors,
           Reconcile(r, A), SpanStored(c, A) \/ UNCHANGED stats,
           UNCHANGED <<cursor, newest, copy>>
    PROVE  Grows /\ Learns(c) /\ \A d \in Crawlers \ {c} : stats'[d] = stats[d]
  <1> DEFINE need == (relay[r] \cap By(A)) \ stored
  <1>1. PICK X \in SUBSET need :
          /\ stored' = stored \cup (need \ X)
          /\ excused' = excused \cup (By(A) \ relay[r]) \cup X \cup stored'
    BY DEF Reconcile
  <1>2. Grows
    BY <1>1 DEF Grows
  <1>3. \A a \in A : Full(a)'
    BY <1>1 DEF Full, Covered, By
  <1>4. ASSUME NEW d \in Crawlers PROVE /\ d # c => stats'[d] = stats[d]
                                        /\ \A b \in Authors \ A : stats'[d][b] = stats[d][b]
    <2>1. CASE SpanStored(c, A)
      <3>1. PICK s : stats' = [stats EXCEPT ![c] =
                [a \in Authors |-> IF a \in A /\ s[a].oldest # NULL THEN s[a] ELSE stats[c][a]]]
        BY <2>1 DEF SpanStored
      <3>. QED  BY <3>1 DEF CursorsInv, TypeOK
    <2>2. CASE UNCHANGED stats
      BY <2>2
    <2>. QED  BY <2>1, <2>2
  <1>5. ASSUME NEW a \in Unmarked(c), Clean(c, a), a \notin A PROVE Clean(c, a)'
    <2>1. a \in Authors
      BY UnmarkedLeased DEF HolesInv
    <2>. QED  BY <1>2, <1>4, <1>5, <2>1, CleanFrame
  <1>. QED  BY <1>2, <1>3, <1>4, <1>5 DEF Learns

\* The two ways of fetch_author_notes.
LEMMA FetchLearns ==
    ASSUME CursorsInv, HolesInv, NEW c \in Crawlers, NEW a \in Authors,
           NEW since \in Nat, NEW until, FetchAuthorNotes(c, a, since, until),
           Newer(c, a, Request({a}, since, until)) \/ Older(c, a, Request({a}, since, until)),
           UNCHANGED <<cursor, newest, copy>>
    PROVE  Grows /\ Learns(c) /\ \A d \in Crawlers \ {c} : stats'[d] = stats[d]
  <1> DEFINE q == Request({a}, since, until)
  <1>1. PICK down \in {{}} \cup {{r} : r \in Relays} :
          \/ Unread(Cardinality(down))
          \/ \E r \in Relays : ReadPage(c, r, q, TRUE, Cardinality(down))
    BY DEF FetchAuthorNotes
  <1>2. Cardinality(down) \in Nat
    <2>1. down = {} \/ \E r \in Relays : down = {r}
      BY <1>1
    <2>2. Cardinality({}) = 0 /\ \A r : Cardinality({r}) = 1
      BY FS_EmptySet, FS_Singleton
    <2>3. Cardinality(down) = 0 \/ Cardinality(down) = 1
      BY <2>1, <2>2, Zenon
    <2>. QED  BY <2>3
  <1>3. q.authors = {a} /\ q.since = since
    BY DEF Request
  <1>4. CASE Unread(Cardinality(down))
    BY <1>2, <1>4, UnreadLearns
  <1>5. ASSUME NEW r \in Relays, ReadPage(c, r, q, TRUE, Cardinality(down))
        PROVE  Grows /\ Learns(c) /\ \A d \in Crawlers \ {c} : stats'[d] = stats[d]
    <2>1. q.authors \subseteq Authors /\ q.since \in Nat
      BY <1>3
    <2>2. \A b \in q.authors : Newer(c, b, q) \/ Older(c, b, q)
      BY <1>3
    <2> HIDE DEF q
    <2>. QED  BY <1>2, <1>5, <2>1, <2>2, PageLearns
  <1>. QED  BY <1>1, <1>4, <1>5

LEMMA LegacyHoles ==
    ASSUME CursorsInv, HolesInv, NEW c \in Crawlers,
           (\E a \in Authors : FetchRecent(c, a)) \/ Backfill(c)
    PROVE  HolesInv'
  <1>1. ASSUME NEW a \in Authors, FetchRecent(c, a) PROVE HolesInv'
    <2>0. UNCHANGED <<cursor, newest, batch, copy, todo>> /\ pc[c] = "recent" /\ a \in todo[c]
      BY <1>1 DEF FetchRecent, tableVars
    <2>1. pc' = [pc EXCEPT ![c] = "backfill"] /\ at' = [at EXCEPT ![c] = a]
      BY <1>1 DEF FetchRecent, Go
    <2>2. Grows /\ Learns(c) /\ \A d \in Crawlers \ {c} : stats'[d] = stats[d]
      <3>1. CASE copy[c][a].newest # NULL
        <4>1. copy[c][a].newest \in Times
          BY DEF CursorsInv, TypeOK, Cursors
        <4>2. copy[c][a].newest + 1 \in Nat
          BY <4>1, CrawlAssumption DEF Times
        <4>3. Newer(c, a, Request({a}, copy[c][a].newest + 1, MaxTime))
          BY <3>1, <4>2 DEF Newer, Request
        <4>. QED  BY <1>1, <2>0, <3>1, <4>2, <4>3, FetchLearns DEF FetchRecent
      <3>2. CASE copy[c][a].newest = NULL
        BY <1>1, <2>0, <3>2, UnreadLearns DEF FetchRecent
      <3>. QED  BY <3>1, <3>2
    <2>3. /\ pc'[c] = "backfill" /\ at'[c] = a
          /\ OnlyOf(c)
      BY <2>0, <2>1, <2>2 DEF OnlyOf, CursorsInv, TypeOK
    <2>4. Unmarked(c)' = Unmarked(c) /\ todo[c] \subseteq batch[c]
      BY <2>0, <2>3 DEF Unmarked, MarkStages, HolesInv, Leased
    <2>. QED  BY <2>0, <2>2, <2>3, <2>4, WorkKeeps
  <1>2. CASE Backfill(c)
    <2> DEFINE a == at[c]
    <2>0. /\ UNCHANGED <<cursor, newest, batch, copy, todo, at>> /\ pc[c] = "backfill"
          /\ pc' = [pc EXCEPT ![c] = "mark"]
          /\ a \in Authors /\ a \in todo[c] /\ todo[c] \subseteq batch[c]
      BY <1>2 DEF Backfill, tableVars, workVars, Go, HolesInv, Leased, MarkStages, CursorsInv, AtWork
    <2>1. copy[c][a] \in Cursors
      BY <2>0 DEF CursorsInv, TypeOK
    <2>2. Grows /\ Learns(c) /\ \A d \in Crawlers \ {c} : stats'[d] = stats[d]
      <3>1. CASE /\ copy[c][a].cursor # NULL
                 /\ FetchAuthorNotes(c, a, 0, copy[c][a].cursor)
        <4>1. Older(c, a, Request({a}, 0, copy[c][a].cursor))
          BY <3>1 DEF Older, Request
        <4>. QED  BY <2>0, <3>1, <4>1, FetchLearns
      <3>2. CASE /\ copy[c][a].cursor = NULL /\ copy[c][a].newest = NULL
                 /\ FetchAuthorNotes(c, a, 0, MaxTime)
        <4>1. Newer(c, a, Request({a}, 0, MaxTime))
          BY <3>2 DEF Newer, Request
        <4>. QED  BY <2>0, <3>2, <4>1, FetchLearns
      <3>3. CASE Unread(0)
        BY <2>0, <3>3, UnreadLearns
      <3>. QED  BY <1>2, <3>1, <3>2, <3>3 DEF Backfill
    <2>3. pc'[c] = "mark" /\ OnlyOf(c)
      BY <2>0, <2>2 DEF OnlyOf, CursorsInv, TypeOK
    <2>4. Unmarked(c)' = Unmarked(c)
      BY <2>0, <2>3 DEF Unmarked, MarkStages
    <2> HIDE DEF a
    <2>. QED  BY <2>0, <2>2, <2>3, <2>4, WorkKeeps DEF a
  <1>. QED  BY <1>1, <1>2

\* The stages of a targeted cycle before its marks.
TargetStages == {"primary", "write", "fallback", "recentAt", "backfillAt"}

LEMMA TargetedKeeps ==
    ASSUME CursorsInv, HolesInv, NEW c \in Crawlers, Grows, Learns(c),
           UNCHANGED <<cursor, newest, batch, copy>>,
           \A d \in Crawlers \ {c} : stats'[d] = stats[d],
           NEW s \in TargetStages \cup {"markAll"}, pc' = [pc EXCEPT ![c] = s],
           pc[c] \in TargetStages,
           \A d \in Crawlers \ {c} : todo'[d] = todo[d] /\ at'[d] = at[d],
           s = "markAll" => todo'[c] = batch[c]
    PROVE  HolesInv'
  <1>1. pc'[c] = s /\ OnlyOf(c)
    BY DEF OnlyOf, CursorsInv, TypeOK
  <1>2. Unmarked(c) = batch[c] /\ Unmarked(c)' = batch[c]
    BY <1>1 DEF Unmarked, MarkStages, TargetStages
  <1>. QED  BY <1>1, <1>2, WorkKeeps DEF TargetStages, MarkStages

LEMMA PhaseHoles ==
    ASSUME CursorsInv, HolesInv, NEW c \in Crawlers,
           \/ \E r \in Relays : VisitPrimary(c, r)
           \/ EndPrimary(c) \/ EndWrite(c) \/ EndFallback(c)
    PROVE  HolesInv'
  <1>1. ASSUME NEW r \in Relays, VisitPrimary(c, r) PROVE HolesInv'
    <2>1. /\ UNCHANGED <<cursor, newest, batch, copy, pc, todo, at>> /\ pc[c] = "primary"
          /\ batch[c] \in SUBSET Authors
      BY <1>1 DEF VisitPrimary, tableVars, CursorsInv, TypeOK
    <2>2. Grows /\ Learns(c) /\ \A d \in Crawlers \ {c} : stats'[d] = stats[d]
      <3>1. CASE Reconcile(r, batch[c]) /\ (SpanStored(c, batch[c]) \/ UNCHANGED stats)
        BY <2>1, <3>1, ReconcileLearns
      <3>2. CASE Unread(0)
        BY <2>1, <3>2, UnreadLearns
      <3>. QED  BY <1>1, <3>1, <3>2 DEF VisitPrimary
    <2>3. pc' = [pc EXCEPT ![c] = "primary"]
      BY <2>1 DEF CursorsInv, TypeOK
    <2>. QED  BY <2>1, <2>2, <2>3, TargetedKeeps DEF TargetStages
  <1>2. CASE EndPrimary(c) \/ EndWrite(c) \/ EndFallback(c)
    <2>1. /\ UNCHANGED <<cursor, newest, batch, copy, stored, excused, stats, at>>
          /\ pc[c] \in TargetStages
      BY <1>2 DEF EndPrimary, EndWrite, EndFallback, tableVars, TargetStages
    <2>2. Grows /\ Learns(c)
      <3>1. Grows
        BY <2>1 DEF Grows
      <3>. QED  BY <2>1, <3>1, CleanFrame, UnmarkedLeased DEF Learns, HolesInv
    <2>3. PICK s \in TargetStages \cup {"markAll"} :
            /\ pc' = [pc EXCEPT ![c] = s]
            /\ todo' = todo \/ todo' = [todo EXCEPT ![c] = batch[c]]
            /\ s = "markAll" => todo' = [todo EXCEPT ![c] = batch[c]]
      BY <1>2 DEF EndPrimary, EndWrite, EndFallback, TargetStages, Go
    <2>4. /\ \A d \in Crawlers \ {c} : todo'[d] = todo[d]
          /\ s = "markAll" => todo'[c] = batch[c]
      BY <2>3 DEF CursorsInv, TypeOK
    <2>. QED  BY <2>1, <2>2, <2>3, <2>4, TargetedKeeps
  <1>. QED  BY <1>1, <1>2

LEMMA BeginLearns ==
    ASSUME CursorsInv, HolesInv, NEW c \in Crawlers, NEW r \in Relays, NEW A \in SUBSET Authors,
           BeginLegacy(c, r, A), UNCHANGED <<cursor, newest, copy>>
    PROVE  /\ Grows /\ Learns(c) /\ UNCHANGED stats
           /\ pc' = [pc EXCEPT ![c] = "recentAt"]
           /\ \A d \in Crawlers \ {c} : todo'[d] = todo[d] /\ at'[d] = at[d]
  BY UnreadLearns DEF BeginLegacy, Go, CursorsInv, TypeOK

LEMMA VisitHoles ==
    ASSUME CursorsInv, HolesInv, NEW c \in Crawlers, NEW r \in Relays,
           VisitWrite(c, r) \/ VisitFallback(c, r)
    PROVE  HolesInv'
  <1>1. UNCHANGED <<cursor, newest, batch, copy>> /\ pc[c] \in TargetStages
    BY DEF VisitWrite, VisitFallback, tableVars, TargetStages
  <1>2. PICK A \in SUBSET Authors :
          \/ /\ UNCHANGED <<pc, todo, at>>
             /\ \/ Reconcile(r, A) /\ (SpanStored(c, A) \/ UNCHANGED stats)
                \/ Unread(1)
          \/ BeginLegacy(c, r, A)
    <2>1. CASE VisitWrite(c, r)
      <3> DEFINE A == {a \in routed[c] : r \in Writes[a]}
      <3>1. A \in SUBSET Authors
        BY DEF CursorsInv, TypeOK
      <3>. QED  BY <2>1, <3>1 DEF VisitWrite
    <2>2. CASE VisitFallback(c, r)
      <3> DEFINE A == batch[c] \ routed[c]
      <3>1. A \in SUBSET Authors
        BY DEF CursorsInv, TypeOK
      <3>. QED  BY <2>2, <3>1 DEF VisitFallback
    <2>. QED  BY <2>1, <2>2
  <1>3. CASE BeginLegacy(c, r, A)
    BY <1>1, <1>3, BeginLearns, TargetedKeeps DEF TargetStages
  <1>4. CASE /\ UNCHANGED <<pc, todo, at>>
             /\ \/ Reconcile(r, A) /\ (SpanStored(c, A) \/ UNCHANGED stats)
                \/ Unread(1)
    <2>1. Grows /\ Learns(c) /\ \A d \in Crawlers \ {c} : stats'[d] = stats[d]
      BY <1>1, <1>4, ReconcileLearns, UnreadLearns
    <2>2. pc' = [pc EXCEPT ![c] = pc[c]]
      BY <1>4 DEF CursorsInv, TypeOK
    <2>3. pc[c] # "markAll"
      BY <1>1 DEF TargetStages
    <2>. QED  BY <1>1, <1>4, <2>1, <2>2, <2>3, TargetedKeeps
  <1>. QED  BY <1>2, <1>3, <1>4

LEMMA TargetedHoles ==
    ASSUME CursorsInv, HolesInv, NEW c \in Crawlers,
           FetchRecentAt(c) \/ \E a \in Authors : BackfillAt(c, a)
    PROVE  HolesInv'
  <1>1. CASE FetchRecentAt(c)
    <2>1. /\ UNCHANGED <<cursor, newest, batch, copy, todo, at>> /\ pc[c] = "recentAt"
          /\ pc' = [pc EXCEPT ![c] = "backfillAt"]
      BY <1>1 DEF FetchRecentAt, Go, tableVars, workVars
    <2>2. at[c] \in Relays /\ todo[c] \subseteq Authors
      BY <2>1 DEF CursorsInv, TypeOK, AtWork
    <2>3. PICK since \in Times :
            /\ since = NULL <=> NULL \in {copy[c][a].newest : a \in todo[c]}
            /\ \A t \in {copy[c][a].newest : a \in todo[c]} : since <= t
            /\ Unread(1) \/ ReadPage(c, at[c], Request(todo[c], since, MaxTime), FALSE, 0)
      BY <1>1 DEF FetchRecentAt
    <2> DEFINE q == Request(todo[c], since, MaxTime)
    <2>4. q.authors = todo[c] /\ q.since = since /\ q.until = MaxTime
      BY DEF Request
    <2>5. since \in Nat
      BY CrawlAssumption DEF Times
    <2>6. ASSUME NEW a \in todo[c] PROVE Newer(c, a, q)
      <3>1. copy[c][a].newest \in Times /\ since <= copy[c][a].newest
        BY <2>2, <2>3 DEF CursorsInv, TypeOK, Cursors
      <3>2. copy[c][a].newest = NULL => since = 0
        BY <2>3
      <3>3. since <= copy[c][a].newest + 1
        BY <2>5, <3>1, CrawlAssumption DEF Times
      <3>. QED  BY <2>4, <3>2, <3>3 DEF Newer
    <2> HIDE DEF q
    <2>7. Grows /\ Learns(c) /\ \A d \in Crawlers \ {c} : stats'[d] = stats[d]
      <3>1. CASE Unread(1)
        BY <2>1, <3>1, UnreadLearns
      <3>2. CASE ReadPage(c, at[c], q, FALSE, 0)
        BY <2>1, <2>2, <2>4, <2>5, <2>6, <3>2, PageLearns
      <3>. QED  BY <2>3, <3>1, <3>2 DEF q
    <2>. QED  BY <2>1, <2>7, TargetedKeeps DEF TargetStages
  <1>2. ASSUME NEW a \in Authors, BackfillAt(c, a) PROVE HolesInv'
    <2>1. /\ UNCHANGED <<cursor, newest, batch, copy>> /\ pc[c] = "backfillAt"
          /\ at[c] \in Relays
      BY <1>2 DEF BackfillAt, tableVars, CursorsInv, AtWork
    <2>2. PICK s \in TargetStages : pc' = [pc EXCEPT ![c] = s]
      <3>1. CASE todo[c] = {a}
        BY <1>2, <3>1 DEF BackfillAt, Go, TargetStages
      <3>2. CASE todo[c] # {a}
        BY <1>2, <2>1, <3>2 DEF BackfillAt, TargetStages, CursorsInv, TypeOK
      <3>. QED  BY <3>1, <3>2
    <2>3. \A d \in Crawlers \ {c} : todo'[d] = todo[d] /\ at'[d] = at[d]
      BY <1>2 DEF BackfillAt, CursorsInv, TypeOK
    <2>4. Grows /\ Learns(c) /\ \A d \in Crawlers \ {c} : stats'[d] = stats[d]
      <3>1. CASE Unread(0) \/ Unread(1)
        BY <2>1, <3>1, UnreadLearns
      <3>2. CASE copy[c][a].cursor # NULL /\ ReadPage(c, at[c], Request({a}, 0, copy[c][a].cursor), FALSE, 0)
        <4> DEFINE q == Request({a}, 0, copy[c][a].cursor)
        <4>1. q.authors = {a} /\ q.since = 0 /\ Older(c, a, q)
          BY <3>2 DEF Older, Request
        <4> HIDE DEF q
        <4>2. ReadPage(c, at[c], q, FALSE, 0)
          BY <3>2 DEF q
        <4>3. q.authors \subseteq Authors /\ q.since \in Nat /\ FALSE \in BOOLEAN /\ 0 \in Nat
          BY <4>1
        <4>4. \A b \in q.authors : Newer(c, b, q) \/ Older(c, b, q)
          BY <4>1
        <4>. QED  BY <2>1, <4>2, <4>3, <4>4, PageLearns
      <3>. QED  BY <1>2, <3>1, <3>2 DEF BackfillAt
    <2>5. s # "markAll"
      BY DEF TargetStages
    <2>. QED  BY <2>1, <2>2, <2>3, <2>4, <2>5, TargetedKeeps DEF TargetStages
  <1>. QED  BY <1>1, <1>2

\* Nothing of the work or of the cursors moves but what is stored may grow.
LEMMA IdleKeeps ==
    ASSUME CursorsInv, HolesInv, Grows,
           UNCHANGED <<cursor, newest, batch, copy, pc, todo, at, stats>>
    PROVE  HolesInv'
  <1>1. Covered \subseteq Covered' /\ \A a \in Authors : Full(a) => Full(a)'
    BY GrowsCovered
  <1>2. HolesAreAccounted'
    BY <1>1 DEF HolesInv, HolesAreAccounted, Covered
  <1>3. ASSUME NEW c \in Crawlers, NEW a \in Unmarked(c)' PROVE (Full(a) \/ Clean(c, a))'
    <2>1. a \in Unmarked(c)
      BY <1>3 DEF Unmarked
    <2>2. a \in Authors /\ (Full(a) \/ Clean(c, a))
      BY <2>1, UnmarkedLeased DEF HolesInv, Careful
    <2>. QED  BY <1>1, <2>2, CleanFrame
  <1>4. Shared' /\ Leased'
    BY <1>1 DEF HolesInv, Shared, Leased, CursorsInv, TypeOK
  <1>. QED  BY <1>2, <1>3, <1>4 DEF HolesInv, Careful

LEMMA OthersHoles ==
    ASSUME CursorsInv, HolesInv,
           \/ Resync
           \/ \E a \in Authors : ComeDue(a)
           \/ \E n \in Notes : Ingest(n) \/ \E r \in Relays : Publish(r, n)
           \/ UNCHANGED vars
    PROVE  HolesInv'
  <1>1. Grows /\ UNCHANGED <<cursor, newest, batch, copy, pc, todo, at, stats>>
    BY DEF Resync, ComeDue, Ingest, Publish, Grows, vars, tableVars, workVars
  <1>. QED  BY <1>1, IdleKeeps

\* The start-up sync passes over what it names.
LEMMA StartHoles ==
    ASSUME CursorsInv, HolesInv, NEW c \in Crawlers, StartCrawler(c)
    PROVE  HolesInv'
  <1>0. /\ pc[c] = "off" /\ pc' = [pc EXCEPT ![c] = "idle"] /\ SyncCursors
        /\ UNCHANGED <<stored, cursor, batch, copy, todo, at, stats>>
    BY DEF StartCrawler, workVars
  <1>1. /\ Grows
        /\ \A n \in Notes : newest[Author[n]] < Time[n] /\ Time[n] <= newest'[Author[n]]
                              => n \in Covered'
    BY <1>0 DEF SyncCursors, Grows, Covered
  <1>2. \A a \in Authors : newest[a] <= newest'[a] /\ newest[a] \in Times /\ newest'[a] \in Times
    BY <1>0, SyncStep DEF CursorsInv, TypeOK
  <1>3. Covered \subseteq Covered' /\ \A a \in Authors : Full(a) => Full(a)'
    BY <1>1, GrowsCovered
  <1>4. HolesAreAccounted'
    <2>1. SUFFICES ASSUME NEW n \in Notes, cursor[Author[n]] # NULL,
                          cursor[Author[n]] < Time[n], Time[n] <= newest'[Author[n]]
                   PROVE  n \in Covered'
      BY <1>0 DEF HolesAreAccounted, Covered
    <2>2. Author[n] \in Authors /\ Time[n] \in 1 .. MaxTime
      BY CrawlAssumption
    <2>3. CASE Time[n] <= newest[Author[n]]
      BY <1>3, <2>1, <2>3 DEF HolesInv, HolesAreAccounted, Covered
    <2>4. CASE newest[Author[n]] < Time[n]
      BY <1>1, <2>1, <2>4
    <2>. QED  BY <1>2, <2>2, <2>3, <2>4, CrawlAssumption DEF Times
  <1>5. ASSUME NEW d \in Crawlers, NEW a \in Unmarked(d)' PROVE (Full(a) \/ Clean(d, a))'
    <2>1. a \in Unmarked(d) \/ d = c
      BY <1>0, <1>5 DEF Unmarked
    <2>2. Unmarked(c)' = {}
      BY <1>0 DEF Unmarked, MarkStages, CursorsInv, TypeOK, HolesInv, Leased
    <2>3. a \in Unmarked(d) /\ a \in Authors /\ (Full(a) \/ Clean(d, a))
      BY <1>5, <2>1, <2>2, UnmarkedLeased DEF HolesInv, Careful
    <2>4. CASE Clean(d, a)
      <3>1. copy[d][a].newest \in Times
        BY <2>3 DEF CursorsInv, TypeOK, Cursors
      <3>2. Known(d, a)'
        BY <1>0, <1>2, <2>3, <2>4, <3>1, CrawlAssumption DEF Clean, Known, Times
      <3>3. ASSUME NEW n \in By({a}), Below(d, a, n)' \/ Above(d, a, n)' \/ Raised(d, a, n)'
            PROVE  n \in Covered'
        <4>1. n \in Notes /\ Author[n] = a /\ Time[n] \in 1 .. MaxTime
          BY CrawlAssumption DEF By
        <4>2. CASE Below(d, a, n)' \/ Above(d, a, n)'
          BY <1>0, <1>3, <2>4, <4>2 DEF Below, Above, Clean
        <4>3. CASE Raised(d, a, n)' /\ Time[n] <= newest[a]
          BY <1>0, <1>3, <2>4, <4>3 DEF Raised, Clean
        <4>4. CASE Raised(d, a, n)' /\ newest[a] < Time[n]
          BY <1>1, <4>1, <4>4 DEF Raised
        <4>. QED  BY <1>2, <2>3, <3>3, <4>1, <4>2, <4>3, <4>4, CrawlAssumption DEF Times
      <3>. QED  BY <3>2, <3>3 DEF Clean
    <2>. QED  BY <1>3, <2>3, <2>4
  <1>6. Shared'
    BY <1>0, <1>3 DEF HolesInv, Shared, CursorsInv, TypeOK
  <1>7. Leased'
    BY <1>0 DEF HolesInv, Leased, CursorsInv, TypeOK, MarkStages
  <1>. QED  BY <1>4, <1>5, <1>6, <1>7 DEF HolesInv, Careful

\* A lease copies the cursors; a second lease of an author excuses its notes.
LEMMA TakeHoles ==
    ASSUME CursorsInv, HolesInv, NEW c \in Crawlers, NEW S \in SUBSET Authors, TakeBatch(c, S)
    PROVE  HolesInv'
  <1> DEFINE new == [a \in Authors |->
               IF a \in S THEN [cursor |-> cursor[a], newest |-> newest[a]] ELSE copy[c][a]]
             shared == {a \in S : \E d \in Crawlers : a \in batch[d]}
  <1>0. /\ pc[c] = "idle" /\ UNCHANGED <<stored, cursor, newest, stats, at>>
        /\ batch' = [batch EXCEPT ![c] = S] /\ todo' = [todo EXCEPT ![c] = S]
        /\ copy' = [copy EXCEPT ![c] = new]
        /\ excused' = excused \cup By(shared)
        /\ pc' = [pc EXCEPT ![c] = IF mode = "legacy" THEN "recent" ELSE "primary"]
    BY DEF TakeBatch
  <1>1. Grows
    BY <1>0 DEF Grows
  <1>2. Covered \subseteq Covered' /\ \A a \in Authors : Full(a) => Full(a)'
    BY <1>1, GrowsCovered
  <1>3. \A a \in shared : Full(a)'
    BY <1>0 DEF Full, Covered, By
  <1>4. HolesAreAccounted'
    BY <1>0, <1>2 DEF HolesInv, HolesAreAccounted, Covered
  <1>5. batch[c] = {} /\ stats[c] = NoStats
    BY <1>0 DEF HolesInv, Leased
  <1>6. ASSUME NEW d \in Crawlers, NEW a \in Unmarked(d)' PROVE (Full(a) \/ Clean(d, a))'
    <2>1. CASE d = c
      <3>1. a \in S
        BY <1>0, <1>6, <2>1 DEF Unmarked, CursorsInv, TypeOK
      <3>2. copy'[c][a] = [cursor |-> cursor[a], newest |-> newest[a]]
        BY <1>0, <3>1 DEF CursorsInv, TypeOK
      <3>3. cursor[a] \in Times /\ newest[a] \in Times
        BY <3>1 DEF CursorsInv, TypeOK
      <3>4. stats'[c][a].oldest = NULL /\ stats'[c][a].newest = NULL
        BY <1>0, <1>5, <3>1 DEF NoStats
      <3>5. Known(c, a)'
        BY <1>0, <3>1, <3>2, <3>3, CrawlAssumption DEF Known, CursorsInv, Bracket, Times
      <3>6. ASSUME NEW n \in By({a})
            PROVE  ~(Below(c, a, n)' \/ Above(c, a, n)' \/ Raised(c, a, n)')
        <4>1. Time[n] \in 1 .. MaxTime
          BY CrawlAssumption DEF By
        <4>2. ~Below(c, a, n)'
          BY <3>4 DEF Below
        <4>3. ~Above(c, a, n)'
          BY <3>4, <4>1, CrawlAssumption DEF Above
        <4>4. ~Raised(c, a, n)'
          BY <1>0, <3>2, <3>3, <4>1, CrawlAssumption DEF Raised, Times
        <4>. QED  BY <4>2, <4>3, <4>4
      <3>. QED  BY <2>1, <3>5, <3>6 DEF Clean
    <2>2. CASE d # c
      <3>1. a \in Unmarked(d) /\ copy'[d] = copy[d]
        BY <1>0, <1>6, <2>2 DEF Unmarked, CursorsInv, TypeOK
      <3>2. a \in Authors /\ (Full(a) \/ Clean(d, a))
        BY <3>1, UnmarkedLeased DEF HolesInv, Careful
      <3>. QED  BY <1>0, <1>1, <1>2, <3>1, <3>2, CleanFrame
    <2>. QED  BY <2>1, <2>2
  <1>7. Shared'
    <2>1. ASSUME NEW d \in Crawlers, NEW e \in Crawlers, NEW a \in batch'[d] \cap batch'[e], d # e
          PROVE  Full(a)'
      <3>1. CASE d # c /\ e # c
        <4>1. a \in batch[d] \cap batch[e] /\ a \in Authors
          BY <1>0, <2>1, <3>1 DEF CursorsInv, TypeOK
        <4>. QED  BY <1>2, <2>1, <4>1 DEF HolesInv, Shared
      <3>2. CASE d = c \/ e = c
        <4>1. a \in shared
          BY <1>0, <2>1, <3>2 DEF CursorsInv, TypeOK
        <4>. QED  BY <1>3, <4>1
      <3>. QED  BY <3>1, <3>2
    <2>. QED  BY <2>1 DEF Shared
  <1>8. Leased'
    BY <1>0 DEF HolesInv, Leased, CursorsInv, TypeOK, MarkStages
  <1>. QED  BY <1>4, <1>6, <1>7, <1>8 DEF HolesInv, Careful

\* A mark, or the failure of one, after which c may have forgotten what it found.
LEMMA MarkHoles ==
    ASSUME CursorsInv, HolesInv, NEW c \in Crawlers, NEW a \in Authors, a \in todo[c],
           pc[c] \in MarkStages,
           Mark(c, a) \/ UNCHANGED <<cursor, newest>>, UNCHANGED <<stored, excused>>,
           \A d \in Crawlers \ {c} : /\ pc'[d] = pc[d] /\ todo'[d] = todo[d] /\ at'[d] = at[d]
                                     /\ stats'[d] = stats[d] /\ batch'[d] = batch[d]
                                     /\ copy'[d] = copy[d],
           todo'[c] = todo[c] \ {a},
           \/ pc'[c] = "idle" /\ batch'[c] = {} /\ stats'[c] = NoStats
           \/ /\ pc'[c] \in {"recent", "markAll"} /\ batch'[c] = batch[c] /\ copy'[c] = copy[c]
              /\ stats'[c] = stats[c] \/ stats'[c] = NoStats
    PROVE  HolesInv'
  <1>1. Grows
    BY DEF Grows
  <1>2. Covered \subseteq Covered' /\ \A b \in Authors : Full(b) => Full(b)'
    BY <1>1, GrowsCovered
  <1>3. a \in Unmarked(c) /\ a \in batch[c]
    BY DEF Unmarked, HolesInv, Leased
  <1>4. HolesAreAccounted'
    <2>1. CASE Mark(c, a)
      BY <1>3, <2>1, MarkKeeps DEF HolesInv, Careful
    <2>2. CASE UNCHANGED <<cursor, newest>>
      BY <2>2 DEF HolesInv, HolesAreAccounted
    <2>. QED  BY <2>1, <2>2
  <1>5. \A b \in Authors \ {a} : cursor'[b] = cursor[b] /\ newest'[b] = newest[b]
    BY DEF Mark, CursorsInv, TypeOK
  <1>6. ASSUME NEW d \in Crawlers, NEW b \in Unmarked(d)' PROVE (Full(b) \/ Clean(d, b))'
    <2>1. b \in Unmarked(d) /\ (d = c => b # a /\ copy'[c] = copy[c])
      BY <1>6 DEF Unmarked, MarkStages
    <2>2. b \in Authors /\ b \in batch[d] /\ (Full(b) \/ Clean(d, b))
      BY <2>1, UnmarkedLeased DEF HolesInv, Careful
    <2>3. CASE b = a
      <3>1. Full(a)
        BY <1>3, <2>1, <2>2, <2>3 DEF HolesInv, Shared
      <3>. QED  BY <1>2, <2>2, <2>3, <3>1
    <2>4. CASE b # a
      <3>1. stats'[d][b] = stats[d][b] \/ stats'[d][b] = NoStats[b]
        <4>1. stats'[d] = stats[d] \/ stats'[d] = NoStats
          OBVIOUS
        <4>. QED  BY <4>1
      <3>2. copy'[d][b] = copy[d][b]
        BY <2>1
      <3>3. cursor'[b] = cursor[b] /\ newest'[b] = newest[b]
        BY <1>5, <2>2, <2>4
      <3>4. Clean(d, b) => Clean(d, b)'
        BY <1>1, <2>2, <3>1, <3>2, <3>3, CleanFrame
      <3>. QED  BY <1>2, <2>2, <3>4
    <2>. QED  BY <2>3, <2>4
  <1>7. \A d \in Crawlers : batch'[d] \subseteq batch[d]
    OBVIOUS
  <1>8. Shared'
    BY <1>2, <1>7 DEF HolesInv, Shared, CursorsInv, TypeOK
  <1>9. Leased'
    BY DEF HolesInv, Leased, MarkStages
  <1>. QED  BY <1>4, <1>6, <1>8, <1>9 DEF HolesInv, Careful

LEMMA MarksHoles ==
    ASSUME CursorsInv, HolesInv, NEW c \in Crawlers,
           MarkAuthor(c) \/ \E a \in Authors : MarkAll(c, a)
    PROVE  HolesInv'
  <1>1. CASE MarkAuthor(c)
    <2> DEFINE a == at[c]
    <2>1. pc[c] = "mark" /\ a \in Authors /\ a \in todo[c]
      BY <1>1 DEF MarkAuthor, CursorsInv, AtWork, HolesInv, Leased
    <2>2. /\ Mark(c, a) \/ UNCHANGED <<cursor, newest>>
          /\ UNCHANGED <<stored, excused>>
          /\ todo' = [todo EXCEPT ![c] = @ \ {a}] /\ at' = [at EXCEPT ![c] = None]
          /\ \/ Done(c)
             \/ /\ pc' = [pc EXCEPT ![c] = "recent"] /\ stats' = [stats EXCEPT ![c] = NoStats]
                /\ UNCHANGED <<batch, copy>>
      BY <1>1 DEF MarkAuthor, Go
    <2> HIDE DEF a
    <2>3. /\ todo'[c] = todo[c] \ {a}
          /\ \A d \in Crawlers \ {c} : /\ pc'[d] = pc[d] /\ todo'[d] = todo[d] /\ at'[d] = at[d]
                                       /\ stats'[d] = stats[d] /\ batch'[d] = batch[d]
                                       /\ copy'[d] = copy[d]
          /\ \/ pc'[c] = "idle" /\ batch'[c] = {} /\ stats'[c] = NoStats
             \/ /\ pc'[c] = "recent" /\ batch'[c] = batch[c] /\ copy'[c] = copy[c]
                /\ stats'[c] = NoStats
      BY <2>2 DEF Done, CursorsInv, TypeOK
    <2>. QED  BY <2>1, <2>2, <2>3, MarkHoles DEF MarkStages
  <1>2. ASSUME NEW a \in Authors, MarkAll(c, a) PROVE HolesInv'
    <2>1. pc[c] = "markAll" /\ a \in todo[c]
      BY <1>2 DEF MarkAll
    <2>2. /\ Mark(c, a) \/ UNCHANGED <<cursor, newest>>
          /\ UNCHANGED <<stored, excused, at>>
          /\ todo' = [todo EXCEPT ![c] = @ \ {a}]
          /\ Done(c) \/ UNCHANGED <<pc, batch, copy, stats>>
      BY <1>2 DEF MarkAll
    <2>3. /\ todo'[c] = todo[c] \ {a}
          /\ \A d \in Crawlers \ {c} : /\ pc'[d] = pc[d] /\ todo'[d] = todo[d] /\ at'[d] = at[d]
                                       /\ stats'[d] = stats[d] /\ batch'[d] = batch[d]
                                       /\ copy'[d] = copy[d]
          /\ \/ pc'[c] = "idle" /\ batch'[c] = {} /\ stats'[c] = NoStats
             \/ /\ pc'[c] = "markAll" /\ batch'[c] = batch[c] /\ copy'[c] = copy[c]
                /\ stats'[c] = stats[c]
      BY <2>1, <2>2 DEF Done, CursorsInv, TypeOK
    <2>. QED  BY <2>1, <2>2, <2>3, MarkHoles DEF MarkStages
  <1>. QED  BY <1>1, <1>2

\* A dead crawler promises nothing.
LEMMA CrashHoles ==
    ASSUME CursorsInv, HolesInv, NEW c \in Crawlers, Crash(c)
    PROVE  HolesInv'
  <1>0. /\ UNCHANGED <<stored, excused, cursor, newest>>
        /\ pc'[c] = "off" /\ batch'[c] = {} /\ stats'[c] = NoStats
        /\ \A d \in Crawlers \ {c} : /\ pc'[d] = pc[d] /\ todo'[d] = todo[d] /\ at'[d] = at[d]
                                     /\ stats'[d] = stats[d] /\ batch'[d] = batch[d]
                                     /\ copy'[d] = copy[d]
    BY DEF Crash, CursorsInv, TypeOK, tableVars
  <1>1. Grows
    BY <1>0 DEF Grows
  <1>2. Covered \subseteq Covered' /\ \A a \in Authors : Full(a) => Full(a)'
    BY <1>1, GrowsCovered
  <1>3. HolesAreAccounted'
    BY <1>0 DEF HolesInv, HolesAreAccounted
  <1>4. ASSUME NEW d \in Crawlers, NEW a \in Unmarked(d)' PROVE (Full(a) \/ Clean(d, a))'
    <2>1. d # c
      BY <1>0, <1>4 DEF Unmarked, MarkStages
    <2>2. a \in Unmarked(d)
      BY <1>0, <1>4, <2>1 DEF Unmarked
    <2>3. a \in Authors /\ (Full(a) \/ Clean(d, a))
      BY <2>2, UnmarkedLeased DEF HolesInv, Careful
    <2>. QED  BY <1>0, <1>1, <1>2, <2>1, <2>3, CleanFrame
  <1>5. Shared'
    BY <1>0, <1>2 DEF HolesInv, Shared, CursorsInv, TypeOK
  <1>6. Leased'
    BY <1>0 DEF HolesInv, Leased, MarkStages
  <1>. QED  BY <1>3, <1>4, <1>5, <1>6 DEF HolesInv, Careful

LEMMA HolesInitially == Init => HolesInv
  <1> SUFFICES ASSUME Init PROVE HolesInv
    OBVIOUS
  <1>1. HolesAreAccounted
    BY CrawlAssumption DEF Init, HolesAreAccounted
  <1>2. \A c \in Crawlers : pc[c] = "off" /\ batch[c] = {} /\ stats[c] = NoStats
    BY DEF Init
  <1>3. Careful /\ Shared /\ Leased
    BY <1>2 DEF Careful, Unmarked, MarkStages, Shared, Leased
  <1>. QED  BY <1>1, <1>3 DEF HolesInv

LEMMA HolesStep == CursorsInv /\ HolesInv /\ [Next]_vars => HolesInv'
  <1> SUFFICES ASSUME CursorsInv, HolesInv, [Next]_vars PROVE HolesInv'
    OBVIOUS
  <1>1. ASSUME NEW c \in Crawlers, Crawler(c) PROVE HolesInv'
    BY <1>1, StartHoles, TakeHoles, LegacyHoles, PhaseHoles, VisitHoles, TargetedHoles, MarksHoles
       DEF Crawler, Work
  <1>2. ASSUME NEW c \in Crawlers, Crash(c) PROVE HolesInv'
    BY <1>2, CrashHoles
  <1>. QED  BY <1>1, <1>2, OthersHoles DEF Next

\* Between the cursors of an author nothing is missing but for a named cause,
\* however crawls overlap, whatever relays answer or fail, and whoever dies: the
\* marks of both crawlers never claim more than their pages covered.
THEOREM HolesAccounted == Spec => []HolesAreAccounted
  <1>1. HolesInv => HolesAreAccounted
    BY DEF HolesInv
  <1>. QED  BY <1>1, CursorsInitially, CursorsStep, HolesInitially, HolesStep, PTL DEF Spec

-----------------------------------------------------------------------------
(* The refinement of Coverage *)

LEMMA PageGrows ==
    ASSUME NEW c \in Crawlers, NEW r, NEW q, NEW all, NEW k, ReadPage(c, r, q, all, k)
    PROVE  Grows
  <1>1. \E P, D, X : /\ stored' = stored \cup (P \ (X \cup D))
                    /\ excused' = excused \cup (By(q.authors) \ relay[r]) \cup X \cup D
                                   \cup PassedOver(c, Matching(r, q) \ P) \cup stored'
    BY Zenon DEF ReadPage
  <1>. QED  BY <1>1 DEF Grows

LEMMA ReconcileGrows ==
    ASSUME NEW r, NEW A, Reconcile(r, A)
    PROVE  Grows
  <1>1. \E N, X : stored' = stored \cup (N \ X) /\ excused' = excused \cup (By(A) \ relay[r]) \cup X \cup stored'
    BY Zenon DEF Reconcile
  <1>. QED  BY <1>1 DEF Grows

LEMMA UnreadGrows == ASSUME NEW k, Unread(k) PROVE Grows
  BY DEF Unread, Grows

LEMMA FetchGrows ==
    ASSUME NEW c \in Crawlers, NEW a, NEW since, NEW until, FetchAuthorNotes(c, a, since, until)
    PROVE  Grows
  <1>1. \/ \E k : Unread(k)
        \/ \E r, q, all, k : ReadPage(c, r, q, all, k)
    BY Zenon DEF FetchAuthorNotes
  <1>. QED  BY <1>1, UnreadGrows, PageGrows

\* What is stored stays, and what was passed over stays known.
LEMMA NextGrows == [Next]_vars => Grows
  <1> SUFFICES ASSUME [Next]_vars PROVE Grows
    OBVIOUS
  <1>1. CASE UNCHANGED <<stored, excused>>
    BY <1>1 DEF Grows
  <1>2. ASSUME NEW c \in Crawlers, StartCrawler(c) PROVE Grows
    <2>1. stored' = stored /\ excused \subseteq excused'
      BY <1>2 DEF StartCrawler, SyncCursors
    <2>. QED  BY <2>1 DEF Grows
  <1>3. ASSUME NEW c \in Crawlers, NEW S, TakeBatch(c, S) PROVE Grows
    BY <1>3 DEF TakeBatch, Grows
  <1>4. ASSUME NEW c \in Crawlers, NEW a, FetchRecent(c, a) PROVE Grows
    BY <1>4, FetchGrows, UnreadGrows, Zenon DEF FetchRecent
  <1>5. ASSUME NEW c \in Crawlers, Backfill(c) PROVE Grows
    <2>1. CASE copy[c][at[c]].cursor # NULL
      BY <1>5, <2>1, FetchGrows DEF Backfill
    <2>2. CASE copy[c][at[c]].cursor = NULL /\ copy[c][at[c]].newest = NULL
      BY <1>5, <2>2, FetchGrows DEF Backfill
    <2>3. CASE copy[c][at[c]].cursor = NULL /\ copy[c][at[c]].newest # NULL
      BY <1>5, <2>3, UnreadGrows DEF Backfill
    <2>. QED  BY <2>1, <2>2, <2>3
  <1>6. ASSUME NEW c \in Crawlers, NEW r, VisitPrimary(c, r) \/ VisitWrite(c, r) \/ VisitFallback(c, r)
        PROVE  Grows
    BY <1>6, ReconcileGrows, UnreadGrows, Zenon DEF VisitPrimary, VisitWrite, VisitFallback, BeginLegacy
  <1>7. ASSUME NEW c \in Crawlers, FetchRecentAt(c) PROVE Grows
    BY <1>7, PageGrows, UnreadGrows, Zenon DEF FetchRecentAt
  <1>8. ASSUME NEW c \in Crawlers, NEW a, BackfillAt(c, a) PROVE Grows
    BY <1>8, PageGrows, UnreadGrows, Zenon DEF BackfillAt
  <1>9. ASSUME NEW n, Ingest(n) PROVE Grows
    BY <1>9 DEF Ingest, Grows
  <1>10. ASSUME NEW c \in Crawlers, NEW a, \/ MarkAuthor(c) \/ EndPrimary(c) \/ EndWrite(c)
                                          \/ EndFallback(c) \/ MarkAll(c, a) \/ Crash(c)
         PROVE  UNCHANGED <<stored, excused>>
    BY <1>10 DEF MarkAuthor, EndPrimary, EndWrite, EndFallback, MarkAll, Crash
  <1>11. ASSUME NEW n, NEW r, NEW a, Resync \/ ComeDue(a) \/ Publish(r, n)
         PROVE  UNCHANGED <<stored, excused>>
    BY <1>11 DEF Resync, ComeDue, Publish
  <1>12. CASE UNCHANGED vars
    BY <1>1, <1>12 DEF vars
  <1>. QED
    BY <1>1, <1>2, <1>3, <1>4, <1>5, <1>6, <1>7, <1>8, <1>9, <1>10, <1>11, <1>12
       DEF Next, Crawler, Work

\* Wider cursors claim more.
LEMMA ClaimsGrow ==
    ASSUME CursorsInv, CursorsInv', Widens
    PROVE  Claimed \subseteq Claimed'
  <1> SUFFICES ASSUME NEW n \in Notes, n \in Claimed PROVE n \in Claimed'
    BY DEF Claimed
  <1> DEFINE a == Author[n]
  <1>1. a \in Authors /\ Time[n] \in Int
    BY CrawlAssumption
  <1>2. /\ cursor[a] \in Int /\ newest[a] \in Int /\ cursor'[a] \in Int /\ newest'[a] \in Int
    BY <1>1, CrawlAssumption DEF CursorsInv, TypeOK, Times
  <1>3. cursor[a] # NULL /\ cursor[a] < Time[n] /\ Time[n] <= newest[a]
    BY DEF Claimed
  <1>4. cursor'[a] # NULL /\ cursor'[a] <= cursor[a] /\ newest[a] <= newest'[a]
    BY <1>1, <1>3 DEF Widens
  <1>5. cursor'[a] < Time[n] /\ Time[n] <= newest'[a]
    BY <1>1, <1>2, <1>3, <1>4
  <1>. QED  BY <1>4, <1>5 DEF Claimed

\* Both author crawlers implement Coverage: the cursors of the queue claim notes, never
\* fewer than before, and only notes that are stored or were passed over for a named
\* cause (mark_crawled, queue.rs:208).
THEOREM Implements == Spec => ImplementsCoverage
  <1>1. Init => Covers!Init
    <2>1. Init => \A n \in Notes : cursor[Author[n]] = NULL
      BY CrawlAssumption DEF Init
    <2>2. Init => Claimed = {}
      BY <2>1 DEF Claimed
    <2>. QED  BY <2>2 DEF Init, Covers!Init
  <1>2. CursorsInv /\ HolesInv /\ [Next]_vars => [Covers!Progress]_(Covers!vars)
    <2> SUFFICES ASSUME CursorsInv, HolesInv, [Next]_vars
                 PROVE  Covers!Progress
      OBVIOUS
    <2>1. CursorsInv' /\ Widens /\ HolesAreAccounted' /\ Grows
      BY CursorsStep, HolesStep, NextGrows DEF HolesInv
    <2>2. Claimed \subseteq Claimed'
      BY <2>1, ClaimsGrow
    <2>3. (Claimed \subseteq stored \cup excused)'
      BY <2>1 DEF HolesAreAccounted, Claimed
    <2>. QED  BY <2>1, <2>2, <2>3 DEF Grows, Covers!Progress
  <1>. QED  BY <1>1, <1>2, CursorsInitially, CursorsStep, HolesInitially, HolesStep, PTL
            DEF Spec, ImplementsCoverage, Covers!Spec
=============================================================================
