--------------------------------- MODULE Crawl ---------------------------------
(***************************************************************************)
(* The author crawlers: the work queue crawl_state (src/crawler/queue.rs), *)
(* the legacy crawler (worker.rs) and the targeted cycle of the hybrid     *)
(* crawler (orchestrator.rs).  Each author has two cursors, crawl_cursor   *)
(* and newest_seen_at: what lies between them counts as fetched.  A        *)
(* crawler leases a batch of authors, asks relays for what lies outside,   *)
(* inserts what they return, and at last widens the cursors, from copies   *)
(* it read when it took the lease.                                         *)
(***************************************************************************)
EXTENDS Integers, FiniteSets

CONSTANTS
    Crawlers,   \* processes that crawl
    Instances,  \* Instances[m]: those of a deployment that runs crawler m
    Authors,
    Followed,   \* Followed[m]: the authors somebody follows, in that deployment
    Low,        \* authors of tier 4 (fewer than 10 followers)
    Notes,      \* kind-1 notes
    Author,     \* Author[n]
    Time,       \* Time[n]: created_at
    MaxTime,
    Old,        \* the notes that every relay has from the start
    Live,       \* the notes that other paths may store too
    Refusable,  \* the notes insert_event may turn down when they come: proxied, or of
                \* an author outside the web of trust
    Relays,     \* 1 .. k, in the order in which they are asked
    Primary,    \* relays that are reconciled for all authors
    Writes,     \* Writes[a]: the write relays of a
    Modes,      \* which crawler the configuration starts
    BatchSize, Limit,
    None,
    MaxFaults   \* bound: relays and statements that fail, deaths

NULL == 0

ASSUME CrawlAssumption ==
    /\ MaxTime \in Nat \ {0} /\ Relays \subseteq Nat
    /\ Low \subseteq Authors /\ Old \cup Live \cup Refusable \subseteq Notes /\ Primary \subseteq Relays
    /\ Author \in [Notes -> Authors]
    /\ Time \in [Notes -> 1 .. MaxTime]
    /\ Writes \in [Authors -> SUBSET Relays]
    /\ Modes \subseteq {"legacy", "targeted"}
    /\ Instances \in [Modes -> SUBSET Crawlers]
    /\ Followed \in [Modes -> SUBSET Authors]
    /\ BatchSize \in Nat \ {0} /\ Limit \in Nat \ {0} /\ MaxFaults \in Nat

VARIABLES
    mode,      \* the crawler of this deployment
    relay,     \* relay[r]: the notes relay r has
    stored,    \* the notes in events
    queued,    \* authors with a row in crawl_state
    due,       \* those with next_crawl_at <= NOW()
    cursor,    \* cursor[a]: crawl_cursor, or NULL
    newest,    \* newest[a]: newest_seen_at, or NULL
    pc,        \* where crawler c is
    batch,     \* batch[c]: the authors it has leased
    todo,      \* todo[c]: those it has still to visit in this stage
    left,      \* left[c]: the relays it has still to visit in this stage
    routed,    \* routed[c]: those of the batch whose relay list it found
    at,        \* at[c]: the author (legacy) or relay (targeted) it is at, or None
    copy,      \* copy[c][a]: the cursors of a when it was leased
    stats,     \* stats[c][a]: oldest and newest note it found of a
    excused,   \* history: notes that a known cause passed over, and those stored
    faults

relayVars == <<mode, relay>>
tableVars == <<queued, due, cursor, newest>>
workVars  == <<batch, todo, left, routed, at, copy>>
vars == <<relayVars, stored, tableVars, pc, workVars, stats, excused, faults>>

Times   == 0 .. MaxTime
Cursors == [cursor : Times, newest : Times]
Span    == [oldest : Times, newest : Times]
NoCopy  == [a \in Authors |-> [cursor |-> NULL, newest |-> NULL]]
NoStats == [a \in Authors |-> [oldest |-> NULL, newest |-> NULL]]
Stages  == {"off", "idle", "recent", "backfill", "mark",
            "primary", "write", "fallback", "recentAt", "backfillAt", "markAll"}

TypeOK ==
    /\ mode \in Modes
    /\ relay \in [Relays -> SUBSET Notes]
    /\ stored \subseteq Notes
    /\ queued \subseteq Authors /\ due \subseteq queued
    /\ cursor \in [Authors -> Times] /\ newest \in [Authors -> Times]
    /\ pc \in [Crawlers -> Stages]
    /\ batch \in [Crawlers -> SUBSET Authors]
    /\ todo \in [Crawlers -> SUBSET Authors]
    /\ left \in [Crawlers -> SUBSET Relays]
    /\ routed \in [Crawlers -> SUBSET Authors]
    /\ at \in [Crawlers -> Relays \cup Authors \cup {None}]
    /\ copy \in [Crawlers -> [Authors -> Cursors]]
    /\ stats \in [Crawlers -> [Authors -> Span]]
    /\ excused \subseteq Notes
    /\ faults \in 0 .. MaxFaults

Init ==
    /\ mode \in Modes
    /\ relay = [r \in Relays |-> Old]
    /\ stored = {} /\ queued = {} /\ due = {} /\ excused = {}
    /\ cursor = [a \in Authors |-> NULL]
    /\ newest = [a \in Authors |-> NULL]
    /\ pc = [c \in Crawlers |-> "off"]
    /\ batch = [c \in Crawlers |-> {}]
    /\ todo = [c \in Crawlers |-> {}]
    /\ left = [c \in Crawlers |-> {}]
    /\ routed = [c \in Crawlers |-> {}]
    /\ at = [c \in Crawlers |-> None]
    /\ copy = [c \in Crawlers |-> NoCopy]
    /\ stats = [c \in Crawlers |-> NoStats]
    /\ faults = 0

\* What a step costs of the bound on faults.
Costs(k) == faults + k <= MaxFaults /\ faults' = faults + k

By(A) == {n \in Notes : Author[n] \in A}

\* merge_min and merge_max, and the two CASEs of mark_crawled.
Earlier(s, t) == IF t # NULL /\ (s = NULL \/ t < s) THEN t ELSE s
Later(s, t) == IF t # NULL /\ (s = NULL \/ t > s) THEN t ELSE s

\* The oldest and the newest created_at in N.
Spans(N) ==
    IF N = {} THEN {[oldest |-> NULL, newest |-> NULL]}
    ELSE {[oldest |-> Time[n], newest |-> Time[m]] :
            n \in {n \in N : \A k \in N : Time[n] <= Time[k]},
            m \in {m \in N : \A k \in N : Time[k] <= Time[m]}}

\* ... of each author in A.
SpansOf(A, N) ==
    LET S(a) == Spans(N \cap By({a})) IN
    {s \in [A -> UNION {S(a) : a \in A}] : \A a \in A : s[a] \in S(a)}

Merge(s, t) == [oldest |-> Earlier(s.oldest, t.oldest), newest |-> Later(s.newest, t.newest)]

-----------------------------------------------------------------------------
(* The queue *)

\* A note reaches a relay, late or not.
Publish(r, n) ==
    /\ n \notin relay[r]
    /\ relay' = [relay EXCEPT ![r] = @ \cup {n}]
    /\ UNCHANGED <<mode, stored, tableVars, pc, workVars, stats, excused, faults>>

\* An ingester, the fetcher or an engagement crawl stores a note.
Ingest(n) ==
    /\ n \in Live /\ \E r \in Relays : n \in relay[r]
    /\ n \notin stored
    /\ stored' = stored \cup {n}
    /\ excused' = excused \cup {n}
    /\ UNCHANGED <<relayVars, tableVars, pc, workVars, stats, faults>>

\* sync_from_follows: authors somebody follows get a row; its next_crawl_at is NOW().
Seed(S) ==
    /\ S \subseteq Followed[mode] \ queued
    /\ queued' = queued \cup S
    /\ due' = due \cup S

\* sync_cursors_from_events: newest_seen_at is raised to what is stored, and
\* what lies below it counts as fetched although nobody asked for it.
SyncCursors ==
    /\ \E s \in SpansOf(Authors, stored) :
         newest' = [a \in Authors |->
                       IF a \in queued' THEN Later(newest[a], s[a].newest) ELSE newest[a]]
    /\ excused' = excused \cup
         {n \in Notes \ stored : newest[Author[n]] < Time[n] /\ Time[n] <= newest'[Author[n]]}

StartCrawler(c) ==
    /\ pc[c] = "off" /\ c \in Instances[mode]
    /\ \E S \in SUBSET Authors : Seed(S)
    /\ SyncCursors
    /\ pc' = [pc EXCEPT ![c] = "idle"]
    /\ UNCHANGED <<relayVars, stored, cursor, workVars, stats, faults>>

\* The periodic re-sync.
Resync ==
    /\ \E c \in Crawlers : pc[c] # "off"
    /\ \E S \in SUBSET Authors : S # {} /\ Seed(S)
    /\ UNCHANGED <<relayVars, stored, cursor, newest, pc, workVars, stats, excused, faults>>

\* Time passes: a lease or an interval ends.
ComeDue(a) ==
    /\ a \in queued \ due
    /\ due' = due \cup {a}
    /\ UNCHANGED <<relayVars, stored, queued, cursor, newest, pc, workVars, stats,
                   excused, faults>>

\* take_batch, one UPDATE over rows FOR UPDATE SKIP LOCKED: ORDER BY priority_tier
\* DESC, so tier 4 first.  An author whose lease ended may be in another batch
\* still: from then on nothing is promised of its notes.
TakeBatch(c, S) ==
    /\ pc[c] = "idle" /\ S # {}
    /\ S \subseteq due /\ Cardinality(S) <= BatchSize
    /\ S = due \/ Cardinality(S) = BatchSize
    /\ \A a \in S, b \in due \ S : b \in Low => a \in Low
    /\ due' = due \ S
    /\ batch' = [batch EXCEPT ![c] = S]
    /\ todo' = [todo EXCEPT ![c] = S]
    /\ left' = [left EXCEPT ![c] = Primary]
    /\ copy' = [copy EXCEPT ![c] = [a \in Authors |->
                    IF a \in S THEN [cursor |-> cursor[a], newest |-> newest[a]] ELSE @[a]]]
    /\ pc' = [pc EXCEPT ![c] = IF mode = "legacy" THEN "recent" ELSE "primary"]
    /\ excused' = excused \cup By({a \in S : \E d \in Crawlers : a \in batch[d]})
    /\ UNCHANGED <<relayVars, stored, queued, cursor, newest, routed, at, stats, faults>>

-----------------------------------------------------------------------------
(* What relays answer *)

Request(A, since, until) == [authors |-> A, since |-> since, until |-> until]

Matching(r, q) == {n \in relay[r] \cap By(q.authors) : q.since <= Time[n] /\ Time[n] <= q.until}

\* What may arrive of S: the newest first, at most size of them.
Pages(S, size) ==
    {P \in SUBSET S : /\ Cardinality(P) <= size /\ (P = {} => S = {})
                      /\ \A n \in P, m \in S \ P : Time[n] >= Time[m]}

\* What the limit cuts off above the newest note known: the next crawl asks for
\* what is newer still, the backfill for what is older than the cursor.
PassedOver(c, S) ==
    {n \in S : /\ copy[c][Author[n]].newest # NULL
               /\ Time[n] > copy[c][Author[n]].newest}

\* Crawler c reads the answer P of relay r to q: a full page, or less when r falls
\* silent or closes (an r that sends nothing of what it has is a failed one).  Of P
\* insert_event turns down D, which the caller takes for duplicates (Ok(false)), and X
\* is what it fails to insert.  all: do notes that were not inserted count in stats?
\* cost: of what failed before.
ReadPage(c, r, q, all, cost) ==
    LET S    == Matching(r, q)
        size == Limit * Cardinality(q.authors)
    IN  \E P \in Pages(S, size) :
        \E D \in SUBSET (P \cap Refusable), X \in {{}} \cup {{n} : n \in P} :
          LET full  == P = S \/ Cardinality(P) = size
              found == IF all THEN P ELSE P \ (X \cup D \cup stored)
          IN
          /\ Costs(cost + Cardinality(X) + IF full THEN 0 ELSE 1)
          /\ stored' = stored \cup (P \ (X \cup D))
          /\ \E s \in SpansOf(q.authors, found) :
               stats' = [stats EXCEPT ![c] = [a \in Authors |->
                            IF a \in q.authors THEN Merge(@[a], s[a]) ELSE @[a]]]
          /\ excused' = excused \cup (By(q.authors) \ relay[r]) \cup X \cup D
                                 \cup PassedOver(c, S \ P) \cup stored'

\* No relay answers, or there is nothing to ask.
Unread(cost) == Costs(cost) /\ UNCHANGED <<stored, stats, excused>>

\* Bug: the first second not seen yet is stored.
MarkNext(c, a) ==
    /\ cursor' = [cursor EXCEPT ![a] = Earlier(@, stats[c][a].oldest)]
    /\ newest' = [newest EXCEPT ![a] = Later(@, stats[c][a].newest + 1)]
    /\ due' = due \ {a}

\* Bug: no comparison with what the row holds by now.
MarkBlind(c, a) ==
    LET s == stats[c][a] IN
    /\ cursor' = [cursor EXCEPT ![a] = IF s.oldest # NULL THEN s.oldest ELSE @]
    /\ newest' = [newest EXCEPT ![a] = IF s.newest # NULL THEN s.newest ELSE @]
    /\ due' = due \ {a}

\* mark_crawled, from what c found; a is not due again for a while.
Mark(c, a) ==
    /\ cursor' = [cursor EXCEPT ![a] = Earlier(@, stats[c][a].oldest)]
    /\ newest' = [newest EXCEPT ![a] = Later(@, stats[c][a].newest)]
    /\ due' = due \ {a}

\* c goes to stage s, or is done with its batch.
Go(c, s) == pc' = [pc EXCEPT ![c] = s]
Done(c) == /\ pc' = [pc EXCEPT ![c] = "idle"]
           /\ batch' = [batch EXCEPT ![c] = {}]
           /\ left' = [left EXCEPT ![c] = {}]
           /\ routed' = [routed EXCEPT ![c] = {}]
           /\ copy' = [copy EXCEPT ![c] = NoCopy]
           /\ stats' = [stats EXCEPT ![c] = NoStats]

-----------------------------------------------------------------------------
(* The legacy crawler: crawl_author for one author of the batch after another *)

\* Bug: only notes that are new count, as in the other crawler.
FetchNewNotes(c, a, since, until) ==
    LET q == Request({a}, since, until) IN
    \E down \in {{}} \cup {{r} : r \in Relays} :
        LET up == {r \in Relays \ down : Matching(r, q) # {}} IN
        \/ up = {} /\ Unread(Cardinality(down))
        \/ \E r \in up : (\A u \in up : r <= u) /\ ReadPage(c, r, q, FALSE, Cardinality(down))

\* fetch_author_notes: the first relay that returns something is the last one asked.
FetchAuthorNotes(c, a, since, until) ==
    LET q == Request({a}, since, until) IN
    \E down \in {{}} \cup {{r} : r \in Relays} :
        LET up == {r \in Relays \ down : Matching(r, q) # {}} IN
        \/ up = {} /\ Unread(Cardinality(down))
        \/ \E r \in up : (\A u \in up : r <= u) /\ ReadPage(c, r, q, TRUE, Cardinality(down))

\* Phase 1: what is newer than newest_seen_at.
FetchRecent(c, a) ==
    /\ pc[c] = "recent" /\ a \in todo[c]
    /\ Go(c, "backfill")
    /\ IF copy[c][a].newest # NULL
       THEN FetchAuthorNotes(c, a, copy[c][a].newest + 1, MaxTime) ELSE Unread(0)
    /\ at' = [at EXCEPT ![c] = a]
    /\ UNCHANGED <<relayVars, tableVars, batch, todo, left, routed, copy>>

\* Bug: the backfill steps over the second below the cursor.
BackfillSkips(c) ==
    LET a == at[c] IN
    /\ pc[c] = "backfill"
    /\ Go(c, "mark")
    /\ CASE copy[c][a].cursor # NULL -> FetchAuthorNotes(c, a, 0, copy[c][a].cursor - 2)
         [] copy[c][a].cursor = NULL /\ copy[c][a].newest = NULL
                -> FetchAuthorNotes(c, a, 0, MaxTime)
         [] OTHER -> Unread(0)
    /\ UNCHANGED <<relayVars, tableVars, workVars>>

\* Phase 2: what is older than crawl_cursor, or the first crawl; an author with a
\* newest_seen_at and no crawl_cursor has neither.
Backfill(c) ==
    LET a == at[c] IN
    /\ pc[c] = "backfill"
    /\ Go(c, "mark")
    /\ CASE copy[c][a].cursor # NULL -> FetchAuthorNotes(c, a, 0, copy[c][a].cursor)
         [] copy[c][a].cursor = NULL /\ copy[c][a].newest = NULL
                -> FetchAuthorNotes(c, a, 0, MaxTime)
         [] OTHER -> Unread(0)
    /\ UNCHANGED <<relayVars, tableVars, workVars>>

\* A mark_crawled that fails is logged.
MarkAuthor(c) ==
    LET a == at[c] IN
    /\ pc[c] = "mark"
    /\ todo' = [todo EXCEPT ![c] = @ \ {a}]
    /\ \/ Mark(c, a) /\ UNCHANGED faults
       \/ Costs(1) /\ UNCHANGED <<cursor, newest, due>>
    /\ at' = [at EXCEPT ![c] = None]
    /\ IF todo[c] = {a} THEN Done(c)
       ELSE /\ Go(c, "recent")
            /\ stats' = [stats EXCEPT ![c] = NoStats]
            /\ UNCHANGED <<batch, left, routed, copy>>
    /\ UNCHANGED <<relayVars, stored, queued, excused>>

-----------------------------------------------------------------------------
(* The targeted cycle: the batch at one relay after another *)

\* sync_authors: set reconciliation, then a fetch of what is missing; X is what the
\* relay does not send, insert_event turns down or fails to insert.
Reconcile(r, A) ==
    LET need == (relay[r] \cap By(A)) \ stored IN
    \E X \in SUBSET need :
        /\ Costs(IF X \subseteq Refusable THEN 0 ELSE 1)
        /\ stored' = stored \cup (need \ X)
        /\ excused' = excused \cup (By(A) \ relay[r]) \cup X \cup stored'

\* ... after which the cursors are to span all that is stored, unless that query fails.
SpanStored(c, A) ==
    \E s \in SpansOf(A, stored') :
        stats' = [stats EXCEPT ![c] =
                    [a \in Authors |-> IF a \in A /\ s[a].oldest # NULL THEN s[a] ELSE @[a]]]

Leave(c, r) == left' = [left EXCEPT ![c] = @ \ {r}]

\* Phase 1.  A relay may prove unable to reconcile, whatever it did before.
VisitPrimary(c, r) ==
    /\ pc[c] = "primary" /\ r \in left[c]
    /\ Leave(c, r)
    /\ \/ Reconcile(r, batch[c]) /\ (SpanStored(c, batch[c]) \/ UNCHANGED stats)
       \/ Unread(0)
    /\ UNCHANGED <<relayVars, tableVars, pc, batch, todo, routed, at, copy>>

\* The relay lists of the authors in A are there; a query that fails finds none.
EndPrimary(c) ==
    /\ pc[c] = "primary" /\ left[c] = {}
    /\ Go(c, "write")
    /\ \E A \in SUBSET {a \in batch[c] : Writes[a] # {}} :
         /\ routed' = [routed EXCEPT ![c] = A]
         /\ left' = [left EXCEPT ![c] = UNION {Writes[a] : a \in A} \ Primary]
    /\ UNCHANGED <<relayVars, stored, tableVars, batch, todo, at, copy, stats, excused, faults>>

\* legacy_crawl_authors begins, for the authors A at relay r.
BeginLegacy(c, r, A) ==
    /\ at' = [at EXCEPT ![c] = r]
    /\ todo' = [todo EXCEPT ![c] = A]
    /\ Go(c, "recentAt")
    /\ UNCHANGED left
    /\ Unread(0)

\* Phase 2: the authors' own write relays.
VisitWrite(c, r) ==
    LET A == {a \in routed[c] : r \in Writes[a]} IN
    /\ pc[c] = "write" /\ r \in left[c]
    /\ \/ /\ Leave(c, r) /\ Reconcile(r, A) /\ UNCHANGED <<pc, todo, at>>
          /\ SpanStored(c, A) \/ UNCHANGED stats
       \/ BeginLegacy(c, r, A)
    /\ UNCHANGED <<relayVars, tableVars, batch, routed, copy>>

EndWrite(c) ==
    /\ pc[c] = "write" /\ left[c] = {}
    /\ IF routed[c] = batch[c]
       THEN Go(c, "markAll") /\ todo' = [todo EXCEPT ![c] = batch[c]] /\ UNCHANGED left
       ELSE /\ Go(c, "fallback")
            /\ left' = [left EXCEPT ![c] = Relays \ Primary]
            /\ UNCHANGED todo
    /\ UNCHANGED <<relayVars, stored, tableVars, batch, routed, at, copy, stats, excused, faults>>

\* Phase 3: the other authors, at each relay until one reconciles; that one leaves
\* no trace in the cursors.
VisitFallback(c, r) ==
    LET A == batch[c] \ routed[c] IN
    /\ pc[c] = "fallback" /\ r \in left[c] /\ \A u \in left[c] : r <= u
    /\ \/ /\ left' = [left EXCEPT ![c] = {}]
          /\ UNCHANGED <<pc, todo, at>>
          /\ (Reconcile(r, A) /\ UNCHANGED stats) \/ Unread(1)
       \/ BeginLegacy(c, r, A)
    /\ UNCHANGED <<relayVars, tableVars, batch, routed, copy>>

EndFallback(c) ==
    /\ pc[c] = "fallback" /\ left[c] = {}
    /\ Go(c, "markAll")
    /\ todo' = [todo EXCEPT ![c] = batch[c]]
    /\ UNCHANGED <<relayVars, stored, tableVars, batch, left, routed, at, copy, stats, excused,
                   faults>>

\* Phase A: what is newer than the oldest newest_seen_at of the group, if all have one.
FetchRecentAt(c) ==
    LET A == todo[c]
        known == {copy[c][a].newest : a \in A}
    IN
    /\ pc[c] = "recentAt"
    /\ Go(c, "backfillAt")
    /\ \E since \in Times :
         /\ since = NULL \/ since \in known
         /\ since = NULL <=> NULL \in known
         /\ \A t \in known : since <= t
         /\ Unread(1) \/ ReadPage(c, at[c], Request(A, since, MaxTime), FALSE, 0)
    /\ UNCHANGED <<relayVars, tableVars, workVars>>

\* Phase B: for each author what is older than its crawl_cursor; tier 4 is left out.
\* After the last author the crawler goes on to the next relay.
BackfillAt(c, a) ==
    /\ pc[c] = "backfillAt" /\ a \in todo[c]
    /\ todo' = [todo EXCEPT ![c] = @ \ {a}]
    /\ IF a \in Low \/ copy[c][a].cursor = NULL THEN Unread(0)
       ELSE \/ Unread(1)
            \/ ReadPage(c, at[c], Request({a}, 0, copy[c][a].cursor), FALSE, 0)
    /\ IF todo[c] = {a}
       THEN /\ Go(c, IF a \in routed[c] THEN "write" ELSE "fallback")
            /\ Leave(c, at[c])
            /\ at' = [at EXCEPT ![c] = None]
       ELSE UNCHANGED <<pc, left, at>>
    /\ UNCHANGED <<relayVars, tableVars, batch, routed, copy>>

MarkAll(c, a) ==
    /\ pc[c] = "markAll" /\ a \in todo[c]
    /\ todo' = [todo EXCEPT ![c] = @ \ {a}]
    /\ \/ Mark(c, a) /\ UNCHANGED faults
       \/ Costs(1) /\ UNCHANGED <<cursor, newest, due>>
    /\ IF todo[c] = {a} THEN Done(c) ELSE UNCHANGED <<pc, batch, left, routed, copy, stats>>
    /\ UNCHANGED <<relayVars, stored, queued, at, excused>>

\* The process dies: the table keeps what was stored and the leases.
Crash(c) ==
    /\ pc[c] # "off"
    /\ Costs(1)
    /\ pc' = [pc EXCEPT ![c] = "off"]
    /\ batch' = [batch EXCEPT ![c] = {}]
    /\ todo' = [todo EXCEPT ![c] = {}]
    /\ left' = [left EXCEPT ![c] = {}]
    /\ routed' = [routed EXCEPT ![c] = {}]
    /\ at' = [at EXCEPT ![c] = None]
    /\ copy' = [copy EXCEPT ![c] = NoCopy]
    /\ stats' = [stats EXCEPT ![c] = NoStats]
    /\ UNCHANGED <<relayVars, stored, tableVars, excused>>

-----------------------------------------------------------------------------
Work(c) ==
    \/ \E a \in Authors : FetchRecent(c, a)
    \/ Backfill(c) \/ MarkAuthor(c)
    \/ \E r \in Relays : VisitPrimary(c, r) \/ VisitWrite(c, r) \/ VisitFallback(c, r)
    \/ EndPrimary(c) \/ EndWrite(c) \/ EndFallback(c)
    \/ FetchRecentAt(c)
    \/ \E a \in Authors : BackfillAt(c, a) \/ MarkAll(c, a)

Crawler(c) == StartCrawler(c) \/ (\E S \in SUBSET Authors : TakeBatch(c, S)) \/ Work(c)

Next ==
    \/ \E c \in Crawlers : Crawler(c) \/ Crash(c)
    \/ Resync
    \/ \E a \in Authors : ComeDue(a)
    \/ \E n \in Notes : Ingest(n) \/ \E r \in Relays : Publish(r, n)

Spec == Init /\ [][Next]_vars

\* A crawler polls for ever and every wait of it has a timeout; time passes.
LegacyFairSpec ==
    /\ Spec
    /\ \A c \in Crawlers : WF_vars(mode = "legacy" /\ Crawler(c))
    /\ \A a \in Authors : WF_vars(mode = "legacy" /\ ComeDue(a))
-----------------------------------------------------------------------------
(* Properties *)

\* The cursors of an author enclose a range, also when crawls of the same author
\* overlap and the later one marks what it found with cursors it read long before
\* (mark_crawled, queue.rs:208).
Bracket == \A a \in Authors : cursor[a] # NULL => newest[a] # NULL /\ cursor[a] <= newest[a]

\* ... and only ever widen (queue.rs:208-217).
CursorsOnlyWiden ==
    [][\A a \in Authors :
        /\ cursor[a] # NULL => cursor'[a] # NULL /\ cursor'[a] <= cursor[a]
        /\ newest[a] <= newest'[a]]_<<cursor, newest>>

\* What lies above crawl_cursor and up to newest_seen_at is stored, except what a
\* named cause passed over: the relay that answered did not have it, a page was cut
\* above the newest note known, insert_event turned it down (its author may enter the
\* web of trust later) or failed, a start-up sync raised newest_seen_at, or two
\* crawls of the author overlapped.  Nothing else makes a hole, and no hole is ever
\* asked for again.  The second of crawl_cursor itself is
\* asked for again (worker.rs:215-224), so notes of it may be missing still.
HolesAreAccounted ==
    \A n \in Notes :
        (/\ cursor[Author[n]] # NULL
         /\ cursor[Author[n]] < Time[n] /\ Time[n] <= newest[Author[n]])
        => n \in stored \cup excused

\* The queue implements Coverage: the notes that the cursors of their authors claim.
Claimed == {n \in Notes : /\ cursor[Author[n]] # NULL
                          /\ cursor[Author[n]] < Time[n] /\ Time[n] <= newest[Author[n]]}

Covers == INSTANCE Coverage WITH claimed <- Claimed

ImplementsCoverage == Covers!Spec

\* The backfill reaches every note below the cursor that all relays have, of the authors
\* the legacy crawler takes.
BackfillIsDone ==
    \A n \in {k \in Old : Author[k] \in Followed["legacy"]} :
        (cursor[Author[n]] # NULL /\ Time[n] < cursor[Author[n]]) ~> (n \in stored \cup excused)

\* The same for the legacy crawler alone, which counts notes that it finds
\* stored: neither a crash nor a failing mark_crawled makes it stand still.
LegacyBackfillIsDone == mode = "legacy" => BackfillIsDone
=============================================================================
