# A TLA+ model of nostrarchives-api

`nostr-api` archives Nostr notes in PostgreSQL, counts the engagement they get,
serves them over HTTP and WebSocket, and runs a *scheduler relay* that publishes
a user's signed events when they come due.  This directory models the parts of
it where tasks interleave, statements fail one by one and processes die, checks
those models with TLC and proves the most important results with TLAPS.

Paths below are relative to the repository root.

## 1. The system

One process runs everything, on a multi-threaded tokio runtime.  State is in
PostgreSQL (shared by all tasks, and by a second instance during a deploy and by
the maintenance tools), in Redis (counters and caches), and in memory behind
locks (lost on restart).  Almost no handler opens a transaction: *each SQL
statement commits by itself*, and every `await` is a point where other tasks run.
That, with failing statements and restarts, is what the models are about.

| Component | Source | State it keeps | Operations | What makes it hard |
|---|---|---|---|---|
| Scheduler relay | `src/scheduler/mod.rs` | table `scheduled_events`; per connection the authenticated user; cached top relays | AUTH, EVENT, kind-5 cancellation, REQ; a publisher loop each minute: claim, read relay lists, send, settle | claim/cancel race, two publishers, count-then-insert, crash between claim and settlement |
| On-demand fetcher | `src/relay/fetcher.rs` | map `inflight` of `Notify`s, negative cache in Redis | fetch by id, fetch profile | coalescing, lost wake-ups, dropped requests, stalled relays |
| Ingestion and engagement | `src/db/repository.rs`, drain loop of `src/main.rs` | `events` with its counters, `event_refs`, `seen_events`, `zap_metadata`, `missing_events` | `insert_event` by kind, the missing-events drain loop | one event from several relays at once, counters and dedup rows in separate statements, events before their targets |
| Moderation and purge | `src/block_cache.rs`, `src/bin/ban_bots.rs`, admin handlers | `blocked_pubkeys` and a copy in memory; a queue and statuses in memory | block, unblock, purge job, offline ban | check-then-insert against block-then-purge, table against memory, batches, restart |
| Crawl queue, author crawlers | `src/crawler/queue.rs`, `worker.rs`, targeted cycle of `orchestrator.rs` | `crawl_state`: tier, two cursors, next crawl | lease a batch, crawl its authors, mark; seed and re-rank | leases that expire, stale cursors, pages cut by a limit, death before the marks |
| Negentropy crawlers | `src/crawler/negentropy*.rs`, `relay_caps.rs` | cursor, window size and `fully_backfilled` per relay and kind; relay capabilities | windowed backward sync, zap pass | failed windows, resumption, paging over a set that shrinks |
| Replaceable events, social graph | `repository.rs` 408-583, `src/social/builder.rs` | newest kind 3 and 10002 per author, `follows`, `follow_lists` | upserts, bootstrap | read, delete and insert without a transaction; a cascade that takes the graph with its list |
| Ingester, metadata resolver | `src/relay/ingester.rs`, `metadata.rs` | a channel; sets `pending` and `attempted` | reconnect loop, resolve loop | back-off, shutdown, work drained before it is done |
| WoT, follower and profile caches | `src/wot_cache.rs`, `follower_cache.rs`, `profile_search_cache.rs` | sets in memory, `wot_scores` | refresh by whoever finds the set too old, lookups | several refreshes at once, each of several steps |
| Statistics, limits | `src/cache/mod.rs`, `live_metrics.rs`, `ratelimit.rs` | Redis counters with a time to live; a sliding window | record, read, clean up | increment and expiry in separate commands |
| HTTP API, feeds, indexer | `src/api`, `src/ws`, `src/indexer`, `auth.rs`, `nip19.rs` | answers in Redis | queries | answers computed before a change and cached after it |

How they interact: ingester, crawlers, fetcher and the drain loop all call
`EventRepository::insert_event`, which asks `BlockCache` (memory) and `WotCache`
before it writes.  Handlers that miss a note call the fetcher, which inserts
what it finds.  A reaction to an unknown note queues it in `missing_events`,
whose drain loop calls the fetcher.  A purge deletes from every table, the
scheduler's and the crawler's included.  The publisher reads the relay lists
that ingestion stores.

What makes each part correct is stated as properties in the modules (section 3);
`PROJECT.json` lists every hazard of the code at its line with the properties that
would notice it.

## 2. Modules

| Module | Models | Actions correspond to |
|---|---|---|
| `ScheduledPost` | what the scheduler promises, abstractly: draft, scheduled, then withdrawn or started; a started post is handed to each relay at most once, when due | - |
| `Scheduler` | the scheduler relay, statement by statement | `Authenticate` handle_auth; `SubmitEvent`, `CountPending`, `CheckDuplicate`, `InsertEvent` the four stages of handle_event; `HandleDeletion`; `ClaimDue`, `ReadRelayLists`, `BeginEvent`, `SendToRelay`, `SettleEvent` the stages of publish_due_events; `RefreshTopRelays`, `CrashPublisher`, `Disconnect`, `LoseHandler` |
| `SingleFlight` | what the fetcher promises about simultaneous requests, abstractly: whoever finds a key free takes it and fetches alone; only that fetch frees it; a fetch that is dropped leaves it taken | - |
| `Coverage` | what a crawler promises that keeps marks of its progress: a claim is never given up, and nothing is claimed but what is stored or was passed over for a known cause | - |
| `Fetcher` | the coalescing fetch | `CheckMiss`, `LookupInflight`, `RegisterWaiter`, `Reread` the waiter's path; `Connect`, `Stall`, `ReceiveEvent`, `EndRead`, `StoreFetched`, `ClearInflight`, `NotifyWaiters`, `RememberMiss` the leader's; `Cancel` a handler dropped by its client |
| `Engagement` | counters, dedup, missing events | one action per statement of insert_event for notes, taps (reactions and reposts) and zaps; `TakeMissing` ... `MarkMissing` the drain loop of main.rs |
| `Moderation` | block list and purge | `BlockInTable`, `BlockInMemory`, `QueuePurge` the three stages of admin_block_pubkey; `UnblockInTable`, `UnblockInMemory`; `StartPurge`, `SelectBatch`, `StageBatch`, `CommitBatch`, `FinishPurge`, `FailPurge` the worker; `BanAuthor` the ban tool; `CheckBlocked`, `InsertEvent`, `InsertRefs`, `CountReply` an insert_event call; `FailWrite` its next statement failing; `Restart` |
| `Crawl` | work queue, legacy crawler, targeted cycle | `Seed`, `SyncCursors`, `TakeBatch`, `Mark` the queue's statements; `FetchRecent`, `Backfill`, `MarkAuthor` the phases of crawl_author; `VisitPrimary`, `EndPrimary`, `VisitWrite`, `EndWrite`, `VisitFallback`, `EndFallback`, `MarkAll` those of targeted_crawl_cycle; `FetchRecentAt`, `BackfillAt` legacy_crawl_authors; `Reconcile` a per-author negentropy sync |
| `Negentropy` | the hybrid crawler's bulk synchronisation, with the relay capabilities it is based on | `BeginCycle`, `CheckCaps`, `EndCycle` negentropy_sync_cycle and check_and_update_caps; `LoadState`, `RecentPass`, `UpdateNewest`, `SaveWalk` the stages of run_exhaustive_sync; `WalkWindow`, `HalveWindow`, `SkipWindow` the outcomes of one round of run_sync_windowed_from; `Publish`, `ExpireCaps`, `Restart` |
| `NegentropyOnly` | the other crawler that reconciles, which runs once per start | `ValidateRelays`, `TakeAuthor`, `SyncAuthor`, `MarkAuthor` the note pass; `BeginZaps`, `TakeBatch`, `CrawlZaps` run_zap_pass; `Age` the seven days of one of an author's marks pass, at any time; `Redeploy`, `Die` |
| `Replaceable` | contact lists and the follow graph | `SelectNewest`, `DeleteOld`, `InsertNew` the statements of upsert_kind3_event; `ReadList`, `DeleteEdges`, `CommitEdges` upsert_follow_list; `Deliver` a caller, of three kinds; `Abort` a failing statement; `Cascade` the foreign keys of migration 004 |
| `Resolver` | the metadata resolver | `Offer`, `TakeName`, `InsertName` from the channel to `pending`; `DrainPending`, `CheckMissing`, `AskRelay`, `MarkFound`, `MarkAttempted` one round; `Shutdown`, `StopReceiver`, `StopResolver` |
| `Ingester` | the relay loops and the processor behind their channel | `Connect`, `Subscribe`, `Receive`, `SendWaits`, `Send`, `Disconnect`, `Wake`, `StopLoop`; `ProcessEvent`, `StopProcessor` |
| `Stats` | the two counters in Redis that have a life of their own | `Store`, `Count`, `SetLife` on_event_ingested; `CountRows`, `SetTotal` get_stats; `Delete`, `Tick` |
| `Answers` | cached answers | `AskNotes`, `AskBoard`, `Compute`, `Fill` a handler or feed; `Warm` a background loop; `Purge`, `BlockHashtag`, `RefreshViews` with `Delete` per prefix; `Expire`, `Ingest` |
| `Caches` | the sets in memory | `Call`, `Query`, `BeginReplace`, `CommitReplace`, `Swap`, `Stamp` a lazy refresh; `Fail`, `Follow`, `RefreshView`, `GrowOld` |
| `SchedulerProof`, `FetcherProof`, `EngagementProof`, `ModerationProof`, `CrawlProof`, `NegentropyProof`, `ReplaceableProof`, `ServicesProof` | theorems (section 4) | - |
| `CrawlModes` | `Negentropy` and `NegentropyOnly` in one process | CRAWL_MODE, read by main |
| `Services` | `Resolver`, `Ingester`, `Stats`, `Answers` and `Caches` side by side | - |
| `MC*` | constants of the instances | - |

`Services` puts five modules into one run and `CrawlModes` the two crawlers that
reconcile.  The parts of such a module share nothing that is modelled: the first
state chooses which of them a behaviour is about (`service`, `crawlMode`), and the
others stand still.  For the crawlers
that is the code's own choice: `CRAWL_MODE` is read at start-up.  `mode` of `Crawl`
is the same variable for the legacy and the targeted crawler.

Conventions.  A step is one SQL statement, one conversation with a relay, or the
code between two awaits.  A column of a row that does not exist is "absent" or 0,
a Rust `None` is the constant `None`.  `now` of Scheduler is the database clock.
Names of variables and actions follow the source.  A definition under a comment
`Bug:` is a wrong variant of the one after it; nothing uses it, it is there to
be put in its place to see that a property notices (`mutants` in
`PROJECT.json`).  Constants that bound the exploration are marked `bound:`.
Variables marked `history` are not in the code: they remember what a property needs
to know, and no guard reads them.

Abstractions.  Contents, signatures, JSON, log lines and messages to users are
not modelled; a signature check is membership of `Signed`.  `Scheduler` leaves
out REQ, which changes nothing, and the order of rows inside a batch.  `Fetcher`
does not choose relays, it counts them.  `Engagement` keeps the refs of a note
as one `Parent`, and amounts of zaps as counts; reapply_counters is one step, since it is one
UPDATE whose subqueries count the rows (`src/db/repository.rs:3427-3444`).  `Moderation` keeps the
reply_count of one root note; it treats the refs of a note as written by one
statement, and the purge's transaction as two visible points (its first
statement, whose result it applies at the end, and its commit), which is what
READ COMMITTED shows to others; the rows a purge deletes after the notes
(follows, crawl_state, scheduled_events, wot_scores) are left out.  `Crawl`
has notes only, since events of other kinds move no cursor; a relay is the set
of notes it has, an answer is a prefix of what matches, newest first, and one
fetch is one step; a row that was pushed back comes due at any later time; a note in
`Refusable` may be turned down each time it comes, whatever is the reason (proxied,
blocked, its author not in the web of trust).  `Negentropy` counts time in parts of a day; a conversation
about one window is a step that finds some of what is missing; relay
capabilities grow old between cycles.  `NegentropyOnly` keeps the two marks of an
author.  `Replaceable` has one author, since authors share no row.  An answer of
`Answers` and a set of `Caches` is the version of the tables that it shows.
`Stats` counts seconds of a minute made short.

## 3. What the runs check

Each passing run but `scheduler_conns` checks a type invariant, and all check the
properties below.

**`scheduler`** (`SchedulerPublish.cfg`).  Two events of two users, one with a
relay list and one relying on the cached top relays, one connection, two
publishers, one relay, two ticks, one crash, one failing statement.  A cycle claims one
event, so one that became due in time may have to wait for a later cycle; cycles of two
are in `scheduler_conns`, and the theorems have any number.  The connection submits, resubmits and
cancels at any moment.  Shows: at most once per relay (`HandedAtMostOnce`); OK
true means stored, whatever query failed (`AcceptedIsStored`); every due event is
claimed (`DueIsClaimed`); a claimed one is settled when nobody dies and nothing
fails (`ClaimedIsSettled`); and the relay implements `ScheduledPost`
(`ImplementsScheduledPost`: phase and given are functions of status and handed),
which says that nothing is handed out early, after its withdrawal, or again
after it was settled.

**`scheduler_conns`**.  Two connections of one user, three events, limit 1, cycles of two.  The
limit is checked and the row inserted by two statements, so it can be exceeded,
by at most one row per other connection (`PendingOvershoot`).  No statement fails
here; the theorem allows one row more for each that does, as a count that fails is
taken for zero.

**`scheduler_stuck`** (violation).  `DueIsPublished` fails: a crash between claim
and settlement leaves the row in `publishing`, which no query ever selects.

**`fetcher`**.  Three requests for one key, two relays, one cancellation, one
stalled connection, one expiring miss: leader, waiter and a third that comes as
the first ends.  The fetcher implements `SingleFlight` (`ImplementsSingleFlight`:
a key is taken while the map has its entry), so there is one fetch per key at a
time, and nobody else removes its entry; a waiter that
registered while its entry was in the map is woken (`RegisteredIsWoken`).

**`fetcher_lost_wake`** (violation).  `RequestReturns` fails: the wake-up falls
between the copy of the `Notify` and the registration, and the waiter has no
timeout.

**`engagement`**.  Two workers, two notes, two taps, a zap, four deliveries, one
fault: every pair of statements of two deliveries interleaves, also with the
drain loop.  A tap is counted at most once per worker and fault
(`TapCountedBounded`); what is marked seen is counted (`NoTapLost`); replies are
counted at most once (`ReplyCountedOnce`); no zap is lost whatever the order
(`NoZapLost`); every missing note is fetched or given up, unless the
drain loop hangs in a fetch (`MissingIsResolved`): it awaits `fetch_event_by_id` without a
timeout, and `Fetcher` shows that such a call need not return (a connect that is not
timed, a missed wake-up, an entry without a leader).  One hang stops the whole queue until the
process is started again.  Only lost zaps are noticed by `NoZapLost`: one that is being
linked while the counters are reapplied is counted twice, in the code too.

**`engagement_early`** (violation).  `FetchedIsLinked` fails: reactions that came
before their note are not in `seen_events`, and reapply_counters counts only those.

**`moderation`**.  One pubkey with a reply to the root and a reply to that reply,
two writers, the worker and the ban tool, two calls of administrators (a block, an
unblock or a ban each), two faults (a failed statement, an abandoned request, a restart),
batches of one.  When a purge is over and the pubkey stays blocked, what is stored of it
was already past the check when the block came, and nothing else comes back
(`PurgedStaysPurged`); table and memory agree between orderly requests
(`MemoryIsTable`, with the four ways to break it named); the root's reply_count
drifts only by what the races account for (`ReplyDrift`); a queued purge ends
unless a restart forgets it (`PurgeEnds`).  The exceptions of `MemoryIsTable`, the two drifts of
`ReplyDrift` and a purge that ends half done are what the code does: the properties say that
there is nothing else, and do not hold these against it.

**`crawl`**.  Either two processes of the legacy crawler over one author, or one
targeted crawler over two, of which one has a relay list and the other is in
tier 4; notes of the author at three times, one published late, and an old one that
other paths may store as well and that insert_event may turn down; two relays, of which one is reconciled; pages of
two notes per author; one fault (a relay, a statement, a process).  Shows: the
cursors only widen (`CursorsOnlyWiden`), although leases expire and a crawler
marks from copies it read long before; what lies above crawl_cursor and up to
newest_seen_at is stored but for named causes (`HolesAreAccounted`: the relay that answered lacked the note, the
page was cut at its limit above newest_seen_at or in the middle, an INSERT
failed, insert_event turned the note down, the start-up sync raised newest_seen_at, two crawls of the author
overlapped), and as nothing between the cursors is asked for again by a REQ,
these are the causes of permanent gaps (the second of crawl_cursor is asked for again);
the backfill of an author the legacy crawler takes reaches
every old note that all relays have (`LegacyBackfillIsDone`), as long as a page has room for
the notes of one second: a second with more of them than the page's limit would be
asked for for ever, a case that these times leave out.

**`negentropy`**.  The hybrid crawler: two relays, one that speaks NIP-77 and one
that only claims to, two kinds, four events: two of one time, more than the
relay reconciles at once (so windows are halved and at last skipped) and one of
them turned down by insert_event, an old one, and one that is published while
the crawler runs; a day of two units, windows of one to four, one window per
visit, so that a walk takes several cycles; three units of time, longer than
a day; one fault.  The other crawler: four authors, two of them in the tiers of the
note pass, batches of one, so that the steps over OFFSET show.  The sync cursors
implement `Coverage` (`ImplementsCoverage`): what lies between a cursor and the last
recent pass is stored or was passed over for a named cause (`WalkIsAccounted`: its
window was skipped, it did not arrive or was turned down, it was made in an outage of
over a day, it came to the relay late), and what was claimed once stays claimed; every kind of every relay is fully
backfilled at last (`HybridWalkEnds`).  Of the other crawler: what was begun comes to its end,
though authors fall due meanwhile and marks fail (`OnlyPassEnds`); a zap pass that nothing
disturbs steps over every second batch and visits at least half (`OnlyTakesHalf`).  That every
author is visited at last is not so: the crawler runs once per start and nothing starts it
again, and when starts lie more than seven days apart, all are due at each of them, have
the same places (while tiers and follower counts stand), and the same ones are stepped over.

**`replaceable`**.  Three tasks, one of each kind of caller (the ingester stores and
updates the graph, a backfill only updates the graph, a crawler only stores), an
earlier list that names two people and a later one that names one, a fault.  In quiet states
the graph is that of the stored list unless two deliveries overlapped or the
list was stored by a caller that builds no graph (`GraphAgrees`); two lists are
kept only if their deliveries met (`OnlyRivalsKept`); once only the latest list is
delivered it stays stored (`LatestStays`).

**`services`**.  Five services.  Resolver: two authors, a channel of one, a pending
set of one, one relay per round, so both limits are met.  A pubkey sighted is in
the channel, pending, under way or attempted, or was passed over for a named cause, and
relays are asked for one at most three times (`ResolverAccounts`).  Ingester: a relay, two
events, a channel of one, so senders wait; a loop ends after the shutdown
unless its connecting never returns or its REQ fails again and again (`IngestersStop`).  Stats: two writers, two readers, a minute of two seconds; the
total is ahead of the events taken in by no more than one for each writer (of the rows it is
ahead without a bound: it counts reactions and reposts, which have none, and hears of no
deletion), and the window holds what was counted in the last minute (`CountersBounded`).
Answers: a key computed from tables, one from views, a task, two changes; a stale
answer was computed before the change and written after the deletion, or the
deletion failed (`StaleAnswerIsLate`).  Caches: the web of trust and one more
set, two callers, one change, one fault; the rows of two transactions on wot_scores at once
both stay, or collide; with `Answers`: once nothing changes, all
that is cached agrees with the tables at last (`CachesCatchUp`).

Bounds.  A race needs two actors and one shared row, and the runs have them; a
fault budget of one places a failure at every point of every interleaving.  More
events, relays or ticks only repeat these; the theorems of section 4 do not
depend on them.  Bounds that matter to the reader: `moderation` allows two
requests and bans together, so block-unblock-block, and a ban between two requests, are not
covered (`MemoryAgrees` covers them);
`engagement` allows four deliveries; a batch of `crawl` holds all authors, so a
tier that starves another does not appear; one note of `crawl` is refusable (the
theorems allow all); `negentropy` lives for three units of time, and the seven days of
a mark pass twice (`MaxAges`); `services` has one key of each sort and starts with no
profile stored (the theorems allow any).

Fairness.  `Scheduler`: time passes, and a publisher's cycle goes on, because the
loop ticks every minute and every await in it has a timeout; users need not act.
`Fetcher`: a request goes on where it can; a stalled connection does not, since
the code sets no timeout there.  `Engagement`: only the drain loop, whose
timer ticks; a fetch may hang, and nothing is assumed to end that, nor of the callers of
insert_event.  `Moderation`: only the purge worker.  `Crawl`: leases end and a
crawler goes on (it polls, every wait has a timeout, and a process that died is
started again), assumed of the one mode a liveness property is about.
`Negentropy`, `NegentropyOnly`: the same of the work, and weakly only, and not of
`Redeploy`, since nothing starts the second again; strong fairness
of `ExpireCaps`, since a capability grows old whatever cycles run meanwhile.
`Replaceable`: statements end, and relays deliver the latest list again and again to
each caller that stores (strong, as a caller may be busy whenever it comes).
`Ingester`: the processor goes on; sleeps end and REQs are answered; `Send` and
`StopLoop` strongly, because the channel has room, and the loop reads its shutdown signal,
infinitely often rather than always; nothing is assumed of what relays send.
`Answers`: views are refreshed by their timer, times to live end, prefixes are
deleted one after the other.  `Caches`: a refresh goes on, sets grow old, and somebody
calls again and again (strong).  No fairness is assumed
of clients, relays, faults or crashes.  `CHECK_DEADLOCK FALSE` appears where
the bounds let a behaviour end.

## 4. What is proved

For every value of the constants allowed by the modules' ASSUMEs, which say
that the constants have their types, and that some sets are finite where things are
counted (`Scheduler`, `Engagement`, `Moderation`, `CrawlModes`, `Services`).

`SchedulerProof`.  `Custody` is the inductive invariant.  `HandedAtMostOnce` is not
inductive: that a send is the first needs to know that the event is claimed, that
nobody else holds it, and that it was untouched when claimed.  So `Custody` says:
rows not yet claimed are untouched; claimed ones are due; what a cycle has queued
is `publishing` and untouched; what it sends is held and untouched at the relays
still to come; two publishers never hold the same event.  The claim keeps this
because one UPDATE moves rows out of `pending`.  There is a lemma per action
(`Claims`, `Sends`, `Settles`, ...), each with a step per conjunct.  From it:
`AtMostOnce`, `CancelledStaysHome`, `NeverEarly`, `AcceptedStored`,
`SettledForGood`, and `Implements`, the refinement of `ScheduledPost`, by one step
per action (`StepRefines`).  `OvershootBounded` is about what may still happen: `Room` adds to the pending
rows of a user the connections that are past the count, each of which may insert one
row, and the sum moves only by the lemmas on finite sets.

`FetcherProof`.  `Coalescing` is the inductive invariant behind `OneFetchPerKey`: a
fetch's `Notify` is its own, and it is the one in the map.  `Coalesced` and
`NoOrphanEntry` follow, and `Implements`, the refinement of `SingleFlight`: a key is
taken while it has an entry, and a fetch is the only one of its key (`Sole`), so
that `Lead` begins it (`Begins`), `ClearInflight` ends it (`Finishes`), a `Cancel` of
its leader drops it (`Drops`), and all else is a stutter (`StepShares`).

`EngagementProof`.  A counter and the rows that witness it are written by different
statements, so each bound becomes inductive by adding what the workers
between two statements still carry: replies not yet told to their parent (`Told`,
with `OneTeller`: of one note at most one worker), taps counted and not marked
(`Kept`, `TapsCounted`), zaps with metadata and no link (`Linked`).  The counts of
workers at a step are cardinalities, moved by the lemmas on finite sets.
`CountedOnce`, `TapsNotLost`, `TapsBounded` and `ZapsNotLost` follow.

`ModerationProof`.  The invariant says who is at work on a pubkey: `Occupied` (a
running purge has its status and its pubkey), `Orderly` (what an admin request has
done to the table and has still to do in memory, unless it is one of the named
exceptions), `Escaping` (whoever is past the check of a blocked author is
remembered) and `Cleaned` (what a purge has been through contains only those).
`MemoryAgrees` and `PurgeStays` follow.  `DriftBounded` rests on `Drift`: from below, the replies
that neither purge has staged plus what each has staged are no more than the count and
what is owed to it (`NotTooLow`), since a note may be staged twice; from above, also
for every set of notes left out, as the replies owed must be bounded when
GREATEST(0, ...) cuts the count off (`NotTooHigh`).  Cardinalities are moved by `Staging`,
`Forgetting` and `Removing`.

`CrawlProof`.  `CursorsInv` is the inductive invariant: that the cursors enclose a range
(`Bracket`) is not inductive, since a mark widens the cursors by what the crawler has
found, which may lie anywhere; so it adds that what was found of an author is a
range itself (`FoundSpan`), which merging keeps (`SpanOrdered`, `MergeOrdered`), and
that a crawler at an author or a relay knows which (`AtWork`).  `Bracketed` and
`OnlyWiden` follow from it; the comparisons of mark_crawled enter by `Widen`.
`HolesAccounted` needs what a crawler knows before it marks (`HolesInv`): either every note
of the author is excused, which is so as soon as two crawlers hold the author
(`Shared`), or the crawler's copy of the cursor is still that of the row (`Known`) and it
passed nothing over from the oldest note it found up to its copy of newest_seen_at
(`Below`), from there up to the newest it found (`Above`), nor in what others have
raised newest_seen_at by since (`Raised`).  A page keeps this because a relay
answers with the newest notes of a range (`SpansOf`), a mark turns it into the property.
`Implements` puts both together: the cursors implement `Coverage`, as wider cursors
claim more (`ClaimsGrow`) and what is stored or excused stays so (`NextGrows`).

`NegentropyProof`.  `WalkIsAccounted` is about rows, and a walk in memory is ahead of
them.  The invariant says of three ranges of time that what a relay has there is
stored or lost for a named cause: the last recent pass of a kind whose walk was never saved
(`Recent`), from the stored cursor to the last recent pass (`Below`), from the
cursor of the walk under way to where its row will claim it (`Walked`).  `Recent` is
what lets a walk begin a day below `start` after a cycle that died: former passes
reach to within a day of it.  `EventNext` carries a single event through any step,
`RowSteps` says that rows and passes change in three ways only.
For `ModesImplement`, that the sync cursors implement `Coverage`, a claim must also
last: a walk starts at the stored cursor and only goes down, and a kind that is
fully backfilled is not walked again (`NoHigher`, with `RowsWiden`).
The zap pass of the other crawler is about places in a list: `ShortBatch` says that
when LIMIT and OFFSET find less than a batch, no more rows than the OFFSET are left, and
`HalfWay` that a pass has taken as many as it has stepped over, or that no more are left
than it has taken, from which `TakesHalf` follows.  `CrawlModesAssumption` adds that authors are finitely many.
`ModesTypeCorrect`, `ModesWalkAccounted`, `ModesImplement` and `TakesHalf` are theorems
of `ModesSpec`, the specification that is run.

`ReplaceableProof`.  `MetWhileInserting` and `Rivals` (two deliveries at their
INSERTs have met, and so has one with what is stored beside it) are behind
`RivalsOnly`; `HasList`, `EdgesNamed` and `Alone` (edges belong to the list of
follow_lists, and a delivery that met nobody sees the graph it left) behind
`GraphOfTheList`.

`ServicesProof`.  The theorems are about `ServicesSpec`; the run takes its behaviours
that start with no profile stored.  Each theorem follows from the invariant of its
service.  Resolver: `Accounted` is `SightingIsAccounted` in words of the actions, and
`InHand` says what each of the two tasks has in hand at each step.  That relays are
asked at most three times rests on `AskedSoFar`: once a pubkey is in `attempted`, the
requests made, with how often it has already passed the check against `attempted` and
not yet been asked for (`Chances`), are at most three.
Stats: `Bounds` limits the totals together with the writers between INSERT and MULTI,
who may still raise them; `WindowLives` says that the window's key lives at least as
long as anything counted in the last minute; `Moved` is the lemma on one writer
moving on.  Answers: `HasKey` and `ChangesPast` (no change is later than the tables) make
`StaleAnswerIsLate` inductive.  Of `Ingester` and `Caches` the types are proved, their
properties are liveness.  `ServicesAssumption` says that counts are numbers, that the sets counted
are finite, and that no author or event is called None.

Only model-checked: liveness (`DueIsClaimed`, `ClaimedIsSettled`,
`RegisteredIsWoken`, `MissingIsResolved`, `PurgeEnds`, `LegacyBackfillIsDone`,
`HybridWalkEnds`, `OnlyPassEnds`, `LatestStays`, `IngestersStop`,
`CachesCatchUp`), which is beyond this prover.  Every invariant and action property
that a passing run checks is proved, and so are the three refinements.

## 5. Where code and documents disagree

Shown by a run: the three violations above.  Seen while modelling, without a run of
their own; where a property names a disagreement as a cause, it is in brackets:

- `take_batch` orders by `priority_tier DESC` (`src/crawler/queue.rs:177`), so tier
  4 goes first; README.md calls tier 1 the highest and migration 007 builds the
  index in ascending order.
- `sync_cursors_from_events` sets `newest_seen_at` and leaves `crawl_cursor` NULL;
  `crawl_author` then skips the backfill (`src/crawler/worker.rs:216`) until the
  author posts again.
- After a reconciliation `entry.new_events.max(0)` (`src/crawler/orchestrator.rs:570`)
  leaves the number of new notes at 0 whatever was inserted, so an author who
  posts is pushed back as if nothing had been found.
- The two ends of a negentropy window are `since` inclusive and `until` exclusive for
  the local query (`src/crawler/negentropy.rs:94`), while relays take both as inclusive.
- The zap pass marks a batch as crawled and still advances its OFFSET over the
  rows that are left (`src/crawler/negentropy_only.rs:445`), so it does not fetch zaps "for
  all authors" (330), and the process must be started again within seven days for those it
  stepped over to have other places.
- The drain loop awaits each fetch without a timeout (`src/main.rs:553-556`): one that hangs
  ends the draining until a restart.
- What insert_event turns down is answered `Ok(false)`, which the legacy crawler calls a
  duplicate and counts (`src/crawler/worker.rs:411-426`): its cursors pass the notes of an
  author who is not (yet) in the web of trust (`src/db/repository.rs:131-177`), and no REQ asks
  for them again when he is (a cause in `HolesAreAccounted`).  The targeted crawler passes
  them when newer or older notes beside them are stored.
- `total_events` and `ingestion_window` count reactions and reposts, which have no row
  (`src/db/repository.rs:261-264`, `300-303`; `src/relay/ingester.rs:228-230`), while the
  fallback of get_stats counts rows: the figure drops when the key runs out.
- `connect_async` has no timeout in the fetcher (`src/relay/fetcher.rs:311`);
  ONDEMAND_FETCHER.md:38 says every relay operation has one of five seconds.
- A fetch whose client hangs up is dropped where it waits, and its entry stays in the
  map (`src/relay/fetcher.rs:73-94`): later requests for the key wait for nobody, while
  ONDEMAND_FETCHER.md:38 says timeouts keep requests from hanging (`Drop` of `SingleFlight`).
- `ingestion_window` gets a new time to live with every event
  (`src/cache/mod.rs:78`), so it does not "reset every 60s" under steady traffic.
- After its time to live, or in an empty Redis, `total_events` is created again by
  INCR, without a time to live: get_stats (`src/cache/mod.rs:139`) then finds it and
  never falls back to the database, as README.md:71 says it does.
- Deleting a batch of a purge deletes the refs *to* it too; a reply in a later
  batch has only its `root` ref left, and the root's count is decremented
  (`src/block_cache.rs:504`) for a reply it never counted, against the comment at
  467-468 (a cause in `ReplyDrift`).
- `ban_bots` writes the table (`src/bin/ban_bots.rs:301`); the running service asks its
  memory until it restarts, so deleted notes can come back at the next sync, which
  scripts/nspam/DEPLOY.md:329-332 says the tool prevents (a cause in `MemoryIsTable`).
- The targeted crawler counts only new notes as found: a page full of stored ones moves no
  cursor and is asked for again at every crawl (`src/crawler/orchestrator.rs:952`;
  README.md:170 describes a backfill), so `LegacyBackfillIsDone` is stated of the legacy
  crawler only.
- `src/main.rs:318-319` flushes "so stale data is never served": home:zappers and
  home:new_users are not among the prefixes, and a request that computed its answer
  before writes it after (a cause in `StaleAnswerIsLate`).  Answers computed from views
  between a purge and the next refresh of the views show what was purged.
- Blocking a hashtag deletes home:trending_hashtags only; feeds:hashtags:* stay until
  the hourly refresh.
- `src/relay/metadata.rs:270` takes a message for EOSE only if it has three elements, and EOSE
  has two: every fetch waits for its ten seconds.
- After a failed REQ the ingester's loop goes round with `continue`
  (`src/relay/ingester.rs:129`), past the back-off and the look at the shutdown signal.
- The social bootstrap is skipped once follow_lists has 100 rows, however it was
  interrupted.
- Two refreshes of the web of trust at once: the second transaction fails on a
  duplicate key, or an older set is swapped in over a newer one, until the next refresh.
- The recent pass asks for one day and newest_synced_at is never read
  (`src/crawler/negentropy.rs:748`): an outage of more than a day leaves a gap that no later
  cycle asks for (a cause in `WalkIsAccounted`).
- A relay whose NIP-11 document claims NIP-77 without speaking it is walked to
  `fully_backfilled` with every window skipped (a cause in `WalkIsAccounted`).
- The negentropy crawlers and the fetcher store contact lists without updating the
  graph; the cascade has then removed the author's follows (a cause in `GraphAgrees`).
- scripts/nspam/DEPLOY.md says a purge cut off half way is resumable because a
  second run skips blocked accounts: skipping them is what leaves their data.

## 6. Coverage

Modelled in the order of what the system is for: the scheduler relay, the fetcher,
engagement, moderation, the crawlers, contact lists, and the services around them.

Not modelled, and why:

- the HTTP rate limiter: a sliding window under one lock, decided in one step;
- the queries, paging and formats of HTTP, feed and indexer endpoints, NIP-19 and NIP-98:
  they read or convert, and keep no state.  What handlers do to the response cache is
  in `Answers`;
- maintenance tools other than `ban_bots` (in `Moderation`) and `backfill_follows` (a path of
  `Replaceable`): one-shot programs run by hand;
- migrations and clean-up scripts: schema and pure SQL; keys, cascades and defaults
  enter the models as constraints;
- row types and connection set-up;
- HyperLogLogs, per-day keys and live metrics: written by one command or under one lock;
  daily analytics: one statement each.

Left for later, in this order: the rows a purge deletes at its end together with the publisher that
may hold them (`Moderation` with `Scheduler`); the WoT upgrade of tiers in `Crawl`.
`PROJECT.json` gives the state of each component.
