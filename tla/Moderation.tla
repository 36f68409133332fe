------------------------------ MODULE Moderation ------------------------------
(***************************************************************************)
(* Blocking a pubkey and purging its data: src/block_cache.rs (BlockCache, *)
(* purge_worker, purge_pubkey_data_with), the admin handlers that call it  *)
(* (src/api/handlers.rs), the offline ban tool (src/bin/ban_bots.rs), and  *)
(* the ingestion path that consults the block list and then writes         *)
(* (insert_event and insert_refs in src/db/repository.rs).                 *)
(*                                                                         *)
(* The notes of Notes are written by the pubkeys that may be blocked; they *)
(* belong to a thread whose root note, Root, is by nobody who is blocked.  *)
(* Only Root's reply_count is kept.  A purge runs in transactions under    *)
(* READ COMMITTED: StageBatch is its first statement, whose result it uses *)
(* at the end, and CommitBatch is the rest, visible to others at once.     *)
(***************************************************************************)
EXTENDS Integers, Sequences, FiniteSets, FiniteSetsExt

CONSTANTS
  Pubkeys,        \* the pubkeys that administrators block
  Notes,          \* the notes they publish
  Root,           \* the note of somebody else that the thread starts with
  Author,         \* Author[n]: who wrote note n
  ReplyTo,        \* ReplyTo[n]: the note that n answers, Root or another note
  MachineNotes,   \* the notes is_machine_note recognises: never counted
  Writers,        \* ingester, crawlers, fetcher: tasks that call insert_event
  Admins,         \* concurrent admin requests
  BatchSize,      \* BATCH_SIZE of a purge
  MaxDeliveries,  \* bound: how many times a relay delivers a note
  MaxRequests,    \* bound: admin requests, and authors the ban tool bans
  MaxFaults,      \* bound: failed statements, abandoned requests, restarts
  None            \* no pubkey, no note

ASSUME ModerationAssumption ==
  /\ Author \in [Notes -> Pubkeys]
  /\ Root \notin Notes /\ None \notin Notes \union Pubkeys
  /\ ReplyTo \in [Notes -> Notes \union {Root}]
  /\ MachineNotes \subseteq Notes
  /\ IsFiniteSet(Notes) /\ IsFiniteSet(Writers)
  /\ BatchSize \in Nat \ {0}
  /\ {MaxDeliveries, MaxRequests, MaxFaults} \subseteq Nat

VARIABLES
  table,       \* blocked_pubkeys, the table
  memory,      \* BlockCache.blocked_pubkeys of the running service
  events,      \* the stored notes
  refs,        \* event_refs: <<source, target, type>>
  replyCount,  \* reply_count of Root
  writer,      \* writer[w]: what an insert_event call has done, and its note
  request,     \* request[a]: what an admin request has done, and its pubkey
  queue,       \* the channel purge_tx, in order
  status,      \* purge_statuses
  purger,      \* the two processes that purge: the service's worker, the tool
  used,        \* how much of each bound is used up
  escaped,     \* history: notes past the check when their author was last blocked
  held,        \* history: pubkeys in memory ever since their purge was queued
  split,       \* history: pubkeys whose row and memory entry may disagree
  over, short  \* history: how often Root may be counted too high, too low

blockVars   == <<table, memory>>
noteVars    == <<events, refs, replyCount>>
purgeVars   == <<queue, status, purger>>
historyVars == <<escaped, held, split, over, short>>
vars == <<blockVars, noteVars, writer, request, purgeVars, used, historyVars>>

Purgers == {"worker", "tool"}
IdleWriter  == [pc |-> "idle", note |-> None]
IdleRequest == [pc |-> "idle", pubkey |-> None]
IdlePurger  == [pc |-> "idle", pubkey |-> None, batch |-> {}, minus |-> {}]

NotesOf(p) == {n \in Notes : Author[n] = p}

Budget(what, limit) ==
  /\ used[what] < limit
  /\ used' = [used EXCEPT ![what] = @ + 1]

TypeOK ==
  /\ table \subseteq Pubkeys /\ memory \subseteq Pubkeys
  /\ events \subseteq Notes
  /\ refs \subseteq Notes \X (Notes \union {Root}) \X {"reply", "root"}
  /\ replyCount \in Nat
  /\ writer \in [Writers -> [pc: {"idle", "checked", "stored", "referenced"},
                             note: Notes \union {None}]]
  /\ request \in [Admins ->
       [pc: {"idle", "inTable", "inMemory", "outOfTable"},
        pubkey: Pubkeys \union {None}]]
  /\ queue \in Seq(Pubkeys)
  /\ status \in [Pubkeys -> {"none", "queued", "running", "completed", "failed"}]
  /\ purger \in [Purgers ->
       [pc: {"idle", "running", "selected", "staged", "closing"},
        pubkey: Pubkeys \union {None}, batch: SUBSET Notes, minus: SUBSET Notes]]
  /\ escaped \subseteq Notes /\ held \subseteq Pubkeys /\ split \subseteq Pubkeys
  /\ over \in Nat /\ short \in Nat

Init ==
  /\ table = {} /\ memory = {}
  /\ events = {} /\ refs = {} /\ replyCount = 0
  /\ writer = [w \in Writers |-> IdleWriter]
  /\ request = [a \in Admins |-> IdleRequest]
  /\ queue = <<>> /\ status = [p \in Pubkeys |-> "none"]
  /\ purger = [u \in Purgers |-> IdlePurger]
  /\ used = [what \in {"deliveries", "requests", "faults"} |-> 0]
  /\ escaped = {} /\ held = {} /\ split = {}
  /\ over = 0 /\ short = 0

-----------------------------------------------------------------------------
(* Ingestion.                                                              *)

\* The refs insert_refs writes: a note that answers Root carries one e tag;
\* any other names the note it answers and, as "root", where the thread starts.
RefsOf(n) ==
  IF ReplyTo[n] = Root THEN {<<n, Root, "reply">>}
  ELSE {<<n, ReplyTo[n], "reply">>, <<n, Root, "root">>}

\* The note whose reply_count insert_refs increments: the "reply" ref's.
CountsForRoot(n) == n \notin MachineNotes /\ ReplyTo[n] = Root

Writing(pubkey) ==
  {w \in Writers : /\ writer[w].pc # "idle"
                   /\ Author[writer[w].note] = pubkey}

\* insert_event looks the author up in memory, and goes on if it is not there.
CheckBlocked(w, n) ==
  /\ writer[w].pc = "idle"
  /\ Author[n] \notin memory
  /\ Budget("deliveries", MaxDeliveries)
  /\ writer' = [writer EXCEPT ![w] = [pc |-> "checked", note |-> n]]
  /\ UNCHANGED <<blockVars, noteVars, request, purgeVars, historyVars>>

\* INSERT INTO events ... ON CONFLICT DO NOTHING; a duplicate goes no further.
InsertEvent(w) ==
  LET n == writer[w].note IN
  /\ writer[w].pc = "checked"
  /\ events' = events \union {n}
  /\ writer' = [writer EXCEPT ![w] = IF n \in events THEN IdleWriter
                                     ELSE [@ EXCEPT !.pc = "stored"]]
  /\ UNCHANGED <<blockVars, refs, replyCount, request, purgeVars, used, historyVars>>

\* event_refs.source_event_id references events: when a purge has deleted the
\* note meanwhile the INSERT fails and insert_event returns the error.  When
\* the note was stored again since, both calls get here, and both count: nobody
\* looks at what ON CONFLICT DO NOTHING did.
InsertRefs(w) ==
  LET n == writer[w].note IN
  /\ writer[w].pc = "stored"
  /\ \/ /\ n \in events
        /\ refs' = refs \union RefsOf(n)
        /\ writer' = [writer EXCEPT ![w] = IF CountsForRoot(n)
                                           THEN [@ EXCEPT !.pc = "referenced"]
                                           ELSE IdleWriter]
        /\ over' = IF CountsForRoot(n) /\ RefsOf(n) \subseteq refs THEN over + 1 ELSE over
     \/ /\ n \notin events
        /\ writer' = [writer EXCEPT ![w] = IdleWriter]
        /\ UNCHANGED <<refs, over>>
  /\ UNCHANGED <<blockVars, events, replyCount, request, purgeVars, used, escaped,
                 held, split, short>>

\* UPDATE events SET reply_count = reply_count + 1, in a statement of its own.
CountReply(w) ==
  /\ writer[w].pc = "referenced"
  /\ replyCount' = replyCount + 1
  /\ writer' = [writer EXCEPT ![w] = IdleWriter]
  /\ UNCHANGED <<blockVars, events, refs, request, purgeVars, used, historyVars>>

\* The next statement fails, or the request that called insert_event is dropped.  Before
\* the INSERT that leaves nothing.
FailWrite(w) ==
  /\ writer[w].pc \in {"stored", "referenced"}
  /\ Budget("faults", MaxFaults)
  /\ writer' = [writer EXCEPT ![w] = IdleWriter]
  /\ short' = IF writer[w].pc = "referenced" THEN short + 1 ELSE short
  /\ UNCHANGED <<blockVars, noteVars, request, purgeVars, escaped, held, split, over>>

-----------------------------------------------------------------------------
(* The admin requests.                                                     *)

Requesting(p) == {a \in Admins : request[a].pubkey = p}

\* A request for p starts.  Two at a time can leave the table and the memory
\* in different states: remembered in split.
Open(a, p, pc) ==
  /\ request[a].pc = "idle"
  /\ Budget("requests", MaxRequests)
  /\ request' = [request EXCEPT ![a] = [pc |-> pc, pubkey |-> p]]
  /\ split' = IF Requesting(p) = {} THEN split ELSE split \union {p}

\* block_pubkey: the row first, with ON CONFLICT DO UPDATE ...
BlockInTable(a, p) ==
  /\ Open(a, p, "inTable")
  /\ table' = table \union {p}
  /\ UNCHANGED <<memory, noteVars, writer, purgeVars, escaped, held, over, short>>

\* Bug: only the table learns of the block.
BlockInMemoryNot(a) ==
  LET p == request[a].pubkey IN
  /\ request[a].pc = "inTable"
  /\ request' = [request EXCEPT ![a].pc = "inMemory"]
  /\ escaped' = escaped \union {writer[w].note : w \in Writing(p)}
  /\ UNCHANGED <<blockVars, noteVars, writer, purgeVars, used, held, split, over, short>>

\* ... then the set in memory.
BlockInMemory(a) ==
  LET p == request[a].pubkey IN
  /\ request[a].pc = "inTable"
  /\ memory' = memory \union {p}
  /\ request' = [request EXCEPT ![a].pc = "inMemory"]
  /\ escaped' = escaped \union {writer[w].note : w \in Writing(p)}
  /\ UNCHANGED <<table, noteVars, writer, purgeVars, used, held, split, over, short>>

\* queue_purge: a fresh status over any older one, and the job in the channel.
QueuePurge(a) ==
  LET p == request[a].pubkey IN
  /\ request[a].pc = "inMemory"
  /\ status' = [status EXCEPT ![p] = "queued"]
  /\ queue' = Append(queue, p)
  /\ held' = IF p \in memory THEN held \union {p} ELSE held
  /\ request' = [request EXCEPT ![a] = IdleRequest]
  /\ UNCHANGED <<blockVars, noteVars, writer, purger, used, escaped, split, over, short>>

\* unblock_pubkey: the row, then the memory; a purge already queued stays so.
UnblockInTable(a, p) ==
  /\ Open(a, p, "outOfTable")
  /\ table' = table \ {p}
  /\ UNCHANGED <<memory, noteVars, writer, purgeVars, escaped, held, over, short>>

UnblockInMemory(a) ==
  LET p == request[a].pubkey IN
  /\ request[a].pc = "outOfTable"
  /\ memory' = memory \ {p}
  /\ held' = held \ {p} /\ escaped' = escaped \ NotesOf(p)
  /\ request' = [request EXCEPT ![a] = IdleRequest]
  /\ UNCHANGED <<table, noteVars, writer, purgeVars, used, split, over, short>>

\* The client goes away and its handler is dropped where it was waiting.
AbandonRequest(a) ==
  /\ request[a].pc # "idle"
  /\ Budget("faults", MaxFaults)
  /\ split' = split \union {request[a].pubkey}
  /\ request' = [request EXCEPT ![a] = IdleRequest]
  /\ UNCHANGED <<blockVars, noteVars, writer, purgeVars, escaped, held, over, short>>

-----------------------------------------------------------------------------
(* Purging: purge_pubkey_data_with, in the service's worker or in the tool. *)

\* The worker takes the next job.
StartPurge ==
  /\ purger["worker"].pc = "idle"
  /\ queue # <<>>
  /\ queue' = Tail(queue)
  /\ purger' = [purger EXCEPT !["worker"] = [IdlePurger EXCEPT !.pc = "running",
                                                               !.pubkey = Head(queue)]]
  /\ status' = [status EXCEPT ![Head(queue)] = "running"]
  /\ UNCHANGED <<blockVars, noteVars, writer, request, used, historyVars>>

\* ban_bots writes the row, with ON CONFLICT DO UPDATE, and purges; the service's
\* memory does not hear of a row that is new.
BanAuthor(p) ==
  /\ purger["tool"].pc = "idle"
  /\ Budget("requests", MaxRequests)
  /\ table' = table \union {p}
  /\ purger' = [purger EXCEPT !["tool"] = [IdlePurger EXCEPT !.pc = "running",
                                                             !.pubkey = p]]
  /\ split' = split \union ({p} \ table)
  /\ UNCHANGED <<memory, noteVars, writer, request, queue, status, escaped, held,
                 over, short>>

\* Bug: finding no note left does not end the loop.
SelectBatchFull(u) ==
  LET mine == NotesOf(purger[u].pubkey) \cap events IN
  /\ purger[u].pc = "running"
  /\ \E batch \in SUBSET mine :
       /\ batch # {}
       /\ Cardinality(batch) = Min({BatchSize, Cardinality(mine)})
       /\ purger' = [purger EXCEPT ![u].pc = "selected", ![u].batch = batch]
  /\ UNCHANGED <<blockVars, noteVars, writer, request, queue, status, used, historyVars>>

\* SELECT id FROM events WHERE pubkey = $1 LIMIT $2: any BatchSize of them.
SelectBatch(u) ==
  LET mine == NotesOf(purger[u].pubkey) \cap events IN
  /\ purger[u].pc = "running"
  /\ \/ /\ mine = {}
        /\ purger' = [purger EXCEPT ![u].pc = "closing"]
     \/ /\ mine # {}
        /\ \E batch \in SUBSET mine :
             /\ Cardinality(batch) = Min({BatchSize, Cardinality(mine)})
             /\ purger' = [purger EXCEPT ![u].pc = "selected", ![u].batch = batch]
  /\ UNCHANGED <<blockVars, noteVars, writer, request, queue, status, used, historyVars>>

\* The ref DISTINCT ON keeps of a note: its "reply" ref if there is one.
Chosen(n) ==
  LET of(type) == {r \in refs : r[1] = n /\ r[3] = type}
  IN  IF of("reply") # {} THEN of("reply") ELSE of("root")

\* The notes of a batch whose removal is to be taken off Root's reply_count.
Decrements(batch) ==
  {n \in (batch \cap events) \ MachineNotes : \E r \in Chosen(n) : r[2] = Root}

\* reply_decrements is filled inside the transaction.  Two things make it
\* wrong by a note: the note's own parent went in an earlier batch, and its
\* "root" ref is taken instead; or the other purger has staged it as well.
StageBatch(u) ==
  LET batch == purger[u].batch
      minus == Decrements(batch)
      other == UNION {purger[v].minus : v \in Purgers \ {u}}
  IN
  /\ purger[u].pc = "selected"
  /\ purger' = [purger EXCEPT ![u].pc = "staged", ![u].minus = minus]
  /\ short' = short + Cardinality({n \in minus : ~CountsForRoot(n) \/ n \in other})
  /\ UNCHANGED <<blockVars, noteVars, writer, request, queue, status, used,
                 escaped, held, split, over>>

\* Notes of the batch whose ref was written after the staging, and those whose
\* reply is still to be counted: Root keeps one too many for each.
Overlapped(u) ==
  LET unseen == {n \in purger[u].batch \ purger[u].minus :
                   CountsForRoot(n) /\ <<n, Root, "reply">> \in refs}
      late   == {w \in Writers : /\ writer[w].pc = "referenced"
                                 /\ writer[w].note \in purger[u].batch}
  IN  Cardinality(unseen) + Cardinality(late)

\* Bug: one batch is thought to be all.
CommitBatchThenClose(u) ==
  LET batch == purger[u].batch IN
  /\ purger[u].pc = "staged"
  /\ refs' = {r \in refs : r[1] \notin batch /\ r[2] \notin batch}
  /\ events' = events \ batch
  /\ replyCount' = Max({0, replyCount - Cardinality(purger[u].minus)})
  /\ over' = over + Overlapped(u)
  /\ purger' = [purger EXCEPT ![u].pc = "closing", ![u].batch = {}, ![u].minus = {}]
  /\ UNCHANGED <<blockVars, writer, request, queue, status, used, escaped, held,
                 split, short>>

\* Bug: no GREATEST(0, ...).
CommitBatchUnguarded(u) ==
  LET batch == purger[u].batch IN
  /\ purger[u].pc = "staged"
  /\ refs' = {r \in refs : r[1] \notin batch /\ r[2] \notin batch}
  /\ events' = events \ batch
  /\ replyCount' = replyCount - Cardinality(purger[u].minus)
  /\ over' = over + Overlapped(u)
  /\ purger' = [purger EXCEPT ![u].pc = "running", ![u].batch = {}, ![u].minus = {}]
  /\ UNCHANGED <<blockVars, writer, request, queue, status, used, escaped, held,
                 split, short>>

\* Bug: every note of the batch is taken off the count.
CommitBatchWhole(u) ==
  LET batch == purger[u].batch IN
  /\ purger[u].pc = "staged"
  /\ refs' = {r \in refs : r[1] \notin batch /\ r[2] \notin batch}
  /\ events' = events \ batch
  /\ replyCount' = Max({0, replyCount - Cardinality(batch)})
  /\ over' = over + Overlapped(u)
  /\ purger' = [purger EXCEPT ![u].pc = "running", ![u].batch = {}, ![u].minus = {}]
  /\ UNCHANGED <<blockVars, writer, request, queue, status, used, escaped, held,
                 split, short>>

\* The rest of the transaction: refs from and to the batch, the notes, and
\* GREATEST(0, reply_count - n).
CommitBatch(u) ==
  LET batch == purger[u].batch IN
  /\ purger[u].pc = "staged"
  /\ refs' = {r \in refs : r[1] \notin batch /\ r[2] \notin batch}
  /\ events' = events \ batch
  /\ replyCount' = Max({0, replyCount - Cardinality(purger[u].minus)})
  /\ over' = over + Overlapped(u)
  /\ purger' = [purger EXCEPT ![u].pc = "running", ![u].batch = {}, ![u].minus = {}]
  /\ UNCHANGED <<blockVars, writer, request, queue, status, used, escaped, held,
                 split, short>>

\* What the worker writes down when a job ends; the tool keeps no status.
Report(u, result) ==
  status' = IF u = "worker" THEN [status EXCEPT ![purger[u].pubkey] = result]
            ELSE status

\* No note is left: the social graph, crawl and schedule rows go, then the
\* caches, and the job is done.
FinishPurge(u) ==
  /\ purger[u].pc = "closing"
  /\ Report(u, "completed")
  /\ purger' = [purger EXCEPT ![u] = IdlePurger]
  /\ UNCHANGED <<blockVars, noteVars, writer, request, queue, used, historyVars>>

\* A statement fails, the transaction rolls back, and the job is given up.
FailPurge(u) ==
  /\ purger[u].pc # "idle"
  /\ Budget("faults", MaxFaults)
  /\ Report(u, "failed")
  /\ purger' = [purger EXCEPT ![u] = IdlePurger]
  /\ UNCHANGED <<blockVars, noteVars, writer, request, queue, historyVars>>

\* The service dies and comes back: whatever it was doing is lost, queued
\* purges and statuses too, and the block list is read again -- or is empty,
\* when reading it fails and start-up carries on.
Restart ==
  /\ Budget("faults", MaxFaults)
  /\ \/ memory' = table /\ split' = {}
     \/ memory' = {} /\ split' = table
  /\ writer' = [w \in Writers |-> IdleWriter]
  /\ request' = [a \in Admins |-> IdleRequest]
  /\ queue' = <<>> /\ status' = [p \in Pubkeys |-> "none"]
  /\ purger' = [purger EXCEPT !["worker"] = IdlePurger]
  /\ held' = {} /\ escaped' = {}
  /\ short' = short + Cardinality({w \in Writers : writer[w].pc = "referenced"})
  /\ UNCHANGED <<table, noteVars, over>>

-----------------------------------------------------------------------------
Write(w) == InsertEvent(w) \/ InsertRefs(w) \/ CountReply(w)

Serve(a) == BlockInMemory(a) \/ QueuePurge(a) \/ UnblockInMemory(a)

Purge(u) == SelectBatch(u) \/ StageBatch(u) \/ CommitBatch(u) \/ FinishPurge(u)

Next ==
  \/ \E w \in Writers : Write(w) \/ FailWrite(w) \/ \E n \in Notes : CheckBlocked(w, n)
  \/ \E a \in Admins : \/ Serve(a) \/ AbandonRequest(a)
                       \/ \E p \in Pubkeys : BlockInTable(a, p) \/ UnblockInTable(a, p)
  \/ \E u \in Purgers : Purge(u) \/ FailPurge(u)
  \/ \E p \in Pubkeys : BanAuthor(p)
  \/ StartPurge
  \/ Restart

Spec == Init /\ [][Next]_vars

\* The worker's task goes on whenever it can.  No more is assumed: requests and
\* insertions may stop anywhere.
FairSpec == Spec /\ WF_vars(StartPurge \/ Purge("worker"))

-----------------------------------------------------------------------------
(* Properties *)

InFlight(p) == Requesting(p) # {}

Purging(p) == \/ \E i \in DOMAIN queue : queue[i] = p
              \/ purger["worker"].pubkey = p

\* A purge that is over has left nothing and nothing comes back, as long as
\* the pubkey stays blocked: what is stored of it was past the check at the
\* moment of the block (repository.rs:127 looks, :195 inserts later).
PurgedStaysPurged ==
  \A p \in held :
    status[p] = "completed" /\ ~Purging(p) => NotesOf(p) \cap events \subseteq escaped

\* block_cache.rs:39: "Mutations update both the in-memory set and the
\* database."  So they agree between requests, unless two requests for one
\* pubkey overlapped, one was dropped half way, the ban tool wrote the row, or
\* start-up could not read the table.
MemoryIsTable ==
  \A p \in Pubkeys \ split : ~InFlight(p) => (p \in memory <=> p \in table)

\* The replies stored, and those an insert_event call is yet to count.
Stored  == Cardinality({n \in Notes : CountsForRoot(n) /\ <<n, Root, "reply">> \in refs})
Pending == Cardinality({w \in Writers : writer[w].pc = "referenced"})

\* A purge takes off Root's reply_count what it removes.  The count drifts
\* only by what short and over account for: it is too low by a wrong parent, by
\* a note two purges staged at once and by a writer that ended before counting,
\* too high by notes written while their purge's transaction ran, or written
\* again while an earlier call for them was not finished.
ReplyDrift ==
  /\ Stored - short <= replyCount + Pending
  /\ replyCount + Pending <= Stored + over

\* A purge that is queued ends, completed or failed, or a restart forgets it.
PurgeEnds ==
  \A p \in Pubkeys : (status[p] = "queued") ~> (status[p] \in {"completed", "failed", "none"})

=============================================================================
