------------------------------ MODULE Engagement ------------------------------
(***************************************************************************)
(* Engagement counters (src/db/repository.rs): the reactions, reposts,     *)
(* zaps and replies of a note are columns of the note's own row.           *)
(* Reactions and reposts are counted and not stored, deduplicated by the   *)
(* table seen_events; zaps are stored, with a row of zap_metadata; a       *)
(* target that is not in the database is queued in missing_events, which   *)
(* a background task drains (src/main.rs).                                 *)
(*                                                                         *)
(* Ingester connections, crawl workers and on-demand fetches all call      *)
(* insert_event, each for one event at a time and with no transaction      *)
(* around its statements: a step of this module is one statement.          *)
(***************************************************************************)
EXTENDS Integers, FiniteSets

CONSTANTS
    Workers,       \* tasks that call insert_event
    Notes,         \* kind-1 notes
    Admitted,      \* the notes insert_event does not refuse (author, proxy tag, block list)
    Taps,          \* reactions and reposts
    Zaps,          \* kind-9735 receipts
    Kind,          \* Kind[t]: "reaction" or "repost"
    Target,        \* Target[x]: the note a tap or zap is about
    Parent,        \* Parent[n]: the note that n replies to, or None
    MaxAttempts,   \* attempt_count < 5
    BatchLimit,    \* LIMIT of take_missing_events
    MaxDeliveries, \* bound: how many events reach a worker
    MaxFaults,     \* bound: failed statements and deaths of a task
    None

Kinds == {"reaction", "repost"}

ASSUME EngagementAssumption ==
    /\ Admitted \subseteq Notes
    /\ Kind \in [Taps -> Kinds]
    /\ Target \in [Taps \cup Zaps -> Notes]
    /\ Parent \in [Notes -> Notes \cup {None}]
    /\ None \notin Notes \cup Taps \cup Zaps
    /\ \A S \in {Workers, Notes, Taps, Zaps} : IsFiniteSet(S)
    /\ MaxAttempts \in Nat \ {0} /\ BatchLimit \in Nat \ {0}
    /\ MaxDeliveries \in Nat /\ MaxFaults \in Nat

VARIABLES
    stored,    \* notes with a row in events
    taps,      \* taps[n][k]: columns reaction_count and repost_count of n
    zaps,      \* zaps[n]: column zap_count (zap_amount_msats moves with it)
    replies,   \* replies[n]: column reply_count
    zapRows,   \* zaps with a row in events
    zapMeta,   \* zaps with a row in zap_metadata
    seen,      \* taps with a row in seen_events
    missing,   \* missing[n]: row of missing_events; priority 0: no row
    pc,        \* pc[w]: the statement worker w executes next
    job,       \* job[w]: the event it works on
    batch,     \* rows the drain loop took and has not begun
    drain,     \* where the drain loop is
    at,        \* the note it works on
    counted,   \* history: how often tap t was added to a counter
    done,      \* history: taps whose insert_event returned Ok
    deliveries, faults

noteVars  == <<stored, taps, zaps, replies>>
rowVars   == <<zapRows, zapMeta, seen, missing>>
workVars  == <<pc, job>>
drainVars == <<batch, drain, at>>
vars == <<noteVars, rowVars, workVars, drainVars, counted, done, deliveries, faults>>

Row   == [priority : 0 .. 2, attempts : 0 .. MaxAttempts, fetched : BOOLEAN]
NoRow == [priority |-> 0, attempts |-> 0, fetched |-> FALSE]

Steps == {"idle", "store", "refs", "check", "count", "mark", "meta", "link", "queue"}

TypeOK ==
    /\ stored \subseteq Notes
    /\ taps \in [Notes -> [Kinds -> Nat]]
    /\ zaps \in [Notes -> Nat]
    /\ replies \in [Notes -> Nat]
    /\ zapRows \subseteq Zaps
    /\ zapMeta \subseteq Zaps
    /\ seen \subseteq Taps
    /\ missing \in [Notes -> Row]
    /\ pc \in [Workers -> Steps]
    /\ job \in [Workers -> Notes \cup Taps \cup Zaps \cup {None}]
    /\ batch \subseteq Notes
    /\ drain \in {"idle", "fetch", "hung", "refs", "reapply", "fetched", "attempted"}
    /\ at \in Notes \cup {None}
    /\ counted \in [Taps -> Nat]
    /\ done \subseteq Taps
    /\ deliveries \in 0 .. MaxDeliveries
    /\ faults \in 0 .. MaxFaults

Init ==
    /\ stored = {}
    /\ taps = [n \in Notes |-> [k \in Kinds |-> 0]]
    /\ zaps = [n \in Notes |-> 0]
    /\ replies = [n \in Notes |-> 0]
    /\ zapRows = {} /\ zapMeta = {} /\ seen = {}
    /\ missing = [n \in Notes |-> NoRow]
    /\ pc = [w \in Workers |-> "idle"]
    /\ job = [w \in Workers |-> None]
    /\ batch = {} /\ drain = "idle" /\ at = None
    /\ counted = [t \in Taps |-> 0]
    /\ done = {}
    /\ deliveries = 0 /\ faults = 0

Fault == faults < MaxFaults /\ faults' = faults + 1

\* insert_event of w goes on to the statement s, or returns Ok.
Continue(w, s) == /\ pc' = [pc EXCEPT ![w] = s]
                  /\ UNCHANGED <<job, done>>
Return(w) == /\ pc' = [pc EXCEPT ![w] = "idle"]
             /\ job' = [job EXCEPT ![w] = None]
             /\ done' = done \cup ({job[w]} \cap Taps)

-----------------------------------------------------------------------------
(* insert_event *)

\* A relay, a crawl or an on-demand fetch delivers x: for the first time or again.
\* What is refused before the first statement is not worth a step.
Deliver(w, x) ==
    /\ pc[w] = "idle" /\ deliveries < MaxDeliveries
    /\ deliveries' = deliveries + 1
    /\ job' = [job EXCEPT ![w] = x]
    /\ pc' = [pc EXCEPT ![w] = IF x \in Taps THEN "check" ELSE "store"]
    /\ UNCHANGED <<noteVars, rowVars, drainVars, counted, done, faults>>

\* Bug: insert_refs runs although the row was there already.
StoreNoteAgain(w) ==
    /\ pc[w] = "store" /\ job[w] \in Notes
    /\ stored' = stored \cup {job[w]}
    /\ IF Parent[job[w]] # None THEN Continue(w, "refs") ELSE Return(w)
    /\ UNCHANGED <<taps, zaps, replies, rowVars, drainVars, counted, deliveries, faults>>

\* INSERT INTO events ... ON CONFLICT DO NOTHING; only a new note has its refs counted.
StoreNote(w) ==
    /\ pc[w] = "store" /\ job[w] \in Notes
    /\ stored' = stored \cup {job[w]}
    /\ IF job[w] \notin stored /\ Parent[job[w]] # None
       THEN Continue(w, "refs") ELSE Return(w)
    /\ UNCHANGED <<taps, zaps, replies, rowVars, drainVars, counted, deliveries, faults>>

\* reply_count of the parent, when the parent is there.  A parent that comes
\* later is not told: missing_events is not involved.
AddReply(n) ==
    replies' = IF Parent[n] \in stored
               THEN [replies EXCEPT ![Parent[n]] = @ + 1] ELSE replies

InsertRefs(w) ==
    /\ pc[w] = "refs"
    /\ AddReply(job[w])
    /\ Return(w)
    /\ UNCHANGED <<stored, taps, zaps, rowVars, drainVars, counted, deliveries, faults>>

\* Bug: no look at seen_events.
CheckSeenNever(w) ==
    /\ pc[w] = "check"
    /\ Continue(w, "count")
    /\ UNCHANGED <<noteVars, rowVars, drainVars, counted, deliveries, faults>>

CheckSeen(w) ==
    /\ pc[w] = "check"
    /\ IF job[w] \in seen THEN Return(w) ELSE Continue(w, "count")
    /\ UNCHANGED <<noteVars, rowVars, drainVars, counted, deliveries, faults>>

\* Bug: a tap is marked seen whether or not its target was there.
CountTapAlwaysSeen(w) ==
    LET t == job[w] n == Target[t] IN
    /\ pc[w] = "count"
    /\ \/ /\ n \in stored
          /\ taps' = [taps EXCEPT ![n][Kind[t]] = @ + 1]
          /\ counted' = [counted EXCEPT ![t] = @ + 1]
       \/ n \notin stored /\ UNCHANGED <<taps, counted>>
    /\ Continue(w, "mark")
    /\ UNCHANGED <<stored, zaps, replies, rowVars, drainVars, deliveries, faults>>

\* UPDATE events SET ..._count = ..._count + 1 WHERE id = target.
CountTap(w) ==
    LET t == job[w] n == Target[t] IN
    /\ pc[w] = "count"
    /\ \/ /\ n \in stored
          /\ taps' = [taps EXCEPT ![n][Kind[t]] = @ + 1]
          /\ counted' = [counted EXCEPT ![t] = @ + 1]
          /\ Continue(w, "mark")
       \/ /\ n \notin stored
          /\ Continue(w, "queue")
          /\ UNCHANGED <<taps, counted>>
    /\ UNCHANGED <<stored, zaps, replies, rowVars, drainVars, deliveries, faults>>

MarkSeen(w) ==
    /\ pc[w] = "mark"
    /\ seen' = seen \cup {job[w]}
    /\ Return(w)
    /\ UNCHANGED <<noteVars, zapRows, zapMeta, missing, drainVars, counted, deliveries, faults>>

\* A zap receipt is stored like a note; only a new one has its metadata and counter done.
StoreZap(w) ==
    /\ pc[w] = "store" /\ job[w] \in Zaps
    /\ zapRows' = zapRows \cup {job[w]}
    /\ IF job[w] \in zapRows THEN Return(w) ELSE Continue(w, "meta")
    /\ UNCHANGED <<noteVars, zapMeta, seen, missing, drainVars, counted, deliveries, faults>>

ExtractZapMetadata(w) ==
    /\ pc[w] = "meta"
    /\ zapMeta' = zapMeta \cup {job[w]}
    /\ Continue(w, "link")
    /\ UNCHANGED <<noteVars, zapRows, seen, missing, drainVars, counted, deliveries, faults>>

\* Bug: a zap whose target is missing is not queued.
IncrementZapUnqueued(w) ==
    LET n == Target[job[w]] IN
    /\ pc[w] = "link"
    /\ zaps' = IF n \in stored THEN [zaps EXCEPT ![n] = @ + 1] ELSE zaps
    /\ Return(w)
    /\ UNCHANGED <<stored, taps, replies, rowVars, drainVars, counted, deliveries, faults>>

IncrementZap(w) ==
    LET n == Target[job[w]] IN
    /\ pc[w] = "link"
    /\ \/ /\ n \in stored
          /\ zaps' = [zaps EXCEPT ![n] = @ + 1]
          /\ Return(w)
       \/ /\ n \notin stored
          /\ Continue(w, "queue")
          /\ UNCHANGED zaps
    /\ UNCHANGED <<stored, taps, replies, rowVars, drainVars, counted, deliveries, faults>>

Priority(x) == IF x \in Zaps THEN 2 ELSE 1

\* queue_missing_event: an upsert that only raises the priority of a row not yet
\* fetched; its failure is ignored (`let _`).
QueueMissing(w) ==
    LET n == Target[job[w]] p == Priority(job[w]) IN
    /\ pc[w] = "queue"
    /\ \/ /\ missing' = [missing EXCEPT ![n].priority =
                            IF missing[n].fetched \/ @ >= p THEN @ ELSE p]
          /\ UNCHANGED faults
       \/ Fault /\ UNCHANGED missing
    /\ Return(w)
    /\ UNCHANGED <<noteVars, zapRows, zapMeta, seen, drainVars, counted, deliveries>>

\* The next statement fails and insert_event returns the error, or the process
\* dies: what was done stays.
Abandon(w) ==
    /\ pc[w] \notin {"idle", "queue"} /\ Fault
    /\ pc' = [pc EXCEPT ![w] = "idle"]
    /\ job' = [job EXCEPT ![w] = None]
    /\ UNCHANGED <<noteVars, rowVars, drainVars, counted, done, deliveries>>

-----------------------------------------------------------------------------
(* The drain loop of main.rs *)

\* Bug: attempt_count <= MaxAttempts.
OpenOnceMore == {n \in Notes : /\ missing[n].priority > 0
                               /\ ~missing[n].fetched
                               /\ missing[n].attempts <= MaxAttempts}

Open == {n \in Notes : /\ missing[n].priority > 0
                       /\ ~missing[n].fetched
                       /\ missing[n].attempts < MaxAttempts}

\* ORDER BY priority DESC LIMIT BatchLimit
TakeMissing(S) ==
    /\ drain = "idle" /\ batch = {}
    /\ S # {} /\ S \subseteq Open
    /\ Cardinality(S) <= BatchLimit
    /\ S = Open \/ Cardinality(S) = BatchLimit
    /\ \A n \in S, m \in Open \ S : missing[n].priority >= missing[m].priority
    /\ batch' = S
    /\ UNCHANGED <<noteVars, rowVars, workVars, drain, at, counted,
                   done, deliveries, faults>>

BeginMissing(n) ==
    /\ drain = "idle" /\ n \in batch
    /\ batch' = batch \ {n}
    /\ at' = n
    /\ drain' = "fetch"
    /\ UNCHANGED <<noteVars, rowVars, workVars, counted, done,
                   deliveries, faults>>

\* fetch_event_by_id, which does not look into the database first.  A relay
\* returns the note, insert_event stores it unless it refuses it, and the row is
\* read back; or no relay has it, even if it is stored, or none was asked because
\* a cached miss, which outlives two rounds of the drain loop, answered.  The loop
\* awaits it without a timeout, and it may never end: a connect that is not timed, a
\* wake-up that is missed, an entry without a leader (see Fetcher).
FetchMissing ==
    /\ drain = "fetch"
    /\ \/ /\ at \in Admitted
          /\ stored' = stored \cup {at}
          /\ drain' = IF at \notin stored /\ Parent[at] # None THEN "refs" ELSE "reapply"
       \/ /\ drain' \in {"attempted", "hung"}
          /\ UNCHANGED stored
    /\ UNCHANGED <<taps, zaps, replies, rowVars, workVars, batch, at, counted, done,
                   deliveries, faults>>

\* A failure in insert_refs is logged; the note is there.
DrainRefs ==
    /\ drain = "refs"
    /\ \/ AddReply(at) /\ UNCHANGED faults
       \/ Fault /\ UNCHANGED replies
    /\ drain' = "reapply"
    /\ UNCHANGED <<stored, taps, zaps, rowVars, workVars, batch, at, counted,
                   done, deliveries>>

SeenFor(n, k) == {t \in seen : Target[t] = n /\ Kind[t] = k}
MetaFor(n)    == {z \in zapMeta : Target[z] = n}

\* One UPDATE that sets the counters to what seen_events and zap_metadata hold;
\* when it fails the row is still marked fetched.
ReapplyCounters ==
    /\ drain = "reapply"
    /\ \/ /\ taps' = [taps EXCEPT ![at] = [k \in Kinds |-> Cardinality(SeenFor(at, k))]]
          /\ zaps' = [zaps EXCEPT ![at] = Cardinality(MetaFor(at))]
          /\ UNCHANGED faults
       \/ Fault /\ UNCHANGED <<taps, zaps>>
    /\ drain' = "fetched"
    /\ UNCHANGED <<stored, replies, rowVars, workVars, batch, at, counted, done,
                   deliveries>>

\* Bug: a failed fetch is not recorded.
MarkMissingFetchedOnly ==
    /\ drain \in {"fetched", "attempted"}
    /\ missing' = IF drain = "fetched" THEN [missing EXCEPT ![at].fetched = TRUE] ELSE missing
    /\ drain' = "idle" /\ at' = None
    /\ UNCHANGED <<noteVars, zapRows, zapMeta, seen, workVars, batch, counted,
                   done, deliveries, faults>>

\* The row is closed or its attempts go up; a failure is only logged.
MarkMissing ==
    /\ drain \in {"fetched", "attempted"}
    /\ \/ /\ missing' = IF drain = "fetched"
                        THEN [missing EXCEPT ![at].fetched = TRUE]
                        ELSE [missing EXCEPT ![at].attempts = @ + 1]
          /\ UNCHANGED faults
       \/ Fault /\ UNCHANGED missing
    /\ drain' = "idle" /\ at' = None
    /\ UNCHANGED <<noteVars, zapRows, zapMeta, seen, workVars, batch, counted,
                   done, deliveries>>

\* The process dies: the batch is gone, the rows stay.
CrashDrain ==
    /\ drain # "idle" \/ batch # {}
    /\ Fault
    /\ batch' = {} /\ drain' = "idle" /\ at' = None
    /\ UNCHANGED <<noteVars, rowVars, workVars, counted, done, deliveries>>

-----------------------------------------------------------------------------
Handle(w) == \/ StoreNote(w) \/ InsertRefs(w)
             \/ CheckSeen(w) \/ CountTap(w) \/ MarkSeen(w)
             \/ StoreZap(w) \/ ExtractZapMetadata(w) \/ IncrementZap(w)
             \/ QueueMissing(w)

Drain == \/ \E S \in SUBSET Notes : TakeMissing(S)
         \/ \E n \in Notes : BeginMissing(n)
         \/ FetchMissing \/ DrainRefs \/ ReapplyCounters \/ MarkMissing

Next == \/ \E w \in Workers : \/ \E x \in Admitted \cup Taps \cup Zaps : Deliver(w, x)
                              \/ Handle(w) \/ Abandon(w)
        \/ Drain \/ CrashDrain

Spec == Init /\ [][Next]_vars

\* Every statement of the drain loop ends, and its timer never stops; a fetch that hangs
\* is left by the death of the process only, which nothing promises.  Of those who call
\* insert_event nothing is assumed.
FairSpec == Spec /\ WF_vars(Drain)
-----------------------------------------------------------------------------
(* Properties *)

\* A tap is counted more than once only when workers handle it at the same time
\* or a fault keeps it from being marked, and then once for each: check_seen and
\* mark_seen stop every later delivery (repository.rs:252, 283).
TapCountedBounded == \A t \in Taps : counted[t] <= Cardinality(Workers) + faults

\* What seen_events holds back from being counted again was counted, and stays
\* counted unless the drain loop rewrites the counters (repository.rs:266, 305).
NoTapLost ==
    \A n \in Notes, k \in Kinds :
        missing[n].priority = 0 => taps[n][k] >= Cardinality(SeenFor(n, k))

\* A reply is counted at most once, whoever delivers it, however often and
\* whatever fails: only the INSERT that made its row goes on to insert_refs.
ReplyCountedOnce ==
    \A n \in Notes : replies[n] <= Cardinality({m \in stored : Parent[m] = n})

Zapping(n) == \E w \in Workers : job[w] \in Zaps /\ Target[job[w]] = n

\* Without faults no zap is lost, in whatever order the zap, its target and the
\* drain loop come: the counter is complete when no zap of the note is being
\* handled and its row of missing_events, if there is one, is closed.
NoZapLost ==
    \A n \in stored :
        (faults = 0 /\ ~Zapping(n) /\ (missing[n].priority = 0 \/ missing[n].fetched))
            => zaps[n] >= Cardinality(MetaFor(n))

\* A note that is waited for is fetched or given up, unless a fetch hangs and with it the
\* whole queue: rows of a higher priority that no relay has, and rows that a failed
\* statement leaves as they were, do not block the others (take_missing_events).
MissingIsResolved ==
    \A n \in Notes :
        (missing[n].priority > 0)
            ~> \/ missing[n].fetched \/ missing[n].attempts = MaxAttempts
               \/ drain = "hung"

Quiet(n) == /\ \A w \in Workers : job[w] \in Taps \cup Zaps => Target[job[w]] # n
            /\ at # n

\* main.rs:523-525: the task fetches the missing notes "and then reapplies
\* engagement counters so linkage is correct".
FetchedIsLinked ==
    \A n \in stored, k \in Kinds :
        (faults = 0 /\ Quiet(n) /\ missing[n].fetched)
            => taps[n][k] >= Cardinality({t \in done : Target[t] = n /\ Kind[t] = k})
=============================================================================
