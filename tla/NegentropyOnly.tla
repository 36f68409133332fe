---------------------------- MODULE NegentropyOnly ----------------------------
(***************************************************************************)
(* The crawler of CRAWL_MODE=negentropy_only                               *)
(* (src/crawler/negentropy_only.rs): it probes its pinned relays, visits   *)
(* the authors whose notes were not crawled for seven days one by one,     *)
(* then takes those whose zaps were not crawled for seven days in batches, *)
(* and returns.  Only a restart of the process starts it again.            *)
(*                                                                         *)
(* What it stores goes through insert_event (Engagement, Moderation); here *)
(* are the two marks in crawl_state that say whom it need not visit.       *)
(***************************************************************************)
EXTENDS Integers, FiniteSets

CONSTANTS
    Authors,    \* numbers, in the order of priority_tier and follower_count
    NoteTiers,  \* those of tier 1 to 3
    Pinned,     \* pinned relays that speak negentropy
    BatchSize,
    MaxAges,    \* bound: how often the seven days of a mark pass
    MaxFaults,  \* bound: conversations and statements that fail, deaths
    Nobody

VARIABLES
    phase,
    confirmed, \* confirmed_relays
    notesDue,  \* authors with last_crawled_at null or old
    zapsDue,   \* authors with zaps_crawled_at null or old
    author,    \* the author of the note pass, or Nobody
    left,      \* confirmed relays it has still to sync that author with
    batch,     \* the authors of the zap pass
    offset,
    begun,     \* history: zapsDue when the zap pass began
    clean,     \* history: since the zap pass began no statement failed and nobody came due
    ages, faults

rows  == <<notesDue, zapsDue>>
visit == <<confirmed, author, left, batch, offset, begun, clean>>
vars  == <<phase, rows, visit, ages, faults>>

TypeOK ==
    /\ phase \in {"off", "notes", "zaps", "over"}
    /\ confirmed \subseteq Pinned /\ left \subseteq confirmed
    /\ notesDue \subseteq Authors /\ zapsDue \subseteq Authors
    /\ author \in NoteTiers \cup {Nobody}
    /\ batch \subseteq Authors /\ begun \subseteq Authors
    /\ offset \in 0 .. Cardinality(Authors) + BatchSize
    /\ clean \in BOOLEAN
    /\ ages \in 0 .. MaxAges /\ faults \in 0 .. MaxFaults

Blank == /\ confirmed = {} /\ author = Nobody /\ left = {}
         /\ batch = {} /\ offset = 0 /\ begun = {} /\ clean = TRUE

Init == phase = "off" /\ Blank /\ notesDue = Authors /\ zapsDue = Authors /\ ages = 0 /\ faults = 0

Costs(n) == faults + n <= MaxFaults /\ faults' = faults + n

\* validate_relays keeps the relays whose probe succeeds; with none, run returns.
ValidateRelays ==
    /\ phase = "off"
    /\ \E C \in SUBSET Pinned :
        /\ Costs(IF C = Pinned THEN 0 ELSE 1)
        /\ confirmed' = C
        /\ phase' = IF C = {} THEN "over" ELSE "notes"
    /\ UNCHANGED <<rows, author, left, batch, offset, begun, clean, ages>>

-----------------------------------------------------------------------------
(* Notes *)

\* run_zap_pass, which returns at once when no relay list names a relay.
BeginZaps ==
    /\ \/ phase' = "zaps" /\ begun' = zapsDue
       \/ phase' = "over" /\ UNCHANGED begun
    /\ clean' = TRUE /\ batch' = {} /\ offset' = 0

\* The next author who is due; a failing query looks like nobody (unwrap_or(None)),
\* and the note pass is over.
TakeAuthor ==
    /\ phase = "notes" /\ author = Nobody
    /\ \/ \E a \in notesDue \cap NoteTiers :
            /\ author' = a /\ left' = confirmed
            /\ UNCHANGED <<phase, batch, offset, begun, clean, faults>>
       \/ /\ Costs(IF notesDue \cap NoteTiers = {} THEN 0 ELSE 1)
          /\ BeginZaps
          /\ UNCHANGED <<author, left>>
    /\ UNCHANGED <<rows, confirmed, ages>>

\* sync_authors with one relay; an error is logged.
SyncAuthor(r) ==
    /\ phase = "notes" /\ r \in left
    /\ left' = left \ {r}
    /\ UNCHANGED <<phase, rows, confirmed, author, batch, offset, begun, clean, ages, faults>>

\* Bug: an author whose relays had nothing new is not marked.
MarkAuthorIfNew ==
    /\ phase = "notes" /\ author # Nobody /\ left = {}
    /\ notesDue' = notesDue \ {author} \/ UNCHANGED notesDue
    /\ author' = Nobody
    /\ UNCHANGED <<phase, zapsDue, confirmed, left, batch, offset, begun, clean, ages, faults>>

\* mark_crawled, whose result is dropped: the author may be taken again at once.
MarkAuthor ==
    /\ phase = "notes" /\ author # Nobody /\ left = {}
    /\ \/ notesDue' = notesDue \ {author} /\ UNCHANGED faults
       \/ Costs(1) /\ UNCHANGED notesDue
    /\ author' = Nobody
    /\ UNCHANGED <<phase, zapsDue, confirmed, left, batch, offset, begun, clean, ages>>

-----------------------------------------------------------------------------
(* Zaps *)

\* The place of a among those that are due now.
Rank(a) == Cardinality({b \in zapsDue : b <= a})

\* OFFSET and LIMIT.
NextBatch == {a \in zapsDue : offset < Rank(a) /\ Rank(a) <= offset + BatchSize}

TakeBatch ==
    /\ phase = "zaps" /\ batch = {}
    /\ \/ /\ NextBatch # {}
          /\ batch' = NextBatch
          /\ UNCHANGED <<phase, clean, faults>>
       \/ /\ Costs(IF NextBatch = {} THEN 0 ELSE 1)
          /\ clean' = (clean /\ NextBatch = {})
          /\ phase' = "over"
          /\ UNCHANGED batch
    /\ UNCHANGED <<rows, confirmed, author, left, offset, begun, ages>>

\* Bug: the batch is counted once more than it is long.
AdvanceTwice == offset' = offset + 2 * BatchSize

Advance == offset' = offset + BatchSize

\* Every relay is asked for the zaps of the batch (errors are logged), then
\* mark_zaps_crawled, whose result is dropped.
CrawlZaps ==
    /\ phase = "zaps" /\ batch # {}
    /\ \/ zapsDue' = zapsDue \ batch /\ UNCHANGED <<clean, faults>>
       \/ Costs(1) /\ clean' = FALSE /\ UNCHANGED zapsDue
    /\ batch' = {}
    /\ Advance
    /\ UNCHANGED <<phase, notesDue, confirmed, author, left, begun, ages>>

-----------------------------------------------------------------------------
(* The environment *)

Stop == /\ phase' = "off" /\ confirmed' = {} /\ author' = Nobody /\ left' = {}
        /\ batch' = {} /\ offset' = 0 /\ begun' = {} /\ clean' = TRUE
        /\ UNCHANGED <<rows, ages>>

\* The service is started again, after the crawler returned or in the middle.
Redeploy == phase = "over" /\ Stop /\ UNCHANGED faults
Die == phase \in {"notes", "zaps"} /\ Stop /\ Costs(1)

\* Seven days pass since a mark, during a pass or between two.
Age(a) ==
    /\ ages < MaxAges /\ ages' = ages + 1
    /\ \/ /\ a \notin notesDue /\ notesDue' = notesDue \cup {a}
          /\ UNCHANGED <<zapsDue, clean>>
       \/ /\ a \notin zapsDue /\ zapsDue' = zapsDue \cup {a}
          /\ clean' = (clean /\ phase \notin {"zaps", "over"})
          /\ UNCHANGED notesDue
    /\ UNCHANGED <<phase, confirmed, author, left, batch, offset, begun, faults>>

Work == \/ ValidateRelays \/ TakeAuthor \/ MarkAuthor \/ TakeBatch \/ CrawlZaps
        \/ \E r \in Pinned : SyncAuthor(r)

Next == Work \/ Redeploy \/ Die \/ \E a \in Authors : Age(a)

Spec == Init /\ [][Next]_vars

\* Every wait has a time limit.  Nothing promises that the service is started again.
FairSpec == Spec /\ WF_vars(Work)
-----------------------------------------------------------------------------
(* Properties *)

\* What was begun comes to its end: an author the note pass cannot mark, or whose seven
\* days pass again meanwhile, does not hold it for ever, and neither does a set that
\* grows and shrinks under the offset of the zap pass.
PassEnds == (phase \in {"notes", "zaps"}) ~> (phase \in {"over", "off"})

\* "fetch zap receipts for all authors" (negentropy_only.rs:330) is what one pass does not
\* do: as a batch is marked it leaves the set that OFFSET counts, and the pass steps over
\* the next one.  But when no statement fails and nobody comes due meanwhile it has
\* taken at least half of those who were due.
PassTakesHalf ==
    phase = "over" /\ clean =>
        2 * Cardinality(begun \ zapsDue) >= Cardinality(begun)
=============================================================================
