-------------------------------- MODULE Answers --------------------------------
(***************************************************************************)
(* The response cache in Redis.  HTTP handlers and WebSocket feeds look a  *)
(* key up, compute the answer when it is not there (from the tables, or    *)
(* from the materialized views), and put it in the cache with a time to    *)
(* live; background loops put answers there without looking.  A purge, a   *)
(* blocked hashtag and a refresh of the views change what the answers      *)
(* should be, and then delete keys prefix by prefix.                       *)
(*                                                                         *)
(* An answer is the version of the tables that it shows.                   *)
(***************************************************************************)
EXTENDS Integers, FiniteSets

CONSTANTS
    TableKeys,   \* prefixes of answers computed from the tables
    ViewKeys,    \* prefixes of answers computed from materialized views
    WarmKeys,    \* those of them that a background loop computes
    PurgeKeys,   \* PURGE_CACHE_PREFIXES
    RefreshKeys, \* those deleted after the views are refreshed
    HashtagKeys, \* those deleted after a hashtag is blocked
    Tasks,       \* requests and loops at work
    None,
    MaxVersion   \* bound: changes of the tables

Keys == TableKeys \cup ViewKeys

\* PURGE_CACHE_PREFIXES names every prefix of an answer from the tables.
ASSUME AnswersAssumption ==
    /\ WarmKeys \subseteq Keys /\ RefreshKeys \subseteq Keys
    /\ TableKeys \subseteq PurgeKeys /\ PurgeKeys \subseteq Keys
    /\ HashtagKeys \subseteq TableKeys
    /\ None \notin Keys /\ MaxVersion \in Nat /\ None \notin Nat

Writers == {"purge", "hashtag", "refresh"}

VARIABLES
    tables,   \* version of the tables
    views,    \* the version the views show
    answer,   \* answer[k]: the version cached under k, or None
    task,     \* task[t]: the key it computes
    computed, \* computed[t]: the version it has computed, or None
    left,     \* left[w]: keys that writer w has still to delete
    wrote,    \* history: wrote[w], the version that w's last change made
    excused   \* history: keys whose answer was old when it was put there, or
              \* whose deletion failed

reading == <<task, computed>>
vars    == <<tables, views, answer, reading, left, wrote, excused>>

Version == 0 .. MaxVersion

TypeOK ==
    /\ tables \in Version /\ views \in Version
    /\ answer \in [Keys -> Version \cup {None}]
    /\ task \in [Tasks -> Keys \cup {None}]
    /\ computed \in [Tasks -> Version \cup {None}]
    /\ left \in [Writers -> SUBSET Keys]
    /\ wrote \in [Writers -> Version]
    /\ excused \subseteq Keys

Init ==
    /\ tables = 0 /\ views = 0
    /\ answer = [k \in Keys |-> None]
    /\ task = [t \in Tasks |-> None] /\ computed = [t \in Tasks |-> None]
    /\ left = [w \in Writers |-> {}] /\ wrote = [w \in Writers |-> 0]
    /\ excused = {}

\* What an answer under k would show now.
Current(k) == IF k \in TableKeys THEN tables ELSE views

-----------------------------------------------------------------------------
(* Those who ask *)

Idle(t) == task[t] = None
Start(t, k) == task' = [task EXCEPT ![t] = k] /\ UNCHANGED computed
UnchangedByAsking == UNCHANGED <<tables, views, answer, left, wrote, excused>>

\* A handler misses; on a hit it answers and nothing changes.
Miss(t, k) == answer[k] = None /\ Idle(t) /\ Start(t, k) /\ UnchangedByAsking

\* The tabs of a profile, the trending notes, the profiles for a page.
AskNotes(t, k) == k \in TableKeys /\ Miss(t, k)

\* The leaderboards.
AskBoard(t, k) == k \in ViewKeys /\ Miss(t, k)

\* The loops for the home page and for the hashtag feeds do not look.
Warm(t, k) == k \in WarmKeys /\ Idle(t) /\ Start(t, k) /\ UnchangedByAsking

\* The query; when it fails the request ends with an error.
Compute(t) ==
    /\ ~Idle(t) /\ computed[t] = None
    /\ \/ computed' = [computed EXCEPT ![t] = Current(task[t])] /\ UNCHANGED task
       \/ task' = [task EXCEPT ![t] = None] /\ UNCHANGED computed
    /\ UnchangedByAsking

\* set_json, set_trending: an error is not noticed.
Fill(t) ==
    LET k == task[t] IN
    /\ computed[t] # None
    /\ \/ /\ answer' = [answer EXCEPT ![k] = computed[t]]
          /\ excused' = IF computed[t] < Current(k) THEN excused \cup {k} ELSE excused \ {k}
       \/ UNCHANGED <<answer, excused>>
    /\ task' = [task EXCEPT ![t] = None] /\ computed' = [computed EXCEPT ![t] = None]
    /\ UNCHANGED <<tables, views, left, wrote>>

\* Every answer has a time to live, from one minute to one day.
Expire(k) ==
    /\ answer[k] # None
    /\ answer' = [answer EXCEPT ![k] = None]
    /\ UNCHANGED <<tables, views, reading, left, wrote, excused>>

-----------------------------------------------------------------------------
(* Those who change what the answers should be *)

Ingest ==
    /\ tables < MaxVersion /\ tables' = tables + 1
    /\ UNCHANGED <<views, answer, reading, left, wrote, excused>>

\* Bug: a key that no cached answer has.
FlushedByAuthor(w) ==
    CASE w = "purge"   -> {}
      [] w = "hashtag" -> HashtagKeys
      [] w = "refresh" -> RefreshKeys

\* What a writer deletes.
Flushed(w) ==
    CASE w = "purge"   -> PurgeKeys
      [] w = "hashtag" -> HashtagKeys
      [] w = "refresh" -> RefreshKeys

\* w has made version v, and begins to delete; it is not done with the last one before.
Made(w, v) ==
    /\ left[w] = {} /\ left' = [left EXCEPT ![w] = Flushed(w)]
    /\ wrote' = [wrote EXCEPT ![w] = v]
    /\ UNCHANGED <<answer, reading, excused>>

Changed == tables < MaxVersion /\ tables' = tables + 1 /\ UNCHANGED views

\* The last DELETE of purge_pubkey_data.
Purge == Changed /\ Made("purge", tables + 1)

\* The hashtag is in the table and in the set that trending_hashtags looks at.
BlockHashtag == Changed /\ Made("hashtag", tables + 1)

\* REFRESH MATERIALIZED VIEW; a refresh that fails deletes nothing.
RefreshViews == views' = tables /\ UNCHANGED tables /\ Made("refresh", tables)

\* delete_by_prefix, invalidate_pattern: an error ends it without a word.
Delete(w, k) ==
    /\ k \in left[w]
    /\ left' = [left EXCEPT ![w] = @ \ {k}]
    /\ \/ answer' = [answer EXCEPT ![k] = None] /\ UNCHANGED excused
       \/ excused' = excused \cup {k} /\ UNCHANGED answer
    /\ UNCHANGED <<tables, views, reading, wrote>>

-----------------------------------------------------------------------------
Deletes == \E w \in Writers, k \in Keys : Delete(w, k)

Next ==
    \/ Ingest \/ Purge \/ BlockHashtag \/ RefreshViews \/ Deletes
    \/ \E k \in Keys : Expire(k)
    \/ \E t \in Tasks : \/ Compute(t) \/ Fill(t)
                       \/ \E k \in Keys : AskNotes(t, k) \/ AskBoard(t, k) \/ Warm(t, k)

Spec == Init /\ [][Next]_vars

\* Redis forgets what is old; the loop that refreshes the views goes round, and its
\* refresh succeeds at last.
FairSpec ==
    Spec /\ WF_vars(RefreshViews) /\ WF_vars(Deletes) /\ \A k \in Keys : WF_vars(Expire(k))
-----------------------------------------------------------------------------
(* Properties *)

\* Once a purge (block_cache.rs:631), a blocked hashtag (handlers.rs:1755) or a
\* refresh (main.rs:334) has deleted what it should (a purge every answer from the
\* tables), an answer that is older than the change was being computed meanwhile, or
\* the deletion failed.
StaleAnswerIsLate ==
    \A w \in Writers :
        LET concerned == CASE w = "purge"   -> TableKeys
                           [] w = "hashtag" -> HashtagKeys
                           [] w = "refresh" -> RefreshKeys
        IN  \A k \in concerned \ (left[w] \cup excused) :
                answer[k] # None => answer[k] >= wrote[w]

\* When the tables change no more, old answers are gone at last, those that came
\* late and those from the views included: what was purged does not come back.
NoneIsOld == \A k \in Keys : answer[k] \in {tables, None}
AnswersCatchUp == <>[]NoneIsOld

=============================================================================
