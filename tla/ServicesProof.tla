----------------------------- MODULE ServicesProof -----------------------------
(***************************************************************************)
(* Proofs about the services around the archive, for any number of keys,   *)
(* requests, relays, writers and callers, and queues of any length.        *)
(*                                                                         *)
(* StaleAnswerIsLate is not inductive: an answer that is put in the cache  *)
(* is as new as what it was computed from is now, or it is excused, so one *)
(* has to know that no change is newer than what it changed (ChangesPast). *)
(* That the counters stay in bounds rests on where the writers are: those  *)
(* between their INSERT and their MULTI may still raise total_events       *)
(* (Bounds), those between MULTI and EXPIRE are in a window that outlives  *)
(* what it has to hold (WindowLives).  That a name is asked for three      *)
(* times at most rests on how often it has still passed the check against  *)
(* attempted (Chances).                                                    *)
(***************************************************************************)
EXTENDS Services, Sequences, FiniteSetTheorems, TLAPS

-----------------------------------------------------------------------------
(* The cached answers *)

\* Who has computed an answer knows its key.
HasKey == \A t \in Tasks : computed[t] # None => task[t] # None

\* What a writer has changed is there.
ChangesPast ==
    /\ views <= tables
    /\ \A w \in Writers : wrote[w] <= tables
    /\ wrote["refresh"] <= views

\* The keys w has to delete.
Concerned(w) ==
    CASE w = "purge"   -> TableKeys
      [] w = "hashtag" -> HashtagKeys
      [] w = "refresh" -> RefreshKeys

\* StaleAnswerIsLate for one key.
Fresh(w, k) == k \in Concerned(w) \ (left[w] \cup excused) /\ answer[k] # None => answer[k] >= wrote[w]

LEMMA FreshSuffices == (\A w \in Writers, k \in Keys : Fresh(w, k)) <=> StaleAnswerIsLate
  BY AnswersAssumption DEF Fresh, StaleAnswerIsLate, Concerned, Writers, Keys

LEMMA FirstState == Init => TypeOK /\ HasKey /\ ChangesPast /\ StaleAnswerIsLate
  BY AnswersAssumption DEF Init, TypeOK, HasKey, ChangesPast, StaleAnswerIsLate, Writers, Version, Keys

-----------------------------------------------------------------------------
(* Types *)

LEMMA MadeTypes ==
  ASSUME TypeOK, NEW w \in Writers, NEW v \in Version, Made(w, v)
  PROVE  /\ answer' = answer /\ reading' = reading /\ excused' = excused
         /\ left' \in [Writers -> SUBSET Keys] /\ wrote' \in [Writers -> Version]
<1>1. Flushed(w) \subseteq Keys
  BY AnswersAssumption DEF Flushed, Writers, Keys
<1> QED
  BY <1>1 DEF Made, TypeOK

LEMMA TypeNext == TypeOK /\ HasKey /\ [Next]_vars => TypeOK'
<1> SUFFICES ASSUME TypeOK, HasKey, [Next]_vars PROVE TypeOK'
  OBVIOUS
<1> USE DEF TypeOK
<1>1. ASSUME NEW w \in Writers, NEW v \in Version, Made(w, v), tables' \in Version, views' \in Version
      PROVE  TypeOK'
  BY <1>1, MadeTypes DEF reading
<1>2. \A w \in {"purge", "hashtag", "refresh"} : w \in Writers
  BY DEF Writers
<1>3. ASSUME Changed
      PROVE  tables + 1 \in Version /\ tables' = tables + 1 /\ views' = views
  BY <1>3, AnswersAssumption DEF Changed, Version
<1>4. CASE Purge
  BY <1>1, <1>2, <1>3, <1>4 DEF Purge
<1>5. CASE BlockHashtag
  BY <1>1, <1>2, <1>3, <1>5 DEF BlockHashtag
<1>6. CASE RefreshViews
  BY <1>1, <1>2, <1>6 DEF RefreshViews
<1>7. CASE Ingest
  BY <1>7, AnswersAssumption DEF Ingest, Version, reading
<1>8. ASSUME NEW w \in Writers, NEW k \in Keys, Delete(w, k)
      PROVE  TypeOK'
  BY <1>8 DEF Delete, reading
<1>9. ASSUME NEW k \in Keys, Expire(k)
      PROVE  TypeOK'
  BY <1>9 DEF Expire, reading
<1>10. ASSUME NEW t \in Tasks, Compute(t)
       PROVE  TypeOK'
  <2>1. Idle(t) \/ Current(task[t]) \in Version
    BY DEF Current, Idle
  <2> QED
    BY <1>10, <2>1 DEF Compute, UnchangedByAsking, Idle
<1>11. ASSUME NEW t \in Tasks, Fill(t)
       PROVE  TypeOK'
  <2>1. task[t] \in Keys /\ computed[t] \in Version
    BY <1>11 DEF Fill, HasKey
  <2>2. UNCHANGED <<tables, views, left, wrote>> /\ task' \in [Tasks -> Keys \cup {None}]
          /\ computed' \in [Tasks -> Version \cup {None}]
    BY <1>11 DEF Fill
  <2>3. answer' \in [Keys -> Version \cup {None}]
    BY <1>11, <2>1 DEF Fill
  <2>4. excused' \subseteq Keys
    BY <1>11, <2>1 DEF Fill
  <2> QED
    BY <2>2, <2>3, <2>4
<1>12. ASSUME NEW t \in Tasks, NEW k \in Keys, AskNotes(t, k) \/ AskBoard(t, k) \/ Warm(t, k)
       PROVE  TypeOK'
  BY <1>12 DEF AskNotes, AskBoard, Warm, Miss, Start, UnchangedByAsking
<1>13. CASE UNCHANGED vars
  BY <1>13 DEF vars, reading
<1> QED
  BY <1>4, <1>5, <1>6, <1>7, <1>8, <1>9, <1>10, <1>11, <1>12, <1>13 DEF Next, Deletes

-----------------------------------------------------------------------------
LEMMA HasKeyNext == TypeOK /\ HasKey /\ [Next]_vars => HasKey'
<1> SUFFICES ASSUME TypeOK, HasKey, [Next]_vars PROVE HasKey'
  OBVIOUS
<1> USE DEF TypeOK, HasKey
<1>1. CASE UNCHANGED <<task, computed>>
  BY <1>1
<1>2. ASSUME NEW t \in Tasks, Compute(t)
      PROVE  HasKey'
  BY <1>2 DEF Compute, Idle
<1>3. ASSUME NEW t \in Tasks, Fill(t)
      PROVE  HasKey'
  BY <1>3 DEF Fill
<1>4. ASSUME NEW t \in Tasks, NEW k \in Keys, AskNotes(t, k) \/ AskBoard(t, k) \/ Warm(t, k)
      PROVE  HasKey'
  <2>1. computed' = computed /\ task' = [task EXCEPT ![t] = k] /\ k # None
    BY <1>4, AnswersAssumption DEF AskNotes, AskBoard, Warm, Miss, Start
  <2> QED
    BY <2>1
<1>5. Ingest \/ Purge \/ BlockHashtag \/ RefreshViews \/ Deletes \/ (\E k \in Keys : Expire(k)) \/ UNCHANGED vars
        => UNCHANGED <<task, computed>>
  BY DEF Ingest, Purge, BlockHashtag, RefreshViews, Made, Deletes, Delete, Expire, vars, reading
<1> QED
  BY <1>1, <1>2, <1>3, <1>4, <1>5 DEF Next

\* Everything but the tables, the views and what the writers wrote is of no concern.
LEMMA PastNext == TypeOK /\ ChangesPast /\ [Next]_vars => ChangesPast'
<1> SUFFICES ASSUME TypeOK, ChangesPast, [Next]_vars PROVE ChangesPast'
  OBVIOUS
<1> USE DEF ChangesPast, TypeOK, Version
<1>1. CASE UNCHANGED <<tables, views, wrote>>
  BY <1>1
<1>2. CASE Ingest
  BY <1>2, AnswersAssumption DEF Ingest, Writers
<1>3. CASE Purge
  BY <1>3, AnswersAssumption DEF Purge, Changed, Made, Writers
<1>4. CASE BlockHashtag
  BY <1>4, AnswersAssumption DEF BlockHashtag, Changed, Made, Writers
<1>5. CASE RefreshViews
  BY <1>5, AnswersAssumption DEF RefreshViews, Made, Writers
<1>6. CASE \/ Deletes \/ \E k \in Keys : Expire(k)
           \/ \E t \in Tasks : \/ Compute(t) \/ Fill(t)
                              \/ \E k \in Keys : AskNotes(t, k) \/ AskBoard(t, k) \/ Warm(t, k)
           \/ UNCHANGED vars
  <2>1. UNCHANGED <<tables, views, wrote>>
    BY <1>6 DEF Deletes, Delete, Expire, Compute, Fill, AskNotes, AskBoard, Warm, Miss, UnchangedByAsking, vars
  <2> QED
    BY <1>1, <2>1
<1> QED
  BY <1>2, <1>3, <1>4, <1>5, <1>6, Zenon DEF Next

\* A current answer is as new as every change that concerns it.
LEMMA CurrentIsFresh ==
  ASSUME TypeOK, ChangesPast, NEW w \in Writers, NEW k \in Concerned(w)
  PROVE  Current(k) \in Nat /\ wrote[w] \in Nat /\ wrote[w] <= Current(k)
BY AnswersAssumption DEF TypeOK, ChangesPast, Concerned, Current, Writers, Version

\* A writer that has made a new version has all keys of its concern before it.
LEMMA MadeFresh ==
  ASSUME TypeOK, NEW w \in Writers, NEW v \in Version, Made(w, v),
         NEW x \in Writers, NEW k \in Keys, Fresh(x, k)
  PROVE  Fresh(x, k)'
<1>1. Concerned(w) \subseteq Flushed(w)
  BY AnswersAssumption DEF Concerned, Flushed, Writers
<1>2. CASE x = w
  <2>1. left'[w] = Flushed(w)
    BY <1>2 DEF Made, TypeOK
  <2> QED
    BY <1>1, <1>2, <2>1 DEF Fresh, Concerned
<1>3. CASE x # w
  <2>1. left'[x] = left[x] /\ wrote'[x] = wrote[x] /\ UNCHANGED <<answer, excused>>
    BY <1>3 DEF Made, TypeOK
  <2> QED
    BY <2>1 DEF Fresh, Concerned
<1> QED
  BY <1>2, <1>3

LEMMA FreshNext ==
  ASSUME TypeOK, HasKey, ChangesPast, [Next]_vars, NEW x \in Writers, NEW j \in Keys, Fresh(x, j)
  PROVE  Fresh(x, j)'
<1>1. CASE UNCHANGED <<answer, left, wrote, excused>>
  BY <1>1 DEF Fresh, Concerned
<1>2. ASSUME NEW w \in Writers, NEW v \in Version, Made(w, v)
      PROVE  Fresh(x, j)'
  BY <1>2, MadeFresh
<1>3. CASE Purge \/ BlockHashtag \/ RefreshViews
  <2>1. tables \in Version /\ (Changed => tables + 1 \in Version)
    BY AnswersAssumption DEF Changed, TypeOK, Version
  <2> QED
    BY <1>2, <1>3, <2>1 DEF Purge, BlockHashtag, RefreshViews, Writers
<1>4. ASSUME NEW w \in Writers, NEW k \in Keys, Delete(w, k)
      PROVE  Fresh(x, j)'
  <2>1. wrote' = wrote /\ left'[x] \in {left[x], left[x] \ {k}}
    BY <1>4 DEF Delete, TypeOK
  <2>2. CASE answer' = [answer EXCEPT ![k] = None] /\ UNCHANGED excused
    <3>1. answer'[j] = IF j = k THEN None ELSE answer[j]
      BY <2>2 DEF TypeOK
    <3> QED
      BY <2>1, <2>2, <3>1 DEF Fresh, Concerned
  <2>3. CASE excused' = excused \cup {k} /\ UNCHANGED answer
    BY <2>1, <2>3 DEF Fresh, Concerned
  <2> QED
    BY <1>4, <2>2, <2>3 DEF Delete
<1>5. ASSUME NEW k \in Keys, Expire(k)
      PROVE  Fresh(x, j)'
  <2>1. answer'[j] = IF j = k THEN None ELSE answer[j]
    BY <1>5 DEF Expire, TypeOK
  <2> QED
    BY <1>5, <2>1 DEF Expire, Fresh, Concerned
<1>6. ASSUME NEW t \in Tasks, Fill(t)
      PROVE  Fresh(x, j)'
  <2> DEFINE k == task[t]
  <2>1. k \in Keys /\ computed[t] \in Version /\ UNCHANGED <<left, wrote>>
    BY <1>6 DEF Fill, HasKey, TypeOK
  <2>2. CASE UNCHANGED <<answer, excused>>
    BY <1>1, <2>1, <2>2
  <2>3. CASE /\ answer' = [answer EXCEPT ![k] = computed[t]]
             /\ excused' = IF computed[t] < Current(k) THEN excused \cup {k} ELSE excused \ {k}
    <3>1. CASE j # k
      <4>1. answer'[j] = answer[j] /\ (j \in excused' <=> j \in excused)
        BY <2>3, <3>1 DEF TypeOK
      <4> QED
        BY <2>1, <4>1 DEF Fresh, Concerned
    <3>2. CASE j = k /\ computed[t] < Current(k)
      BY <2>3, <3>2 DEF Fresh
    <3>3. CASE j = k /\ ~(computed[t] < Current(k))
      <4>1. answer'[j] = computed[t]
        BY <2>1, <2>3, <3>3 DEF TypeOK
      <4>2. j \in Concerned(x) => wrote[x] <= computed[t]
        BY <2>1, <3>3, CurrentIsFresh DEF Version
      <4>3. wrote[x] \in Nat /\ computed[t] \in Nat
        BY <2>1, AnswersAssumption DEF TypeOK, Version
      <4> QED
        BY <2>1, <4>1, <4>2, <4>3 DEF Fresh, Concerned
    <3> QED
      BY <3>1, <3>2, <3>3
  <2> QED
    BY <1>6, <2>2, <2>3 DEF Fill
<1>7. CASE \/ Ingest
           \/ \E t \in Tasks : \/ Compute(t)
                              \/ \E k \in Keys : AskNotes(t, k) \/ AskBoard(t, k) \/ Warm(t, k)
           \/ UNCHANGED vars
  <2>1. UNCHANGED <<answer, left, wrote, excused>>
    BY <1>7 DEF Ingest, Compute, AskNotes, AskBoard, Warm, Miss, UnchangedByAsking, vars
  <2> QED
    BY <1>1, <2>1
<1> QED
  BY <1>3, <1>4, <1>5, <1>6, <1>7, Zenon DEF Next, Deletes

\* The inductive invariant of the cached answers.
AnswersInv == TypeOK /\ HasKey /\ ChangesPast /\ StaleAnswerIsLate

LEMMA AnswersNext ==
  ASSUME AnswersInv, [Next]_vars
  PROVE  AnswersInv'
<1> USE DEF AnswersInv
<1>1. TypeOK' /\ HasKey' /\ ChangesPast'
  BY TypeNext, HasKeyNext, PastNext
<1>2. \A w \in Writers, k \in Keys : Fresh(w, k)'
  BY FreshNext, FreshSuffices
<1>3. ((\A w \in Writers, k \in Keys : Fresh(w, k)) <=> StaleAnswerIsLate)'
  BY FreshSuffices, PTL
<1> QED
  BY <1>1, <1>2, <1>3 DEF Writers, Keys

\* The cached answers, and those who compute and delete them, keep their types.
THEOREM TypeCorrect == Spec => []TypeOK
<1>1. TypeOK /\ HasKey /\ [Next]_vars => (TypeOK /\ HasKey)'
  BY TypeNext, HasKeyNext
<1> QED
  BY <1>1, FirstState, PTL DEF Spec

\* However requests, loops and deletions overlap: once a purge (block_cache.rs:631), a
\* blocked hashtag (handlers.rs:1755) or a refresh (main.rs:334) has been through its
\* keys, an answer that is older than its change is one that was computed before it and
\* put in the cache after it, or one whose deletion failed.
THEOREM StaleIsLate == Spec => []StaleAnswerIsLate
<1>1. AnswersInv /\ [Next]_vars => AnswersInv'
  BY AnswersNext
<1>2. Init => AnswersInv
  BY FirstState DEF AnswersInv
<1>3. AnswersInv => StaleAnswerIsLate
  BY DEF AnswersInv
<1> QED
  BY <1>1, <1>2, <1>3, PTL DEF Spec

-----------------------------------------------------------------------------
(* The caches in memory and the ingester *)

LEMMA CachesTypes ==
  ASSUME Caches!TypeOK, Caches!Next
  PROVE  Caches!TypeOK'
<1> USE ServicesAssumption DEF Caches!TypeOK, Caches!Versions, Caches!locals
<1>1. CASE Caches!Follow
  BY <1>1 DEF Caches!Follow
<1>2. CASE Caches!RefreshView
  BY <1>2 DEF Caches!RefreshView
<1>3. ASSUME NEW c \in CacheNames, Caches!GrowOld(c)
      PROVE  Caches!TypeOK'
  BY <1>3 DEF Caches!GrowOld
<1>4. ASSUME NEW t \in Callers, NEW c \in CacheNames, Caches!Call(t, c)
      PROVE  Caches!TypeOK'
  BY <1>4 DEF Caches!Call, Caches!Goto
<1>5. ASSUME NEW t \in Callers, Caches!Query(t)
      PROVE  Caches!TypeOK'
  BY <1>5 DEF Caches!Query, Caches!Goto, Caches!Fail, Caches!End
<1>6. ASSUME NEW t \in Callers, Caches!BeginReplace(t)
      PROVE  Caches!TypeOK'
  BY <1>6 DEF Caches!BeginReplace, Caches!Goto
<1>7. ASSUME NEW t \in Callers, Caches!CommitReplace(t)
      PROVE  Caches!TypeOK'
  <2>1. rows[t] \in Caches!Versions /\ UNCHANGED <<graph, view, memory, old>>
    BY <1>7 DEF Caches!CommitReplace
  <2>2. scores' \subseteq Caches!Versions
    BY <1>7, <2>1 DEF Caches!CommitReplace
  <2>3. unseen' \in [Callers -> SUBSET Caches!Versions]
    <3>1. CASE unseen' = [unseen EXCEPT ![t] = {}]
      BY <3>1
    <3>2. CASE unseen' = [u \in Callers |-> IF u = t THEN {}
                                       ELSE IF pc[u] = "commit" THEN unseen[u] \cup {rows[t]}
                                       ELSE unseen[u]]
      BY <2>1, <3>2
    <3> QED
      BY <1>7, <3>1, <3>2 DEF Caches!CommitReplace
  <2>4. /\ pc' \in [Callers -> {"idle", "query", "begin", "commit", "swap", "stamp"}]
        /\ cache' \in [Callers -> CacheNames \cup {None}]
        /\ rows' \in [Callers -> Caches!Versions]
        /\ faults' \in 0 .. MaxFaults
    BY <1>7 DEF Caches!CommitReplace, Caches!Goto, Caches!Fail, Caches!End
  <2> QED
    BY <2>1, <2>2, <2>3, <2>4
<1>8. ASSUME NEW t \in Callers, Caches!Swap(t)
      PROVE  Caches!TypeOK'
  BY <1>8 DEF Caches!Swap, Caches!Goto
<1>9. ASSUME NEW t \in Callers, Caches!Stamp(t)
      PROVE  Caches!TypeOK'
  <2>1. old' \in [CacheNames -> BOOLEAN]
    BY <1>9 DEF Caches!Stamp
  <2>2. /\ UNCHANGED <<graph, view, scores, memory, unseen, faults>>
        /\ pc' = [pc EXCEPT ![t] = "idle"] /\ cache' = [cache EXCEPT ![t] = None]
        /\ rows' = [rows EXCEPT ![t] = 0]
    BY <1>9 DEF Caches!Stamp, Caches!Goto, Caches!End
  <2> QED
    BY <2>1, <2>2
<1> QED
  BY <1>1, <1>2, <1>3, <1>4, <1>5, <1>6, <1>7, <1>8, <1>9 DEF Caches!Next, Caches!Calls, Caches!Refresh

LEMMA IngesterTypes ==
  ASSUME Ingester!TypeOK, Ingester!Next
  PROVE  Ingester!TypeOK'
<1> USE ServicesAssumption DEF Ingester!TypeOK, Ingester!loops, Ingester!Goto, Ingester!OthersGoOn
<1>1. CASE Ingester!Shutdown
  BY <1>1 DEF Ingester!Shutdown
<1>2. ASSUME NEW r \in Relays, Ingester!Connect(r) \/ Ingester!Subscribe(r)
      PROVE  Ingester!TypeOK'
  BY <1>2 DEF Ingester!Connect, Ingester!Subscribe
<1>3. ASSUME NEW r \in Relays, NEW e \in Events, Ingester!Receive(r, e)
      PROVE  Ingester!TypeOK'
  BY <1>3 DEF Ingester!Receive
<1>4. ASSUME NEW r \in Relays, Ingester!Send(r)
      PROVE  Ingester!TypeOK'
  <2>1. held[r] \in Events
    BY <1>4 DEF Ingester!Send
  <2>2. channel' \in Seq(Events) /\ Len(channel') <= ChannelCap
    <3>1. CASE Len(channel) < ChannelCap /\ channel' = Append(channel, held[r])
      BY <2>1, <3>1
    <3>2. CASE UNCHANGED channel
      BY <3>2
    <3> QED
      BY <1>4, <3>1, <3>2 DEF Ingester!Send
  <2> QED
    BY <1>4, <2>2 DEF Ingester!Send
<1>5. ASSUME NEW r \in Relays, Ingester!Disconnect(r) \/ Ingester!Wake(r) \/ Ingester!StopLoop(r)
      PROVE  Ingester!TypeOK'
  BY <1>5 DEF Ingester!Disconnect, Ingester!Wake, Ingester!StopLoop
<1>6. CASE Ingester!ProcessEvent
  BY <1>6 DEF Ingester!ProcessEvent
<1>7. CASE Ingester!StopProcessor
  BY <1>7 DEF Ingester!StopProcessor
<1> QED
  BY <1>1, <1>2, <1>3, <1>4, <1>5, <1>6, <1>7 DEF Ingester!Next, Ingester!Process, Ingester!RelayLoop

-----------------------------------------------------------------------------
\* The instances count as this module does.
LEMMA SameCount ==
  ASSUME NEW S
  PROVE  Stats!Cardinality(S) = Cardinality(S) /\ Resolver!Cardinality(S) = Cardinality(S)
<1>1. Stats!Cardinality(S) = Cardinality(S)
  BY DEF Stats!Cardinality, Cardinality
<1>2. Resolver!Cardinality(S) = Cardinality(S)
  BY DEF Resolver!Cardinality, Cardinality
<1> QED
  BY <1>1, <1>2

(* The resolver *)

\* What each of the two tasks has in hand.
InHand ==
  /\ IsFiniteSet(pending)
  /\ IF receiver = "insert" THEN candidate \in Authors ELSE candidate = None
  /\ resolver \in {"sleep", "ended"} => batch = {}
  /\ resolver \in {"sleep", "check", "ended"} => remaining = {}
  /\ resolver = "ask" => asked < MaxAsked

Queued == \E i \in DOMAIN names : names[i] = Watched

\* SightingIsAccounted, in the words of the actions.
Accounted ==
  sighted => passedOver \/ Queued \/ candidate = Watched \/ Watched \in pending \cup batch \cup attempted

One(b) == IF b THEN 1 ELSE 0

\* How often the relays may still be asked without a new sighting that is let through.
Chances == One(candidate = Watched) + One(Watched \in pending) + One(Watched \in batch /\ resolver = "check")

\* Once attempted, only what has passed that check before can be asked for again; until
\* then, it was asked for in the batch under way at most.
AskedSoFar ==
  IF Watched \in attempted
  THEN requests + Chances <= 3
  ELSE requests = 0 \/ (requests = 1 /\ Watched \in batch /\ resolver \in {"ask", "mark"})

ResolverInv == Resolver!TypeOK /\ InHand /\ Accounted /\ AskedSoFar

LEMMA ResolverFirst == Resolver!Init => ResolverInv
<1> SUFFICES ASSUME Resolver!Init PROVE ResolverInv
  OBVIOUS
<1>1. Cardinality({}) = 0 /\ IsFiniteSet({})
  BY FS_EmptySet
<1>2. Resolver!TypeOK
  <2>1. Resolver!Cardinality({}) = 0
    BY <1>1, SameCount
  <2>2. QueueCap \in Nat /\ NamesCap \in Nat /\ MaxAsked \in Nat /\ MaxFaults \in Nat
    BY ServicesAssumption
  <2>3. names \in Seq(Authors) /\ Len(names) = 0
    BY DEF Resolver!Init
  <2>4. sighted \in BOOLEAN /\ passedOver \in BOOLEAN /\ shutdown \in BOOLEAN
    BY DEF Resolver!Init
  <2>5. pending = {} /\ requests \in 0 .. 4 /\ asked \in 0 .. MaxAsked /\ faults \in 0 .. MaxFaults
    BY <2>2 DEF Resolver!Init
  <2> QED
    BY <2>1, <2>2, <2>3, <2>4, <2>5 DEF Resolver!Init, Resolver!TypeOK
<1> QED
  BY <1>1, <1>2 DEF Resolver!Init, ResolverInv, InHand, Accounted, AskedSoFar

LEMMA ResolverTypes ==
  ASSUME Resolver!TypeOK, InHand, Resolver!Next
  PROVE  Resolver!TypeOK' /\ InHand'
<1> USE ServicesAssumption DEF Resolver!receive, Resolver!resolve, Resolver!history
<1> SUFFICES /\ Resolver!TypeOK'
             /\ InHand'
  OBVIOUS
<1> USE DEF Resolver!TypeOK, InHand
<1>1. CASE Resolver!Shutdown
  BY <1>1 DEF Resolver!Shutdown
<1>2. ASSUME NEW a \in Authors, Resolver!Offer(a)
      PROVE  Resolver!TypeOK' /\ InHand'
  <2>1. names' \in Seq(Authors) /\ Len(names') <= NamesCap
    BY <1>2 DEF Resolver!Offer
  <2>2. sighted' \in BOOLEAN /\ passedOver' \in BOOLEAN
    BY <1>2, Zenon DEF Resolver!Offer
  <2> QED
    BY <1>2, <2>1, <2>2 DEF Resolver!Offer
<1>3. CASE Resolver!TakeName
  BY <1>3 DEF Resolver!TakeName
<1>4. CASE Resolver!InsertName
  <2>1. pending' \subseteq Authors /\ IsFiniteSet(pending') /\ Cardinality(pending') <= QueueCap
    <3>1. Cardinality(pending) \in Nat
      BY FS_CardinalityType
    <3>2. /\ IsFiniteSet(pending \cup {candidate})
          /\ Cardinality(pending \cup {candidate}) \in {Cardinality(pending), Cardinality(pending) + 1}
      BY FS_AddElement
    <3>3. ~Resolver!Full => Cardinality(pending) < QueueCap
      BY <3>1, SameCount DEF Resolver!Full
    <3>4. Cardinality(pending) <= QueueCap /\ candidate \in Authors
      BY <1>4, SameCount DEF Resolver!InsertName
    <3>5. CASE Resolver!Full
      BY <1>4, <3>4, <3>5 DEF Resolver!InsertName
    <3>6. CASE ~Resolver!Full
      <4>1. pending' = pending \cup {candidate}
        BY <1>4, <3>6 DEF Resolver!InsertName
      <4>2. Cardinality(pending \cup {candidate}) <= QueueCap
        BY <3>1, <3>2, <3>3, <3>6
      <4> QED
        BY <3>2, <3>4, <4>1, <4>2
    <3> QED
      BY <3>5, <3>6
  <2>2. Resolver!Cardinality(pending') <= QueueCap
    BY <2>1, SameCount
  <2> QED
    BY <1>4, <2>1, <2>2 DEF Resolver!InsertName
<1>5. CASE Resolver!StopReceiver
  BY <1>5 DEF Resolver!StopReceiver
<1>6. CASE Resolver!DrainPending
  <2>1. Resolver!Cardinality({}) = 0 /\ IsFiniteSet({})
    BY FS_EmptySet, SameCount
  <2> QED
    BY <1>6, <2>1 DEF Resolver!DrainPending
<1>7. CASE Resolver!CheckMissing
  <2>1. requests' \in 0 .. 4 /\ faults' \in 0 .. MaxFaults
    BY <1>7 DEF Resolver!CheckMissing, Resolver!Fault
  <2>2. remaining' \subseteq batch' /\ batch' \subseteq Authors /\ asked' \in 0 .. MaxAsked
    BY <1>7 DEF Resolver!CheckMissing
  <2>3. resolver' \in {"ask", "mark", "sleep"}
    BY <1>7 DEF Resolver!CheckMissing
  <2>4. passedOver' \in BOOLEAN
    BY <1>7, Zenon DEF Resolver!CheckMissing
  <2>5. Resolver!TypeOK'
    BY <1>7, <2>1, <2>2, <2>3, <2>4 DEF Resolver!CheckMissing
  <2>6. InHand'
    BY <1>7 DEF Resolver!CheckMissing
  <2> QED
    BY <2>5, <2>6
<1>8. CASE Resolver!AskRelay
  BY <1>8 DEF Resolver!AskRelay, Resolver!Fault
<1>9. CASE Resolver!MarkAttempted
  BY <1>9 DEF Resolver!MarkAttempted
<1>10. CASE Resolver!StopResolver
  BY <1>10 DEF Resolver!StopResolver
<1> QED
  BY <1>1, <1>2, <1>3, <1>4, <1>5, <1>6, <1>7, <1>8, <1>9, <1>10 DEF Resolver!Next, Resolver!Receiver, Resolver!Resolve

\* A name offered, taken, inserted, drained or marked is where the next one looks for it.
LEMMA AccountedNext ==
  ASSUME Resolver!TypeOK, InHand, Accounted, Resolver!Next
  PROVE  Accounted'
<1> USE DEF Resolver!receive, Resolver!resolve, Resolver!history, Accounted, Queued
<1>1. CASE Resolver!Shutdown \/ Resolver!AskRelay \/ Resolver!StopResolver
  BY <1>1 DEF Resolver!Shutdown, Resolver!AskRelay, Resolver!StopResolver
<1>2. ASSUME NEW a \in Authors, Resolver!Offer(a)
      PROVE  Accounted'
  <2>1. CASE /\ names' = Append(names, a) /\ passedOver' = (passedOver /\ a # Watched)
    <3>1. /\ names'[Len(names) + 1] = a /\ Len(names) + 1 \in DOMAIN names'
          /\ \A i \in DOMAIN names : i \in DOMAIN names' /\ names'[i] = names[i]
      BY <2>1 DEF Resolver!TypeOK
    <3>2. Queued => Queued'
      BY <3>1
    <3> QED
      BY <1>2, <2>1, <3>1, <3>2 DEF Resolver!Offer, Resolver!TypeOK
  <2>2. CASE passedOver' = (passedOver \/ a = Watched) /\ UNCHANGED names
    BY <1>2, <2>2 DEF Resolver!Offer, Resolver!TypeOK
  <2> QED
    BY <1>2, <2>1, <2>2 DEF Resolver!Offer
<1>3. CASE Resolver!TakeName
  <2>1. names # <<>> /\ names' = Tail(names) /\ names \in Seq(Authors) /\ candidate = None
    BY <1>3 DEF Resolver!TakeName, Resolver!TypeOK, InHand
  <2>2. Queued => Head(names) = Watched \/ Queued'
    <3> SUFFICES ASSUME NEW i \in DOMAIN names, names[i] = Watched, Head(names) # Watched
                 PROVE  \E j \in DOMAIN names' : names'[j] = Watched
      OBVIOUS
    <3>1. i \in 2 .. Len(names)
      BY <2>1
    <3>2. i - 1 \in DOMAIN names' /\ names'[i - 1] = names[i]
      BY <2>1, <3>1
    <3> QED
      BY <3>2
  <2>3. candidate # Watched
    BY <2>1, ServicesAssumption
  <2> QED
    BY <1>3, <2>2, <2>3 DEF Resolver!TakeName, Resolver!TypeOK
<1>4. CASE Resolver!InsertName
  BY <1>4 DEF Resolver!InsertName, Resolver!TypeOK
<1>5. CASE Resolver!StopReceiver
  BY <1>5 DEF Resolver!StopReceiver, Resolver!TypeOK
<1>6. CASE Resolver!DrainPending
  BY <1>6 DEF Resolver!DrainPending, InHand
<1>7. CASE Resolver!CheckMissing
  BY <1>7 DEF Resolver!CheckMissing, Resolver!TypeOK
<1>8. CASE Resolver!MarkAttempted
  BY <1>8 DEF Resolver!MarkAttempted, Resolver!TypeOK
<1> QED
  BY <1>1, <1>2, <1>3, <1>4, <1>5, <1>6, <1>7, <1>8 DEF Resolver!Next, Resolver!Receiver, Resolver!Resolve

LEMMA AskedNext ==
  ASSUME Resolver!TypeOK, InHand, AskedSoFar, Resolver!Next
  PROVE  AskedSoFar'
<1> USE DEF Resolver!receive, Resolver!resolve, Resolver!history, AskedSoFar, Chances, One
<1>1. requests \in Nat /\ candidate \in Authors \cup {None} /\ None # Watched
  BY ServicesAssumption DEF Resolver!TypeOK
<1>2. CASE Resolver!Shutdown \/ \E a \in Authors : Resolver!Offer(a)
  BY <1>2 DEF Resolver!Shutdown, Resolver!Offer
<1>3. CASE Resolver!TakeName
  <2>1. CASE UNCHANGED candidate
    BY <1>3, <2>1 DEF Resolver!TakeName
  <2>2. CASE Head(names) \notin attempted /\ candidate' = Head(names)
    <3>1. UNCHANGED <<pending, attempted, resolver, batch, requests>>
      BY <1>3 DEF Resolver!TakeName
    <3>2. Watched \in attempted => candidate' # Watched
      BY <2>2
    <3> QED
      BY <1>1, <3>1, <3>2
  <2> QED
    BY <1>3, <2>1, <2>2 DEF Resolver!TakeName
<1>4. CASE Resolver!InsertName
  <2>1. /\ pending' \in {pending, pending \cup {candidate}} /\ candidate' = None
        /\ UNCHANGED <<attempted, resolver, batch, requests>>
    BY <1>4 DEF Resolver!InsertName
  <2> QED
    BY <1>1, <2>1
<1>5. CASE Resolver!StopReceiver
  BY <1>5 DEF Resolver!StopReceiver
<1>6. CASE Resolver!DrainPending
  <2>1. /\ batch = {} /\ batch' = pending /\ pending' = {} /\ resolver = "sleep" /\ resolver' = "check"
        /\ UNCHANGED <<attempted, requests, candidate>>
    BY <1>6 DEF Resolver!DrainPending, InHand
  <2> QED
    BY <1>1, <2>1
<1>7. CASE Resolver!CheckMissing
  <2>1. /\ resolver = "check" /\ UNCHANGED <<attempted, pending, candidate>>
        /\ \/ /\ Watched \in batch /\ requests' \in {requests, requests + 1}
              /\ resolver' = "ask" /\ batch' = batch
           \/ /\ Watched \notin batch /\ requests' = requests /\ batch' = batch
           \/ /\ requests' = requests /\ resolver' \in {"sleep", "mark"}
    BY <1>7 DEF Resolver!CheckMissing
  <2> QED
    BY <1>1, <2>1
<1>8. CASE Resolver!AskRelay
  <2>1. /\ resolver = "ask" /\ resolver' \in {"ask", "mark"}
        /\ UNCHANGED <<attempted, pending, batch, candidate, requests>>
    BY <1>8 DEF Resolver!AskRelay
  <2> QED
    BY <1>1, <2>1
<1>9. CASE Resolver!MarkAttempted
  <2>1. /\ resolver = "mark" /\ resolver' = "sleep" /\ UNCHANGED <<pending, candidate>>
        /\ \/ attempted' = {} /\ requests' = 0
           \/ attempted' = attempted \cup batch /\ requests' = requests
    BY <1>9 DEF Resolver!MarkAttempted
  <2> QED
    BY <1>1, <2>1
<1>10. CASE Resolver!StopResolver
  BY <1>10 DEF Resolver!StopResolver
<1> QED
  BY <1>2, <1>3, <1>4, <1>5, <1>6, <1>7, <1>8, <1>9, <1>10 DEF Resolver!Next, Resolver!Receiver, Resolver!Resolve

LEMMA ResolverNext == ResolverInv /\ Resolver!Next => ResolverInv'
  BY ResolverTypes, AccountedNext, AskedNext DEF ResolverInv

LEMMA ResolverStays ==
  ResolverInv /\ UNCHANGED resolverVars /\ shutdown' \in BOOLEAN /\ faults' \in 0 .. MaxFaults
    => ResolverInv'
  BY DEF ResolverInv, Resolver!TypeOK, InHand, Accounted, Queued, AskedSoFar, Chances, resolverVars

LEMMA ResolverShows == ResolverInv => Resolver!TypeOK /\ ResolverAccounts
<1> SUFFICES ASSUME ResolverInv PROVE Resolver!TypeOK /\ ResolverAccounts
  OBVIOUS
<1>1. Resolver!SightingIsAccounted
  BY DEF ResolverInv, Accounted, Queued, Resolver!SightingIsAccounted
<1>2. Resolver!AskedAtMostThrice
  BY DEF ResolverInv, AskedSoFar, Chances, One, Resolver!AskedAtMostThrice, Resolver!TypeOK
<1> QED
  BY <1>1, <1>2 DEF ResolverInv, ResolverAccounts

-----------------------------------------------------------------------------
(* The counters *)

\* Those who store and stand at l: after the INSERT, after the MULTI.
At(l) == {w \in Storing : writer[w] = l}

\* The events of the last minute that were fully counted.
Recent == {i \in DOMAIN steps : now - steps[i] < Minute}

Amount(c) == IF c = Absent THEN 0 ELSE c

CounterTypes ==
  /\ rowCount \in Nat /\ rowless \in Nat
  /\ total \in Nat \cup {Absent} /\ window \in Nat \cup {Absent}
  /\ totalLife \in 1 .. Minute \cup {Absent} /\ windowLife \in 1 .. Minute \cup {Absent}
  /\ writer \in [Storing -> {"idle", "stored", "counted", "late"}]
  /\ reader \in [Readers -> {"idle", "counted"}]
  /\ seen \in [Readers -> Nat]
  /\ now \in 0 .. MaxTime /\ steps \in Seq(0 .. MaxTime)

\* An event taken in counts for total_events at most once, but those whose MULTI is still to
\* come when the rows are counted: one for each task.
Bounds ==
  /\ rowCount + rowless <= MaxStored
  /\ \A r \in Readers : seen[r] <= rowCount + rowless
  /\ total # Absent => total + Cardinality(At("stored")) <= rowCount + rowless + Cardinality(Storing)
  /\ Amount(window) + Cardinality(At("stored")) <= rowCount + rowless

\* The window outlives the events that it has to hold.
WindowLives ==
  /\ \A w \in Storing : writer[w] = "counted" => window # Absent
  /\ \A i \in DOMAIN steps : steps[i] <= now
  /\ \A i \in Recent :
       window # Absent /\ windowLife # Absent /\ windowLife >= Minute - (now - steps[i])
  /\ window # Absent => window >= Cardinality(Recent) + Cardinality(At("counted"))

CounterInv == CounterTypes /\ Bounds /\ WindowLives

LEMMA StoringIsFinite ==
  ASSUME NEW l
  PROVE  /\ IsFiniteSet(At(l)) /\ Cardinality(At(l)) \in Nat
         /\ Cardinality(At(l)) <= Cardinality(Storing) /\ Cardinality(Storing) \in Nat
<1>1. At(l) \subseteq Storing
  BY DEF At
<1> QED
  BY <1>1, ServicesAssumption, FS_Subset, FS_CardinalityType

LEMMA RecentIsFinite ==
  ASSUME CounterTypes
  PROVE  IsFiniteSet(Recent) /\ Cardinality(Recent) \in Nat
<1>1. Len(steps) \in Nat /\ DOMAIN steps = 1 .. Len(steps)
  BY DEF CounterTypes
<1>2. IsFiniteSet(1 .. Len(steps))
  BY <1>1, FS_Interval
<1>3. Recent \subseteq 1 .. Len(steps)
  BY <1>1 DEF Recent
<1> QED
  BY <1>2, <1>3, FS_Subset, FS_CardinalityType

\* One task goes on from where it is to s.
LEMMA Moved ==
  ASSUME CounterTypes, NEW w \in Storing, NEW s \in {"idle", "stored", "counted", "late"}, Stats!Goto(w, s), NEW CONSTANT l
  PROVE  Cardinality(At(l)') = Cardinality(At(l)) - (IF writer[w] = l THEN 1 ELSE 0) + (IF s = l THEN 1 ELSE 0)
<1>1. \A v \in Storing : writer'[v] = IF v = w THEN s ELSE writer[v]
  BY DEF CounterTypes, Stats!Goto
<1>2. IsFiniteSet(At(l)) /\ Cardinality(At(l)) \in Nat
  BY StoringIsFinite
<1>3. CASE writer[w] = l /\ s = l
  <2>1. At(l)' = At(l)
    BY <1>1, <1>3 DEF At
  <2> QED
    BY <1>2, <1>3, <2>1
<1>4. CASE writer[w] = l /\ s # l
  <2>1. At(l)' = At(l) \ {w} /\ w \in At(l)
    BY <1>1, <1>4 DEF At
  <2>2. Cardinality(At(l) \ {w}) = Cardinality(At(l)) - 1
    BY <1>2, <2>1, FS_RemoveElement
  <2> QED
    BY <1>2, <1>4, <2>1, <2>2
<1>5. CASE writer[w] # l /\ s = l
  <2>1. At(l)' = At(l) \cup {w} /\ w \notin At(l)
    BY <1>1, <1>5 DEF At
  <2>2. Cardinality(At(l) \cup {w}) = Cardinality(At(l)) + 1
    BY <1>2, <2>1, FS_AddElement
  <2> QED
    BY <1>2, <1>5, <2>1, <2>2
<1>6. CASE writer[w] # l /\ s # l
  <2>1. At(l)' = At(l)
    BY <1>1, <1>6 DEF At
  <2> QED
    BY <1>2, <1>6, <2>1
<1> QED
  BY <1>3, <1>4, <1>5, <1>6

\* What says nothing new about the window.
LEMMA WindowStays ==
  ASSUME CounterInv, UNCHANGED <<window, windowLife, now, steps>>,
         Cardinality(At("counted")') <= Cardinality(At("counted")), Cardinality(At("counted")') \in Nat,
         \A w \in Storing : writer'[w] = "counted" => writer[w] = "counted"
  PROVE  WindowLives'
<1>1. Recent' = Recent
  BY DEF Recent
<1>2. Cardinality(Recent) \in Nat /\ Cardinality(At("counted")) \in Nat
  BY RecentIsFinite, StoringIsFinite DEF CounterInv
<1>3. window # Absent => window \in Nat
  BY DEF CounterInv, CounterTypes
<1>4. window' # Absent => window' >= Cardinality(Recent') + Cardinality(At("counted")')
  <2>1. window # Absent => window >= Cardinality(Recent) + Cardinality(At("counted"))
    BY DEF CounterInv, WindowLives
  <2> HIDE DEF Recent, At
  <2> QED
    BY <1>1, <1>2, <1>3, <2>1
<1> QED
  BY <1>1, <1>4 DEF CounterInv, WindowLives

LEMMA StoreKeeps ==
  ASSUME CounterInv, NEW w \in Storing, Stats!Store(w)
  PROVE  CounterInv'
<1>1. CounterTypes'
  BY DEF CounterInv, CounterTypes, Stats!Store, Stats!Goto, Stats!keys
<1> DEFINE P == Cardinality(At("stored"))
           C == Cardinality(At("counted"))
<1>2. P \in Nat /\ C \in Nat /\ Cardinality(Storing) \in Nat
  BY StoringIsFinite
<1>3. P' = P + 1 /\ C' = C
  BY <1>2, Moved DEF CounterInv, Stats!Store
<1>4. Bounds'
  <2> HIDE DEF P, C
  <2>1. /\ \/ rowCount' = rowCount + 1 /\ rowless' = rowless
           \/ rowless' = rowless + 1 /\ rowCount' = rowCount
        /\ UNCHANGED <<total, window, seen>> /\ rowCount + rowless < MaxStored
    BY DEF Stats!Store, Stats!keys
  <2>2. /\ rowCount \in Nat /\ rowless \in Nat /\ total \in Nat \cup {Absent} /\ window \in Nat \cup {Absent}
        /\ seen \in [Readers -> Nat] /\ MaxStored \in Nat
    BY ServicesAssumption DEF CounterInv, CounterTypes
  <2>3. /\ \A r \in Readers : seen[r] <= rowCount + rowless
        /\ total # Absent => total + P <= rowCount + rowless + Cardinality(Storing)
        /\ Amount(window) + P <= rowCount + rowless
    BY DEF CounterInv, Bounds, P
  <2>4. /\ rowCount' + rowless' <= MaxStored
        /\ \A r \in Readers : seen'[r] <= rowCount' + rowless'
        /\ total' # Absent => total' + P' <= rowCount' + rowless' + Cardinality(Storing)
        /\ Amount(window') + P' <= rowCount' + rowless'
    BY <1>2, <1>3, <2>1, <2>2, <2>3 DEF Amount
  <2> QED
    BY <2>4 DEF Bounds, P, Amount
<1>5. WindowLives'
  <2>1. \A v \in Storing : writer'[v] = "counted" => writer[v] = "counted"
    BY DEF CounterInv, CounterTypes, Stats!Store, Stats!Goto
  <2>2. UNCHANGED <<window, windowLife, now, steps>>
    BY DEF Stats!Store, Stats!keys
  <2> QED
    BY <1>2, <1>3, <2>1, <2>2, WindowStays
<1> QED
  BY <1>1, <1>4, <1>5 DEF CounterInv


\* The facts of a state that the arithmetic of the next lemmas is about.
LEMMA Amounts ==
  ASSUME CounterInv
  PROVE  /\ rowCount \in Nat /\ rowless \in Nat /\ MaxStored \in Nat /\ Cardinality(Storing) \in Nat
         /\ total \in Nat \cup {Absent} /\ window \in Nat \cup {Absent} /\ Absent \notin Nat
         /\ seen \in [Readers -> Nat]
         /\ Cardinality(At("stored")) \in Nat /\ Cardinality(At("stored")) <= Cardinality(Storing)
         /\ Cardinality(At("counted")) \in Nat /\ Cardinality(Recent) \in Nat
BY ServicesAssumption, StoringIsFinite, RecentIsFinite DEF CounterInv, CounterTypes

LEMMA CountKeeps ==
  ASSUME CounterInv, NEW w \in Storing, Stats!Count(w)
  PROVE  CounterInv'
<1> DEFINE P == Cardinality(At("stored"))
           C == Cardinality(At("counted"))
<1>1. CounterTypes'
  BY DEF CounterInv, CounterTypes, Stats!Count, Stats!Goto, Stats!Incremented
<1>2. /\ UNCHANGED <<rowCount, rowless, windowLife, seen, now, steps>>
      /\ Bounds /\ WindowLives /\ CounterTypes /\ writer[w] = "stored"
  BY DEF CounterInv, Stats!Count
<1>3. Recent' = Recent
  BY <1>2 DEF Recent
<1>4. CASE /\ total' = Stats!Incremented(total) /\ window' = Stats!Incremented(window)
           /\ Stats!Goto(w, "counted")
  <2>1. P' = P - 1 /\ C' = C + 1
    BY <1>2, <1>4, Moved, Amounts DEF Stats!Count
  <2>2. Bounds'
    <3> HIDE DEF P, C
    <3>1. /\ total # Absent => total + P <= rowCount + rowless + Cardinality(Storing)
          /\ Amount(window) + P <= rowCount + rowless
      BY <1>2 DEF Bounds, P
    <3>2. P \in Nat /\ P <= Cardinality(Storing)
      BY Amounts DEF P
    <3>3. /\ total' # Absent => total' + P' <= rowCount' + rowless' + Cardinality(Storing)
          /\ Amount(window') + P' <= rowCount' + rowless'
      BY <1>2, <1>4, <2>1, <3>1, <3>2, Amounts DEF Stats!Incremented, Amount
    <3> QED
      BY <1>2, <3>3 DEF Bounds, P, Amount
  <2>3. window = Absent => Recent = {} /\ At("counted") = {}
    BY <1>2 DEF WindowLives, At
  <2>4. window' # Absent
    BY <1>4, Amounts DEF Stats!Incremented
  <2>5. window' >= Cardinality(Recent') + C'
    <3>1. CASE window = Absent
      <4>1. Cardinality(Recent') = 0 /\ C = 0
        BY <1>3, <2>3, <3>1, FS_EmptySet
      <4> HIDE DEF C
      <4> QED
        BY <1>4, <2>1, <3>1, <4>1 DEF Stats!Incremented
    <3>2. CASE window # Absent
      <4>1. window >= Cardinality(Recent) + C
        BY <1>2, <3>2 DEF WindowLives
      <4>2. window \in Nat /\ C \in Nat /\ Cardinality(Recent) \in Nat
        BY <3>2, Amounts
      <4> HIDE DEF C
      <4> QED
        BY <1>3, <1>4, <2>1, <3>2, <4>1, <4>2 DEF Stats!Incremented
    <3> QED
      BY <3>1, <3>2
  <2>6. \A i \in Recent :
          window # Absent /\ windowLife # Absent /\ windowLife >= Minute - (now - steps[i])
    BY <1>2 DEF WindowLives
  <2>7. \A i \in DOMAIN steps : steps[i] <= now
    BY <1>2 DEF WindowLives
  <2>8. WindowLives'
    BY <1>2, <1>3, <2>4, <2>5, <2>6, <2>7 DEF WindowLives
  <2> QED
    BY <1>1, <2>2, <2>8 DEF CounterInv
<1>5. CASE Stats!Goto(w, "idle") /\ UNCHANGED <<total, window>>
  <2>1. P' = P - 1 /\ C' = C
    BY <1>2, <1>5, Moved, Amounts DEF Stats!Count
  <2>2. Bounds'
    <3> HIDE DEF P, C
    <3>1. /\ total # Absent => total + P <= rowCount + rowless + Cardinality(Storing)
          /\ Amount(window) + P <= rowCount + rowless
      BY <1>2 DEF Bounds, P
    <3>2. P \in Nat /\ P <= Cardinality(Storing)
      BY Amounts DEF P
    <3>3. /\ total' # Absent => total' + P' <= rowCount' + rowless' + Cardinality(Storing)
          /\ Amount(window') + P' <= rowCount' + rowless'
      BY <1>2, <1>5, <2>1, <3>1, <3>2, Amounts DEF Amount
    <3> QED
      BY <1>2, <3>3 DEF Bounds, P, Amount
  <2>3. \A v \in Storing : writer'[v] = "counted" => writer[v] = "counted"
    BY <1>2, <1>5 DEF CounterTypes, Stats!Goto
  <2>4. WindowLives'
    BY <1>2, <1>5, <2>1, <2>3, WindowStays, Amounts
  <2> QED
    BY <1>1, <2>2, <2>4 DEF CounterInv
<1> QED
  BY <1>4, <1>5 DEF Stats!Count

LEMMA SetLifeKeeps ==
  ASSUME CounterInv, NEW w \in Storing, Stats!SetLife(w)
  PROVE  CounterInv'
<1> DEFINE P == Cardinality(At("stored"))
           C == Cardinality(At("counted"))
<1>1. /\ UNCHANGED <<rowCount, rowless, total, totalLife, window, reader, seen, now>>
      /\ Bounds /\ WindowLives /\ CounterTypes /\ writer[w] \in {"counted", "late"}
      /\ Stats!Goto(w, "idle")
  BY DEF CounterInv, Stats!SetLife
<1>2. steps' \in {steps, Append(steps, now)} /\ windowLife' \in {windowLife, Absent, Minute}
  BY DEF Stats!SetLife
<1>3. CounterTypes'
  <2>1. now \in 0 .. MaxTime /\ steps \in Seq(0 .. MaxTime)
    BY <1>1 DEF CounterTypes
  <2>2. steps' \in Seq(0 .. MaxTime)
    <3>1. Append(steps, now) \in Seq(0 .. MaxTime)
      BY <2>1
    <3> QED
      BY <1>2, <2>1, <3>1
  <2>3. windowLife' \in 1 .. Minute \cup {Absent}
    BY <1>1, <1>2, ServicesAssumption DEF CounterTypes
  <2>4. writer' \in [Storing -> {"idle", "stored", "counted", "late"}]
    BY <1>1 DEF CounterTypes, Stats!Goto
  <2> QED
    BY <1>1, <2>1, <2>2, <2>3, <2>4 DEF CounterTypes
<1>4. P' = P /\ C' = IF writer[w] = "counted" THEN C - 1 ELSE C
  BY <1>1, Moved, Amounts
<1>5. Bounds'
  BY <1>1, <1>4 DEF Bounds, Amount
<1>6. \A v \in Storing : writer'[v] = "counted" => writer[v] = "counted"
  BY <1>1 DEF CounterTypes, Stats!Goto
<1>7. CASE UNCHANGED <<windowLife, steps>>
  <2>1. C' \in Nat /\ C' <= C
    <3>1. C \in Nat /\ C' \in Nat
      <4>1. At("counted")' \subseteq Storing
        BY DEF At
      <4> QED
        BY <4>1, StoringIsFinite, ServicesAssumption, FS_Subset, FS_CardinalityType
    <3> HIDE DEF C
    <3> QED
      BY <1>4, <3>1
  <2>2. WindowLives'
    BY <1>1, <1>6, <1>7, <2>1, WindowStays
  <2> QED
    BY <1>3, <1>5, <2>2 DEF CounterInv
<1>8. CASE /\ windowLife' = IF window = Absent THEN Absent ELSE Minute
           /\ steps' = IF writer[w] = "counted" THEN Append(steps, now) ELSE steps
  <2>1. DOMAIN steps = 1 .. Len(steps) /\ Len(steps) \in Nat /\ now \in Nat /\ Minute \in Nat \ {0}
          /\ \A i \in DOMAIN steps : steps[i] \in Nat /\ steps[i] <= now
    BY <1>1, ServicesAssumption DEF CounterTypes, WindowLives
  <2>2. window # Absent => windowLife' = Minute
    BY <1>8
  <2>3. writer[w] = "counted" => window # Absent
    BY <1>1 DEF WindowLives
  <2>4. Recent # {} => window # Absent
    BY <1>1 DEF WindowLives
  <2>5. Absent \notin Nat
    BY Amounts
  <2>6. CASE writer[w] = "counted"
    <3>1. steps' = Append(steps, now)
      BY <1>8, <2>6
    <3>2. /\ DOMAIN steps' = 1 .. Len(steps) + 1 /\ steps'[Len(steps) + 1] = now
          /\ \A i \in DOMAIN steps : steps'[i] = steps[i]
      BY <1>1, <2>1, <3>1 DEF CounterTypes
    <3>3. Recent' = Recent \cup {Len(steps) + 1} /\ Len(steps) + 1 \notin Recent
      BY <1>1, <2>1, <3>2 DEF Recent
    <3>4. Cardinality(Recent') = Cardinality(Recent) + 1
      BY <1>1, <3>3, RecentIsFinite, FS_AddElement
    <3>5. window >= Cardinality(Recent) + C
      BY <1>1, <2>3, <2>6 DEF WindowLives
    <3>6. window \in Nat /\ C \in Nat /\ Cardinality(Recent) \in Nat
      BY <2>3, <2>6, Amounts
    <3>7. window >= Cardinality(Recent') + C'
      <4> HIDE DEF C
      <4> QED
        BY <1>4, <2>6, <3>4, <3>5, <3>6
    <3>8. \A i \in DOMAIN steps' : steps'[i] <= now /\ steps'[i] \in Nat
      BY <2>1, <3>2
    <3>9. \A i \in Recent' : window # Absent /\ windowLife' # Absent /\ windowLife' >= Minute - (now - steps'[i])
      <4>1. Recent' \subseteq DOMAIN steps'
        BY DEF Recent
      <4> QED
        BY <2>1, <2>2, <2>3, <2>5, <2>6, <3>8, <4>1
    <3>10. WindowLives'
      BY <1>1, <1>6, <3>7, <3>8, <3>9 DEF WindowLives
    <3> QED
      BY <1>3, <1>5, <3>10 DEF CounterInv
  <2>7. CASE writer[w] # "counted"
    <3>1. UNCHANGED <<steps, window, now>> /\ C' = C
      BY <1>1, <1>4, <1>8, <2>7
    <3>2. Recent' = Recent
      BY <3>1 DEF Recent
    <3>3. \A i \in Recent : window # Absent /\ windowLife' # Absent /\ windowLife' >= Minute - (now - steps[i])
      <4>1. Recent \subseteq DOMAIN steps
        BY DEF Recent
      <4> QED
        BY <2>1, <2>2, <2>4, <2>5, <4>1
    <3>4. WindowLives'
      BY <1>1, <1>6, <3>1, <3>2, <3>3 DEF WindowLives
    <3> QED
      BY <1>3, <1>5, <3>4 DEF CounterInv
  <2> QED
    BY <2>6, <2>7
<1> QED
  BY <1>7, <1>8 DEF Stats!SetLife

\* A reader and a purge say nothing about the window, nor where the writers are.
LEMMA RowsKeep ==
  ASSUME CounterInv, Stats!Delete \/ \E r \in Readers : Stats!CountRows(r) \/ Stats!SetTotal(r)
  PROVE  CounterInv'
<1>1. CounterTypes /\ Bounds /\ WindowLives /\ UNCHANGED <<window, windowLife, writer, now, steps>>
  BY DEF CounterInv, Stats!Delete, Stats!CountRows, Stats!SetTotal, Stats!keys
<1>2. UNCHANGED <<At("stored"), At("counted"), Recent>>
  BY <1>1 DEF At, Recent
<1>3. WindowLives'
  BY <1>1, <1>2 DEF WindowLives
<1> DEFINE P == Cardinality(At("stored"))
<1>4. P' = P /\ P \in Nat /\ P <= Cardinality(Storing)
  BY <1>2, Amounts
<1>5. /\ \A r \in Readers : seen[r] <= rowCount + rowless
      /\ total # Absent => total + P <= rowCount + rowless + Cardinality(Storing)
      /\ Amount(window) + P <= rowCount + rowless /\ rowCount + rowless <= MaxStored
  BY <1>1 DEF Bounds
<1>6. CASE Stats!Delete
  <2>1. CounterTypes'
    BY <1>1, <1>6 DEF CounterTypes, Stats!Delete, Stats!keys
  <2>2. rowCount' + rowless' = rowCount + rowless /\ UNCHANGED <<total, window, seen>>
    BY <1>6, Amounts DEF Stats!Delete, Stats!keys
  <2>3. Bounds'
    BY <1>4, <1>5, <2>2 DEF Bounds, Amount
  <2> QED
    BY <1>3, <2>1, <2>3 DEF CounterInv
<1>7. ASSUME NEW r \in Readers, Stats!CountRows(r)
      PROVE  CounterInv'
  <2>1. CounterTypes'
    BY <1>1, <1>7 DEF CounterTypes, Stats!CountRows, Stats!keys
  <2>2. UNCHANGED <<rowCount, rowless, total, window>> /\ seen' = [seen EXCEPT ![r] = rowCount]
    BY <1>7 DEF Stats!CountRows, Stats!keys
  <2>3. \A q \in Readers : seen'[q] <= rowCount + rowless
    BY <1>5, <2>2, Amounts
  <2>4. Bounds'
    BY <1>4, <1>5, <2>2, <2>3 DEF Bounds, Amount
  <2> QED
    BY <1>3, <2>1, <2>4 DEF CounterInv
<1>8. ASSUME NEW r \in Readers, Stats!SetTotal(r)
      PROVE  CounterInv'
  <2>1. CounterTypes'
    BY <1>1, <1>8, ServicesAssumption DEF CounterTypes, Stats!SetTotal, Stats!Replaced
  <2>2. UNCHANGED <<rowCount, rowless, window>> /\ seen' = [seen EXCEPT ![r] = 0] /\ total' \in {total, seen[r]}
    BY <1>8 DEF Stats!SetTotal, Stats!Replaced
  <2>3. \A q \in Readers : seen'[q] <= rowCount + rowless
    BY <1>5, <2>2, Amounts
  <2>4. total' # Absent => total' + P <= rowCount + rowless + Cardinality(Storing)
    <3> HIDE DEF P
    <3> QED
      BY <1>4, <1>5, <2>2, Amounts
  <2>5. Bounds'
    BY <1>4, <1>5, <2>2, <2>3, <2>4 DEF Bounds, Amount
  <2> QED
    BY <1>3, <2>1, <2>5 DEF CounterInv
<1> QED
  BY <1>6, <1>7, <1>8

LEMMA TickKeeps ==
  ASSUME CounterInv, Stats!Tick
  PROVE  CounterInv'
<1>1. /\ CounterTypes /\ Bounds /\ WindowLives
      /\ UNCHANGED <<rowCount, rowless, reader, seen, steps>> /\ now' = now + 1 /\ now < MaxTime
      /\ total' \in {total, Absent} /\ window' = IF windowLife = 1 THEN Absent ELSE window
      /\ windowLife' = Stats!Lived(windowLife) /\ totalLife' = Stats!Lived(totalLife)
      /\ writer' = [w \in Storing |-> IF writer[w] = "counted" THEN "late" ELSE writer[w]]
  BY DEF CounterInv, Stats!Tick
<1>2. \A life \in 1 .. Minute \cup {Absent} : Stats!Lived(life) \in 1 .. Minute \cup {Absent}
  BY ServicesAssumption DEF Stats!Lived
<1>3. CounterTypes'
  <2>1. writer' \in [Storing -> {"idle", "stored", "counted", "late"}]
    BY <1>1 DEF CounterTypes
  <2>2. totalLife' \in 1 .. Minute \cup {Absent} /\ windowLife' \in 1 .. Minute \cup {Absent}
    BY <1>1, <1>2 DEF CounterTypes
  <2>3. now' \in 0 .. MaxTime
    BY <1>1, ServicesAssumption DEF CounterTypes
  <2> QED
    BY <1>1, <2>1, <2>2, <2>3 DEF CounterTypes
<1>4. At("stored")' = At("stored") /\ At("counted")' = {}
  BY <1>1 DEF At, CounterTypes
<1>5. Bounds'
  <2>1. Amount(window') <= Amount(window) /\ Amount(window') \in Nat /\ Amount(window) \in Nat
    <3>1. window' \in {window, Absent}
      BY <1>1
    <3>2. CASE window = Absent
      BY <3>1, <3>2 DEF Amount
    <3>3. CASE window # Absent
      <4>1. window \in Nat
        BY <3>3, Amounts
      <4> QED
        BY <3>1, <3>3, <4>1 DEF Amount
    <3> QED
      BY <3>2, <3>3
  <2> DEFINE P == Cardinality(At("stored"))
  <2>2. /\ total # Absent => total + P <= rowCount + rowless + Cardinality(Storing)
        /\ Amount(window) + P <= rowCount + rowless /\ P \in Nat /\ P' = P
    BY <1>1, <1>4, Amounts DEF Bounds
  <2>3. /\ total' # Absent => total' + P <= rowCount + rowless + Cardinality(Storing)
        /\ Amount(window') + P <= rowCount + rowless
    <3> HIDE DEF P
    <3> QED
      BY <1>1, <2>1, <2>2, Amounts
  <2> QED
    BY <1>1, <2>2, <2>3 DEF Bounds, Amount
<1>6. now \in Nat /\ Minute \in Nat /\ \A i \in DOMAIN steps : steps[i] \in Nat /\ steps[i] <= now
  BY <1>1, ServicesAssumption DEF CounterTypes, WindowLives
<1>7. Recent' \subseteq Recent
  BY <1>1, <1>6 DEF Recent
<1>8. ASSUME NEW i \in Recent'
      PROVE  window' # Absent /\ windowLife' # Absent /\ windowLife' >= Minute - (now' - steps'[i])
  <2>1. i \in DOMAIN steps /\ (now + 1) - steps[i] < Minute
    BY <1>1, <1>8 DEF Recent
  <2>2. window # Absent /\ windowLife # Absent /\ windowLife >= Minute - (now - steps[i]) /\ windowLife \in Nat
    BY <1>1, <1>7, <1>8 DEF WindowLives, CounterTypes
  <2>3. windowLife > 1
    BY <1>6, <2>1, <2>2
  <2>4. window' = window /\ windowLife' = windowLife - 1
    BY <1>1, <2>2, <2>3 DEF Stats!Lived
  <2> QED
    BY <1>1, <1>6, <2>1, <2>2, <2>3, <2>4, Amounts
<1>9. window' # Absent => window' >= Cardinality(Recent') + Cardinality(At("counted")')
  <2>1. Cardinality(Recent') <= Cardinality(Recent) /\ Cardinality(Recent') \in Nat
    BY <1>1, <1>7, RecentIsFinite, FS_Subset, FS_CardinalityType
  <2>2. Cardinality(At("counted")') = 0
    BY <1>4, FS_EmptySet
  <2>3. window' # Absent => window' = window /\ window \in Nat /\ window >= Cardinality(Recent) + Cardinality(At("counted"))
    BY <1>1, Amounts DEF WindowLives
  <2> HIDE DEF Recent, At
  <2> QED
    BY <2>1, <2>2, <2>3, Amounts
<1>10. WindowLives'
  <2>1. \A w \in Storing : writer'[w] # "counted"
    BY <1>1 DEF CounterTypes
  <2>2. \A i \in DOMAIN steps' : steps'[i] <= now'
    BY <1>1, <1>6
  <2> QED
    BY <1>8, <1>9, <2>1, <2>2 DEF WindowLives
<1> QED
  BY <1>3, <1>5, <1>10 DEF CounterInv

LEMMA CounterFirst == Stats!Init => CounterInv
<1> SUFFICES ASSUME Stats!Init PROVE CounterInv
  OBVIOUS
<1>1. CounterTypes
  BY ServicesAssumption DEF Stats!Init, CounterTypes
<1>2. At("stored") = {} /\ At("counted") = {} /\ Recent = {}
  BY DEF Stats!Init, At, Recent
<1>3. Bounds
  <2>1. Cardinality(At("stored")) = 0 /\ Cardinality(Storing) \in Nat /\ MaxStored \in Nat
    BY <1>2, ServicesAssumption, FS_EmptySet, FS_CardinalityType
  <2> QED
    BY <2>1 DEF Stats!Init, Bounds, Amount
<1>4. WindowLives
  BY <1>2 DEF Stats!Init, WindowLives
<1> QED
  BY <1>1, <1>3, <1>4 DEF CounterInv

LEMMA CounterNext == CounterInv /\ Stats!Next => CounterInv'
  BY StoreKeeps, CountKeeps, SetLifeKeeps, RowsKeep, TickKeeps DEF Stats!Next

LEMMA CounterStays == CounterInv /\ UNCHANGED statsVars => CounterInv'
  BY DEF CounterInv, CounterTypes, Bounds, WindowLives, At, Recent, Amount, statsVars

LEMMA CounterShows == CounterInv => Stats!TypeOK /\ Stats!CountersBounded
<1> SUFFICES ASSUME CounterInv PROVE Stats!TypeOK /\ Stats!CountersBounded
  OBVIOUS
<1>1. CounterTypes /\ Bounds /\ WindowLives
  BY DEF CounterInv
<1> DEFINE P == Cardinality(At("stored"))
<1>2. /\ total # Absent => total + P <= rowCount + rowless + Cardinality(Storing)
      /\ Amount(window) + P <= rowCount + rowless /\ P \in Nat
      /\ \A r \in Readers : seen[r] <= rowCount + rowless
      /\ rowCount + rowless <= MaxStored
  BY <1>1, Amounts DEF Bounds
<1> HIDE DEF P
<1>3. Stats!TypeOK
  <2>1. total \in Stats!Amounts \cup {Absent} /\ window \in Stats!Amounts \cup {Absent}
    <3>1. window # Absent => window <= MaxStored
      BY <1>2, Amounts DEF Amount
    <3>2. total # Absent => total <= MaxStored + Cardinality(Storing)
      BY <1>2, Amounts
    <3>3. Stats!Amounts = 0 .. 2 * MaxStored + Cardinality(Storing)
      BY SameCount DEF Stats!Amounts
    <3> QED
      BY <3>1, <3>2, <3>3, Amounts
  <2>2. seen \in [Readers -> 0 .. MaxStored]
    BY <1>2, Amounts
  <2>3. rowCount \in 0 .. MaxStored /\ rowless \in 0 .. MaxStored
    BY <1>2, Amounts
  <2> QED
    BY <1>1, <2>1, <2>2, <2>3 DEF Stats!TypeOK, CounterTypes
<1>4. Stats!TotalNeverAhead
  <2>1. total # Absent => total <= rowCount + rowless + Cardinality(Storing)
    BY <1>2, Amounts
  <2> QED
    BY <2>1, SameCount DEF Stats!TotalNeverAhead
<1>5. Stats!WindowHasRecent
  <2>1. Recent # {} => window # Absent
    BY <1>1 DEF WindowLives
  <2>2. window # Absent => window >= Cardinality(Recent) + Cardinality(At("counted"))
    BY <1>1 DEF WindowLives
  <2>3. window # Absent => window >= Cardinality(Recent)
    <3> HIDE DEF Recent, At
    <3> QED
      BY <2>2, Amounts
  <2> QED
    BY <2>1, <2>3, SameCount DEF Stats!WindowHasRecent, Recent
<1> QED
  BY <1>3, <1>4, <1>5 DEF Stats!CountersBounded

-----------------------------------------------------------------------------
(* All of them *)

ServicesInv == ResolverInv /\ Ingester!TypeOK /\ CounterInv /\ AnswersInv /\ Caches!TypeOK

LEMMA ServicesFirst == ServicesInit => ServicesInv
<1> SUFFICES ASSUME ServicesInit PROVE ServicesInv
  OBVIOUS
<1>1. ResolverInv /\ CounterInv /\ AnswersInv
  BY ResolverFirst, CounterFirst, FirstState DEF ServicesInit, AnswersInv
<1>2. Ingester!TypeOK
  <2>1. channel \in Seq(Events) /\ Len(channel) <= ChannelCap
    BY ServicesAssumption DEF ServicesInit, Ingester!Init
  <2>2. /\ loop \in [Relays -> {"connect", "subscribe", "read", "send", "backoff", "ended"}]
        /\ held \in [Relays -> Events \cup {None}]
        /\ \A r \in Relays : held[r] # None <=> loop[r] = "send"
    BY DEF ServicesInit, Ingester!Init
  <2> QED
    BY <2>1, <2>2 DEF ServicesInit, Ingester!Init, Ingester!TypeOK
<1>3. Caches!TypeOK
  BY ServicesAssumption DEF ServicesInit, Caches!Init, Caches!TypeOK, Caches!Versions
<1> QED
  BY <1>1, <1>2, <1>3 DEF ServicesInv

\* What a service that stands still keeps.
LEMMA OthersStay ==
  /\ Ingester!TypeOK /\ UNCHANGED ingesterVars /\ shutdown' \in BOOLEAN => Ingester!TypeOK'
  /\ Caches!TypeOK /\ UNCHANGED cachesVars /\ faults' \in 0 .. MaxFaults => Caches!TypeOK'
  /\ AnswersInv /\ UNCHANGED answersVars => AnswersInv'
<1>1. Ingester!TypeOK /\ UNCHANGED ingesterVars /\ shutdown' \in BOOLEAN => Ingester!TypeOK'
  BY DEF Ingester!TypeOK, ingesterVars
<1>2. Caches!TypeOK /\ UNCHANGED cachesVars /\ faults' \in 0 .. MaxFaults => Caches!TypeOK'
  BY DEF Caches!TypeOK, Caches!Versions, cachesVars
<1>3. AnswersInv /\ UNCHANGED answersVars => AnswersInv'
  BY AnswersNext DEF answersVars
<1> QED
  BY <1>1, <1>2, <1>3

LEMMA ServicesKeep == ServicesInv /\ [ServicesNext]_allVars => ServicesInv'
<1> SUFFICES ASSUME ServicesInv, [ServicesNext]_allVars PROVE ServicesInv'
  OBVIOUS
<1> USE DEF ServicesInv
<1>1. shutdown \in BOOLEAN /\ faults \in 0 .. MaxFaults
  BY DEF ResolverInv, Resolver!TypeOK
<1>2. CASE UNCHANGED allVars
  BY <1>1, <1>2, ResolverStays, CounterStays, OthersStay DEF allVars
<1>3. CASE Resolving(Resolver!Next)
  <2>1. ResolverInv' /\ UNCHANGED <<ingesterVars, statsVars, answersVars, cachesVars>>
    BY <1>3, ResolverNext DEF Resolving
  <2>2. shutdown' \in BOOLEAN /\ faults' \in 0 .. MaxFaults
    BY <2>1 DEF ResolverInv, Resolver!TypeOK
  <2> QED
    BY <2>1, <2>2, CounterStays, OthersStay
<1>4. CASE Ingests(Ingester!Next)
  <2>1. Ingester!TypeOK' /\ UNCHANGED <<resolverVars, faults, statsVars, answersVars, cachesVars>>
    BY <1>4, IngesterTypes DEF Ingests
  <2>2. shutdown' \in BOOLEAN
    BY <2>1 DEF Ingester!TypeOK
  <2> QED
    BY <1>1, <2>1, <2>2, ResolverStays, CounterStays, OthersStay
<1>5. CASE Counting(Stats!Next)
  BY <1>1, <1>5, CounterNext, ResolverStays, OthersStay DEF Counting
<1>6. CASE Answering(Next)
  BY <1>1, <1>6, AnswersNext, ResolverStays, CounterStays, OthersStay DEF Answering
<1>7. CASE Caching(Caches!Next)
  <2>1. Caches!TypeOK' /\ UNCHANGED <<resolverVars, shutdown, ingesterVars, statsVars, answersVars>>
    BY <1>7, CachesTypes DEF Caching
  <2>2. faults' \in 0 .. MaxFaults
    BY <2>1 DEF Caches!TypeOK
  <2> QED
    BY <1>1, <2>1, <2>2, ResolverStays, CounterStays, OthersStay
<1> QED
  BY <1>2, <1>3, <1>4, <1>5, <1>6, <1>7 DEF ServicesNext

LEMMA ServicesInvariant == ServicesSpec => []ServicesInv
  BY ServicesFirst, ServicesKeep, PTL DEF ServicesSpec

\* Every service keeps its types, whichever of them runs.
THEOREM ServicesTypeCorrect == ServicesSpec => []TypesOK
<1>1. ServicesInv => TypesOK
  BY ResolverShows, CounterShows DEF ServicesInv, AnswersInv, TypesOK
<1> QED
  BY <1>1, ServicesInvariant, PTL

\* However sightings, drops, failed queries and batches overlap (metadata.rs): a pubkey
\* that was sighted is queued, in hand, attempted, or was dropped for a named cause,
\* and the relays are asked for it three times at most before the set is trimmed.
THEOREM SightingsAccounted == ServicesSpec => []ResolverAccounts
<1>1. ServicesInv => ResolverAccounts
  BY ResolverShows DEF ServicesInv
<1> QED
  BY <1>1, ServicesInvariant, PTL

\* However INSERT, MULTI, EXPIRE, the counting of rows and purges interleave
\* (cache/mod.rs:52-86, 139-182): total_events is ahead of the rows ever stored by one
\* for each task that stores at most, and the window holds what it should.
THEOREM CountersInBounds == ServicesSpec => []CountersBounded
<1>1. ServicesInv => CountersBounded
  BY CounterShows DEF ServicesInv, CountersBounded
<1> QED
  BY <1>1, ServicesInvariant, PTL

\* StaleIsLate, among the other services.
THEOREM StaleIsLateThere == ServicesSpec => []StaleAnswerIsLate
<1>1. ServicesInv => StaleAnswerIsLate
  BY DEF ServicesInv, AnswersInv
<1> QED
  BY <1>1, ServicesInvariant, PTL
=============================================================================
