----------------------------- MODULE FetcherProof -----------------------------
(***************************************************************************)
(* Proofs about Fetcher for any number of requests, keys and relays, with  *)
(* cancelled requests and stalled connections.                             *)
(*                                                                         *)
(* OneFetchPerKey is not inductive.  Coalescing adds why it holds: the     *)
(* map has the Notify of every running fetch under its key, and no two     *)
(* fetches have the same Notify because a new one is younger than all.     *)
(***************************************************************************)
EXTENDS Fetcher, TLAPS

LEMMA FirstState == Init => TypeOK /\ RelaysLeft /\ Coalescing
  BY FetcherAssumption DEF Init, TypeOK, Steps, Leading, RelaysLeft, Coalescing, RequestHasKey,
     TokensAreOld, LeaderHasEntry, LeadersDiffer

\* What Return does to each request.
LEMMA ReturnEach ==
  ASSUME TypeOK, NEW c \in Callers, NEW a, Return(c, a)
  PROVE  /\ pc'[c] = "idle" /\ token'[c] = 0
         /\ \A d \in Callers : d # c =>
               pc'[d] = pc[d] /\ key'[d] = key[d] /\ token'[d] = token[d]
  BY Zenon DEF Return, Goto, TypeOK

\* A step that gives no request a new Notify, changes no entry of the map and
\* makes no request a leader.
LEMMA Keeps ==
  ASSUME TypeOK, Coalescing, UNCHANGED <<inflight, tokens>>, token' \in [Callers -> Nat],
         \A d \in Callers :
            \/ /\ key'[d] = key[d] /\ token'[d] = token[d]
               /\ pc'[d] \in Leading => pc[d] \in Leading
               /\ pc[d] = "idle" => pc'[d] = "idle"
            \/ pc'[d] = "idle" /\ token'[d] = 0
  PROVE  Coalescing'
<1> USE DEF Coalescing
<1>1. "idle" \notin Leading
  BY DEF Leading
<1>2. RequestHasKey'
  BY DEF RequestHasKey
<1>3. TokensAreOld'
  BY DEF TokensAreOld, TypeOK
<1>4. LeaderHasEntry'
  BY <1>1 DEF LeaderHasEntry
<1>5. LeadersDiffer'
  BY <1>1 DEF LeadersDiffer
<1> QED
  BY <1>2, <1>3, <1>4, <1>5

-----------------------------------------------------------------------------
Outcomes == {"none", "hit", "miss", "error"}

\* The variables of requests stay well typed when one of them returns.
LEMMA ReturnType ==
  ASSUME TypeOK, RelaysLeft, NEW c \in Callers, NEW a \in Outcomes, Return(c, a)
  PROVE  /\ pc' \in [Callers -> Steps]
         /\ key' \in [Callers -> Keys \cup {None}]
         /\ token' \in [Callers -> Nat]
         /\ left' \in [Callers -> 0 .. MaxRelays]
         /\ got' \in [Callers -> BOOLEAN]
         /\ outcome' \in [Callers -> Outcomes]
         /\ answer' \in [Callers -> Outcomes]
         /\ RelaysLeft'
<1> USE FetcherAssumption DEF Return, Goto, TypeOK, Outcomes
<1>1. pc' \in [Callers -> Steps] /\ key' \in [Callers -> Keys \cup {None}]
  BY DEF Steps
<1>2. token' \in [Callers -> Nat] /\ left' \in [Callers -> 0 .. MaxRelays]
  OBVIOUS
<1>3. got' \in [Callers -> BOOLEAN]
  OBVIOUS
<1>4. outcome' \in [Callers -> Outcomes] /\ answer' \in [Callers -> Outcomes]
  OBVIOUS
<1>5. RelaysLeft'
  BY DEF RelaysLeft
<1> QED
  BY <1>1, <1>2, <1>3, <1>4, <1>5

LEMMA TypeNext == TypeOK /\ RelaysLeft /\ Coalescing /\ [Next]_vars => TypeOK' /\ RelaysLeft'
<1> SUFFICES ASSUME TypeOK, RelaysLeft, Coalescing, [Next]_vars
             PROVE  TypeOK' /\ RelaysLeft'
    OBVIOUS
<1> USE FetcherAssumption DEF bounds, reqVars
\* Steps that end a request.
<1>1. ASSUME NEW c \in Callers, NEW a \in Outcomes, Return(c, a),
             UNCHANGED <<db, inflight, tokens, requests, stalls, expiries>>,
             miss' \subseteq Keys, cancels' \in Nat
      PROVE  TypeOK' /\ RelaysLeft'
    BY <1>1, ReturnType DEF TypeOK, Outcomes
<1>2. ASSUME NEW c \in Callers, NEW k \in Keys, Request(c, k)
      PROVE  TypeOK' /\ RelaysLeft'
    BY <1>2 DEF Request, Goto, TypeOK, Steps, RelaysLeft
<1>3. ASSUME NEW c \in Callers, CheckMiss(c)
      PROVE  TypeOK' /\ RelaysLeft'
  <2>1. CASE Return(c, "miss")
    <3>1. UNCHANGED <<db, miss, inflight, tokens, requests, stalls, expiries, cancels>>
      BY <1>3, Zenon DEF CheckMiss
    <3> QED
      BY <1>1, <2>1, <3>1 DEF TypeOK, Outcomes
  <2>2. CASE Goto(c, "lookup") /\ UNCHANGED <<key, token, left, got, outcome, answer>>
    <3>1. UNCHANGED <<db, miss, inflight, tokens, bounds>>
      BY <1>3, Zenon DEF CheckMiss
    <3> QED
      BY <2>2, <3>1 DEF Goto, TypeOK, Steps, RelaysLeft
  <2> QED
    BY <1>3, <2>1, <2>2, Zenon DEF CheckMiss
<1>4. ASSUME NEW c \in Callers, LookupInflight(c)
      PROVE  TypeOK' /\ RelaysLeft'
  <2>1. key[c] \in Keys
    BY <1>4 DEF LookupInflight, Coalescing, RequestHasKey
  <2> QED
    BY <1>4, <2>1 DEF LookupInflight, Lead, Goto, TypeOK, Steps, RelaysLeft, Leading
<1>5. ASSUME NEW c \in Callers, RegisterWaiter(c)
      PROVE  TypeOK' /\ RelaysLeft'
    BY <1>5 DEF RegisterWaiter, Goto, TypeOK, Steps, RelaysLeft
<1>6. ASSUME NEW c \in Callers, Reread(c)
      PROVE  TypeOK' /\ RelaysLeft'
  <2>1. \E a \in Outcomes : Return(c, a)
    BY <1>6, Zenon DEF Reread, Outcomes
  <2>2. UNCHANGED <<db, miss, inflight, tokens, requests, stalls, expiries, cancels>>
    BY <1>6, Zenon DEF Reread
  <2> QED
    BY <1>1, <2>1, <2>2 DEF TypeOK
<1>7. ASSUME NEW c \in Callers, Connect(c)
      PROVE  TypeOK' /\ RelaysLeft'
    BY <1>7 DEF Connect, NextRelay, Goto, TypeOK, Steps, RelaysLeft, Leading
<1>8. ASSUME NEW c \in Callers, Stall(c)
      PROVE  TypeOK' /\ RelaysLeft'
    BY <1>8 DEF Stall, Goto, TypeOK, Steps, RelaysLeft, Leading
<1>9. ASSUME NEW c \in Callers, ReceiveEvent(c)
      PROVE  TypeOK' /\ RelaysLeft'
    BY <1>9 DEF ReceiveEvent, TypeOK, RelaysLeft
<1>10. ASSUME NEW c \in Callers, EndRead(c)
       PROVE  TypeOK' /\ RelaysLeft'
  <2>1. pc[c] = "read"
        /\ UNCHANGED <<db, miss, inflight, key, token, outcome, answer, tokens, bounds>>
    BY <1>10, Zenon DEF EndRead
  <2>2. CASE pc' = [pc EXCEPT ![c] = "store"] /\ UNCHANGED <<left, got>>
    BY <2>1, <2>2 DEF TypeOK, Steps, RelaysLeft, Leading
  <2>3. CASE NextRelay(c) /\ got' = [got EXCEPT ![c] = FALSE]
    BY <2>1, <2>3 DEF NextRelay, Goto, TypeOK, Steps, RelaysLeft, Leading
  <2> QED
    BY <1>10, <2>2, <2>3, Zenon DEF EndRead, Goto
<1>11. ASSUME NEW c \in Callers, StoreFetched(c)
       PROVE  TypeOK' /\ RelaysLeft'
  <2>1. key[c] \in Keys
    BY <1>11 DEF StoreFetched, Coalescing, RequestHasKey
  <2>2. db' \subseteq Keys
    BY <1>11, <2>1 DEF StoreFetched, TypeOK
  <2>3. \E o \in Outcomes : outcome' = [outcome EXCEPT ![c] = o]
    BY <1>11 DEF StoreFetched, Outcomes
  <2>4. pc' = [pc EXCEPT ![c] = "clear"]
        /\ UNCHANGED <<miss, inflight, key, token, left, got, answer, tokens, bounds>>
    BY <1>11, Zenon DEF StoreFetched, Goto
  <2> QED
    BY <2>2, <2>3, <2>4 DEF TypeOK, Steps, Outcomes, RelaysLeft, Leading
<1>12. ASSUME NEW c \in Callers, ClearInflight(c)
       PROVE  TypeOK' /\ RelaysLeft'
    BY <1>12 DEF ClearInflight, Goto, TypeOK, Steps, RelaysLeft
<1>13. ASSUME NEW c \in Callers, NotifyWaiters(c)
       PROVE  TypeOK' /\ RelaysLeft'
    BY <1>13 DEF NotifyWaiters, TypeOK, Steps, RelaysLeft
<1>14. ASSUME NEW c \in Callers, RememberMiss(c)
       PROVE  TypeOK' /\ RelaysLeft'
  <2>1. key[c] \in Keys
    BY <1>14 DEF RememberMiss, Coalescing, RequestHasKey
  <2>2. miss' \subseteq Keys
    BY <1>14, <2>1 DEF RememberMiss, TypeOK
  <2>3. outcome[c] \in Outcomes
    BY DEF TypeOK, Outcomes
  <2>4. Return(c, outcome[c]) /\ UNCHANGED <<db, inflight, tokens, requests, stalls, expiries, cancels>>
    BY <1>14, Zenon DEF RememberMiss
  <2> QED
    BY <1>1, <2>2, <2>3, <2>4 DEF TypeOK
<1>15. ASSUME NEW c \in Callers, Cancel(c)
       PROVE  TypeOK' /\ RelaysLeft'
  <2>1. Return(c, "none") /\ UNCHANGED <<db, miss, inflight, tokens, requests, stalls, expiries>>
        /\ cancels' = cancels + 1
    BY <1>15, Zenon DEF Cancel
  <2> QED
    BY <1>1, <2>1 DEF TypeOK, Outcomes
<1>16. ASSUME NEW k \in Keys, ExpireMiss(k) \/ StoreElsewhere(k)
       PROVE  TypeOK' /\ RelaysLeft'
    BY <1>16 DEF ExpireMiss, StoreElsewhere, TypeOK, RelaysLeft
<1>17. CASE UNCHANGED vars
    BY <1>17 DEF vars, TypeOK, RelaysLeft
<1> QED
  BY <1>2, <1>3, <1>4, <1>5, <1>6, <1>7, <1>8, <1>9, <1>10, <1>11, <1>12, <1>13, <1>14,
     <1>15, <1>16, <1>17 DEF Next, Serve

-----------------------------------------------------------------------------
LEMMA CoalescingNext == TypeOK /\ TypeOK' /\ Coalescing /\ [Next]_vars => Coalescing'
<1> SUFFICES ASSUME TypeOK, TypeOK', Coalescing, [Next]_vars
             PROVE  Coalescing'
    OBVIOUS
<1>0. token' \in [Callers -> Nat]
  BY DEF TypeOK
\* A request starts.
<1>1. ASSUME NEW c \in Callers, NEW k \in Keys, Request(c, k)
      PROVE  Coalescing'
  <2>1. /\ UNCHANGED <<inflight, token, tokens>>
        /\ pc'[c] = "cache" /\ key'[c] = k
        /\ \A d \in Callers : d # c => pc'[d] = pc[d] /\ key'[d] = key[d]
    BY <1>1, Zenon DEF Request, Goto, TypeOK
  <2>2. pc'[c] \notin Leading
    BY <2>1 DEF Leading
  <2> QED
    BY <2>1, <2>2 DEF Coalescing, RequestHasKey, TokensAreOld, LeaderHasEntry, LeadersDiffer
\* A request ends.
<1>2. ASSUME NEW c \in Callers, NEW a, Return(c, a), UNCHANGED <<inflight, tokens>>
      PROVE  Coalescing'
    BY <1>0, <1>2, ReturnEach, Keeps
\* A request moves on within its fetch, or outside one.
<1>3. ASSUME NEW c \in Callers, NEW s, pc[c] # "idle",
             s \in Leading => pc[c] \in Leading,
             pc' = [pc EXCEPT ![c] = s], UNCHANGED <<inflight, key, token, tokens>>
      PROVE  Coalescing'
  <2>1. \A d \in Callers : pc'[d] = IF d = c THEN s ELSE pc[d]
    BY <1>3, Zenon DEF TypeOK
  <2> QED
    BY <1>0, <1>3, <2>1, Keeps
\* A new fetch gets a Notify that is younger than all others.
<1>4. ASSUME NEW c \in Callers, pc[c] = "lookup", inflight[key[c]] = 0, Lead(c), UNCHANGED key
      PROVE  Coalescing'
  <2>1. key[c] \in Keys
    BY <1>4 DEF Coalescing, RequestHasKey
  <2>2. tokens' = tokens + 1 /\ tokens \in Nat
    BY <1>4, Zenon DEF Lead, TypeOK
  <2>3. \A k \in Keys : inflight'[k] = IF k = key[c] THEN tokens + 1 ELSE inflight[k]
    BY <1>4, Zenon DEF Lead, TypeOK
  <2>4. \A d \in Callers : /\ token'[d] = IF d = c THEN tokens + 1 ELSE token[d]
                           /\ pc'[d] = IF d = c THEN "connect" ELSE pc[d]
    BY <1>4, Zenon DEF Lead, Goto, TypeOK
  <2>5. \A d \in Callers : token[d] \in Nat /\ token[d] <= tokens
    BY DEF Coalescing, TokensAreOld, TypeOK
  <2>6. \A k \in Keys : inflight[k] \in Nat /\ inflight[k] <= tokens
    BY DEF Coalescing, TokensAreOld, TypeOK
  <2>7. TokensAreOld'
    BY <2>2, <2>3, <2>4, <2>5, <2>6 DEF TokensAreOld
  <2>8. RequestHasKey'
    BY <1>4, <2>1, <2>4 DEF Coalescing, RequestHasKey
  \* An old fetch for this key would have its token in the map, but there is none.
  <2>9. ASSUME NEW d \in Callers, pc[d] \in Leading
        PROVE  /\ token[d] # 0 /\ inflight[key[d]] = token[d] /\ key[d] \in Keys
               /\ key[d] # key[c]
    BY <1>4, <2>9 DEF Coalescing, LeaderHasEntry, RequestHasKey, Leading
  <2>10. LeaderHasEntry'
    BY <1>4, <2>1, <2>2, <2>3, <2>4, <2>9 DEF LeaderHasEntry
  <2>11. LeadersDiffer'
    BY <2>2, <2>4, <2>5 DEF Coalescing, LeadersDiffer
  <2> QED
    BY <2>7, <2>8, <2>10, <2>11 DEF Coalescing
\* A request copies the Notify of the fetch that is running.
<1>5. ASSUME NEW c \in Callers, pc[c] = "lookup",
             token' = [token EXCEPT ![c] = inflight[key[c]]], pc' = [pc EXCEPT ![c] = "join"],
             UNCHANGED <<inflight, key, tokens>>
      PROVE  Coalescing'
  <2>1. key[c] \in Keys
    BY <1>5 DEF Coalescing, RequestHasKey
  <2>2. \A d \in Callers : /\ token'[d] = IF d = c THEN inflight[key[c]] ELSE token[d]
                           /\ pc'[d] = IF d = c THEN "join" ELSE pc[d]
    BY <1>5, Zenon DEF TypeOK
  <2>3. "join" \notin Leading
    BY DEF Leading
  <2>4. RequestHasKey' /\ TokensAreOld'
    BY <1>5, <2>1, <2>2 DEF Coalescing, RequestHasKey, TokensAreOld
  <2>5. LeaderHasEntry' /\ LeadersDiffer'
    BY <1>5, <2>2, <2>3 DEF Coalescing, LeaderHasEntry, LeadersDiffer
  <2> QED
    BY <2>4, <2>5 DEF Coalescing
\* A fetch removes its own entry and no other's.
<1>6. ASSUME NEW c \in Callers, ClearInflight(c)
      PROVE  Coalescing'
  <2>1. pc[c] = "clear" /\ UNCHANGED <<key, token, tokens>>
    BY <1>6, Zenon DEF ClearInflight
  <2>2. pc[c] \in Leading /\ "notify" \notin Leading
    BY <2>1 DEF Leading
  <2>3. key[c] \in Keys
    BY <2>1 DEF Coalescing, RequestHasKey
  <2>4. \A d \in Callers : pc'[d] = IF d = c THEN "notify" ELSE pc[d]
    BY <1>6, Zenon DEF ClearInflight, Goto, TypeOK
  <2>5. \A k \in Keys : inflight'[k] = IF k = key[c] THEN 0 ELSE inflight[k]
    BY <1>6, Zenon DEF ClearInflight, TypeOK
  <2>6. ASSUME NEW d \in Callers, pc[d] \in Leading, d # c
        PROVE  key[d] \in Keys /\ key[d] # key[c]
    BY <2>2, <2>6 DEF Coalescing, LeaderHasEntry, LeadersDiffer, RequestHasKey, Leading
  <2>7. RequestHasKey'
    BY <2>1, <2>3, <2>4 DEF Coalescing, RequestHasKey
  <2>8. TokensAreOld'
    BY <2>1, <2>5 DEF Coalescing, TokensAreOld, TypeOK
  <2>9. LeaderHasEntry'
    BY <2>1, <2>2, <2>4, <2>5, <2>6 DEF Coalescing, LeaderHasEntry
  <2>10. LeadersDiffer'
    BY <2>1, <2>2, <2>4 DEF Coalescing, LeadersDiffer
  <2> QED
    BY <2>7, <2>8, <2>9, <2>10 DEF Coalescing
\* Waiters that are woken lead nothing.
<1>7. ASSUME NEW c \in Callers, NotifyWaiters(c)
      PROVE  Coalescing'
  <2>1. pc[c] = "notify" /\ UNCHANGED <<inflight, key, token, tokens>>
    BY <1>7, Zenon DEF NotifyWaiters
  <2>2. \A d \in Callers : \/ pc'[d] = pc[d]
                           \/ pc[d] # "idle" /\ pc'[d] \in {"remember", "reread"}
    BY <1>7, <2>1 DEF NotifyWaiters
  <2>3. "remember" \notin Leading /\ "reread" \notin Leading
    BY DEF Leading
  <2> QED
    BY <1>0, <2>1, <2>2, <2>3, Keeps
<1>8. CASE UNCHANGED <<inflight, pc, key, token, tokens>>
    BY <1>0, <1>8, Keeps
\* Every action is one of these.
<1>9. ASSUME NEW c \in Callers, Serve(c)
      PROVE  Coalescing'
  <2> USE DEF Goto
  <2>1. CASE CheckMiss(c)
    <3>1. CASE Return(c, "miss")
      BY <1>2, <2>1, <3>1, Zenon DEF CheckMiss
    <3>2. CASE pc' = [pc EXCEPT ![c] = "lookup"] /\ UNCHANGED <<key, token>>
      <4>1. "lookup" \notin Leading
        BY DEF Leading
      <4>2. pc[c] # "idle" /\ UNCHANGED <<inflight, tokens>>
        BY <2>1 DEF CheckMiss, bounds
      <4> QED
        BY <1>3, <3>2, <4>1, <4>2
    <3> QED
      BY <2>1, <3>1, <3>2, Zenon DEF CheckMiss
  <2>2. CASE LookupInflight(c)
    BY <1>4, <1>5, <2>2, Zenon DEF LookupInflight
  <2>3. CASE RegisterWaiter(c)
    <3>1. "waiting" \notin Leading
      BY DEF Leading
    <3>2. pc[c] # "idle" /\ pc' = [pc EXCEPT ![c] = "waiting"]
          /\ UNCHANGED <<inflight, key, token, tokens>>
      BY <2>3 DEF RegisterWaiter
    <3> QED
      BY <1>3, <3>1, <3>2
  <2>4. CASE Reread(c)
    BY <1>2, <2>4, Zenon DEF Reread
  <2>5. CASE Connect(c) \/ EndRead(c) \/ StoreFetched(c)
    <3>1. pc[c] \in Leading /\ pc[c] # "idle"
      BY <2>5 DEF Connect, EndRead, StoreFetched, Leading
    <3>2. \E s \in Leading : pc' = [pc EXCEPT ![c] = s]
      BY <2>5 DEF Connect, EndRead, StoreFetched, NextRelay, Leading
    <3>3. UNCHANGED <<inflight, key, token, tokens>>
      BY <2>5, Zenon DEF Connect, EndRead, StoreFetched
    <3> QED
      BY <1>3, <3>1, <3>2, <3>3
  <2>6. CASE ClearInflight(c)
    BY <1>6, <2>6
  <2>7. CASE NotifyWaiters(c)
    BY <1>7, <2>7
  <2>8. CASE RememberMiss(c)
    BY <1>2, <2>8, Zenon DEF RememberMiss
  <2> QED
    BY <1>9, <2>1, <2>2, <2>3, <2>4, <2>5, <2>6, <2>7, <2>8 DEF Serve
<1>10. ASSUME NEW c \in Callers, ReceiveEvent(c)
       PROVE  Coalescing'
    BY <1>8, <1>10 DEF ReceiveEvent
<1>11. ASSUME NEW c \in Callers, Stall(c)
       PROVE  Coalescing'
  <2>1. pc[c] \in Leading /\ pc[c] # "idle" /\ pc' = [pc EXCEPT ![c] = "stalled"]
        /\ UNCHANGED <<inflight, key, token, tokens>>
    BY <1>11 DEF Stall, Goto, Leading
  <2> QED
    BY <1>3, <2>1
<1>12. ASSUME NEW c \in Callers, Cancel(c)
       PROVE  Coalescing'
    BY <1>2, <1>12, Zenon DEF Cancel
<1>13. ASSUME NEW k \in Keys, ExpireMiss(k) \/ StoreElsewhere(k)
       PROVE  Coalescing'
    BY <1>8, <1>13 DEF ExpireMiss, StoreElsewhere, reqVars
<1>14. CASE UNCHANGED vars
    BY <1>8, <1>14 DEF vars, reqVars
<1> QED
  BY <1>1, <1>9, <1>10, <1>11, <1>12, <1>13, <1>14 DEF Next

-----------------------------------------------------------------------------
\* An entry whose fetch is not cancelled is removed by that fetch: the map never
\* holds an entry that nobody works on.
LEMMA EntryHasLeaderNext ==
  TypeOK /\ TypeOK' /\ Coalescing /\ EntryHasLeader /\ [Next]_vars => EntryHasLeader'
<1> SUFFICES ASSUME TypeOK, TypeOK', Coalescing, EntryHasLeader, [Next]_vars,
                    cancels' = 0, NEW k \in Keys, inflight'[k] # 0
             PROVE  \E d \in Callers : Fetching(d, k)' /\ token'[d] = inflight'[k]
    BY Zenon DEF EntryHasLeader
<1> USE DEF Fetching
<1>1. cancels = 0
  BY DEF Next, Serve, Request, CheckMiss, LookupInflight, RegisterWaiter, Reread, Connect, EndRead,
         StoreFetched, ClearInflight, NotifyWaiters, RememberMiss, Stall, ReceiveEvent,
         Cancel, ExpireMiss, StoreElsewhere, bounds, vars, TypeOK
\* Steps that keep the map and every fetch.
<1>2. ASSUME UNCHANGED inflight,
             \A d \in Callers : pc[d] \in Leading =>
                pc'[d] \in Leading /\ key'[d] = key[d] /\ token'[d] = token[d]
      PROVE  \E d \in Callers : Fetching(d, k)' /\ token'[d] = inflight'[k]
    BY <1>1, <1>2 DEF EntryHasLeader
<1>3. ASSUME NEW c \in Callers, NEW a, pc[c] \notin Leading, Return(c, a), UNCHANGED inflight
      PROVE  \E d \in Callers : Fetching(d, k)' /\ token'[d] = inflight'[k]
    BY <1>2, <1>3, ReturnEach
<1>4. ASSUME NEW c \in Callers, NEW s, pc' = [pc EXCEPT ![c] = s],
             pc[c] \in Leading => s \in Leading, UNCHANGED <<inflight, key, token>>
      PROVE  \E d \in Callers : Fetching(d, k)' /\ token'[d] = inflight'[k]
  <2>1. \A d \in Callers : pc'[d] = IF d = c THEN s ELSE pc[d]
    BY <1>4, Zenon DEF TypeOK
  <2> QED
    BY <1>2, <1>4, <2>1
<1>5. ASSUME NEW c \in Callers, NEW j \in Keys, Request(c, j)
      PROVE  \E d \in Callers : Fetching(d, k)' /\ token'[d] = inflight'[k]
  <2>1. pc[c] \notin Leading /\ UNCHANGED <<inflight, token>>
        /\ \A d \in Callers : d # c => pc'[d] = pc[d] /\ key'[d] = key[d]
    BY <1>5 DEF Request, Goto, TypeOK, Leading
  <2> QED
    BY <1>2, <2>1
<1>6. ASSUME NEW c \in Callers, CheckMiss(c)
      PROVE  \E d \in Callers : Fetching(d, k)' /\ token'[d] = inflight'[k]
  <2>1. pc[c] \notin Leading
    BY <1>6 DEF CheckMiss, Leading
  <2> QED
    BY <1>3, <1>4, <1>6, <2>1, Zenon DEF CheckMiss, Goto
\* The new entry is its maker's; the others keep their fetches.
<1>7. ASSUME NEW c \in Callers, LookupInflight(c)
      PROVE  \E d \in Callers : Fetching(d, k)' /\ token'[d] = inflight'[k]
  <2>1. pc[c] = "lookup" /\ UNCHANGED key
    BY <1>7 DEF LookupInflight
  <2>2. pc[c] \notin Leading /\ key[c] \in Keys
    BY <2>1 DEF Leading, Coalescing, RequestHasKey
  <2>3. CASE Lead(c)
    <3>1. \A d \in Callers : /\ token'[d] = IF d = c THEN tokens + 1 ELSE token[d]
                             /\ pc'[d] = IF d = c THEN "connect" ELSE pc[d]
      BY <2>3, Zenon DEF Lead, Goto, TypeOK
    <3>2. \A j \in Keys : inflight'[j] = IF j = key[c] THEN tokens + 1 ELSE inflight[j]
      BY <2>3, Zenon DEF Lead, TypeOK
    <3>3. CASE k = key[c]
      BY <2>1, <3>1, <3>2, <3>3 DEF Leading
    <3>4. CASE k # key[c]
      <4>1. PICK d \in Callers : Fetching(d, k) /\ token[d] = inflight[k]
        BY <1>1, <3>2, <3>4 DEF EntryHasLeader
      <4> QED
        BY <2>1, <2>2, <3>1, <3>2, <3>4, <4>1
    <3> QED
      BY <3>3, <3>4
  <2>4. CASE /\ token' = [token EXCEPT ![c] = inflight[key[c]]]
             /\ Goto(c, "join") /\ UNCHANGED inflight
    <3>1. \A d \in Callers : d # c => token'[d] = token[d] /\ pc'[d] = pc[d]
      BY <2>4, Zenon DEF Goto, TypeOK
    <3> QED
      BY <1>2, <2>1, <2>2, <2>4, <3>1
  <2> QED
    BY <1>7, <2>3, <2>4, Zenon DEF LookupInflight
<1>8. ASSUME NEW c \in Callers, RegisterWaiter(c)
      PROVE  \E d \in Callers : Fetching(d, k)' /\ token'[d] = inflight'[k]
  <2>1. pc[c] \notin Leading
    BY <1>8 DEF RegisterWaiter, Leading
  <2> QED
    BY <1>4, <1>8, <2>1, Zenon DEF RegisterWaiter, Goto
<1>9. ASSUME NEW c \in Callers, Reread(c) \/ RememberMiss(c)
      PROVE  \E d \in Callers : Fetching(d, k)' /\ token'[d] = inflight'[k]
  <2>1. pc[c] \notin Leading
    BY <1>9 DEF Reread, RememberMiss, Leading
  <2> QED
    BY <1>3, <1>9, <2>1, Zenon DEF Reread, RememberMiss
<1>10. ASSUME NEW c \in Callers, Connect(c) \/ EndRead(c) \/ StoreFetched(c) \/ Stall(c)
       PROVE  \E d \in Callers : Fetching(d, k)' /\ token'[d] = inflight'[k]
  <2>1. \E s \in Leading : pc' = [pc EXCEPT ![c] = s]
    BY <1>10 DEF Connect, EndRead, StoreFetched, Stall, NextRelay, Goto, Leading
  <2>2. UNCHANGED <<inflight, key, token>>
    BY <1>10, Zenon DEF Connect, EndRead, StoreFetched, Stall
  <2> QED
    BY <1>4, <2>1, <2>2
\* A fetch that removes its entry leaves the others to theirs.
<1>11. ASSUME NEW c \in Callers, ClearInflight(c)
       PROVE  \E d \in Callers : Fetching(d, k)' /\ token'[d] = inflight'[k]
  <2>1. /\ UNCHANGED <<key, token>>
        /\ \A d \in Callers : d # c => pc'[d] = pc[d]
        /\ \A j \in Keys : inflight'[j] = IF j = key[c] THEN 0 ELSE inflight[j]
    BY <1>11, Zenon DEF ClearInflight, Goto, TypeOK
  <2>2. k # key[c] /\ inflight'[k] = inflight[k]
    BY <2>1
  <2>3. PICK d \in Callers : Fetching(d, k) /\ token[d] = inflight[k]
    BY <1>1, <2>2 DEF EntryHasLeader
  <2> QED
    BY <2>1, <2>2, <2>3
<1>12. ASSUME NEW c \in Callers, NotifyWaiters(c)
       PROVE  \E d \in Callers : Fetching(d, k)' /\ token'[d] = inflight'[k]
  <2>1. pc[c] = "notify" /\ UNCHANGED <<inflight, key, token>>
    BY <1>12, Zenon DEF NotifyWaiters
  <2>2. \A d \in Callers : pc[d] \in Leading => pc'[d] = pc[d]
    BY <1>12, <2>1 DEF NotifyWaiters, Leading
  <2> QED
    BY <1>2, <2>1, <2>2
<1>13. CASE UNCHANGED <<inflight, pc, key, token>>
    BY <1>2, <1>13
<1>14. ASSUME NEW c \in Callers, ReceiveEvent(c)
       PROVE  UNCHANGED <<inflight, pc, key, token>>
    BY <1>14 DEF ReceiveEvent
<1>15. ASSUME NEW c \in Callers, Cancel(c)
       PROVE  FALSE
    BY <1>1, <1>15 DEF Cancel
<1>16. ASSUME NEW j \in Keys, ExpireMiss(j) \/ StoreElsewhere(j)
       PROVE  UNCHANGED <<inflight, pc, key, token>>
    BY <1>16 DEF ExpireMiss, StoreElsewhere, reqVars
<1>17. CASE UNCHANGED vars
    BY <1>13, <1>17 DEF vars, reqVars
<1> QED
  BY <1>5, <1>6, <1>7, <1>8, <1>9, <1>10, <1>11, <1>12, <1>13, <1>14, <1>15, <1>16, <1>17
     DEF Next, Serve
-----------------------------------------------------------------------------
(* The refinement of SingleFlight *)

Taken == {k \in Keys : inflight[k] # 0}

\* Steps that keep the map, and the keys of all fetches.
LEMMA SameFetches ==
  ASSUME UNCHANGED inflight,
         \A d \in Callers : /\ pc[d] \in Leading <=> pc'[d] \in Leading
                            /\ pc[d] \in Leading => key'[d] = key[d]
  PROVE  UNCHANGED <<Taken, Fetches>>
<1>1. \A d \in Callers, k \in Keys : Fetching(d, k)' <=> Fetching(d, k)
  BY DEF Fetching
<1>2. Fetches' = Fetches
  BY <1>1 DEF Fetches
<1>3. Taken' = Taken
  BY DEF Taken
<1> QED
  BY <1>2, <1>3

\* A fetch is the only one of its key, and its key is taken.
LEMMA Sole ==
  ASSUME Coalescing, NEW c \in Callers, pc[c] \in Leading
  PROVE  /\ key[c] \in Taken /\ key[c] \in Keys
         /\ Fetches[key[c]] = {c}
         /\ \A d \in Callers : d # c /\ pc[d] \in Leading => key[d] # key[c]
<1>1. key[c] \in Keys /\ inflight[key[c]] = token[c] /\ token[c] # 0
  BY DEF Coalescing, RequestHasKey, LeaderHasEntry, Leading
<1>2. ASSUME NEW d \in Callers, d # c, pc[d] \in Leading
      PROVE  key[d] # key[c]
  BY <1>1, <1>2 DEF Coalescing, LeaderHasEntry, LeadersDiffer
<1>3. {d \in Callers : Fetching(d, key[c])} = {c}
  BY <1>2 DEF Fetching
<1> QED
  BY <1>1, <1>2, <1>3 DEF Taken, Fetches

\* A fetch that ends, with its entry or without.
LEMMA EndsFetch ==
  ASSUME Coalescing, NEW c \in Callers, pc[c] \in Leading, pc'[c] \notin Leading,
         \A d \in Callers : d # c => pc'[d] = pc[d] /\ key'[d] = key[d]
  PROVE  Fetches' = [Fetches EXCEPT ![key[c]] = {}]
<1>1. ASSUME NEW k \in Keys
      PROVE  {d \in Callers : Fetching(d, k)}' = IF k = key[c] THEN {}
                                                ELSE {d \in Callers : Fetching(d, k)}
  BY Sole DEF Fetching
<1> QED
  BY <1>1, Zenon DEF Fetches

\* The leader of a new entry is alone: a fetch of the key would have an entry already.
LEMMA Begins ==
  ASSUME TypeOK, Coalescing, NEW c \in Callers, pc[c] = "lookup", inflight[key[c]] = 0,
         Lead(c), UNCHANGED key
  PROVE  \E k \in Keys : Shared!Begin(c, k)
<1>1. key[c] \in Keys /\ pc[c] \notin Leading
  BY DEF Coalescing, RequestHasKey, Leading
<1>2. \A d \in Callers : pc'[d] = IF d = c THEN "connect" ELSE pc[d]
  BY Zenon DEF Lead, Goto, TypeOK
<1>3. \A k \in Keys : inflight'[k] = IF k = key[c] THEN tokens + 1 ELSE inflight[k]
  BY Zenon DEF Lead, TypeOK
<1>4. tokens + 1 # 0
  BY DEF TypeOK
<1>5. Taken' = Taken \cup {key[c]} /\ key[c] \notin Taken
  BY <1>1, <1>3, <1>4 DEF Taken
<1>6. \A d \in Callers : pc[d] \in Leading => key[d] # key[c]
  BY Sole, <1>5
<1>7. ASSUME NEW k \in Keys
      PROVE  {d \in Callers : Fetching(d, k)}' = IF k = key[c] THEN {c}
                                                ELSE {d \in Callers : Fetching(d, k)}
  BY <1>1, <1>2, <1>6 DEF Fetching, Leading
<1>8. Fetches' = [Fetches EXCEPT ![key[c]] = {c}]
  BY <1>7, Zenon DEF Fetches
<1>9. Fetches[key[c]] = {}
  BY <1>1, <1>6 DEF Fetches, Fetching
<1> QED
  BY <1>1, <1>5, <1>8, <1>9 DEF Shared!Begin, Taken

\* Only the fetch that made an entry removes it.
LEMMA Finishes ==
  ASSUME TypeOK, Coalescing, NEW c \in Callers, ClearInflight(c)
  PROVE  \E k \in Keys : Shared!Finish(c, k)
<1>1. pc[c] \in Leading /\ UNCHANGED key
  BY DEF ClearInflight, Leading
<1>2. \A d \in Callers : pc'[d] = IF d = c THEN "notify" ELSE pc[d]
  BY Zenon DEF ClearInflight, Goto, TypeOK
<1>3. pc'[c] \notin Leading
  BY <1>2 DEF Leading
<1>4. \A k \in Keys : inflight'[k] = IF k = key[c] THEN 0 ELSE inflight[k]
  BY Zenon DEF ClearInflight, TypeOK
<1>5. Taken' = Taken \ {key[c]}
  BY <1>4 DEF Taken
<1>6. Fetches' = [Fetches EXCEPT ![key[c]] = {}]
  BY <1>1, <1>2, <1>3, EndsFetch
<1> QED
  BY <1>1, <1>5, <1>6, Sole DEF Shared!Finish, Taken

\* A fetch whose client goes away leaves its entry behind.
LEMMA Drops ==
  ASSUME TypeOK, Coalescing, NEW c \in Callers, Cancel(c), pc[c] \in Leading
  PROVE  \E k \in Keys : Shared!Drop(c, k)
<1>1. Return(c, "none") /\ UNCHANGED inflight
  BY Zenon DEF Cancel
<1>2. /\ pc'[c] = "idle"
      /\ \A d \in Callers : d # c => pc'[d] = pc[d] /\ key'[d] = key[d]
  BY <1>1, ReturnEach
<1>3. Fetches' = [Fetches EXCEPT ![key[c]] = {}]
  BY <1>2, EndsFetch DEF Leading
<1>4. Taken' = Taken
  BY <1>1 DEF Taken
<1> QED
  BY <1>3, <1>4, Sole DEF Shared!Drop, Taken

LEMMA StepShares ==
  TypeOK /\ Coalescing /\ [Next]_vars => [Shared!Next]_(Shared!vars)
<1> SUFFICES ASSUME TypeOK, Coalescing, [Next]_vars
             PROVE  [Shared!Next]_(Shared!vars)
    OBVIOUS
<1>1. CASE UNCHANGED <<Taken, Fetches>>
  BY <1>1 DEF Shared!vars, Taken
<1>2. ASSUME NEW c \in Callers, NEW a, pc[c] \notin Leading, Return(c, a), UNCHANGED inflight
      PROVE  UNCHANGED <<Taken, Fetches>>
  <2>1. "idle" \notin Leading
    BY DEF Leading
  <2> QED
    BY <1>2, <2>1, ReturnEach, SameFetches
<1>3. ASSUME NEW c \in Callers, NEW s, pc' = [pc EXCEPT ![c] = s],
             pc[c] \in Leading <=> s \in Leading, UNCHANGED <<inflight, key>>
      PROVE  UNCHANGED <<Taken, Fetches>>
  <2>1. \A d \in Callers : pc'[d] = IF d = c THEN s ELSE pc[d]
    BY <1>3, Zenon DEF TypeOK
  <2> QED
    BY <1>3, <2>1, SameFetches
<1>4. ASSUME NEW c \in Callers, NEW k \in Keys, Request(c, k)
      PROVE  UNCHANGED <<Taken, Fetches>>
  <2>1. /\ UNCHANGED inflight /\ pc[c] \notin Leading /\ pc'[c] \notin Leading
        /\ \A d \in Callers : d # c => pc'[d] = pc[d] /\ key'[d] = key[d]
    BY <1>4 DEF Request, Goto, TypeOK, Leading
  <2> QED
    BY <2>1, SameFetches
<1>5. ASSUME NEW c \in Callers, CheckMiss(c) \/ Reread(c) \/ RememberMiss(c) \/ RegisterWaiter(c)
      PROVE  UNCHANGED <<Taken, Fetches>>
  <2>1. /\ pc[c] \notin Leading /\ UNCHANGED inflight
        /\ "lookup" \notin Leading /\ "waiting" \notin Leading
    BY <1>5 DEF CheckMiss, Reread, RememberMiss, RegisterWaiter, Leading
  <2>2. \/ \E a : Return(c, a)
        \/ \E s \in {"lookup", "waiting"} : pc' = [pc EXCEPT ![c] = s] /\ UNCHANGED key
    BY <1>5, Zenon DEF CheckMiss, Reread, RememberMiss, RegisterWaiter, Goto
  <2> QED
    BY <1>2, <1>3, <2>1, <2>2
<1>6. ASSUME NEW c \in Callers, LookupInflight(c)
      PROVE  [Shared!Next]_(Shared!vars)
  <2>1. pc[c] = "lookup" /\ UNCHANGED key
    BY <1>6, Zenon DEF LookupInflight
  <2>2. CASE inflight[key[c]] = 0 /\ Lead(c)
    BY <2>1, <2>2, Begins, Zenon DEF Shared!Next
  <2>3. CASE Goto(c, "join") /\ UNCHANGED inflight
    BY <1>1, <1>3, <2>1, <2>3 DEF Goto, Leading
  <2> QED
    BY <1>6, <2>2, <2>3, Zenon DEF LookupInflight
<1>7. ASSUME NEW c \in Callers, Connect(c) \/ EndRead(c) \/ StoreFetched(c) \/ Stall(c)
      PROVE  UNCHANGED <<Taken, Fetches>>
  <2>1. pc[c] \in Leading /\ \E s \in Leading : pc' = [pc EXCEPT ![c] = s]
    BY <1>7 DEF Connect, EndRead, StoreFetched, Stall, NextRelay, Goto, Leading
  <2>2. UNCHANGED <<inflight, key>>
    BY <1>7, Zenon DEF Connect, EndRead, StoreFetched, Stall
  <2> QED
    BY <1>3, <2>1, <2>2
<1>8. ASSUME NEW c \in Callers, NotifyWaiters(c)
      PROVE  UNCHANGED <<Taken, Fetches>>
  <2>1. UNCHANGED <<inflight, key>>
        /\ \A d \in Callers : pc[d] \in Leading <=> pc'[d] \in Leading
    BY <1>8 DEF NotifyWaiters, Leading
  <2> QED
    BY <2>1, SameFetches
<1>9. ASSUME NEW c \in Callers, Cancel(c)
      PROVE  [Shared!Next]_(Shared!vars)
  <2>1. CASE pc[c] \in Leading
    BY <1>9, <2>1, Drops DEF Shared!Next
  <2>2. CASE pc[c] \notin Leading
    BY <1>1, <1>2, <1>9, <2>2, Zenon DEF Cancel
  <2> QED
    BY <2>1, <2>2
<1>10. CASE UNCHANGED <<inflight, pc, key>>
  BY <1>1, <1>10, SameFetches
<1>11. ASSUME NEW c \in Callers, ReceiveEvent(c)
       PROVE  UNCHANGED <<inflight, pc, key>>
  BY <1>11 DEF ReceiveEvent
<1>12. ASSUME NEW k \in Keys, ExpireMiss(k) \/ StoreElsewhere(k)
       PROVE  UNCHANGED <<inflight, pc, key>>
  BY <1>12 DEF ExpireMiss, StoreElsewhere, reqVars
<1>13. CASE UNCHANGED vars
  BY <1>10, <1>13 DEF vars, reqVars
<1>14. ASSUME NEW c \in Callers, ClearInflight(c)
       PROVE  [Shared!Next]_(Shared!vars)
  BY <1>14, Finishes, Zenon DEF Shared!Next
<1> QED
  BY <1>1, <1>4, <1>5, <1>6, <1>7, <1>8, <1>9, <1>10, <1>11, <1>12, <1>13, <1>14 DEF Next, Serve
-----------------------------------------------------------------------------
\* The state of requests and the map keeps its types whatever is cancelled,
\* stalls or expires.
THEOREM TypeCorrect == Spec => []TypeOK
<1>1. TypeOK /\ RelaysLeft /\ Coalescing /\ [Next]_vars => (TypeOK /\ RelaysLeft /\ Coalescing)'
  BY TypeNext, CoalescingNext
<1> QED
  BY <1>1, FirstState, PTL DEF Spec

\* The map has the Notify of every running fetch, and no two fetches share one.
THEOREM CoalescingHolds == Spec => []Coalescing
<1>1. TypeOK /\ RelaysLeft /\ Coalescing /\ [Next]_vars => (TypeOK /\ RelaysLeft /\ Coalescing)'
  BY TypeNext, CoalescingNext
<1> QED
  BY <1>1, FirstState, PTL DEF Spec

\* Simultaneous requests for one key never fetch it twice at the same time
\* (ONDEMAND_FETCHER.md, "Request Coalescing").
THEOREM Coalesced == Spec => []OneFetchPerKey
<1>1. Coalescing => OneFetchPerKey
  BY DEF Coalescing, LeaderHasEntry, LeadersDiffer, OneFetchPerKey, Fetching
<1> QED
  BY <1>1, CoalescingHolds, PTL

\* The map, its Notify objects and the waiters implement SingleFlight, for any number of
\* requests and keys: a fetch takes its key alone, nobody else frees it, and a fetch
\* that is dropped leaves it taken (fetcher.rs:73-94).
THEOREM Implements == Spec => ImplementsSingleFlight
<1>1. Init => Shared!Init
  <2> SUFFICES ASSUME Init PROVE Shared!Init
    OBVIOUS
  <2>1. Taken = {} /\ \A c \in Callers : pc[c] \notin Leading
    BY DEF Init, Taken, Leading
  <2>2. Fetches = [k \in Keys |-> {}]
    BY <2>1 DEF Fetches, Fetching
  <2> QED
    BY <2>1, <2>2 DEF Shared!Init, Taken
<1>2. TypeOK /\ Coalescing /\ [Next]_vars => [Shared!Next]_(Shared!vars)
  BY StepShares
<1> QED
  BY <1>1, <1>2, TypeCorrect, CoalescingHolds, PTL DEF Spec, ImplementsSingleFlight, Shared!Spec

\* As long as no request is cancelled, every entry of the map has a fetch that
\* will remove it.
THEOREM NoOrphanEntry == Spec => []EntryHasLeader
<1>1. Init => EntryHasLeader
  BY DEF Init, EntryHasLeader
<1> QED
  BY <1>1, EntryHasLeaderNext, TypeCorrect, CoalescingHolds, PTL DEF Spec
=============================================================================
