------------------------------- MODULE Fetcher -------------------------------
(***************************************************************************)
(* The on-demand fetcher (src/relay/fetcher.rs): requests for something    *)
(* that is not in the database ask relays for it, store it and read it     *)
(* back.  Simultaneous requests for one key share a fetch: the first one   *)
(* leaves a Notify in the map `inflight`, the others wait on it.           *)
(*                                                                         *)
(* A step is the code between two awaits, or between two points where the  *)
(* threads of the runtime can interleave: a waiter gives the map's lock    *)
(* back before it registers with the Notify it copied.  A Notify is named  *)
(* by a number; notify_waiters wakes those that are registered by then.    *)
(***************************************************************************)
EXTENDS Integers

CONSTANTS
    Callers,     \* API requests, WebSocket searches
    Keys,        \* an event id or "profile:<pubkey>"
    MaxRelays,   \* max_relays: how many relays a fetch asks
    Profiles,    \* the keys that stand for a profile
    MaxRequests, \* bound: how many requests are made
    MaxCancels,  \* bound: requests whose client goes away
    MaxStalls,   \* bound: connections that a relay accepts and never completes
    MaxExpiries, \* bound: how often a cached miss expires
    None

ASSUME FetcherAssumption ==
    /\ MaxRelays \in Nat \ {0}
    /\ MaxRequests \in Nat /\ MaxCancels \in Nat
    /\ MaxStalls \in Nat /\ MaxExpiries \in Nat
    /\ Profiles \subseteq Keys
    /\ None \notin Keys

VARIABLES
    db,        \* keys in the database
    miss,      \* keys with a cached miss (fetch:miss:...)
    inflight,  \* inflight[k]: the Notify of the map's entry, or 0
    pc,        \* pc[c]: where request c is
    key,       \* key[c]: what it asks for
    token,     \* token[c]: the Notify it made or copied
    left,      \* left[c]: relays that its fetch has still to ask
    got,       \* got[c]: its relay sent the event
    outcome,   \* outcome[c]: result of its fetch
    answer,    \* answer[c]: what its last request returned
    tokens,    \* Notify objects made so far
    requests, cancels, stalls, expiries

reqVars  == <<pc, key, token, left, got, outcome, answer>>
bounds   == <<requests, cancels, stalls, expiries>>
vars == <<db, miss, inflight, reqVars, tokens, bounds>>

Leading == {"connect", "stalled", "read", "store", "clear"}
Steps == Leading \cup {"idle", "cache", "lookup", "join", "waiting", "reread", "notify", "remember"}

TypeOK ==
    /\ db \subseteq Keys
    /\ miss \subseteq Keys
    /\ inflight \in [Keys -> Nat]
    /\ pc \in [Callers -> Steps]
    /\ key \in [Callers -> Keys \cup {None}]
    /\ token \in [Callers -> Nat]
    /\ left \in [Callers -> 0 .. MaxRelays]
    /\ got \in [Callers -> BOOLEAN]
    /\ outcome \in [Callers -> {"none", "hit", "miss", "error"}]
    /\ answer \in [Callers -> {"none", "hit", "miss", "error"}]
    /\ tokens \in Nat /\ requests \in Nat
    /\ cancels \in Nat /\ stalls \in Nat /\ expiries \in Nat

Init ==
    /\ db = {} /\ miss = {}
    /\ inflight = [k \in Keys |-> 0]
    /\ pc = [c \in Callers |-> "idle"]
    /\ key = [c \in Callers |-> None]
    /\ token = [c \in Callers |-> 0]
    /\ left = [c \in Callers |-> 0]
    /\ got = [c \in Callers |-> FALSE]
    /\ outcome = [c \in Callers |-> "none"]
    /\ answer = [c \in Callers |-> "none"]
    /\ tokens = 0 /\ requests = 0 /\ cancels = 0 /\ stalls = 0 /\ expiries = 0

Goto(c, s) == pc' = [pc EXCEPT ![c] = s]

\* The request of c ends and returns a.
Return(c, a) ==
    /\ Goto(c, "idle")
    /\ key' = [key EXCEPT ![c] = None]
    /\ token' = [token EXCEPT ![c] = 0]
    /\ left' = [left EXCEPT ![c] = 0]
    /\ got' = [got EXCEPT ![c] = FALSE]
    /\ outcome' = [outcome EXCEPT ![c] = "none"]
    /\ answer' = [answer EXCEPT ![c] = a]

-----------------------------------------------------------------------------
(* Requests *)

\* A handler that did not find k in the database, or the drain loop of
\* missing_events, which does not look, calls fetch_event_by_id or
\* fetch_profile_metadata.
Request(c, k) ==
    /\ pc[c] = "idle" /\ requests < MaxRequests
    /\ requests' = requests + 1
    /\ Goto(c, "cache")
    /\ key' = [key EXCEPT ![c] = k]
    /\ answer' = [answer EXCEPT ![c] = "none"]
    /\ UNCHANGED <<db, miss, inflight, token, left, got, outcome, tokens,
                   cancels, stalls, expiries>>

CheckMiss(c) ==
    /\ pc[c] = "cache"
    /\ \/ key[c] \in miss /\ Return(c, "miss")
       \/ /\ key[c] \notin miss
          /\ Goto(c, "lookup")
          /\ UNCHANGED <<key, token, left, got, outcome, answer>>
    /\ UNCHANGED <<db, miss, inflight, tokens, bounds>>

\* A new Notify in the map: c leads the fetch.
Lead(c) ==
    /\ tokens' = tokens + 1
    /\ inflight' = [inflight EXCEPT ![key[c]] = tokens + 1]
    /\ token' = [token EXCEPT ![c] = tokens + 1]
    /\ left' = [left EXCEPT ![c] = MaxRelays]
    /\ Goto(c, "connect")

\* Bug: an entry that is there is replaced.
LookupInflightReplacing(c) ==
    /\ pc[c] = "lookup"
    /\ Lead(c)
    /\ UNCHANGED <<db, miss, key, got, outcome, answer, bounds>>

\* Under the map's lock: copy the Notify that is there, or leave a new one.
LookupInflight(c) ==
    /\ pc[c] = "lookup"
    /\ \/ inflight[key[c]] = 0 /\ Lead(c)
       \/ /\ inflight[key[c]] # 0
          /\ token' = [token EXCEPT ![c] = inflight[key[c]]]
          /\ Goto(c, "join")
          /\ UNCHANGED <<inflight, left, tokens>>
    /\ UNCHANGED <<db, miss, key, got, outcome, answer, bounds>>

\* notify.notified(): c is registered from here on.
RegisterWaiter(c) ==
    /\ pc[c] = "join"
    /\ Goto(c, "waiting")
    /\ UNCHANGED <<db, miss, inflight, key, token, left, got, outcome, answer, tokens, bounds>>

\* After the wait: one read of the database, which may fail.
Reread(c) ==
    /\ pc[c] = "reread"
    /\ \/ Return(c, IF key[c] \in db THEN "hit" ELSE "miss")
       \/ Return(c, "error")
    /\ UNCHANGED <<db, miss, inflight, tokens, bounds>>

-----------------------------------------------------------------------------
(* The fetch *)

\* Bug: the loop over the relays does not stop after the last one.
NextRelayPastLast(c) ==
    /\ left' = [left EXCEPT ![c] = @ - 1]
    /\ Goto(c, "connect")

\* fetch_from_relays goes to the next relay, or returns no events.
NextRelay(c) ==
    /\ left' = [left EXCEPT ![c] = @ - 1]
    /\ Goto(c, IF left[c] > 1 THEN "connect" ELSE "store")

\* connect_async and the REQ: they succeed or fail.
Connect(c) ==
    /\ pc[c] = "connect"
    /\ \/ Goto(c, "read") /\ UNCHANGED left
       \/ NextRelay(c)
    /\ UNCHANGED <<db, miss, inflight, key, token, got, outcome, answer, tokens, bounds>>

\* The relay takes the connection and never completes the handshake: nothing
\* limits how long connect_async waits.
Stall(c) ==
    /\ pc[c] = "connect" /\ stalls < MaxStalls
    /\ stalls' = stalls + 1
    /\ Goto(c, "stalled")
    /\ UNCHANGED <<db, miss, inflight, key, token, left, got, outcome, answer, tokens,
                   requests, cancels, expiries>>

ReceiveEvent(c) ==
    /\ pc[c] = "read" /\ ~got[c]
    /\ got' = [got EXCEPT ![c] = TRUE]
    /\ UNCHANGED <<db, miss, inflight, pc, key, token, left, outcome, answer, tokens, bounds>>

\* The relay is silent for timeout_ms or closes: its events are taken.  A socket
\* error discards them.  EOSE does not end the read: it has two elements, and
\* messages with fewer than three are skipped before they are looked at.
EndRead(c) ==
    /\ pc[c] = "read"
    /\ \/ got[c] /\ Goto(c, "store") /\ UNCHANGED <<left, got>>
       \/ NextRelay(c) /\ got' = [got EXCEPT ![c] = FALSE]
    /\ UNCHANGED <<db, miss, inflight, key, token, outcome, answer, tokens, bounds>>

\* insert_event, which may refuse the event or fail.  Then an event is read back
\* from the database; a profile is what the relay sent, unless it does not parse.
StoreFetched(c) ==
    /\ pc[c] = "store"
    /\ \/ /\ got[c]
          /\ db' \in {db, db \cup {key[c]}}
          /\ \E o \in IF key[c] \in Profiles THEN {"hit", "miss"}
                     ELSE {"error", IF key[c] \in db' THEN "hit" ELSE "miss"} :
                outcome' = [outcome EXCEPT ![c] = o]
       \/ /\ ~got[c]
          /\ outcome' = [outcome EXCEPT ![c] = "miss"]
          /\ UNCHANGED db
    /\ Goto(c, "clear")
    /\ UNCHANGED <<miss, inflight, key, token, left, got, answer, tokens, bounds>>

\* Bug: an error returns (`?`) before the entry is removed.
ClearInflightUnlessError(c) ==
    /\ pc[c] = "clear"
    /\ IF outcome[c] = "error"
       THEN Return(c, "error") /\ UNCHANGED inflight
       ELSE /\ inflight' = [inflight EXCEPT ![key[c]] = 0]
            /\ Goto(c, "notify")
            /\ UNCHANGED <<key, token, left, got, outcome, answer>>
    /\ UNCHANGED <<db, miss, tokens, bounds>>

ClearInflight(c) ==
    /\ pc[c] = "clear"
    /\ inflight' = [inflight EXCEPT ![key[c]] = 0]
    /\ Goto(c, "notify")
    /\ UNCHANGED <<db, miss, key, token, left, got, outcome, answer, tokens, bounds>>

\* notify_waiters: those registered by now go on; then a miss is remembered.
NotifyWaiters(c) ==
    /\ pc[c] = "notify"
    /\ pc' = [d \in Callers |->
                IF d = c THEN "remember"
                ELSE IF pc[d] = "waiting" /\ token[d] = token[c] THEN "reread"
                ELSE pc[d]]
    /\ UNCHANGED <<db, miss, inflight, key, token, left, got, outcome, answer, tokens, bounds>>

RememberMiss(c) ==
    /\ pc[c] = "remember"
    /\ miss' = IF outcome[c] = "miss" THEN miss \cup {key[c]} ELSE miss
    /\ Return(c, outcome[c])
    /\ UNCHANGED <<db, inflight, tokens, bounds>>

-----------------------------------------------------------------------------
(* The environment *)

\* The client closes its connection and the server drops the request where it
\* awaits: nothing runs for it any more.
Cancel(c) ==
    /\ pc[c] \notin {"idle", "join", "notify"}
    /\ cancels < MaxCancels
    /\ cancels' = cancels + 1
    /\ Return(c, "none")
    /\ UNCHANGED <<db, miss, inflight, tokens, requests, stalls, expiries>>

\* NEGATIVE_CACHE_TTL has passed.
ExpireMiss(k) ==
    /\ k \in miss /\ expiries < MaxExpiries
    /\ expiries' = expiries + 1
    /\ miss' = miss \ {k}
    /\ UNCHANGED <<db, inflight, reqVars, tokens, requests, cancels, stalls>>

\* The ingester or a crawler stores it meanwhile.
StoreElsewhere(k) ==
    /\ k \notin db
    /\ db' = db \cup {k}
    /\ UNCHANGED <<miss, inflight, reqVars, tokens, bounds>>

Serve(c) == \/ CheckMiss(c) \/ LookupInflight(c) \/ RegisterWaiter(c) \/ Reread(c)
            \/ Connect(c) \/ EndRead(c) \/ StoreFetched(c)
            \/ ClearInflight(c) \/ NotifyWaiters(c) \/ RememberMiss(c)

Next == \/ \E c \in Callers : \/ \E k \in Keys : Request(c, k)
                              \/ Serve(c) \/ ReceiveEvent(c) \/ Stall(c) \/ Cancel(c)
        \/ \E k \in Keys : ExpireMiss(k) \/ StoreElsewhere(k)

Spec == Init /\ [][Next]_vars

\* A request goes on until it ends: attempts to connect that do not stall end,
\* and a relay that is connected falls silent or closes at some time.
FairSpec == Spec /\ \A c \in Callers : WF_vars(Serve(c))
-----------------------------------------------------------------------------
(* Properties *)

Fetching(c, k) == pc[c] \in Leading /\ key[c] = k

\* ONDEMAND_FETCHER.md: simultaneous requests for the same data share one fetch.
OneFetchPerKey ==
    \A c, d \in Callers, k \in Keys : Fetching(c, k) /\ Fetching(d, k) => c = d

\* The fetcher implements SingleFlight: besides, a fetch begins only where the map has
\* no entry, nobody but the fetch that left an entry removes it, and the entry of a
\* fetch that was dropped stays (fetcher.rs:73-94).
Fetches == [k \in Keys |-> {c \in Callers : Fetching(c, k)}]

Shared == INSTANCE SingleFlight WITH taken <- {k \in Keys : inflight[k] # 0},
                                     fetching <- Fetches

ImplementsSingleFlight == Shared!Spec

\* The entry of a fetch stays in the map until that fetch removes it, and no
\* other request takes it away.
LeaderHasEntry ==
    \A c \in Callers : pc[c] \in Leading => token[c] # 0 /\ inflight[key[c]] = token[c]

\* Without cancelled requests an entry always has a fetch that will remove it.
EntryHasLeader ==
    cancels = 0 =>
        \A k \in Keys : inflight[k] # 0 =>
            \E c \in Callers : Fetching(c, k) /\ token[c] = inflight[k]

\* A fetch that asks a relay counts it among those left.
RelaysLeft == \A c \in Callers : pc[c] \in {"connect", "stalled", "read"} => left[c] >= 1

\* The inductive invariant behind OneFetchPerKey (FetcherProof): a fetch's Notify
\* is its own, and it is the one in the map.
RequestHasKey == \A c \in Callers : pc[c] # "idle" => key[c] \in Keys

TokensAreOld == /\ \A c \in Callers : token[c] <= tokens
                /\ \A k \in Keys : inflight[k] <= tokens

LeadersDiffer ==
    \A c, d \in Callers :
        pc[c] \in Leading /\ pc[d] \in Leading /\ c # d => token[c] # token[d]

Coalescing == RequestHasKey /\ TokensAreOld /\ LeaderHasEntry /\ LeadersDiffer

\* A request that registered while its fetch was in the map is woken, unless a
\* fetch was cancelled or its relay stalls.
RegisteredIsWoken ==
    \A c \in Callers :
        (pc[c] = "waiting" /\ inflight[key[c]] = token[c])
            ~> (pc[c] # "waiting" \/ cancels + stalls > 0)

\* ONDEMAND_FETCHER.md:37-38: timeouts "prevent API requests from hanging indefinitely".
RequestReturns == \A c \in Callers : (pc[c] # "idle") ~> (pc[c] = "idle")
=============================================================================
