------------------------------- MODULE Resolver -------------------------------
(***************************************************************************)
(* The metadata resolver (src/relay/metadata.rs).  Ingestion offers it the *)
(* pubkeys of the events it stores, through a channel that drops what does *)
(* not fit; a receiver gathers those not yet attempted in pending; and     *)
(* every few seconds the resolver drains pending and asks relays for the   *)
(* profiles that are missing.                                              *)
(***************************************************************************)
EXTENDS Integers, Sequences, FiniteSets

CONSTANTS
    Authors,
    Watched,     \* one of them, any, that the history is about
    NamesCap,    \* 8192
    QueueCap,    \* MAX_QUEUE_SIZE
    MaxAsked,    \* MAX_METADATA_RELAYS
    TrimAbove,   \* 200000
    None,
    MaxFaults    \* bound: statements that fail

VARIABLES
    names,      \* the channel
    receiver,
    candidate,  \* the pubkey it has found not attempted, or None
    pending, attempted,
    resolver,
    batch,      \* what it drained
    remaining,  \* those no relay has answered for
    asked,      \* number of relays asked
    profiles,   \* authors whose kind 0 is stored
    shutdown,
    sighted,    \* history: Watched was offered since attempted was last cleared
    passedOver, \* history: it was dropped by a full queue or a failed query
    requests,   \* history: how often relays were asked for it since then, up to 4
    faults

receive  == <<receiver, candidate>>
resolve  == <<resolver, batch, remaining, asked>>
history  == <<sighted, passedOver, requests>>
vars     == <<names, receive, pending, attempted, resolve, profiles, shutdown, history, faults>>

TypeOK ==
    /\ names \in Seq(Authors) /\ Len(names) <= NamesCap
    /\ receiver \in {"take", "insert", "ended"}
    /\ candidate \in Authors \cup {None}
    /\ pending \subseteq Authors /\ Cardinality(pending) <= QueueCap
    /\ attempted \subseteq Authors
    /\ resolver \in {"sleep", "check", "ask", "mark", "ended"}
    /\ remaining \subseteq batch /\ batch \subseteq Authors
    /\ asked \in 0 .. MaxAsked
    /\ profiles \subseteq Authors
    /\ sighted \in BOOLEAN /\ passedOver \in BOOLEAN /\ requests \in 0 .. 4
    /\ shutdown \in BOOLEAN /\ faults \in 0 .. MaxFaults

Init ==
    /\ names = <<>>
    /\ receiver = "take" /\ candidate = None
    /\ pending = {} /\ attempted = {}
    /\ resolver = "sleep" /\ batch = {} /\ remaining = {} /\ asked = 0
    /\ profiles \in SUBSET Authors
    /\ shutdown = FALSE
    /\ sighted = FALSE /\ passedOver = FALSE /\ requests = 0
    /\ faults = 0

\* A statement fails.
Fault == faults < MaxFaults /\ faults' = faults + 1

Shutdown ==
    /\ ~shutdown /\ shutdown' = TRUE
    /\ UNCHANGED <<names, receive, pending, attempted, resolve, profiles, history, faults>>

\* try_send of the ingester: what does not fit is dropped without a word.
Offer(a) ==
    /\ sighted' = (sighted \/ a = Watched)
    /\ \/ /\ receiver # "ended" /\ Len(names) < NamesCap
          /\ names' = Append(names, a) /\ passedOver' = (passedOver /\ a # Watched)
       \/ /\ receiver = "ended" \/ Len(names) = NamesCap
          /\ passedOver' = (passedOver \/ a = Watched) /\ UNCHANGED names
    /\ UNCHANGED <<receive, pending, attempted, resolve, profiles, shutdown, requests, faults>>

-----------------------------------------------------------------------------
(* queue_receiver *)

\* Under the lock of attempted, which is given back before pending's is taken.
TakeName ==
    /\ receiver = "take" /\ names # <<>>
    /\ names' = Tail(names)
    /\ \/ Head(names) \in attempted /\ UNCHANGED receive
       \/ Head(names) \notin attempted /\ receiver' = "insert" /\ candidate' = Head(names)
    /\ UNCHANGED <<pending, attempted, resolve, profiles,
                   shutdown, history, faults>>

\* Bug: the queue has no limit.
NeverFull == FALSE

Full == Cardinality(pending) >= QueueCap

InsertName ==
    /\ receiver = "insert"
    /\ pending' = IF Full THEN pending ELSE pending \cup {candidate}
    /\ passedOver' = (passedOver \/ (Full /\ candidate = Watched))
    /\ receiver' = "take" /\ candidate' = None
    /\ UNCHANGED <<names, attempted, resolve, profiles, shutdown,
                   sighted, requests, faults>>

StopReceiver ==
    /\ shutdown /\ receiver = "take"
    /\ receiver' = "ended"
    /\ names' = <<>>
    /\ passedOver' = (passedOver \/ \E i \in DOMAIN names : names[i] = Watched)
    /\ UNCHANGED <<candidate, pending, attempted, resolve,
                   profiles, shutdown, sighted, requests, faults>>

-----------------------------------------------------------------------------
(* resolve_loop *)

\* The set is drained under its lock.
DrainPending ==
    /\ resolver = "sleep" /\ pending # {}
    /\ batch' = pending /\ pending' = {}
    /\ resolver' = "check"
    /\ UNCHANGED <<names, receive, attempted, remaining, asked,
                   profiles, shutdown, history, faults>>

\* pubkeys_missing_metadata: an error loses the batch.
CheckMissing ==
    LET missing == batch \ profiles IN
    /\ resolver = "check"
    /\ \/ /\ missing # {}
          /\ resolver' = "ask" /\ remaining' = missing /\ asked' = 0
          /\ requests' = IF Watched \in missing /\ requests < 4 THEN requests + 1 ELSE requests
          /\ UNCHANGED <<batch, passedOver, faults>>
       \/ /\ missing = {} /\ resolver' = "mark"
          /\ UNCHANGED <<batch, remaining, asked, passedOver, requests, faults>>
       \/ /\ Fault
          /\ passedOver' = (passedOver \/ Watched \in batch)
          /\ resolver' = "sleep" /\ batch' = {}
          /\ UNCHANGED <<remaining, asked, requests>>
    /\ UNCHANGED <<names, receive, pending, attempted, profiles,
                   shutdown, sighted>>

\* One relay answers for some; an event that insert_event turns down, or that cannot be
\* stored, counts as an answer.
AskRelay ==
    /\ resolver = "ask"
    /\ \E found \in SUBSET remaining : \E kept \in SUBSET found :
          /\ remaining' = remaining \ found
          /\ profiles' = profiles \cup kept
          /\ asked' = asked + 1
          /\ resolver' = IF remaining = found \/ asked + 1 = MaxAsked THEN "mark" ELSE "ask"
    /\ UNCHANGED <<names, receive, pending, attempted, batch,
                   shutdown, history, faults>>

\* Bug: those that were not found are left to be tried again.
MarkFound ==
    /\ resolver = "mark"
    /\ attempted' = attempted \cup (batch \ remaining)
    /\ resolver' = "sleep" /\ batch' = {} /\ remaining' = {} /\ asked' = 0
    /\ UNCHANGED <<names, receive, pending, profiles, shutdown,
                   history, faults>>

\* "even those not found"; a set that has grown too large is forgotten, but not
\* when the profiles were all there.
MarkAttempted ==
    LET marked == attempted \cup batch
        trim   == asked > 0 /\ Cardinality(marked) > TrimAbove
    IN
    /\ resolver = "mark"
    /\ attempted' = IF trim THEN {} ELSE marked
    /\ sighted' = (sighted /\ ~(trim /\ Watched \in marked))
    /\ requests' = IF trim THEN 0 ELSE requests
    /\ resolver' = "sleep" /\ batch' = {} /\ remaining' = {} /\ asked' = 0
    /\ UNCHANGED <<names, receive, pending, profiles, shutdown,
                   passedOver, faults>>

StopResolver ==
    /\ shutdown /\ resolver = "sleep"
    /\ resolver' = "ended"
    /\ UNCHANGED <<names, receive, pending, attempted, batch,
                   remaining, asked, profiles, shutdown, history, faults>>

-----------------------------------------------------------------------------
Receiver == TakeName \/ InsertName \/ StopReceiver
Resolve  == DrainPending \/ CheckMissing \/ AskRelay \/ MarkAttempted \/ StopResolver

Next == Shutdown \/ Receiver \/ Resolve \/ \E a \in Authors : Offer(a)

Spec == Init /\ [][Next]_vars
-----------------------------------------------------------------------------
(* Properties *)

\* A pubkey that was seen is on its way to the resolver or was attempted, unless it
\* was dropped by a full channel, a full queue, a failed query or the shutdown: also
\* when it is seen again while its batch is under way.
SightingIsAccounted ==
    sighted => \/ passedOver
               \/ Watched \in {names[i] : i \in DOMAIN names} \cup {candidate}
               \/ Watched \in pending \cup batch \cup attempted

\* "don't retry endlessly" (metadata.rs:167): relays are asked for one author at most
\* three times: for the batch, for a sighting while that batch is under way, and for
\* one that was checked against attempted then and came into the queue after the next.
AskedAtMostThrice == requests <= 3

=============================================================================
