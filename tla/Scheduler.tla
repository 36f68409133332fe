------------------------------ MODULE Scheduler ------------------------------
(***************************************************************************)
(* The scheduler relay (src/scheduler/mod.rs): users submit signed events  *)
(* whose created_at lies in the future, may cancel them, and a background  *)
(* publisher sends each one to relays when it is due.                      *)
(*                                                                         *)
(* The table scheduled_events survives every crash; connections,           *)
(* publisher cycles and the cached list of top relays do not.  A step of   *)
(* this module is one SQL statement, one relay conversation, or the code   *)
(* between two awaits.  Every await is a place where other connections,    *)
(* the publishers and the clock may run.                                   *)
(***************************************************************************)
EXTENDS Integers, FiniteSets

CONSTANTS
    Events,       \* ids of the events users may submit
    Pubkeys,      \* the users
    Conns,        \* WebSocket connections
    Publishers,   \* running instances of the publisher loop
    Relays,       \* entries of relay lists; parse_relay_tags keeps a relay
                  \* that is spelled twice, so an entry is tried once, a relay maybe twice
    Owner,        \* Owner[e]: the pubkey of event e
    DueAt,        \* DueAt[e]: its created_at
    Signed,       \* the events whose id and signature verify
    WriteRelays,  \* WriteRelays[p]: the write entries of p's kind-10002 event
    TopRelays,    \* what get_top_relays returns
    MaxPending,   \* MAX_PENDING_PER_PUBKEY
    MinFuture,    \* MIN_FUTURE_SECS, in ticks of the model's clock
    MaxFuture,    \* MAX_FUTURE_SECS, in ticks
    BatchLimit,   \* LIMIT of the claiming UPDATE
    MaxTime,      \* bound: the clock stops here
    MaxCrashes,   \* bound: how many times an instance dies
    MaxDbErrors,  \* bound: how many statements fail
    None          \* no event, no user, no reply

Replies == [ev : Events, ok : BOOLEAN]   \* OK messages

ASSUME ConstantsAssumption ==
    /\ IsFiniteSet(Events) /\ IsFiniteSet(Conns) /\ Conns # {}
    /\ Owner \in [Events -> Pubkeys]
    /\ DueAt \in [Events -> Nat]
    /\ Signed \subseteq Events
    /\ WriteRelays \in [Pubkeys -> SUBSET Relays]
    /\ TopRelays \subseteq Relays
    /\ MinFuture \in Nat
    /\ MaxFuture \in Nat
    /\ MaxPending \in Nat
    /\ BatchLimit \in Nat
    /\ MaxTime \in Nat /\ MaxCrashes \in Nat /\ MaxDbErrors \in Nat
    /\ None \notin Events /\ None \notin Pubkeys
    /\ None \notin Replies

VARIABLES
    now,       \* Utc::now()
    status,    \* column scheduled_events.status; "absent": no such row
    auth,      \* auth[c]: ConnectionState.auth_pubkey
    pc,        \* pc[c]: the statement the handler of c awaits next
    ev,        \* ev[c]: the event that handler works on
    reply,     \* reply[c]: the last OK message for an EVENT on c
    top,       \* top[p]: SchedulerState.top_relays of p's instance
    stage,     \* stage[p]: where publish_due_events of p is
    queue,     \* queue[p]: events claimed by p's cycle and not yet begun
    plan,      \* plan[p]: the relay lists that cycle read
    cur,       \* cur[p]: the event p is sending
    todo,      \* todo[p]: the relays it has still to be sent to
    accepted,  \* accepted[p]: some relay is in the cycle's `sent` list
    handed,    \* handed[e][r]: how often e was written to r's socket
    crashes,   \* instances that died so far
    dbErrors   \* statements that failed so far

connVars == <<auth, pc, ev, reply>>
pubVars  == <<stage, queue, plan, cur, todo, accepted>>
vars == <<now, status, auth, pc, ev, reply, top, stage, queue, plan, cur, todo,
          accepted, handed, crashes, dbErrors>>

Statuses == {"absent", "pending", "publishing", "published", "failed", "cancelled"}
Settled  == {"published", "failed", "cancelled"}

TypeOK ==
    /\ now \in Nat
    /\ status \in [Events -> Statuses]
    /\ auth \in [Conns -> Pubkeys \cup {None}]
    /\ pc \in [Conns -> {"idle", "count", "exists", "insert"}]
    /\ ev \in [Conns -> Events \cup {None}]
    /\ reply \in [Conns -> Replies \cup {None}]
    /\ top \in [Publishers -> SUBSET Relays]
    /\ stage \in [Publishers -> {"idle", "claimed", "ready", "sending"}]
    /\ queue \in [Publishers -> SUBSET Events]
    /\ plan \in [Publishers -> [lists : BOOLEAN, fallback : SUBSET Relays]]
    /\ cur \in [Publishers -> Events \cup {None}]
    /\ todo \in [Publishers -> SUBSET Relays]
    /\ accepted \in [Publishers -> BOOLEAN]
    /\ handed \in [Events -> [Relays -> Nat]]
    /\ crashes \in Nat
    /\ dbErrors \in Nat

NoPlan == [lists |-> FALSE, fallback |-> {}]

Init ==
    /\ now = 0
    /\ status = [e \in Events |-> "absent"]
    /\ auth = [c \in Conns |-> None]
    /\ pc = [c \in Conns |-> "idle"]
    /\ ev = [c \in Conns |-> None]
    /\ reply = [c \in Conns |-> None]
    /\ top = [p \in Publishers |-> {}]
    /\ stage = [p \in Publishers |-> "idle"]
    /\ queue = [p \in Publishers |-> {}]
    /\ plan = [p \in Publishers |-> NoPlan]
    /\ cur = [p \in Publishers |-> None]
    /\ todo = [p \in Publishers |-> {}]
    /\ accepted = [p \in Publishers |-> FALSE]
    /\ handed = [e \in Events |-> [r \in Relays |-> 0]]
    /\ crashes = 0
    /\ dbErrors = 0

DbError == dbErrors < MaxDbErrors /\ dbErrors' = dbErrors + 1
DbOk    == UNCHANGED dbErrors

Tick == /\ now < MaxTime
        /\ now' = now + 1
        /\ UNCHANGED <<status, connVars, top, pubVars, handed, crashes, dbErrors>>

-----------------------------------------------------------------------------
(* Connections *)

\* An AUTH message.  Only a fresh kind-22242 event signed by pk over this
\* connection's challenge sets auth_pubkey; every other AUTH changes nothing.
\* A later AUTH may replace the user.
Authenticate(c, pk) ==
    /\ pc[c] = "idle"
    /\ auth' = [auth EXCEPT ![c] = pk]
    /\ reply' = [reply EXCEPT ![c] = None]
    /\ UNCHANGED <<now, status, pc, ev, top, pubVars, handed, crashes, dbErrors>>

Answer(c, e, ok) ==
    /\ reply' = [reply EXCEPT ![c] = [ev |-> e, ok |-> ok]]
    /\ pc' = [pc EXCEPT ![c] = "idle"]
    /\ ev' = [ev EXCEPT ![c] = None]

Acceptable(c, e) ==
    /\ auth[c] = Owner[e]
    /\ e \in Signed
    /\ DueAt[e] > now
    /\ DueAt[e] - now >= MinFuture
    /\ DueAt[e] - now <= MaxFuture

\* EVENT with a kind other than 5: the checks made before the first statement.
SubmitEvent(c, e) ==
    /\ pc[c] = "idle" /\ auth[c] # None
    /\ \/ /\ Acceptable(c, e)
          /\ pc' = [pc EXCEPT ![c] = "count"]
          /\ ev' = [ev EXCEPT ![c] = e]
          /\ reply' = [reply EXCEPT ![c] = None]
       \/ ~Acceptable(c, e) /\ Answer(c, e, FALSE)
    /\ UNCHANGED <<now, status, auth, top, pubVars, handed, crashes, dbErrors>>

PendingOf(pk) == {e \in Events : status[e] = "pending" /\ Owner[e] = pk}

\* Bug: the limit compared with > instead of >=.
CountPendingOffByOne(c) ==
    /\ pc[c] = "count"
    /\ \/ /\ Cardinality(PendingOf(auth[c])) > MaxPending
          /\ DbOk
          /\ Answer(c, ev[c], FALSE)
       \/ /\ \/ Cardinality(PendingOf(auth[c])) <= MaxPending /\ DbOk
             \/ DbError
          /\ pc' = [pc EXCEPT ![c] = "exists"]
          /\ UNCHANGED <<ev, reply>>
    /\ UNCHANGED <<now, status, auth, top, pubVars, handed, crashes>>

\* SELECT COUNT(*): a failed query counts as zero (unwrap_or((0,))).
CountPending(c) ==
    /\ pc[c] = "count"
    /\ \/ /\ Cardinality(PendingOf(auth[c])) >= MaxPending
          /\ DbOk
          /\ Answer(c, ev[c], FALSE)
       \/ /\ \/ Cardinality(PendingOf(auth[c])) < MaxPending /\ DbOk
             \/ DbError
          /\ pc' = [pc EXCEPT ![c] = "exists"]
          /\ UNCHANGED <<ev, reply>>
    /\ UNCHANGED <<now, status, auth, top, pubVars, handed, crashes>>

\* SELECT EXISTS: any row with this id, whatever its status, is a duplicate and
\* answered OK true; a failed query counts as no row (unwrap_or(false)).
CheckDuplicate(c) ==
    /\ pc[c] = "exists"
    /\ \/ /\ status[ev[c]] # "absent" /\ DbOk
          /\ Answer(c, ev[c], TRUE)
       \/ /\ \/ status[ev[c]] = "absent" /\ DbOk
             \/ DbError
          /\ pc' = [pc EXCEPT ![c] = "insert"]
          /\ UNCHANGED <<ev, reply>>
    /\ UNCHANGED <<now, status, auth, top, pubVars, handed, crashes>>

\* Bug: the result of the INSERT is not looked at.
InsertEventUnchecked(c) ==
    /\ pc[c] = "insert"
    /\ \/ DbOk /\ status' = [status EXCEPT ![ev[c]] = IF @ = "absent" THEN "pending" ELSE @]
       \/ DbError /\ UNCHANGED status
    /\ Answer(c, ev[c], TRUE)
    /\ UNCHANGED <<now, auth, top, pubVars, handed, crashes>>

\* INSERT ... ON CONFLICT (id) DO NOTHING, answered OK true in both cases.
InsertEvent(c) ==
    /\ pc[c] = "insert"
    /\ \/ /\ DbOk
          /\ status' = [status EXCEPT ![ev[c]] = IF @ = "absent" THEN "pending" ELSE @]
          /\ Answer(c, ev[c], TRUE)
       \/ /\ DbError
          /\ Answer(c, ev[c], FALSE)
          /\ UNCHANGED status
    /\ UNCHANGED <<now, auth, top, pubVars, handed, crashes>>

\* EVENT with kind 5 naming the ids S: one UPDATE over the user's pending rows.
\* (A failed UPDATE and an event without `e` tags change nothing.)
HandleDeletion(c, S) ==
    /\ pc[c] = "idle" /\ auth[c] # None
    /\ status' = [e \in Events |->
                    IF e \in S \cap PendingOf(auth[c]) THEN "cancelled" ELSE status[e]]
    /\ reply' = [reply EXCEPT ![c] = None]
    /\ UNCHANGED <<now, auth, pc, ev, top, pubVars, handed, crashes, dbErrors>>

\* The client goes away between two messages: ConnectionState is dropped.  A
\* handler that is already running is not cancelled.
Disconnect(c) ==
    /\ pc[c] = "idle" /\ auth[c] # None
    /\ auth' = [auth EXCEPT ![c] = None]
    /\ reply' = [reply EXCEPT ![c] = None]
    /\ UNCHANGED <<now, status, pc, ev, top, pubVars, handed, crashes, dbErrors>>

\* The instance serving c dies while the handler is between two statements.
LoseHandler(c) ==
    /\ pc[c] # "idle" /\ crashes < MaxCrashes
    /\ crashes' = crashes + 1
    /\ auth' = [auth EXCEPT ![c] = None]
    /\ pc' = [pc EXCEPT ![c] = "idle"]
    /\ ev' = [ev EXCEPT ![c] = None]
    /\ reply' = [reply EXCEPT ![c] = None]
    /\ UNCHANGED <<now, status, top, pubVars, handed, dbErrors>>

-----------------------------------------------------------------------------
(* The publisher *)

\* refresh_top_relays; when its query fails the cached list stays as it is.
RefreshTopRelays(p) ==
    /\ top[p] # TopRelays
    /\ top' = [top EXCEPT ![p] = TopRelays]
    /\ UNCHANGED <<now, status, connVars, pubVars, handed, crashes, dbErrors>>

\* Bug: "created_at = $1": what comes due between two cycles is passed over.
DueExactly == {e \in Events : status[e] = "pending" /\ DueAt[e] = now}

Due == {e \in Events : status[e] = "pending" /\ DueAt[e] <= now}

\* ORDER BY created_at LIMIT BatchLimit: the earliest due events.
IsBatch(S) ==
    /\ S \subseteq Due /\ S # {}
    /\ Cardinality(S) <= BatchLimit
    /\ S = Due \/ Cardinality(S) = BatchLimit
    /\ \A e \in S, f \in Due \ S : DueAt[e] <= DueAt[f]

\* Bug: a SELECT of the due rows that leaves them pending.
ClaimDueUnmarked(p, S) ==
    /\ stage[p] = "idle" /\ IsBatch(S)
    /\ stage' = [stage EXCEPT ![p] = "claimed"]
    /\ queue' = [queue EXCEPT ![p] = S]
    /\ UNCHANGED <<now, status, connVars, top, plan, cur, todo, accepted, handed,
                   crashes, dbErrors>>

\* UPDATE ... SET status = 'publishing' ... RETURNING.  When the connection to
\* the database breaks after the commit, the rows are claimed and the cycle
\* ends with an error: nobody holds them.
ClaimDue(p, S) ==
    /\ stage[p] = "idle" /\ IsBatch(S)
    /\ status' = [e \in Events |-> IF e \in S THEN "publishing" ELSE status[e]]
    /\ \/ /\ DbOk
          /\ stage' = [stage EXCEPT ![p] = "claimed"]
          /\ queue' = [queue EXCEPT ![p] = S]
       \/ /\ DbError
          /\ UNCHANGED <<stage, queue>>
    /\ UNCHANGED <<now, connVars, top, plan, cur, todo, accepted, handed, crashes>>

\* Read the authors' relay lists (none when the query fails) and copy the
\* cached top relays.
ReadRelayLists(p) ==
    /\ stage[p] = "claimed"
    /\ \E ok \in BOOLEAN :
          /\ IF ok THEN DbOk ELSE DbError
          /\ plan' = [plan EXCEPT ![p] = [lists |-> ok, fallback |-> top[p]]]
    /\ stage' = [stage EXCEPT ![p] = "ready"]
    /\ UNCHANGED <<now, status, connVars, top, queue, cur, todo, accepted, handed, crashes>>

\* get_write_relays_for_pubkey
Targets(p, e) ==
    IF plan[p].lists /\ WriteRelays[Owner[e]] # {}
    THEN WriteRelays[Owner[e]]
    ELSE plan[p].fallback

BeginEvent(p, e) ==
    /\ stage[p] = "ready" /\ e \in queue[p]
    /\ queue' = [queue EXCEPT ![p] = @ \ {e}]
    /\ cur' = [cur EXCEPT ![p] = e]
    /\ todo' = [todo EXCEPT ![p] = Targets(p, e)]
    /\ accepted' = [accepted EXCEPT ![p] = FALSE]
    /\ stage' = [stage EXCEPT ![p] = "sending"]
    /\ UNCHANGED <<now, status, connVars, top, plan, handed, crashes, dbErrors>>

\* One send_to_relay under its ten-second timeout.  Once the message is on the
\* socket, the relay accepts it, rejects it, or the answer is never read; then the
\* conversation counts as sent after five silent seconds, and as failed when the
\* socket closes or the outer timeout, which includes connecting, comes first.
SendToRelay(p, r) ==
    /\ stage[p] = "sending" /\ r \in todo[p]
    /\ todo' = [todo EXCEPT ![p] = @ \ {r}]
    /\ \/ UNCHANGED <<handed, accepted>>          \* could not connect or write
       \/ /\ handed' = [handed EXCEPT ![cur[p]][r] = @ + 1]
          /\ \E counts \in BOOLEAN : accepted' = [accepted EXCEPT ![p] = @ \/ counts]
    /\ UNCHANGED <<now, status, connVars, top, stage, queue, plan, cur, crashes, dbErrors>>

\* Bug: a status no query asks for.
OutcomeMisspelt(p) == IF accepted[p] THEN "publish" ELSE "failed"

Outcome(p) == IF accepted[p] THEN "published" ELSE "failed"

\* Bug: an event that reached no relay is skipped instead of marked failed.
SettleEventSkipFailed(p) ==
    /\ stage[p] = "sending" /\ todo[p] = {}
    /\ DbOk
    /\ status' = [status EXCEPT ![cur[p]] = IF accepted[p] THEN "published" ELSE @]
    /\ cur' = [cur EXCEPT ![p] = None]
    /\ accepted' = [accepted EXCEPT ![p] = FALSE]
    /\ stage' = [stage EXCEPT ![p] = IF queue[p] = {} THEN "idle" ELSE "ready"]
    /\ plan' = [plan EXCEPT ![p] = IF queue[p] = {} THEN NoPlan ELSE @]
    /\ UNCHANGED <<now, connVars, top, queue, todo, handed, crashes>>

\* The closing UPDATE, matched by id alone; its result is ignored (`let _`).
SettleEvent(p) ==
    /\ stage[p] = "sending" /\ todo[p] = {}
    /\ \/ /\ DbOk
          /\ status' = [status EXCEPT ![cur[p]] = IF @ = "absent" THEN @ ELSE Outcome(p)]
       \/ DbError /\ UNCHANGED status
    /\ cur' = [cur EXCEPT ![p] = None]
    /\ accepted' = [accepted EXCEPT ![p] = FALSE]
    /\ stage' = [stage EXCEPT ![p] = IF queue[p] = {} THEN "idle" ELSE "ready"]
    /\ plan' = [plan EXCEPT ![p] = IF queue[p] = {} THEN NoPlan ELSE @]
    /\ UNCHANGED <<now, connVars, top, queue, todo, handed, crashes>>

\* Bug: a restart puts every row left in 'publishing' back to 'pending'.
CrashPublisherRequeue(p) ==
    /\ crashes < MaxCrashes
    /\ stage[p] # "idle"
    /\ crashes' = crashes + 1
    /\ status' = [e \in Events |-> IF status[e] = "publishing" THEN "pending" ELSE status[e]]
    /\ stage' = [stage EXCEPT ![p] = "idle"]
    /\ queue' = [queue EXCEPT ![p] = {}]
    /\ cur' = [cur EXCEPT ![p] = None]
    /\ todo' = [todo EXCEPT ![p] = {}]
    /\ UNCHANGED <<now, connVars, plan, accepted, top, handed, dbErrors>>

\* The instance of p dies and restarts: its cycle and its relay cache are gone,
\* the rows stay.  Nothing at startup looks at rows left in 'publishing'.
CrashPublisher(p) ==
    /\ crashes < MaxCrashes
    /\ stage[p] # "idle" \/ top[p] # {}
    /\ crashes' = crashes + 1
    /\ stage' = [stage EXCEPT ![p] = "idle"]
    /\ queue' = [queue EXCEPT ![p] = {}]
    /\ plan' = [plan EXCEPT ![p] = NoPlan]
    /\ cur' = [cur EXCEPT ![p] = None]
    /\ todo' = [todo EXCEPT ![p] = {}]
    /\ accepted' = [accepted EXCEPT ![p] = FALSE]
    /\ top' = [top EXCEPT ![p] = {}]
    /\ UNCHANGED <<now, status, connVars, handed, dbErrors>>

-----------------------------------------------------------------------------
Handle(c) == CountPending(c) \/ CheckDuplicate(c) \/ InsertEvent(c)

Publish(p) ==
    \/ \E S \in SUBSET Events : ClaimDue(p, S)
    \/ ReadRelayLists(p)
    \/ \E e \in Events : BeginEvent(p, e)
    \/ \E r \in Relays : SendToRelay(p, r)
    \/ SettleEvent(p)

Next ==
    \/ Tick
    \/ \E c \in Conns : \/ \E pk \in Pubkeys : Authenticate(c, pk)
                        \/ \E e \in Events : SubmitEvent(c, e)
                        \/ Handle(c)
                        \/ \E S \in SUBSET Events : HandleDeletion(c, S)
                        \/ Disconnect(c)
                        \/ LoseHandler(c)
    \/ \E p \in Publishers : \/ RefreshTopRelays(p)
                             \/ Publish(p)
                             \/ CrashPublisher(p)

Spec == Init /\ [][Next]_vars

\* The publisher loop runs every minute, every await in a cycle has a timeout,
\* and time passes.  Users need not do anything.
FairSpec == /\ Spec
            /\ WF_vars(Tick)
            /\ \A p \in Publishers : WF_vars(Publish(p))
-----------------------------------------------------------------------------
(* Properties *)

Touched(e) == \E r \in Relays : handed[e][r] > 0

\* No relay is given an event before the time its author chose
\* (publish_due_events claims only created_at <= now).
NoEarlyHanding == \A e \in Events : Touched(e) => DueAt[e] <= now

\* A cancelled event was given to no relay and never will be: cancellation and
\* the publisher's claim race for the same row, and exactly one of them wins.
CancelledNeverHanded == \A e \in Events : status[e] = "cancelled" => ~Touched(e)

\* Every entry of an author's relay list is given an event at most once, whatever
\* publishers run at the same time and whenever an instance dies.
HandedAtMostOnce == \A e \in Events, r \in Relays : handed[e][r] <= 1

\* The inductive invariant behind the safety properties (SchedulerProof).
Untouched(e) == \A r \in Relays : handed[e][r] = 0

UntouchedUntilClaimed ==
    \A e \in Events : status[e] \in {"absent", "pending", "cancelled"} => Untouched(e)

ClaimedIsDue ==
    \A e \in Events : status[e] \in {"publishing", "published", "failed"} => DueAt[e] <= now

QueuedIsFresh ==
    \A p \in Publishers : /\ stage[p] = "idle" => queue[p] = {}
                          /\ \A e \in queue[p] : status[e] = "publishing" /\ Untouched(e)

SendingIsHeld ==
    \A p \in Publishers : stage[p] = "sending" =>
        /\ cur[p] \in Events \ queue[p]
        /\ status[cur[p]] = "publishing"
        /\ \A r \in todo[p] : handed[cur[p]][r] = 0

OneHolder ==
    \A p, q \in Publishers : p # q =>
        /\ queue[p] \cap queue[q] = {}
        /\ stage[p] = "sending" => cur[p] \notin queue[q]
        /\ stage[p] = "sending" /\ stage[q] = "sending" => cur[p] # cur[q]

HandlerHasEvent == \A c \in Conns : pc[c] # "idle" => ev[c] \in Events

\* An event is claimed when due, by one publisher at a time, and goes to a relay
\* only while it is claimed: the conjunction is preserved by every step.
Custody == /\ UntouchedUntilClaimed
           /\ ClaimedIsDue
           /\ QueuedIsFresh
           /\ SendingIsHeld
           /\ OneHolder
           /\ HandlerHasEvent
           /\ HandedAtMostOnce

\* Connections check the limit and insert in separate statements, so the limit may
\* be exceeded, but by no more than one event per other connection, and one more
\* for every statement that failed: a count that fails is taken for zero.
PendingOvershoot ==
    \A pk \in Pubkeys :
        Cardinality(PendingOf(pk)) <= MaxPending + Cardinality(Conns) - 1 + dbErrors

\* An event that was answered OK true has a row, whatever statements failed
\* before the answer; nothing takes the row away.
AcceptedIsStored ==
    \A c \in Conns : reply[c] # None /\ reply[c].ok => status[reply[c].ev] # "absent"

\* A row that reached an outcome keeps it: neither a resubmission, a second
\* publisher nor a late cancellation changes it.
SettledIsFinal ==
    [][\A e \in Events : status[e] \in Settled => status'[e] = status[e]]_vars

\* Every due event is claimed, whatever instances die and statements fail.
DueIsClaimed ==
    \A e \in Events :
        (status[e] = "pending" /\ DueAt[e] <= now) ~> status[e] # "pending"

\* A claimed event reaches an outcome unless an instance dies or a statement fails.
ClaimedIsSettled ==
    \A e \in Events :
        (status[e] = "publishing")
            ~> (status[e] \in Settled \/ crashes + dbErrors > 0)

\* The relay implements what ScheduledPost promises.
Phase == [e \in Events |->
            IF status[e] = "absent" THEN "draft"
            ELSE IF status[e] = "pending" THEN "scheduled"
            ELSE IF status[e] = "cancelled" THEN "withdrawn"
            ELSE IF status[e] = "publishing" THEN "started"
            ELSE "finished"]

Given == [e \in Events |-> {r \in Relays : handed[e][r] > 0}]

Promise == INSTANCE ScheduledPost WITH time <- now, phase <- Phase, given <- Given

ImplementsScheduledPost == Promise!Spec

\* mod.rs:27-31: the background task publishes the events that are due.
DueIsPublished ==
    \A e \in Events :
        (status[e] = "pending" /\ DueAt[e] <= now) ~> status[e] \in Settled
=============================================================================
