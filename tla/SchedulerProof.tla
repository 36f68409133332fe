--------------------------- MODULE SchedulerProof ---------------------------
(***************************************************************************)
(* Proofs about Scheduler for any number of events, users, connections,    *)
(* publishers and relays, any crashes and any failing statements.          *)
(*                                                                         *)
(* TypeOK is inductive on its own.  The safety properties are not: that an *)
(* event is given to a relay at most once needs to know who holds it.      *)
(* Custody adds that: a row in 'publishing' is held by at most one cycle,  *)
(* a held event that is not being sent was given to nobody, and the one    *)
(* being sent was not given to the relays it has still to be sent to.      *)
(***************************************************************************)
EXTENDS Scheduler, FiniteSetTheorems, TLAPS

LEMMA TypeInit == Init => TypeOK
  BY DEF Init, TypeOK, Statuses, NoPlan

\* An OK message leaves the handler's variables well typed.
LEMMA AnswerType ==
  ASSUME TypeOK, NEW c \in Conns, NEW e \in Events, NEW ok \in BOOLEAN, Answer(c, e, ok)
  PROVE  /\ reply' \in [Conns -> Replies \cup {None}]
         /\ pc' \in [Conns -> {"idle", "count", "exists", "insert"}]
         /\ ev' \in [Conns -> Events \cup {None}]
<1>1. [ev |-> e, ok |-> ok] \in Replies
  BY DEF Replies
<1>2. reply' \in [Conns -> Replies \cup {None}]
  <2> DEFINE m == [ev |-> e, ok |-> ok]
  <2>1. m \in Replies
    BY <1>1
  <2>2. reply' = [reply EXCEPT ![c] = m]
    BY DEF Answer
  <2> HIDE DEF m
  <2> QED
    BY <2>1, <2>2 DEF TypeOK
<1>3. pc' \in [Conns -> {"idle", "count", "exists", "insert"}]
  <2>1. pc' = [pc EXCEPT ![c] = "idle"]
    BY DEF Answer
  <2> QED
    BY <2>1 DEF TypeOK
<1>4. ev' \in [Conns -> Events \cup {None}]
  <2>1. ev' = [ev EXCEPT ![c] = None]
    BY DEF Answer
  <2> QED
    BY <2>1 DEF TypeOK
<1> QED
  BY <1>2, <1>3, <1>4

LEMMA TypeNext == TypeOK /\ HandlerHasEvent /\ SendingIsHeld /\ [Next]_vars => TypeOK'
<1> SUFFICES ASSUME TypeOK, HandlerHasEvent, SendingIsHeld, [Next]_vars
             PROVE  TypeOK'
    OBVIOUS
<1> USE ConstantsAssumption DEF TypeOK, connVars, pubVars, Statuses
<1>1. CASE Tick
    BY <1>1 DEF Tick
<1>2. ASSUME NEW c \in Conns, NEW pk \in Pubkeys, Authenticate(c, pk)
      PROVE  TypeOK'
    BY <1>2 DEF Authenticate
<1>3. ASSUME NEW c \in Conns, NEW e \in Events, SubmitEvent(c, e)
      PROVE  TypeOK'
  <2> UNCHANGED <<now, status, auth, top, pubVars, handed, crashes, dbErrors>>
    BY <1>3, Zenon DEF SubmitEvent
  <2>1. CASE Acceptable(c, e)
    <3>1. /\ pc' = [pc EXCEPT ![c] = "count"]
          /\ ev' = [ev EXCEPT ![c] = e]
          /\ reply' = [reply EXCEPT ![c] = None]
      BY <1>3, <2>1, Zenon DEF SubmitEvent
    <3> QED
      BY <3>1
  <2>2. CASE ~Acceptable(c, e)
    <3>1. Answer(c, e, FALSE)
      BY <1>3, <2>2, Zenon DEF SubmitEvent
    <3>2. /\ reply' \in [Conns -> Replies \cup {None}]
          /\ pc' \in [Conns -> {"idle", "count", "exists", "insert"}]
          /\ ev' \in [Conns -> Events \cup {None}]
      BY <3>1, AnswerType
    <3> QED
      BY <3>2
  <2> QED
    BY <2>1, <2>2
<1>4. ASSUME NEW c \in Conns, CountPending(c)
      PROVE  TypeOK'
  <2>1. ev[c] \in Events
    BY <1>4 DEF CountPending, HandlerHasEvent
  <2>2. \/ Answer(c, ev[c], FALSE)
        \/ pc' = [pc EXCEPT ![c] = "exists"] /\ UNCHANGED <<ev, reply>>
    BY <1>4, Zenon DEF CountPending
  <2>3. /\ reply' \in [Conns -> Replies \cup {None}]
        /\ pc' \in [Conns -> {"idle", "count", "exists", "insert"}]
        /\ ev' \in [Conns -> Events \cup {None}]
    <3>1. CASE Answer(c, ev[c], FALSE)
      BY <2>1, <3>1, AnswerType
    <3>2. CASE pc' = [pc EXCEPT ![c] = "exists"] /\ UNCHANGED <<ev, reply>>
      BY <3>2
    <3> QED
      BY <2>2, <3>1, <3>2
  <2>4. UNCHANGED <<now, status, auth, top, pubVars, handed, crashes>>
    BY <1>4, Zenon DEF CountPending
  <2>5. DbOk \/ DbError
    BY <1>4, Zenon DEF CountPending
  <2> QED
    BY <2>3, <2>4, <2>5 DEF DbOk, DbError
<1>5. ASSUME NEW c \in Conns, CheckDuplicate(c)
      PROVE  TypeOK'
  <2>1. ev[c] \in Events
    BY <1>5 DEF CheckDuplicate, HandlerHasEvent
  <2>2. \/ Answer(c, ev[c], TRUE)
        \/ pc' = [pc EXCEPT ![c] = "insert"] /\ UNCHANGED <<ev, reply>>
    BY <1>5, Zenon DEF CheckDuplicate
  <2>3. /\ reply' \in [Conns -> Replies \cup {None}]
        /\ pc' \in [Conns -> {"idle", "count", "exists", "insert"}]
        /\ ev' \in [Conns -> Events \cup {None}]
    <3>1. CASE Answer(c, ev[c], TRUE)
      BY <2>1, <3>1, AnswerType
    <3>2. CASE pc' = [pc EXCEPT ![c] = "insert"] /\ UNCHANGED <<ev, reply>>
      BY <3>2
    <3> QED
      BY <2>2, <3>1, <3>2
  <2>4. UNCHANGED <<now, status, auth, top, pubVars, handed, crashes>>
    BY <1>5, Zenon DEF CheckDuplicate
  <2>5. DbOk \/ DbError
    BY <1>5, Zenon DEF CheckDuplicate
  <2> QED
    BY <2>3, <2>4, <2>5 DEF DbOk, DbError
<1>6. ASSUME NEW c \in Conns, InsertEvent(c)
      PROVE  TypeOK'
  <2>1. ev[c] \in Events
    BY <1>6 DEF InsertEvent, HandlerHasEvent
  <2>2. \E ok \in BOOLEAN : Answer(c, ev[c], ok)
    BY <1>6, Zenon DEF InsertEvent
  <2>3. /\ reply' \in [Conns -> Replies \cup {None}]
        /\ pc' \in [Conns -> {"idle", "count", "exists", "insert"}]
        /\ ev' \in [Conns -> Events \cup {None}]
    BY <2>1, <2>2, AnswerType
  <2>4. \/ status' = [status EXCEPT ![ev[c]] = IF @ = "absent" THEN "pending" ELSE @]
        \/ status' = status
    BY <1>6, Zenon DEF InsertEvent
  <2>5. status' \in [Events -> Statuses]
    <3>1. CASE status' = status
      BY <3>1
    <3>2. CASE status' = [status EXCEPT ![ev[c]] = IF @ = "absent" THEN "pending" ELSE @]
      BY <2>1, <3>2
    <3> QED
      BY <2>4, <3>1, <3>2
  <2>6. UNCHANGED <<now, auth, top, pubVars, handed, crashes>>
    BY <1>6, Zenon DEF InsertEvent
  <2>7. DbOk \/ DbError
    BY <1>6, Zenon DEF InsertEvent
  <2> QED
    BY <2>3, <2>5, <2>6, <2>7 DEF DbOk, DbError
<1>7. ASSUME NEW c \in Conns, NEW S \in SUBSET Events, HandleDeletion(c, S)
      PROVE  TypeOK'
    BY <1>7 DEF HandleDeletion
<1>8. ASSUME NEW c \in Conns, Disconnect(c)
      PROVE  TypeOK'
    BY <1>8 DEF Disconnect
<1>9. ASSUME NEW c \in Conns, LoseHandler(c)
      PROVE  TypeOK'
    BY <1>9 DEF LoseHandler
<1>10. ASSUME NEW p \in Publishers, RefreshTopRelays(p)
       PROVE  TypeOK'
    BY <1>10 DEF RefreshTopRelays
<1>11. ASSUME NEW p \in Publishers, NEW S \in SUBSET Events, ClaimDue(p, S)
       PROVE  TypeOK'
  <2>1. status' \in [Events -> Statuses]
    BY <1>11 DEF ClaimDue
  <2>2. \/ /\ stage' = [stage EXCEPT ![p] = "claimed"]
           /\ queue' = [queue EXCEPT ![p] = S]
        \/ UNCHANGED <<stage, queue>>
    BY <1>11, Zenon DEF ClaimDue
  <2>3. UNCHANGED <<now, connVars, top, plan, cur, todo, accepted, handed, crashes>>
    BY <1>11, Zenon DEF ClaimDue
  <2>4. DbOk \/ DbError
    BY <1>11, Zenon DEF ClaimDue
  <2>5. /\ stage' \in [Publishers -> {"idle", "claimed", "ready", "sending"}]
        /\ queue' \in [Publishers -> SUBSET Events]
    BY <2>2
  <2> QED
    BY <2>1, <2>3, <2>4, <2>5 DEF DbOk, DbError
<1>12. ASSUME NEW p \in Publishers, ReadRelayLists(p)
       PROVE  TypeOK'
    BY <1>12 DEF ReadRelayLists, DbOk, DbError
<1>13. ASSUME NEW p \in Publishers, NEW e \in Events, BeginEvent(p, e)
       PROVE  TypeOK'
  <2>1. Targets(p, e) \in SUBSET Relays
    BY <1>13 DEF Targets
  <2> QED
    BY <1>13, <2>1 DEF BeginEvent
<1>14. ASSUME NEW p \in Publishers, NEW r \in Relays, SendToRelay(p, r)
       PROVE  TypeOK'
  <2>1. cur[p] \in Events
    BY <1>14 DEF SendToRelay, SendingIsHeld
  <2>2. CASE UNCHANGED <<handed, accepted>>
    BY <1>14, <2>2 DEF SendToRelay
  <2>3. CASE ~UNCHANGED <<handed, accepted>>
    <3>1. accepted' \in [Publishers -> BOOLEAN]
      <4>1. PICK counts \in BOOLEAN : accepted' = [accepted EXCEPT ![p] = @ \/ counts]
        BY <1>14, <2>3 DEF SendToRelay
      <4> QED
        BY <4>1
    <3>2. handed' \in [Events -> [Relays -> Nat]]
      <4>1. handed' = [handed EXCEPT ![cur[p]][r] = @ + 1]
        BY <1>14, <2>3 DEF SendToRelay
      <4> QED
        BY <2>1, <4>1
    <3> QED
      BY <1>14, <3>1, <3>2 DEF SendToRelay
  <2> QED
    BY <2>2, <2>3
<1>15. ASSUME NEW p \in Publishers, SettleEvent(p)
       PROVE  TypeOK'
  <2>1. status' \in [Events -> Statuses]
    <3>1. CASE UNCHANGED status
      BY <3>1
    <3>2. CASE status' = [status EXCEPT ![cur[p]] = IF @ = "absent" THEN @ ELSE Outcome(p)]
      <4>1. Outcome(p) \in Statuses
        BY DEF Outcome
      <4> QED
        BY <3>2, <4>1
    <3> QED
      BY <1>15, <3>1, <3>2, Zenon DEF SettleEvent
  <2>2. plan' \in [Publishers -> [lists : BOOLEAN, fallback : SUBSET Relays]]
    BY <1>15 DEF SettleEvent, NoPlan
  <2>3. /\ cur' \in [Publishers -> Events \cup {None}]
        /\ accepted' \in [Publishers -> BOOLEAN]
        /\ stage' \in [Publishers -> {"idle", "claimed", "ready", "sending"}]
    BY <1>15 DEF SettleEvent
  <2>4. UNCHANGED <<now, connVars, top, queue, todo, handed, crashes>>
    BY <1>15, Zenon DEF SettleEvent
  <2>5. DbOk \/ DbError
    BY <1>15, Zenon DEF SettleEvent
  <2> QED
    BY <2>1, <2>2, <2>3, <2>4, <2>5 DEF DbOk, DbError
<1>16. ASSUME NEW p \in Publishers, CrashPublisher(p)
       PROVE  TypeOK'
    BY <1>16 DEF CrashPublisher, NoPlan
<1>17. CASE UNCHANGED vars
    BY <1>17 DEF vars
<1> QED
    BY <1>1, <1>2, <1>3, <1>4, <1>5, <1>6, <1>7, <1>8, <1>9, <1>10, <1>11, <1>12,
       <1>13, <1>14, <1>15, <1>16, <1>17 DEF Next, Handle, Publish

-----------------------------------------------------------------------------
LEMMA CustodyInit == Init => Custody
  BY DEF Init, Custody, UntouchedUntilClaimed, ClaimedIsDue, QueuedIsFresh, SendingIsHeld,
         OneHolder, HandlerHasEvent, HandedAtMostOnce, Untouched

\* A handler past its first statement works on an event.
LEMMA HandlerNext == TypeOK /\ HandlerHasEvent /\ [Next]_vars => HandlerHasEvent'
<1> SUFFICES ASSUME TypeOK, HandlerHasEvent, [Next]_vars, NEW d \in Conns, pc'[d] # "idle"
             PROVE  ev'[d] \in Events
    BY DEF HandlerHasEvent
<1> USE DEF HandlerHasEvent
<1>1. CASE UNCHANGED <<pc, ev>>
    BY <1>1
<1>2. ASSUME NEW c \in Conns, NEW e \in Events, SubmitEvent(c, e)
      PROVE  ev'[d] \in Events
  <2>1. CASE Answer(c, e, FALSE)
    BY <2>1 DEF TypeOK, Answer
  <2>2. CASE pc' = [pc EXCEPT ![c] = "count"] /\ ev' = [ev EXCEPT ![c] = e]
    BY <2>2 DEF TypeOK
  <2> QED
    BY <1>2, <2>1, <2>2, Zenon DEF SubmitEvent
<1>3. ASSUME NEW c \in Conns, pc[c] # "idle",
             \/ \E ok \in BOOLEAN : Answer(c, ev[c], ok)
             \/ \E s \in {"exists", "insert"} : pc' = [pc EXCEPT ![c] = s] /\ UNCHANGED ev
      PROVE  ev'[d] \in Events
  <2>1. CASE \E ok \in BOOLEAN : Answer(c, ev[c], ok)
    BY <2>1 DEF TypeOK, Answer
  <2>2. CASE \E s \in {"exists", "insert"} : pc' = [pc EXCEPT ![c] = s] /\ UNCHANGED ev
    BY <1>3, <2>2 DEF TypeOK
  <2> QED
    BY <1>3, <2>1, <2>2
<1>4. ASSUME NEW c \in Conns, Handle(c)
      PROVE  ev'[d] \in Events
  <2>1. pc[c] # "idle"
    BY <1>4 DEF Handle, CountPending, CheckDuplicate, InsertEvent
  <2>2. CASE CountPending(c)
    BY <1>3, <2>1, <2>2, Zenon DEF CountPending
  <2>3. CASE CheckDuplicate(c)
    BY <1>3, <2>1, <2>3, Zenon DEF CheckDuplicate
  <2>4. CASE InsertEvent(c)
    BY <1>3, <2>1, <2>4, Zenon DEF InsertEvent
  <2> QED
    BY <1>4, <2>2, <2>3, <2>4 DEF Handle
<1>5. ASSUME NEW c \in Conns, LoseHandler(c)
      PROVE  ev'[d] \in Events
    BY <1>5 DEF LoseHandler, TypeOK
<1>6. CASE UNCHANGED vars
    BY <1>1, <1>6 DEF vars
<1>7. ASSUME NEW c \in Conns,
             \/ \E pk \in Pubkeys : Authenticate(c, pk)
             \/ \E S \in SUBSET Events : HandleDeletion(c, S)
             \/ Disconnect(c)
      PROVE  UNCHANGED <<pc, ev>>
    BY <1>7 DEF Authenticate, HandleDeletion, Disconnect
<1>8. CASE Tick
    BY <1>1, <1>8 DEF Tick, connVars
<1>9. ASSUME NEW p \in Publishers, RefreshTopRelays(p) \/ Publish(p) \/ CrashPublisher(p)
      PROVE  UNCHANGED <<pc, ev>>
    BY <1>9 DEF Publish, RefreshTopRelays, ClaimDue, ReadRelayLists, BeginEvent, SendToRelay,
                SettleEvent, CrashPublisher, connVars
<1> QED
    BY <1>1, <1>2, <1>4, <1>5, <1>6, <1>7, <1>8, <1>9 DEF Next

\* What Custody says of rows, cycles and relays; the rest is HandlerNext.
Held == /\ UntouchedUntilClaimed /\ ClaimedIsDue /\ QueuedIsFresh
        /\ SendingIsHeld /\ OneHolder /\ HandedAtMostOnce

LEMMA HeldNext == TypeOK /\ Custody /\ [Next]_vars => Held'
<1> SUFFICES ASSUME TypeOK, Held, HandlerHasEvent, [Next]_vars
             PROVE  Held'
    BY DEF Custody, Held
<1> USE DEF Held, UntouchedUntilClaimed, ClaimedIsDue, QueuedIsFresh, SendingIsHeld,
            OneHolder, HandedAtMostOnce, Untouched
<1>a. \A q \in Publishers : queue[q] \subseteq Events /\ todo[q] \subseteq Relays
  BY DEF TypeOK
\* Steps that touch neither the table, a cycle nor a relay.
<1>1. CASE UNCHANGED <<now, status, stage, queue, cur, todo, handed>>
    BY <1>1
<1>2. CASE Tick
  <2>1. now' = now + 1 /\ UNCHANGED <<status, stage, queue, cur, todo, handed>>
    BY <1>2 DEF Tick, pubVars
  <2>2. ClaimedIsDue'
    BY <2>1, ConstantsAssumption DEF TypeOK
  <2> QED
    BY <2>1, <2>2
\* A new row was given to nobody; a row that exists stays what it is.
<1>3. ASSUME NEW c \in Conns, InsertEvent(c)
      PROVE  Held'
  <2>1. UNCHANGED <<now, stage, queue, cur, todo, handed>>
    BY <1>3, Zenon DEF InsertEvent, pubVars
  <2>2. CASE UNCHANGED status
    BY <1>1, <2>1, <2>2
  <2>3. CASE status' = [status EXCEPT ![ev[c]] = IF @ = "absent" THEN "pending" ELSE @]
    <3>1. \A e \in Events : \/ status'[e] = status[e]
                            \/ status[e] = "absent" /\ status'[e] = "pending"
      BY <2>3 DEF TypeOK
    <3>2. UntouchedUntilClaimed'
      BY <2>1, <3>1
    <3>3. ClaimedIsDue'
      BY <2>1, <3>1
    <3>4. QueuedIsFresh'
      BY <2>1, <3>1 DEF TypeOK
    <3>5. SendingIsHeld'
      BY <2>1, <3>1 DEF TypeOK
    <3> QED
      BY <2>1, <3>2, <3>3, <3>4, <3>5
  <2> QED
    BY <1>3, <2>2, <2>3, Zenon DEF InsertEvent
\* A cancelled row was pending: no cycle holds it and no relay got it.
<1>4. ASSUME NEW c \in Conns, NEW S \in SUBSET Events, HandleDeletion(c, S)
      PROVE  Held'
  <2>1. UNCHANGED <<now, stage, queue, cur, todo, handed>>
    BY <1>4 DEF HandleDeletion, pubVars
  <2>2. \A e \in Events : \/ status'[e] = status[e]
                          \/ status[e] = "pending" /\ status'[e] = "cancelled"
    BY <1>4 DEF HandleDeletion, PendingOf
  <2>3. UntouchedUntilClaimed' /\ ClaimedIsDue'
    BY <2>1, <2>2
  <2>4. QueuedIsFresh' /\ SendingIsHeld'
    BY <2>1, <2>2 DEF TypeOK
  <2> QED
    BY <2>1, <2>3, <2>4
\* The claimed rows were pending: due, given to nobody and held by no other cycle.
<1>5. ASSUME NEW p \in Publishers, NEW S \in SUBSET Events, ClaimDue(p, S)
      PROVE  Held'
  <2>1. UNCHANGED <<now, cur, todo, handed>>
    BY <1>5, Zenon DEF ClaimDue
  <2>2. \A e \in S : status[e] = "pending" /\ DueAt[e] <= now
    BY <1>5 DEF ClaimDue, IsBatch, Due
  <2>3. \A e \in Events : status'[e] = IF e \in S THEN "publishing" ELSE status[e]
    BY <1>5 DEF ClaimDue
  <2>4. stage[p] = "idle"
    BY <1>5 DEF ClaimDue
  <2>5. \/ UNCHANGED <<stage, queue>>
        \/ stage' = [stage EXCEPT ![p] = "claimed"] /\ queue' = [queue EXCEPT ![p] = S]
    BY <1>5, Zenon DEF ClaimDue
  <2>6. \A q \in Publishers : /\ S \cap queue[q] = {}
                              /\ stage[q] = "sending" => cur[q] \notin S
    BY <2>2 DEF TypeOK
  <2>7. UntouchedUntilClaimed' /\ ClaimedIsDue'
    BY <2>1, <2>2, <2>3
  <2>8. CASE UNCHANGED <<stage, queue>>
    <3>1. QueuedIsFresh'
      BY <2>1, <2>3, <2>6, <2>8 DEF TypeOK
    <3>2. SendingIsHeld'
      BY <2>1, <2>3, <2>6, <2>8 DEF TypeOK
    <3> QED
      BY <2>1, <2>7, <2>8, <3>1, <3>2
  <2>9. CASE stage' = [stage EXCEPT ![p] = "claimed"] /\ queue' = [queue EXCEPT ![p] = S]
    <3>1. \A q \in Publishers : /\ queue'[q] = IF q = p THEN S ELSE queue[q]
                                /\ stage'[q] = IF q = p THEN "claimed" ELSE stage[q]
      BY <2>9 DEF TypeOK
    <3>2. QueuedIsFresh'
      BY <2>1, <2>2, <2>3, <2>6, <3>1 DEF TypeOK
    <3>3. SendingIsHeld'
      BY <2>1, <2>3, <2>6, <3>1 DEF TypeOK
    <3>4. OneHolder'
      BY <2>1, <2>4, <2>6, <3>1 DEF TypeOK
    <3> QED
      BY <2>1, <2>7, <3>2, <3>3, <3>4
  <2> QED
    BY <2>5, <2>8, <2>9
<1>6. ASSUME NEW p \in Publishers, ReadRelayLists(p)
      PROVE  Held'
  <2>1. UNCHANGED <<now, status, queue, cur, todo, handed>> /\ stage[p] = "claimed"
        /\ stage' = [stage EXCEPT ![p] = "ready"]
    BY <1>6, Zenon DEF ReadRelayLists
  <2>2. \A q \in Publishers : stage'[q] = IF q = p THEN "ready" ELSE stage[q]
    BY <2>1 DEF TypeOK
  <2> QED
    BY <2>1, <2>2
\* The event that a cycle takes from its queue was given to nobody.
<1>7. ASSUME NEW p \in Publishers, NEW e \in Events, BeginEvent(p, e)
      PROVE  Held'
  <2>1. UNCHANGED <<now, status, handed>> /\ stage[p] = "ready" /\ e \in queue[p]
    BY <1>7, Zenon DEF BeginEvent
  <2>2. /\ queue'[p] = queue[p] \ {e} /\ cur'[p] = e /\ stage'[p] = "sending"
        /\ todo'[p] = Targets(p, e)
    BY <1>7, Zenon DEF BeginEvent, TypeOK
  <2>3. \A q \in Publishers : q # p => /\ queue'[q] = queue[q] /\ cur'[q] = cur[q]
                                      /\ stage'[q] = stage[q] /\ todo'[q] = todo[q]
    BY <1>7, Zenon DEF BeginEvent, TypeOK
  <2>4. Targets(p, e) \subseteq Relays
    BY ConstantsAssumption DEF Targets, TypeOK
  <2>5. status[e] = "publishing" /\ Untouched(e) /\ e \in Events
    BY <2>1
  <2>6. QueuedIsFresh'
    BY <2>1, <2>2, <2>3
  <2>7. SendingIsHeld'
    <3> SUFFICES ASSUME NEW q \in Publishers, stage'[q] = "sending"
                 PROVE  /\ cur'[q] \in Events \ queue'[q] /\ status'[cur'[q]] = "publishing"
                        /\ \A s \in todo'[q] : handed'[cur'[q]][s] = 0
      OBVIOUS
    <3>1. CASE q = p
      BY <2>1, <2>2, <2>4, <2>5, <3>1
    <3>2. CASE q # p
      BY <2>1, <2>3, <3>2
    <3> QED
      BY <3>1, <3>2
  <2>8. OneHolder'
    BY <2>1, <2>2, <2>3
  <2> QED
    BY <2>1, <2>6, <2>7, <2>8
\* Only the cycle that holds an event gives it to relays, each once.
<1>8. ASSUME NEW p \in Publishers, NEW r \in Relays, SendToRelay(p, r)
      PROVE  Held'
  <2>1. UNCHANGED <<now, status, stage, queue, cur>> /\ stage[p] = "sending" /\ r \in todo[p]
    BY <1>8, Zenon DEF SendToRelay
  <2>2. todo'[p] = todo[p] \ {r} /\ \A q \in Publishers : q # p => todo'[q] = todo[q]
    BY <1>8, Zenon DEF SendToRelay, TypeOK
  <2>3. CASE UNCHANGED handed
    <3>1. SendingIsHeld'
      BY <2>1, <2>2, <2>3
    <3> QED
      BY <2>1, <2>3, <3>1
  <2>4. CASE handed' = [handed EXCEPT ![cur[p]][r] = @ + 1]
    <3>1. cur[p] \in Events /\ status[cur[p]] = "publishing" /\ handed[cur[p]][r] = 0
      BY <2>1
    <3>2. \A e \in Events, s \in Relays :
             handed'[e][s] = IF e = cur[p] /\ s = r THEN 1 ELSE handed[e][s]
      BY <2>4, <3>1 DEF TypeOK
    <3>3. UntouchedUntilClaimed'
      BY <2>1, <3>1, <3>2
    <3>4. ASSUME NEW q \in Publishers, NEW f \in queue[q]
          PROVE  status'[f] = "publishing" /\ \A s \in Relays : handed'[f][s] = 0
      <4>1. f # cur[p] /\ f \in Events
        BY <1>a, <2>1, <3>1
      <4> QED
        BY <2>1, <3>2, <4>1
    <3>5. \A q \in Publishers : todo[q] \subseteq Relays
      BY DEF TypeOK
    <3>6. ASSUME NEW q \in Publishers, stage'[q] = "sending"
          PROVE  /\ cur'[q] \in Events \ queue'[q] /\ status'[cur'[q]] = "publishing"
                 /\ \A s \in todo'[q] : handed'[cur'[q]][s] = 0
      <4>1. CASE q = p
        BY <2>1, <2>2, <3>1, <3>2, <3>5, <4>1
      <4>2. CASE q # p
        BY <2>1, <2>2, <3>1, <3>2, <3>5, <3>6, <4>2
      <4> QED
        BY <4>1, <4>2
    <3>7. HandedAtMostOnce'
      BY <3>2
    <3> QED
      BY <2>1, <3>3, <3>4, <3>6, <3>7
  <2> QED
    BY <1>8, <2>3, <2>4, Zenon DEF SendToRelay
\* Settling releases the event.
<1>9. ASSUME NEW p \in Publishers, SettleEvent(p)
      PROVE  Held'
  <2>1. UNCHANGED <<now, queue, todo, handed>> /\ stage[p] = "sending"
    BY <1>9, Zenon DEF SettleEvent
  <2>2. /\ cur[p] \in Events /\ status[cur[p]] = "publishing"
        /\ \A q \in Publishers : cur[p] \notin queue[q]
    BY <2>1
  <2>3. \A q \in Publishers : /\ cur'[q] = IF q = p THEN None ELSE cur[q]
                              /\ q # p => stage'[q] = stage[q]
    BY <1>9 DEF SettleEvent, TypeOK
  <2>4. stage'[p] = IF queue[p] = {} THEN "idle" ELSE "ready"
    BY <1>9 DEF SettleEvent, TypeOK
  <2>5. \A e \in Events : \/ status'[e] = status[e]
                          \/ e = cur[p] /\ status'[e] \in {"published", "failed"}
    BY <1>9 DEF SettleEvent, Outcome, TypeOK
  <2>6. UntouchedUntilClaimed' /\ ClaimedIsDue'
    BY <2>1, <2>2, <2>5
  <2>7. ASSUME NEW q \in Publishers
        PROVE  /\ stage'[q] = "idle" => queue'[q] = {}
               /\ \A f \in queue'[q] : status'[f] = "publishing" /\ \A s \in Relays : handed'[f][s] = 0
    <3>1. \A f \in queue[q] : f \in Events /\ f # cur[p]
      BY <1>a, <2>2
    <3> QED
      BY <2>1, <2>3, <2>4, <2>5, <3>1
  <2>8. ASSUME NEW q \in Publishers, stage'[q] = "sending"
        PROVE  /\ cur'[q] \in Events \ queue'[q] /\ status'[cur'[q]] = "publishing"
               /\ \A s \in todo'[q] : handed'[cur'[q]][s] = 0
    <3>1. q # p /\ stage[q] = "sending"
      BY <2>3, <2>4, <2>8
    <3>2. cur[q] # cur[p]
      BY <2>1, <3>1
    <3> QED
      BY <2>1, <2>3, <2>5, <3>1, <3>2
  <2>9. OneHolder'
    BY <2>1, <2>3, <2>4
  <2> QED
    BY <2>1, <2>6, <2>7, <2>8, <2>9
\* A dead cycle holds nothing; its rows stay claimed for ever.
<1>10. ASSUME NEW p \in Publishers, CrashPublisher(p)
       PROVE  Held'
  <2>1. UNCHANGED <<now, status, handed>>
    BY <1>10 DEF CrashPublisher
  <2>2. \A q \in Publishers : /\ stage'[q] = IF q = p THEN "idle" ELSE stage[q]
                              /\ queue'[q] = IF q = p THEN {} ELSE queue[q]
                              /\ cur'[q] = IF q = p THEN None ELSE cur[q]
                              /\ todo'[q] = IF q = p THEN {} ELSE todo[q]
    BY <1>10 DEF CrashPublisher, TypeOK
  <2>3. UntouchedUntilClaimed' /\ ClaimedIsDue' /\ HandedAtMostOnce'
    BY <2>1
  <2>4. QueuedIsFresh' /\ SendingIsHeld' /\ OneHolder'
    BY <2>1, <2>2
  <2> QED
    BY <2>3, <2>4
<1>11. ASSUME NEW c \in Conns,
              \/ \E pk \in Pubkeys : Authenticate(c, pk)
              \/ \E e \in Events : SubmitEvent(c, e)
              \/ CountPending(c) \/ CheckDuplicate(c) \/ Disconnect(c) \/ LoseHandler(c)
       PROVE  UNCHANGED <<now, status, stage, queue, cur, todo, handed>>
    BY <1>11 DEF Authenticate, SubmitEvent, CountPending, CheckDuplicate, Disconnect, LoseHandler,
                 pubVars
<1>12. ASSUME NEW p \in Publishers, RefreshTopRelays(p)
       PROVE  UNCHANGED <<now, status, stage, queue, cur, todo, handed>>
    BY <1>12 DEF RefreshTopRelays, pubVars
<1>13. CASE UNCHANGED vars
    BY <1>1, <1>13 DEF vars
<1> QED
    BY <1>1, <1>2, <1>3, <1>4, <1>5, <1>6, <1>7, <1>8, <1>9, <1>10, <1>11, <1>12, <1>13
       DEF Next, Handle, Publish
-----------------------------------------------------------------------------
(* The life of a row *)

\* The ways in which a step may move the row of an event.
Moved(e) == \/ status'[e] = status[e]
            \/ status[e] = "absent" /\ status'[e] = "pending"
            \/ status[e] = "pending" /\ status'[e] \in {"cancelled", "publishing"}
            \/ status[e] = "publishing" /\ status'[e] \in {"published", "failed"}

LEMMA RowMoves ==
    TypeOK /\ Custody /\ [Next]_vars => \A e \in Events : Moved(e)
<1> SUFFICES ASSUME TypeOK, Custody, [Next]_vars, NEW e \in Events
             PROVE  Moved(e)
    OBVIOUS
<1>0. status \in [Events -> Statuses] /\ cur \in [Publishers -> Events \cup {None}]
    BY DEF TypeOK
<1>1. CASE UNCHANGED status
    BY <1>1 DEF Moved
<1>2. ASSUME NEW c \in Conns, InsertEvent(c), ~UNCHANGED status
      PROVE  Moved(e)
  <2>1. status' = [status EXCEPT ![ev[c]] = IF @ = "absent" THEN "pending" ELSE @]
    BY <1>2, Zenon DEF InsertEvent
  <2> QED
    BY <1>0, <2>1 DEF Moved
<1>3. ASSUME NEW c \in Conns, NEW S \in SUBSET Events, HandleDeletion(c, S)
      PROVE  Moved(e)
    BY <1>0, <1>3 DEF HandleDeletion, PendingOf, Moved
<1>4. ASSUME NEW p \in Publishers, NEW S \in SUBSET Events, ClaimDue(p, S)
      PROVE  Moved(e)
  <2>1. /\ S \subseteq Due
        /\ status' = [f \in Events |-> IF f \in S THEN "publishing" ELSE status[f]]
    BY <1>4, Zenon DEF ClaimDue, IsBatch
  <2> QED
    BY <1>0, <2>1 DEF Due, Moved
<1>5. ASSUME NEW p \in Publishers, SettleEvent(p), ~UNCHANGED status
      PROVE  Moved(e)
  <2>1. status' = [status EXCEPT ![cur[p]] = IF @ = "absent" THEN @ ELSE Outcome(p)]
    BY <1>5, Zenon DEF SettleEvent
  <2>2. status[cur[p]] = "publishing"
    BY <1>5 DEF SettleEvent, Custody, SendingIsHeld
  <2> QED
    BY <1>0, <2>1, <2>2 DEF Outcome, Moved
<1>6. \/ UNCHANGED status
      \/ \E c \in Conns : InsertEvent(c) \/ \E S \in SUBSET Events : HandleDeletion(c, S)
      \/ \E p \in Publishers : SettleEvent(p) \/ \E S \in SUBSET Events : ClaimDue(p, S)
    BY Zenon DEF Next, vars, Handle, Publish, Tick, Authenticate, SubmitEvent, CountPending,
                 CheckDuplicate, Disconnect, LoseHandler, RefreshTopRelays, ReadRelayLists,
                 BeginEvent, SendToRelay, CrashPublisher
<1> QED
    BY <1>1, <1>2, <1>3, <1>4, <1>5, <1>6

\* The answer to an EVENT is about a row that is there.
LEMMA StoredNext ==
    TypeOK /\ Custody /\ AcceptedIsStored /\ [Next]_vars => AcceptedIsStored'
<1> SUFFICES ASSUME TypeOK, Custody, AcceptedIsStored, [Next]_vars,
                    NEW c \in Conns, reply'[c] # None, reply'[c].ok
             PROVE  status'[reply'[c].ev] # "absent"
    BY DEF AcceptedIsStored
<1>0. /\ status \in [Events -> Statuses]
      /\ reply \in [Conns -> Replies \cup {None}]
    BY DEF TypeOK
<1>1. \A e \in Events : status[e] # "absent" => status'[e] # "absent"
    BY RowMoves DEF Moved
<1>2. CASE reply'[c] = reply[c]
  <2>1. reply[c].ev \in Events /\ status[reply[c].ev] # "absent"
    BY <1>0, <1>2 DEF AcceptedIsStored, Replies
  <2> QED
    BY <1>1, <1>2, <2>1
<1>3. ASSUME NEW d \in Conns, NEW e \in Events, NEW ok \in BOOLEAN, Answer(d, e, ok),
             ok => status'[e] # "absent"
      PROVE  status'[reply'[c].ev] # "absent"
  <2>1. CASE c = d
    BY <1>0, <1>3, <2>1 DEF Answer
  <2>2. CASE c # d
    BY <1>0, <1>2, <1>3, <2>2 DEF Answer
  <2> QED
    BY <2>1, <2>2
<1>4. ASSUME NEW d \in Conns, NEW e \in Events, SubmitEvent(d, e), reply'[c] # reply[c]
      PROVE  status'[reply'[c].ev] # "absent"
  <2>1. CASE Answer(d, e, FALSE)
    BY <1>3, <2>1
  <2>2. CASE reply' = [reply EXCEPT ![d] = None]
    BY <1>0, <1>4, <2>2
  <2> QED
    BY <1>4, <2>1, <2>2, Zenon DEF SubmitEvent
<1>5. ASSUME NEW d \in Conns, CountPending(d), reply'[c] # reply[c]
      PROVE  status'[reply'[c].ev] # "absent"
  <2>1. ev[d] \in Events
    BY <1>5 DEF CountPending, Custody, HandlerHasEvent
  <2>2. Answer(d, ev[d], FALSE)
    BY <1>5, Zenon DEF CountPending
  <2> QED
    BY <1>3, <2>1, <2>2
<1>6. ASSUME NEW d \in Conns, CheckDuplicate(d), reply'[c] # reply[c]
      PROVE  status'[reply'[c].ev] # "absent"
  <2>1. ev[d] \in Events
    BY <1>6 DEF CheckDuplicate, Custody, HandlerHasEvent
  <2>2. status[ev[d]] # "absent" /\ Answer(d, ev[d], TRUE)
    BY <1>6, Zenon DEF CheckDuplicate
  <2> QED
    BY <1>1, <1>3, <2>1, <2>2
<1>7. ASSUME NEW d \in Conns, InsertEvent(d)
      PROVE  status'[reply'[c].ev] # "absent"
  <2>1. ev[d] \in Events
    BY <1>7 DEF InsertEvent, Custody, HandlerHasEvent
  <2>2. CASE Answer(d, ev[d], FALSE)
    BY <1>3, <2>1, <2>2
  <2>3. CASE /\ Answer(d, ev[d], TRUE)
             /\ status' = [status EXCEPT ![ev[d]] = IF @ = "absent" THEN "pending" ELSE @]
    <3>1. status'[ev[d]] # "absent"
      BY <1>0, <2>1, <2>3
    <3> QED
      BY <1>3, <2>1, <2>3, <3>1
  <2> QED
    BY <1>7, <2>2, <2>3, Zenon DEF InsertEvent
<1>8. \/ UNCHANGED reply
      \/ \E d \in Conns : reply' = [reply EXCEPT ![d] = None]
      \/ \E d \in Conns : \/ \E e \in Events : SubmitEvent(d, e)
                         \/ CountPending(d) \/ CheckDuplicate(d) \/ InsertEvent(d)
    BY Zenon DEF Next, vars, Handle, Publish, Tick, Authenticate, HandleDeletion, Disconnect,
                 LoseHandler, RefreshTopRelays, ClaimDue, ReadRelayLists, BeginEvent, SendToRelay,
                 SettleEvent, CrashPublisher, connVars
<1>9. ASSUME NEW d \in Conns, reply' = [reply EXCEPT ![d] = None]
      PROVE  status'[reply'[c].ev] # "absent"
    BY <1>0, <1>2, <1>9
<1> QED
    BY <1>2, <1>4, <1>5, <1>6, <1>7, <1>8, <1>9
-----------------------------------------------------------------------------
\* No step of any connection, publisher or crash leaves the types of the state.
THEOREM TypeCorrect == Spec => []TypeOK
<1>1. Init => TypeOK /\ Custody
  BY TypeInit, CustodyInit
<1>2. TypeOK /\ Custody /\ [Next]_vars => (TypeOK /\ Custody)'
  BY TypeNext, HandlerNext, HeldNext DEF Custody, Held
<1> QED
  BY <1>1, <1>2, PTL DEF Spec

\* Who holds an event, and what relays got of it, is as Custody says in every
\* reachable state: publish_due_events' claim is the only hand-over.
THEOREM CustodyHolds == Spec => []Custody
<1>1. Init => TypeOK /\ Custody
  BY TypeInit, CustodyInit
<1>2. TypeOK /\ Custody /\ [Next]_vars => (TypeOK /\ Custody)'
  BY TypeNext, HandlerNext, HeldNext DEF Custody, Held
<1> QED
  BY <1>1, <1>2, PTL DEF Spec

\* publish_due_events never gives an entry of a relay list the same event twice.
THEOREM AtMostOnce == Spec => []HandedAtMostOnce
<1>1. Custody => HandedAtMostOnce
  BY DEF Custody
<1> QED
  BY <1>1, CustodyHolds, PTL

\* handle_deletion answers for rows that no relay got and no relay will get.
THEOREM CancelledStaysHome == Spec => []CancelledNeverHanded
<1>1. TypeOK /\ Custody => CancelledNeverHanded
  BY DEF TypeOK, Custody, UntouchedUntilClaimed, Untouched, CancelledNeverHanded, Touched
<1> QED
  BY <1>1, TypeCorrect, CustodyHolds, PTL

\* An event answered OK true has a row, whatever statements failed before it.
THEOREM AcceptedStored == Spec => []AcceptedIsStored
<1>1. Init => AcceptedIsStored
  BY DEF Init, AcceptedIsStored
<1>2. TypeOK /\ Custody /\ AcceptedIsStored /\ [Next]_vars => AcceptedIsStored'
  BY StoredNext
<1> QED
  BY <1>1, <1>2, TypeCorrect, CustodyHolds, PTL DEF Spec

\* A row that was published, failed or cancelled is never changed again.
THEOREM SettledForGood == Spec => SettledIsFinal
<1>1. TypeOK /\ Custody /\ [Next]_vars
        => [\A e \in Events : status[e] \in Settled => status'[e] = status[e]]_vars
  BY RowMoves DEF Moved, Settled
<1> QED
  BY <1>1, TypeCorrect, CustodyHolds, PTL DEF Spec, SettledIsFinal

-----------------------------------------------------------------------------
(* Every step is a step of ScheduledPost, or none *)

LEMMA SamePhase == UNCHANGED status => UNCHANGED Phase
  BY DEF Phase

LEMMA SameGiven == UNCHANGED handed => UNCHANGED Given
  BY DEF Given

LEMMA Inserts ==
    ASSUME TypeOK, Custody, NEW c \in Conns, InsertEvent(c)
    PROVE  [Promise!Next]_(Promise!vars)
<1>1. ev[c] \in Events
    BY DEF InsertEvent, Custody, HandlerHasEvent
<1>2. UNCHANGED <<now, Given>>
    BY SameGiven, Zenon DEF InsertEvent
<1>3. CASE UNCHANGED status
    BY <1>2, <1>3, SamePhase DEF Promise!vars
<1>4. CASE ~UNCHANGED status
  <2>1. status' = [status EXCEPT ![ev[c]] = IF @ = "absent" THEN "pending" ELSE @]
    BY <1>4, Zenon DEF InsertEvent
  <2>2. status[ev[c]] = "absent" /\ status' = [status EXCEPT ![ev[c]] = "pending"]
    BY <1>1, <1>4, <2>1 DEF TypeOK
  <2>3. Phase[ev[c]] = "draft" /\ Phase' = [Phase EXCEPT ![ev[c]] = "scheduled"]
    BY <1>1, <2>2 DEF Phase, TypeOK
  <2>4. Promise!Schedule(ev[c])
    BY <1>2, <2>3 DEF Promise!Schedule
  <2> QED
    BY <1>1, <2>4 DEF Promise!Next
<1> QED
    BY <1>3, <1>4

LEMMA Deletes ==
    ASSUME TypeOK, NEW c \in Conns, NEW S \in SUBSET Events, HandleDeletion(c, S)
    PROVE  [Promise!Next]_(Promise!vars)
<1> DEFINE T == S \cap PendingOf(auth[c])
<1>1. UNCHANGED <<now, Given>>
    BY SameGiven, Zenon DEF HandleDeletion
<1>2. \A e \in T : status[e] = "pending"
    BY DEF PendingOf
<1>3. status' = [e \in Events |-> IF e \in T THEN "cancelled" ELSE status[e]]
    BY Zenon DEF HandleDeletion
<1>4. /\ \A e \in T : Phase[e] = "scheduled"
      /\ Phase' = [e \in Events |-> IF e \in T THEN "withdrawn" ELSE Phase[e]]
    BY <1>2, <1>3 DEF Phase, TypeOK
<1>5. Promise!Withdraw(T)
    BY <1>1, <1>4 DEF Promise!Withdraw
<1> QED
    BY <1>5 DEF Promise!Next

LEMMA Claims ==
    ASSUME TypeOK, NEW p \in Publishers, NEW S \in SUBSET Events, ClaimDue(p, S)
    PROVE  [Promise!Next]_(Promise!vars)
<1>1. UNCHANGED <<now, Given>>
    BY SameGiven, Zenon DEF ClaimDue
<1>2. \A e \in S : status[e] = "pending" /\ DueAt[e] <= now
    BY DEF ClaimDue, IsBatch, Due
<1>3. status' = [e \in Events |-> IF e \in S THEN "publishing" ELSE status[e]]
    BY Zenon DEF ClaimDue
<1>4. /\ \A e \in S : Phase[e] = "scheduled"
      /\ Phase' = [e \in Events |-> IF e \in S THEN "started" ELSE Phase[e]]
    BY <1>2, <1>3 DEF Phase, TypeOK
<1>5. Promise!Start(S)
    BY <1>1, <1>2, <1>4 DEF Promise!Start
<1> QED
    BY <1>5 DEF Promise!Next

LEMMA Sends ==
    ASSUME TypeOK, Custody, NEW p \in Publishers, NEW r \in Relays, SendToRelay(p, r)
    PROVE  [Promise!Next]_(Promise!vars)
<1>1. /\ cur[p] \in Events /\ status[cur[p]] = "publishing"
      /\ handed[cur[p]][r] = 0
    BY DEF SendToRelay, Custody, SendingIsHeld
<1>2. UNCHANGED <<now, Phase>>
    BY SamePhase, Zenon DEF SendToRelay
<1>3. CASE UNCHANGED handed
    BY <1>2, <1>3, SameGiven DEF Promise!vars
<1>4. CASE handed' = [handed EXCEPT ![cur[p]][r] = @ + 1]
  <2>1. Phase[cur[p]] = "started" /\ r \notin Given[cur[p]]
    BY <1>1 DEF Phase, Given
  <2>2. Given' = [Given EXCEPT ![cur[p]] = @ \cup {r}]
    <3>1. \A e \in Events : e # cur[p] => handed'[e] = handed[e]
      BY <1>1, <1>4 DEF TypeOK
    <3>2. \A s \in Relays : handed'[cur[p]][s] > 0 <=> handed[cur[p]][s] > 0 \/ s = r
      BY <1>1, <1>4 DEF TypeOK
    <3> QED
      BY <1>1, <3>1, <3>2 DEF Given
  <2>3. Promise!Hand(cur[p], r)
    BY <1>2, <2>1, <2>2 DEF Promise!Hand
  <2> QED
    BY <1>1, <2>3 DEF Promise!Next
<1> QED
    BY <1>3, <1>4, Zenon DEF SendToRelay

LEMMA Settles ==
    ASSUME TypeOK, Custody, NEW p \in Publishers, SettleEvent(p)
    PROVE  [Promise!Next]_(Promise!vars)
<1>1. cur[p] \in Events /\ status[cur[p]] = "publishing"
    BY DEF SettleEvent, Custody, SendingIsHeld
<1>2. UNCHANGED <<now, Given>>
    BY SameGiven, Zenon DEF SettleEvent
<1>3. CASE UNCHANGED status
    BY <1>2, <1>3, SamePhase DEF Promise!vars
<1>4. CASE status' = [status EXCEPT ![cur[p]] = IF @ = "absent" THEN @ ELSE Outcome(p)]
  <2>1. Phase[cur[p]] = "started" /\ Phase' = [Phase EXCEPT ![cur[p]] = "finished"]
    BY <1>1, <1>4 DEF Phase, Outcome, TypeOK
  <2>2. Promise!Finish(cur[p])
    BY <1>2, <2>1 DEF Promise!Finish
  <2> QED
    BY <1>1, <2>2 DEF Promise!Next
<1> QED
    BY <1>3, <1>4, Zenon DEF SettleEvent

LEMMA StepRefines ==
    TypeOK /\ Custody /\ [Next]_vars => [Promise!Next]_(Promise!vars)
<1> SUFFICES ASSUME TypeOK, Custody, [Next]_vars
             PROVE  [Promise!Next]_(Promise!vars)
    OBVIOUS
<1>1. CASE Tick
  <2>1. UNCHANGED <<Phase, Given>> /\ now' = now + 1
    BY <1>1, SamePhase, SameGiven, Zenon DEF Tick
  <2> QED
    BY <2>1 DEF Promise!Next, Promise!Pass
<1>2. CASE UNCHANGED <<now, status, handed>>
    BY <1>2, SamePhase, SameGiven DEF Promise!vars
<1>3. ASSUME NEW c \in Conns,
             \/ \E pk \in Pubkeys : Authenticate(c, pk)
             \/ \E e \in Events : SubmitEvent(c, e)
             \/ CountPending(c) \/ CheckDuplicate(c) \/ Disconnect(c) \/ LoseHandler(c)
      PROVE  UNCHANGED <<now, status, handed>>
    BY <1>3 DEF Authenticate, SubmitEvent, CountPending, CheckDuplicate, Disconnect, LoseHandler
<1>4. ASSUME NEW p \in Publishers,
             \/ RefreshTopRelays(p) \/ ReadRelayLists(p) \/ CrashPublisher(p)
             \/ \E e \in Events : BeginEvent(p, e)
      PROVE  UNCHANGED <<now, status, handed>>
    BY <1>4 DEF RefreshTopRelays, ReadRelayLists, CrashPublisher, BeginEvent
<1>5. CASE UNCHANGED vars
    BY <1>2, <1>5 DEF vars
<1> QED
    BY <1>1, <1>2, <1>3, <1>4, <1>5, Inserts, Deletes, Claims, Sends, Settles
       DEF Next, Handle, Publish

\* The scheduler relay implements ScheduledPost, for all users, events, relays
\* and publishers.
THEOREM Implements == Spec => ImplementsScheduledPost
<1>1. Init => Promise!Init
  BY DEF Init, Phase, Given, Promise!Init
<1>2. TypeOK /\ Custody /\ [Next]_vars => [Promise!Next]_(Promise!vars)
  BY StepRefines
<1> QED
  BY <1>1, <1>2, TypeCorrect, CustodyHolds, PTL DEF Spec, ImplementsScheduledPost, Promise!Spec
-----------------------------------------------------------------------------
\* publish_due_events gives nothing away before its created_at.
THEOREM NeverEarly == Spec => []NoEarlyHanding
<1>1. TypeOK /\ Custody => NoEarlyHanding
  <2> SUFFICES ASSUME TypeOK, Custody, NEW e \in Events, Touched(e)
               PROVE  DueAt[e] <= now
    BY DEF NoEarlyHanding
  <2>1. ~Untouched(e)
    BY DEF TypeOK, Touched, Untouched
  <2>2. status[e] \in {"publishing", "published", "failed"}
    BY <2>1 DEF TypeOK, Statuses, Custody, UntouchedUntilClaimed
  <2> QED
    BY <2>2 DEF Custody, ClaimedIsDue
<1> QED
  BY <1>1, TypeCorrect, CustodyHolds, PTL
-----------------------------------------------------------------------------
(* The limit per user *)

\* The connections of pk that are past the count and have not inserted yet.
Passed(pk) == {c \in Conns : pc[c] \in {"exists", "insert"} /\ auth[c] = pk}

\* Each of them may add one pending event more.
RoomFor(pk) ==
    Cardinality(PendingOf(pk)) + Cardinality(Passed(pk))
        <= MaxPending + Cardinality(Conns) - 1 + dbErrors

\* A handler works on an event of its connection's user.
OwnEvent == \A c \in Conns : pc[c] # "idle" => ev[c] \in Events /\ Owner[ev[c]] = auth[c]

Room == OwnEvent /\ \A pk \in Pubkeys : RoomFor(pk)

LEMMA Finite ==
  ASSUME NEW pk
  PROVE  /\ IsFiniteSet(PendingOf(pk)) /\ Cardinality(PendingOf(pk)) \in Nat
         /\ IsFiniteSet(Passed(pk)) /\ Cardinality(Passed(pk)) \in Nat
         /\ Cardinality(Conns) \in Nat /\ Cardinality(Passed(pk)) <= Cardinality(Conns)
<1>1. PendingOf(pk) \subseteq Events /\ Passed(pk) \subseteq Conns
  BY DEF PendingOf, Passed
<1> QED
  BY <1>1, ConstantsAssumption, FS_Subset, FS_CardinalityType

\* Fewer pending events and fewer such connections keep the room.
LEMMA RoomKept ==
  ASSUME TypeOK, NEW pk \in Pubkeys, RoomFor(pk),
         PendingOf(pk)' \subseteq PendingOf(pk), Passed(pk)' \subseteq Passed(pk),
         dbErrors' = dbErrors \/ dbErrors' = dbErrors + 1
  PROVE  RoomFor(pk)'
<1>1. /\ Cardinality(PendingOf(pk)') <= Cardinality(PendingOf(pk))
      /\ Cardinality(Passed(pk)') <= Cardinality(Passed(pk))
  BY Finite, FS_Subset
<1>2. /\ Cardinality(PendingOf(pk)') \in Nat /\ Cardinality(Passed(pk)') \in Nat
  BY <1>1, Finite, FS_Subset, FS_CardinalityType
<1> QED
  BY <1>1, <1>2, Finite, ConstantsAssumption DEF RoomFor, TypeOK

\* Steps of connections that pass no count and insert nothing.
LEMMA QuietRoom ==
  ASSUME TypeOK, Room, OwnEvent',
         \A e \in Events : status'[e] = "pending" => status[e] = "pending",
         \A c \in Conns : pc'[c] \in {"exists", "insert"} =>
                             pc[c] \in {"exists", "insert"} /\ auth'[c] = auth[c],
         dbErrors' = dbErrors \/ dbErrors' = dbErrors + 1
  PROVE  Room'
<1>1. ASSUME NEW pk \in Pubkeys PROVE RoomFor(pk)'
  <2>1. PendingOf(pk)' \subseteq PendingOf(pk) /\ Passed(pk)' \subseteq Passed(pk)
    BY DEF PendingOf, Passed
  <2> QED
    BY <2>1, RoomKept DEF Room
<1> QED
  BY <1>1 DEF Room

\* The count lets c pass: the limit is not reached, or the statement failed.
LEMMA CountRoom ==
  ASSUME TypeOK, Room, NEW c \in Conns, CountPending(c)
  PROVE  Room'
<1>1. pc[c] = "count" /\ UNCHANGED <<status, auth>> /\ auth[c] \in Pubkeys
  BY ConstantsAssumption DEF CountPending, Room, OwnEvent
<1>2. CASE Answer(c, ev[c], FALSE) /\ DbOk
  <2>1. OwnEvent'
    BY <1>1, <1>2 DEF Answer, Room, OwnEvent, TypeOK
  <2> QED
    BY <1>1, <1>2, <2>1, QuietRoom DEF Answer, DbOk, TypeOK
<1>3. CASE /\ \/ Cardinality(PendingOf(auth[c])) < MaxPending /\ DbOk
              \/ DbError
           /\ pc' = [pc EXCEPT ![c] = "exists"] /\ UNCHANGED ev
  <2>1. OwnEvent'
    BY <1>1, <1>3 DEF Room, OwnEvent, TypeOK
  <2>2. ASSUME NEW pk \in Pubkeys PROVE RoomFor(pk)'
    <3>1. PendingOf(pk)' = PendingOf(pk)
      BY <1>1 DEF PendingOf
    <3>2. dbErrors' = dbErrors \/ dbErrors' = dbErrors + 1
      BY <1>3 DEF DbOk, DbError
    <3>3. CASE pk # auth[c]
      <4>1. Passed(pk)' = Passed(pk)
        BY <1>1, <1>3, <3>3 DEF Passed, TypeOK
      <4> QED
        BY <3>1, <3>2, <4>1, RoomKept DEF Room
    <3>4. CASE pk = auth[c]
      <4>1. Passed(pk)' = Passed(pk) \cup {c} /\ c \notin Passed(pk)
        BY <1>1, <1>3, <3>4 DEF Passed, TypeOK
      <4>2. Cardinality(Passed(pk)') = Cardinality(Passed(pk)) + 1
        BY <4>1, Finite, FS_AddElement
      <4>3. Cardinality(Passed(pk)') <= Cardinality(Conns)
        <5>1. Passed(pk)' \subseteq Conns
          BY DEF Passed
        <5> QED
          BY <5>1, ConstantsAssumption, FS_Subset
      <4>4. CASE Cardinality(PendingOf(pk)) < MaxPending /\ DbOk
        BY <3>1, <4>2, <4>3, <4>4, Finite, ConstantsAssumption DEF RoomFor, DbOk, TypeOK
      <4>5. CASE DbError
        BY <3>1, <4>2, <4>5, Finite, ConstantsAssumption DEF Room, RoomFor, DbError, TypeOK
      <4> QED
        BY <1>3, <3>4, <4>4, <4>5
    <3> QED
      BY <3>3, <3>4
  <2> QED
    BY <2>1, <2>2 DEF Room
<1> QED
  BY <1>2, <1>3, Zenon DEF CountPending

\* The INSERT uses the room that its connection had.
LEMMA InsertRoom ==
  ASSUME TypeOK, Room, NEW c \in Conns, InsertEvent(c)
  PROVE  Room'
<1>1. /\ pc[c] = "insert" /\ auth[c] \in Pubkeys /\ ev[c] \in Events /\ Owner[ev[c]] = auth[c]
      /\ UNCHANGED auth
  BY ConstantsAssumption DEF InsertEvent, Room, OwnEvent
<1>2. pc' = [pc EXCEPT ![c] = "idle"] /\ ev' = [ev EXCEPT ![c] = None]
  BY Zenon DEF InsertEvent, Answer
<1>3. OwnEvent'
  BY <1>1, <1>2 DEF Room, OwnEvent, TypeOK
<1>4. CASE UNCHANGED status /\ DbError
  BY <1>1, <1>2, <1>3, <1>4, QuietRoom DEF DbError, TypeOK
<1>5. CASE DbOk /\ status' = [status EXCEPT ![ev[c]] = IF @ = "absent" THEN "pending" ELSE @]
  <2>1. ASSUME NEW pk \in Pubkeys PROVE RoomFor(pk)'
    <3>1. CASE pk # auth[c]
      <4>1. PendingOf(pk)' = PendingOf(pk) /\ Passed(pk)' = Passed(pk)
        BY <1>1, <1>2, <1>5, <3>1 DEF PendingOf, Passed, TypeOK
      <4> QED
        BY <1>5, <4>1, RoomKept DEF Room, DbOk
    <3>2. CASE pk = auth[c]
      <4>1. Passed(pk)' = Passed(pk) \ {c} /\ c \in Passed(pk)
        BY <1>1, <1>2, <3>2 DEF Passed, TypeOK
      <4>2. Cardinality(Passed(pk)') = Cardinality(Passed(pk)) - 1
        BY <4>1, Finite, FS_RemoveElement
      <4>3. PendingOf(pk)' \subseteq PendingOf(pk) \cup {ev[c]}
        BY <1>1, <1>5, <3>2 DEF PendingOf, TypeOK
      <4>4. /\ IsFiniteSet(PendingOf(pk) \cup {ev[c]})
            /\ Cardinality(PendingOf(pk) \cup {ev[c]}) <= Cardinality(PendingOf(pk)) + 1
        BY Finite, FS_AddElement
      <4>5. /\ Cardinality(PendingOf(pk)') <= Cardinality(PendingOf(pk) \cup {ev[c]})
            /\ Cardinality(PendingOf(pk)') \in Nat
            /\ Cardinality(PendingOf(pk) \cup {ev[c]}) \in Nat
        BY <4>3, <4>4, FS_Subset, FS_CardinalityType
      <4> QED
        BY <1>5, <4>2, <4>4, <4>5, Finite, ConstantsAssumption DEF Room, RoomFor, DbOk, TypeOK
    <3> QED
      BY <3>1, <3>2
  <2> QED
    BY <1>3, <2>1 DEF Room
<1> QED
  BY <1>4, <1>5, Zenon DEF InsertEvent

LEMMA HandlerRoom ==
  ASSUME TypeOK, Room, NEW c \in Conns,
         \/ \E pk \in Pubkeys : Authenticate(c, pk)
         \/ \E e \in Events : SubmitEvent(c, e)
         \/ CheckDuplicate(c)
         \/ \E S \in SUBSET Events : HandleDeletion(c, S)
         \/ Disconnect(c) \/ LoseHandler(c)
  PROVE  Room'
<1>1. ASSUME NEW e \in Events, SubmitEvent(c, e) PROVE Room'
  <2>1. pc[c] = "idle" /\ UNCHANGED <<status, auth, dbErrors>>
    BY <1>1, Zenon DEF SubmitEvent
  <2>2. \/ /\ auth[c] = Owner[e]
           /\ pc' = [pc EXCEPT ![c] = "count"] /\ ev' = [ev EXCEPT ![c] = e]
        \/ pc' = [pc EXCEPT ![c] = "idle"] /\ ev' = [ev EXCEPT ![c] = None]
    BY <1>1, Zenon DEF SubmitEvent, Acceptable, Answer
  <2>3. OwnEvent'
    BY <2>1, <2>2 DEF Room, OwnEvent, TypeOK
  <2> QED
    BY <2>1, <2>2, <2>3, QuietRoom DEF TypeOK
<1>2. CASE CheckDuplicate(c)
  <2>1. /\ pc[c] = "exists" /\ UNCHANGED <<status, auth>>
        /\ dbErrors' = dbErrors \/ dbErrors' = dbErrors + 1
    BY <1>2 DEF CheckDuplicate, DbOk, DbError
  <2>2. \/ pc' = [pc EXCEPT ![c] = "insert"] /\ UNCHANGED ev
        \/ pc' = [pc EXCEPT ![c] = "idle"] /\ ev' = [ev EXCEPT ![c] = None]
    BY <1>2, Zenon DEF CheckDuplicate, Answer
  <2>3. OwnEvent'
    BY <2>1, <2>2 DEF Room, OwnEvent, TypeOK
  <2> QED
    BY <2>1, <2>2, <2>3, QuietRoom DEF TypeOK
<1>3. CASE (\E pk \in Pubkeys : Authenticate(c, pk)) \/ Disconnect(c)
  <2>1. pc[c] = "idle" /\ UNCHANGED <<status, pc, ev, dbErrors>>
        /\ \A d \in Conns \ {c} : auth'[d] = auth[d]
    BY <1>3 DEF Authenticate, Disconnect, TypeOK
  <2>2. OwnEvent'
    BY <2>1 DEF Room, OwnEvent
  <2> QED
    BY <2>1, <2>2, QuietRoom
<1>4. ASSUME NEW S \in SUBSET Events, HandleDeletion(c, S) PROVE Room'
  <2>1. OwnEvent'
    BY <1>4 DEF HandleDeletion, Room, OwnEvent
  <2> QED
    BY <1>4, <2>1, QuietRoom DEF HandleDeletion
<1>5. CASE LoseHandler(c)
  <2>1. OwnEvent'
    BY <1>5 DEF LoseHandler, Room, OwnEvent, TypeOK
  <2> QED
    BY <1>5, <2>1, QuietRoom DEF LoseHandler, TypeOK
<1> QED
  BY <1>1, <1>2, <1>3, <1>4, <1>5

LEMMA PublisherRoom ==
  ASSUME TypeOK, Custody, Room, NEW p \in Publishers,
         RefreshTopRelays(p) \/ Publish(p) \/ CrashPublisher(p)
  PROVE  Room'
<1>1. UNCHANGED <<auth, pc, ev>>
  BY DEF RefreshTopRelays, Publish, CrashPublisher, ClaimDue, ReadRelayLists, BeginEvent,
         SendToRelay, SettleEvent, connVars
<1>2. dbErrors' = dbErrors \/ dbErrors' = dbErrors + 1
  BY DEF RefreshTopRelays, Publish, CrashPublisher, ClaimDue, ReadRelayLists, BeginEvent,
         SendToRelay, SettleEvent, DbOk, DbError
<1>3. \A e \in Events : status'[e] = "pending" => status[e] = "pending"
  <2>1. ASSUME NEW S \in SUBSET Events, ClaimDue(p, S)
        PROVE  \A e \in Events : status'[e] = "pending" => status[e] = "pending"
    BY <2>1 DEF ClaimDue
  <2>2. CASE SettleEvent(p)
    <3>1. cur[p] \in Events
      BY <2>2 DEF SettleEvent, Custody, SendingIsHeld
    <3>2. Outcome(p) # "pending"
      BY DEF Outcome
    <3> QED
      BY <2>2, <3>1, <3>2 DEF SettleEvent, TypeOK
  <2>3. CASE ~SettleEvent(p) /\ ~\E S \in SUBSET Events : ClaimDue(p, S)
    BY <2>3 DEF RefreshTopRelays, Publish, CrashPublisher, ReadRelayLists, BeginEvent, SendToRelay
  <2> QED
    BY <2>1, <2>2, <2>3
<1>4. OwnEvent'
  BY <1>1 DEF Room, OwnEvent
<1> QED
  BY <1>1, <1>2, <1>3, <1>4, QuietRoom

LEMMA RoomInit == Init => Room
<1> SUFFICES ASSUME Init PROVE Room
  OBVIOUS
<1>1. ASSUME NEW pk \in Pubkeys PROVE RoomFor(pk)
  <2>1. PendingOf(pk) = {} /\ Passed(pk) = {}
    BY DEF Init, PendingOf, Passed
  <2>2. Cardinality(Conns) # 0
    BY ConstantsAssumption, FS_EmptySet
  <2>3. Cardinality(PendingOf(pk)) = 0 /\ Cardinality(Passed(pk)) = 0
    BY <2>1, FS_EmptySet
  <2>4. Cardinality(Conns) \in Nat /\ MaxPending \in Nat /\ dbErrors = 0
    BY Finite, ConstantsAssumption DEF Init
  <2> QED
    BY <2>2, <2>3, <2>4 DEF RoomFor
<1> QED
  BY <1>1 DEF Init, Room, OwnEvent

LEMMA RoomNext == TypeOK /\ Custody /\ Room /\ [Next]_vars => Room'
<1> SUFFICES ASSUME TypeOK, Custody, Room, [Next]_vars PROVE Room'
  OBVIOUS
<1>1. CASE Tick \/ UNCHANGED vars
  <2>1. UNCHANGED <<status, auth, pc, ev, dbErrors>>
    BY <1>1 DEF Tick, connVars, vars
  <2>2. OwnEvent'
    BY <2>1 DEF Room, OwnEvent
  <2> QED
    BY <2>1, <2>2, QuietRoom
<1> QED
  BY <1>1, HandlerRoom, CountRoom, InsertRoom, PublisherRoom DEF Next, Handle

\* However the messages of a user's connections interleave, the limit on pending
\* events is exceeded by at most one per other connection and failed statement.
THEOREM OvershootBounded == Spec => []PendingOvershoot
<1>1. TypeOK /\ Room => PendingOvershoot
  <2> SUFFICES ASSUME TypeOK, Room, NEW pk \in Pubkeys
               PROVE  Cardinality(PendingOf(pk)) <= MaxPending + Cardinality(Conns) - 1 + dbErrors
    BY DEF PendingOvershoot
  <2>1. /\ Cardinality(PendingOf(pk)) + Cardinality(Passed(pk))
              <= MaxPending + Cardinality(Conns) - 1 + dbErrors
    BY DEF Room, RoomFor
  <2> QED
    BY <2>1, Finite, ConstantsAssumption DEF TypeOK
<1> QED
  BY <1>1, RoomInit, RoomNext, TypeCorrect, CustodyHolds, PTL DEF Spec

=============================================================================
