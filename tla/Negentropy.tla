------------------------------ MODULE Negentropy ------------------------------
(***************************************************************************)
(* The bulk synchronisation of the hybrid crawler: a cycle of              *)
(* src/crawler/orchestrator.rs takes the popular relays one by one, looks  *)
(* up whether they speak NIP-77 (relay_caps.rs), and lets negentropy.rs    *)
(* reconcile each kind of event: first the last day, then a few windows    *)
(* further back from a cursor that is kept in negentropy_sync_state.       *)
(*                                                                         *)
(* A conversation with a relay about one window is a step: what it stores, *)
(* others may store too.  Time is counted in parts of a day, Base of them. *)
(* Nothing here ever hears that a window failed but the log: `lost` is a   *)
(* history of what the walk went past, and why.                            *)
(***************************************************************************)
EXTENDS Integers, FiniteSets

CONSTANTS
    Relays,     \* numbers, in the order of get_top_relays
    Claims,     \* relays whose NIP-11 document lists NIP-77
    Speaks,     \* relays that do reconcile
    Cap,        \* Cap[r]: r refuses a window with more events than this
    NumKinds,   \* ALL_CRAWL_KINDS, by their place in the array
    Ids,        \* events
    Kind,       \* Kind[e]
    Time,       \* Time[e]: created_at
    Old,        \* events that are on every relay from the start
    Live,       \* <<r, e>>: e may reach r while the crawler runs
    Refused,    \* events that insert_event turns down
    Epoch,      \* NOSTR_EPOCH
    Base,       \* DEFAULT_WINDOW_SECS
    MinWindow, MaxWindow,
    MaxWindows, \* max_windows_per_kind
    FirstNow,   \* the time when the crawler is first started
    MaxNow,     \* bound: the last time
    None,
    MaxFaults   \* bound: conversations and statements that fail, deaths

Kinds == 1 .. NumKinds
Causes == {"skipped", "unstored", "outage", "late"}

ASSUME NegentropyAssumption ==
    /\ Epoch \in Nat \ {0} /\ MinWindow \in Nat \ {0}
    /\ Base \in Nat /\ MaxWindow \in Nat
    /\ MinWindow <= Base /\ Base <= MaxWindow
    /\ NumKinds \in Nat \ {0} /\ MaxWindows \in Nat \ {0}
    /\ FirstNow \in Nat /\ MaxNow \in Nat /\ Epoch + Base < FirstNow /\ FirstNow <= MaxNow
    /\ Relays \subseteq Nat
    /\ Claims \subseteq Relays /\ Speaks \subseteq Relays /\ None \notin Relays
    /\ Cap \in [Relays -> Nat]
    /\ Kind \in [Ids -> Kinds] /\ Time \in [Ids -> Epoch .. MaxNow]
    /\ Old \subseteq Ids /\ Live \subseteq Relays \X Ids /\ Refused \subseteq Ids
    /\ MaxFaults \in Nat

VARIABLES
    now,
    held,     \* held[r]: the events relay r has
    stored,   \* rows of events
    caps,     \* caps[r]: "yes", "no", or "stale" (no row, or an old one)
    row,      \* row[r][k]: negentropy_sync_state
    pc,
    todo,     \* relays of this cycle
    at,       \* the relay it is at
    kind,     \* the kind it is at
    start,    \* `now` of run_exhaustive_sync
    copy,     \* `state`: the row as it was loaded
    cursor, window, done, \* locals of run_sync_windowed_from
    reach,    \* history: reach[r][k], up to where recent passes have asked
    lost,     \* history: <<r, e, cause>>
    faults

envVars  == <<now, held>>
syncVars == <<todo, at, kind, start, copy, cursor, window, done>>
vars == <<envVars, stored, caps, row, pc, syncVars, reach, lost, faults>>

NoRow == [oldest |-> 0, newest |-> 0, window |-> Base, full |-> FALSE]
Windows == MinWindow .. MaxWindow
Rows == [oldest : 0 .. MaxNow, newest : 0 .. MaxNow, window : Windows, full : BOOLEAN]

TypeOK ==
    /\ now \in FirstNow .. MaxNow
    /\ held \in [Relays -> SUBSET Ids] /\ stored \subseteq Ids \ Refused
    /\ caps \in [Relays -> {"yes", "no", "stale"}]
    /\ row \in [Relays -> [Kinds -> Rows]]
    /\ pc \in {"idle", "caps", "load", "recent", "newest", "walk"}
    /\ todo \subseteq Relays
    /\ at \in Relays \cup {None}
    /\ kind \in Kinds
    /\ start \in 0 .. MaxNow
    /\ copy \in Rows
    /\ cursor \in Epoch - MaxWindow .. MaxNow
    /\ window \in Windows
    /\ done \in 0 .. MaxWindows
    /\ reach \in [Relays -> [Kinds -> 0 .. MaxNow]]
    /\ lost \subseteq Relays \X Ids \X Causes
    /\ faults \in 0 .. MaxFaults

Init ==
    /\ now = FirstNow
    /\ held = [r \in Relays |-> Old]
    /\ stored = {}
    /\ caps = [r \in Relays |-> "stale"]
    /\ row = [r \in Relays |-> [k \in Kinds |-> NoRow]]
    /\ pc = "idle" /\ todo = {} /\ at = None /\ kind = 1
    /\ start = 0 /\ copy = NoRow
    /\ cursor = Epoch /\ window = Base /\ done = 0
    /\ reach = [r \in Relays |-> [k \in Kinds |-> 0]]
    /\ lost = {}
    /\ faults = 0

Costs(n) == faults + n <= MaxFaults /\ faults' = faults + n

Lesser(a, b) == IF a < b THEN a ELSE b
Greater(a, b) == IF a < b THEN b ELSE a

Forget == at' = None /\ kind' = 1 /\ start' = 0 /\ copy' = NoRow
          /\ cursor' = Epoch /\ window' = Base /\ done' = 0

-----------------------------------------------------------------------------
(* A cycle *)

\* get_top_relays: NIP-65 lists name the relays; if the query fails there is no cycle.
BeginCycle ==
    /\ pc = "idle"
    /\ todo' = Relays
    /\ pc' = "caps"
    /\ UNCHANGED <<envVars, stored, caps, row, at, kind, start, copy, cursor, window, done,
                   reach, lost, faults>>

\* What a probe of r finds: the NIP-11 document, then NEG-OPEN; an error is a no.
Probed(r, answer, cost) ==
    \/ answer = (IF r \in Claims \cup Speaks THEN "yes" ELSE "no") /\ cost = 0
    \/ answer = "no" /\ r \in Claims \cup Speaks /\ cost = 1

\* check_and_update_caps: the row unless it is stale, or a probe; a failing
\* statement passes the relay over.
CheckCaps(r) ==
    /\ pc = "caps" /\ r \in todo /\ \A s \in todo : r <= s
    /\ \E answer \in {"yes", "no", "error"}, cost \in 0 .. 1 :
        /\ \/ caps[r] = answer /\ cost = 0
           \/ caps[r] = "stale" /\ Probed(r, answer, cost)
           \/ answer = "error" /\ cost = 1
        /\ Costs(cost)
        /\ caps' = IF answer = "error" THEN caps ELSE [caps EXCEPT ![r] = answer]
        /\ IF answer = "yes"
           THEN pc' = "load" /\ at' = r /\ start' = now /\ UNCHANGED todo
           ELSE todo' = todo \ {r} /\ UNCHANGED <<pc, at, start>>
    /\ UNCHANGED <<envVars, stored, row, kind, copy, cursor, window, done, reach, lost>>

EndCycle ==
    /\ pc = "caps" /\ todo = {}
    /\ pc' = "idle"
    /\ UNCHANGED <<envVars, stored, caps, row, syncVars, reach, lost, faults>>

LeaveRelay ==
    /\ todo' = todo \ {at}
    /\ pc' = "caps"
    /\ Forget

NextKind ==
    IF kind < NumKinds
    THEN /\ kind' = kind + 1 /\ pc' = "load"
         /\ copy' = NoRow /\ cursor' = Epoch /\ window' = Base /\ done' = 0
         /\ UNCHANGED <<todo, at, start>>
    ELSE LeaveRelay

\* A statement on negentropy_sync_state fails: `?` ends the visit to the relay.
StateError == Costs(1) /\ LeaveRelay /\ UNCHANGED <<row, reach, lost>>

LoadState ==
    /\ pc = "load"
    /\ \/ /\ copy' = row[at][kind]
          /\ pc' = "recent"
          /\ UNCHANGED <<row, todo, at, kind, start, cursor, window, done, reach, lost, faults>>
       \/ StateError
    /\ UNCHANGED <<envVars, stored, caps>>

-----------------------------------------------------------------------------
(* One window *)

OfKind(k) == {e \in Ids : Kind[e] = k}
Between(since, until) == {e \in OfKind(kind) : since <= Time[e] /\ Time[e] <= until}

\* The ids that reconciliation finds missing.  The relay takes both ends of the
\* window as inclusive, the local query leaves out the later one.
Need(since, until) ==
    (held[at] \cap Between(since, until))
        \ {e \in stored : Kind[e] = kind /\ since <= Time[e] /\ Time[e] < until}

Crowded(since, until) == Cardinality(held[at] \cap Between(since, until)) > Cap[at]

\* "too many" or "blocked": the relay refuses a set of this size.
Blocked(since, until) == at \in Speaks /\ Crowded(since, until)

\* run_sync_window returns Ok: of what it needs, `got` arrives before the time
\* limits and is inserted; a short answer and a failing INSERT are only logged.
Synced(since, until, got) ==
    /\ at \in Speaks /\ ~Crowded(since, until)
    /\ got \cap Refused = {}
    /\ Costs(IF got = Need(since, until) \ Refused THEN 0 ELSE 1)
    /\ stored' = stored \cup got

Marked(cause, E) == {<<at, e, cause>> : e \in E}

\* Any other error: no answer, a closed socket, a NOTICE that the relay does not
\* speak negentropy.
Failed == Costs(IF at \in Speaks THEN 1 ELSE 0) /\ UNCHANGED stored

-----------------------------------------------------------------------------
(* The recent pass *)

Yesterday == start - Base

\* Bug: the stored cursor is not looked at, every cycle starts a day back.
ResumeAnew(s) == [cursor |-> Yesterday, window |-> Greater(s.window, Base)]

\* Where the walk goes on: at the stored cursor, with the stored window.
Resume(s) == [cursor |-> IF s.oldest > 0 THEN s.oldest ELSE Yesterday,
              window |-> Greater(s.window, Base)]

\* On to the walk, unless the kind was fully backfilled when it was loaded.
AfterRecent ==
    IF copy.full THEN NextKind
    ELSE /\ pc' = "walk"
         /\ cursor' = Resume(copy).cursor /\ window' = Resume(copy).window /\ done' = 0
         /\ UNCHANGED <<todo, at, kind, start, copy>>

Backfilling(s) == s.oldest > 0 \/ s.full

\* Events after the last recent pass and before this one, if the walk is below them.
Gap ==
    IF Backfilling(row[at][kind])
    THEN {e \in OfKind(kind) : reach[at][kind] <= Time[e] /\ Time[e] < Yesterday}
    ELSE {}

RecentPass ==
    /\ pc = "recent"
    /\ \/ \E got \in SUBSET Need(Yesterday, start) :
            /\ Synced(Yesterday, start, got)
            /\ pc' = "newest"
            /\ reach' = [reach EXCEPT ![at][kind] = start]
            /\ lost' = lost \cup Marked("outage", Gap)
                            \cup Marked("unstored", Need(Yesterday, start) \ (stored \cup got))
            /\ UNCHANGED syncVars
       \/ /\ \/ Blocked(Yesterday, start) /\ UNCHANGED <<stored, faults>>
             \/ Failed
          /\ AfterRecent
          /\ UNCHANGED <<reach, lost>>
    /\ UNCHANGED <<envVars, caps, row>>

\* newest_synced_at, which nothing reads but this test.
UpdateNewest ==
    /\ pc = "newest"
    /\ \/ /\ row' = IF start > copy.newest THEN [row EXCEPT ![at][kind].newest = start] ELSE row
          /\ AfterRecent
          /\ UNCHANGED <<reach, lost, faults>>
       \/ start > copy.newest /\ StateError
    /\ UNCHANGED <<envVars, stored, caps>>

-----------------------------------------------------------------------------
(* The walk back *)

Walking == pc = "walk" /\ done < MaxWindows /\ cursor > Epoch
Since == Greater(cursor - window, Epoch)

\* Bug: the window grows without its limit.
GrownUnbounded(found) == IF found THEN Base ELSE window * 2

\* The window that follows: the base after a find, twice as long after none.
Grown(found) == IF found THEN Base ELSE Lesser(window * 2, MaxWindow)

WalkWindow ==
    /\ Walking
    /\ \E got \in SUBSET Need(Since, cursor) :
        /\ Synced(Since, cursor, got)
        /\ lost' = lost \cup Marked("unstored", Need(Since, cursor) \ (stored \cup got))
    /\ window' = Grown(Need(Since, cursor) # {})
    /\ cursor' = Since
    /\ done' = done + 1
    /\ UNCHANGED <<envVars, caps, row, pc, todo, at, kind, start, copy, reach>>

HalveWindow ==
    /\ Walking /\ Blocked(Since, cursor)
    /\ window \div 2 >= MinWindow
    /\ window' = window \div 2
    /\ UNCHANGED <<envVars, stored, caps, row, pc, todo, at, kind, start, copy, cursor, done,
                   reach, lost, faults>>

\* The range is given up: it cannot be halved further, or the error was another.
\* This cursor may go below Epoch.
SkipWindow ==
    /\ Walking
    /\ \/ Blocked(Since, cursor) /\ window \div 2 < MinWindow /\ UNCHANGED <<stored, faults>>
       \/ Failed
    /\ lost' = lost \cup Marked("skipped", Between(Since, cursor))
    /\ cursor' = cursor - window
    /\ done' = done + 1
    /\ UNCHANGED <<envVars, caps, row, pc, todo, at, kind, start, copy, window, reach>>

\* Bug: the walk must pass Epoch, where it stops.
PastEpoch(c) == c < Epoch

\* fully_done
AtEpoch(c) == c <= Epoch

\* update_sync_state after the walk, in one cycle of which nobody else writes the row.
SaveWalk ==
    /\ pc = "walk" /\ ~Walking
    /\ \/ /\ row' = [row EXCEPT ![at][kind] =
                        [@ EXCEPT !.oldest = Greater(cursor, 0), !.window = window,
                                  !.full = AtEpoch(Greater(cursor, 0))]]
          /\ reach' = [reach EXCEPT ![at][kind] =
                        IF Backfilling(copy) THEN @ ELSE Greater(@, Yesterday)]
          /\ NextKind
          /\ UNCHANGED <<lost, faults>>
       \/ StateError
    /\ UNCHANGED <<envVars, stored, caps>>

-----------------------------------------------------------------------------
(* The environment *)

Tick == now < MaxNow /\ now' = now + 1
        /\ UNCHANGED <<held, stored, caps, row, pc, syncVars, reach, lost, faults>>

\* An event reaches a relay, when it is made or late.
Publish(r, e) ==
    /\ <<r, e>> \in Live /\ e \notin held[r] /\ Time[e] <= now
    /\ held' = [held EXCEPT ![r] = @ \cup {e}]
    /\ lost' = IF Time[e] < now THEN lost \cup {<<r, e, "late">>} ELSE lost
    /\ UNCHANGED <<now, stored, caps, row, pc, syncVars, reach, faults>>

\* check_interval_hours have passed.  A cycle looks at a row once, so the rows may
\* as well grow old between cycles.
ExpireCaps(r) ==
    /\ pc = "idle" /\ caps[r] # "stale"
    /\ caps' = [caps EXCEPT ![r] = "stale"]
    /\ UNCHANGED <<envVars, stored, row, pc, syncVars, reach, lost, faults>>

Restart ==
    /\ pc # "idle" /\ Costs(1)
    /\ pc' = "idle" /\ todo' = {}
    /\ Forget
    /\ UNCHANGED <<envVars, stored, caps, row, reach, lost>>

Work == \/ BeginCycle \/ EndCycle \/ LoadState \/ RecentPass \/ UpdateNewest
        \/ WalkWindow \/ HalveWindow \/ SkipWindow \/ SaveWalk
        \/ \E r \in Relays : CheckCaps(r)

Next == \/ Work \/ Tick \/ Restart
        \/ \E r \in Relays : ExpireCaps(r) \/ \E e \in Ids : Publish(r, e)

Spec == Init /\ [][Next]_vars

\* The task's timer ticks, every wait in a cycle has a time limit, a process that
\* died is started again; capabilities grow old.
FairSpec == Spec /\ WF_vars(Work) /\ \A r \in Relays : SF_vars(ExpireCaps(r))
-----------------------------------------------------------------------------
(* Properties *)

\* What the row of a kind counts as fetched: between the cursor and the last recent pass.
ClaimedOf(r, e) == /\ Backfilling(row[r][Kind[e]]) /\ e \in held[r]
                   /\ row[r][Kind[e]].oldest <= Time[e] /\ Time[e] < reach[r][Kind[e]]

\* Between the cursor and the last recent pass an event that the relay has is
\* stored, or the walk went past it for a cause with a name: its window was skipped
\* (negentropy.rs:677), it did not arrive or was not inserted (460), it was made
\* while no recent pass succeeded for a day (newest_synced_at is never read), or it
\* came to the relay late.
WalkIsAccounted ==
    \A r \in Relays, e \in Ids :
        ClaimedOf(r, e) => e \in stored \/ \E cause \in Causes : <<r, e, cause>> \in lost

\* The rows implement Coverage: of what a relay has, they claim what WalkIsAccounted is
\* about.  So a walk never goes back up: not after a cycle that died, nor by a recent
\* pass that lies lower than an earlier one, nor after the kind was fully backfilled.
Claimed == {p \in Relays \X Ids : ClaimedOf(p[1], p[2])}
HadBy   == {p \in Relays \X Ids : p[2] \in stored}
Excused == {p \in Relays \X Ids : \E cause \in Causes : <<p[1], p[2], cause>> \in lost}

Covers == INSTANCE Coverage WITH claimed <- Claimed, stored <- HadBy, excused <- Excused

ImplementsCoverage == Covers!Spec

\* Every kind of every relay that is taken to speak negentropy.
FullyBackfilled == \A r \in Claims \cup Speaks, k \in Kinds : row[r][k].full

\* They are all fully backfilled at last, whatever a bounded number of faults does:
\* neither a quiet nor a crowded period nor a lost cycle makes the walk stop short.
WalkEnds == <>FullyBackfilled
=============================================================================
