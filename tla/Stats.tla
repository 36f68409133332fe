--------------------------------- MODULE Stats ---------------------------------
(***************************************************************************)
(* The counters in Redis (src/cache/mod.rs).  Those who take an event in   *)
(* count it in total_events and in ingestion_window with one MULTI, and    *)
(* then set the time to live of the window; get_stats takes the counters,  *)
(* or counts the rows and puts the number there for a minute.  Nobody else *)
(* counts the rows again.                                                  *)
(***************************************************************************)
EXTENDS Integers, Sequences, FiniteSets

CONSTANTS
    Writers,    \* tasks that store events
    Readers,    \* requests for the statistics
    Minute,     \* STATS_TTL, and the time to live of ingestion_window
    Absent,
    MaxStored,  \* bound: events taken in
    MaxTime     \* bound: seconds

VARIABLES
    stored,    \* rows of events
    rowless,   \* history: events taken in that have no row, as they got none or lost it
    total, totalLife,     \* total_events, and the time it has to live, or Absent
    window, windowLife,   \* ingestion_window
    writer, reader, seen, \* where they are, and what a reader has counted
    now,
    steps      \* history: the times at which an event was fully counted

keys == <<total, totalLife, window, windowLife>>
vars == <<stored, rowless, keys, writer, reader, seen, now, steps>>

Amounts == 0 .. 2 * MaxStored + Cardinality(Writers)

TypeOK ==
    /\ stored \in 0 .. MaxStored /\ rowless \in 0 .. MaxStored
    /\ total \in Amounts \cup {Absent} /\ window \in Amounts \cup {Absent}
    /\ totalLife \in 1 .. Minute \cup {Absent} /\ windowLife \in 1 .. Minute \cup {Absent}
    /\ writer \in [Writers -> {"idle", "stored", "counted", "late"}]
    /\ reader \in [Readers -> {"idle", "counted"}]
    /\ seen \in [Readers -> 0 .. MaxStored]
    /\ now \in 0 .. MaxTime
    /\ steps \in Seq(0 .. MaxTime)

Init ==
    /\ stored = 0 /\ rowless = 0
    /\ total = Absent /\ totalLife = Absent /\ window = Absent /\ windowLife = Absent
    /\ writer = [w \in Writers |-> "idle"]
    /\ reader = [r \in Readers |-> "idle"] /\ seen = [r \in Readers |-> 0]
    /\ now = 0 /\ steps = <<>>

Goto(w, s) == writer' = [writer EXCEPT ![w] = s]

-----------------------------------------------------------------------------
\* insert_event answers true for a new row, and also for a reaction or a repost, which it
\* counts at the note and does not store.
Store(w) ==
    /\ writer[w] = "idle" /\ stored + rowless < MaxStored
    /\ \/ stored' = stored + 1 /\ UNCHANGED rowless
       \/ rowless' = rowless + 1 /\ UNCHANGED stored
    /\ Goto(w, "stored")
    /\ UNCHANGED <<keys, reader, seen, now, steps>>

Incremented(c) == IF c = Absent THEN 1 ELSE c + 1

\* INCR makes the key when it is not there, without a time to live, and keeps the one
\* it has.  Without Redis the event is not counted.
Count(w) ==
    /\ writer[w] = "stored"
    /\ \/ /\ total' = Incremented(total) /\ window' = Incremented(window)
          /\ Goto(w, "counted")
       \/ Goto(w, "idle") /\ UNCHANGED <<total, window>>
    /\ UNCHANGED <<stored, rowless, totalLife, windowLife, reader, seen, now, steps>>

\* EXPIRE of ingestion_window, a command of its own; it may fail.
SetLife(w) ==
    /\ writer[w] \in {"counted", "late"}
    /\ \/ /\ windowLife' = IF window = Absent THEN Absent ELSE Minute
          /\ steps' = IF writer[w] = "counted" THEN Append(steps, now) ELSE steps
       \/ UNCHANGED <<windowLife, steps>>
    /\ Goto(w, "idle")
    /\ UNCHANGED <<stored, rowless, total, totalLife, window, reader, seen, now>>

\* get_stats finds no total_events: count_events.
CountRows(r) ==
    /\ reader[r] = "idle" /\ total = Absent
    /\ reader' = [reader EXCEPT ![r] = "counted"]
    /\ seen' = [seen EXCEPT ![r] = stored]
    /\ UNCHANGED <<stored, rowless, keys, writer, now, steps>>

\* Bug: what was counted is added to what is there.
AddedTo(n) == IF total = Absent THEN n ELSE total + n

\* SET replaces the value.
Replaced(n) == n

\* set_ex; it may fail.
SetTotal(r) ==
    /\ reader[r] = "counted"
    /\ reader' = [reader EXCEPT ![r] = "idle"] /\ seen' = [seen EXCEPT ![r] = 0]
    /\ \/ total' = Replaced(seen[r]) /\ totalLife' = Minute
       \/ UNCHANGED <<total, totalLife>>
    /\ UNCHANGED <<stored, rowless, window, windowLife, writer, now, steps>>

\* A purge; no counter hears of it.
Delete ==
    /\ stored > 0
    /\ stored' = stored - 1 /\ rowless' = rowless + 1
    /\ UNCHANGED <<keys, writer, reader, seen, now, steps>>

\* A second: keys at the end of their life go; and the two commands of a writer are
\* not sent at once.
Lived(life) == IF life \in {Absent, 1} THEN Absent ELSE life - 1

Tick ==
    /\ now < MaxTime /\ now' = now + 1
    /\ total' = IF totalLife = 1 THEN Absent ELSE total
    /\ window' = IF windowLife = 1 THEN Absent ELSE window
    /\ totalLife' = Lived(totalLife) /\ windowLife' = Lived(windowLife)
    /\ writer' = [w \in Writers |-> IF writer[w] = "counted" THEN "late" ELSE writer[w]]
    /\ UNCHANGED <<stored, rowless, reader, seen, steps>>

-----------------------------------------------------------------------------
Next ==
    \/ Delete \/ Tick
    \/ \E w \in Writers : Store(w) \/ Count(w) \/ SetLife(w)
    \/ \E r \in Readers : CountRows(r) \/ SetTotal(r)

Spec == Init /\ [][Next]_vars
-----------------------------------------------------------------------------
(* Properties *)

\* total_events is never ahead of the events taken in, but for one for each task that
\* stores, which is counted twice when the rows are counted between its INSERT and its
\* INCR.  Of the rows it is ahead without a bound: by the reactions and reposts it
\* counts, and by the rows deleted since.
TotalNeverAhead == total # Absent => total <= stored + rowless + Cardinality(Writers)

\* The rate is never too low: the window holds every event of the last minute whose
\* two commands ran at once.
WindowHasRecent ==
    LET recent == {i \in DOMAIN steps : now - steps[i] < Minute} IN
    recent # {} => window # Absent /\ window >= Cardinality(recent)

CountersBounded == TotalNeverAhead /\ WindowHasRecent
=============================================================================
