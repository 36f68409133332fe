--------------------------- MODULE NegentropyProof ----------------------------
(***************************************************************************)
(* Proofs about Negentropy for any relays, events, kinds, window sizes and *)
(* faults.                                                                 *)
(*                                                                         *)
(* WalkIsAccounted speaks of the rows; a walk in memory is ahead of them.  *)
(* So the invariant says of three ranges of time that what a relay has in  *)
(* them is stored or lost for a cause with a name: the last recent pass of *)
(* a kind whose walk was never saved (Recent), from the stored cursor to   *)
(* the last recent pass (Below), and from the cursor of the walk under way *)
(* to where its row will claim it (Walked).                                *)
(***************************************************************************)
EXTENDS CrawlModes, FiniteSetTheorems, TLAPS

AccountedFor(r, e) == e \in stored \/ \E cause \in Causes : <<r, e, cause>> \in lost

Accounted(r, k, from, to) ==
    \A e \in OfKind(k) :
        e \in held[r] /\ from <= Time[e] /\ Time[e] < to => AccountedFor(r, e)

(* The parts of the invariant *)

Visiting == pc \in {"load", "recent", "newest", "walk"}

\* What a visit to a relay knows: the row it has loaded is the row, and no pass asked
\* for what comes after `start`.
Visit ==
    /\ \A r \in Relays, k \in Kinds : reach[r][k] <= now
    /\ \A r \in Relays, k \in Kinds :
          row[r][k].oldest > 0 /\ ~row[r][k].full => row[r][k].oldest > Epoch
    /\ Visiting =>
          /\ at \in Relays /\ start \in FirstNow .. now
          /\ \A k \in Kinds : reach[at][k] <= start
    /\ Visiting /\ pc # "load" =>
          /\ copy.oldest = row[at][kind].oldest /\ copy.full = row[at][kind].full

Recent ==
    \A r \in Relays, k \in Kinds :
        ~Backfilling(row[r][k]) => Accounted(r, k, reach[r][k] - Base, reach[r][k])

Below ==
    \A r \in Relays, k \in Kinds :
        Backfilling(row[r][k]) => Accounted(r, k, row[r][k].oldest, reach[r][k])

Goal == IF Backfilling(copy) THEN reach[at][kind] ELSE Greater(reach[at][kind], Yesterday)

Walked == pc = "walk" => Accounted(at, kind, cursor, Goal)

-----------------------------------------------------------------------------
LEMMA Numbers ==
  /\ Epoch \in Nat /\ Epoch > 0
  /\ MinWindow \in Nat /\ MinWindow > 0 /\ MinWindow <= Base /\ Base <= MaxWindow
  /\ Base \in Nat /\ MaxWindow \in Nat
  /\ NumKinds \in Nat /\ NumKinds > 0 /\ MaxWindows \in Nat /\ MaxWindows > 0
  /\ FirstNow \in Nat /\ MaxNow \in Nat /\ Epoch + Base < FirstNow /\ FirstNow <= MaxNow
  /\ MaxFaults \in Nat
  BY NegentropyAssumption

LEMMA Times == \A e \in Ids : Time[e] \in Epoch .. MaxNow /\ Time[e] \in Int
  BY NegentropyAssumption, Numbers

LEMMA FirstState == Init => TypeOK /\ Visit /\ Recent /\ Below /\ Walked
<1> SUFFICES ASSUME Init PROVE TypeOK /\ Visit /\ Recent /\ Below /\ Walked
  OBVIOUS
<1>1. TypeOK
  BY NegentropyAssumption, Numbers DEF Init, TypeOK, NoRow, Rows, Windows, Kinds
<1>2. Visit
  BY Numbers DEF Init, Visit, Visiting, NoRow
<1>3. Recent /\ Below
  <2>1. \A r \in Relays, k \in Kinds, from \in Int : Accounted(r, k, from, reach[r][k])
    BY Numbers, Times DEF Init, Accounted, OfKind
  <2> QED
    BY <2>1, Numbers DEF Init, Recent, Below, Backfilling, NoRow
<1>4. Walked
  BY DEF Init, Walked
<1> QED
  BY <1>1, <1>2, <1>3, <1>4

-----------------------------------------------------------------------------
(* Types *)

LEMMA Fields ==
  ASSUME NEW s \in Rows
  PROVE  /\ s.oldest \in 0 .. MaxNow /\ s.newest \in 0 .. MaxNow
         /\ s.window \in Windows /\ s.full \in BOOLEAN
  BY DEF Rows

LEMMA Forgets ==
  ASSUME Forget
  PROVE  /\ at' \in Relays \cup {None} /\ kind' \in Kinds /\ start' \in 0 .. MaxNow /\ copy' \in Rows
         /\ cursor' \in Epoch - MaxWindow .. MaxNow /\ window' \in Windows /\ done' \in 0 .. MaxWindows
  BY Numbers DEF Forget, Kinds, NoRow, Rows, Windows

LocalsTyped ==
    /\ todo \subseteq Relays /\ at \in Relays \cup {None}
    /\ kind \in Kinds /\ start \in 0 .. MaxNow
    /\ copy \in Rows
    /\ cursor \in Epoch - MaxWindow .. MaxNow /\ window \in Windows
    /\ done \in 0 .. MaxWindows
    /\ pc \in {"idle", "caps", "load", "recent", "newest", "walk"}

LEMMA Leaves ==
  ASSUME LocalsTyped, LeaveRelay
  PROVE  LocalsTyped' /\ pc' = "caps"
  BY Forgets DEF LeaveRelay, LocalsTyped

LEMMA NextKinds ==
  ASSUME LocalsTyped, NextKind
  PROVE  LocalsTyped' /\ pc' \in {"caps", "load"}
<1>1. CASE kind < NumKinds
  <2>1. kind' \in Kinds
    BY <1>1, Numbers DEF NextKind, LocalsTyped, Kinds
  <2>2. copy' \in Rows
    <3>1. NoRow \in Rows
      BY Numbers DEF NoRow, Rows, Windows
    <3> QED
      BY <1>1, <3>1 DEF NextKind
  <2>3. /\ cursor' \in Epoch - MaxWindow .. MaxNow /\ window' \in Windows
        /\ done' \in 0 .. MaxWindows
    BY <1>1, Numbers DEF NextKind, Windows
  <2>4. pc' = "load" /\ UNCHANGED <<todo, at, start>>
    BY <1>1 DEF NextKind
  <2> QED
    BY <2>1, <2>2, <2>3, <2>4 DEF LocalsTyped
<1>2. CASE ~(kind < NumKinds)
  BY <1>2, Leaves DEF NextKind
<1> QED
  BY <1>1, <1>2

LEMMA AfterRecents ==
  ASSUME LocalsTyped, AfterRecent, start \in FirstNow .. MaxNow,
         copy.oldest > 0 /\ ~copy.full => copy.oldest > Epoch
  PROVE  LocalsTyped'
<1>1. CASE copy.full
  BY <1>1, NextKinds DEF AfterRecent
<1>2. CASE ~copy.full
  <2>1. /\ copy.oldest \in 0 .. MaxNow /\ copy.window \in Windows
    BY Fields DEF LocalsTyped
  <2>2. /\ pc' = "walk" /\ UNCHANGED <<todo, at, kind, start, copy>> /\ done' = 0
        /\ cursor' = Resume(copy).cursor /\ window' = Resume(copy).window
    BY <1>2 DEF AfterRecent
  <2>3. Resume(copy).cursor \in Epoch - MaxWindow .. MaxNow
    BY <1>2, <2>1, Numbers DEF Resume, Yesterday
  <2>4. Resume(copy).window \in Windows
    BY <2>1, Numbers DEF Resume, Greater, Windows
  <2> QED
    BY <2>2, <2>3, <2>4, Numbers DEF LocalsTyped
<1> QED
  BY <1>1, <1>2

LEMMA CostsTyped ==
  ASSUME faults \in 0 .. MaxFaults, NEW n \in Nat, Costs(n)
  PROVE  faults' \in 0 .. MaxFaults
  BY Numbers DEF Costs

LEMMA FailedTyped ==
  ASSUME faults \in 0 .. MaxFaults, UNCHANGED faults \/ Failed
  PROVE  faults' \in 0 .. MaxFaults
  BY CostsTyped DEF Failed

LEMMA MarkedTyped ==
  ASSUME at \in Relays, NEW E \in SUBSET Ids, NEW cause \in Causes
  PROVE  Marked(cause, E) \subseteq Relays \X Ids \X Causes
  BY DEF Marked

\* Tables by relay and kind, of which one entry changes.
LEMMA TableTyped ==
  ASSUME NEW S, NEW f \in [Relays -> [Kinds -> S]], NEW r \in Relays, NEW k \in Kinds, NEW v \in S
  PROVE  /\ [f EXCEPT ![r][k] = v] \in [Relays -> [Kinds -> S]]
         /\ \A q \in Relays, j \in Kinds :
               [f EXCEPT ![r][k] = v][q][j] = IF q = r /\ j = k THEN v ELSE f[q][j]
<1>1. [f[r] EXCEPT ![k] = v] \in [Kinds -> S]
  OBVIOUS
<1>2. [f EXCEPT ![r][k] = v] = [f EXCEPT ![r] = [f[r] EXCEPT ![k] = v]]
  OBVIOUS
<1> QED
  BY <1>1, <1>2

LEMMA NewestTyped ==
  ASSUME NEW f \in [Relays -> [Kinds -> Rows]], NEW r \in Relays, NEW k \in Kinds, NEW v \in 0 .. MaxNow
  PROVE  /\ [f EXCEPT ![r][k].newest = v] \in [Relays -> [Kinds -> Rows]]
         /\ \A q \in Relays, j \in Kinds :
               /\ [f EXCEPT ![r][k].newest = v][q][j].oldest = f[q][j].oldest
               /\ [f EXCEPT ![r][k].newest = v][q][j].full = f[q][j].full
<1> DEFINE s == [f[r][k] EXCEPT !.newest = v]
<1>1. f[r][k] \in Rows
  OBVIOUS
<1>2. s \in Rows /\ s.oldest = f[r][k].oldest /\ s.full = f[r][k].full
  BY <1>1 DEF Rows
<1>3. [f EXCEPT ![r][k].newest = v] = [f EXCEPT ![r][k] = s]
  OBVIOUS
<1> HIDE DEF s
<1> QED
  BY <1>2, <1>3, TableTyped

\* What SaveWalk writes.
LEMMA Saved ==
  ASSUME TypeOK, at \in Relays,
         row' = [row EXCEPT ![at][kind] =
                    [@ EXCEPT !.oldest = Greater(cursor, 0), !.window = window,
                              !.full = AtEpoch(Greater(cursor, 0))]],
         reach' = [reach EXCEPT ![at][kind] =
                    IF Backfilling(copy) THEN @ ELSE Greater(@, Yesterday)],
         start \in FirstNow .. MaxNow
  PROVE  /\ row' \in [Relays -> [Kinds -> Rows]]
         /\ reach' \in [Relays -> [Kinds -> 0 .. MaxNow]]
         /\ row'[at][kind].oldest = Greater(cursor, 0)
         /\ AtEpoch(Greater(cursor, 0)) => row'[at][kind].full
         /\ reach'[at][kind] = Goal
         /\ \A r \in Relays, k \in Kinds :
               ~(r = at /\ k = kind) => row'[r][k] = row[r][k] /\ reach'[r][k] = reach[r][k]
<1>1. /\ row \in [Relays -> [Kinds -> Rows]] /\ reach \in [Relays -> [Kinds -> 0 .. MaxNow]]
      /\ kind \in Kinds /\ window \in Windows /\ cursor \in Int /\ cursor <= MaxNow
  BY Numbers DEF TypeOK
<1> DEFINE s == [row[at][kind] EXCEPT !.oldest = Greater(cursor, 0), !.window = window,
                                      !.full = AtEpoch(Greater(cursor, 0))]
<1>2. Greater(cursor, 0) \in 0 .. MaxNow
  BY <1>1, Numbers DEF Greater
<1>3. AtEpoch(Greater(cursor, 0)) \in BOOLEAN
  BY DEF AtEpoch
<1>4. /\ s \in Rows /\ s.oldest = Greater(cursor, 0) /\ (AtEpoch(Greater(cursor, 0)) => s.full)
  <2>1. row[at][kind] \in Rows
    BY <1>1
  <2> QED
    BY ONLY <1>1, <1>2, <1>3, <2>1 DEF Rows
<1>5. /\ row' = [row EXCEPT ![at][kind] = s]
  OBVIOUS
<1>5a. /\ row' \in [Relays -> [Kinds -> Rows]] /\ row'[at][kind] = s
      /\ \A r \in Relays, k \in Kinds : ~(r = at /\ k = kind) => row'[r][k] = row[r][k]
  <2> HIDE DEF s
  <2> QED
    BY ONLY at \in Relays, <1>1, <1>4, <1>5, TableTyped
<1>6. reach[at][kind] \in 0 .. MaxNow
  BY <1>1
<1>7. PICK g \in 0 .. MaxNow : g = Goal
  BY <1>6, Numbers DEF Goal, Greater, Yesterday
<1>8. reach' = [reach EXCEPT ![at][kind] = g]
  BY <1>7 DEF Goal
<1>9. /\ reach' \in [Relays -> [Kinds -> 0 .. MaxNow]]
      /\ \A r \in Relays, k \in Kinds : reach'[r][k] = IF r = at /\ k = kind THEN g ELSE reach[r][k]
  BY ONLY at \in Relays, <1>1, <1>8, g \in 0 .. MaxNow, TableTyped
<1> QED
  BY <1>1, <1>4, <1>5a, <1>7, <1>9

\* What a conversation about a window stores.
LEMMA SyncedTyped ==
  ASSUME TypeOK, NEW since, NEW until, NEW got \in SUBSET Need(since, until), Synced(since, until, got)
  PROVE  stored' \subseteq Ids \ Refused /\ faults' \in 0 .. MaxFaults
<1>1. got \subseteq Ids
  BY DEF Need, Between, OfKind
<1>2. faults' \in 0 .. MaxFaults
  BY CostsTyped DEF Synced, TypeOK
<1> QED
  BY <1>1, <1>2 DEF Synced, TypeOK

LEMMA TypeNext == TypeOK /\ Visit /\ [Next]_vars => TypeOK'
<1> SUFFICES ASSUME TypeOK, Visit, [Next]_vars PROVE TypeOK'
  OBVIOUS
<1> USE DEF envVars, syncVars
<1>0. LocalsTyped /\ faults \in 0 .. MaxFaults
  BY DEF TypeOK, LocalsTyped
<1>1. TypeOK' <=> /\ LocalsTyped'
                  /\ now' \in FirstNow .. MaxNow
                  /\ held' \in [Relays -> SUBSET Ids] /\ stored' \subseteq Ids \ Refused
                  /\ caps' \in [Relays -> {"yes", "no", "stale"}]
                  /\ row' \in [Relays -> [Kinds -> Rows]]
                  /\ reach' \in [Relays -> [Kinds -> 0 .. MaxNow]]
                  /\ lost' \subseteq Relays \X Ids \X Causes
                  /\ faults' \in 0 .. MaxFaults
  BY DEF TypeOK, LocalsTyped
<1>2. CASE BeginCycle
  BY <1>0, <1>1, <1>2 DEF BeginCycle, TypeOK, LocalsTyped
<1>3. ASSUME NEW r \in Relays, CheckCaps(r)
      PROVE  TypeOK'
  <2>1. faults' \in 0 .. MaxFaults
    BY <1>0, <1>3, CostsTyped DEF CheckCaps
  <2>2. caps' \in [Relays -> {"yes", "no", "stale"}]
    BY <1>3 DEF CheckCaps, TypeOK
  <2>3. LocalsTyped'
    BY <1>0, <1>3, Numbers DEF CheckCaps, LocalsTyped, TypeOK
  <2> QED
    BY <1>1, <1>3, <2>1, <2>2, <2>3 DEF CheckCaps, TypeOK
<1>4. CASE EndCycle
  BY <1>0, <1>1, <1>4 DEF EndCycle, TypeOK, LocalsTyped
<1>5. ASSUME StateError
      PROVE  LocalsTyped' /\ faults' \in 0 .. MaxFaults /\ UNCHANGED <<row, reach, lost>>
  BY <1>0, <1>5, Leaves, CostsTyped DEF StateError
<1>6. CASE LoadState
  <2>1. CASE copy' = row[at][kind]
             /\ pc' = "recent"
             /\ UNCHANGED <<row, todo, at, kind, start, cursor, window, done, reach, lost, faults>>
    <3>1. row[at][kind] \in Rows
      BY <1>6 DEF LoadState, TypeOK, Visit, Visiting
    <3> QED
      BY <1>0, <1>1, <1>6, <2>1, <3>1 DEF LoadState, TypeOK, LocalsTyped
  <2>2. CASE StateError
    BY <1>1, <1>5, <1>6, <2>2 DEF LoadState, TypeOK
  <2> QED
    BY <1>6, <2>1, <2>2 DEF LoadState
<1>7. ASSUME Visiting
      PROVE  start \in FirstNow .. MaxNow /\ at \in Relays /\ kind \in Kinds
  BY <1>7, Numbers DEF Visit, TypeOK
<1>7a. ASSUME Visiting, pc # "load"
      PROVE  copy.oldest > 0 /\ ~copy.full => copy.oldest > Epoch
  BY <1>7, <1>7a DEF Visit
<1>8. CASE RecentPass
  <2>1. /\ start \in FirstNow .. MaxNow /\ start \in 0 .. MaxNow /\ at \in Relays /\ kind \in Kinds
    BY <1>7, <1>8, Numbers DEF RecentPass, Visiting
  <2>2. UNCHANGED <<now, held, caps, row>>
    BY <1>8 DEF RecentPass
  <2>3. ASSUME NEW got \in SUBSET Need(Yesterday, start), Synced(Yesterday, start, got),
               pc' = "newest", reach' = [reach EXCEPT ![at][kind] = start],
               lost' = lost \cup Marked("outage", Gap)
                            \cup Marked("unstored", Need(Yesterday, start) \ (stored \cup got)),
               UNCHANGED syncVars
        PROVE  TypeOK'
    <3>1. reach' \in [Relays -> [Kinds -> 0 .. MaxNow]]
      BY <2>1, <2>3, TableTyped DEF TypeOK
    <3>2. Gap \subseteq Ids /\ Need(Yesterday, start) \subseteq Ids
      BY DEF Gap, Need, Between, OfKind
    <3>3. /\ Marked("outage", Gap) \subseteq Relays \X Ids \X Causes
          /\ Marked("unstored", Need(Yesterday, start) \ (stored \cup got)) \subseteq Relays \X Ids \X Causes
      BY <2>1, <3>2, MarkedTyped DEF Causes
    <3>4. lost' \subseteq Relays \X Ids \X Causes
      BY <2>3, <3>3 DEF TypeOK
    <3>5. LocalsTyped'
      BY <1>0, <2>3 DEF LocalsTyped
    <3> QED
      BY <1>1, <2>2, <2>3, <3>1, <3>4, <3>5, SyncedTyped DEF TypeOK
  <2>4. ASSUME UNCHANGED stored, UNCHANGED faults \/ Failed, AfterRecent, UNCHANGED <<reach, lost>>
        PROVE  TypeOK'
    <3>1. LocalsTyped'
      BY <1>0, <1>8, <1>7a, <2>1, <2>4, AfterRecents DEF RecentPass, Visiting
    <3>2. faults' \in 0 .. MaxFaults
      BY <1>0, <2>4, FailedTyped
    <3> QED
      BY <1>1, <2>2, <2>4, <3>1, <3>2 DEF TypeOK
  <2> QED
    BY <1>8, <2>3, <2>4 DEF RecentPass, Failed
<1>9. CASE UpdateNewest
  <2>1. /\ start \in FirstNow .. MaxNow /\ start \in 0 .. MaxNow /\ at \in Relays /\ kind \in Kinds
    BY <1>7, <1>9, Numbers DEF UpdateNewest, Visiting
  <2>2. CASE AfterRecent /\ row' = (IF start > copy.newest
                                    THEN [row EXCEPT ![at][kind].newest = start] ELSE row)
             /\ UNCHANGED <<reach, lost, faults>>
    <3>1. LocalsTyped'
      BY <1>0, <1>9, <1>7a, <2>1, <2>2, AfterRecents DEF UpdateNewest, Visiting
    <3>2. row' \in [Relays -> [Kinds -> Rows]]
      BY <2>1, <2>2, NewestTyped DEF TypeOK
    <3> QED
      BY <1>1, <1>9, <2>2, <3>1, <3>2 DEF UpdateNewest, TypeOK
  <2>3. CASE StateError
    BY <1>1, <1>5, <1>9, <2>3 DEF UpdateNewest, TypeOK
  <2> QED
    BY <1>9, <2>2, <2>3 DEF UpdateNewest
<1>10. CASE WalkWindow
  <2>1. at \in Relays
    BY <1>7, <1>10 DEF WalkWindow, Walking, Visiting
  <2>2. PICK got \in SUBSET Need(Since, cursor) :
            /\ Synced(Since, cursor, got)
            /\ lost' = lost \cup Marked("unstored", Need(Since, cursor) \ (stored \cup got))
    BY <1>10 DEF WalkWindow
  <2>3. lost' \subseteq Relays \X Ids \X Causes
    <3>1. Need(Since, cursor) \ (stored \cup got) \subseteq Ids
      BY DEF Need, Between, OfKind
    <3> QED
      BY <2>1, <2>2, <3>1, MarkedTyped DEF TypeOK, Causes
  <2>4. LocalsTyped'
    <3>1. cursor' \in Epoch - MaxWindow .. MaxNow
      BY <1>0, <1>10, Numbers DEF WalkWindow, Walking, Since, Greater, LocalsTyped, Windows
    <3>2. window' \in Windows
      BY <1>0, <1>10, Numbers DEF WalkWindow, Grown, Lesser, LocalsTyped, Windows
    <3>3. done' \in 0 .. MaxWindows
      BY <1>0, <1>10, Numbers DEF WalkWindow, Walking, LocalsTyped
    <3> QED
      BY <1>0, <1>10, <3>1, <3>2, <3>3 DEF WalkWindow, LocalsTyped
  <2> QED
    BY <1>1, <1>10, <2>2, <2>3, <2>4, SyncedTyped DEF WalkWindow, TypeOK
<1>11. CASE HalveWindow
  <2>1. window' \in Windows
    BY <1>0, <1>11, Numbers DEF HalveWindow, LocalsTyped, Windows
  <2> QED
    BY <1>0, <1>1, <1>11, <2>1 DEF HalveWindow, TypeOK, LocalsTyped
<1>12. CASE SkipWindow
  <2>1. at \in Relays
    BY <1>7, <1>12 DEF SkipWindow, Walking, Visiting
  <2>2. lost' \subseteq Relays \X Ids \X Causes
    <3>1. Between(Since, cursor) \subseteq Ids
      BY DEF Between, OfKind
    <3> QED
      BY <1>12, <2>1, <3>1, MarkedTyped DEF SkipWindow, TypeOK, Causes
  <2>3. faults' \in 0 .. MaxFaults /\ UNCHANGED stored
    BY <1>0, <1>12, FailedTyped DEF SkipWindow, Failed
  <2>4. LocalsTyped'
    <3>1. cursor' \in Epoch - MaxWindow .. MaxNow
      BY <1>0, <1>12, Numbers DEF SkipWindow, Walking, LocalsTyped, Windows
    <3>2. done' \in 0 .. MaxWindows
      BY <1>0, <1>12, Numbers DEF SkipWindow, Walking, LocalsTyped
    <3> QED
      BY <1>0, <1>12, <3>1, <3>2 DEF SkipWindow, LocalsTyped
  <2> QED
    BY <1>1, <1>12, <2>2, <2>3, <2>4 DEF SkipWindow, TypeOK
<1>13. CASE SaveWalk
  <2>1. /\ start \in FirstNow .. MaxNow /\ at \in Relays /\ kind \in Kinds
    BY <1>7, <1>13 DEF SaveWalk, Visiting
  <2>2. ASSUME row' = [row EXCEPT ![at][kind] =
                        [@ EXCEPT !.oldest = Greater(cursor, 0), !.window = window,
                                  !.full = AtEpoch(Greater(cursor, 0))]],
               reach' = [reach EXCEPT ![at][kind] =
                        IF Backfilling(copy) THEN @ ELSE Greater(@, Yesterday)],
               NextKind, UNCHANGED <<lost, faults>>
        PROVE  TypeOK'
    <3>1. LocalsTyped'
      BY <1>0, <2>2, NextKinds
    <3>2. /\ row' \in [Relays -> [Kinds -> Rows]]
          /\ reach' \in [Relays -> [Kinds -> 0 .. MaxNow]]
      BY <2>1, <2>2, Saved
    <3> QED
      BY <1>1, <1>13, <2>2, <3>1, <3>2 DEF SaveWalk, TypeOK
  <2>3. CASE StateError
    BY <1>1, <1>5, <1>13, <2>3 DEF SaveWalk, TypeOK
  <2> QED
    BY <1>13, <2>2, <2>3 DEF SaveWalk
<1>14. CASE Tick
  BY <1>0, <1>1, <1>14, Numbers DEF Tick, TypeOK, LocalsTyped
<1>15. ASSUME NEW r \in Relays, NEW e \in Ids, Publish(r, e)
       PROVE  TypeOK'
  <2>1. held' \in [Relays -> SUBSET Ids]
    BY <1>15 DEF Publish, TypeOK
  <2>2. lost' \subseteq Relays \X Ids \X Causes
    BY <1>15 DEF Publish, TypeOK, Causes
  <2> QED
    BY <1>0, <1>1, <1>15, <2>1, <2>2 DEF Publish, TypeOK, LocalsTyped
<1>16. ASSUME NEW r \in Relays, ExpireCaps(r)
       PROVE  TypeOK'
  <2>1. caps' \in [Relays -> {"yes", "no", "stale"}]
    BY <1>16 DEF ExpireCaps, TypeOK
  <2> QED
    BY <1>0, <1>1, <1>16, <2>1 DEF ExpireCaps, TypeOK, LocalsTyped
<1>17. CASE Restart
  <2>1. LocalsTyped'
    BY <1>17, Forgets DEF Restart, LocalsTyped
  <2>2. faults' \in 0 .. MaxFaults
    BY <1>0, <1>17, CostsTyped DEF Restart
  <2> QED
    BY <1>1, <1>17, <2>1, <2>2 DEF Restart, TypeOK
<1>18. CASE UNCHANGED vars
  BY <1>0, <1>1, <1>18 DEF vars, TypeOK, LocalsTyped
<1> QED
  BY <1>2, <1>3, <1>4, <1>6, <1>8, <1>9, <1>10, <1>11, <1>12, <1>13, <1>14, <1>15, <1>16, <1>17, <1>18
     DEF Next, Work

-----------------------------------------------------------------------------
(* Histories only grow *)

LEMMA StoredGrows == [Next]_vars => stored \subseteq stored' /\ lost \subseteq lost'
<1> SUFFICES ASSUME [Next]_vars PROVE stored \subseteq stored' /\ lost \subseteq lost'
  OBVIOUS
<1> USE DEF envVars
<1>1. CASE RecentPass
  BY <1>1 DEF RecentPass, Synced, Failed
<1>2. CASE WalkWindow
  BY <1>2 DEF WalkWindow, Synced
<1>3. CASE SkipWindow
  BY <1>3 DEF SkipWindow, Failed
<1>4. CASE BeginCycle \/ EndCycle \/ LoadState \/ UpdateNewest \/ HalveWindow \/ SaveWalk
  BY <1>4 DEF BeginCycle, EndCycle, LoadState, UpdateNewest, HalveWindow, SaveWalk, StateError
<1>5. CASE \E r \in Relays : CheckCaps(r)
  BY <1>5 DEF CheckCaps
<1>6. CASE Tick \/ Restart
  BY <1>6 DEF Tick, Restart
<1>7. CASE \E r \in Relays : ExpireCaps(r) \/ \E e \in Ids : Publish(r, e)
  BY <1>7 DEF ExpireCaps, Publish
<1>8. CASE UNCHANGED vars
  BY <1>8 DEF vars
<1> QED
  BY <1>1, <1>2, <1>3, <1>4, <1>5, <1>6, <1>7, <1>8 DEF Next, Work

LEMMA HeldOrLate ==
  ASSUME TypeOK, [Next]_vars, NEW r \in Relays, NEW e \in Ids, e \in held[r]', Time[e] < now
  PROVE  e \in held[r] \/ AccountedFor(r, e)'
<1> USE DEF envVars
<1>1. CASE \E q \in Relays, i \in Ids : Publish(q, i)
  <2>1. PICK q \in Relays, i \in Ids : Publish(q, i)
    BY <1>1
  <2>2. held' = [held EXCEPT ![q] = @ \cup {i}] /\ held \in [Relays -> SUBSET Ids]
    BY <2>1 DEF Publish, TypeOK
  <2>3. CASE r = q /\ e = i
    BY <2>1, <2>3 DEF Publish, AccountedFor, Causes
  <2>4. CASE ~(r = q /\ e = i)
    BY <2>2, <2>4
  <2> QED
    BY <2>3, <2>4
<1>2. CASE UNCHANGED held
  BY <1>2
<1>3. UNCHANGED held \/ \E q \in Relays, i \in Ids : Publish(q, i)
  BY DEF Next, Work, vars, BeginCycle, EndCycle, LoadState, UpdateNewest, HalveWindow, SaveWalk,
     StateError, CheckCaps, Tick, Restart, ExpireCaps, RecentPass, WalkWindow, SkipWindow
<1> QED
  BY <1>1, <1>2, <1>3

\* What was accounted for stays so, and what a relay gets anew is late, or not yet past.
LEMMA EventNext ==
  ASSUME TypeOK, [Next]_vars, NEW r \in Relays, NEW e \in Ids,
         e \in held[r]', Time[e] < now, e \in held[r] => AccountedFor(r, e)
  PROVE  AccountedFor(r, e)'
<1>1. AccountedFor(r, e) => AccountedFor(r, e)'
  BY StoredGrows DEF AccountedFor
<1> QED
  BY <1>1, HeldOrLate

-----------------------------------------------------------------------------
(* The rows and the passes *)

\* AfterRecent and NextKind stay with the relay, or leave it.
LEMMA StaysOrLeaves ==
  ASSUME LocalsTyped, NextKind \/ AfterRecent
  PROVE  /\ Visiting' => UNCHANGED <<at, start>>
         /\ Visiting' /\ pc' # "load" =>
               /\ pc' = "walk" /\ ~copy.full /\ UNCHANGED <<kind, copy>>
               /\ cursor' = Resume(copy).cursor
  BY DEF NextKind, AfterRecent, LeaveRelay, Visiting

\* What a step does to the rows and to the history of the passes.
RowsKept == UNCHANGED reach
            /\ \A r \in Relays, k \in Kinds :
                  row'[r][k].oldest = row[r][k].oldest /\ row'[r][k].full = row[r][k].full

PassDone ==
    /\ RecentPass /\ at \in Relays /\ pc' = "newest" /\ UNCHANGED <<row, held, now>> /\ UNCHANGED syncVars
    /\ reach'[at][kind] = start
    /\ \A r \in Relays, k \in Kinds : ~(r = at /\ k = kind) => reach'[r][k] = reach[r][k]
    /\ \A e \in Need(Yesterday, start) \cup Gap : AccountedFor(at, e)'

WalkSaved ==
    /\ SaveWalk /\ NextKind /\ at \in Relays /\ UNCHANGED <<held, now, stored, lost>>
    /\ row'[at][kind].oldest = Greater(cursor, 0)
    /\ AtEpoch(Greater(cursor, 0)) => row'[at][kind].full
    /\ reach'[at][kind] = Goal
    /\ \A r \in Relays, k \in Kinds :
          ~(r = at /\ k = kind) => row'[r][k] = row[r][k] /\ reach'[r][k] = reach[r][k]

LEMMA RowSteps ==
  ASSUME TypeOK, Visit, [Next]_vars
  PROVE  RowsKept \/ PassDone \/ WalkSaved
<1> USE DEF envVars
<1>1. Visiting => start \in FirstNow .. MaxNow /\ at \in Relays /\ kind \in Kinds
  BY Numbers DEF Visit, TypeOK
<1>2. CASE RecentPass
  <2>1. Visiting
    BY <1>2 DEF RecentPass, Visiting
  <2>2. ASSUME NEW got \in SUBSET Need(Yesterday, start), Synced(Yesterday, start, got),
               pc' = "newest", reach' = [reach EXCEPT ![at][kind] = start],
               lost' = lost \cup Marked("outage", Gap)
                            \cup Marked("unstored", Need(Yesterday, start) \ (stored \cup got)),
               UNCHANGED syncVars
        PROVE  PassDone
    <3>1. start \in 0 .. MaxNow
      BY <1>1, <2>1, Numbers
    <3>2. \A r \in Relays, k \in Kinds : reach'[r][k] = IF r = at /\ k = kind THEN start ELSE reach[r][k]
      BY ONLY TypeOK, <1>1, <2>1, <2>2, <3>1, TableTyped DEF TypeOK
    <3>3. \A e \in Need(Yesterday, start) \cup Gap : AccountedFor(at, e)'
      <4>1. \A e \in Gap : <<at, e, "outage">> \in lost'
        BY <2>2 DEF Marked
      <4>2. \A e \in Need(Yesterday, start) :
                e \in stored \cup got \/ <<at, e, "unstored">> \in lost'
        BY <2>2 DEF Marked
      <4>3. stored' = stored \cup got
        BY <2>2 DEF Synced
      <4>4. at' = at
        BY <2>2 DEF syncVars
      <4> QED
        BY <4>1, <4>2, <4>3, <4>4 DEF AccountedFor, Causes
    <3> QED
      BY <1>1, <1>2, <2>1, <2>2, <3>2, <3>3 DEF PassDone, RecentPass
  <2>3. CASE UNCHANGED <<reach, row>>
    BY <2>3 DEF RowsKept
  <2> QED
    BY <1>2, <2>2, <2>3 DEF RecentPass
<1>3. CASE UpdateNewest
  <2>1. CASE row' = (IF start > copy.newest THEN [row EXCEPT ![at][kind].newest = start] ELSE row)
             /\ UNCHANGED reach
    <3>1. start \in 0 .. MaxNow /\ at \in Relays /\ kind \in Kinds
      BY <1>1, <1>3, Numbers DEF UpdateNewest, Visiting
    <3> QED
      BY <2>1, <3>1, NewestTyped DEF RowsKept, TypeOK
  <2>2. CASE StateError
    BY <2>2 DEF StateError, RowsKept
  <2> QED
    BY <1>3, <2>1, <2>2 DEF UpdateNewest
<1>4. CASE SaveWalk
  <2>1. Visiting
    BY <1>4 DEF SaveWalk, Visiting
  <2>2. CASE StateError
    BY <2>2 DEF StateError, RowsKept
  <2>3. ASSUME row' = [row EXCEPT ![at][kind] =
                        [@ EXCEPT !.oldest = Greater(cursor, 0), !.window = window,
                                  !.full = AtEpoch(Greater(cursor, 0))]],
               reach' = [reach EXCEPT ![at][kind] =
                        IF Backfilling(copy) THEN @ ELSE Greater(@, Yesterday)],
               NextKind, UNCHANGED <<lost, faults>>
        PROVE  WalkSaved
    <3>1. \A r \in Relays, k \in Kinds :
              ~(r = at /\ k = kind) => row'[r][k] = row[r][k] /\ reach'[r][k] = reach[r][k]
      BY <1>1, <2>1, <2>3, Saved
    <3>2. /\ row'[at][kind].oldest = Greater(cursor, 0)
          /\ AtEpoch(Greater(cursor, 0)) => row'[at][kind].full
          /\ reach'[at][kind] = Goal
      BY <1>1, <2>1, <2>3, Saved
    <3> QED
      BY <1>1, <1>4, <2>1, <2>3, <3>1, <3>2 DEF WalkSaved, SaveWalk
  <2> QED
    BY <1>4, <2>2, <2>3 DEF SaveWalk
<1>5. CASE UNCHANGED <<reach, row>>
  BY <1>5 DEF RowsKept
<1>6. RecentPass \/ UpdateNewest \/ SaveWalk \/ UNCHANGED <<reach, row>>
  BY DEF Next, Work, vars, BeginCycle, EndCycle, LoadState, HalveWindow,
     StateError, CheckCaps, Tick, Restart, ExpireCaps, WalkWindow, SkipWindow, Publish
<1> QED
  BY <1>2, <1>3, <1>4, <1>5, <1>6

LEMMA VisitNext ==
  ASSUME TypeOK, TypeOK', Visit, [Next]_vars
  PROVE  Visit'
<1> USE DEF envVars, syncVars
<1>1. now' \in Int /\ now \in Int /\ now <= now'
  <2>1. now \in Int
    BY Numbers DEF TypeOK
  <2> QED
    <3>1. UNCHANGED now \/ Tick
      BY DEF Next, Work, vars, BeginCycle, EndCycle, LoadState, HalveWindow, RecentPass, UpdateNewest,
         SaveWalk, CheckCaps, Restart, ExpireCaps, WalkWindow, SkipWindow, Publish
    <3> QED
      BY <2>1, <3>1 DEF Tick
<1>2. LocalsTyped
  BY DEF LocalsTyped, TypeOK
<1>3. Visiting => /\ at \in Relays /\ kind \in Kinds /\ start \in FirstNow .. now
                  /\ \A k \in Kinds : reach[at][k] <= start
                  /\ \A k \in Kinds : reach[at][k] \in Int
  BY DEF Visit, TypeOK
<1>4. SaveWalk => Visiting /\ Goal <= start /\ Goal \in Int
  <2>1. SaveWalk => Visiting
    BY DEF SaveWalk, Visiting
  <2> QED
    BY <1>3, <2>1, Numbers DEF Goal, Greater, Yesterday, TypeOK
\* No pass has asked for what comes after now.
<1>5. \A r \in Relays, k \in Kinds : reach'[r][k] <= now'
  <2> SUFFICES ASSUME NEW r \in Relays, NEW k \in Kinds PROVE reach'[r][k] <= now'
    OBVIOUS
  <2>1. reach[r][k] <= now /\ reach[r][k] \in Int
    BY DEF Visit, TypeOK
  <2>2. CASE RowsKept
    BY <1>1, <2>1, <2>2 DEF RowsKept
  <2>3. CASE PassDone
    BY <1>1, <1>3, <2>1, <2>3, Numbers DEF PassDone, RecentPass, Visiting
  <2>4. CASE WalkSaved
    BY <1>1, <1>3, <1>4, <2>1, <2>4, Numbers DEF WalkSaved
  <2> QED
    BY <2>2, <2>3, <2>4, RowSteps
\* A row with a cursor at or below Epoch is fully backfilled.
<1>6. \A r \in Relays, k \in Kinds :
          row'[r][k].oldest > 0 /\ ~row'[r][k].full => row'[r][k].oldest > Epoch
  <2>1. CASE RowsKept
    BY <2>1 DEF RowsKept, Visit
  <2>2. CASE PassDone
    BY <2>2 DEF PassDone, Visit
  <2>3. CASE WalkSaved
    <3>1. cursor \in Int
      BY Numbers DEF TypeOK
    <3>2. row'[at][kind].oldest > 0 /\ ~row'[at][kind].full => row'[at][kind].oldest > Epoch
      BY <2>3, <3>1, Numbers DEF WalkSaved, AtEpoch, Greater
    <3> QED
      BY <2>3, <3>2 DEF WalkSaved, Visit
  <2> QED
    BY <2>1, <2>2, <2>3, RowSteps
\* The visit begins when CheckCaps finds a relay that speaks, at the time it is.
<1>7. Visiting' => /\ at' \in Relays /\ start' \in FirstNow .. now'
                   /\ \A k \in Kinds : reach'[at'][k] <= start'
  <2> SUFFICES ASSUME Visiting' PROVE at' \in Relays /\ start' \in FirstNow .. now'
                                      /\ \A k \in Kinds : reach'[at'][k] <= start'
    OBVIOUS
  <2>1. CASE \E r \in Relays : CheckCaps(r)
    BY <1>1, <2>1, Numbers DEF CheckCaps, Visiting, Visit, TypeOK
  <2>2. CASE Visiting /\ UNCHANGED <<at, start>>
    <3>1. at' \in Relays /\ start' \in FirstNow .. now'
      BY <1>1, <1>3, <2>2, Numbers
    <3>2. ASSUME NEW k \in Kinds PROVE reach'[at][k] <= start
      <4>1. CASE RowsKept
        BY <1>3, <2>2, <4>1 DEF RowsKept
      <4>2. CASE PassDone
        BY <1>3, <2>2, <4>2, Numbers DEF PassDone
      <4>3. CASE WalkSaved
        BY <1>3, <1>4, <2>2, <4>3 DEF WalkSaved
      <4> QED
        BY <4>1, <4>2, <4>3, RowSteps
    <3> QED
      BY <2>2, <3>1, <3>2
  <2>3. (\E r \in Relays : CheckCaps(r)) \/ (Visiting /\ UNCHANGED <<at, start>>)
    <3>1. CASE LoadState \/ RecentPass \/ UpdateNewest \/ WalkWindow \/ HalveWindow \/ SkipWindow \/ SaveWalk
      <4>1. Visiting
        BY <3>1 DEF LoadState, RecentPass, UpdateNewest, WalkWindow, HalveWindow, SkipWindow, SaveWalk,
           Walking, Visiting
      <4>2. UNCHANGED <<at, start>> \/ NextKind \/ AfterRecent \/ LeaveRelay
        BY <3>1 DEF LoadState, RecentPass, UpdateNewest, WalkWindow, HalveWindow, SkipWindow, SaveWalk,
           StateError
      <4>3. ~LeaveRelay
        BY DEF LeaveRelay, Visiting
      <4> QED
        BY <1>2, <4>1, <4>2, <4>3, StaysOrLeaves
    <3>2. CASE BeginCycle \/ EndCycle \/ Restart
      BY <3>2 DEF BeginCycle, EndCycle, Restart, Visiting
    <3>3. CASE Tick \/ (\E r \in Relays : ExpireCaps(r) \/ \E e \in Ids : Publish(r, e)) \/ UNCHANGED vars
      BY <3>3 DEF Tick, ExpireCaps, Publish, vars, Visiting
    <3> QED
      BY <3>1, <3>2, <3>3 DEF Next, Work
  <2> QED
    BY <2>1, <2>2, <2>3
\* The copy is of the row, which nobody else writes.
<1>8. Visiting' /\ pc' # "load" =>
          copy'.oldest = row'[at'][kind'].oldest /\ copy'.full = row'[at'][kind'].full
  <2> SUFFICES ASSUME Visiting', pc' # "load"
               PROVE  copy'.oldest = row'[at'][kind'].oldest /\ copy'.full = row'[at'][kind'].full
    OBVIOUS
  <2>1. CASE LoadState
    BY <2>1 DEF LoadState, StateError, LeaveRelay, Visiting
  <2>2. CASE Visiting /\ pc # "load" /\ UNCHANGED <<at, kind, copy>> /\ ~SaveWalk
    <3>1. row'[at][kind].oldest = row[at][kind].oldest /\ row'[at][kind].full = row[at][kind].full
      BY <1>3, <2>2, RowSteps DEF RowsKept, PassDone, WalkSaved
    <3> QED
      BY <2>2, <3>1 DEF Visit
  <2>3. LoadState \/ (Visiting /\ pc # "load" /\ UNCHANGED <<at, kind, copy>> /\ ~SaveWalk)
    <3>1. CASE RecentPass \/ UpdateNewest
      <4>1. Visiting /\ pc # "load" /\ ~SaveWalk
        BY <3>1 DEF RecentPass, UpdateNewest, SaveWalk, Visiting
      <4>2. UNCHANGED <<at, kind, copy>> \/ AfterRecent \/ LeaveRelay
        BY <3>1 DEF RecentPass, UpdateNewest, StateError
      <4>3. ~LeaveRelay
        BY DEF LeaveRelay, Visiting
      <4> QED
        BY <1>2, <4>1, <4>2, <4>3, StaysOrLeaves
    <3>2. CASE WalkWindow \/ HalveWindow \/ SkipWindow
      BY <3>2 DEF WalkWindow, HalveWindow, SkipWindow, Walking, Visiting, SaveWalk
    <3>3. ~SaveWalk
      <4>1. SaveWalk => NextKind \/ LeaveRelay
        BY DEF SaveWalk, StateError
      <4>2. NextKind \/ LeaveRelay => ~(Visiting' /\ pc' # "load")
        BY DEF NextKind, LeaveRelay, Visiting
      <4> QED
        BY <4>1, <4>2
    <3>4. CASE BeginCycle \/ EndCycle \/ Restart \/ \E r \in Relays : CheckCaps(r)
      BY <3>4 DEF BeginCycle, EndCycle, Restart, CheckCaps, Visiting
    <3>5. CASE Tick \/ (\E r \in Relays : ExpireCaps(r) \/ \E e \in Ids : Publish(r, e)) \/ UNCHANGED vars
      BY <3>3, <3>5 DEF Tick, ExpireCaps, Publish, vars, Visiting
    <3> QED
      BY <3>1, <3>2, <3>3, <3>4, <3>5 DEF Next, Work
  <2> QED
    BY <2>1, <2>2, <2>3
<1> QED
  BY <1>5, <1>6, <1>7, <1>8 DEF Visit, Visiting

-----------------------------------------------------------------------------
(* The ranges *)

\* What the last pass of a visit has asked for is accounted for up to `start`.
LEMMA PassCovers ==
  ASSUME TypeOK, Visit, PassDone, NEW e \in OfKind(kind), e \in held[at],
         Yesterday <= Time[e], Time[e] < start
  PROVE  AccountedFor(at, e)'
<1>1. e \in Ids /\ Time[e] \in Int /\ start \in Int
  BY Times, Numbers DEF OfKind, TypeOK
<1>2. e \in stored \/ e \in Need(Yesterday, start)
  BY <1>1 DEF Need, Between, OfKind
<1>3. stored \subseteq stored'
  BY DEF PassDone, RecentPass, Synced, Failed
<1> QED
  BY <1>2, <1>3 DEF PassDone, AccountedFor

LEMMA RecentNext ==
  ASSUME TypeOK, Visit, Recent, [Next]_vars
  PROVE  Recent'
<1> SUFFICES ASSUME NEW r \in Relays, NEW k \in Kinds, ~Backfilling(row'[r][k]),
                    NEW e \in OfKind(k), e \in held'[r],
                    reach'[r][k] - Base <= Time[e], Time[e] < reach'[r][k]
             PROVE  AccountedFor(r, e)'
  BY DEF Recent, Accounted, Backfilling, OfKind
<1> USE DEF Backfilling
<1>1. e \in Ids /\ Time[e] \in Int
  BY Times DEF OfKind
<1>2. reach[r][k] <= now /\ reach[r][k] \in Int /\ now \in Int
  BY Numbers DEF Visit, TypeOK
<1>3. CASE RowsKept
  <2>1. e \in held[r] => AccountedFor(r, e)
    BY <1>3 DEF RowsKept, Recent, Accounted
  <2>2. Time[e] < now
    BY <1>1, <1>2, <1>3 DEF RowsKept
  <2> QED
    BY <1>1, <2>1, <2>2, EventNext
<1>4. CASE PassDone /\ r = at /\ k = kind
  BY <1>4, PassCovers DEF PassDone, Yesterday, AccountedFor, syncVars
<1>5. CASE (PassDone \/ WalkSaved) /\ ~(r = at /\ k = kind)
  <2>1. row'[r][k] = row[r][k] /\ reach'[r][k] = reach[r][k]
    BY <1>5 DEF PassDone, WalkSaved
  <2>2. e \in held[r] => AccountedFor(r, e)
    BY <2>1 DEF Recent, Accounted
  <2>3. Time[e] < now
    BY <1>1, <1>2, <2>1
  <2> QED
    BY <1>1, <2>2, <2>3, EventNext
<1>6. CASE WalkSaved /\ r = at /\ k = kind
  <2>1. cursor \in Int
    BY Numbers DEF TypeOK
  <2> QED
    BY <1>6, <2>1, Numbers DEF WalkSaved, Greater, AtEpoch
<1> QED
  BY <1>3, <1>4, <1>5, <1>6, RowSteps

LEMMA BelowNext ==
  ASSUME TypeOK, Visit, Below, Walked, [Next]_vars
  PROVE  Below'
<1> SUFFICES ASSUME NEW r \in Relays, NEW k \in Kinds, Backfilling(row'[r][k]),
                    NEW e \in OfKind(k), e \in held'[r],
                    row'[r][k].oldest <= Time[e], Time[e] < reach'[r][k]
             PROVE  AccountedFor(r, e)'
  BY DEF Below, Accounted, Backfilling, OfKind
<1>1. e \in Ids /\ Time[e] \in Int
  BY Times DEF OfKind
<1>2. /\ reach[r][k] <= now /\ reach[r][k] \in Int /\ now \in Int
      /\ row[r][k].oldest \in Int /\ start \in Int /\ Base \in Int /\ cursor \in Int
  <2>1. row[r][k] \in Rows
    BY DEF TypeOK
  <2> QED
    BY <2>1, Fields, Numbers DEF Visit, TypeOK
<1>3. CASE RowsKept
  <2>1. e \in held[r] => AccountedFor(r, e)
    BY <1>3 DEF RowsKept, Below, Accounted, Backfilling
  <2>2. Time[e] < now
    BY <1>1, <1>2, <1>3 DEF RowsKept
  <2> QED
    BY <1>1, <2>1, <2>2, EventNext
<1>4. CASE (PassDone \/ WalkSaved) /\ ~(r = at /\ k = kind)
  <2>1. row'[r][k] = row[r][k] /\ reach'[r][k] = reach[r][k]
    BY <1>4 DEF PassDone, WalkSaved
  <2>2. e \in held[r] => AccountedFor(r, e)
    BY <2>1 DEF Below, Accounted
  <2>3. Time[e] < now
    BY <1>1, <1>2, <2>1
  <2> QED
    BY <1>1, <2>2, <2>3, EventNext
<1>5. CASE PassDone /\ r = at /\ k = kind
  <2>1. /\ e \in held[r] /\ row'[r][k] = row[r][k] /\ Time[e] < start
    BY <1>5 DEF PassDone
  <2>2. CASE Time[e] < reach[r][k]
    <3>1. AccountedFor(r, e)
      BY <2>1, <2>2 DEF Below, Accounted
    <3> QED
      BY <3>1, StoredGrows DEF AccountedFor
  <2>3. CASE reach[r][k] <= Time[e] /\ Time[e] < Yesterday
    <3>1. e \in Gap
      BY <1>5, <2>1, <2>3 DEF Gap
    <3> QED
      BY <1>5, <3>1 DEF PassDone, AccountedFor, syncVars
  <2>4. CASE Yesterday <= Time[e]
    BY <1>5, <2>1, <2>4, PassCovers DEF PassDone, AccountedFor, syncVars
  <2> QED
    BY <1>1, <1>2, <2>2, <2>3, <2>4 DEF Yesterday
<1>6. CASE WalkSaved /\ r = at /\ k = kind
  <2>1. cursor <= Time[e] /\ Time[e] < Goal /\ pc = "walk" /\ e \in held[r]
    BY <1>1, <1>2, <1>6 DEF WalkSaved, SaveWalk, Greater
  <2>2. AccountedFor(r, e)
    BY <1>6, <2>1 DEF Walked, Accounted
  <2> QED
    BY <2>2, StoredGrows DEF AccountedFor
<1> QED
  BY <1>3, <1>4, <1>5, <1>6, RowSteps

\* Where a walk begins: at the stored cursor, or a day below `start`, which the
\* passes of former cycles do not fall short of by more than Base.
LEMMA WalkBegins ==
  ASSUME TypeOK, Visit, Recent, Below, Visiting, pc # "load", ~copy.full,
         NEW e \in OfKind(kind), e \in held[at], Resume(copy).cursor <= Time[e], Time[e] < Goal
  PROVE  AccountedFor(at, e)
<1>1. /\ at \in Relays /\ kind \in Kinds /\ start \in Int /\ reach[at][kind] \in Int
      /\ reach[at][kind] <= start /\ Base \in Int /\ Time[e] \in Int
      /\ copy.oldest = row[at][kind].oldest /\ copy.full = row[at][kind].full
      /\ copy.oldest \in Int
  BY Times, Numbers, Fields DEF Visit, TypeOK, OfKind
<1>2. CASE copy.oldest > 0
  BY <1>1, <1>2 DEF Below, Accounted, Backfilling, Resume, Goal
<1>3. CASE ~(copy.oldest > 0)
  <2>1. ~Backfilling(row[at][kind]) /\ ~Backfilling(copy)
    BY <1>1, <1>3 DEF Backfilling
  <2>2. reach[at][kind] - Base <= Time[e] /\ Time[e] < reach[at][kind]
    BY <1>1, <1>3, <2>1 DEF Resume, Goal, Greater, Yesterday
  <2> QED
    BY <1>1, <2>1, <2>2 DEF Recent, Accounted
<1> QED
  BY <1>2, <1>3

LEMMA WalkedNext ==
  ASSUME TypeOK, Visit, Recent, Below, Walked, [Next]_vars
  PROVE  Walked'
<1> USE DEF envVars, syncVars
<1> SUFFICES ASSUME pc' = "walk" PROVE Accounted(at, kind, cursor, Goal)'
  BY DEF Walked
<1>1. LocalsTyped
  BY DEF LocalsTyped, TypeOK
<1>2. CASE UNCHANGED <<held, reach, at, kind, start, copy>> /\ Visiting /\ pc # "load"
  <2>1. /\ at \in Relays /\ kind \in Kinds /\ Goal' = Goal
    BY <1>2 DEF Visit, TypeOK, Goal, Yesterday
  <2> SUFFICES ASSUME NEW e \in OfKind(kind), e \in held[at], cursor' <= Time[e], Time[e] < Goal
               PROVE  AccountedFor(at, e)'
    BY <1>2, <2>1 DEF Accounted, OfKind
  <2>2. e \in Ids /\ Time[e] \in Int /\ Time[e] >= Epoch /\ Epoch \in Int /\ cursor \in Int /\ window \in Int
    BY Times, Numbers DEF OfKind, TypeOK, Windows
  <2>3. AccountedFor(at, e) => AccountedFor(at, e)'
    BY <1>2, StoredGrows DEF AccountedFor
  <2>4. CASE AfterRecent
    <3>1. pc' # "load" /\ Visiting'
      BY DEF Visiting
    <3>2. ~copy.full /\ cursor' = Resume(copy).cursor
      BY <1>1, <2>4, <3>1, StaysOrLeaves
    <3> QED
      BY <1>2, <2>3, <3>2, WalkBegins
  <2>5. CASE pc = "walk" /\ cursor <= Time[e]
    BY <2>1, <2>3, <2>5 DEF Walked, Accounted
  <2>6. CASE WalkWindow /\ Time[e] < cursor
    <3>1. PICK got \in SUBSET Need(Since, cursor) :
              /\ stored' = stored \cup got
              /\ lost' = lost \cup Marked("unstored", Need(Since, cursor) \ (stored \cup got))
      BY <2>6 DEF WalkWindow, Synced
    <3>2. Since <= Time[e]
      BY <2>6 DEF WalkWindow
    <3>3. e \in stored \/ e \in Need(Since, cursor)
      BY <2>2, <2>6, <3>2 DEF Need, Between, OfKind
    <3>4. e \in stored' \/ <<at, e, "unstored">> \in lost'
      BY <3>1, <3>3 DEF Marked
    <3> QED
      BY <1>2, <3>4 DEF AccountedFor, Causes
  <2>7. CASE SkipWindow /\ Time[e] < cursor
    <3>1. Since <= Time[e]
      BY <2>2, <2>7 DEF SkipWindow, Since, Greater
    <3>2. e \in Between(Since, cursor)
      BY <2>2, <2>7, <3>1 DEF Between, OfKind
    <3>3. <<at, e, "skipped">> \in lost'
      BY <2>7, <3>2 DEF SkipWindow, Marked
    <3> QED
      BY <1>2, <3>3 DEF AccountedFor, Causes
  <2>8. AfterRecent \/ (pc = "walk" /\ (UNCHANGED cursor \/ WalkWindow \/ SkipWindow))
    <3>1. CASE RecentPass \/ UpdateNewest
      BY <1>2, <3>1 DEF RecentPass, UpdateNewest, StateError, LeaveRelay
    <3>2. CASE WalkWindow \/ HalveWindow \/ SkipWindow
      BY <3>2 DEF WalkWindow, HalveWindow, SkipWindow, Walking
    <3>3. CASE BeginCycle \/ EndCycle \/ LoadState \/ Restart \/ \E r \in Relays : CheckCaps(r)
      BY <3>3 DEF BeginCycle, EndCycle, LoadState, StateError, LeaveRelay, Restart, CheckCaps
    <3>4. CASE SaveWalk
      BY <3>4 DEF SaveWalk, StateError, LeaveRelay, NextKind
    <3>5. CASE Tick \/ (\E r \in Relays : ExpireCaps(r) \/ \E i \in Ids : Publish(r, i)) \/ UNCHANGED vars
      BY <3>5 DEF Tick, ExpireCaps, Publish, vars
    <3> QED
      BY <3>1, <3>2, <3>3, <3>4, <3>5 DEF Next, Work
  <2> QED
    BY <2>2, <2>4, <2>5, <2>6, <2>7, <2>8
<1>3. CASE UNCHANGED <<pc, syncVars, reach>>
  <2>1. pc = "walk" /\ at \in Relays /\ kind \in Kinds /\ Goal' = Goal
    BY <1>3 DEF Visit, Visiting, TypeOK, Goal, Yesterday
  <2>2. Goal <= now /\ Goal \in Int /\ now \in Int
    BY <2>1, Numbers DEF Visit, Visiting, TypeOK, Goal, Greater, Yesterday
  <2> SUFFICES ASSUME NEW e \in OfKind(kind), e \in held'[at], cursor <= Time[e], Time[e] < Goal
               PROVE  AccountedFor(at, e)'
    BY <1>3, <2>1 DEF Accounted, OfKind
  <2>3. PICK r \in Relays : r = at
    BY <2>1
  <2>4. e \in Ids /\ Time[e] < now
    BY <2>2, Times DEF OfKind
  <2>5. e \in held[r] => AccountedFor(r, e)
    BY <2>1, <2>3 DEF Walked, Accounted
  <2>6. AccountedFor(r, e)'
    BY <2>3, <2>4, <2>5, EventNext
  <2> QED
    BY <1>3, <2>3, <2>6 DEF AccountedFor
<1>4. UNCHANGED <<pc, syncVars, reach>>
      \/ (UNCHANGED <<held, reach, at, kind, start, copy>> /\ Visiting /\ pc # "load")
  <2>1. CASE RecentPass
    <3>1. UNCHANGED <<held, reach>> /\ AfterRecent /\ pc = "recent"
      BY <2>1 DEF RecentPass
    <3> QED
      BY <3>1 DEF AfterRecent, NextKind, LeaveRelay, Visiting
  <2>2. CASE UpdateNewest
    BY <2>2 DEF UpdateNewest, StateError, AfterRecent, NextKind, LeaveRelay, Visiting
  <2>3. CASE WalkWindow \/ HalveWindow \/ SkipWindow
    BY <2>3 DEF WalkWindow, HalveWindow, SkipWindow, Walking, Visiting
  <2>4. CASE BeginCycle \/ EndCycle \/ LoadState \/ Restart \/ \E r \in Relays : CheckCaps(r)
    BY <2>4 DEF BeginCycle, EndCycle, LoadState, StateError, LeaveRelay, Restart, CheckCaps
  <2>5. CASE SaveWalk
    BY <2>5 DEF SaveWalk, StateError, LeaveRelay, NextKind
  <2>6. CASE Tick \/ (\E r \in Relays : ExpireCaps(r) \/ \E i \in Ids : Publish(r, i)) \/ UNCHANGED vars
    BY <2>6 DEF Tick, ExpireCaps, Publish, vars
  <2> QED
    BY <2>1, <2>2, <2>3, <2>4, <2>5, <2>6 DEF Next, Work
<1> QED
  BY <1>2, <1>3, <1>4

-----------------------------------------------------------------------------
(* Theorems *)

LEMMA BelowShows == Below /\ TypeOK => WalkIsAccounted
<1> SUFFICES ASSUME Below, TypeOK, NEW r \in Relays, NEW e \in Ids,
                    Backfilling(row[r][Kind[e]]), e \in held[r],
                    row[r][Kind[e]].oldest <= Time[e], Time[e] < reach[r][Kind[e]]
             PROVE  AccountedFor(r, e)
  BY DEF WalkIsAccounted, ClaimedOf, AccountedFor
<1>1. Kind[e] \in Kinds /\ e \in OfKind(Kind[e])
  BY NegentropyAssumption DEF OfKind
<1> QED
  BY <1>1 DEF Below, Accounted

Ind == TypeOK /\ Visit /\ Recent /\ Below /\ Walked

THEOREM Inductive == Spec => []Ind
<1>1. Init => Ind
  BY FirstState DEF Ind
<1>2. Ind /\ [Next]_vars => Ind'
  BY TypeNext, VisitNext, RecentNext, BelowNext, WalkedNext DEF Ind
<1> QED
  BY <1>1, <1>2, PTL DEF Spec

\* Every variable keeps its type: window sizes stay between their limits and cursors in
\* range, however often windows are halved, doubled or skipped.
THEOREM TypeCorrect == Spec => []TypeOK
BY Inductive, PTL DEF Ind

\* Whatever relays refuse, drop or publish late, and wherever the process dies, an event
\* between a stored cursor and the last recent pass is stored, or lost for a named cause.
THEOREM WalkAccounted == Spec => []WalkIsAccounted
BY BelowShows, Inductive, PTL DEF Ind

-----------------------------------------------------------------------------
(* The refinement of Coverage *)

\* A walk starts at the stored cursor and goes down from there; a fully backfilled kind
\* is not walked again.
NoHigher ==
    pc = "walk" => /\ ~copy.full
                   /\ Backfilling(copy) => cursor <= copy.oldest

LEMMA NoHigherNext ==
  ASSUME TypeOK, Visit, NoHigher, [Next]_vars
  PROVE  NoHigher'
<1> USE DEF syncVars
<1>1. /\ cursor \in Int /\ window \in Int /\ window > 0 /\ copy \in Rows /\ copy.oldest \in Int
      /\ Epoch \in Int
  BY Fields, Numbers DEF TypeOK, Windows
<1>2. CASE UNCHANGED <<pc, copy, cursor>>
  BY <1>2 DEF NoHigher, Backfilling
<1>3. CASE pc' # "walk"
  BY <1>3 DEF NoHigher
<1>4. CASE AfterRecent
  <2>1. CASE copy.full
    BY <1>3, <1>4, <2>1 DEF AfterRecent, NextKind, LeaveRelay
  <2>2. CASE ~copy.full
    BY <1>1, <1>4, <2>2 DEF AfterRecent, Resume, NoHigher, Backfilling
  <2> QED
    BY <2>1, <2>2
<1>5. CASE Walking /\ UNCHANGED <<pc, copy>> /\ cursor' \in Int /\ cursor' <= cursor
  BY <1>1, <1>5 DEF NoHigher, Walking, Backfilling
<1>6. CASE WalkWindow
  <2>1. Since \in Int /\ Since <= cursor
    BY <1>1, <1>6 DEF WalkWindow, Walking, Since, Greater
  <2> QED
    BY <1>5, <1>6, <2>1 DEF WalkWindow
<1>7. CASE SkipWindow
  BY <1>1, <1>5, <1>7 DEF SkipWindow
<1>8. CASE RecentPass
  BY <1>2, <1>3, <1>4, <1>8 DEF RecentPass
<1>9. CASE UpdateNewest
  BY <1>3, <1>4, <1>9 DEF UpdateNewest, StateError, LeaveRelay
<1>10. CASE BeginCycle \/ EndCycle \/ LoadState \/ SaveWalk \/ (\E r \in Relays : CheckCaps(r)) \/ Restart
  BY <1>3, <1>2, <1>10 DEF BeginCycle, EndCycle, LoadState, SaveWalk, CheckCaps, Restart, StateError,
     NextKind, LeaveRelay
<1>11. CASE HalveWindow \/ Tick \/ (\E r \in Relays : ExpireCaps(r) \/ \E e \in Ids : Publish(r, e))
  BY <1>2, <1>11 DEF HalveWindow, Tick, ExpireCaps, Publish
<1>12. CASE UNCHANGED vars
  BY <1>2, <1>12 DEF vars
<1> QED
  BY <1>6, <1>7, <1>8, <1>9, <1>10, <1>11, <1>12 DEF Next, Work

\* What a row claims it goes on to claim.
LEMMA RowsWiden ==
  ASSUME TypeOK, Visit, NoHigher, [Next]_vars, NEW r \in Relays, NEW k \in Kinds,
         Backfilling(row[r][k])
  PROVE  /\ Backfilling(row'[r][k])
         /\ row'[r][k].oldest <= row[r][k].oldest
         /\ reach[r][k] <= reach'[r][k]
<1>1. row[r][k] \in Rows /\ row[r][k].oldest \in Nat /\ reach[r][k] \in Int /\ cursor \in Int /\ Epoch > 0 /\ Epoch \in Int
  BY Fields, Numbers DEF TypeOK
<1>2. CASE RowsKept
  BY <1>1, <1>2 DEF RowsKept, Backfilling
<1>3. CASE (PassDone \/ WalkSaved) /\ ~(r = at /\ k = kind)
  BY <1>1, <1>3 DEF PassDone, WalkSaved
<1>4. CASE PassDone /\ r = at /\ k = kind
  <2>1. reach[at][kind] <= start
    BY <1>4 DEF PassDone, RecentPass, Visit, Visiting
  <2> QED
    BY <1>1, <1>4, <2>1 DEF PassDone
<1>5. CASE WalkSaved /\ r = at /\ k = kind
  <2>1. pc = "walk" /\ copy.oldest = row[r][k].oldest /\ copy.full = row[r][k].full
    BY <1>5 DEF WalkSaved, SaveWalk, Visit, Visiting
  <2>2. Backfilling(copy) /\ cursor <= row[r][k].oldest
    BY <2>1 DEF NoHigher, Backfilling
  <2>3. reach'[r][k] = reach[r][k]
    BY <1>5, <2>2 DEF WalkSaved, Goal
  <2>4. row'[r][k].oldest = Greater(cursor, 0) /\ (AtEpoch(Greater(cursor, 0)) => row'[r][k].full)
    BY <1>5 DEF WalkSaved
  <2>5. Greater(cursor, 0) <= row[r][k].oldest
    BY <1>1, <2>2 DEF Greater
  <2>6. Greater(cursor, 0) > 0 \/ AtEpoch(Greater(cursor, 0))
    BY <1>1 DEF Greater, AtEpoch
  <2> QED
    BY <1>1, <2>3, <2>4, <2>5, <2>6 DEF Backfilling
<1> QED
  BY <1>2, <1>3, <1>4, <1>5, RowSteps

\* A relay keeps what it has.
LEMMA HeldGrows ==
  ASSUME TypeOK, [Next]_vars, NEW r \in Relays
  PROVE  held[r] \subseteq held'[r]
<1> USE DEF envVars
<1>1. ASSUME NEW q \in Relays, NEW e \in Ids, Publish(q, e)
      PROVE  held[r] \subseteq held'[r]
  BY <1>1 DEF Publish, TypeOK
<1>2. (\E q \in Relays, e \in Ids : Publish(q, e)) \/ UNCHANGED held
  BY DEF Next, Work, vars, BeginCycle, EndCycle, LoadState, RecentPass, UpdateNewest, HalveWindow,
     SaveWalk, CheckCaps, Tick, Restart, ExpireCaps, WalkWindow, SkipWindow
<1> QED
  BY <1>1, <1>2

LEMMA StepCovers ==
  ASSUME Ind, Ind', NoHigher, [Next]_vars
  PROVE  Covers!Progress
<1> USE DEF Ind
<1>1. HadBy \subseteq HadBy' /\ Excused \subseteq Excused'
  BY StoredGrows DEF HadBy, Excused
<1>2. ASSUME NEW r \in Relays, NEW e \in Ids, ClaimedOf(r, e)
      PROVE  ClaimedOf(r, e)'
  <2>1. Kind[e] \in Kinds /\ Time[e] \in Int
    BY NegentropyAssumption, Times
  <2>2. /\ Backfilling(row'[r][Kind[e]])
        /\ row'[r][Kind[e]].oldest <= row[r][Kind[e]].oldest
        /\ reach[r][Kind[e]] <= reach'[r][Kind[e]]
    BY <1>2, <2>1, RowsWiden DEF ClaimedOf
  <2>3. /\ row[r][Kind[e]] \in Rows /\ row'[r][Kind[e]] \in Rows
        /\ reach[r][Kind[e]] \in Int /\ reach'[r][Kind[e]] \in Int
    BY <2>1, Numbers DEF TypeOK
  <2>4. row[r][Kind[e]].oldest \in Int /\ row'[r][Kind[e]].oldest \in Int
    BY <2>3, Fields, Numbers
  <2> QED
    BY <1>2, <2>1, <2>2, <2>3, <2>4, HeldGrows DEF ClaimedOf
<1>3. WalkIsAccounted'
  BY BelowShows, PTL
<1>4. Claimed \subseteq Claimed'
  BY <1>2 DEF Claimed
<1>5. Claimed' \subseteq HadBy' \cup Excused'
  BY <1>3 DEF WalkIsAccounted, Claimed, HadBy, Excused
<1> QED
  BY <1>1, <1>4, <1>5 DEF Covers!Progress

LEMMA CoversFirst == Init => Covers!Init /\ NoHigher
<1>1. Init => Claimed = {}
  BY NegentropyAssumption DEF Init, Claimed, ClaimedOf, Backfilling, NoRow
<1>2. Init => HadBy = {} /\ Excused = {}
  BY DEF Init, HadBy, Excused
<1>3. Init => NoHigher
  BY DEF Init, NoHigher
<1> QED
  BY <1>1, <1>2, <1>3 DEF Covers!Init

-----------------------------------------------------------------------------
(* The other crawler: places in a list *)

UpTo(S, a)  == {b \in S : b <= a}
Place(S, a) == Cardinality(UpTo(S, a))

LEMMA Least ==
  ASSUME NEW T, T \subseteq Nat, T # {}
  PROVE  \E m \in T : \A x \in T : m <= x
<1>1. PICK m \in T : \A x \in T : ~(<<x, m>> \in OpToRel(<, Nat))
  BY NatLessThanWellFounded, WFMin
<1>2. \A x \in T : x < m => <<x, m>> \in OpToRel(<, Nat)
  BY DEF OpToRel
<1>3. \A x \in T : m <= x
  <2> TAKE x \in T
  <2>1. x \in Nat /\ m \in Nat /\ ~(x < m)
    BY <1>1, <1>2
  <2> QED
    BY <2>1
<1> QED
  BY <1>3

LEMMA Places ==
  ASSUME NEW S, IsFiniteSet(S), S \subseteq Nat, NEW a \in S
  PROVE  Place(S, a) \in Nat /\ Place(S, a) <= Cardinality(S) /\ Place(S, a) > 0
<1>1. UpTo(S, a) \subseteq S /\ a \in UpTo(S, a)
  BY DEF UpTo
<1>2. IsFiniteSet(UpTo(S, a)) /\ Cardinality(UpTo(S, a)) <= Cardinality(S) /\ Cardinality(S) \in Nat
  BY <1>1, FS_Subset, FS_CardinalityType
<1>3. Cardinality(UpTo(S, a)) \in Nat /\ Cardinality(UpTo(S, a)) # 0
  BY <1>1, <1>2, FS_EmptySet, FS_CardinalityType
<1> QED
  BY <1>2, <1>3 DEF Place

\* Who comes later has a higher place.
LEMMA PlacesGrow ==
  ASSUME NEW S, IsFiniteSet(S), S \subseteq Nat, NEW a \in S, NEW b \in S, a < b
  PROVE  Place(S, a) < Place(S, b)
<1>1. UpTo(S, a) \subseteq UpTo(S, b) /\ b \in UpTo(S, b) /\ b \notin UpTo(S, a)
  <2>1. a \in Nat /\ b \in Nat /\ \A x \in S : x \in Nat
    OBVIOUS
  <2>2. \A x \in S : x <= a => x <= b
    BY <2>1
  <2>3. b <= b /\ ~(b <= a)
    BY <2>1
  <2> QED
    BY <2>2, <2>3 DEF UpTo
<1>2. IsFiniteSet(UpTo(S, b))
  BY FS_Subset DEF UpTo
<1>3. Cardinality(UpTo(S, a)) <= Cardinality(UpTo(S, b)) /\ Cardinality(UpTo(S, a)) # Cardinality(UpTo(S, b))
  BY <1>1, <1>2, FS_Subset
<1>4. Place(S, a) \in Nat /\ Place(S, b) \in Nat
  BY Places
<1> QED
  BY <1>3, <1>4 DEF Place

\* The first o places are taken by at most o.
LEMMA FirstPlaces ==
  ASSUME NEW S, IsFiniteSet(S), S \subseteq Nat, NEW o \in Nat
  PROVE  Cardinality({a \in S : Place(S, a) <= o}) <= o
<1> DEFINE Low  == {a \in S : Place(S, a) <= o}
           Left == {Cardinality(S) - Place(S, a) : a \in Low}
<1>1. CASE Low = {}
  BY <1>1, FS_EmptySet
<1>2. CASE Low # {}
  <2>1. Cardinality(S) \in Nat /\ \A a \in S : Place(S, a) \in Nat /\ Place(S, a) <= Cardinality(S)
    BY Places, FS_CardinalityType
  <2>2. Left \subseteq Nat /\ Left # {}
    <3>1. \A a \in Low : Cardinality(S) - Place(S, a) \in Nat
      BY <2>1
    <3>2. Left # {}
      BY <1>2
    <3> QED
      BY <3>1, <3>2
  <2>3. PICK x \in Left : \A y \in Left : x <= y
    BY <2>2, Least
  <2>4. PICK m \in Low : x = Cardinality(S) - Place(S, m)
    BY <2>3
  <2>5. \A a \in Low : Place(S, a) <= Place(S, m)
    <3> TAKE a \in Low
    <3>1. Cardinality(S) - Place(S, m) <= Cardinality(S) - Place(S, a)
      BY <2>3, <2>4
    <3> QED
      BY <2>1, <3>1
  <2>6. Low \subseteq UpTo(S, m)
    <3> SUFFICES ASSUME NEW a \in Low, ~(a <= m) PROVE FALSE
      BY DEF UpTo
    <3>1. m < a /\ a \in S /\ m \in S
      OBVIOUS
    <3>2. Place(S, m) < Place(S, a)
      BY <3>1, PlacesGrow
    <3> QED
      BY <2>1, <2>5, <3>1, <3>2
  <2>7. IsFiniteSet(UpTo(S, m))
    BY FS_Subset DEF UpTo
  <2>8. Cardinality(Low) <= Cardinality(UpTo(S, m)) /\ Cardinality(Low) \in Nat
    BY <2>6, <2>7, FS_Subset, FS_CardinalityType
  <2>9. Place(S, m) <= o /\ Place(S, m) \in Nat
    BY <2>1
  <2>10. Cardinality(UpTo(S, m)) = Place(S, m)
    BY DEF Place
  <2> HIDE DEF Low, Place
  <2>11. Cardinality(Low) <= o
    BY <2>8, <2>9, <2>10
  <2> QED
    BY <2>11 DEF Low
<1> QED
  BY <1>1, <1>2

\* A batch that is not full is the last: what it leaves are the first o.
LEMMA ShortBatch ==
  ASSUME NEW S, IsFiniteSet(S), S \subseteq Nat, NEW o \in Nat, NEW n \in Nat \ {0},
         NEW Now, Now = {a \in S : o < Place(S, a) /\ Place(S, a) <= o + n},
         Cardinality(Now) < n
  PROVE  Cardinality(S \ Now) <= o
<1> DEFINE Low  == {a \in S : Place(S, a) <= o}
           High == {a \in S : o + n < Place(S, a)}
<1>1. \A a \in S : Place(S, a) \in Nat
  BY Places
<1>2. S = (Low \cup Now) \cup High
  <2> SUFFICES ASSUME NEW a \in S PROVE a \in Low \/ a \in Now \/ a \in High
    OBVIOUS
  <2>1. Place(S, a) \in Nat
    BY <1>1
  <2>2. Place(S, a) <= o \/ (o < Place(S, a) /\ Place(S, a) <= o + n) \/ o + n < Place(S, a)
    BY <2>1
  <2> QED
    BY <2>2
<1>3. IsFiniteSet(Low) /\ IsFiniteSet(Now) /\ Cardinality(Low) \in Nat /\ Cardinality(Now) \in Nat
  <2>1. Low \subseteq S /\ Now \subseteq S
    OBVIOUS
  <2> QED
    BY <2>1, FS_Subset, FS_CardinalityType
<1>4. Cardinality(Low) <= o
  BY FirstPlaces
<1>5. High = {}
  <2> SUFFICES ASSUME High # {} PROVE FALSE
    OBVIOUS
  <2>1. PICK h \in High : \A x \in High : h <= x
    <3>1. High \subseteq Nat
      OBVIOUS
    <3> QED
      BY <3>1, Least
  <2>2. UpTo(S, h) \subseteq (Low \cup Now) \cup {h}
    <3> SUFFICES ASSUME NEW x \in S, x <= h, x \in High PROVE x = h
      BY <1>2 DEF UpTo
    <3>1. h <= x /\ x \in Nat /\ h \in Nat
      BY <2>1
    <3> QED
      BY <3>1
  <2> DEFINE Rest == Low \cup Now
  <2>3. IsFiniteSet(Rest) /\ Cardinality(Rest) <= Cardinality(Low) + Cardinality(Now) /\ Cardinality(Rest) \in Nat
    <3>1. IsFiniteSet(Rest) /\ Cardinality(Rest) = Cardinality(Low) + Cardinality(Now) - Cardinality(Low \cap Now)
      BY <1>3, FS_Union
    <3>2. Cardinality(Low \cap Now) \in Nat
      BY <1>3, FS_Intersection, FS_CardinalityType
    <3>3. Cardinality(Rest) \in Nat
      BY <3>1, FS_CardinalityType
    <3> HIDE DEF Low, Rest
    <3> QED
      BY <1>3, <3>1, <3>2, <3>3
  <2> HIDE DEF Rest
  <2>4. IsFiniteSet(Rest \cup {h}) /\ Cardinality(Rest \cup {h}) <= Cardinality(Rest) + 1
    <3>1. IsFiniteSet(Rest \cup {h})
          /\ Cardinality(Rest \cup {h}) = IF h \in Rest THEN Cardinality(Rest) ELSE Cardinality(Rest) + 1
      BY <2>3, FS_AddElement
    <3> QED
      BY <2>3, <3>1
  <2>5. Cardinality(UpTo(S, h)) <= Cardinality(Rest \cup {h}) /\ Cardinality(Rest \cup {h}) \in Nat
    BY <2>2, <2>4, FS_Subset, FS_CardinalityType DEF Rest
  <2>6. o + n < Place(S, h) /\ Place(S, h) \in Nat
    BY <1>1
  <2>7. Cardinality(Now) < n
    OBVIOUS
  <2> HIDE DEF Low, High
  <2> QED
    BY <1>3, <1>4, <2>3, <2>4, <2>5, <2>6, <2>7 DEF Place
<1>6. S \ Now = Low
  <2>1. \A a \in Low : a \notin Now
    BY <1>1
  <2> HIDE DEF Low, High
  <2>2. Low \subseteq S
    BY <1>2
  <2> QED
    BY <1>2, <1>5, <2>1, <2>2
<1> QED
  BY <1>4, <1>6
-----------------------------------------------------------------------------
(* The other crawler: what a pass takes *)

OnlyTypes == Only!TypeOK /\ (phase = "off" => left = {})

Taken == begun \ zapsDue

\* A pass has taken as many authors as it has stepped over, or has come so far that no
\* more are left than it has taken; a batch keeps one of the two.
HalfWay ==
  /\ phase \in {"off", "notes"} => begun = {} /\ batch = {}
  /\ phase = "zaps" => batch \subseteq zapsDue
  /\ phase = "zaps" /\ clean => zapsDue \subseteq begun
  /\ phase = "zaps" /\ batch # {} => offset < Cardinality(Authors)
  /\ phase = "zaps" /\ clean =>
       Cardinality(Taken) >= offset \/ Cardinality(zapsDue) <= Cardinality(Taken)
  /\ phase = "zaps" /\ clean /\ batch # {} =>
       Cardinality(batch) >= BatchSize \/ Cardinality(zapsDue \ batch) <= offset
  /\ phase = "over" /\ clean => 2 * Cardinality(Taken) >= Cardinality(begun)

LEMMA OnlyCount ==
  ASSUME NEW S
  PROVE  Only!Cardinality(S) = Cardinality(S)
BY DEF Only!Cardinality, Cardinality

\* What the sets of authors weigh.
LEMMA Weights ==
  ASSUME NEW S \in SUBSET Authors
  PROVE  /\ IsFiniteSet(S) /\ Cardinality(S) \in Nat /\ Cardinality(S) <= Cardinality(Authors)
         /\ Cardinality(Authors) \in Nat /\ S \subseteq Nat
BY CrawlModesAssumption, FS_Subset, FS_CardinalityType

LEMMA Parted ==
  ASSUME NEW S \in SUBSET Authors, NEW T \in SUBSET S
  PROVE  Cardinality(S) = Cardinality(T) + Cardinality(S \ T) /\ Cardinality(S) = Cardinality(S \ T) + Cardinality(T)
<1>1. S \cap T = T /\ T \in SUBSET Authors /\ S \ T \in SUBSET Authors
  OBVIOUS
<1>2. Cardinality(S \ T) = Cardinality(S) - Cardinality(T)
  BY <1>1, Weights, FS_Difference
<1>3. Cardinality(S) \in Nat /\ Cardinality(T) \in Nat /\ Cardinality(S \ T) \in Nat
  BY <1>1, Weights
<1> QED
  BY <1>2, <1>3

LEMMA NextBatchIs ==
  ASSUME Only!TypeOK
  PROVE  /\ Only!NextBatch = {a \in zapsDue : offset < Place(zapsDue, a) /\ Place(zapsDue, a) <= offset + BatchSize}
         /\ Only!NextBatch # {} => offset < Cardinality(Authors)
         /\ \/ Cardinality(Only!NextBatch) >= BatchSize
            \/ Cardinality(zapsDue \ Only!NextBatch) <= offset
<1>1. Only!NextBatch = {a \in zapsDue : offset < Place(zapsDue, a) /\ Place(zapsDue, a) <= offset + BatchSize}
  BY OnlyCount DEF Only!NextBatch, Only!Rank, Place, UpTo
<1>2. zapsDue \in SUBSET Authors /\ offset \in Nat /\ BatchSize \in Nat \ {0}
  BY OnlyCount, Weights, CrawlModesAssumption DEF Only!TypeOK
<1>3. ASSUME NEW a \in zapsDue, offset < Place(zapsDue, a)
      PROVE  offset < Cardinality(Authors)
  <2>1. IsFiniteSet(zapsDue) /\ zapsDue \subseteq Nat /\ Cardinality(zapsDue) \in Nat
          /\ Cardinality(zapsDue) <= Cardinality(Authors) /\ Cardinality(Authors) \in Nat
    BY <1>2, Weights
  <2>2. Place(zapsDue, a) \in Nat /\ Place(zapsDue, a) <= Cardinality(zapsDue)
    BY <2>1, Places
  <2> QED
    BY <1>2, <1>3, <2>1, <2>2
<1>4. CASE Cardinality(Only!NextBatch) < BatchSize
  <2>1. IsFiniteSet(zapsDue) /\ zapsDue \subseteq Nat
    BY <1>2, Weights
  <2>2. Cardinality(zapsDue \ Only!NextBatch) <= offset
    BY <1>1, <1>2, <1>4, <2>1, ShortBatch
  <2> QED
    BY <1>1, <1>3, <2>2
<1>5. CASE ~(Cardinality(Only!NextBatch) < BatchSize)
  <2>1. Only!NextBatch \in SUBSET Authors
    BY <1>1, <1>2
  <2>2. Cardinality(Only!NextBatch) \in Nat
    BY <2>1, Weights
  <2> QED
    BY <1>1, <1>2, <1>3, <1>5, <2>2
<1> QED
  BY <1>4, <1>5

LEMMA OnlyFirst == Only!Init => OnlyTypes /\ HalfWay
<1> SUFFICES ASSUME Only!Init PROVE OnlyTypes /\ HalfWay
  OBVIOUS
<1>1. Cardinality(Authors) \in Nat /\ BatchSize \in Nat /\ MaxAges \in Nat /\ MaxFaults \in Nat
  BY CrawlModesAssumption, NegentropyAssumption, FS_CardinalityType
<1>2. Only!TypeOK
  BY <1>1, OnlyCount DEF Only!Init, Only!Blank, Only!TypeOK
<1> QED
  BY <1>2 DEF Only!Init, Only!Blank, OnlyTypes, HalfWay

LEMMA OnlyTypesNext ==
  ASSUME OnlyTypes, HalfWay, Only!Next
  PROVE  OnlyTypes'
<1> USE DEF OnlyTypes, Only!TypeOK, Only!rows, Only!visit, Only!Costs
<1>1. Cardinality(Authors) \in Nat /\ BatchSize \in Nat /\ MaxAges \in Nat /\ MaxFaults \in Nat
        /\ Only!Cardinality(Authors) = Cardinality(Authors)
  BY CrawlModesAssumption, NegentropyAssumption, FS_CardinalityType, OnlyCount
<1>2. CASE Only!ValidateRelays
  BY <1>1, <1>2 DEF Only!ValidateRelays
<1>3. CASE Only!TakeAuthor
  <2>1. left' \subseteq confirmed /\ author' \in NoteTiers \cup {Nobody} /\ faults' \in 0 .. MaxFaults
    BY <1>1, <1>3 DEF Only!TakeAuthor
  <2>2. /\ phase' \in {"notes", "zaps", "over"} /\ batch' \subseteq Authors /\ begun' \subseteq Authors
        /\ offset' \in {offset, 0} /\ clean' \in BOOLEAN
    BY <1>1, <1>3 DEF Only!TakeAuthor, Only!BeginZaps
  <2>3. offset' \in 0 .. Cardinality(Authors) + BatchSize
    BY <1>1, <2>2
  <2>4. UNCHANGED <<notesDue, zapsDue, confirmed, ages>>
    BY <1>3 DEF Only!TakeAuthor
  <2> QED
    BY <1>1, <2>1, <2>2, <2>3, <2>4
<1>4. CASE Only!MarkAuthor
  BY <1>1, <1>4 DEF Only!MarkAuthor
<1>5. CASE Only!TakeBatch
  <2>1. Only!NextBatch \subseteq zapsDue
    BY DEF Only!NextBatch
  <2>2. /\ batch' \subseteq Authors /\ faults' \in 0 .. MaxFaults /\ phase' \in {"zaps", "over"}
        /\ UNCHANGED <<notesDue, zapsDue, confirmed, author, left, offset, begun, ages>>
    BY <1>1, <1>5, <2>1 DEF Only!TakeBatch
  <2>3. clean' \in BOOLEAN
    BY <1>5, Zenon DEF Only!TakeBatch
  <2> QED
    BY <1>1, <2>2, <2>3
<1>6. CASE Only!CrawlZaps
  <2>1. offset' \in 0 .. Cardinality(Authors) + BatchSize
    BY <1>1, <1>6 DEF Only!CrawlZaps, Only!Advance, HalfWay
  <2>2. /\ zapsDue' \subseteq Authors /\ faults' \in 0 .. MaxFaults /\ batch' = {}
        /\ UNCHANGED <<phase, notesDue, confirmed, author, left, begun, ages>>
    BY <1>1, <1>6 DEF Only!CrawlZaps
  <2>3. clean' \in BOOLEAN
    BY <1>6, Zenon DEF Only!CrawlZaps
  <2> QED
    BY <1>1, <2>1, <2>2, <2>3
<1>7. CASE Only!Redeploy \/ Only!Die
  <2>1. Only!Stop /\ faults' \in 0 .. MaxFaults
    BY <1>1, <1>7 DEF Only!Redeploy, Only!Die
  <2>2. 0 \in 0 .. Cardinality(Authors) + BatchSize
    BY <1>1
  <2> QED
    BY <1>1, <2>1, <2>2 DEF Only!Stop
<1>8. ASSUME NEW a \in Authors, Only!Age(a)
      PROVE  OnlyTypes'
  <2>1. /\ notesDue' \subseteq Authors /\ zapsDue' \subseteq Authors /\ ages' \in 0 .. MaxAges
        /\ UNCHANGED <<phase, confirmed, author, left, batch, offset, begun, faults>>
    BY <1>1, <1>8 DEF Only!Age
  <2>2. clean' \in BOOLEAN
    BY <1>8, Zenon DEF Only!Age
  <2> QED
    BY <1>1, <2>1, <2>2
<1>9. ASSUME NEW r \in Pinned, Only!SyncAuthor(r)
      PROVE  OnlyTypes'
  BY <1>1, <1>9 DEF Only!SyncAuthor
<1> QED
  BY <1>2, <1>3, <1>4, <1>5, <1>6, <1>7, <1>8, <1>9 DEF Only!Next, Only!Work

LEMMA HalfWayNext ==
  ASSUME OnlyTypes, HalfWay, Only!Next
  PROVE  HalfWay'
<1>1. Only!TypeOK /\ zapsDue \in SUBSET Authors /\ begun \in SUBSET Authors
  BY DEF OnlyTypes, Only!TypeOK
<1>2. offset \in Nat /\ BatchSize \in Nat \ {0}
  BY CrawlModesAssumption, OnlyCount, Weights DEF OnlyTypes, Only!TypeOK
<1>3. CASE Only!ValidateRelays
  <2>1. phase = "off" /\ UNCHANGED <<zapsDue, batch, begun>> /\ phase' \in {"over", "notes"}
    BY <1>3 DEF Only!ValidateRelays, Only!rows
  <2>2. begun = {} /\ batch = {}
    BY <2>1 DEF HalfWay
  <2>3. Taken' = {} /\ begun' = {} /\ batch' = {}
    BY <2>1, <2>2 DEF Taken
  <2> QED
    BY <2>1, <2>3, FS_EmptySet DEF HalfWay
<1>4. CASE Only!TakeAuthor
  <2>1. CASE UNCHANGED <<phase, zapsDue, batch, offset, begun, clean>>
    BY <2>1 DEF HalfWay, Taken
  <2>2. CASE phase' = "zaps" /\ zapsDue' = zapsDue /\ begun' = zapsDue /\ batch' = {} /\ offset' = 0
    <3>1. Taken' = {}
      BY <2>2 DEF Taken
    <3> QED
      BY <2>2, <3>1, FS_EmptySet DEF HalfWay
  <2>3. CASE phase = "notes" /\ phase' = "over" /\ begun' = begun
    <3>1. begun' = {} /\ Taken' = {}
      BY <2>3 DEF HalfWay, Taken
    <3> QED
      BY <2>3, <3>1, FS_EmptySet DEF HalfWay
  <2> QED
    BY <1>4, <2>1, <2>2, <2>3 DEF Only!TakeAuthor, Only!BeginZaps, Only!rows
<1>5. CASE Only!TakeBatch
  <2>1. /\ phase = "zaps" /\ UNCHANGED <<zapsDue, offset, begun>> /\ (clean => zapsDue \subseteq begun)
        /\ clean => Cardinality(Taken) >= offset \/ Cardinality(zapsDue) <= Cardinality(Taken)
    BY <1>5 DEF Only!TakeBatch, Only!rows, HalfWay
  <2>2. Taken' = Taken
    BY <2>1 DEF Taken
  <2>3. CASE Only!NextBatch # {} /\ batch' = Only!NextBatch /\ UNCHANGED <<phase, clean>>
    <3>1. Only!NextBatch \subseteq zapsDue
      BY DEF Only!NextBatch
    <3>2. /\ offset < Cardinality(Authors)
          /\ \/ Cardinality(Only!NextBatch) >= BatchSize
             \/ Cardinality(zapsDue \ Only!NextBatch) <= offset
      BY <1>1, <2>3, NextBatchIs
    <3> QED
      BY <2>1, <2>2, <2>3, <3>1, <3>2 DEF HalfWay
  <2>4. CASE phase' = "over" /\ clean' = (clean /\ Only!NextBatch = {})
    <3> SUFFICES ASSUME clean' PROVE 2 * Cardinality(Taken) >= Cardinality(begun)
      BY <2>1, <2>2, <2>4 DEF HalfWay
    <3>1. clean /\ Only!NextBatch = {}
      BY <2>4
    <3>2. Cardinality(zapsDue) <= offset
      <4>1. Cardinality(Only!NextBatch) = 0 /\ zapsDue \ Only!NextBatch = zapsDue
        BY <3>1, FS_EmptySet
      <4>2. \/ Cardinality(Only!NextBatch) >= BatchSize
            \/ Cardinality(zapsDue \ Only!NextBatch) <= offset
        BY <1>1, NextBatchIs
      <4> QED
        BY <1>2, <4>1, <4>2
    <3>3. Taken \in SUBSET Authors /\ Cardinality(begun) = Cardinality(zapsDue) + Cardinality(Taken)
      BY <1>1, <2>1, <3>1, Parted DEF Taken
    <3>4. Cardinality(Taken) \in Nat /\ Cardinality(zapsDue) \in Nat
      BY <1>1, <3>3, Weights
    <3>5. Cardinality(zapsDue) <= Cardinality(Taken)
      BY <1>2, <2>1, <3>1, <3>2, <3>4
    <3> QED
      BY <3>3, <3>4, <3>5
  <2> QED
    BY <1>5, <2>3, <2>4 DEF Only!TakeBatch
<1>6. CASE Only!CrawlZaps
  <2>1. /\ phase = "zaps" /\ batch # {} /\ batch' = {} /\ UNCHANGED <<phase, begun>>
        /\ offset' = offset + BatchSize /\ (clean => zapsDue \subseteq begun) /\ batch \subseteq zapsDue
    BY <1>6 DEF Only!CrawlZaps, Only!Advance, HalfWay
  <2>2. CASE zapsDue' = zapsDue \ batch /\ UNCHANGED clean
    <3> SUFFICES ASSUME clean
                 PROVE  Cardinality(Taken') >= offset' \/ Cardinality(zapsDue') <= Cardinality(Taken')
      BY <2>1, <2>2 DEF HalfWay
    <3> DEFINE T == Cardinality(Taken)
               D == Cardinality(zapsDue)
               N == Cardinality(batch)
               R == Cardinality(zapsDue \ batch)
    <3>1. D = R + N /\ R \in Nat /\ N \in Nat
      <4>1. zapsDue \ batch \in SUBSET Authors /\ batch \in SUBSET Authors
        BY <1>1, <2>1
      <4> QED
        BY <1>1, <2>1, <4>1, Parted, Weights
    <3>2. Cardinality(Taken') = T + N /\ T \in Nat
      <4>1. Taken' = Taken \cup batch /\ Taken \cap batch = {}
        BY <2>1, <2>2 DEF Taken
      <4>2. Taken \in SUBSET Authors /\ batch \in SUBSET Authors
        BY <1>1, <2>1 DEF Taken
      <4>3. IsFiniteSet(Taken) /\ IsFiniteSet(batch) /\ T \in Nat /\ N \in Nat
        BY <4>2, Weights
      <4>4. Cardinality(Taken \cup batch) = T + N - Cardinality(Taken \cap batch)
        BY <4>3, FS_Union
      <4>5. Cardinality(Taken \cap batch) = 0
        BY <4>1, FS_EmptySet
      <4> HIDE DEF T, N
      <4>6. Cardinality(Taken \cup batch) = T + N
        BY <4>3, <4>4, <4>5
      <4> QED
        BY <4>1, <4>3, <4>6
    <3>3. T >= offset \/ D <= T
      BY <2>1 DEF HalfWay
    <3>4. N >= BatchSize \/ R <= offset
      BY <2>1 DEF HalfWay
    <3>5. Cardinality(zapsDue') = R
      BY <2>2
    <3> HIDE DEF T, D, N, R
    <3> QED
      BY <1>2, <2>1, <3>1, <3>2, <3>3, <3>4, <3>5
  <2>3. CASE clean' = FALSE /\ UNCHANGED zapsDue
    BY <2>1, <2>3 DEF HalfWay
  <2> QED
    BY <1>6, <2>2, <2>3 DEF Only!CrawlZaps
<1>7. CASE Only!Redeploy \/ Only!Die
  <2>1. phase' = "off" /\ begun' = {} /\ batch' = {}
    BY <1>7 DEF Only!Redeploy, Only!Die, Only!Stop
  <2> QED
    BY <2>1 DEF HalfWay
<1>8. CASE Only!MarkAuthor \/ \E r \in Pinned : Only!SyncAuthor(r)
  <2>1. phase = "notes" /\ UNCHANGED <<phase, begun, batch>>
    BY <1>8 DEF Only!MarkAuthor, Only!SyncAuthor, Only!visit
  <2> QED
    BY <2>1 DEF HalfWay
<1>9. ASSUME NEW a \in Authors, Only!Age(a)
      PROVE  HalfWay'
  <2>1. UNCHANGED <<phase, begun, batch, offset>>
    BY <1>9 DEF Only!Age
  <2>2. CASE UNCHANGED <<zapsDue, clean>>
    BY <2>1, <2>2 DEF HalfWay, Taken
  <2>3. CASE zapsDue' = zapsDue \cup {a} /\ phase \notin {"zaps", "over"}
    BY <2>1, <2>3 DEF HalfWay
  <2>4. CASE zapsDue' = zapsDue \cup {a} /\ ~clean' /\ phase \in {"zaps", "over"}
    BY <2>1, <2>4 DEF HalfWay
  <2> QED
    BY <1>9, <2>2, <2>3, <2>4 DEF Only!Age
<1> QED
  BY <1>3, <1>4, <1>5, <1>6, <1>7, <1>8, <1>9 DEF Only!Next, Only!Work

-----------------------------------------------------------------------------
(* Whichever of the two runs *)

ModesInv == Ind /\ OnlyTypes /\ HalfWay

LEMMA ModesKeep == ModesInv /\ [ModesNext]_allVars => ModesInv'
<1> SUFFICES ASSUME ModesInv, [ModesNext]_allVars PROVE ModesInv'
  OBVIOUS
<1> USE DEF ModesInv
<1>1. faults \in 0 .. MaxFaults
  BY DEF Ind, TypeOK
<1>2. UNCHANGED hybridVars /\ faults' \in 0 .. MaxFaults => Ind'
  <2> SUFFICES ASSUME UNCHANGED hybridVars, faults' \in 0 .. MaxFaults PROVE Ind'
    OBVIOUS
  <2>1. UNCHANGED <<now, held, stored, caps, row, pc, todo, at, kind, start, copy, cursor, window, done, reach, lost>>
    BY DEF hybridVars, envVars, syncVars
  <2>2. TypeOK'
    BY <2>1 DEF Ind, TypeOK
  <2>3. (Visit /\ Recent /\ Below /\ Walked)'
    BY <2>1 DEF Ind, Visit, Visiting, Recent, Below, Walked, Accounted, AccountedFor, Goal, Yesterday
  <2> QED
    BY <2>2, <2>3 DEF Ind
<1>3. UNCHANGED onlyVars /\ faults' \in 0 .. MaxFaults => OnlyTypes' /\ HalfWay'
  BY DEF onlyVars, OnlyTypes, Only!TypeOK, HalfWay, Taken
<1>4. CASE UNCHANGED allVars
  BY <1>1, <1>2, <1>3, <1>4 DEF allVars
<1>5. CASE Next /\ UNCHANGED onlyVars
  <2>1. Ind'
    BY <1>5, TypeNext, VisitNext, RecentNext, BelowNext, WalkedNext DEF Ind
  <2>2. faults' \in 0 .. MaxFaults
    BY <2>1 DEF Ind, TypeOK
  <2> QED
    BY <1>3, <1>5, <2>1, <2>2
<1>6. CASE Only!Next /\ UNCHANGED hybridVars
  <2>1. OnlyTypes' /\ HalfWay'
    BY <1>6, OnlyTypesNext, HalfWayNext
  <2>2. faults' \in 0 .. MaxFaults
    BY <2>1 DEF OnlyTypes, Only!TypeOK
  <2> QED
    BY <1>2, <1>6, <2>1, <2>2
<1> QED
  BY <1>4, <1>5, <1>6 DEF ModesNext

LEMMA ModesInvariant == ModesSpec => []ModesInv
<1>1. ModesInit => ModesInv
  BY FirstState, OnlyFirst DEF ModesInit, ModesInv, Ind
<1> QED
  BY <1>1, ModesKeep, PTL DEF ModesSpec

\* TypeCorrect, for both crawlers and whichever of them CRAWL_MODE starts.
THEOREM ModesTypeCorrect == ModesSpec => []TypesOK
<1>1. ModesInv => TypesOK
  BY DEF ModesInv, Ind, OnlyTypes, TypesOK
<1> QED
  BY <1>1, ModesInvariant, PTL

\* WalkAccounted, when the other crawler may be the one that runs.
THEOREM ModesWalkAccounted == ModesSpec => []WalkIsAccounted
<1>1. ModesInv => WalkIsAccounted
  BY BelowShows DEF ModesInv, Ind
<1> QED
  BY <1>1, ModesInvariant, PTL

\* The sync cursors implement Coverage, whichever crawler runs: they claim what relays
\* have, never less than before, and only what is stored or lost for a named cause.
THEOREM ModesImplement == ModesSpec => ImplementsCoverage
<1>1. ModesInv /\ NoHigher /\ [ModesNext]_allVars => NoHigher' /\ [Covers!Progress]_(Covers!vars)
  <2> SUFFICES ASSUME ModesInv, NoHigher, [ModesNext]_allVars
               PROVE  NoHigher' /\ [Covers!Progress]_(Covers!vars)
    OBVIOUS
  <2>1. ModesInv'
    BY ModesKeep
  <2>2. CASE Next
    BY <2>1, <2>2, NoHigherNext, StepCovers DEF ModesInv, Ind
  <2>3. CASE UNCHANGED hybridVars
    <3>1. UNCHANGED <<held, stored, row, pc, copy, cursor, reach, lost>>
      BY <2>3 DEF hybridVars, envVars, syncVars
    <3>2. NoHigher'
      BY <3>1 DEF NoHigher, Backfilling
    <3>3. UNCHANGED <<Claimed, HadBy, Excused>>
      BY <3>1 DEF Claimed, ClaimedOf, HadBy, Excused, Backfilling
    <3> QED
      BY <3>2, <3>3 DEF Covers!vars
  <2> QED
    BY <2>2, <2>3 DEF ModesNext, allVars
<1>2. ModesInit => Covers!Init /\ NoHigher
  BY CoversFirst DEF ModesInit
<1> QED
  BY <1>1, <1>2, ModesInvariant, PTL DEF ModesSpec, ImplementsCoverage, Covers!Spec

\* However many authors are due and however long a batch is (negentropy_only.rs:330): a
\* zap pass in which no statement failed takes at least half of the authors it began
\* with, though OFFSET steps over as many as it has just marked.
THEOREM TakesHalf == ModesSpec => []OnlyTakesHalf
<1>1. ModesInv => OnlyTakesHalf
  <2> SUFFICES ASSUME ModesInv, phase = "over", clean
               PROVE  2 * Cardinality(Taken) >= Cardinality(begun)
    BY OnlyCount DEF OnlyTakesHalf, Only!PassTakesHalf, Taken
  <2> QED
    BY DEF ModesInv, HalfWay
<1> QED
  BY <1>1, ModesInvariant, PTL
=============================================================================
