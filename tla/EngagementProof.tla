--------------------------- MODULE EngagementProof ----------------------------
(***************************************************************************)
(* Proofs about Engagement for any number of workers, notes, taps and      *)
(* zaps, any deliveries and any faults.                                    *)
(*                                                                         *)
(* A counter and the rows that witness it are written by different         *)
(* statements, so each bound is made inductive by adding to the rows, or   *)
(* taking from them, what the workers between two statements still carry:  *)
(* the replies not yet told to their parent (Told), the taps counted but   *)
(* not marked (Kept), the zaps with metadata and no link (Linked).     *)
(***************************************************************************)
EXTENDS Engagement, FiniteSetTheorems, TLAPS

Items == Notes \cup Taps \cup Zaps

(* The parts of the invariant *)

\* What a worker or the drain loop works on, by where it is.
WorkerJobs ==
    \A w \in Workers :
        /\ pc[w] # "idle" => job[w] \in Items
        /\ pc[w] = "refs" => job[w] \in stored
        /\ pc[w] \in {"check", "count", "mark"} => job[w] \in Taps
        /\ pc[w] \in {"meta", "link"} => job[w] \in Zaps
        /\ pc[w] = "queue" => job[w] \in Taps \cup Zaps

Waiting(n) == missing[n].priority > 0 /\ missing[n].attempts < MaxAttempts

DrainJobs ==
    /\ drain # "idle" => at \in Notes \ batch /\ Waiting(at)
    /\ drain \in {"refs", "reapply", "fetched"} => at \in stored
    /\ \A n \in batch : Waiting(n)
    /\ \A n \in Notes : missing[n].fetched => n \in stored /\ missing[n].priority > 0

Jobs == WorkerJobs /\ DrainJobs

Owes(w, m) == pc[w] = "refs" /\ job[w] = m
DrainOwes(m) == drain = "refs" /\ at = m

\* One task is to tell the parent of a note, for the row of a note is made once.
OneTeller ==
    \A m \in Notes :
        /\ \A w, x \in Workers : Owes(w, m) /\ Owes(x, m) => w = x
        /\ DrainOwes(m) => \A w \in Workers : ~Owes(w, m)

Told(n) == {m \in stored : /\ Parent[m] = n
                           /\ ~DrainOwes(m) /\ \A w \in Workers : ~Owes(w, m)}

RepliesTold == \A n \in Notes : replies[n] <= Cardinality(Told(n))

\* The taps that are marked, and those a worker has counted and not marked.
Kept(n, k) == {t \in Taps : /\ Target[t] = n /\ Kind[t] = k
                            /\ t \in seen \/ \E w \in Workers : pc[w] = "mark" /\ job[w] = t}

TapsKept ==
    \A n \in Notes, k \in Kinds :
        missing[n].priority = 0 => taps[n][k] >= Cardinality(Kept(n, k))

WorkersAt(t, s) == {w \in Workers : pc[w] = s /\ job[w] = t}

\* Before t is marked, each time it was counted leaves a worker that is to mark it, or
\* a fault; then, only those that had looked before can still count it.
TapsCounted ==
    \A t \in Taps :
        /\ t \notin seen => counted[t] <= faults + Cardinality(WorkersAt(t, "mark"))
        /\ t \in seen => counted[t] + Cardinality(WorkersAt(t, "count")) <= faults + Cardinality(Workers)

\* Zaps with metadata but for those on their way to the counter, or to missing_events.
Linked(n)  == {z \in MetaFor(n) : \A w \in Workers : job[w] = z => pc[w] # "link"}
Settled(n) == {z \in MetaFor(n) : \A w \in Workers : job[w] = z => pc[w] \notin {"link", "queue"}}

ZapsLinked ==
    faults = 0 =>
        \A n \in Notes :
            /\ missing[n].priority = 0 => zaps[n] >= Cardinality(Settled(n))
            /\ missing[n].fetched \/ (drain = "fetched" /\ at = n)
                  => zaps[n] >= Cardinality(Linked(n))

-----------------------------------------------------------------------------
(* Cardinalities *)

LEMMA Larger ==
  ASSUME NEW T, IsFiniteSet(T), NEW S \in SUBSET T
  PROVE  /\ Cardinality(S) \in Nat /\ Cardinality(T) \in Nat
         /\ Cardinality(S) <= Cardinality(T)
  BY FS_Subset, FS_CardinalityType

LEMMA OneMore ==
  ASSUME NEW S, IsFiniteSet(S), NEW x, NEW T \in SUBSET (S \cup {x})
  PROVE  /\ Cardinality(S) \in Nat /\ Cardinality(T) \in Nat
         /\ Cardinality(T) <= Cardinality(S) + 1
<1>1. /\ IsFiniteSet(S \cup {x}) /\ Cardinality(S) \in Nat
      /\ Cardinality(S \cup {x}) <= Cardinality(S) + 1
  <2>1. Cardinality(S) \in Nat
    BY FS_CardinalityType
  <2>2. CASE x \in S
    <3>1. S \cup {x} = S
      BY <2>2
    <3> QED
      BY <2>1, <3>1
  <2>3. CASE x \notin S
    <3>1. IsFiniteSet(S \cup {x}) /\ Cardinality(S \cup {x}) = Cardinality(S) + 1
      BY <2>3, FS_AddElement
    <3> QED
      BY <2>1, <3>1
  <2> QED
    BY <2>2, <2>3
<1>2. /\ Cardinality(T) \in Nat /\ Cardinality(S \cup {x}) \in Nat
      /\ Cardinality(T) <= Cardinality(S \cup {x})
  BY <1>1, Larger
<1> QED
  BY <1>1, <1>2

LEMMA OneLess ==
  ASSUME NEW T, IsFiniteSet(T), NEW S \in SUBSET T, NEW x \in T, x \notin S
  PROVE  /\ Cardinality(S) \in Nat /\ Cardinality(T) \in Nat
         /\ Cardinality(S) + 1 <= Cardinality(T)
<1>1. IsFiniteSet(S) /\ Cardinality(S) \in Nat
  BY FS_Subset, FS_CardinalityType
<1>2. Cardinality(S \cup {x}) = Cardinality(S) + 1
  BY <1>1, FS_AddElement
<1>3. S \cup {x} \subseteq T
  OBVIOUS
<1> QED
  BY <1>1, <1>2, <1>3, Larger

LEMMA Finite ==
  ASSUME NEW S, S \subseteq Workers \/ S \subseteq Notes \/ S \subseteq Taps \/ S \subseteq Zaps
  PROVE  IsFiniteSet(S) /\ Cardinality(S) \in Nat
  BY EngagementAssumption, FS_Subset, FS_CardinalityType

LEMMA FirstState ==
  Init => TypeOK /\ Jobs /\ OneTeller /\ RepliesTold /\ TapsKept /\ TapsCounted /\ ZapsLinked
<1> SUFFICES ASSUME Init
             PROVE  TypeOK /\ Jobs /\ OneTeller /\ RepliesTold /\ TapsKept /\ TapsCounted /\ ZapsLinked
  OBVIOUS
<1> USE DEF Init
<1>1. TypeOK /\ Jobs /\ OneTeller
  BY EngagementAssumption
     DEF TypeOK, Jobs, WorkerJobs, DrainJobs, Waiting, Row, NoRow, Steps, Kinds, OneTeller, Owes, DrainOwes
<1>2. RepliesTold
  <2>1. \A n \in Notes : Told(n) = {}
    BY DEF Told
  <2> QED
    BY <2>1, FS_EmptySet DEF RepliesTold
<1>3. TapsKept
  <2>1. \A n \in Notes, k \in Kinds : Kept(n, k) = {}
    BY DEF Kept
  <2>2. \A n \in Notes, k \in Kinds : taps[n][k] = 0
    OBVIOUS
  <2> QED
    BY ONLY <2>1, <2>2, FS_EmptySet DEF TapsKept
<1>4. TapsCounted
  <2>1. \A t \in Taps : WorkersAt(t, "mark") = {}
    BY DEF WorkersAt
  <2> QED
    BY <2>1, FS_EmptySet DEF TapsCounted
<1>5. ZapsLinked
  <2>1. \A n \in Notes : Settled(n) = {}
    BY DEF Settled, MetaFor
  <2> QED
    <3>1. \A n \in Notes : zaps[n] = 0 /\ ~missing[n].fetched /\ drain # "fetched"
      BY DEF NoRow
    <3> QED
      BY ONLY <2>1, <3>1, FS_EmptySet DEF ZapsLinked
<1> QED
  BY <1>1, <1>2, <1>3, <1>4, <1>5

-----------------------------------------------------------------------------
(* Types *)

LEMMA Returns ==
  ASSUME TypeOK, Jobs, NEW w \in Workers, pc[w] # "idle", Return(w)
  PROVE  /\ pc' \in [Workers -> Steps] /\ job' \in [Workers -> Items \cup {None}]
         /\ done' \subseteq Taps
         /\ pc' = [pc EXCEPT ![w] = "idle"] /\ job' = [job EXCEPT ![w] = None]
  BY DEF Return, TypeOK, Jobs, WorkerJobs, DrainJobs, Waiting, Items, Steps

LEMMA Continues ==
  ASSUME TypeOK, NEW w \in Workers, NEW s \in Steps, Continue(w, s)
  PROVE  /\ pc' \in [Workers -> Steps] /\ job' \in [Workers -> Items \cup {None}]
         /\ done' \subseteq Taps
         /\ pc' = [pc EXCEPT ![w] = s] /\ job' = job
  BY DEF Continue, TypeOK, Items

\* How a statement of insert_event moves its worker.
LEMMA WorkerMoves ==
  ASSUME TypeOK, Jobs, NEW w \in Workers, Handle(w)
  PROVE  /\ pc[w] # "idle"
         /\ Return(w) \/ \E s \in Steps : Continue(w, s)
  BY DEF Handle, StoreNote, InsertRefs, CheckSeen, CountTap, MarkSeen, StoreZap, ExtractZapMetadata,
         IncrementZap, QueueMissing, Steps

LEMMA WorkTyped ==
  ASSUME TypeOK, Jobs, NEW w \in Workers, Handle(w)
  PROVE  /\ pc' \in [Workers -> Steps] /\ job' \in [Workers -> Items \cup {None}]
         /\ done' \subseteq Taps
  BY WorkerMoves, Returns, Continues

LEMMA MoreReplies ==
  ASSUME TypeOK, NEW m \in Notes, AddReply(m)
  PROVE  replies' \in [Notes -> Nat]
  BY DEF AddReply, TypeOK

LEMMA MoreFaults ==
  ASSUME TypeOK, Fault
  PROVE  faults' \in 0 .. MaxFaults
  BY EngagementAssumption DEF Fault, TypeOK

LEMMA TargetIsNote == \A x \in Taps \cup Zaps : Target[x] \in Notes
  BY EngagementAssumption

LEMMA Priorities == \A f \in [Notes -> Row] : \A n \in Notes : f[n].priority \in 0 .. 2 /\ f[n].priority \in Nat
<1> SUFFICES ASSUME NEW f \in [Notes -> Row], NEW n \in Notes
             PROVE  f[n].priority \in 0 .. 2 /\ f[n].priority \in Nat
  OBVIOUS
<1>1. f[n] \in Row
  OBVIOUS
<1> QED
  BY <1>1 DEF Row

LEMMA RowWritten ==
  ASSUME missing \in [Notes -> Row], NEW n \in Notes
  PROVE  /\ [missing EXCEPT ![n].fetched = TRUE] \in [Notes -> Row]
         /\ \A p \in 0 .. 2 : [missing EXCEPT ![n].priority = p] \in [Notes -> Row]
         /\ \A a \in 0 .. MaxAttempts : [missing EXCEPT ![n].attempts = a] \in [Notes -> Row]
  BY DEF Row

LEMMA TapAdded ==
  ASSUME TypeOK, NEW n \in Notes, NEW k \in Kinds, NEW t \in Taps
  PROVE  /\ [taps EXCEPT ![n][k] = @ + 1] \in [Notes -> [Kinds -> Nat]]
         /\ [counted EXCEPT ![t] = @ + 1] \in [Taps -> Nat]
<1>1. taps \in [Notes -> [Kinds -> Nat]] /\ taps[n][k] + 1 \in Nat /\ counted \in [Taps -> Nat]
  BY DEF TypeOK
<1> QED
  BY <1>1

LEMMA TypeNext == TypeOK /\ Jobs /\ [Next]_vars => TypeOK'
<1> SUFFICES ASSUME TypeOK, Jobs, [Next]_vars PROVE TypeOK'
  OBVIOUS
<1> USE DEF TypeOK, noteVars, rowVars, drainVars, workVars, Items
<1>1. ASSUME NEW w \in Workers, NEW x \in Admitted \cup Taps \cup Zaps, Deliver(w, x)
      PROVE  TypeOK'
  <2>1. deliveries' \in 0 .. MaxDeliveries /\ x \in Items
    BY <1>1, EngagementAssumption DEF Deliver
  <2> QED
    BY <1>1, <2>1 DEF Deliver, Steps
<1>2. ASSUME NEW w \in Workers, StoreNote(w)
      PROVE  TypeOK'
  BY <1>2, WorkTyped DEF StoreNote, Handle
<1>3. ASSUME NEW w \in Workers, InsertRefs(w)
      PROVE  TypeOK'
  <2>1. job[w] \in Notes
    BY <1>3 DEF InsertRefs, Jobs, WorkerJobs, DrainJobs, Waiting
  <2> QED
    BY <1>3, <2>1, WorkTyped, MoreReplies DEF InsertRefs, Handle
<1>4. ASSUME NEW w \in Workers, CheckSeen(w)
      PROVE  TypeOK'
  BY <1>4, WorkTyped DEF CheckSeen, Handle
<1>5. ASSUME NEW w \in Workers, CountTap(w)
      PROVE  TypeOK'
  <2>1. job[w] \in Taps /\ Target[job[w]] \in Notes /\ Kind[job[w]] \in Kinds
    BY <1>5, EngagementAssumption DEF CountTap, Jobs, WorkerJobs, DrainJobs, Waiting
  <2>2. taps' \in [Notes -> [Kinds -> Nat]] /\ counted' \in [Taps -> Nat]
    <3>1. \/ UNCHANGED <<taps, counted>>
          \/ /\ taps' = [taps EXCEPT ![Target[job[w]]][Kind[job[w]]] = @ + 1]
             /\ counted' = [counted EXCEPT ![job[w]] = @ + 1]
      BY <1>5 DEF CountTap
    <3>2. CASE UNCHANGED <<taps, counted>>
      BY <3>2
    <3>3. CASE /\ taps' = [taps EXCEPT ![Target[job[w]]][Kind[job[w]]] = @ + 1]
               /\ counted' = [counted EXCEPT ![job[w]] = @ + 1]
      <4>1. TypeOK
        OBVIOUS
      <4> QED
        BY ONLY <2>1, <3>3, <4>1, TapAdded
    <3> QED
      BY <3>1, <3>2, <3>3
  <2> QED
    BY <1>5, <2>2, WorkTyped DEF CountTap, Handle
<1>6. ASSUME NEW w \in Workers, MarkSeen(w)
      PROVE  TypeOK'
  <2>1. job[w] \in Taps
    BY <1>6 DEF MarkSeen, Jobs, WorkerJobs, DrainJobs, Waiting
  <2> QED
    BY <1>6, <2>1, WorkTyped DEF MarkSeen, Handle
<1>7. ASSUME NEW w \in Workers, StoreZap(w)
      PROVE  TypeOK'
  BY <1>7, WorkTyped DEF StoreZap, Handle
<1>8. ASSUME NEW w \in Workers, ExtractZapMetadata(w)
      PROVE  TypeOK'
  <2>1. job[w] \in Zaps
    BY <1>8 DEF ExtractZapMetadata, Jobs, WorkerJobs, DrainJobs, Waiting
  <2> QED
    BY <1>8, <2>1, WorkTyped DEF ExtractZapMetadata, Handle
<1>9. ASSUME NEW w \in Workers, IncrementZap(w)
      PROVE  TypeOK'
  <2>1. job[w] \in Zaps /\ Target[job[w]] \in Notes
    BY <1>9, TargetIsNote DEF IncrementZap, Jobs, WorkerJobs, DrainJobs, Waiting
  <2>2. zaps' \in [Notes -> Nat]
    BY <1>9, <2>1 DEF IncrementZap
  <2> QED
    BY <1>9, <2>2, WorkTyped DEF IncrementZap, Handle
<1>10. ASSUME NEW w \in Workers, QueueMissing(w)
       PROVE  TypeOK'
  <2>1. Target[job[w]] \in Notes
    BY <1>10, TargetIsNote DEF QueueMissing, Jobs, WorkerJobs, DrainJobs, Waiting
  <2>2. missing' \in [Notes -> Row]
    <3>1. CASE UNCHANGED missing
      BY <3>1
    <3>2. CASE missing' # missing
      <4> DEFINE p == IF missing[Target[job[w]]].fetched
                        \/ missing[Target[job[w]]].priority >= Priority(job[w])
                      THEN missing[Target[job[w]]].priority ELSE Priority(job[w])
      <4>1. missing' = [missing EXCEPT ![Target[job[w]]].priority = p]
        BY <1>10, <3>2 DEF QueueMissing
      <4>2. p \in 0 .. 2
        BY <2>1 DEF Priority, Row
      <4> HIDE DEF p
      <4> QED
        BY <2>1, <4>1, <4>2, RowWritten
    <3> QED
      BY <3>1, <3>2
  <2>3. faults' \in 0 .. MaxFaults
    BY <1>10, MoreFaults DEF QueueMissing
  <2> QED
    BY <1>10, <2>2, <2>3, WorkTyped DEF QueueMissing, Handle
<1>11. ASSUME NEW w \in Workers, Abandon(w)
       PROVE  TypeOK'
  BY <1>11, MoreFaults DEF Abandon, Steps
<1>12. ASSUME NEW S \in SUBSET Notes, TakeMissing(S)
       PROVE  TypeOK'
  BY <1>12 DEF TakeMissing
<1>13. ASSUME NEW n \in Notes, BeginMissing(n)
       PROVE  TypeOK'
  BY <1>13 DEF BeginMissing
<1>14. CASE FetchMissing
  BY <1>14, EngagementAssumption DEF FetchMissing
<1>15. CASE DrainRefs
  <2>1. at \in Notes
    BY <1>15 DEF DrainRefs, Jobs, WorkerJobs, DrainJobs, Waiting
  <2>2. replies' \in [Notes -> Nat]
    BY <1>15, <2>1, MoreReplies DEF DrainRefs
  <2>3. faults' \in 0 .. MaxFaults
    BY <1>15, MoreFaults DEF DrainRefs
  <2> QED
    BY <1>15, <2>2, <2>3 DEF DrainRefs
<1>16. CASE ReapplyCounters
  <2>1. at \in Notes
    BY <1>16 DEF ReapplyCounters, Jobs, WorkerJobs, DrainJobs, Waiting
  <2>2. Cardinality(MetaFor(at)) \in Nat /\ \A k \in Kinds : Cardinality(SeenFor(at, k)) \in Nat
    BY Finite DEF MetaFor, SeenFor
  <2>3. taps' \in [Notes -> [Kinds -> Nat]] /\ zaps' \in [Notes -> Nat]
    <3>1. CASE UNCHANGED <<taps, zaps>>
      BY <3>1
    <3>2. CASE /\ taps' = [taps EXCEPT ![at] = [k \in Kinds |-> Cardinality(SeenFor(at, k))]]
               /\ zaps' = [zaps EXCEPT ![at] = Cardinality(MetaFor(at))]
      BY <2>1, <2>2, <3>2
    <3> QED
      BY <1>16, <3>1, <3>2 DEF ReapplyCounters
  <2>4. faults' \in 0 .. MaxFaults
    BY <1>16, MoreFaults DEF ReapplyCounters
  <2> QED
    BY <1>16, <2>3, <2>4 DEF ReapplyCounters
<1>17. CASE MarkMissing
  <2>1. at \in Notes /\ missing[at].attempts < MaxAttempts
    BY <1>17 DEF MarkMissing, Jobs, WorkerJobs, DrainJobs, Waiting
  <2>2. missing' \in [Notes -> Row]
    <3>1. \/ UNCHANGED missing
          \/ missing' = [missing EXCEPT ![at].fetched = TRUE]
          \/ missing' = [missing EXCEPT ![at].attempts = missing[at].attempts + 1]
      BY <1>17 DEF MarkMissing
    <3>2. missing[at].attempts + 1 \in 0 .. MaxAttempts
      BY <2>1, EngagementAssumption DEF Row
    <3>3. missing \in [Notes -> Row] /\ at \in Notes
      BY <2>1
    <3>4. CASE UNCHANGED missing
      BY <3>3, <3>4
    <3>5. CASE missing' = [missing EXCEPT ![at].fetched = TRUE]
      BY ONLY <3>3, <3>5, RowWritten
    <3>6. CASE missing' = [missing EXCEPT ![at].attempts = missing[at].attempts + 1]
      BY ONLY <3>2, <3>3, <3>6, RowWritten
    <3> QED
      BY <3>1, <3>4, <3>5, <3>6
  <2>3. faults' \in 0 .. MaxFaults
    BY <1>17, MoreFaults DEF MarkMissing
  <2> QED
    BY <1>17, <2>2, <2>3 DEF MarkMissing
<1>18. CASE CrashDrain
  BY <1>18, MoreFaults DEF CrashDrain
<1>19. CASE UNCHANGED vars
  BY <1>19 DEF vars
<1> QED
  BY <1>1, <1>2, <1>3, <1>4, <1>5, <1>6, <1>7, <1>8, <1>9, <1>10, <1>11, <1>12, <1>13, <1>14, <1>15,
     <1>16, <1>17, <1>18, <1>19 DEF Next, Handle, Drain

-----------------------------------------------------------------------------
(* Who works on what *)

LEMMA WorkerJobsNext == TypeOK /\ Jobs /\ [Next]_vars => WorkerJobs'
<1> SUFFICES ASSUME TypeOK, Jobs, [Next]_vars PROVE WorkerJobs'
  OBVIOUS
<1>1. stored \subseteq stored'
  BY DEF Next, Handle, Drain, Deliver, StoreNote, InsertRefs, CheckSeen, CountTap, MarkSeen, StoreZap,
         ExtractZapMetadata, IncrementZap, QueueMissing, Abandon, TakeMissing, BeginMissing,
         FetchMissing, DrainRefs, ReapplyCounters, MarkMissing, CrashDrain, noteVars, vars
<1>2. ASSUME UNCHANGED <<pc, job>>
      PROVE  WorkerJobs'
  BY <1>1, <1>2 DEF Jobs, WorkerJobs
\* A step that moves worker w only.
<1>3. ASSUME NEW w \in Workers, pc[w] # "idle", Return(w)
      PROVE  WorkerJobs'
  BY <1>1, <1>3, Returns DEF Jobs, WorkerJobs, TypeOK
<1>4. ASSUME NEW w \in Workers, pc[w] # "idle", NEW s \in Steps, Continue(w, s),
             /\ s = "refs" => job[w] \in stored'
             /\ s \in {"check", "count", "mark"} => job[w] \in Taps
             /\ s \in {"meta", "link"} => job[w] \in Zaps
             /\ s = "queue" => job[w] \in Taps \cup Zaps
      PROVE  WorkerJobs'
  BY <1>1, <1>4 DEF Jobs, WorkerJobs, TypeOK, Continue
<1>5. ASSUME NEW w \in Workers, NEW x \in Admitted \cup Taps \cup Zaps, Deliver(w, x)
      PROVE  WorkerJobs'
  <2>1. x \in Items
    BY EngagementAssumption DEF Items
  <2> QED
    BY <1>1, <1>5, <2>1 DEF Deliver, Jobs, WorkerJobs, TypeOK
<1>6. ASSUME NEW w \in Workers, Abandon(w)
      PROVE  WorkerJobs'
  BY <1>1, <1>6 DEF Abandon, Jobs, WorkerJobs, TypeOK
<1>7. ASSUME NEW w \in Workers, StoreNote(w)
      PROVE  WorkerJobs'
  <2>1. pc[w] # "idle" /\ job[w] \in stored' /\ "refs" \in Steps
    BY <1>7 DEF StoreNote, Steps
  <2> QED
    BY <1>3, <1>4, <1>7, <2>1 DEF StoreNote
<1>8. ASSUME NEW w \in Workers, InsertRefs(w) \/ MarkSeen(w) \/ QueueMissing(w)
      PROVE  WorkerJobs'
  BY <1>3, <1>8 DEF InsertRefs, MarkSeen, QueueMissing
<1>9. ASSUME NEW w \in Workers, CheckSeen(w) \/ CountTap(w)
      PROVE  WorkerJobs'
  <2>1. pc[w] # "idle" /\ job[w] \in Taps /\ {"count", "mark", "queue"} \subseteq Steps
    BY <1>9 DEF CheckSeen, CountTap, Jobs, WorkerJobs, Steps
  <2> QED
    BY <1>3, <1>4, <1>9, <2>1 DEF CheckSeen, CountTap
<1>10. ASSUME NEW w \in Workers, StoreZap(w) \/ ExtractZapMetadata(w) \/ IncrementZap(w)
       PROVE  WorkerJobs'
  <2>1. pc[w] # "idle" /\ job[w] \in Zaps /\ {"meta", "link", "queue"} \subseteq Steps
    BY <1>10 DEF StoreZap, ExtractZapMetadata, IncrementZap, Jobs, WorkerJobs, Steps
  <2> QED
    BY <1>3, <1>4, <1>10, <2>1 DEF StoreZap, ExtractZapMetadata, IncrementZap
<1>11. Drain \/ CrashDrain \/ UNCHANGED vars => UNCHANGED <<pc, job>>
  BY DEF Drain, TakeMissing, BeginMissing, FetchMissing, DrainRefs, ReapplyCounters, MarkMissing,
         CrashDrain, vars, workVars
<1> QED
  BY <1>2, <1>5, <1>6, <1>7, <1>8, <1>9, <1>10, <1>11 DEF Next, Handle

\* What the workers do to missing_events.
LEMMA WorkersQueue ==
  ASSUME TypeOK, Jobs, NEW w \in Workers, Handle(w)
  PROVE  /\ stored \subseteq stored'
         /\ UNCHANGED drainVars
         /\ \A n \in Notes : /\ missing'[n].fetched = missing[n].fetched
                             /\ missing'[n].attempts = missing[n].attempts
                             /\ missing'[n].priority >= missing[n].priority
<1>1. CASE QueueMissing(w)
  <2>1. Target[job[w]] \in Notes
    BY <1>1, TargetIsNote DEF QueueMissing, Jobs, WorkerJobs
  <2>2. CASE UNCHANGED missing
    <3>1. \A n \in Notes : missing[n].priority \in Nat
      BY Priorities DEF TypeOK
    <3> QED
      BY <1>1, <2>2, <3>1 DEF QueueMissing, noteVars
  <2>3. CASE missing' # missing
    <3> DEFINE p == IF missing[Target[job[w]]].fetched
                      \/ missing[Target[job[w]]].priority >= Priority(job[w])
                    THEN missing[Target[job[w]]].priority ELSE Priority(job[w])
    <3>1. missing' = [missing EXCEPT ![Target[job[w]]].priority = p]
      BY <1>1, <2>3 DEF QueueMissing
    <3>2. \A n \in Notes : missing[n].priority \in Nat
      BY Priorities DEF TypeOK
    <3>3. p \in Nat /\ p >= missing[Target[job[w]]].priority
      BY <2>1, <3>2 DEF Priority
    <3> HIDE DEF p
    <3>4. /\ missing'[Target[job[w]]].priority = p
          /\ missing'[Target[job[w]]].fetched = missing[Target[job[w]]].fetched
          /\ missing'[Target[job[w]]].attempts = missing[Target[job[w]]].attempts
          /\ \A n \in Notes \ {Target[job[w]]} : missing'[n] = missing[n]
      BY <2>1, <3>1 DEF TypeOK, Row
    <3> QED
      BY <1>1, <2>1, <3>2, <3>3, <3>4 DEF QueueMissing, noteVars
  <2> QED
    BY <2>2, <2>3
<1>2. CASE ~QueueMissing(w)
  <2>1. stored \subseteq stored' /\ UNCHANGED <<missing, drainVars>>
    BY <1>2 DEF Handle, StoreNote, InsertRefs, CheckSeen, CountTap, MarkSeen, StoreZap,
                ExtractZapMetadata, IncrementZap, noteVars, rowVars
  <2>2. \A n \in Notes : missing[n].priority \in Nat
    BY Priorities DEF TypeOK
  <2>3. \A n \in Notes : missing[n].priority >= missing[n].priority
    BY <2>2
  <2> QED
    BY <2>1, <2>3
<1> QED
  BY <1>1, <1>2

LEMMA DrainJobsNext == TypeOK /\ Jobs /\ [Next]_vars => DrainJobs'
<1> SUFFICES ASSUME TypeOK, Jobs, [Next]_vars PROVE DrainJobs'
  OBVIOUS
<1> USE DEF DrainJobs, Waiting
<1>1. ASSUME NEW w \in Workers, Handle(w)
      PROVE  DrainJobs'
  <2>1. batch \subseteq Notes /\ \A n \in Notes : missing[n].priority \in Nat /\ missing'[n].priority \in Nat
    <3>1. missing \in [Notes -> Row] /\ missing' \in [Notes -> Row] /\ batch \subseteq Notes
      BY TypeNext DEF TypeOK
    <3> QED
      BY <3>1, Priorities
  <2> QED
    BY <1>1, <2>1, WorkersQueue DEF Jobs, drainVars
<1>2. ASSUME NEW w \in Workers, Abandon(w) \/ \E x \in Admitted \cup Taps \cup Zaps : Deliver(w, x)
      PROVE  DrainJobs'
  BY <1>2 DEF Abandon, Deliver, noteVars, rowVars, drainVars, Jobs
<1>3. ASSUME NEW S \in SUBSET Notes, TakeMissing(S)
      PROVE  DrainJobs'
  BY <1>3 DEF TakeMissing, Open, noteVars, rowVars, Jobs
<1>4. ASSUME NEW n \in Notes, BeginMissing(n)
      PROVE  DrainJobs'
  BY <1>4 DEF BeginMissing, noteVars, rowVars, Jobs
<1>5. CASE FetchMissing
  BY <1>5 DEF FetchMissing, rowVars, Jobs
<1>6. CASE DrainRefs \/ ReapplyCounters
  BY <1>6 DEF DrainRefs, ReapplyCounters, rowVars, Jobs
<1>7. CASE MarkMissing
  <2>1. at \in Notes /\ at \notin batch /\ drain' = "idle"
    BY <1>7 DEF MarkMissing, Jobs
  <2>2. \A n \in Notes \ {at} : missing'[n] = missing[n]
    BY <1>7 DEF MarkMissing, TypeOK, Row
  <2>3. /\ missing'[at].fetched => missing[at].fetched \/ drain = "fetched"
        /\ missing'[at].priority = missing[at].priority
    <3>1. \/ missing' = missing
          \/ drain = "fetched" /\ missing' = [missing EXCEPT ![at].fetched = TRUE]
          \/ missing' = [missing EXCEPT ![at].attempts = @ + 1]
      BY <1>7 DEF MarkMissing
    <3> QED
      BY <2>1, <3>1 DEF TypeOK, Row
  <2> QED
    BY <1>7, <2>1, <2>2, <2>3 DEF MarkMissing, noteVars, Jobs, TypeOK
<1>8. CASE CrashDrain
  BY <1>8 DEF CrashDrain, noteVars, rowVars, Jobs
<1>9. CASE UNCHANGED vars
  BY <1>9 DEF vars, noteVars, rowVars, drainVars, Jobs
<1> QED
  BY <1>1, <1>2, <1>3, <1>4, <1>5, <1>6, <1>7, <1>8, <1>9 DEF Next, Drain

-----------------------------------------------------------------------------
(* Replies *)

\* Nobody new owes a reply for an old row, and what is no longer owed was counted or given up.
LEMMA TellerNext == TypeOK /\ Jobs /\ OneTeller /\ [Next]_vars => OneTeller'
<1> SUFFICES ASSUME TypeOK, Jobs, OneTeller, [Next]_vars PROVE OneTeller'
  OBVIOUS
<1> USE DEF OneTeller, Owes, DrainOwes
\* Nobody begins to owe.
<1>1. ASSUME \A w \in Workers : pc'[w] = "refs" => pc[w] = "refs" /\ job'[w] = job[w],
             drain' = "refs" => drain = "refs" /\ at' = at
      PROVE  OneTeller'
  BY <1>1
<1>2. ASSUME NEW w \in Workers, NEW s \in Steps, s # "refs", Continue(w, s) \/ (pc[w] # "idle" /\ Return(w)),
             UNCHANGED drainVars
      PROVE  OneTeller'
  BY <1>1, <1>2, Returns DEF Continue, drainVars, TypeOK
<1>3. ASSUME NEW w \in Workers, StoreNote(w)
      PROVE  OneTeller'
  <2>1. CASE Return(w)
    BY <1>2, <1>3, <2>1 DEF StoreNote, Steps
  <2>2. CASE job[w] \notin stored /\ Continue(w, "refs")
    BY <1>3, <2>2 DEF StoreNote, Continue, drainVars, TypeOK, Jobs, WorkerJobs, DrainJobs
  <2> QED
    BY <1>3, <2>1, <2>2 DEF StoreNote
<1>4. ASSUME NEW w \in Workers, Handle(w), ~StoreNote(w)
      PROVE  OneTeller'
  <2>1. /\ pc[w] # "idle" /\ UNCHANGED drainVars
        /\ Return(w) \/ \E s \in Steps \ {"refs"} : Continue(w, s)
    BY <1>4 DEF Handle, InsertRefs, CheckSeen, CountTap, MarkSeen, StoreZap, ExtractZapMetadata,
                IncrementZap, QueueMissing, Steps
  <2>2. "idle" \in Steps
    BY DEF Steps
  <2> QED
    BY <1>2, <2>1, <2>2
<1>5. ASSUME NEW w \in Workers, Abandon(w) \/ \E x \in Admitted \cup Taps \cup Zaps : Deliver(w, x)
      PROVE  OneTeller'
  BY <1>1, <1>5 DEF Abandon, Deliver, drainVars, TypeOK
<1>6. CASE FetchMissing
  BY <1>6 DEF FetchMissing, workVars, TypeOK, Jobs, WorkerJobs
<1>7. CASE /\ UNCHANGED <<pc, job>>
           /\ drain' = "refs" => drain = "refs" /\ at' = at
  BY <1>1, <1>7
<1>8. (Drain /\ ~FetchMissing) \/ CrashDrain \/ UNCHANGED vars
        => /\ UNCHANGED <<pc, job>>
           /\ drain' = "refs" => drain = "refs" /\ at' = at
  BY DEF Drain, TakeMissing, BeginMissing, DrainRefs, ReapplyCounters, MarkMissing, CrashDrain, vars,
         workVars, drainVars
<1> QED
  BY <1>3, <1>4, <1>5, <1>6, <1>7, <1>8 DEF Next

LEMMA ToldNext == TypeOK /\ Jobs /\ OneTeller /\ RepliesTold /\ [Next]_vars => RepliesTold'
<1> SUFFICES ASSUME TypeOK, Jobs, OneTeller, RepliesTold, [Next]_vars PROVE RepliesTold'
  OBVIOUS
<1>0. TypeOK'
  BY TypeNext
\* What is told stays told.
<1>1. ASSUME stored \subseteq stored',
             \A m \in stored : /\ DrainOwes(m)' => DrainOwes(m)
                               /\ \A w \in Workers : Owes(w, m)' => Owes(w, m)
      PROVE  \A n \in Notes : Told(n) \subseteq Told(n)'
  BY <1>1 DEF Told
<1>2. ASSUME replies' = replies, \A n \in Notes : Told(n) \subseteq Told(n)'
      PROVE  RepliesTold'
  <2>1. ASSUME NEW n \in Notes
        PROVE  replies'[n] <= Cardinality(Told(n)')
    <3>1. /\ IsFiniteSet(Told(n)') /\ Told(n) \subseteq Told(n)'
          /\ replies[n] \in Nat /\ replies'[n] = replies[n]
      BY <1>0, <1>2, Finite DEF Told, TypeOK
    <3>2. replies[n] <= Cardinality(Told(n))
      BY DEF RepliesTold
    <3> QED
      BY <3>1, <3>2, Larger
  <2> QED
    BY <2>1 DEF RepliesTold
<1>3. ASSUME NEW m \in Notes, AddReply(m), \A n \in Notes : Told(n) \subseteq Told(n)',
             m \notin Told(Parent[m]), Parent[m] \in Notes => m \in Told(Parent[m])'
      PROVE  RepliesTold'
  <2>1. ASSUME NEW n \in Notes
        PROVE  replies'[n] <= Cardinality(Told(n)')
    <3>1. /\ IsFiniteSet(Told(n)') /\ Told(n) \subseteq Told(n)'
          /\ replies[n] \in Nat /\ replies[n] <= Cardinality(Told(n))
      BY <1>0, <1>3, Finite DEF Told, TypeOK, RepliesTold
    <3>2. CASE n = Parent[m]
      <4>1. Cardinality(Told(n)) + 1 <= Cardinality(Told(n)') /\ Cardinality(Told(n)) \in Nat
               /\ Cardinality(Told(n)') \in Nat
        BY <1>3, <3>1, <3>2, OneLess
      <4>2. replies'[n] <= replies[n] + 1 /\ replies'[n] \in Nat
        BY <1>0, <1>3, <3>1, <3>2 DEF AddReply, TypeOK
      <4> QED
        BY <3>1, <4>1, <4>2
    <3>3. CASE n # Parent[m]
      <4>1. replies'[n] = replies[n]
        BY <1>3, <3>3 DEF AddReply, TypeOK
      <4> QED
        BY <3>1, <4>1, Larger
    <3> QED
      BY <3>2, <3>3
  <2> QED
    BY <2>1 DEF RepliesTold
<1>4. ASSUME NEW w \in Workers, StoreNote(w)
      PROVE  RepliesTold'
  <2>1. \A m \in stored : /\ DrainOwes(m)' => DrainOwes(m)
                          /\ \A x \in Workers : Owes(x, m)' => Owes(x, m)
    BY <1>4, EngagementAssumption DEF StoreNote, Return, Continue, Owes, DrainOwes, drainVars, TypeOK
  <2> QED
    BY <1>1, <1>2, <1>4, <2>1 DEF StoreNote
<1>5. ASSUME NEW w \in Workers, InsertRefs(w)
      PROVE  RepliesTold'
  <2>1. PICK m \in stored : m = job[w] /\ Owes(w, m) /\ m \in Notes
    BY <1>5 DEF InsertRefs, Jobs, WorkerJobs, Owes, TypeOK
  <2>2. /\ stored' = stored /\ UNCHANGED drainVars /\ AddReply(m)
        /\ pc' = [pc EXCEPT ![w] = "idle"] /\ job' = [job EXCEPT ![w] = None]
    BY <1>5, <2>1 DEF InsertRefs, Return
  <2>3. /\ \A y \in stored : /\ DrainOwes(y)' => DrainOwes(y)
                             /\ \A x \in Workers : Owes(x, y)' => Owes(x, y)
        /\ ~Owes(w, m)'
    BY <2>2 DEF Owes, DrainOwes, drainVars, TypeOK
  <2>4. ~DrainOwes(m) /\ \A x \in Workers \ {w} : ~Owes(x, m)
    BY <2>1 DEF OneTeller
  <2>5. m \notin Told(Parent[m]) /\ m \in Told(Parent[m])'
    BY <2>1, <2>2, <2>3, <2>4 DEF Told
  <2> QED
    BY <1>1, <1>3, <2>1, <2>2, <2>3, <2>5
<1>6. CASE DrainRefs
  <2>1. PICK m \in stored : m = at /\ DrainOwes(m) /\ m \in Notes
    BY <1>6 DEF DrainRefs, Jobs, DrainJobs, DrainOwes, TypeOK
  <2>2. /\ stored' = stored /\ UNCHANGED <<pc, job>> /\ drain' = "reapply"
        /\ AddReply(m) \/ replies' = replies
    BY <1>6, <2>1 DEF DrainRefs, workVars
  <2>3. /\ \A y \in stored : /\ DrainOwes(y)' => DrainOwes(y)
                             /\ \A x \in Workers : Owes(x, y)' => Owes(x, y)
        /\ ~DrainOwes(m)'
    BY <2>2 DEF Owes, DrainOwes
  <2>4. \A x \in Workers : ~Owes(x, m)
    BY <2>1 DEF OneTeller
  <2>5. m \notin Told(Parent[m]) /\ m \in Told(Parent[m])'
    BY <2>1, <2>2, <2>3, <2>4 DEF Told
  <2> QED
    BY <1>1, <1>2, <1>3, <2>1, <2>2, <2>3, <2>5
<1>7. CASE FetchMissing
  <2>1. \A m \in stored : /\ DrainOwes(m)' => DrainOwes(m)
                          /\ \A x \in Workers : Owes(x, m)' => Owes(x, m)
    BY <1>7 DEF FetchMissing, Owes, DrainOwes, workVars
  <2> QED
    BY <1>1, <1>2, <1>7, <2>1 DEF FetchMissing
<1>8. ASSUME NEW w \in Workers,
             \/ Abandon(w) \/ \E x \in Admitted \cup Taps \cup Zaps : Deliver(w, x)
             \/ Handle(w) /\ ~StoreNote(w) /\ ~InsertRefs(w)
      PROVE  RepliesTold'
  <2>1. UNCHANGED <<stored, replies, drainVars>>
    BY <1>8 DEF Handle, CheckSeen, CountTap, MarkSeen, StoreZap, ExtractZapMetadata, IncrementZap,
                QueueMissing, Abandon, Deliver, noteVars
  <2>2. /\ \A x \in Workers \ {w} : pc'[x] = pc[x] /\ job'[x] = job[x]
        /\ pc'[w] # "refs"
    BY <1>8 DEF Handle, CheckSeen, CountTap, MarkSeen, StoreZap, ExtractZapMetadata, IncrementZap,
                QueueMissing, Abandon, Deliver, Return, Continue, TypeOK
  <2>3. \A m \in stored : /\ DrainOwes(m)' => DrainOwes(m)
                          /\ \A x \in Workers : Owes(x, m)' => Owes(x, m)
    BY <2>1, <2>2 DEF Owes, DrainOwes, drainVars
  <2> QED
    BY <1>1, <1>2, <2>1, <2>3
<1>9. ASSUME UNCHANGED <<stored, replies, pc, job>>, drain' = "refs" => drain = "refs" /\ at' = at
      PROVE  RepliesTold'
  <2>1. \A m \in stored : /\ DrainOwes(m)' => DrainOwes(m)
                          /\ \A x \in Workers : Owes(x, m)' => Owes(x, m)
    BY <1>9 DEF Owes, DrainOwes
  <2> QED
    BY <1>1, <1>2, <1>9, <2>1
<1>10. (Drain /\ ~FetchMissing /\ ~DrainRefs) \/ CrashDrain \/ UNCHANGED vars
         => /\ UNCHANGED <<stored, replies, pc, job>>
            /\ drain' = "refs" => drain = "refs" /\ at' = at
  BY DEF Drain, TakeMissing, BeginMissing, ReapplyCounters, MarkMissing, CrashDrain, vars, noteVars,
         workVars, drainVars
<1> QED
  BY <1>4, <1>5, <1>6, <1>7, <1>8, <1>9, <1>10 DEF Next, Handle

-----------------------------------------------------------------------------
(* Reactions and reposts *)

\* A row of missing_events is never closed by taking its priority away.
LEMMA PriorityStays ==
  TypeOK /\ Jobs /\ [Next]_vars
      => \A n \in Notes : missing'[n].priority = 0 => missing[n].priority = 0
<1> SUFFICES ASSUME TypeOK, Jobs, [Next]_vars, NEW n \in Notes, missing'[n].priority = 0
             PROVE  missing[n].priority = 0
  OBVIOUS
<1>0. missing[n].priority \in Nat
  BY Priorities DEF TypeOK
<1>1. ASSUME NEW w \in Workers, Handle(w)
      PROVE  missing[n].priority = 0
  BY <1>0, <1>1, WorkersQueue
<1>2. CASE MarkMissing
  <2>1. at \in Notes
    BY <1>2 DEF MarkMissing, Jobs, DrainJobs
  <2> QED
    <3>1. missing' = missing \/ missing' = [missing EXCEPT ![at].fetched = TRUE]
            \/ missing' = [missing EXCEPT ![at].attempts = @ + 1]
      BY <1>2 DEF MarkMissing
    <3>2. missing'[n].priority = missing[n].priority
      BY <2>1, <3>1 DEF TypeOK, Row
    <3> QED
      BY <3>2
<1>3. CASE UNCHANGED missing
  BY <1>3
<1>4. ASSUME NEW w \in Workers, Abandon(w) \/ \E x \in Admitted \cup Taps \cup Zaps : Deliver(w, x)
      PROVE  UNCHANGED missing
  BY <1>4 DEF Abandon, Deliver, rowVars
<1>5. (Drain /\ ~MarkMissing) \/ CrashDrain \/ UNCHANGED vars => UNCHANGED missing
  BY DEF Drain, TakeMissing, BeginMissing, FetchMissing, DrainRefs, ReapplyCounters, CrashDrain, vars,
         rowVars
<1> QED
  BY <1>1, <1>2, <1>3, <1>4, <1>5 DEF Next

LEMMA KeptNext == TypeOK /\ Jobs /\ TapsKept /\ [Next]_vars => TapsKept'
<1> SUFFICES ASSUME TypeOK, Jobs, TapsKept, [Next]_vars,
                    NEW n \in Notes, NEW k \in Kinds, missing'[n].priority = 0
             PROVE  taps'[n][k] >= Cardinality(Kept(n, k)')
  BY DEF TapsKept
<1>0. /\ IsFiniteSet(Kept(n, k)) /\ IsFiniteSet(Kept(n, k)')
      /\ missing[n].priority = 0
      /\ taps[n][k] >= Cardinality(Kept(n, k))
      /\ taps[n][k] \in Nat /\ taps'[n][k] \in Nat
  BY TypeNext, PriorityStays, Finite DEF Kept, TapsKept, TypeOK
<1>1. ASSUME taps'[n][k] = taps[n][k], Kept(n, k)' \subseteq Kept(n, k)
      PROVE  taps'[n][k] >= Cardinality(Kept(n, k)')
  BY <1>0, <1>1, Larger
<1>2. ASSUME NEW w \in Workers, CountTap(w)
      PROVE  taps'[n][k] >= Cardinality(Kept(n, k)')
  <2>1. PICK t \in Taps : t = job[w] /\ Target[t] \in Notes /\ Kind[t] \in Kinds
    BY <1>2, EngagementAssumption DEF CountTap, Jobs, WorkerJobs
  <2>2. /\ \A x \in Workers \ {w} : pc'[x] = pc[x]
        /\ job' = job /\ seen' = seen
    BY <1>2 DEF CountTap, Continue, TypeOK, rowVars
  <2>3. Kept(n, k)' \subseteq Kept(n, k) \cup {t}
    BY <2>1, <2>2 DEF Kept
  <2>4. CASE t \in Kept(n, k)' /\ pc'[w] = "mark"
    <3>1. Target[t] = n /\ Kind[t] = k
      BY <2>4 DEF Kept
    <3>2. taps' = [taps EXCEPT ![n][k] = @ + 1]
      BY <1>2, <2>1, <2>4, <3>1 DEF CountTap, Continue, TypeOK
    <3>3. taps'[n][k] = taps[n][k] + 1
      BY <3>2 DEF TypeOK
    <3>4. /\ Cardinality(Kept(n, k)) \in Nat /\ Cardinality(Kept(n, k)') \in Nat
          /\ Cardinality(Kept(n, k)') <= Cardinality(Kept(n, k)) + 1
      BY <1>0, <2>3, OneMore
    <3> QED
      BY <1>0, <3>3, <3>4
  <2>5. CASE pc'[w] # "mark"
    <3>1. Kept(n, k)' \subseteq Kept(n, k) /\ taps' = taps
      BY <1>2, <2>2, <2>5 DEF Kept, CountTap, Continue, TypeOK
    <3> QED
      BY <1>1, <3>1
  <2>6. CASE t \notin Kept(n, k)' /\ pc'[w] = "mark"
    <3>1. Kept(n, k)' \subseteq Kept(n, k)
      BY <2>3, <2>6
    <3>2. ~(Target[t] = n /\ Kind[t] = k)
      BY <2>1, <2>2, <2>6 DEF Kept
    <3>3. taps'[n][k] = taps[n][k]
      <4>1. taps' = [taps EXCEPT ![Target[t]][Kind[t]] = @ + 1]
        BY <1>2, <2>1, <2>6 DEF CountTap, Continue, TypeOK
      <4> QED
        BY <2>1, <3>2, <4>1 DEF TypeOK
    <3> QED
      BY <1>1, <3>1, <3>3
  <2> QED
    BY <2>4, <2>5, <2>6
<1>3. CASE ReapplyCounters
  <2>1. at \in Notes /\ n # at
    BY <1>0, <1>3 DEF ReapplyCounters, Jobs, DrainJobs, Waiting
  <2>2. taps'[n] = taps[n]
    BY <1>3, <2>1 DEF ReapplyCounters, TypeOK
  <2>3. Kept(n, k)' = Kept(n, k)
    BY <1>3 DEF ReapplyCounters, Kept, workVars, rowVars
  <2> QED
    BY <1>1, <2>2, <2>3
<1>4. ASSUME NEW w \in Workers,
             \/ Abandon(w) \/ \E x \in Admitted \cup Taps \cup Zaps : Deliver(w, x)
             \/ Handle(w) /\ ~CountTap(w)
      PROVE  taps'[n][k] >= Cardinality(Kept(n, k)')
  <2>1. /\ taps' = taps
        /\ \A x \in Workers \ {w} : pc'[x] = pc[x] /\ job'[x] = job[x]
        /\ pc'[w] # "mark"
        /\ seen' = seen \/ (pc[w] = "mark" /\ seen' = seen \cup {job[w]})
    BY <1>4 DEF Handle, StoreNote, InsertRefs, CheckSeen, MarkSeen, StoreZap, ExtractZapMetadata,
                IncrementZap, QueueMissing, Abandon, Deliver, Return, Continue, TypeOK, noteVars, rowVars
  <2>2. Kept(n, k)' \subseteq Kept(n, k)
    BY <2>1 DEF Kept
  <2> QED
    BY <1>1, <2>1, <2>2
<1>5. CASE UNCHANGED <<taps, seen, pc, job>>
  <2>1. Kept(n, k)' = Kept(n, k)
    BY <1>5 DEF Kept
  <2> QED
    BY <1>1, <1>5, <2>1
<1>6. (Drain /\ ~ReapplyCounters) \/ CrashDrain \/ UNCHANGED vars => UNCHANGED <<taps, seen, pc, job>>
  BY DEF Drain, TakeMissing, BeginMissing, FetchMissing, DrainRefs, MarkMissing, CrashDrain, vars, noteVars,
         rowVars, workVars
<1> QED
  BY <1>2, <1>3, <1>4, <1>5, <1>6 DEF Next

LEMMA CountedNext == TypeOK /\ Jobs /\ TapsCounted /\ [Next]_vars => TapsCounted'
<1> SUFFICES ASSUME TypeOK, Jobs, TapsCounted, [Next]_vars, NEW t \in Taps
             PROVE  /\ t \notin seen' => counted'[t] <= faults' + Cardinality(WorkersAt(t, "mark")')
                    /\ t \in seen' => counted'[t] + Cardinality(WorkersAt(t, "count")')
                                        <= faults' + Cardinality(Workers)
  BY DEF TapsCounted
<1> DEFINE M == WorkersAt(t, "mark")
           C == WorkersAt(t, "count")
           Bounded == /\ t \notin seen' => counted'[t] <= faults' + Cardinality(M')
                      /\ t \in seen' => counted'[t] + Cardinality(C') <= faults' + Cardinality(Workers)
<1>0. /\ M \subseteq Workers /\ M' \subseteq Workers /\ C \subseteq Workers /\ C' \subseteq Workers
      /\ \A S \in {M, M', C, C', Workers} : IsFiniteSet(S) /\ Cardinality(S) \in Nat
  BY Finite DEF WorkersAt
<1>1. /\ t \notin seen => counted[t] <= faults + Cardinality(M)
      /\ t \in seen => counted[t] + Cardinality(C) <= faults + Cardinality(Workers)
      /\ counted[t] \in Nat /\ counted'[t] \in Nat /\ faults \in Nat /\ faults' \in Nat
  BY TypeNext DEF TapsCounted, TypeOK
<1>2. \A S \in {M, M', C, C', Workers}, T \in {M, M', C, C', Workers} :
         S \subseteq T => Cardinality(S) <= Cardinality(T)
  BY <1>0, Larger
\* Steps that count nothing, mark nothing, and send nobody to count an unseen tap.
<1>3. ASSUME counted'[t] = counted[t], seen' = seen, faults' >= faults,
             M \subseteq M', t \in seen => C' \subseteq C
      PROVE  Bounded
  <2> HIDE DEF M, C
  <2>1. Cardinality(M) <= Cardinality(M') /\ (t \in seen => Cardinality(C') <= Cardinality(C))
    BY <1>2, <1>3
  <2> QED
    BY <1>0, <1>1, <1>3, <2>1
<1>4. ASSUME NEW w \in Workers, CountTap(w)
      PROVE  Bounded
  <2>1. /\ \A x \in Workers \ {w} : pc'[x] = pc[x] /\ job'[x] = job[x]
        /\ job'[w] = job[w] /\ pc[w] = "count" /\ pc'[w] \in {"mark", "queue"}
        /\ seen' = seen /\ faults' = faults
    BY <1>4 DEF CountTap, Continue, TypeOK, rowVars
  <2>2. M \subseteq M' /\ C' \subseteq C
    BY <2>1 DEF WorkersAt
  <2>3. CASE job[w] = t /\ pc'[w] = "mark"
    <3>1. counted'[t] = counted[t] + 1
      BY <1>4, <2>3 DEF CountTap, Continue, TypeOK
    <3>2. w \in M' /\ w \notin M /\ w \in C /\ w \notin C'
      BY <2>1, <2>3 DEF WorkersAt
    <3> HIDE DEF M, C
    <3>3. Cardinality(M) + 1 <= Cardinality(M') /\ Cardinality(C') + 1 <= Cardinality(C)
      BY <1>0, <2>2, <3>2, OneLess
    <3> QED
      BY <1>0, <1>1, <2>1, <3>1, <3>3
  <2>4. CASE job[w] # t \/ pc'[w] = "queue"
    <3>1. counted'[t] = counted[t]
      BY <1>4, <2>4 DEF CountTap, Continue, TypeOK
    <3> QED
      BY <1>1, <1>3, <2>1, <2>2, <3>1
  <2> QED
    BY <2>1, <2>3, <2>4
<1>5. ASSUME NEW w \in Workers, MarkSeen(w)
      PROVE  Bounded
  <2>1. /\ \A x \in Workers \ {w} : pc'[x] = pc[x] /\ job'[x] = job[x]
        /\ pc[w] = "mark" /\ pc'[w] = "idle"
        /\ seen' = seen \cup {job[w]} /\ faults' = faults /\ counted' = counted
    BY <1>5 DEF MarkSeen, Return, TypeOK
  <2>2. C' = C
    BY <2>1 DEF WorkersAt
  <2>3. CASE job[w] # t
    <3>1. M' = M
      BY <2>1, <2>3 DEF WorkersAt
    <3> HIDE DEF M, C
    <3> QED
      BY <1>1, <2>1, <2>2, <2>3, <3>1
  <2>4. CASE job[w] = t /\ t \in seen
    <3> HIDE DEF M, C
    <3> QED
      BY <1>1, <2>1, <2>2, <2>4
  <2>5. CASE job[w] = t /\ t \notin seen
    <3>1. M \cap C = {}
      BY DEF WorkersAt
    <3> HIDE DEF M, C
    <3>2. Cardinality(M \cup C) = Cardinality(M) + Cardinality(C)
      <4>1. Cardinality(M \cap C) = 0
        BY <3>1, FS_EmptySet
      <4>2. IsFiniteSet(M) /\ IsFiniteSet(C) /\ Cardinality(M) \in Nat /\ Cardinality(C) \in Nat
        BY <1>0
      <4>3. Cardinality(M \cup C) = Cardinality(M) + Cardinality(C) - Cardinality(M \cap C)
        BY ONLY <4>2, FS_Union
      <4> QED
        BY <4>1, <4>2, <4>3
    <3>3. Cardinality(M \cup C) <= Cardinality(Workers)
      BY <1>0, Larger
    <3> QED
      BY <1>0, <1>1, <2>1, <2>2, <2>5, <3>2, <3>3
  <2> QED
    BY <2>3, <2>4, <2>5
<1>6. ASSUME NEW w \in Workers, Abandon(w)
      PROVE  Bounded
  <2>1. /\ \A x \in Workers \ {w} : pc'[x] = pc[x] /\ job'[x] = job[x]
        /\ pc'[w] = "idle"
        /\ seen' = seen /\ faults' = faults + 1 /\ counted' = counted
    BY <1>6 DEF Abandon, Fault, TypeOK, rowVars
  <2>2. M \subseteq M' \cup {w} /\ C' \subseteq C
    BY <2>1 DEF WorkersAt
  <2> HIDE DEF M, C
  <2>3. Cardinality(M) <= Cardinality(M') + 1 /\ Cardinality(C') <= Cardinality(C)
    BY <1>0, <1>2, <2>2, OneMore
  <2> QED
    BY <1>0, <1>1, <2>1, <2>3
<1>7. ASSUME NEW w \in Workers,
             \/ \E x \in Admitted \cup Taps \cup Zaps : Deliver(w, x)
             \/ Handle(w) /\ ~CountTap(w) /\ ~MarkSeen(w)
      PROVE  Bounded
  <2>1. /\ \A x \in Workers \ {w} : pc'[x] = pc[x] /\ job'[x] = job[x]
        /\ pc[w] # "mark"
        /\ pc'[w] = "count" => job'[w] = job[w] /\ job[w] \notin seen
        /\ seen' = seen /\ counted' = counted
    BY <1>7 DEF Handle, StoreNote, InsertRefs, CheckSeen, StoreZap, ExtractZapMetadata, IncrementZap,
                QueueMissing, Deliver, Return, Continue, TypeOK, rowVars
  <2>2. faults' >= faults
    BY <1>1, <1>7 DEF Handle, StoreNote, InsertRefs, CheckSeen, StoreZap, ExtractZapMetadata, IncrementZap,
                QueueMissing, Deliver, Fault
  <2>3. M \subseteq M' /\ (t \in seen => C' \subseteq C)
    BY <2>1 DEF WorkersAt
  <2> QED
    BY <1>3, <2>1, <2>2, <2>3
<1>8. CASE Drain \/ CrashDrain \/ UNCHANGED vars
  <2>1. UNCHANGED <<pc, job, seen, counted>>
    BY <1>8 DEF Drain, TakeMissing, BeginMissing, FetchMissing, DrainRefs, ReapplyCounters, MarkMissing,
                CrashDrain, vars, rowVars, workVars
  <2>2. faults' >= faults
    BY <1>1, <1>8 DEF Drain, TakeMissing, BeginMissing, FetchMissing, DrainRefs, ReapplyCounters,
                      MarkMissing, CrashDrain, vars, Fault
  <2>3. M' = M /\ C' = C
    BY <2>1 DEF WorkersAt
  <2> QED
    BY <1>3, <2>1, <2>2, <2>3
<1>9. ASSUME NEW w \in Workers, Handle(w)
      PROVE  Bounded
  BY <1>4, <1>5, <1>7, <1>9
<1> QED
  BY <1>6, <1>7, <1>8, <1>9 DEF Next

-----------------------------------------------------------------------------
(* Zaps *)

LEMMA LinkedNext == TypeOK /\ Jobs /\ ZapsLinked /\ [Next]_vars => ZapsLinked'
<1> SUFFICES ASSUME TypeOK, Jobs, ZapsLinked, [Next]_vars, faults' = 0, NEW n \in Notes
             PROVE  /\ missing'[n].priority = 0 => zaps'[n] >= Cardinality(Settled(n)')
                    /\ missing'[n].fetched \/ (drain' = "fetched" /\ at' = n)
                          => zaps'[n] >= Cardinality(Linked(n)')
  BY DEF ZapsLinked
<1> DEFINE L == Linked(n)
           S == Settled(n)
           closing  == missing[n].fetched \/ (drain = "fetched" /\ at = n)
           Complete == /\ missing'[n].priority = 0 => zaps'[n] >= Cardinality(S')
                       /\ closing' => zaps'[n] >= Cardinality(L')
<1>0. /\ L \subseteq Zaps /\ L' \subseteq Zaps /\ S \subseteq Zaps /\ S' \subseteq Zaps
      /\ \A T \in {L, L', S, S'} : IsFiniteSet(T) /\ Cardinality(T) \in Nat
  <2>1. zapMeta \subseteq Zaps /\ zapMeta' \subseteq Zaps
    BY TypeNext DEF TypeOK
  <2> QED
    BY <2>1, Finite DEF Linked, Settled, MetaFor
<1>1. /\ faults' = faults + 1 \/ faults' = faults
      /\ faults \in Nat /\ zaps[n] \in Nat /\ zaps'[n] \in Nat
  <2>1. faults \in Nat /\ zaps[n] \in Nat /\ zaps'[n] \in Nat
    BY TypeNext DEF TypeOK
  <2>2. faults' = faults + 1 \/ faults' = faults
    BY DEF Next, Handle, Drain, Deliver, StoreNote, InsertRefs, CheckSeen, CountTap, MarkSeen, StoreZap,
         ExtractZapMetadata, IncrementZap, QueueMissing, Abandon, TakeMissing, BeginMissing,
         FetchMissing, DrainRefs, ReapplyCounters, MarkMissing, CrashDrain, Fault, vars
  <2> QED
    BY <2>1, <2>2
<1>2. /\ faults = 0 /\ faults' = faults
      /\ missing[n].priority = 0 => zaps[n] >= Cardinality(S)
      /\ closing => zaps[n] >= Cardinality(L)
      /\ missing'[n].priority = 0 => missing[n].priority = 0
  BY <1>1, PriorityStays DEF ZapsLinked
\* Steps that leave the counter alone and let no zap arrive.
<1>3. ASSUME zaps'[n] = zaps[n], missing'[n].priority = 0 => S' \subseteq S, L' \subseteq L,
             closing' => closing
      PROVE  Complete
  <2> HIDE DEF L, S, closing
  <2>1. /\ S' \subseteq S => Cardinality(S') <= Cardinality(S)
        /\ Cardinality(L') <= Cardinality(L)
    BY <1>0, <1>3, Larger
  <2> QED
    BY <1>0, <1>1, <1>2, <1>3, <2>1
<1>4. ASSUME NEW w \in Workers, IncrementZap(w)
      PROVE  Complete
  <2>1. PICK z \in Zaps : z = job[w] /\ Target[z] \in Notes
    BY <1>4, TargetIsNote DEF IncrementZap, Jobs, WorkerJobs
  <2>2. /\ \A x \in Workers \ {w} : pc'[x] = pc[x] /\ job'[x] = job[x]
        /\ UNCHANGED <<stored, zapMeta, missing, drain, at>>
    BY <1>4 DEF IncrementZap, Return, Continue, TypeOK, rowVars, drainVars
  <2>3. S' \subseteq S \cup {z} /\ L' \subseteq L \cup {z}
    BY <2>1, <2>2 DEF Settled, Linked, MetaFor
  <2>4. CASE Target[z] # n
    <3>1. S' \subseteq S /\ L' \subseteq L
      BY <2>2, <2>3, <2>4 DEF Settled, Linked, MetaFor
    <3>2. zaps'[n] = zaps[n]
      BY <1>4, <2>1, <2>4 DEF IncrementZap, TypeOK
    <3> QED
      BY <1>3, <2>2, <3>1, <3>2
  <2>5. CASE Target[z] = n /\ n \in stored
    <3>1. zaps'[n] = zaps[n] + 1
      BY <1>4, <2>1, <2>5 DEF IncrementZap, TypeOK
    <3>2. closing' = closing /\ missing' = missing
      BY <2>2
    <3> HIDE DEF L, S, closing
    <3>3. Cardinality(S') <= Cardinality(S) + 1 /\ Cardinality(L') <= Cardinality(L) + 1
      BY <1>0, <2>3, OneMore
    <3> QED
      BY <1>0, <1>1, <1>2, <3>1, <3>2, <3>3
  <2>6. CASE Target[z] = n /\ n \notin stored
    <3>1. zaps' = zaps /\ pc'[w] = "queue" /\ job' = job
      BY <1>4, <2>1, <2>6 DEF IncrementZap, Continue, TypeOK
    <3>2. S' \subseteq S
      BY <2>1, <2>2, <2>3, <3>1 DEF Settled
    <3>3. ~closing /\ ~closing'
      BY <2>2, <2>6 DEF Jobs, DrainJobs
    <3>4. Cardinality(S') <= Cardinality(S)
      BY <1>0, <3>2, Larger
    <3> HIDE DEF L, S, closing
    <3> QED
      BY <1>0, <1>1, <1>2, <2>2, <3>1, <3>3, <3>4
  <2> QED
    BY <2>4, <2>5, <2>6
<1>5. ASSUME NEW w \in Workers, QueueMissing(w)
      PROVE  Complete
  <2>1. Target[job[w]] \in Notes
    BY <1>5, TargetIsNote DEF QueueMissing, Jobs, WorkerJobs
  <2>2. /\ \A x \in Workers \ {w} : pc'[x] = pc[x] /\ job'[x] = job[x]
        /\ pc[w] = "queue" /\ pc'[w] = "idle"
        /\ UNCHANGED <<zaps, zapMeta, drain, at>>
        /\ missing'[n].fetched = missing[n].fetched
    BY <1>5, WorkersQueue DEF QueueMissing, Return, TypeOK, noteVars, drainVars, Handle
  <2>3. L' \subseteq L /\ (closing' => closing)
    BY <2>2 DEF Linked, MetaFor
  <2>4. ASSUME missing'[n].priority = 0
        PROVE  S' \subseteq S
    <3>1. CASE Target[job[w]] # n
      BY <2>2, <3>1 DEF Settled, MetaFor
    <3>2. CASE Target[job[w]] = n
      <4>1. missing[n].priority = 0 /\ ~missing[n].fetched
        BY <1>2, <2>4 DEF Jobs, DrainJobs
      <4>2. missing' = [missing EXCEPT ![n].priority = Priority(job[w])]
        <5>1. ~(0 >= Priority(job[w]))
          BY DEF Priority
        <5> QED
          BY <1>1, <1>2, <1>5, <3>2, <4>1, <5>1 DEF QueueMissing, Fault
      <4>3. missing'[n].priority = Priority(job[w])
        BY <4>2 DEF TypeOK, Row
      <4> QED
        BY <2>4, <4>3 DEF Priority
    <3> QED
      BY <3>1, <3>2
  <2> QED
    BY <1>3, <2>2, <2>3, <2>4
<1>6. ASSUME NEW w \in Workers,
             \/ \E x \in Admitted \cup Taps \cup Zaps : Deliver(w, x)
             \/ Handle(w) /\ ~IncrementZap(w) /\ ~QueueMissing(w)
      PROVE  Complete
  <2>1. /\ \A x \in Workers \ {w} : pc'[x] = pc[x] /\ job'[x] = job[x]
        /\ pc[w] \notin {"link", "queue"}
        /\ zapMeta' = zapMeta \/ (zapMeta' = zapMeta \cup {job[w]} /\ pc'[w] = "link" /\ job' = job)
        /\ UNCHANGED <<zaps, missing, drain, at>>
    BY <1>6 DEF Handle, StoreNote, InsertRefs, CheckSeen, CountTap, MarkSeen, StoreZap, ExtractZapMetadata,
                Deliver, Return, Continue, TypeOK, noteVars, rowVars, drainVars
  <2>2. S' \subseteq S /\ L' \subseteq L
    BY <2>1 DEF Settled, Linked, MetaFor
  <2> QED
    BY <1>3, <2>1, <2>2
<1>7. CASE ReapplyCounters
  <2>1. at \in Notes /\ zaps' = [zaps EXCEPT ![at] = Cardinality(MetaFor(at))]
    BY <1>1, <1>2, <1>7 DEF ReapplyCounters, Fault, Jobs, DrainJobs
  <2>2. S' = S /\ L' = L /\ UNCHANGED <<missing, at>>
    BY <1>7 DEF ReapplyCounters, Settled, Linked, MetaFor, rowVars, workVars
  <2>3. CASE n = at
    <3>1. zaps'[n] = Cardinality(MetaFor(n))
      BY <2>1, <2>3 DEF TypeOK
    <3>2. S \subseteq MetaFor(n) /\ L \subseteq MetaFor(n) /\ IsFiniteSet(MetaFor(n))
      BY Finite DEF Settled, Linked, MetaFor, TypeOK
    <3>3. Cardinality(S) <= Cardinality(MetaFor(n)) /\ Cardinality(L) <= Cardinality(MetaFor(n))
      BY <3>2, Larger
    <3>4. zaps'[n] >= Cardinality(S') /\ zaps'[n] >= Cardinality(L')
      BY ONLY <2>2, <3>1, <3>3
    <3> QED
      BY <3>4
  <2>4. CASE n # at
    <3>1. zaps'[n] = zaps[n] /\ (closing' => closing)
      BY <2>1, <2>2, <2>4 DEF TypeOK
    <3> QED
      BY <1>3, <2>2, <3>1
  <2> QED
    BY <2>3, <2>4
<1>8. CASE MarkMissing
  <2>1. at \in Notes /\ S' = S /\ L' = L /\ zaps' = zaps /\ drain' = "idle"
    BY <1>8 DEF MarkMissing, Settled, Linked, MetaFor, noteVars, workVars, Jobs, DrainJobs
  <2>2. closing' => closing
    <3>1. \/ missing' = missing
          \/ drain = "fetched" /\ missing' = [missing EXCEPT ![at].fetched = TRUE]
          \/ missing' = [missing EXCEPT ![at].attempts = @ + 1]
      BY <1>8 DEF MarkMissing
    <3>2. CASE n = at
      BY <2>1, <3>1, <3>2 DEF TypeOK, Row
    <3>3. CASE n # at
      BY <2>1, <3>1, <3>3 DEF TypeOK, Row
    <3> QED
      BY <3>2, <3>3
  <2> QED
    BY <1>3, <2>1, <2>2
<1>9. CASE /\ UNCHANGED <<zaps, zapMeta, pc, job, missing>>
           /\ drain' = "fetched" => drain = "fetched" /\ at' = at
  <2>1. S' = S /\ L' = L /\ (closing' => closing)
    BY <1>9 DEF Settled, Linked, MetaFor
  <2> QED
    BY <1>3, <1>9, <2>1
<1>10. (Drain /\ ~ReapplyCounters /\ ~MarkMissing) \/ UNCHANGED vars
         => /\ UNCHANGED <<zaps, zapMeta, pc, job, missing>>
            /\ drain' = "fetched" => drain = "fetched" /\ at' = at
  BY DEF Drain, TakeMissing, BeginMissing, FetchMissing, DrainRefs, vars, noteVars, rowVars, workVars,
         drainVars
<1>11. ~CrashDrain /\ \A w \in Workers : ~Abandon(w)
  BY <1>1, <1>2 DEF CrashDrain, Abandon, Fault
<1>12. ASSUME NEW w \in Workers, Handle(w)
       PROVE  Complete
  BY <1>4, <1>5, <1>6, <1>12
<1> QED
  BY <1>6, <1>7, <1>8, <1>9, <1>10, <1>11, <1>12 DEF Next

-----------------------------------------------------------------------------
(* Theorems *)

Ind == TypeOK /\ Jobs /\ OneTeller /\ RepliesTold /\ TapsKept /\ TapsCounted /\ ZapsLinked

LEMMA Inductive == Spec => []Ind
<1>1. Init => Ind
  BY FirstState DEF Ind
<1>2. Ind /\ [Next]_vars => Ind'
  BY TypeNext, WorkerJobsNext, DrainJobsNext, TellerNext, ToldNext, KeptNext, CountedNext, LinkedNext
     DEF Ind, Jobs
<1> QED
  BY <1>1, <1>2, PTL DEF Spec

\* Every variable keeps its type, the attempts of a row of missing_events too.
THEOREM TypeCorrect == Spec => []TypeOK
BY Inductive, PTL DEF Ind

\* insert_refs counts a reply at most once, however many tasks bring it, and whatever fails.
THEOREM CountedOnce == Spec => []ReplyCountedOnce
<1>1. TypeOK /\ RepliesTold => ReplyCountedOnce
  <2> SUFFICES ASSUME TypeOK, RepliesTold, NEW n \in Notes
               PROVE  replies[n] <= Cardinality({m \in stored : Parent[m] = n})
    BY DEF ReplyCountedOnce
  <2> DEFINE all == {m \in stored : Parent[m] = n}
  <2>1. /\ IsFiniteSet(all) /\ Told(n) \subseteq all
        /\ replies[n] \in Nat /\ replies[n] <= Cardinality(Told(n))
    BY Finite DEF Told, TypeOK, RepliesTold
  <2> HIDE DEF all
  <2>2. /\ Cardinality(Told(n)) \in Nat /\ Cardinality(all) \in Nat
        /\ Cardinality(Told(n)) <= Cardinality(all)
    BY <2>1, Larger
  <2>3. replies[n] <= Cardinality(all)
    BY <2>1, <2>2
  <2> QED
    BY <2>3 DEF all
<1> QED
  BY <1>1, Inductive, PTL DEF Ind

\* What is in seen_events was counted, unless the drain loop rewrites the counters.
THEOREM TapsNotLost == Spec => []NoTapLost
<1>1. TypeOK /\ TapsKept => NoTapLost
  <2> SUFFICES ASSUME TypeOK, TapsKept, NEW n \in Notes, NEW k \in Kinds, missing[n].priority = 0
               PROVE  taps[n][k] >= Cardinality(SeenFor(n, k))
    BY DEF NoTapLost
  <2>1. /\ IsFiniteSet(Kept(n, k)) /\ SeenFor(n, k) \subseteq Kept(n, k)
        /\ taps[n][k] \in Nat /\ taps[n][k] >= Cardinality(Kept(n, k))
    BY Finite DEF Kept, SeenFor, TypeOK, TapsKept
  <2>2. /\ Cardinality(SeenFor(n, k)) \in Nat /\ Cardinality(Kept(n, k)) \in Nat
        /\ Cardinality(SeenFor(n, k)) <= Cardinality(Kept(n, k))
    BY <2>1, Larger
  <2> QED
    BY <2>1, <2>2
<1> QED
  BY <1>1, Inductive, PTL DEF Ind

\* A tap is counted once for each worker that handles it before it is marked, and once
\* more for each fault that kept it from being marked.
THEOREM TapsBounded == Spec => []TapCountedBounded
<1>1. TypeOK /\ TapsCounted => TapCountedBounded
  <2> SUFFICES ASSUME TypeOK, TapsCounted, NEW t \in Taps
               PROVE  counted[t] <= Cardinality(Workers) + faults
    BY DEF TapCountedBounded
  <2>1. /\ counted[t] \in Nat /\ faults \in Nat /\ Cardinality(Workers) \in Nat
        /\ Cardinality(WorkersAt(t, "count")) \in Nat /\ Cardinality(WorkersAt(t, "mark")) \in Nat
        /\ Cardinality(WorkersAt(t, "mark")) <= Cardinality(Workers)
    BY Finite, Larger DEF WorkersAt, TypeOK
  <2> QED
    BY <2>1 DEF TapsCounted
<1> QED
  BY <1>1, Inductive, PTL DEF Ind

\* Without faults the zap counter is complete whenever nothing is under way for the note.
THEOREM ZapsNotLost == Spec => []NoZapLost
<1>1. TypeOK /\ ZapsLinked => NoZapLost
  <2> SUFFICES ASSUME TypeOK, ZapsLinked, NEW n \in stored, faults = 0, ~Zapping(n),
                      missing[n].priority = 0 \/ missing[n].fetched
               PROVE  zaps[n] >= Cardinality(MetaFor(n))
    BY DEF NoZapLost
  <2>1. Linked(n) = MetaFor(n) /\ Settled(n) = MetaFor(n)
    BY DEF Linked, Settled, MetaFor, Zapping, TypeOK
  <2> QED
    BY <2>1 DEF ZapsLinked, TypeOK
<1> QED
  BY <1>1, Inductive, PTL DEF Ind
=============================================================================
