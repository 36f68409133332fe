--------------------------- MODULE ModerationProof ----------------------------
(***************************************************************************)
(* Proofs about Moderation for any number of pubkeys, notes, writers and   *)
(* requests, any thread and any batch size.                                *)
(*                                                                         *)
(* MemoryIsTable speaks of pubkeys without a request: it holds because a   *)
(* request that is alone knows what it has done so far (Orderly).          *)
(* PurgedStaysPurged rests on what the block in memory is worth:           *)
(* insertions under way are those escaped lists (Escaping), so that once a *)
(* purge has seen nothing left, nothing else can come (Cleaned).  And      *)
(* ReplyDrift adds up Root's count with what is still to be added to it    *)
(* (Owing) and what is staged to be taken off (minus): see Drift.          *)
(***************************************************************************)
EXTENDS Moderation, FiniteSetTheorems, TLAPS

(* The parts of the invariant *)

\* What is at work has something to work on.
Occupied ==
  /\ \A w \in Writers : writer[w].pc # "idle" => writer[w].note \in Notes
  /\ \A a \in Admins : request[a].pc = "idle" <=> request[a].pubkey = None
  /\ \A u \in Purgers : purger[u].pc = "idle" <=> purger[u].pubkey = None

\* Where the only request for its pubkey is, it has done what it has passed.
OnTrack(a) ==
  LET p == request[a].pubkey IN
  /\ request[a].pc = "inTable"    => p \in table
  /\ request[a].pc = "inMemory"   => p \in table /\ p \in memory
  /\ request[a].pc = "outOfTable" => p \notin table

Orderly ==
  \A p \in Pubkeys \ split :
    /\ \A a, b \in Requesting(p) : a = b
    /\ \A a \in Requesting(p) : OnTrack(a)

Escaping ==
  /\ held \subseteq memory
  /\ \A w \in Writers :
       writer[w].pc # "idle" /\ Author[writer[w].note] \in memory => writer[w].note \in escaped

Clean(p)    == NotesOf(p) \cap events \subseteq escaped
InQueue(p)  == \E i \in DOMAIN queue : queue[i] = p
Serving(p)  == purger["worker"].pubkey = p /\ purger["worker"].pc # "closing"
Finished(p) == \/ status[p] = "completed"
               \/ purger["worker"].pubkey = p /\ purger["worker"].pc = "closing"

Cleaned == \A p \in held : Finished(p) => InQueue(p) \/ Serving(p) \/ Clean(p)

LEMMA FirstState ==
  Init => TypeOK /\ Occupied /\ Orderly /\ MemoryIsTable /\ Escaping /\ Cleaned
  BY ModerationAssumption
     DEF Init, TypeOK, Occupied, Orderly, Requesting, OnTrack, MemoryIsTable, InFlight, Escaping, Cleaned,
         IdleWriter, IdleRequest, IdlePurger, Purgers

-----------------------------------------------------------------------------
(* Types *)

WriterStates ==
  [Writers -> [pc: {"idle", "checked", "stored", "referenced"}, note: Notes \union {None}]]

PurgerPcs    == {"idle", "running", "selected", "staged", "closing"}
PurgerStates ==
  [Purgers -> [pc: PurgerPcs,
               pubkey: Pubkeys \union {None}, batch: SUBSET Notes, minus: SUBSET Notes]]

LEMMA WriterMoves ==
  ASSUME TypeOK, NEW w \in Writers, NEW c \in {"idle", "checked", "stored", "referenced"}
  PROVE  [writer EXCEPT ![w].pc = c] \in WriterStates
<1>1. writer \in WriterStates
  BY DEF TypeOK, WriterStates
<1> QED
  BY <1>1 DEF WriterStates

LEMMA PurgerMoves ==
  ASSUME TypeOK, NEW u \in Purgers, NEW c \in PurgerPcs,
         NEW B \in SUBSET Notes, NEW M \in SUBSET Notes
  PROVE  /\ [purger EXCEPT ![u].pc = c] \in PurgerStates
         /\ [purger EXCEPT ![u].pc = c, ![u].batch = B] \in PurgerStates
         /\ [purger EXCEPT ![u].pc = c, ![u].minus = M] \in PurgerStates
         /\ [purger EXCEPT ![u].pc = c, ![u].batch = B, ![u].minus = M] \in PurgerStates
<1>1. purger \in PurgerStates
  BY DEF TypeOK, PurgerStates, PurgerPcs
<1> QED
  BY <1>1 DEF PurgerStates

LEMMA MaxIsNat ==
  ASSUME NEW x \in Int
  PROVE  Max({0, x}) \in Nat
  <1>1. CASE x >= 0
    <2>1. Max({0, x}) = x
      BY <1>1 DEF Max
    <2> QED
      BY <1>1, <2>1
  <1>2. CASE x < 0
    <2>1. Max({0, x}) = 0
      BY <1>2 DEF Max
    <2> QED
      BY <2>1
  <1> QED
    BY <1>1, <1>2

LEMMA CountIsNat ==
  ASSUME NEW S, S \subseteq Notes \/ S \subseteq Writers
  PROVE  Cardinality(S) \in Nat
  BY ModerationAssumption, FS_Subset, FS_CardinalityType

LEMMA TypeNext == TypeOK /\ Occupied /\ [Next]_vars => TypeOK'
<1> SUFFICES ASSUME TypeOK, Occupied, [Next]_vars PROVE TypeOK'
  OBVIOUS
<1> USE DEF TypeOK, blockVars, noteVars, purgeVars, historyVars, Budget
<1>1. ASSUME NEW w \in Writers, NEW n \in Notes, CheckBlocked(w, n)
      PROVE  TypeOK'
  BY <1>1 DEF CheckBlocked
<1>2. ASSUME NEW w \in Writers, InsertEvent(w)
      PROVE  TypeOK'
  <2>1. writer[w].note \in Notes
    BY <1>2 DEF InsertEvent, Occupied
  <2>2. writer' \in [Writers -> [pc: {"idle", "checked", "stored", "referenced"},
                                 note: Notes \union {None}]]
    BY <1>2 DEF InsertEvent, IdleWriter
  <2> QED
    BY <1>2, <2>1, <2>2 DEF InsertEvent
<1>3. ASSUME NEW w \in Writers, InsertRefs(w)
      PROVE  TypeOK'
  <2>1. writer[w].note \in Notes
    BY <1>3 DEF InsertRefs, Occupied
  <2>2. RefsOf(writer[w].note) \subseteq Notes \X (Notes \union {Root}) \X {"reply", "root"}
    BY <2>1, ModerationAssumption DEF RefsOf
  <2>3. refs' \subseteq Notes \X (Notes \union {Root}) \X {"reply", "root"}
    BY <1>3, <2>2 DEF InsertRefs
  <2>4. writer' \in [Writers -> [pc: {"idle", "checked", "stored", "referenced"},
                                 note: Notes \union {None}]]
    <3>1. writer' = [writer EXCEPT ![w] = IdleWriter] \/ writer' = [writer EXCEPT ![w].pc = "referenced"]
      BY <1>3 DEF InsertRefs
    <3>2. [writer EXCEPT ![w].pc = "referenced"] \in WriterStates
      BY WriterMoves
    <3>3. [writer EXCEPT ![w] = IdleWriter] \in WriterStates
      BY DEF IdleWriter, WriterStates
    <3> QED
      BY <3>1, <3>2, <3>3 DEF WriterStates
  <2>5. over' \in Nat
    BY <1>3 DEF InsertRefs
  <2> QED
    BY <1>3, <2>3, <2>4, <2>5 DEF InsertRefs
<1>4. ASSUME NEW w \in Writers, CountReply(w)
      PROVE  TypeOK'
  BY <1>4 DEF CountReply, IdleWriter
<1>5. ASSUME NEW a \in Admins, NEW p \in Pubkeys, BlockInTable(a, p) \/ UnblockInTable(a, p)
      PROVE  TypeOK'
  <2>1. request' \in [Admins -> [pc: {"idle", "inTable", "inMemory", "outOfTable"},
                                pubkey: Pubkeys \union {None}]]
    BY <1>5 DEF BlockInTable, UnblockInTable, Open
  <2>2. split' \subseteq Pubkeys /\ table' \subseteq Pubkeys
    BY <1>5 DEF BlockInTable, UnblockInTable, Open
  <2> QED
    BY <1>5, <2>1, <2>2 DEF BlockInTable, UnblockInTable
<1>6. ASSUME NEW a \in Admins, request[a].pc # "idle"
      PROVE  request[a].pubkey \in Pubkeys
  BY <1>6 DEF Occupied
<1>7. ASSUME NEW a \in Admins, BlockInMemory(a)
      PROVE  TypeOK'
  <2>1. {writer[w].note : w \in Writing(request[a].pubkey)} \subseteq Notes
    BY DEF Writing, Occupied
  <2>2. request[a].pubkey \in Pubkeys
    BY <1>6, <1>7 DEF BlockInMemory
  <2> QED
    BY <1>7, <2>1, <2>2 DEF BlockInMemory
<1>8. ASSUME NEW a \in Admins, QueuePurge(a)
      PROVE  TypeOK'
  <2>1. request[a].pubkey \in Pubkeys
    BY <1>6, <1>8 DEF QueuePurge
  <2>2. queue' \in Seq(Pubkeys)
    BY <1>8, <2>1 DEF QueuePurge
  <2> QED
    BY <1>8, <2>1, <2>2 DEF QueuePurge, IdleRequest
<1>9. ASSUME NEW a \in Admins, UnblockInMemory(a)
      PROVE  TypeOK'
  BY <1>9 DEF UnblockInMemory, IdleRequest
<1>10. ASSUME NEW a \in Admins, AbandonRequest(a)
       PROVE  TypeOK'
  BY <1>6, <1>10 DEF AbandonRequest, IdleRequest
<1>11. CASE StartPurge
  <2>1. Head(queue) \in Pubkeys /\ Tail(queue) \in Seq(Pubkeys)
    BY <1>11 DEF StartPurge
  <2> QED
    BY <1>11, <2>1 DEF StartPurge, IdlePurger, Purgers
<1>12. ASSUME NEW p \in Pubkeys, BanAuthor(p)
       PROVE  TypeOK'
  BY <1>12 DEF BanAuthor, IdlePurger, Purgers
<1>13. ASSUME NEW u \in Purgers, SelectBatch(u)
       PROVE  TypeOK'
  <2>1. CASE NotesOf(purger[u].pubkey) \cap events = {}
    <3>1. purger' = [purger EXCEPT ![u].pc = "closing"]
      BY <1>13, <2>1 DEF SelectBatch
    <3>2. purger' \in PurgerStates
      BY <3>1, PurgerMoves DEF PurgerPcs
    <3> QED
      BY <1>13, <3>2 DEF SelectBatch, PurgerStates, PurgerPcs
  <2>2. CASE NotesOf(purger[u].pubkey) \cap events # {}
    <3>1. PICK batch \in SUBSET (NotesOf(purger[u].pubkey) \cap events) :
            purger' = [purger EXCEPT ![u].pc = "selected", ![u].batch = batch]
      BY <1>13, <2>2 DEF SelectBatch
    <3>2. batch \in SUBSET Notes
      BY <3>1
    <3>3. purger' \in PurgerStates
      BY <3>1, <3>2, PurgerMoves DEF PurgerPcs
    <3> QED
      BY <1>13, <3>3 DEF SelectBatch, PurgerStates, PurgerPcs
  <2> QED
    BY <2>1, <2>2
<1>14. ASSUME NEW u \in Purgers, StageBatch(u)
       PROVE  TypeOK'
  <2> DEFINE minus == Decrements(purger[u].batch)
             wrong == {n \in minus : ~CountsForRoot(n)
                                       \/ n \in UNION {purger[v].minus : v \in Purgers \ {u}}}
  <2>1. minus \in SUBSET Notes
    BY DEF Decrements
  <2>2. Cardinality(wrong) \in Nat
    BY <2>1, CountIsNat
  <2>3. short' = short + Cardinality(wrong)
    BY <1>14 DEF StageBatch
  <2>4. short' \in Nat
    BY <2>2, <2>3
  <2>5. purger' = [purger EXCEPT ![u].pc = "staged", ![u].minus = minus]
    BY <1>14 DEF StageBatch
  <2> HIDE DEF minus
  <2>6. purger' \in PurgerStates
    BY <2>1, <2>5, PurgerMoves DEF PurgerPcs
  <2> QED
    BY <1>14, <2>4, <2>6 DEF StageBatch, PurgerStates, PurgerPcs
<1>15. ASSUME NEW u \in Purgers, CommitBatch(u)
       PROVE  TypeOK'
  <2>1. Overlapped(u) \in Nat
    <3> DEFINE unseen == {n \in purger[u].batch \ purger[u].minus :
                            CountsForRoot(n) /\ <<n, Root, "reply">> \in refs}
               late   == {w \in Writers : writer[w].pc = "referenced" /\ writer[w].note \in purger[u].batch}
    <3>1. unseen \subseteq Notes /\ late \subseteq Writers
      OBVIOUS
    <3>2. Cardinality(unseen) \in Nat /\ Cardinality(late) \in Nat
      BY <3>1, CountIsNat
    <3>3. Overlapped(u) = Cardinality(unseen) + Cardinality(late)
      BY DEF Overlapped
    <3> HIDE DEF unseen, late
    <3> QED
      BY <3>2, <3>3
  <2>2. Cardinality(purger[u].minus) \in Nat
    BY CountIsNat
  <2>3. replyCount - Cardinality(purger[u].minus) \in Int
    BY <2>2
  <2>4. replyCount' \in Nat
    BY <1>15, <2>3, MaxIsNat DEF CommitBatch
  <2>5. purger' = [purger EXCEPT ![u].pc = "running", ![u].batch = {}, ![u].minus = {}]
    BY <1>15 DEF CommitBatch
  <2>6. purger' \in PurgerStates
    BY <2>5, PurgerMoves DEF PurgerPcs
  <2> QED
    BY <1>15, <2>1, <2>4, <2>6 DEF CommitBatch, PurgerStates, PurgerPcs
<1>16. ASSUME NEW u \in Purgers, FinishPurge(u)
       PROVE  TypeOK'
  BY <1>16 DEF FinishPurge, Report, IdlePurger
<1>17. ASSUME NEW u \in Purgers, FailPurge(u)
       PROVE  TypeOK'
  BY <1>17 DEF FailPurge, Report, IdlePurger
<1>18. CASE Restart
  <2>1. Cardinality({w \in Writers : writer[w].pc = "referenced"}) \in Nat
    BY CountIsNat
  <2> QED
    BY <1>18, <2>1 DEF Restart, IdleWriter, IdleRequest, IdlePurger, Purgers
<1>19. CASE UNCHANGED vars
  BY <1>19 DEF vars
<1>20. ASSUME NEW w \in Writers, FailWrite(w)
       PROVE  TypeOK'
  BY <1>20 DEF FailWrite, IdleWriter
<1> QED
  BY <1>1, <1>2, <1>3, <1>4, <1>5, <1>7, <1>8, <1>9, <1>10, <1>11, <1>12, <1>13, <1>14, <1>15, <1>16,
     <1>17, <1>18, <1>19, <1>20 DEF Next, Write, Serve, Purge

LEMMA OccupiedNext == TypeOK /\ Occupied /\ [Next]_vars => Occupied'
<1> SUFFICES ASSUME TypeOK, Occupied, [Next]_vars PROVE Occupied'
  OBVIOUS
<1> USE DEF TypeOK, Occupied, purgeVars, historyVars
<1>1. ASSUME NEW w \in Writers, NEW n \in Notes, CheckBlocked(w, n)
      PROVE  Occupied'
  BY <1>1 DEF CheckBlocked
<1>2. ASSUME NEW w \in Writers, Write(w) \/ FailWrite(w)
      PROVE  Occupied'
  <2>1. /\ writer[w].pc # "idle"
        /\ UNCHANGED <<request, purger>>
        /\ \/ writer' = [writer EXCEPT ![w] = IdleWriter]
           \/ \E c \in {"stored", "referenced"} : writer' = [writer EXCEPT ![w].pc = c]
    BY <1>2 DEF Write, InsertEvent, InsertRefs, CountReply, FailWrite
  <2> QED
    BY <2>1 DEF IdleWriter
<1>3. ASSUME NEW a \in Admins, NEW p \in Pubkeys, BlockInTable(a, p) \/ UnblockInTable(a, p)
      PROVE  Occupied'
  <2>1. /\ UNCHANGED <<writer, purger>>
        /\ \E c \in {"inTable", "outOfTable"} :
             request' = [request EXCEPT ![a] = [pc |-> c, pubkey |-> p]]
    BY <1>3 DEF BlockInTable, UnblockInTable, Open
  <2> QED
    BY <2>1, ModerationAssumption
<1>4. ASSUME NEW a \in Admins, Serve(a) \/ AbandonRequest(a)
      PROVE  Occupied'
  <2>1. /\ request[a].pc # "idle"
        /\ UNCHANGED <<writer, purger>>
        /\ \/ request' = [request EXCEPT ![a] = IdleRequest]
           \/ request' = [request EXCEPT ![a].pc = "inMemory"]
    BY <1>4 DEF Serve, BlockInMemory, QueuePurge, UnblockInMemory, AbandonRequest
  <2> QED
    BY <2>1 DEF IdleRequest
<1>5. CASE StartPurge
  <2>1. Head(queue) \in Pubkeys
    BY <1>5 DEF StartPurge
  <2> QED
    BY <1>5, <2>1, ModerationAssumption DEF StartPurge, IdlePurger, Purgers
<1>6. ASSUME NEW p \in Pubkeys, BanAuthor(p)
      PROVE  Occupied'
  BY <1>6, ModerationAssumption DEF BanAuthor, IdlePurger, Purgers
<1>7. ASSUME NEW u \in Purgers, Purge(u) \/ FailPurge(u)
      PROVE  Occupied'
  <2>1. /\ UNCHANGED <<writer, request>>
        /\ purger[u].pc # "idle"
        /\ \/ purger'[u] = IdlePurger
           \/ purger'[u].pc # "idle" /\ purger'[u].pubkey = purger[u].pubkey
        /\ \A v \in Purgers \ {u} : purger'[v] = purger[v]
    BY <1>7 DEF Purge, SelectBatch, StageBatch, CommitBatch, FinishPurge, FailPurge
  <2>2. \A v \in Purgers : purger'[v].pc = "idle" <=> purger'[v].pubkey = None
    <3>1. ASSUME NEW v \in Purgers, v # u
          PROVE  purger'[v].pc = "idle" <=> purger'[v].pubkey = None
      BY <2>1, <3>1
    <3>2. purger'[u].pc = "idle" <=> purger'[u].pubkey = None
      BY <2>1 DEF IdlePurger
    <3> QED
      BY <3>1, <3>2
  <2> QED
    BY <2>1, <2>2
<1>8. CASE Restart
  BY <1>8 DEF Restart, IdleWriter, IdleRequest, IdlePurger
<1>9. CASE UNCHANGED vars
  BY <1>9 DEF vars
<1> QED
  BY <1>1, <1>2, <1>3, <1>4, <1>5, <1>6, <1>7, <1>8, <1>9 DEF Next

-----------------------------------------------------------------------------
(* Memory and table *)

LEMMA OrderlyNext ==
  TypeOK /\ Occupied /\ Orderly /\ MemoryIsTable /\ [Next]_vars => Orderly' /\ MemoryIsTable'
<1> SUFFICES ASSUME TypeOK, Occupied, Orderly, MemoryIsTable, [Next]_vars
             PROVE  Orderly' /\ MemoryIsTable'
  OBVIOUS
<1> USE DEF Orderly, OnTrack, MemoryIsTable, Requesting, InFlight
<1>1. CASE UNCHANGED <<table, memory, request, split>>
  BY <1>1
<1>2. ASSUME NEW a \in Admins, NEW p \in Pubkeys, BlockInTable(a, p) \/ UnblockInTable(a, p)
      PROVE  Orderly' /\ MemoryIsTable'
  <2>1. \E c \in {"inTable", "outOfTable"} :
          /\ request' = [request EXCEPT ![a] = [pc |-> c, pubkey |-> p]]
          /\ table' = IF c = "inTable" THEN table \union {p} ELSE table \ {p}
          /\ split' = IF \A b \in Admins : request[b].pubkey # p THEN split ELSE split \union {p}
          /\ memory' = memory
          /\ request[a].pc = "idle"
    BY <1>2 DEF BlockInTable, UnblockInTable, Open
  <2>2. request[a].pubkey = None /\ None \notin Pubkeys
    BY <2>1, ModerationAssumption DEF Occupied
  <2> QED
    BY <2>1, <2>2 DEF TypeOK
<1>3. ASSUME NEW a \in Admins, request[a].pc # "idle"
      PROVE  request[a].pubkey \in Pubkeys
  BY <1>3 DEF Occupied, TypeOK
<1>4. ASSUME NEW a \in Admins, BlockInMemory(a)
      PROVE  Orderly' /\ MemoryIsTable'
  BY <1>3, <1>4 DEF BlockInMemory, TypeOK
<1>5. ASSUME NEW a \in Admins, QueuePurge(a)
      PROVE  Orderly' /\ MemoryIsTable'
  BY <1>3, <1>5, ModerationAssumption DEF QueuePurge, IdleRequest, TypeOK, blockVars
<1>6. ASSUME NEW a \in Admins, UnblockInMemory(a)
      PROVE  Orderly' /\ MemoryIsTable'
  BY <1>3, <1>6, ModerationAssumption DEF UnblockInMemory, IdleRequest, TypeOK
<1>7. ASSUME NEW a \in Admins, AbandonRequest(a)
      PROVE  Orderly' /\ MemoryIsTable'
  BY <1>3, <1>7, ModerationAssumption DEF AbandonRequest, IdleRequest, TypeOK, blockVars
<1>8. ASSUME NEW p \in Pubkeys, BanAuthor(p)
      PROVE  Orderly' /\ MemoryIsTable'
  BY <1>8 DEF BanAuthor, TypeOK
<1>9. CASE Restart
  BY <1>9, ModerationAssumption DEF Restart, IdleRequest, TypeOK
<1>10. ASSUME NEW w \in Writers, NEW n \in Notes, CheckBlocked(w, n)
       PROVE  UNCHANGED <<table, memory, request, split>>
  BY <1>10 DEF CheckBlocked, blockVars, historyVars
<1>11. ASSUME NEW w \in Writers, Write(w) \/ FailWrite(w)
       PROVE  UNCHANGED <<table, memory, request, split>>
  BY <1>11 DEF Write, InsertEvent, InsertRefs, CountReply, FailWrite, blockVars, historyVars
<1>12. ASSUME NEW u \in Purgers, Purge(u) \/ FailPurge(u)
       PROVE  UNCHANGED <<table, memory, request, split>>
  BY <1>12 DEF Purge, SelectBatch, StageBatch, CommitBatch, FinishPurge, FailPurge, blockVars, historyVars
<1>13. StartPurge \/ UNCHANGED vars => UNCHANGED <<table, memory, request, split>>
  BY DEF StartPurge, vars, blockVars, historyVars
<1> QED
  BY <1>1, <1>2, <1>4, <1>5, <1>6, <1>7, <1>8, <1>9, <1>10, <1>11, <1>12, <1>13 DEF Next, Serve

-----------------------------------------------------------------------------
(* What comes back *)

LEMMA EscapingNext == TypeOK /\ Occupied /\ Escaping /\ [Next]_vars => Escaping'
<1> SUFFICES ASSUME TypeOK, Occupied, Escaping, [Next]_vars PROVE Escaping'
  OBVIOUS
<1> USE DEF Escaping
<1>1. CASE UNCHANGED <<memory, held, writer, escaped>>
  BY <1>1
<1>2. ASSUME NEW w \in Writers, NEW n \in Notes, CheckBlocked(w, n)
      PROVE  Escaping'
  BY <1>2 DEF CheckBlocked, blockVars, historyVars, TypeOK
<1>3. ASSUME NEW w \in Writers, Write(w) \/ FailWrite(w)
      PROVE  Escaping'
  <2>1. /\ writer[w].pc # "idle"
        /\ UNCHANGED <<memory, held, escaped>>
        /\ \/ writer' = [writer EXCEPT ![w] = IdleWriter]
           \/ \E c \in {"stored", "referenced"} : writer' = [writer EXCEPT ![w].pc = c]
    BY <1>3 DEF Write, InsertEvent, InsertRefs, CountReply, FailWrite, blockVars, historyVars
  <2>2. /\ \A x \in Writers \ {w} : writer'[x] = writer[x]
        /\ writer'[w].pc = "idle" \/ writer'[w].note = writer[w].note
    BY <2>1 DEF IdleWriter, TypeOK
  <2> QED
    BY <2>1, <2>2
<1>4. ASSUME NEW a \in Admins, BlockInMemory(a)
      PROVE  Escaping'
  BY <1>4 DEF BlockInMemory, Writing
<1>5. ASSUME NEW a \in Admins, QueuePurge(a)
      PROVE  Escaping'
  BY <1>5 DEF QueuePurge, blockVars
<1>6. ASSUME NEW a \in Admins, UnblockInMemory(a)
      PROVE  Escaping'
  <2>1. \A p \in Pubkeys : p # request[a].pubkey => NotesOf(p) \cap NotesOf(request[a].pubkey) = {}
    BY DEF NotesOf
  <2> QED
    BY <1>6, <2>1 DEF UnblockInMemory, NotesOf
<1>7. CASE Restart
  BY <1>7 DEF Restart, IdleWriter
<1>8. ASSUME NEW a \in Admins, NEW p \in Pubkeys,
             BlockInTable(a, p) \/ UnblockInTable(a, p)
      PROVE  UNCHANGED <<memory, held, writer, escaped>>
  BY <1>8 DEF BlockInTable, UnblockInTable
<1>9. ASSUME NEW u \in Purgers, Purge(u) \/ FailPurge(u)
      PROVE  UNCHANGED <<memory, held, writer, escaped>>
  BY <1>9 DEF Purge, SelectBatch, StageBatch, CommitBatch, FinishPurge, FailPurge, blockVars, historyVars
<1>10. StartPurge \/ UNCHANGED vars => UNCHANGED <<memory, held, writer, escaped>>
  BY DEF StartPurge, vars, blockVars, historyVars
<1>11. ASSUME NEW p \in Pubkeys, BanAuthor(p)
       PROVE  UNCHANGED <<memory, held, writer, escaped>>
  BY <1>11 DEF BanAuthor
<1>12. ASSUME NEW a \in Admins, AbandonRequest(a)
       PROVE  UNCHANGED <<memory, held, writer, escaped>>
  BY <1>12 DEF AbandonRequest, blockVars
<1> QED
  BY <1>1, <1>2, <1>3, <1>4, <1>5, <1>6, <1>7, <1>8, <1>9, <1>10, <1>11, <1>12 DEF Next, Serve

LEMMA CleanedNext == TypeOK /\ Occupied /\ Escaping /\ Cleaned /\ [Next]_vars => Cleaned'
<1> SUFFICES ASSUME TypeOK, Occupied, Escaping, Cleaned, [Next]_vars PROVE Cleaned'
  OBVIOUS
<1> USE DEF Cleaned, Finished, InQueue, Serving, Clean
\* What does not touch the jobs, adds no note that did not escape and no pubkey to held.
<1>1. ASSUME UNCHANGED <<queue, status, purger>>, held' \subseteq held, escaped \subseteq escaped',
             \A p \in held : NotesOf(p) \cap events' \subseteq (NotesOf(p) \cap events) \union escaped
      PROVE  Cleaned'
  BY <1>1 DEF NotesOf
<1>2. ASSUME NEW w \in Writers, NEW n \in Notes, CheckBlocked(w, n)
      PROVE  Cleaned'
  BY <1>1, <1>2 DEF CheckBlocked, noteVars, purgeVars, historyVars
<1>3. ASSUME NEW w \in Writers, InsertEvent(w)
      PROVE  Cleaned'
  <2>1. writer[w].pc # "idle" /\ events' = events \union {writer[w].note}
    BY <1>3 DEF InsertEvent
  <2>2. \A p \in held : writer[w].note \in NotesOf(p) => writer[w].note \in escaped
    BY <2>1 DEF NotesOf, Escaping
  <2> QED
    BY <1>1, <1>3, <2>1, <2>2 DEF InsertEvent, purgeVars, historyVars
<1>4. ASSUME NEW w \in Writers, InsertRefs(w) \/ CountReply(w) \/ FailWrite(w)
      PROVE  Cleaned'
  BY <1>1, <1>4 DEF InsertRefs, CountReply, FailWrite, noteVars, purgeVars, historyVars
<1>5. ASSUME NEW a \in Admins,
             BlockInMemory(a) \/ UnblockInMemory(a) \/ AbandonRequest(a)
      PROVE  Cleaned'
  <2>1. CASE UnblockInMemory(a)
    <3>1. \A q \in held' : NotesOf(q) \cap escaped' = NotesOf(q) \cap escaped
      BY <2>1 DEF UnblockInMemory, NotesOf
    <3>2. UNCHANGED <<queue, status, purger, events>> /\ held' \subseteq held
      BY <2>1 DEF UnblockInMemory, noteVars, purgeVars
    <3>3. \A q \in held' : Clean(q) => Clean(q)'
      BY <3>1, <3>2 DEF NotesOf
    <3> QED
      BY <3>2, <3>3
  <2> QED
    BY <1>1, <1>5, <2>1 DEF BlockInMemory, AbandonRequest, noteVars, purgeVars
<1>6. ASSUME NEW a \in Admins, NEW p \in Pubkeys, BlockInTable(a, p) \/ UnblockInTable(a, p)
      PROVE  Cleaned'
  BY <1>1, <1>6 DEF BlockInTable, UnblockInTable, noteVars, purgeVars
<1>7. ASSUME NEW a \in Admins, QueuePurge(a)
      PROVE  Cleaned'
  <2>1. PICK p \in Pubkeys : p = request[a].pubkey
    BY <1>7 DEF QueuePurge, Occupied, TypeOK
  <2>2. /\ queue' \in Seq(Pubkeys) /\ Len(queue') = Len(queue) + 1
        /\ queue'[Len(queue) + 1] = p
        /\ \A i \in 1 .. Len(queue) : queue'[i] = queue[i]
    BY <1>7, <2>1 DEF QueuePurge, TypeOK
  <2>3. InQueue(p)' /\ \A q \in held : InQueue(q) => InQueue(q)'
    <3>1. DOMAIN queue' = 1 .. Len(queue) + 1 /\ DOMAIN queue = 1 .. Len(queue) /\ Len(queue) \in Nat
      BY <2>2 DEF TypeOK
    <3> QED
      BY <2>2, <3>1
  <2>4. held' \subseteq held \union {p}
    BY <1>7, <2>1 DEF QueuePurge
  <2>5. \A q \in Pubkeys : q # p => status'[q] = status[q]
    BY <1>7, <2>1 DEF QueuePurge, TypeOK
  <2>6. UNCHANGED <<purger, events, escaped>>
    BY <1>7 DEF QueuePurge, noteVars
  <2> QED
    BY <2>3, <2>4, <2>5, <2>6 DEF TypeOK, NotesOf
<1>8. CASE StartPurge
  <2>0. PICK p \in Pubkeys : p = Head(queue)
    BY <1>8 DEF StartPurge, TypeOK
  <2>1. /\ Len(queue) > 0 /\ queue[1] = p
        /\ \A i \in DOMAIN queue : i # 1 => i - 1 \in DOMAIN queue' /\ queue'[i - 1] = queue[i]
    BY <1>8, <2>0 DEF StartPurge, TypeOK
  <2>2. \A q \in Pubkeys : q # p /\ InQueue(q) => InQueue(q)'
    BY <2>1
  <2>3. /\ purger' = [purger EXCEPT !["worker"] = [IdlePurger EXCEPT !.pc = "running", !.pubkey = p]]
        /\ status' = [status EXCEPT ![p] = "running"]
        /\ UNCHANGED <<held, events, escaped>>
    BY <1>8, <2>0 DEF StartPurge, noteVars, historyVars
  <2>4. purger'["worker"].pubkey = p /\ purger'["worker"].pc = "running"
    BY <2>3 DEF TypeOK, Purgers, IdlePurger
  <2>5. purger["worker"].pubkey = None
    BY <1>8 DEF StartPurge, Occupied, Purgers
  <2>6. \A q \in Pubkeys : q # p => status'[q] = status[q]
    BY <2>3 DEF TypeOK
  <2>7. ASSUME NEW q \in held, Finished(q)'
        PROVE  (InQueue(q) \/ Serving(q) \/ Clean(q))'
    <3>1. CASE q = p
      BY <2>4, <3>1
    <3>2. CASE q # p
      <4>1. status[q] = "completed"
        BY <2>4, <2>6, <2>7, <3>2 DEF TypeOK
      <4> QED
        BY <2>2, <2>3, <2>5, <3>2, <4>1, ModerationAssumption DEF TypeOK, NotesOf
    <3> QED
      BY <3>1, <3>2
  <2> QED
    BY <2>3, <2>7
<1>9. ASSUME NEW p \in Pubkeys, BanAuthor(p)
      PROVE  Cleaned'
  <2>1. /\ purger'["worker"] = purger["worker"]
        /\ UNCHANGED <<queue, status, held, events, escaped>>
    BY <1>9 DEF BanAuthor, noteVars, TypeOK, Purgers
  <2> QED
    BY <2>1 DEF NotesOf
\* The tool's purge, and the worker's but for its last step.
<1>10. ASSUME NEW u \in Purgers, SelectBatch(u) \/ StageBatch(u) \/ CommitBatch(u)
       PROVE  Cleaned'
  <2>1. /\ UNCHANGED <<queue, status, held, escaped>>
        /\ events' \subseteq events
    BY <1>10 DEF SelectBatch, StageBatch, CommitBatch, noteVars, historyVars
  <2>2. CASE u # "worker"
    <3>1. purger'["worker"] = purger["worker"]
      BY <1>10, <2>2 DEF SelectBatch, StageBatch, CommitBatch, TypeOK, Purgers
    <3> QED
      BY <2>1, <3>1 DEF NotesOf
  <2>3. CASE u = "worker"
    <3>1. /\ purger'["worker"].pubkey = purger["worker"].pubkey
          /\ purger["worker"].pc # "closing"
          /\ purger'["worker"].pc = "closing" => NotesOf(purger["worker"].pubkey) \cap events = {}
      BY <1>10, <2>3 DEF SelectBatch, StageBatch, CommitBatch, TypeOK, Purgers
    <3> QED
      BY <2>1, <3>1 DEF NotesOf
  <2> QED
    BY <2>2, <2>3
<1>11. ASSUME NEW u \in Purgers, FinishPurge(u) \/ FailPurge(u)
       PROVE  Cleaned'
  <2>1. UNCHANGED <<queue, held, events, escaped>>
    BY <1>11 DEF FinishPurge, FailPurge, noteVars, historyVars
  <2>2. CASE u # "worker"
    <3>1. purger'["worker"] = purger["worker"] /\ status' = status
      BY <1>11, <2>2 DEF FinishPurge, FailPurge, Report, TypeOK, Purgers
    <3> QED
      BY <2>1, <3>1 DEF NotesOf
  <2>3. CASE u = "worker"
    <3>1. purger'["worker"].pubkey = None
      BY <1>11, <2>3 DEF FinishPurge, FailPurge, IdlePurger, TypeOK, Purgers
    <3>2. PICK p \in Pubkeys : p = purger["worker"].pubkey
      BY <1>11, <2>3 DEF FinishPurge, FailPurge, Occupied, TypeOK, Purgers
    <3>3. \A q \in Pubkeys : q # p => status'[q] = status[q]
      BY <1>11, <2>3, <3>2 DEF FinishPurge, FailPurge, Report, TypeOK
    <3>4. status'[p] = "completed" => purger["worker"].pc = "closing"
      BY <1>11, <2>3, <3>2 DEF FinishPurge, FailPurge, Report, TypeOK
    <3> QED
      BY <2>1, <3>1, <3>2, <3>3, <3>4, ModerationAssumption DEF NotesOf, TypeOK
  <2> QED
    BY <2>2, <2>3
<1>12. CASE Restart
  BY <1>12 DEF Restart
<1>13. CASE UNCHANGED vars
  BY <1>1, <1>13 DEF vars, noteVars, purgeVars, historyVars
<1> QED
  BY <1>2, <1>3, <1>4, <1>5, <1>6, <1>7, <1>8, <1>9, <1>10, <1>11, <1>12, <1>13
     DEF Next, Write, Serve, Purge

-----------------------------------------------------------------------------
(* The count of Root *)

Replies == {n \in Notes : CountsForRoot(n) /\ <<n, Root, "reply">> \in refs}
Owing   == {w \in Writers : writer[w].pc = "referenced"}
OwingOutside(B) == {w \in Owing : writer[w].note \notin B}

\* A note's refs are its own, and a purge takes off only notes of its batch.
OwnRefs  == \A r \in refs : r \in RefsOf(r[1])
OwnBatch == \A u \in Purgers : /\ purger[u].minus \subseteq purger[u].batch
                               /\ purger[u].pc # "staged" => purger[u].minus = {}

\* A note that both purges have staged is taken off twice, so a third number
\* stands between count and replies: what is staged.
NotTooLow ==
  \A u, v \in Purgers : u # v =>
    Cardinality(Replies \ (purger[u].minus \union purger[v].minus))
      + Cardinality(purger[u].minus) + Cardinality(purger[v].minus)
      <= replyCount + Cardinality(Owing) + short

\* The first conjunct is for GREATEST(0, ...): a count of 0 is not too high by
\* more than the replies that are owed to it.
NotTooHigh ==
  /\ \A B \in SUBSET Notes :
       Cardinality(OwingOutside(B)) <= Cardinality(Replies \ B) + over
  /\ replyCount + Cardinality(Owing) <= Cardinality(Replies) + over

Drift == OwnRefs /\ OwnBatch /\ NotTooLow /\ NotTooHigh

LEMMA FiniteParts ==
  ASSUME NEW S, S \subseteq Notes \/ S \subseteq Writers
  PROVE  IsFiniteSet(S) /\ Cardinality(S) \in Nat
  BY ModerationAssumption, FS_Subset, FS_CardinalityType

LEMMA Fewer ==
  ASSUME NEW S, S \subseteq Notes \/ S \subseteq Writers, NEW T \in SUBSET S
  PROVE  Cardinality(T) <= Cardinality(S)
  BY FiniteParts, FS_Subset

LEMMA Together ==
  ASSUME NEW U, IsFiniteSet(U), NEW S \in SUBSET U, NEW T \in SUBSET U
  PROVE  Cardinality(S \union T) <= Cardinality(S) + Cardinality(T)
<1>1. IsFiniteSet(S) /\ IsFiniteSet(T) /\ IsFiniteSet(S \cap T)
  BY FS_Subset
<1>2. Cardinality(S \union T) = Cardinality(S) + Cardinality(T) - Cardinality(S \cap T)
  BY <1>1, FS_Union
<1>3. Cardinality(S) \in Nat /\ Cardinality(T) \in Nat /\ Cardinality(S \cap T) \in Nat
  BY <1>1, FS_CardinalityType
<1> QED
  BY <1>2, <1>3

LEMMA Divided ==
  ASSUME NEW S \in SUBSET Notes, NEW T
  PROVE  Cardinality(S) = Cardinality(S \cap T) + Cardinality(S \ T)
<1> DEFINE A == S \cap T
           B == S \ T
<1>1. IsFiniteSet(A) /\ IsFiniteSet(B) /\ Cardinality(A) \in Nat /\ Cardinality(B) \in Nat
  BY FiniteParts
<1>2. A \union B = S /\ A \cap B = {}
  OBVIOUS
<1> HIDE DEF A, B
<1>3. Cardinality(S) = Cardinality(A) + Cardinality(B) - Cardinality(A \cap B)
  BY <1>1, <1>2, FS_Union
<1>4. Cardinality(A \cap B) = 0
  BY <1>2, FS_EmptySet
<1>5. Cardinality(S) = Cardinality(A) + Cardinality(B)
  BY <1>1, <1>3, <1>4
<1> QED
  BY <1>5 DEF A, B

\* What is staged of replies S when M is, beside O of the other purge.
LEMMA Staging ==
  ASSUME NEW S \in SUBSET Notes, NEW M \in SUBSET Notes, NEW O \in SUBSET Notes,
         NEW W \in SUBSET M, M \ (S \ O) \subseteq W
  PROVE  Cardinality(S \ (M \union O)) + Cardinality(M) <= Cardinality(S \ O) + Cardinality(W)
<1> DEFINE R == S \ O
           rest == S \ (M \union O)
<1>1. /\ R \in SUBSET Notes /\ rest \in SUBSET Notes
      /\ R \ M = rest /\ R \cap M = M \cap R /\ M \ R \in SUBSET W
  OBVIOUS
<1> HIDE DEF R, rest
<1>2. Cardinality(R) = Cardinality(M \cap R) + Cardinality(rest)
  <2>1. Cardinality(R) = Cardinality(R \cap M) + Cardinality(R \ M)
    BY <1>1, Divided
  <2> QED
    BY <1>1, <2>1
<1>3. Cardinality(M) = Cardinality(M \cap R) + Cardinality(M \ R)
  BY Divided
<1>4. Cardinality(M \ R) <= Cardinality(W)
  BY <1>1, Fewer
<1>5. /\ Cardinality(M \cap R) \in Nat /\ Cardinality(M \ R) \in Nat
      /\ Cardinality(rest) \in Nat /\ Cardinality(W) \in Nat
  BY <1>1, FiniteParts
<1>6. Cardinality(rest) + Cardinality(M) <= Cardinality(R) + Cardinality(W)
  BY <1>2, <1>3, <1>4, <1>5
<1> QED
  BY <1>6 DEF R, rest

\* ... when M is forgotten.
LEMMA Forgetting ==
  ASSUME NEW S \in SUBSET Notes, NEW M \in SUBSET Notes, NEW O \in SUBSET Notes
  PROVE  Cardinality(S \ O) <= Cardinality(S \ (M \union O)) + Cardinality(M)
<1>1. Cardinality((S \ (M \union O)) \union M)
        <= Cardinality(S \ (M \union O)) + Cardinality(M)
  BY Together, ModerationAssumption
<1>2. Cardinality(S \ O) <= Cardinality((S \ (M \union O)) \union M)
  BY Fewer
<1> QED
  BY <1>1, <1>2, FiniteParts

\* ... and when the batch B is removed.
LEMMA Removing ==
  ASSUME NEW S \in SUBSET Notes, NEW B \in SUBSET Notes, NEW M \in SUBSET B
  PROVE  Cardinality(S) <= Cardinality(S \ B) + Cardinality(M) + Cardinality((B \ M) \cap S)
<1> DEFINE U == (B \ M) \cap S
<1>1. Cardinality(S) = Cardinality(S \cap B) + Cardinality(S \ B)
  BY Divided
<1>2. Cardinality(M \union U) <= Cardinality(M) + Cardinality(U)
  BY Together, ModerationAssumption
<1>3. Cardinality(S \cap B) <= Cardinality(M \union U)
  BY Fewer
<1>4. /\ Cardinality(S \cap B) \in Nat /\ Cardinality(S \ B) \in Nat
      /\ Cardinality(M \union U) \in Nat /\ Cardinality(M) \in Nat /\ Cardinality(U) \in Nat
  BY FiniteParts
<1> HIDE DEF U
<1>5. Cardinality(S) <= Cardinality(S \ B) + Cardinality(M) + Cardinality(U)
  BY <1>1, <1>2, <1>3, <1>4
<1> QED
  BY <1>5 DEF U

LEMMA OwnNext == TypeOK /\ Occupied /\ OwnRefs /\ OwnBatch /\ [Next]_vars => OwnRefs' /\ OwnBatch'
<1> SUFFICES ASSUME TypeOK, Occupied, OwnRefs, OwnBatch, [Next]_vars PROVE OwnRefs' /\ OwnBatch'
  OBVIOUS
<1> USE DEF OwnRefs, OwnBatch
<1>1. CASE UNCHANGED <<refs, purger>>
  BY <1>1 DEF RefsOf
<1>2. ASSUME NEW w \in Writers, InsertRefs(w)
      PROVE  OwnRefs' /\ OwnBatch'
  <2>1. \A r \in RefsOf(writer[w].note) : r[1] = writer[w].note
    BY DEF RefsOf
  <2> QED
    BY <1>2, <2>1 DEF InsertRefs, purgeVars, RefsOf
<1>3. ASSUME NEW u \in Purgers, SelectBatch(u)
      PROVE  OwnRefs' /\ OwnBatch'
  <2>1. /\ refs' = refs
        /\ \A v \in Purgers \ {u} : purger'[v] = purger[v]
        /\ purger[u].minus = {} /\ purger'[u].minus = purger[u].minus
    BY <1>3 DEF SelectBatch, noteVars, TypeOK
  <2>2. OwnRefs'
    BY <2>1 DEF RefsOf
  <2>3. OwnBatch'
    BY <2>1
  <2> QED
    BY <2>2, <2>3
<1>4. ASSUME NEW u \in Purgers, StageBatch(u)
      PROVE  OwnRefs' /\ OwnBatch'
  <2>1. /\ refs' = refs
        /\ purger' = [purger EXCEPT ![u].pc = "staged", ![u].minus = Decrements(purger[u].batch)]
    BY <1>4 DEF StageBatch, noteVars
  <2>2. Decrements(purger[u].batch) \subseteq purger[u].batch
    BY DEF Decrements
  <2>3. /\ \A v \in Purgers \ {u} : purger'[v] = purger[v]
        /\ purger'[u].pc = "staged" /\ purger'[u].batch = purger[u].batch
        /\ purger'[u].minus = Decrements(purger[u].batch)
    BY <2>1 DEF TypeOK
  <2>4. OwnRefs'
    BY <2>1 DEF RefsOf
  <2>5. OwnBatch'
    BY <2>2, <2>3
  <2> QED
    BY <2>4, <2>5
<1>5. ASSUME NEW u \in Purgers, CommitBatch(u)
      PROVE  OwnRefs' /\ OwnBatch'
  <2>1. /\ refs' \subseteq refs
        /\ \A v \in Purgers \ {u} : purger'[v] = purger[v]
        /\ purger'[u].minus = {}
    BY <1>5 DEF CommitBatch, TypeOK
  <2>2. OwnRefs'
    BY <2>1 DEF RefsOf
  <2>3. OwnBatch'
    BY <2>1
  <2> QED
    BY <2>2, <2>3
<1>6. ASSUME NEW u \in Purgers, FinishPurge(u) \/ FailPurge(u)
      PROVE  OwnRefs' /\ OwnBatch'
  <2>1. /\ refs' = refs
        /\ \A v \in Purgers \ {u} : purger'[v] = purger[v]
        /\ purger'[u].minus = {}
    BY <1>6 DEF FinishPurge, FailPurge, IdlePurger, TypeOK, noteVars
  <2>2. OwnRefs'
    BY <2>1 DEF RefsOf
  <2>3. OwnBatch'
    BY <2>1
  <2> QED
    BY <2>2, <2>3
<1>7. CASE StartPurge \/ Restart
  <2>1. refs' = refs /\ \E x : x.minus = {} /\ purger' = [purger EXCEPT !["worker"] = x]
    <3>1. CASE StartPurge
      BY <3>1 DEF StartPurge, IdlePurger, noteVars
    <3>2. CASE Restart
      BY <3>2 DEF Restart, IdlePurger, noteVars
    <3> QED
      BY <1>7, <3>1, <3>2
  <2>2. purger'["worker"].minus = {} /\ purger'["tool"] = purger["tool"]
    BY <2>1 DEF TypeOK, Purgers
  <2>3. OwnRefs'
    BY <2>1 DEF RefsOf
  <2> QED
    BY <2>2, <2>3 DEF Purgers
<1>8. ASSUME NEW p \in Pubkeys, BanAuthor(p)
      PROVE  OwnRefs' /\ OwnBatch'
  <2>1. /\ refs' = refs
        /\ purger'["tool"].minus = {} /\ purger'["worker"] = purger["worker"]
    BY <1>8 DEF BanAuthor, IdlePurger, TypeOK, noteVars, Purgers
  <2>2. OwnRefs'
    BY <2>1 DEF RefsOf
  <2>3. OwnBatch'
    BY <2>1 DEF Purgers
  <2> QED
    BY <2>2, <2>3
<1>9. ASSUME NEW w \in Writers, NEW n \in Notes, CheckBlocked(w, n)
      PROVE  UNCHANGED <<refs, purger>>
  BY <1>9 DEF CheckBlocked, noteVars, purgeVars
<1>10. ASSUME NEW a \in Admins, Serve(a) \/ AbandonRequest(a)
       PROVE  UNCHANGED <<refs, purger>>
  BY <1>10 DEF Serve, BlockInMemory, QueuePurge, UnblockInMemory, AbandonRequest, noteVars, purgeVars
<1>11. ASSUME NEW a \in Admins, NEW p \in Pubkeys, BlockInTable(a, p) \/ UnblockInTable(a, p)
       PROVE  UNCHANGED <<refs, purger>>
  BY <1>11 DEF BlockInTable, UnblockInTable, noteVars, purgeVars
<1>12. ASSUME NEW w \in Writers, InsertEvent(w) \/ CountReply(w) \/ FailWrite(w)
       PROVE  UNCHANGED <<refs, purger>>
  BY <1>12 DEF InsertEvent, CountReply, FailWrite, noteVars, purgeVars
<1>13. UNCHANGED vars => UNCHANGED <<refs, purger>>
  BY DEF vars, noteVars, purgeVars
<1> QED
  BY <1>1, <1>2, <1>3, <1>4, <1>5, <1>6, <1>7, <1>8, <1>9, <1>10, <1>11, <1>12, <1>13
     DEF Next, Write, Purge

\* Steps that leave what is counted alone.
LEMMA Undisturbed ==
  ASSUME NotTooLow, NotTooHigh, Replies' = Replies, UNCHANGED <<replyCount, over, short>>,
         Owing' = Owing, \A w \in Owing : writer'[w].note = writer[w].note,
         \A u \in Purgers : purger'[u].minus = purger[u].minus
  PROVE  NotTooLow' /\ NotTooHigh'
<1>1. ASSUME NEW B PROVE OwingOutside(B)' = OwingOutside(B)
  BY DEF OwingOutside
<1>2. NotTooLow'
  BY DEF NotTooLow
<1>3. NotTooHigh'
  BY <1>1 DEF NotTooHigh
<1> QED
  BY <1>2, <1>3

\* The inequality of two purges is that of both orders.
LEMMA OneOrder ==
  ASSUME NEW u \in Purgers, NEW v \in Purgers, u # v,
         NEW M \in SUBSET Notes, NEW O \in SUBSET Notes,
         purger'[u].minus = M, purger'[v].minus = O,
         Cardinality(Replies' \ (M \union O)) + Cardinality(M) + Cardinality(O)
           <= replyCount' + Cardinality(Owing') + short'
  PROVE  NotTooLow'
<1>1. Cardinality(Replies' \ (O \union M)) + Cardinality(O) + Cardinality(M)
        <= replyCount' + Cardinality(Owing') + short'
  <2>1. O \union M = M \union O
    OBVIOUS
  <2>2. /\ Cardinality(Replies' \ (M \union O)) \in Nat
        /\ Cardinality(M) \in Nat /\ Cardinality(O) \in Nat
    BY FiniteParts DEF Replies
  <2>3. Cardinality(Replies' \ (O \union M)) = Cardinality(Replies' \ (M \union O))
    BY <2>1
  <2> DEFINE c == Cardinality(Replies' \ (M \union O))
  <2>4. c + Cardinality(O) + Cardinality(M) = c + Cardinality(M) + Cardinality(O)
    BY <2>2
  <2> QED
    BY <2>3, <2>4
<1>2. \A x \in Purgers : x = u \/ x = v
  BY DEF Purgers
<1> QED
  BY <1>1, <1>2 DEF NotTooLow

LEMMA CountReplyDrift ==
  ASSUME TypeOK, Drift, NEW w \in Writers, CountReply(w)
  PROVE  NotTooLow' /\ NotTooHigh'
<1>1. /\ w \in Owing /\ Owing' = Owing \ {w}
      /\ \A x \in Owing' : writer'[x].note = writer[x].note
  BY DEF CountReply, Owing, IdleWriter, TypeOK
<1>2. /\ replyCount' = replyCount + 1 /\ Replies' = Replies
      /\ UNCHANGED <<over, short, purger>>
  BY DEF CountReply, Replies, purgeVars, historyVars
<1>3. Cardinality(Owing') = Cardinality(Owing) - 1 /\ Cardinality(Owing) \in Nat
  BY <1>1, FS_RemoveElement, FiniteParts DEF Owing
<1>4. replyCount' + Cardinality(Owing') = replyCount + Cardinality(Owing)
  BY <1>2, <1>3 DEF TypeOK
<1>5. NotTooLow'
  BY <1>2, <1>4 DEF NotTooLow, Drift
<1>6. ASSUME NEW B \in SUBSET Notes
      PROVE  Cardinality(OwingOutside(B)') <= Cardinality(Replies' \ B) + over'
  <2>1. OwingOutside(B)' \in SUBSET OwingOutside(B) /\ OwingOutside(B) \subseteq Writers
    BY <1>1 DEF OwingOutside, Owing
  <2>2. Cardinality(OwingOutside(B)') <= Cardinality(OwingOutside(B))
    BY <2>1, Fewer
  <2>3. /\ Cardinality(OwingOutside(B)') \in Nat /\ Cardinality(OwingOutside(B)) \in Nat
        /\ Cardinality(Replies \ B) \in Nat
    BY <2>1, FiniteParts DEF Replies
  <2>4. Cardinality(OwingOutside(B)) <= Cardinality(Replies \ B) + over
    BY DEF Drift, NotTooHigh
  <2> QED
    BY <1>2, <2>2, <2>3, <2>4 DEF TypeOK
<1>7. NotTooHigh'
  BY <1>2, <1>4, <1>6 DEF NotTooHigh, Drift
<1> QED
  BY <1>5, <1>7

LEMMA InsertRefsDrift ==
  ASSUME TypeOK, Occupied, Drift, NEW w \in Writers, InsertRefs(w)
  PROVE  NotTooLow' /\ NotTooHigh'
<1> DEFINE n == writer[w].note
<1>1. /\ n \in Notes /\ w \notin Owing
      /\ UNCHANGED <<replyCount, short, purger>>
      /\ \A x \in Writers \ {w} : writer'[x] = writer[x]
  BY DEF InsertRefs, Occupied, Owing, TypeOK, purgeVars
<1>2. CASE n \notin events \/ ~CountsForRoot(n)
  <2>1. writer'[w].pc = "idle" /\ over' = over
    BY <1>2 DEF InsertRefs, IdleWriter, TypeOK
  <2>2. Replies' = Replies
    <3>1. \A m \in Notes : <<m, Root, "reply">> \in RefsOf(n) => m = n /\ ReplyTo[n] = Root
      BY DEF RefsOf
    <3>2. refs' = refs \/ (refs' = refs \union RefsOf(n) /\ ~CountsForRoot(n))
      BY <1>2 DEF InsertRefs
    <3> QED
      BY <3>1, <3>2 DEF Replies, CountsForRoot
  <2>3. Owing' = Owing /\ \A x \in Owing : writer'[x].note = writer[x].note
    BY <1>1, <2>1 DEF Owing
  <2> QED
    BY <1>1, <2>1, <2>2, <2>3, Undisturbed DEF Drift
<1>3. CASE n \in events /\ CountsForRoot(n)
  <2>1. /\ refs' = refs \union RefsOf(n)
        /\ writer'[w].pc = "referenced" /\ writer'[w].note = n
        /\ over' = IF RefsOf(n) \subseteq refs THEN over + 1 ELSE over
    BY <1>3 DEF InsertRefs, TypeOK
  <2>2. RefsOf(n) = {<<n, Root, "reply">>}
    BY <1>3 DEF RefsOf, CountsForRoot
  <2>3. Replies' = Replies \union {n}
    BY <1>1, <1>3, <2>1, <2>2 DEF Replies
  <2>4. over' = IF n \in Replies THEN over + 1 ELSE over
    BY <1>1, <1>3, <2>1, <2>2 DEF Replies
  <2>5. Owing' = Owing \union {w}
    BY <1>1, <2>1 DEF Owing
  <2> HIDE DEF n
  <2>6. Cardinality(Owing') = Cardinality(Owing) + 1 /\ Cardinality(Owing) \in Nat
    BY <1>1, <2>5, FS_AddElement, FiniteParts DEF Owing
  <2>7. NotTooLow'
    <3>1. ASSUME NEW X \in SUBSET Notes
          PROVE  Cardinality(Replies' \ X) <= Cardinality(Replies \ X) + 1
      <4>1. /\ IsFiniteSet(Replies \ X) /\ Cardinality(Replies \ X) \in Nat
            /\ Replies' \subseteq Notes
        BY FiniteParts DEF Replies
      <4>2. Cardinality((Replies \ X) \union {n}) <= Cardinality(Replies \ X) + 1
        BY <4>1, FS_AddElement
      <4>3. Cardinality(Replies' \ X) <= Cardinality((Replies \ X) \union {n})
        BY <1>1, <2>3, <4>1, Fewer
      <4>4. /\ Cardinality((Replies \ X) \union {n}) \in Nat
            /\ Cardinality(Replies' \ X) \in Nat
        <5>1. (Replies \ X) \union {n} \subseteq Notes /\ Replies' \ X \subseteq Notes
          BY <1>1, <4>1 DEF Replies
        <5> QED
          BY <5>1, FiniteParts
      <4> QED
        BY <4>1, <4>2, <4>3, <4>4
    <3>2. ASSUME NEW u \in Purgers, NEW v \in Purgers, u # v
          PROVE  Cardinality(Replies' \ (purger[u].minus \union purger[v].minus))
                   + Cardinality(purger[u].minus) + Cardinality(purger[v].minus)
                   <= replyCount + Cardinality(Owing') + short
      <4> DEFINE M == purger[u].minus
                 O == purger[v].minus
      <4>1. M \in SUBSET Notes /\ O \in SUBSET Notes
        BY DEF TypeOK
      <4>2. Cardinality(Replies \ (M \union O)) + Cardinality(M) + Cardinality(O)
              <= replyCount + Cardinality(Owing) + short
        BY <3>2 DEF Drift, NotTooLow
      <4> HIDE DEF M, O
      <4>3. Cardinality(Replies' \ (M \union O)) <= Cardinality(Replies \ (M \union O)) + 1
        BY <3>1, <4>1
      <4>4. /\ Cardinality(Replies' \ (M \union O)) \in Nat
            /\ Cardinality(Replies \ (M \union O)) \in Nat
            /\ Cardinality(M) \in Nat /\ Cardinality(O) \in Nat
        BY <4>1, FiniteParts DEF Replies
      <4>5. Cardinality(Replies' \ (M \union O)) + Cardinality(M) + Cardinality(O)
              <= replyCount + Cardinality(Owing') + short
        BY <2>6, <4>2, <4>3, <4>4 DEF TypeOK
      <4> QED
        BY <4>5 DEF M, O
    <3> QED
      BY <1>1, <3>2 DEF NotTooLow
  <2>8. ASSUME NEW B \in SUBSET Notes
        PROVE  Cardinality(OwingOutside(B)') <= Cardinality(Replies' \ B) + over'
    <3>1. Cardinality(OwingOutside(B)) <= Cardinality(Replies \ B) + over
      BY DEF Drift, NotTooHigh
    <3>2. /\ IsFiniteSet(OwingOutside(B)) /\ Cardinality(OwingOutside(B)) \in Nat
          /\ IsFiniteSet(Replies \ B) /\ Cardinality(Replies \ B) \in Nat
          /\ Cardinality(Replies' \ B) \in Nat /\ Replies' \subseteq Notes
      BY FiniteParts DEF OwingOutside, Owing, Replies
    <3>3. Cardinality(Replies \ B) <= Cardinality(Replies' \ B)
      BY <2>3, <3>2, Fewer
    <3>4. CASE n \in B
      <4>1. OwingOutside(B)' = OwingOutside(B)
        BY <1>1, <2>1, <2>5, <3>4 DEF OwingOutside, Owing
      <4> QED
        BY <2>4, <3>1, <3>2, <3>3, <4>1 DEF TypeOK
    <3>5. CASE n \notin B
      <4>1. OwingOutside(B)' = OwingOutside(B) \union {w} /\ w \notin OwingOutside(B)
        BY <1>1, <2>1, <2>5, <3>5 DEF OwingOutside, Owing
      <4>2. Cardinality(OwingOutside(B)') = Cardinality(OwingOutside(B)) + 1
        BY <3>2, <4>1, FS_AddElement
      <4>3. CASE n \in Replies
        BY <2>4, <3>1, <3>2, <3>3, <4>2, <4>3 DEF TypeOK
      <4>4. CASE n \notin Replies
        <5>1. Replies' \ B = (Replies \ B) \union {n} /\ n \notin Replies \ B
          BY <2>3, <3>5, <4>4
        <5>2. Cardinality(Replies' \ B) = Cardinality(Replies \ B) + 1
          BY <3>2, <5>1, FS_AddElement
        <5> QED
          BY <2>4, <3>1, <3>2, <4>2, <4>4, <5>2 DEF TypeOK
      <4> QED
        BY <4>3, <4>4
    <3> QED
      BY <3>4, <3>5
  <2>9. replyCount' + Cardinality(Owing') <= Cardinality(Replies') + over'
    <3>1. replyCount + Cardinality(Owing) <= Cardinality(Replies) + over
      BY DEF Drift, NotTooHigh
    <3>2. IsFiniteSet(Replies) /\ Cardinality(Replies) \in Nat
      BY FiniteParts DEF Replies
    <3>3. Cardinality(Replies') = IF n \in Replies THEN Cardinality(Replies) ELSE Cardinality(Replies) + 1
      BY <2>3, <3>2, FS_AddElement
    <3> QED
      BY <1>1, <2>4, <2>6, <3>1, <3>2, <3>3 DEF TypeOK
  <2> QED
    BY <2>7, <2>8, <2>9 DEF NotTooHigh
<1> QED
  BY <1>2, <1>3

LEMMA StageBatchDrift ==
  ASSUME TypeOK, Drift, NEW u \in Purgers, StageBatch(u)
  PROVE  NotTooLow' /\ NotTooHigh'
<1> DEFINE M == Decrements(purger[u].batch)
<1>1. PICK v \in Purgers : v # u /\ Purgers \ {u} = {v}
  BY DEF Purgers
<1> DEFINE O == purger[v].minus
           W == {n \in M : ~CountsForRoot(n) \/ n \in O}
<1>2. M \in SUBSET Notes /\ O \in SUBSET Notes /\ W \in SUBSET M
  BY DEF Decrements, TypeOK
<1>3. /\ purger[u].minus = {} /\ purger'[u].minus = M /\ purger'[v].minus = O
      /\ UNCHANGED <<refs, replyCount, writer, over>>
  BY <1>1 DEF StageBatch, Drift, OwnBatch, TypeOK, noteVars
<1>4. short' = short + Cardinality(W)
  <2>1. UNION {purger[x].minus : x \in Purgers \ {u}} = O
    BY <1>1
  <2> QED
    BY <2>1 DEF StageBatch
<1>5. M \ (Replies \ O) \subseteq W
  <2>1. ASSUME NEW n \in M, CountsForRoot(n)
        PROVE  n \in Replies
    <3>1. PICK r \in refs : r[1] = n
      BY <2>1 DEF Decrements, Chosen
    <3>2. r = <<n, Root, "reply">>
      BY <2>1, <3>1 DEF Drift, OwnRefs, RefsOf, CountsForRoot
    <3> QED
      BY <1>2, <2>1, <3>1, <3>2 DEF Replies
  <2> QED
    BY <2>1
<1>6. Replies' = Replies /\ Owing' = Owing /\ \A B : OwingOutside(B)' = OwingOutside(B)
  BY <1>3 DEF Replies, Owing, OwingOutside
<1> HIDE DEF M, O, W
<1>7. Cardinality(Replies \ (M \union O)) + Cardinality(M) <= Cardinality(Replies \ O) + Cardinality(W)
  BY <1>2, <1>5, Staging DEF Replies
<1>8. Cardinality(Replies \ O) + Cardinality(O) <= replyCount + Cardinality(Owing) + short
  <2>1. Cardinality(Replies \ ({} \union O)) + Cardinality({}) + Cardinality(O)
          <= replyCount + Cardinality(Owing) + short
    BY <1>1, <1>3 DEF Drift, NotTooLow, O
  <2>2. {} \union O = O
    OBVIOUS
  <2>3. Cardinality(Replies \ O) \in Nat
    BY FiniteParts DEF Replies
  <2> QED
    BY <2>1, <2>2, <2>3, FS_EmptySet
<1>9. /\ Cardinality(Replies \ (M \union O)) \in Nat /\ Cardinality(M) \in Nat
      /\ Cardinality(Replies \ O) \in Nat /\ Cardinality(W) \in Nat /\ Cardinality(O) \in Nat
      /\ Cardinality(Owing) \in Nat
  BY <1>2, FiniteParts DEF Replies, Owing
<1>10. Cardinality(Replies' \ (M \union O)) + Cardinality(M) + Cardinality(O)
         <= replyCount' + Cardinality(Owing') + short'
  <2>1. /\ Replies' = Replies /\ Owing' = Owing /\ replyCount' = replyCount
        /\ replyCount \in Nat /\ short \in Nat
    BY <1>3, <1>6 DEF TypeOK
  <2> QED
    BY <1>4, <1>7, <1>8, <1>9, <2>1
<1>11. NotTooLow'
  BY <1>1, <1>2, <1>3, <1>10, OneOrder
<1>12. NotTooHigh'
  BY <1>3, <1>6 DEF Drift, NotTooHigh
<1> QED
  BY <1>11, <1>12

LEMMA CommitBatchDrift ==
  ASSUME TypeOK, Drift, NEW u \in Purgers, CommitBatch(u)
  PROVE  NotTooLow' /\ NotTooHigh'
<1> DEFINE M == purger[u].minus
           batch == purger[u].batch
           unseen == {n \in batch \ M : CountsForRoot(n) /\ <<n, Root, "reply">> \in refs}
           late   == {w \in Writers : writer[w].pc = "referenced" /\ writer[w].note \in batch}
<1>1. PICK v \in Purgers : v # u /\ Purgers \ {u} = {v}
  BY DEF Purgers
<1> DEFINE O == purger[v].minus
<1>2. batch \in SUBSET Notes /\ M \in SUBSET batch /\ M \in SUBSET Notes /\ O \in SUBSET Notes
  BY DEF Drift, OwnBatch, TypeOK
<1>3. /\ purger'[u].minus = {} /\ purger'[v].minus = O
      /\ UNCHANGED <<writer, short>>
      /\ replyCount' = Max({0, replyCount - Cardinality(M)})
      /\ over' = over + (Cardinality(unseen) + Cardinality(late))
  BY <1>1 DEF CommitBatch, TypeOK, Overlapped
<1>4. Replies' = Replies \ batch
  BY <1>2, ModerationAssumption DEF CommitBatch, Replies
<1>5. unseen = (batch \ M) \cap Replies
  BY <1>2 DEF Replies
<1>6. /\ Owing' = Owing /\ late \in SUBSET Owing
      /\ \A B : OwingOutside(B)' = OwingOutside(B)
      /\ \A B : OwingOutside(B) \in SUBSET (OwingOutside(B \union batch) \union late)
      /\ Owing \in SUBSET (OwingOutside(batch) \union late)
  BY <1>3 DEF Owing, OwingOutside
<1> HIDE DEF M, batch, unseen, late, O
<1>0. replyCount \in Nat /\ over \in Nat /\ short \in Nat /\ Cardinality(Owing') = Cardinality(Owing)
  BY <1>6 DEF TypeOK
<1>7. /\ Cardinality(M) \in Nat /\ Cardinality(unseen) \in Nat /\ Cardinality(late) \in Nat
      /\ Cardinality(O) \in Nat /\ Cardinality(Owing) \in Nat
      /\ Cardinality(Replies) \in Nat /\ Cardinality(Replies') \in Nat
  BY <1>2, <1>4, <1>5, <1>6, FiniteParts DEF Replies, Owing
<1>8. /\ replyCount - Cardinality(M) <= replyCount'
      /\ replyCount' = 0 \/ replyCount' = replyCount - Cardinality(M)
      /\ replyCount' \in Nat
  <2>1. ASSUME NEW x \in Int
        PROVE  x <= Max({0, x}) /\ (Max({0, x}) = 0 \/ Max({0, x}) = x) /\ Max({0, x}) \in Nat
    <3>1. CASE x >= 0
      <4>1. Max({0, x}) = x
        BY <3>1 DEF Max
      <4> QED
        BY <3>1, <4>1
    <3>2. CASE x < 0
      <4>1. Max({0, x}) = 0
        BY <3>2 DEF Max
      <4> QED
        BY <3>2, <4>1
    <3> QED
      BY <3>1, <3>2
  <2>2. replyCount - Cardinality(M) \in Int
    BY <1>0, <1>7
  <2> QED
    BY <1>3, <2>1, <2>2
<1>9. NotTooLow'
  <2>1. Cardinality(Replies \ (M \union O)) + Cardinality(M) + Cardinality(O)
          <= replyCount + Cardinality(Owing) + short
    BY <1>1 DEF Drift, NotTooLow, M, O
  <2>2. Cardinality(Replies' \ ({} \union O)) <= Cardinality(Replies \ (M \union O))
    <3>1. Replies' \ ({} \union O) \in SUBSET (Replies \ (M \union O))
      BY <1>2, <1>4
    <3> QED
      BY <3>1, Fewer DEF Replies
  <2>3. Cardinality(Replies' \ ({} \union O)) \in Nat /\ Cardinality(Replies \ (M \union O)) \in Nat
    BY <1>4, FiniteParts DEF Replies
  <2>4. Cardinality(Replies' \ ({} \union O)) + Cardinality({}) + Cardinality(O)
          <= replyCount' + Cardinality(Owing') + short'
    <3>1. Cardinality({}) = 0 /\ short' = short
      BY <1>3, FS_EmptySet
    <3>2. Cardinality(Replies' \ ({} \union O)) + Cardinality(O) <= replyCount' + Cardinality(Owing) + short
      BY <1>0, <1>7, <1>8, <2>1, <2>2, <2>3
    <3> QED
      BY <1>0, <2>3, <3>1, <3>2
  <2> QED
    BY <1>1, <1>2, <1>3, <2>4, OneOrder
<1>10. ASSUME NEW B \in SUBSET Notes
       PROVE  Cardinality(OwingOutside(B)) <= Cardinality(Replies' \ B) + over + Cardinality(late)
  <2>1. Cardinality(OwingOutside(B \union batch)) <= Cardinality(Replies \ (B \union batch)) + over
    BY <1>2 DEF Drift, NotTooHigh
  <2>2. Replies \ (B \union batch) = Replies' \ B
    BY <1>4
  <2>3. /\ OwingOutside(B \union batch) \subseteq Writers /\ late \subseteq Writers
        /\ OwingOutside(B) \subseteq Writers
    BY <1>6 DEF Owing, OwingOutside
  <2>4. Cardinality(OwingOutside(B)) <= Cardinality(OwingOutside(B \union batch) \union late)
    BY <1>6, <2>3, Fewer
  <2>5. Cardinality(OwingOutside(B \union batch) \union late)
          <= Cardinality(OwingOutside(B \union batch)) + Cardinality(late)
    BY <2>3, Together, ModerationAssumption
  <2>6. /\ Cardinality(OwingOutside(B \union batch) \union late) \in Nat
        /\ Cardinality(OwingOutside(B \union batch)) \in Nat
        /\ Cardinality(OwingOutside(B)) \in Nat /\ Cardinality(Replies' \ B) \in Nat
    <3>1. OwingOutside(B \union batch) \union late \subseteq Writers /\ Replies' \ B \subseteq Notes
      BY <1>4, <2>3 DEF Replies
    <3> QED
      BY <2>3, <3>1, FiniteParts
  <2> QED
    <3>1. Cardinality(OwingOutside(B \union batch)) <= Cardinality(Replies' \ B) + over
      BY <2>1, <2>2
    <3> QED
      BY <1>0, <1>7, <2>4, <2>5, <2>6, <3>1
<1>11. ASSUME NEW B \in SUBSET Notes
       PROVE  Cardinality(OwingOutside(B)') <= Cardinality(Replies' \ B) + over'
  <2>1. Cardinality(OwingOutside(B)) \in Nat /\ Cardinality(Replies' \ B) \in Nat
    BY <1>4, FiniteParts DEF Replies, OwingOutside, Owing
  <2> QED
    <3>1. OwingOutside(B)' = OwingOutside(B) /\ over' = over + (Cardinality(unseen) + Cardinality(late))
      BY <1>3, <1>6
    <3>2. Cardinality(OwingOutside(B)) <= Cardinality(Replies' \ B) + over'
      BY <1>0, <1>7, <1>10, <2>1, <3>1
    <3> QED
      BY <3>1, <3>2
<1>12. replyCount' + Cardinality(Owing') <= Cardinality(Replies') + over'
  <2>1. replyCount + Cardinality(Owing) <= Cardinality(Replies) + over
    BY DEF Drift, NotTooHigh
  <2>2. Cardinality(Replies) <= Cardinality(Replies') + Cardinality(M) + Cardinality(unseen)
    BY <1>2, <1>4, <1>5, Removing DEF Replies
  <2>3. CASE replyCount' = replyCount - Cardinality(M)
    <3>1. over' = over + (Cardinality(unseen) + Cardinality(late))
      BY <1>3
    <3> QED
      BY <1>0, <1>7, <2>1, <2>2, <2>3, <3>1
  <2>4. CASE replyCount' = 0
    <3>1. OwingOutside({}) = Owing /\ Replies' \ {} = Replies' /\ {} \in SUBSET Notes
      BY DEF OwingOutside
    <3>2. Cardinality(Owing) <= Cardinality(Replies') + over + Cardinality(late)
      BY <1>10, <3>1
    <3> QED
      BY <1>3, <1>6, <1>7, <2>4, <3>2 DEF TypeOK
  <2> QED
    BY <1>8, <2>3, <2>4
<1> QED
  BY <1>9, <1>11, <1>12 DEF NotTooHigh

\* A transaction that rolls back, also when the service dies.
LEMMA RollbackDrift ==
  ASSUME TypeOK, Drift, NEW u \in Purgers, FailPurge(u) \/ (Restart /\ u = "worker")
  PROVE  NotTooLow' /\ NotTooHigh'
<1> DEFINE M == purger[u].minus
<1>1. PICK v \in Purgers : v # u /\ Purgers \ {u} = {v}
  BY DEF Purgers
<1> DEFINE O == purger[v].minus
<1>2. M \in SUBSET Notes /\ O \in SUBSET Notes
  BY DEF TypeOK
<1>3. /\ purger'[u].minus = {} /\ purger'[v].minus = O
      /\ UNCHANGED <<refs, replyCount, over>>
  BY <1>1 DEF FailPurge, Restart, IdlePurger, TypeOK, noteVars, historyVars
<1>4. \/ writer' = writer /\ short' = short
      \/ writer' = [w \in Writers |-> IdleWriter] /\ short' = short + Cardinality(Owing)
  BY DEF FailPurge, Restart, historyVars, Owing
<1>5. /\ Replies' = Replies /\ Owing' \in SUBSET Owing
      /\ \A B : OwingOutside(B)' \in SUBSET OwingOutside(B)
      /\ writer' = writer => Owing' = Owing
      /\ writer' = [w \in Writers |-> IdleWriter] => Owing' = {}
  BY <1>3, <1>4 DEF Replies, Owing, OwingOutside, IdleWriter
<1> HIDE DEF M, O
<1>6. /\ Cardinality(Replies \ (M \union O)) \in Nat /\ Cardinality(M) \in Nat
      /\ Cardinality(Replies \ O) \in Nat /\ Cardinality(O) \in Nat
      /\ Cardinality(Owing) \in Nat /\ Cardinality(Owing') \in Nat /\ Cardinality(Replies) \in Nat
  BY <1>2, <1>5, FiniteParts DEF Replies, Owing
<1>7. replyCount + Cardinality(Owing) + short <= replyCount' + Cardinality(Owing') + short'
  BY <1>3, <1>4, <1>5, <1>6, FS_EmptySet DEF TypeOK
<1>8. Cardinality(Replies' \ ({} \union O)) + Cardinality({}) + Cardinality(O)
        <= replyCount' + Cardinality(Owing') + short'
  <2>1. Cardinality(Replies \ (M \union O)) + Cardinality(M) + Cardinality(O)
          <= replyCount + Cardinality(Owing) + short
    BY <1>1 DEF Drift, NotTooLow, M, O
  <2>2. Cardinality(Replies \ O) <= Cardinality(Replies \ (M \union O)) + Cardinality(M)
    BY <1>2, Forgetting DEF Replies
  <2>3. Replies' \ ({} \union O) = Replies \ O
    BY <1>5
  <2>4. Cardinality(Replies \ O) + Cardinality(O) <= replyCount + Cardinality(Owing) + short
    BY <1>6, <2>1, <2>2 DEF TypeOK
  <2>5. Cardinality(Replies \ O) + Cardinality({}) + Cardinality(O)
          <= replyCount' + Cardinality(Owing') + short'
    BY <1>3, <1>4, <1>6, <1>7, <2>4, FS_EmptySet DEF TypeOK
  <2> QED
    BY <2>3, <2>5
<1>9. NotTooLow'
  BY <1>1, <1>2, <1>3, <1>8, OneOrder
<1>10. ASSUME NEW B \in SUBSET Notes
       PROVE  Cardinality(OwingOutside(B)') <= Cardinality(Replies' \ B) + over'
  <2>1. Cardinality(OwingOutside(B)') <= Cardinality(OwingOutside(B))
    BY <1>5, Fewer DEF OwingOutside, Owing
  <2>2. Cardinality(OwingOutside(B)) <= Cardinality(Replies \ B) + over
    BY DEF Drift, NotTooHigh
  <2>3. /\ OwingOutside(B) \subseteq Writers /\ OwingOutside(B)' \subseteq Writers
        /\ Replies \ B \subseteq Notes
    BY <1>5 DEF OwingOutside, Owing, Replies
  <2>4. /\ Cardinality(OwingOutside(B)') \in Nat /\ Cardinality(OwingOutside(B)) \in Nat
        /\ Cardinality(Replies \ B) \in Nat
    BY <2>3, FiniteParts
  <2> QED
    BY <1>3, <1>5, <2>1, <2>2, <2>4 DEF TypeOK
<1>11. replyCount' + Cardinality(Owing') <= Cardinality(Replies') + over'
  <2>1. Cardinality(Owing') <= Cardinality(Owing)
    BY <1>5, Fewer DEF Owing
  <2> QED
    BY <1>3, <1>5, <1>6, <2>1 DEF Drift, NotTooHigh, TypeOK
<1> QED
  BY <1>9, <1>10, <1>11 DEF NotTooHigh

\* A note whose reply will not be counted is made up for in short.
LEMMA FailWriteDrift ==
  ASSUME TypeOK, Drift, NEW w \in Writers, FailWrite(w)
  PROVE  NotTooLow' /\ NotTooHigh'
<1>1. /\ UNCHANGED <<refs, replyCount, over, purger>> /\ Replies' = Replies
      /\ writer' = [writer EXCEPT ![w] = IdleWriter]
  BY DEF FailWrite, Replies, noteVars, purgeVars
<1>2. CASE w \notin Owing
  <2>1. short' = short
    BY <1>2 DEF FailWrite, Owing
  <2>2. Owing' = Owing /\ \A x \in Owing : writer'[x].note = writer[x].note
    BY <1>1, <1>2 DEF Owing, IdleWriter, TypeOK
  <2> QED
    BY <1>1, <2>1, <2>2, Undisturbed DEF Drift
<1>3. CASE w \in Owing
  <2>1. /\ short' = short + 1 /\ Owing' = Owing \ {w}
        /\ \A B : OwingOutside(B)' \in SUBSET OwingOutside(B)
    BY <1>1, <1>3 DEF FailWrite, Owing, OwingOutside, IdleWriter, TypeOK
  <2>2. Cardinality(Owing') = Cardinality(Owing) - 1 /\ Cardinality(Owing) \in Nat
    BY <1>3, <2>1, FS_RemoveElement, FiniteParts DEF Owing
  <2>3. replyCount' + Cardinality(Owing') + short' = replyCount + Cardinality(Owing) + short
    <3>1. replyCount' = replyCount /\ short' = short + 1 /\ replyCount \in Nat /\ short \in Nat
      BY <1>1, <2>1 DEF TypeOK
    <3> QED
      BY <2>2, <3>1
  <2>4. NotTooLow'
    BY <1>1, <2>3 DEF NotTooLow, Drift
  <2>5. ASSUME NEW B \in SUBSET Notes
        PROVE  Cardinality(OwingOutside(B)') <= Cardinality(Replies' \ B) + over'
    <3>1. Cardinality(OwingOutside(B)') <= Cardinality(OwingOutside(B))
      BY <2>1, Fewer DEF OwingOutside, Owing
    <3>2. Cardinality(OwingOutside(B)) <= Cardinality(Replies \ B) + over
      BY DEF Drift, NotTooHigh
    <3>3. /\ OwingOutside(B) \subseteq Writers /\ OwingOutside(B)' \subseteq Writers
          /\ Replies \ B \subseteq Notes
      BY <2>1 DEF OwingOutside, Owing, Replies
    <3>4. /\ Cardinality(OwingOutside(B)') \in Nat /\ Cardinality(OwingOutside(B)) \in Nat
          /\ Cardinality(Replies \ B) \in Nat
      BY <3>3, FiniteParts
    <3> QED
      BY <1>1, <3>1, <3>2, <3>4 DEF TypeOK
  <2>6. replyCount' + Cardinality(Owing') <= Cardinality(Replies') + over'
    <3>1. Cardinality(Replies) \in Nat
      BY FiniteParts DEF Replies
    <3> QED
      BY <1>1, <2>2, <3>1 DEF Drift, NotTooHigh, TypeOK
  <2> QED
    BY <2>4, <2>5, <2>6 DEF NotTooHigh
<1> QED
  BY <1>2, <1>3

LEMMA DriftNext == TypeOK /\ Occupied /\ Drift /\ [Next]_vars => Drift'
<1> SUFFICES ASSUME TypeOK, Occupied, Drift, [Next]_vars PROVE NotTooLow' /\ NotTooHigh'
  BY OwnNext DEF Drift
<1>1. CASE UNCHANGED <<refs, replyCount, over, short, writer, purger>>
  <2>1. Replies' = Replies /\ Owing' = Owing
    BY <1>1 DEF Replies, Owing
  <2> QED
    BY <1>1, <2>1, Undisturbed DEF Drift
<1>2. ASSUME NEW w \in Writers, NEW n \in Notes, CheckBlocked(w, n)
      PROVE  NotTooLow' /\ NotTooHigh'
  <2>1. /\ UNCHANGED <<refs, replyCount, over, short, purger>>
        /\ writer[w].pc = "idle" /\ writer'[w].pc = "checked"
        /\ \A x \in Writers \ {w} : writer'[x] = writer[x]
    BY <1>2 DEF CheckBlocked, noteVars, purgeVars, historyVars, TypeOK
  <2>2. /\ Replies' = Replies /\ Owing' = Owing
        /\ \A x \in Owing : writer'[x].note = writer[x].note
    BY <2>1 DEF Replies, Owing
  <2> QED
    BY <2>1, <2>2, Undisturbed DEF Drift
<1>3. ASSUME NEW w \in Writers, InsertEvent(w)
      PROVE  NotTooLow' /\ NotTooHigh'
  <2>1. /\ UNCHANGED <<refs, replyCount, over, short, purger>>
        /\ writer[w].pc = "checked" /\ writer'[w].pc \in {"idle", "stored"}
        /\ \A x \in Writers \ {w} : writer'[x] = writer[x]
    BY <1>3 DEF InsertEvent, purgeVars, historyVars, IdleWriter, TypeOK
  <2>2. /\ Replies' = Replies /\ Owing' = Owing
        /\ \A x \in Owing : writer'[x].note = writer[x].note
    BY <2>1 DEF Replies, Owing
  <2> QED
    BY <2>1, <2>2, Undisturbed DEF Drift
<1>4. ASSUME NEW w \in Writers, InsertRefs(w) \/ CountReply(w) \/ FailWrite(w)
      PROVE  NotTooLow' /\ NotTooHigh'
  BY <1>4, InsertRefsDrift, CountReplyDrift, FailWriteDrift
<1>5. ASSUME NEW a \in Admins, Serve(a) \/ AbandonRequest(a)
      PROVE  UNCHANGED <<refs, replyCount, over, short, writer, purger>>
  BY <1>5 DEF Serve, BlockInMemory, QueuePurge, UnblockInMemory, AbandonRequest, noteVars, purgeVars
<1>6. ASSUME NEW a \in Admins, NEW p \in Pubkeys, BlockInTable(a, p) \/ UnblockInTable(a, p)
      PROVE  UNCHANGED <<refs, replyCount, over, short, writer, purger>>
  BY <1>6 DEF BlockInTable, UnblockInTable, noteVars, purgeVars
\* A purge that begins or ends, and the choice of a batch, have nothing staged.
<1>7. ASSUME NEW u \in Purgers, UNCHANGED <<refs, replyCount, over, short, writer>>,
             purger[u].pc # "staged", purger'[u].minus \in {{}, purger[u].minus},
             \A v \in Purgers \ {u} : purger'[v] = purger[v]
      PROVE  NotTooLow' /\ NotTooHigh'
  <2>1. purger[u].minus = {}
    BY <1>7 DEF Drift, OwnBatch
  <2>2. \A v \in Purgers : purger'[v].minus = purger[v].minus
    BY <1>7, <2>1
  <2>3. Replies' = Replies /\ Owing' = Owing
    BY <1>7 DEF Replies, Owing
  <2> QED
    BY <1>7, <2>2, <2>3, Undisturbed DEF Drift
<1>8. CASE StartPurge
  <2>1. /\ "worker" \in Purgers /\ UNCHANGED <<refs, replyCount, over, short, writer>>
        /\ purger["worker"].pc # "staged" /\ purger'["worker"].minus = {}
        /\ \A v \in Purgers \ {"worker"} : purger'[v] = purger[v]
    BY <1>8 DEF StartPurge, IdlePurger, TypeOK, noteVars, historyVars, Purgers
  <2> QED
    BY <1>7, <2>1
<1>9. ASSUME NEW p \in Pubkeys, BanAuthor(p)
      PROVE  NotTooLow' /\ NotTooHigh'
  <2>1. /\ "tool" \in Purgers /\ UNCHANGED <<refs, replyCount, over, short, writer>>
        /\ purger["tool"].pc # "staged" /\ purger'["tool"].minus = {}
        /\ \A v \in Purgers \ {"tool"} : purger'[v] = purger[v]
    BY <1>9 DEF BanAuthor, IdlePurger, TypeOK, noteVars, Purgers
  <2> QED
    BY <1>7, <2>1
<1>10. ASSUME NEW u \in Purgers, SelectBatch(u) \/ FinishPurge(u)
       PROVE  NotTooLow' /\ NotTooHigh'
  <2>1. /\ UNCHANGED <<refs, replyCount, over, short, writer>>
        /\ purger[u].pc # "staged" /\ purger'[u].minus \in {{}, purger[u].minus}
        /\ \A v \in Purgers \ {u} : purger'[v] = purger[v]
    BY <1>10 DEF SelectBatch, FinishPurge, IdlePurger, TypeOK, noteVars, historyVars
  <2> QED
    BY <1>7, <2>1
<1>11. ASSUME NEW u \in Purgers, StageBatch(u) \/ CommitBatch(u) \/ FailPurge(u)
       PROVE  NotTooLow' /\ NotTooHigh'
  BY <1>11, StageBatchDrift, CommitBatchDrift, RollbackDrift
<1>12. CASE Restart
  BY <1>12, RollbackDrift DEF Purgers
<1>13. CASE UNCHANGED vars
  BY <1>1, <1>13 DEF vars, noteVars, purgeVars, historyVars
<1> QED
  BY <1>1, <1>2, <1>3, <1>4, <1>5, <1>6, <1>8, <1>9, <1>10, <1>11, <1>12, <1>13
     DEF Next, Write, Purge

LEMMA DriftInit == Init => Drift
<1> SUFFICES ASSUME Init PROVE Drift
  OBVIOUS
<1>1. /\ Replies = {} /\ Owing = {} /\ \A B : OwingOutside(B) = {}
      /\ \A u \in Purgers : purger[u].minus = {}
      /\ replyCount = 0 /\ over = 0 /\ short = 0
  BY DEF Init, Replies, Owing, OwingOutside, IdleWriter, IdlePurger
<1>2. \A S : {} \ S = {}
  OBVIOUS
<1>3. NotTooLow /\ NotTooHigh
  BY <1>1, <1>2, FS_EmptySet DEF NotTooLow, NotTooHigh
<1> QED
  BY <1>1, <1>3 DEF Init, Drift, OwnRefs, OwnBatch, IdlePurger

\* The property, when what is staged is added up again.
LEMMA DriftEnough == TypeOK /\ Drift => ReplyDrift
<1> SUFFICES ASSUME TypeOK, Drift PROVE ReplyDrift
  OBVIOUS
<1> DEFINE M == purger["worker"].minus
           O == purger["tool"].minus
<1>1. M \in SUBSET Notes /\ O \in SUBSET Notes
  BY DEF TypeOK, Purgers
<1>2. Stored = Cardinality(Replies) /\ Pending = Cardinality(Owing)
  BY DEF Stored, Pending, Replies, Owing
<1>3. Cardinality(Replies \ (M \union O)) + Cardinality(M) + Cardinality(O)
        <= replyCount + Cardinality(Owing) + short
  BY DEF Drift, NotTooLow, Purgers
<1> HIDE DEF M, O
<1>4. Cardinality(Replies \ O) <= Cardinality(Replies \ (M \union O)) + Cardinality(M)
  BY <1>1, Forgetting DEF Replies
<1>5. Cardinality(Replies \ {}) <= Cardinality(Replies \ (O \union {})) + Cardinality(O)
  <2>1. {} \in SUBSET Notes
    OBVIOUS
  <2> QED
    BY <1>1, <2>1, Forgetting DEF Replies
<1>6. Replies \ {} = Replies /\ O \union {} = O
  OBVIOUS
<1>7. /\ Cardinality(Replies \ (M \union O)) \in Nat /\ Cardinality(M) \in Nat
      /\ Cardinality(Replies \ O) \in Nat /\ Cardinality(O) \in Nat
      /\ Cardinality(Owing) \in Nat /\ Cardinality(Replies) \in Nat
  BY <1>1, FiniteParts DEF Replies, Owing
<1>8. Cardinality(Replies) <= Cardinality(Replies \ O) + Cardinality(O)
  BY <1>5, <1>6
<1>9. Cardinality(Replies) - short <= replyCount + Cardinality(Owing)
  BY <1>3, <1>4, <1>7, <1>8 DEF TypeOK
<1>10. replyCount + Cardinality(Owing) <= Cardinality(Replies) + over
  BY DEF Drift, NotTooHigh
<1> QED
  BY <1>2, <1>9, <1>10 DEF ReplyDrift

-----------------------------------------------------------------------------
(* Theorems *)

Ind == TypeOK /\ Occupied /\ Orderly /\ MemoryIsTable /\ Escaping /\ Cleaned /\ Drift

LEMMA Inductive == Spec => []Ind
<1>1. Init => Ind
  BY FirstState, DriftInit DEF Ind
<1>2. Ind /\ [Next]_vars => Ind'
  BY TypeNext, OccupiedNext, OrderlyNext, EscapingNext, CleanedNext, DriftNext DEF Ind
<1> QED
  BY <1>1, <1>2, PTL DEF Spec

\* Every variable keeps its type: the counter of the root note never goes below 0
\* either, whatever purges take off it.
THEOREM TypeCorrect == Spec => []TypeOK
BY Inductive, PTL DEF Ind

\* block_pubkey and unblock_pubkey keep table and memory together for each pubkey
\* that no two requests, no dropped request, no ban tool and no bad start-up split.
THEOREM MemoryAgrees == Spec => []MemoryIsTable
BY Inductive, PTL DEF Ind

\* A finished purge has removed all of a pubkey that stays blocked, however its
\* batches interleave with insertions, but for what was past the check before.
THEOREM PurgeStays == Spec => []PurgedStaysPurged
<1>1. Ind => PurgedStaysPurged
  BY DEF Ind, Cleaned, Finished, InQueue, Serving, Clean, PurgedStaysPurged, Purging
<1> QED
  BY <1>1, Inductive, PTL

\* The root's reply_count and the replies stored part by no more than the races that
\* short and over name, for any number of writers and notes: two purges at once,
\* GREATEST(0, ...), roll-backs and deaths between two statements add nothing.
THEOREM DriftBounded == Spec => []ReplyDrift
<1>1. Ind => ReplyDrift
  BY DriftEnough DEF Ind
<1> QED
  BY <1>1, Inductive, PTL
=============================================================================
