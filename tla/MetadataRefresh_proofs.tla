----------------------- MODULE MetadataRefresh_proofs -----------------------
(***************************************************************************)
(* Proofs about MetadataRefresh, for any numbers of objects, rows, batches *)
(* and producer ticks, overlapping or not, and any number of failures and  *)
(* staff requests: its variables keep their types, a closed row stays      *)
(* closed, it implements RefreshLedger, a batch's counters never claim     *)
(* more than the rows that ended, and an undisturbed batch is clean.       *)
(***************************************************************************)
EXTENDS MetadataRefresh, FiniteSetTheorems, WellFoundedInduction, TLAPS

-----------------------------------------------------------------------------
(* The invariant *)

Working  == {"fetch", "write", "mark_updated", "mark_complete", "mark_failed"}
Counting == {"count_ok", "count_dead", "look", "close"}
Cursors  == Objects \cup {NULL, 0}

TickRecords == [pc : {"idle", "insert", "advance", "total", "done", "empty"},
                batch : Batches \cup {0}, cursor : Cursors, chunk : SUBSET Objects]
StaffRecords == [pc : {"idle", "check", "create", "flags", "delete", "status"},
                 batch : Batches \cup {0}, cursor : Cursors]
RowStatus == {"none", "PENDING", "IN_PROGRESS", "RECORD_UPDATED", "COMPLETE",
              "CANCELLED", "DEAD_LETTERED", "deleted"}

BatchTypes == batch \in [Batches -> BatchRecords]
\* A row that may be tried has an attempt left; a row that was never queued is open.
RowTypes ==
    /\ row \in [Rows -> RowRecords]
    /\ \A r \in Rows : /\ row[r].status \in {"PENDING", "IN_PROGRESS"}
                            => row[r].attempts < MaxAttempts
                       /\ row[r].status = "none" => row[r] = NoRow
                       /\ row[r].status # "none" => row[r].obj \in Objects
TickTypes ==
    /\ tick \in [Ticks -> TickRecords]
    /\ \A t \in Ticks : tick[t].pc # "idle" => tick[t].batch \in Batches
FiberTypes ==
    /\ fiber \in [Rows -> FiberSteps]
    /\ \A r \in Rows : /\ fiber[r] # "idle" => row[r].status # "none"
                       /\ fiber[r] \in Working => row[r].attempts < MaxAttempts
                       /\ fiber[r] \in Counting => row[r].batch \in Batches
StaffTypes ==
    /\ staff \in StaffRecords
    /\ staff.pc \in {"flags", "delete", "status"} => staff.batch \in Batches
ProcTypes ==
    /\ refreshed \subseteq Objects
    /\ worker \in {"down", "idle", "claim", "run", "rotate"}
    /\ token \in BOOLEAN /\ faults \in Nat /\ ops \in Nat

TypeInv == /\ BatchTypes /\ RowTypes /\ TickTypes /\ FiberTypes /\ StaffTypes
           /\ ProcTypes

\* What no step does: take back a row, or change what it was queued for.
RowsKept == \A r \in Rows : row[r].status # "none" =>
                /\ row'[r].status # "none"
                /\ row'[r].batch = row[r].batch /\ row'[r].obj = row[r].obj

LEMMA Bounds ==
    /\ NumObjects \in Nat \ {0} /\ NumRows \in Nat \ {0} /\ ChunkSize \in Nat \ {0}
    /\ MaxAttempts \in Nat \ {0} /\ NumBatches \in Nat /\ NumRequests \in Nat
    /\ Objects \subseteq Nat \ {0} /\ Batches \subseteq Nat \ {0}
    /\ 0 \notin Requests /\ Batches \cap Requests = {} /\ NumObjects \in Objects
BY RefreshAssumption DEF Objects, Batches, Requests

LEMMA NoRowTyped == NoRow \in RowRecords /\ NoRow.status = "none" /\ ~NoRow.is_complete
BY Bounds DEF NoRow, RowRecords

LEMMA IdleTyped == IdleTick \in TickRecords /\ IdleStaff \in StaffRecords
BY DEF IdleTick, IdleStaff, TickRecords, StaffRecords, Cursors

LEMMA NoBatchTyped == NoBatch \in BatchRecords
BY DEF NoBatch, BatchRecords

\* A set of numbers has a least member: the shortest of their intervals 1..n.
LEMMA Least ==
    ASSUME NEW S, S \subseteq Nat, S # {}
    PROVE  \E m \in S : \A n \in S : m <= n
<1> DEFINE T == {1..n : n \in S}
           R == StrictSubsetOrdering(Nat)
<1>1. \A n \in S : 1..n \subseteq Nat /\ IsFiniteSet(1..n) BY FS_Interval
<1>2. T \subseteq FiniteSubsetsOf(Nat) /\ T # {} BY <1>1 DEF FiniteSubsetsOf
<1>3. IsWellFoundedOn(R, FiniteSubsetsOf(Nat)) BY FS_StrictSubsetOrderingWellFounded
<1> HIDE DEF R
<1>4. \E x \in T : \A y \in T : ~(<<y, x>> \in R) BY <1>2, <1>3, WFMin
<1>5. PICK m \in S : \A y \in T : ~(<<y, 1..m>> \in R) BY <1>4
<1>6. ASSUME NEW n \in S, ~(m <= n) PROVE FALSE
  <2>1. 1..n \subseteq 1..m /\ m \in 1..m /\ m \notin 1..n BY <1>6
  <2>2. <<1..n, 1..m>> \in R BY <1>1, <2>1 DEF StrictSubsetOrdering, R
  <2> QED BY <1>5, <2>2
<1> QED BY <1>6

\* Of some batches, the newest is one of them.
LEMMA NewestBatch ==
    ASSUME NEW bs, bs \subseteq Batches, bs # {}
    PROVE  Newest(bs) \in bs
<1> DEFINE S == {NumBatches - b : b \in bs}
<1>0. \A b \in bs : b \in 1..NumBatches BY DEF Batches
<1>a. \A b \in bs : NumBatches - b \in Nat BY <1>0, Bounds
<1>1. S \subseteq Nat /\ S # {} BY <1>a
<1>2. PICK m \in S : \A n \in S : m <= n BY <1>1, Least
<1>3. PICK b \in bs : m = NumBatches - b BY <1>2
<1>4. \A c \in bs : NumBatches - b <= NumBatches - c BY <1>2, <1>3
<1>5. \A c \in bs : c <= b BY <1>0, <1>4, Bounds
<1>6. \E c \in bs : \A d \in bs : d <= c BY <1>5
<1> QED BY <1>6 DEF Newest

LEMMA ChunkTypes ==
    ASSUME NEW cursor \in Cursors
    PROVE  /\ Start(cursor) \in 0..NumObjects
           /\ Chunk(cursor) \subseteq Objects /\ IsFiniteSet(Chunk(cursor))
           /\ LastOf(cursor) \in Objects
           /\ Start(cursor) <= LastOf(cursor)
           /\ \A o \in Objects : o > Start(cursor) /\ o <= LastOf(cursor)
                                    => o \in Chunk(cursor)
           /\ Chunk(cursor) = {} => Start(cursor) = NumObjects
           /\ \A o \in Chunk(cursor) : o > Start(cursor)
<1>1. Start(cursor) \in 0..NumObjects BY Bounds DEF Start, Cursors, NULL, Objects
<1>2. Chunk(cursor) \subseteq Objects BY DEF Chunk
<1>3. IsFiniteSet(Objects) BY Bounds, FS_Interval DEF Objects
<1>4. IsFiniteSet(Chunk(cursor)) BY <1>2, <1>3, FS_Subset
<1> DEFINE s == Start(cursor)
<1>5. s \in 0..NumObjects BY <1>1
<1>6. LastOf(cursor) = IF s + ChunkSize < NumObjects THEN s + ChunkSize ELSE NumObjects
  BY DEF LastOf
<1>7. Chunk(cursor) = {o \in Objects : s < o /\ o <= s + ChunkSize} BY DEF Chunk
<1> HIDE DEF s
<1>8. LastOf(cursor) \in Objects /\ s <= LastOf(cursor)
  BY <1>5, <1>6, Bounds DEF Objects
<1>9. \A o \in Objects : o > s /\ o <= LastOf(cursor) => o \in Chunk(cursor)
  BY <1>5, <1>6, <1>7, Bounds DEF Objects
<1>10. Chunk(cursor) = {} => s = NumObjects
  <2> SUFFICES ASSUME s # NumObjects PROVE s + 1 \in Chunk(cursor) OBVIOUS
  <2> QED BY <1>5, <1>7, Bounds DEF Objects
<1>11. \A o \in Chunk(cursor) : o > s BY <1>5, <1>7, Bounds
<1> QED BY <1>1, <1>2, <1>4, <1>8, <1>9, <1>10, <1>11 DEF s

-----------------------------------------------------------------------------
(* Types *)

LEMMA InitTypes == ASSUME Init PROVE TypeInv
BY Bounds, NoRowTyped, NoBatchTyped, IdleTyped
   DEF Init, TypeInv, BatchTypes, RowTypes, TickTypes, FiberTypes, StaffTypes, ProcTypes,
       FiberSteps, Working, Counting, IdleTick, IdleStaff

LEMMA FreshRow ==
    ASSUME NEW b \in Batches \cup Requests, NEW o \in Objects
    PROVE  LET q == [NoRow EXCEPT !.batch = b, !.status = "PENDING", !.obj = o] IN
           /\ q \in RowRecords /\ q.status = "PENDING" /\ q.attempts = 0
           /\ q.batch = b /\ q.obj = o
<1>1. 0 \in 0..MaxAttempts BY Bounds
<1> QED BY <1>1 DEF NoRow, RowRecords

\* Fresh rows keep the table, and the fibers, which hold none of them.
LEMMA InsertTypes ==
    ASSUME RowTypes, NEW b \in Batches \cup Requests, NEW objs, objs \subseteq Objects,
           _insert_batch(b, objs)
    PROVE  /\ RowTypes' /\ RowsKept
           /\ \A r \in Rows : row[r].status # "none" => row'[r] = row[r]
           /\ \A r \in Rows : row[r].status = "none" /\ row'[r].status # "none" =>
                 row'[r].batch = b /\ row'[r].obj \in objs
           /\ \A o \in objs : \E r \in Rows :
                 row'[r].status # "none" /\ row'[r].batch = b /\ row'[r].obj = o
<1>1. PICK new \in [objs -> Rows \ Used] :
        LET inserted == {new[o] : o \in objs} IN
        /\ \A o, p \in objs : o < p => new[o] < new[p]
        /\ row' = [r \in Rows |->
                    IF r \in inserted
                    THEN [NoRow EXCEPT !.batch = b, !.status = "PENDING",
                                       !.obj = CHOOSE o \in objs : new[o] = r]
                    ELSE row[r]]
  BY DEF _insert_batch
<1> DEFINE inserted == {new[o] : o \in objs}
           Of(r) == CHOOSE o \in objs : new[o] = r
           fresh(r) == [NoRow EXCEPT !.batch = b, !.status = "PENDING", !.obj = Of(r)]
<1>2. \A r \in inserted : r \in Rows /\ row[r].status = "none" BY DEF Used
<1>3. \A r \in inserted : Of(r) \in objs /\ new[Of(r)] = r OBVIOUS
<1>4. row' = [r \in Rows |-> IF r \in inserted THEN fresh(r) ELSE row[r]] BY <1>1
<1>5. \A o \in objs : Of(new[o]) = o
  <2>1. TAKE o \in objs
  <2>2. new[o] \in inserted OBVIOUS
  <2>3. Of(new[o]) \in objs /\ new[Of(new[o])] = new[o] BY <1>3, <2>2
  <2> DEFINE c == Of(new[o])
  <2>4. c \in objs /\ new[c] = new[o] BY <2>3
  <2> HIDE DEF c
  <2>5. c \in Nat /\ o \in Nat /\ new[c] \in Nat /\ new[o] \in Nat BY <2>4, Bounds DEF Rows
  <2>6. (c < o => new[c] < new[o]) /\ (o < c => new[o] < new[c]) BY <1>1, <2>4
  <2>7. c = o BY <2>4, <2>5, <2>6
  <2> QED BY <2>7 DEF c
<1> HIDE DEF Of
<1>6. \A r \in inserted :
        /\ fresh(r) \in RowRecords /\ fresh(r).status = "PENDING" /\ fresh(r).attempts = 0
        /\ fresh(r).batch = b /\ fresh(r).obj = Of(r)
  <2> SUFFICES ASSUME NEW r \in inserted
               PROVE  /\ fresh(r) \in RowRecords /\ fresh(r).status = "PENDING"
                      /\ fresh(r).attempts = 0 /\ fresh(r).batch = b
                      /\ fresh(r).obj = Of(r)
    OBVIOUS
  <2>1. Of(r) \in Objects BY <1>3
  <2>2. \A o \in Objects : LET q == [NoRow EXCEPT !.batch = b, !.status = "PENDING", !.obj = o]
                           IN /\ q \in RowRecords /\ q.status = "PENDING" /\ q.attempts = 0
                              /\ q.batch = b /\ q.obj = o
    BY FreshRow
  <2> QED BY <2>1, <2>2
<1> HIDE DEF fresh
<1>7. \A r \in Rows : row[r].status # "none" => row'[r] = row[r] BY <1>2, <1>4
<1>8. \A r \in Rows : row[r].status = "none" /\ row'[r].status # "none" => r \in inserted
  BY <1>4
<1>9. \A o \in objs : new[o] \in inserted /\ new[o] \in Rows OBVIOUS
<1> HIDE DEF inserted
<1>10. RowTypes'
  <2>1. row' \in [Rows -> RowRecords] BY <1>4, <1>6 DEF RowTypes
  <2>2. \A r \in Rows : IF r \in inserted THEN row'[r] = fresh(r) ELSE row'[r] = row[r]
    BY <1>4
  <2>3. 0 < MaxAttempts BY Bounds
  <2>4. \A r \in inserted : Of(r) \in Objects BY <1>3
  <2>5. \A r \in inserted : fresh(r).attempts < MaxAttempts /\ fresh(r).status # "none"
                            /\ fresh(r).obj \in Objects
    BY <1>6, <2>3, <2>4
  <2> QED BY <2>1, <2>2, <2>5 DEF RowTypes
<1>11. \A o \in objs :
         row'[new[o]].status # "none" /\ row'[new[o]].batch = b /\ row'[new[o]].obj = o
  BY <1>4, <1>5, <1>6, <1>9
<1>12. \A r \in Rows : row[r].status = "none" /\ row'[r].status # "none" =>
                          row'[r].batch = b /\ row'[r].obj \in objs
  BY <1>3, <1>4, <1>6, <1>8
<1>13. RowsKept BY <1>7 DEF RowsKept
<1> QED BY <1>7, <1>9, <1>10, <1>11, <1>12, <1>13

LEMMA SameRows == ASSUME RowTypes, UNCHANGED row PROVE RowTypes' /\ RowsKept
BY DEF RowTypes, RowsKept

\* One row is written; its id, batch and object stay.
LEMMA RowWritten ==
    ASSUME RowTypes, NEW r \in Rows, row[r].status # "none", NEW q \in RowRecords,
           q.status # "none", q.batch = row[r].batch, q.obj = row[r].obj,
           q.status \in {"PENDING", "IN_PROGRESS"} => q.attempts < MaxAttempts,
           row' = [row EXCEPT ![r] = q]
    PROVE  RowTypes' /\ RowsKept
BY DEF RowTypes, RowsKept

\* Many rows are written at once, none of them a fresh one.
LEMMA RowsWritten ==
    ASSUME RowTypes, NEW S \in SUBSET Rows, NEW q,
           \A r \in S : /\ row[r].status # "none" /\ q[r] \in RowRecords
                        /\ q[r].status # "none" /\ q[r].batch = row[r].batch
                        /\ q[r].obj = row[r].obj /\ q[r].attempts = row[r].attempts
                        /\ q[r].status \in {"PENDING", "IN_PROGRESS"}
                              => row[r].status \in {"PENDING", "IN_PROGRESS"},
           row' = [r \in Rows |-> IF r \in S THEN q[r] ELSE row[r]]
    PROVE  RowTypes' /\ RowsKept /\ \A r \in Rows : row'[r].attempts = row[r].attempts
BY DEF RowTypes, RowsKept

\* What the fibers know of their rows survives a step that leaves them alone.
LEMMA SameFibers ==
    ASSUME RowTypes, FiberTypes, RowsKept, UNCHANGED fiber,
           \A r \in Rows : row[r].status # "none" => row'[r].attempts = row[r].attempts
    PROVE  FiberTypes'
BY DEF FiberTypes, RowsKept, RowTypes, Working, Counting, FiberSteps

LEMMA BatchWritten ==
    ASSUME BatchTypes, NEW b \in Batches, NEW q \in BatchRecords,
           batch' = [batch EXCEPT ![b] = q] \/ UNCHANGED batch
    PROVE  BatchTypes'
BY DEF BatchTypes

LEMMA TickWritten ==
    ASSUME TickTypes, NEW t \in Ticks, NEW d \in TickRecords,
           d.pc # "idle" => d.batch \in Batches, tick' = [tick EXCEPT ![t] = d]
    PROVE  TickTypes'
BY DEF TickTypes

LEMMA AdvancedTypes ==
    ASSUME BatchTypes, NEW b \in Batches, NEW c, NEW new \in Cursors, NEW done \in BOOLEAN
    PROVE  Advanced(b, c, new, done) \in [Batches -> BatchRecords]
<1>1. batch[b] \in BatchRecords BY DEF BatchTypes
<1>2. [batch[b] EXCEPT !.cursor = new, !.enqueue_complete = @ \/ done] \in BatchRecords
  BY <1>1 DEF BatchRecords, Cursors
<1> QED BY <1>2 DEF Advanced, BatchTypes

LEMMA ProducerTypes ==
    ASSUME TypeInv, NEW t \in Ticks, Producer(t) \/ tick_failed(t)
    PROVE  TypeInv' /\ RowsKept
<1>q. /\ BatchTypes /\ RowTypes /\ TickTypes /\ FiberTypes /\ StaffTypes /\ ProcTypes
      /\ tick[t] \in TickRecords
  BY DEF TypeInv, TickTypes
<1>c. tick[t].cursor \in Cursors /\ tick[t].chunk \subseteq Objects
      /\ (tick[t].pc # "idle" => tick[t].batch \in Batches)
  BY <1>q DEF TickRecords, TickTypes
<1>s. (UNCHANGED row => RowTypes' /\ RowsKept)
      /\ (UNCHANGED row /\ UNCHANGED fiber => FiberTypes')
  BY <1>q, SameRows, SameFibers DEF RowTypes
<1>1. CASE tick_read(t)
  <2> DEFINE b == Newest(Running)
             d == [pc |-> IF Chunk(batch[b].cursor) = {} THEN "done" ELSE "insert",
                   batch |-> b, cursor |-> batch[b].cursor,
                   chunk |-> Chunk(batch[b].cursor)]
  <2>1. b \in Batches
    BY <1>1, NewestBatch DEF tick_read, Running
  <2>2. batch[b].cursor \in Cursors BY <1>q, <2>1 DEF BatchTypes, BatchRecords, Cursors
  <2>3. Chunk(batch[b].cursor) \subseteq Objects BY <2>2, ChunkTypes
  <2>4. d \in TickRecords BY <2>1, <2>2, <2>3 DEF TickRecords
  <2>5. tick' = [tick EXCEPT ![t] = d] BY <1>1 DEF tick_read
  <2>6. d.batch \in Batches BY <2>1
  <2> HIDE DEF d, b
  <2>7. TickTypes' BY <1>q, <2>4, <2>5, <2>6, TickWritten
  <2> QED BY <1>q, <1>s, <1>1, <2>7
          DEF tick_read, tables, TypeInv, BatchTypes, StaffTypes, ProcTypes
<1>2. CASE tick_insert(t)
  <2>1. RowTypes' /\ RowsKept
        /\ \A r \in Rows : row[r].status # "none" => row'[r] = row[r]
    BY <1>q, <1>c, <1>2, InsertTypes DEF tick_insert
  <2>2. FiberTypes' BY <1>q, <1>2, <2>1, SameFibers DEF tick_insert
  <2>3. TickTypes'
    <3>1. [tick[t] EXCEPT !.pc = "advance"] \in TickRecords BY <1>q DEF TickRecords
    <3> QED BY <1>q, <1>c, <1>2, <3>1, TickWritten DEF tick_insert, TickTypes
  <2> QED BY <1>q, <1>2, <2>1, <2>2, <2>3
          DEF tick_insert, TypeInv, BatchTypes, StaffTypes, ProcTypes
<1>3. CASE tick_advance(t) \/ tick_done(t)
  <2>1. BatchTypes'
    <3> DEFINE b == tick[t].batch
               c == tick[t].cursor
    <3>1. LastOf(c) \in Cursors /\ c \in Cursors BY <1>c, ChunkTypes DEF Cursors
    <3>2. b \in Batches BY <1>c, <1>3 DEF tick_advance, tick_done
    <3>3. batch' = Advanced(b, c, LastOf(c), FALSE) \/ batch' = Advanced(b, c, c, TRUE)
      BY <1>3 DEF tick_advance, tick_done
    <3> HIDE DEF b, c
    <3>4. Advanced(b, c, LastOf(c), FALSE) \in [Batches -> BatchRecords]
      BY <1>q, <3>1, <3>2, AdvancedTypes
    <3>5. Advanced(b, c, c, TRUE) \in [Batches -> BatchRecords]
      BY <1>q, <3>1, <3>2, AdvancedTypes
    <3> QED BY <3>3, <3>4, <3>5 DEF BatchTypes
  <2>2. TickTypes'
    <3>1. \A pc \in {"total", "empty"} : [tick[t] EXCEPT !.pc = pc] \in TickRecords
      BY <1>q DEF TickRecords
    <3>2. PICK pc \in {"total", "empty"} : tick' = [tick EXCEPT ![t].pc = pc]
      BY <1>3 DEF tick_advance, tick_done
    <3> DEFINE d == [tick[t] EXCEPT !.pc = pc]
    <3>3. d \in TickRecords /\ d.batch = tick[t].batch BY <1>q, <3>1 DEF TickRecords
    <3>4. tick[t].batch \in Batches BY <1>c, <1>3 DEF tick_advance, tick_done
    <3>5. tick' = [tick EXCEPT ![t] = d] BY <3>2
    <3> HIDE DEF d
    <3> QED BY <1>q, <3>3, <3>4, <3>5, TickWritten
  <2> QED BY <1>q, <1>s, <1>3, <2>1, <2>2
          DEF tick_advance, tick_done, TypeInv, StaffTypes, ProcTypes
<1>4. CASE increment_total(t) \/ complete_if_empty(t) \/ tick_failed(t)
  <2>1. TickTypes'
    BY <1>q, <1>4, IdleTyped, TickWritten
       DEF increment_total, complete_if_empty, tick_failed, IdleTick
  <2>2. BatchTypes'
    <3>1. CASE increment_total(t)
      <4>1. Cardinality(tick[t].chunk) \in Nat
        <5>1. IsFiniteSet(Objects) BY Bounds, FS_Interval DEF Objects
        <5> QED BY <1>c, <5>1, FS_Subset, FS_CardinalityType
      <4>2. batch[tick[t].batch] \in BatchRecords
        BY <1>q, <1>c, <3>1 DEF increment_total, BatchTypes
      <4>3. [batch[tick[t].batch] EXCEPT !.total = @ + Cardinality(tick[t].chunk)]
               \in BatchRecords
        BY <4>1, <4>2 DEF BatchRecords
      <4> QED BY <1>q, <1>c, <3>1, <4>3 DEF increment_total, BatchTypes
    <3>2. CASE complete_if_empty(t)
      <4>1. batch[tick[t].batch] \in BatchRecords
        BY <1>q, <1>c, <3>2 DEF complete_if_empty, BatchTypes
      <4>2. [batch[tick[t].batch] EXCEPT !.status = "completed"] \in BatchRecords
        BY <4>1 DEF BatchRecords
      <4> QED BY <1>q, <1>c, <3>2, <4>2 DEF complete_if_empty, BatchTypes
    <3> QED BY <1>q, <1>4, <3>1, <3>2 DEF tick_failed, tables, BatchTypes
  <2>3. UNCHANGED <<row, fiber, refreshed, worker, token, staff, ops>> /\ faults' \in Nat
    BY <1>q, <1>4
       DEF increment_total, complete_if_empty, tick_failed, tables, Fault, ProcTypes
  <2> QED BY <1>q, <1>s, <2>1, <2>2, <2>3 DEF TypeInv, StaffTypes, ProcTypes
<1> QED BY <1>1, <1>2, <1>3, <1>4 DEF Producer

LEMMA OrphansReset ==
    ASSUME RowTypes, NEW by_age \in BOOLEAN, reset_orphaned(by_age)
    PROVE  /\ RowTypes' /\ RowsKept
           /\ \A r \in Rows : row'[r].attempts = row[r].attempts
           /\ \A r \in Rows : row[r].is_complete => row'[r] = row[r]
<1> DEFINE S == Orphans(by_age)
           q == [r \in Rows |-> [row[r] EXCEPT !.status = "PENDING", !.waiting = FALSE]]
<1>1. S \in SUBSET Rows
      /\ \A r \in S : row[r].status = "IN_PROGRESS" /\ ~row[r].is_complete
  BY DEF Orphans
<1>2. \A r \in S : /\ q[r] \in RowRecords /\ q[r].status = "PENDING"
                   /\ q[r].batch = row[r].batch
                   /\ q[r].obj = row[r].obj /\ q[r].attempts = row[r].attempts
  BY <1>1 DEF RowTypes, RowRecords
<1>3. row' = [r \in Rows |-> IF r \in S THEN q[r] ELSE row[r]]
  BY <1>1 DEF reset_orphaned
<1> HIDE DEF S, q
<1>w. RowTypes /\ \A r \in S :
         /\ row[r].status # "none" /\ q[r] \in RowRecords
         /\ q[r].status # "none" /\ q[r].batch = row[r].batch
         /\ q[r].obj = row[r].obj /\ q[r].attempts = row[r].attempts
         /\ q[r].status \in {"PENDING", "IN_PROGRESS"}
               => row[r].status \in {"PENDING", "IN_PROGRESS"}
  BY <1>1, <1>2
<1>4. RowTypes' /\ RowsKept /\ \A r \in Rows : row'[r].attempts = row[r].attempts
  BY <1>1, <1>w, <1>3, RowsWritten
<1> QED BY <1>1, <1>3, <1>4

LEMMA LoopTypes ==
    ASSUME TypeInv, WorkerLoop
    PROVE  TypeInv' /\ RowsKept
<1>q. BatchTypes /\ RowTypes /\ TickTypes /\ FiberTypes /\ StaffTypes /\ ProcTypes
  BY DEF TypeInv
<1>s. UNCHANGED <<row, fiber>> => RowTypes' /\ RowsKept /\ FiberTypes'
  BY <1>q, SameRows, SameFibers
<1>1. CASE worker_tick
  <2>1. RowTypes' /\ RowsKept /\ FiberTypes'
    <3>1. CASE reset_orphaned(TRUE) BY <1>q, <1>1, <3>1, OrphansReset, SameFibers DEF worker_tick
    <3>2. CASE UNCHANGED row BY <1>s, <1>1, <3>2 DEF worker_tick
    <3> QED BY <1>1, <3>1, <3>2 DEF worker_tick
  <2>t. token' \in BOOLEAN BY <1>q, <1>1, Zenon DEF worker_tick, ProcTypes
  <2>2. ProcTypes'
    <3>0. UNCHANGED <<refreshed, ops>> /\ (faults' = faults \/ faults' = faults + 1)
      BY <1>1, Zenon DEF worker_tick, Fault
    <3>1. refreshed' \subseteq Objects /\ faults' \in Nat /\ ops' \in Nat
      BY <1>q, <3>0 DEF ProcTypes
    <3>2. worker' \in {"down", "idle", "claim", "run", "rotate"}
      BY <1>q, <1>1 DEF worker_tick, ProcTypes
    <3> QED BY <2>t, <3>1, <3>2 DEF ProcTypes
  <2> QED BY <1>q, <1>1, <2>1, <2>2
          DEF worker_tick, TypeInv, BatchTypes, TickTypes, StaffTypes
<1>2. CASE claim_pending
  <2> DEFINE S == {r \in Claimable : Cardinality({q \in Claimable : Before(q, r)}) < Concurrency}
             w == [r \in Rows |-> [row[r] EXCEPT !.status = "IN_PROGRESS", !.waiting = TRUE]]
  <2>1. RowTypes' /\ RowsKept /\ FiberTypes'
    <3>1. CASE row' = [r \in Rows |-> IF r \in S THEN w[r] ELSE row[r]]
               /\ fiber' = [r \in Rows |-> IF r \in S THEN "fetch" ELSE fiber[r]]
      <4>1. S \in SUBSET Rows /\ \A r \in S : row[r].status = "PENDING"
        BY DEF Claimable
      <4>2. \A r \in S : /\ w[r] \in RowRecords /\ w[r].status = "IN_PROGRESS"
                         /\ w[r].batch = row[r].batch /\ w[r].obj = row[r].obj
                         /\ w[r].attempts = row[r].attempts
        BY <1>q, <4>1 DEF RowTypes, RowRecords
      <4> HIDE DEF S, w
      <4>w. RowTypes /\ \A r \in S :
               /\ row[r].status # "none" /\ w[r] \in RowRecords
               /\ w[r].status # "none" /\ w[r].batch = row[r].batch
               /\ w[r].obj = row[r].obj /\ w[r].attempts = row[r].attempts
               /\ w[r].status \in {"PENDING", "IN_PROGRESS"}
                     => row[r].status \in {"PENDING", "IN_PROGRESS"}
        BY <1>q, <4>1, <4>2
      <4>3. RowTypes' /\ RowsKept /\ \A r \in Rows : row'[r].attempts = row[r].attempts
        BY <3>1, <4>1, <4>w, RowsWritten
      <4>4. \A r \in S : row[r].attempts < MaxAttempts BY <1>q, <4>1 DEF RowTypes
      <4>5. fiber' \in [Rows -> FiberSteps] BY <1>q, <3>1 DEF FiberTypes, FiberSteps
      <4>6. ASSUME NEW r \in Rows
            PROVE  /\ fiber'[r] # "idle" => row'[r].status # "none"
                   /\ fiber'[r] \in Working => row'[r].attempts < MaxAttempts
                   /\ fiber'[r] \in Counting => row'[r].batch \in Batches
        <5>1. CASE r \in S
          BY <3>1, <4>1, <4>2, <4>4, <5>1 DEF Counting
        <5>2. CASE r \notin S BY <1>q, <3>1, <5>2 DEF FiberTypes
        <5> QED BY <5>1, <5>2
      <4> QED BY <4>3, <4>5, <4>6 DEF FiberTypes
    <3>2. CASE UNCHANGED <<row, fiber>> BY <1>s, <3>2
    <3> QED BY <1>2, <3>1, <3>2 DEF claim_pending
  <2>2. ProcTypes'
    <3>0. UNCHANGED <<refreshed, ops, token>> /\ (faults' = faults \/ faults' = faults + 1)
      BY <1>2, Zenon DEF claim_pending, Fault
    <3>1. refreshed' \subseteq Objects /\ faults' \in Nat /\ ops' \in Nat /\ UNCHANGED token
      BY <1>q, <3>0 DEF ProcTypes
    <3>2. worker' \in {"down", "idle", "claim", "run", "rotate"}
      BY <1>q, <1>2 DEF claim_pending, ProcTypes
    <3> QED BY <1>q, <3>1, <3>2 DEF ProcTypes
  <2> QED BY <1>q, <1>2, <2>1, <2>2
          DEF claim_pending, TypeInv, BatchTypes, TickTypes, StaffTypes
<1>3. CASE worker_settled \/ _maybe_rotate_token
  <2>t. token' \in BOOLEAN
    BY <1>q, <1>3, Zenon DEF worker_settled, _maybe_rotate_token, ProcTypes
  <2>1. ProcTypes'
    <3>1. refreshed' \subseteq Objects /\ faults' \in Nat /\ ops' \in Nat
          /\ worker' \in {"down", "idle", "claim", "run", "rotate"}
      BY <1>q, <1>3 DEF worker_settled, _maybe_rotate_token, tables, Fault, ProcTypes
    <3> QED BY <2>t, <3>1 DEF ProcTypes
  <2>2. UNCHANGED <<batch, row, fiber, tick, staff>>
    BY <1>3 DEF worker_settled, _maybe_rotate_token, tables
  <2> QED BY <1>q, <1>s, <2>1, <2>2 DEF TypeInv, BatchTypes, TickTypes, StaffTypes
<1> QED BY <1>1, <1>2, <1>3 DEF WorkerLoop

\* A fiber moves on, and knows as much of its row as its next step needs.
LEMMA FiberMoved ==
    ASSUME FiberTypes, RowTypes, RowsKept, NEW r \in Rows, NEW pc \in FiberSteps, Goto(r, pc),
           row[r].status # "none",
           pc \in Working => row'[r].attempts < MaxAttempts,
           pc \in Counting => row[r].batch \in Batches,
           \A q \in Rows \ {r} : row'[q] = row[q]
    PROVE  FiberTypes'
<1>1. fiber' = [fiber EXCEPT ![r] = pc] BY DEF Goto
<1>2. row'[r].status # "none" /\ row'[r].batch = row[r].batch BY DEF RowsKept
<1> QED BY <1>1, <1>2 DEF FiberTypes

\* A fiber step that leaves the table alone.
LEMMA FiberOnly ==
    ASSUME FiberTypes, RowTypes, NEW r \in Rows, NEW pc \in FiberSteps, Goto(r, pc),
           row[r].status # "none", UNCHANGED row,
           pc \in Working => row[r].attempts < MaxAttempts,
           pc \in Counting => row[r].batch \in Batches
    PROVE  RowTypes' /\ RowsKept /\ FiberTypes'
<1>1. RowTypes' /\ RowsKept BY SameRows
<1> QED BY <1>1, FiberMoved

\* A fiber step that writes its row.
LEMMA FiberAndRow ==
    ASSUME FiberTypes, RowTypes, NEW r \in Rows, NEW pc \in FiberSteps, Goto(r, pc),
           row[r].status # "none", NEW q \in RowRecords, q.status # "none",
           q.batch = row[r].batch, q.obj = row[r].obj, row' = [row EXCEPT ![r] = q],
           q.status \in {"PENDING", "IN_PROGRESS"} => q.attempts < MaxAttempts,
           pc \in Working => q.attempts < MaxAttempts,
           pc \in Counting => row[r].batch \in Batches
    PROVE  RowTypes' /\ RowsKept /\ FiberTypes'
<1>1. RowTypes' /\ RowsKept BY RowWritten
<1>2. row'[r] = q /\ \A p \in Rows \ {r} : row'[p] = row[p] BY DEF RowTypes
<1> QED BY <1>1, <1>2, FiberMoved

LEMMA Failed ==
    ASSUME NEW q \in RowRecords, q.attempts < MaxAttempts, q.status # "none"
    PROVE  /\ MarkFailed(q) \in RowRecords /\ MarkFailed(q).status # "none"
           /\ MarkFailed(q).batch = q.batch /\ MarkFailed(q).obj = q.obj
           /\ MarkFailed(q).status \in {"PENDING", "IN_PROGRESS"}
                => MarkFailed(q).attempts < MaxAttempts
<1> DEFINE f == [q EXCEPT !.attempts = @ + 1]
           again == [f EXCEPT !.status = "PENDING", !.is_complete = FALSE, !.waiting = TRUE]
           dead == [f EXCEPT !.status = "DEAD_LETTERED", !.is_complete = TRUE, !.waiting = FALSE]
<1>1. q.attempts + 1 \in 0..MaxAttempts BY Bounds DEF RowRecords
<1>2. f \in RowRecords /\ f.batch = q.batch /\ f.obj = q.obj BY <1>1 DEF RowRecords
<1> HIDE DEF f
<1>3. /\ again \in RowRecords /\ again.status = "PENDING" /\ again.attempts = f.attempts
      /\ again.batch = f.batch /\ again.obj = f.obj
  BY <1>2 DEF RowRecords
<1>4. /\ dead \in RowRecords /\ dead.status = "DEAD_LETTERED"
      /\ dead.batch = f.batch /\ dead.obj = f.obj
  BY <1>2 DEF RowRecords
<1>5. MarkFailed(q) = IF f.attempts < MaxAttempts THEN again ELSE dead
  BY DEF MarkFailed, Retried, f
<1> HIDE DEF again, dead
<1> QED BY <1>2, <1>3, <1>4, <1>5

LEMMA FiberStepTypes ==
    ASSUME TypeInv, NEW r \in Rows, process_row(r)
    PROVE  TypeInv' /\ RowsKept
<1>q. /\ BatchTypes /\ RowTypes /\ TickTypes /\ FiberTypes /\ StaffTypes /\ ProcTypes
      /\ row[r] \in RowRecords
  BY DEF TypeInv, RowTypes
<1>f. fiber[r] # "idle"
  BY DEF process_row, fetch, update_metadata_payload, mark_updated, mark_complete,
     mark_failed, count, look, close
<1>n. /\ row[r].status # "none"
      /\ fiber[r] \in Working => row[r].attempts < MaxAttempts
      /\ fiber[r] \in Counting => row[r].batch \in Batches
  BY <1>q, <1>f DEF FiberTypes
<1>c. /\ UNCHANGED <<tick, worker, token, staff, ops>>
      /\ faults' = faults \/ faults' = faults + 1
  BY Zenon DEF process_row, fetch, update_metadata_payload, mark_updated, mark_complete,
     mark_failed, count, look, close, fiberRest, Fault
<1>r. UNCHANGED <<tick, staff>> /\ ProcTypes'
  <2>1. refreshed' \subseteq Objects
    <3>1. row[r].obj \in Objects BY <1>q, <1>n DEF RowTypes
    <3>2. UNCHANGED refreshed \/ refreshed' = refreshed \cup {row[r].obj}
      BY Zenon DEF process_row, fetch, update_metadata_payload, mark_updated,
         mark_complete, mark_failed, count, look, close, tables
    <3> QED BY <1>q, <3>1, <3>2 DEF ProcTypes
  <2> QED BY <1>q, <1>c, <2>1 DEF ProcTypes
<1>1. CASE fetch(r) \/ update_metadata_payload(r)
  <2>1. PICK pc \in {"write", "mark_updated", "mark_failed"} : Goto(r, pc) /\ UNCHANGED row
    BY <1>1 DEF fetch, update_metadata_payload, tables
  <2>2. fiber[r] \in Working BY <1>1 DEF fetch, update_metadata_payload, Working
  <2>3. pc \in FiberSteps /\ pc \notin Counting BY DEF FiberSteps, Counting
  <2>4. RowTypes' /\ RowsKept /\ FiberTypes' BY <1>q, <1>n, <2>1, <2>2, <2>3, FiberOnly
  <2>5. UNCHANGED batch BY <1>1 DEF fetch, update_metadata_payload, tables
  <2> QED BY <1>q, <1>r, <2>4, <2>5 DEF TypeInv, BatchTypes, TickTypes, StaffTypes
<1>2. CASE mark_updated(r) \/ mark_complete(r)
  <2>w. fiber[r] \in Working BY <1>2 DEF mark_updated, mark_complete, Working
  <2>1. ASSUME Goto(r, "mark_failed"), UNCHANGED row
        PROVE  RowTypes' /\ RowsKept /\ FiberTypes'
    <3>1. "mark_failed" \in FiberSteps /\ "mark_failed" \notin Counting
      BY DEF FiberSteps, Counting
    <3> QED BY <1>q, <1>n, <2>w, <2>1, <3>1, FiberOnly
  <2>2. ASSUME row' = [row EXCEPT ![r].status = "RECORD_UPDATED", ![r].waiting = FALSE],
               Goto(r, "mark_complete")
        PROVE  RowTypes' /\ RowsKept /\ FiberTypes'
    <3> DEFINE q == [row[r] EXCEPT !.status = "RECORD_UPDATED", !.waiting = FALSE]
    <3>1. /\ q \in RowRecords /\ q.status = "RECORD_UPDATED" /\ q.batch = row[r].batch
          /\ q.obj = row[r].obj /\ q.attempts = row[r].attempts
      BY <1>q DEF RowRecords
    <3>2. row' = [row EXCEPT ![r] = q] BY <2>2
    <3> HIDE DEF q
    <3>3. "mark_complete" \in FiberSteps /\ "mark_complete" \notin Counting
      BY DEF FiberSteps, Counting
    <3> QED BY <1>q, <1>n, <2>w, <2>2, <3>1, <3>2, <3>3, FiberAndRow
  <2>3. ASSUME row' = [row EXCEPT ![r].status = "COMPLETE", ![r].is_complete = TRUE],
               Goto(r, CountStep(r, "count_ok"))
        PROVE  RowTypes' /\ RowsKept /\ FiberTypes'
    <3> DEFINE q == [row[r] EXCEPT !.status = "COMPLETE", !.is_complete = TRUE]
    <3>1. /\ q \in RowRecords /\ q.status = "COMPLETE" /\ q.batch = row[r].batch
          /\ q.obj = row[r].obj /\ q.attempts = row[r].attempts
      BY <1>q DEF RowRecords
    <3>2. row' = [row EXCEPT ![r] = q] BY <2>3
    <3> HIDE DEF q
    <3>3. CountStep(r, "count_ok") \in FiberSteps /\ CountStep(r, "count_ok") \notin Working
          /\ (CountStep(r, "count_ok") \in Counting => row[r].batch \in Batches)
      BY DEF FiberSteps, Working, Counting, CountStep
    <3> QED BY <1>q, <1>n, <2>3, <3>1, <3>2, <3>3, FiberAndRow
  <2>4. RowTypes' /\ RowsKept /\ FiberTypes'
    BY <1>2, <2>1, <2>2, <2>3 DEF mark_updated, mark_complete
  <2>5. UNCHANGED batch BY <1>2 DEF mark_updated, mark_complete
  <2> QED BY <1>q, <1>r, <2>4, <2>5 DEF TypeInv, BatchTypes, TickTypes, StaffTypes
<1>3. CASE mark_failed(r)
  <2>w. row[r].attempts < MaxAttempts BY <1>n, <1>3 DEF mark_failed, Working
  <2>1. ASSUME Goto(r, "idle"), UNCHANGED row
        PROVE  RowTypes' /\ RowsKept /\ FiberTypes'
    <3>1. "idle" \in FiberSteps /\ "idle" \notin Counting /\ "idle" \notin Working
      BY DEF FiberSteps, Counting, Working
    <3> QED BY <1>q, <1>n, <2>1, <3>1, FiberOnly
  <2>2. ASSUME row' = [row EXCEPT ![r] = MarkFailed(@)], Goto(r, AfterFailure(r))
        PROVE  RowTypes' /\ RowsKept /\ FiberTypes'
    <3>1. AfterFailure(r) \in FiberSteps /\ AfterFailure(r) \notin Working
          /\ (AfterFailure(r) \in Counting => row[r].batch \in Batches)
      BY DEF FiberSteps, Working, Counting, CountStep, AfterFailure
    <3>2. row' = [row EXCEPT ![r] = MarkFailed(row[r])] BY <2>2
    <3>3. /\ MarkFailed(row[r]) \in RowRecords /\ MarkFailed(row[r]).status # "none"
          /\ MarkFailed(row[r]).batch = row[r].batch /\ MarkFailed(row[r]).obj = row[r].obj
          /\ MarkFailed(row[r]).status \in {"PENDING", "IN_PROGRESS"}
                => MarkFailed(row[r]).attempts < MaxAttempts
      BY <1>q, <1>n, <2>w, Failed
    <3> QED BY <1>q, <1>n, <2>2, <3>1, <3>2, <3>3, FiberAndRow
  <2>4. RowTypes' /\ RowsKept /\ FiberTypes' BY <1>3, <2>1, <2>2 DEF mark_failed
  <2>5. UNCHANGED batch BY <1>3 DEF mark_failed
  <2> QED BY <1>q, <1>r, <2>4, <2>5 DEF TypeInv, BatchTypes, TickTypes, StaffTypes
<1>4. CASE count(r) \/ look(r) \/ close(r)
  <2>b. row[r].batch \in Batches /\ batch[row[r].batch] \in BatchRecords
    BY <1>q, <1>n, <1>4 DEF count, look, close, Counting, BatchTypes
  <2>1. PICK pc \in {"look", "close", "idle"} : Goto(r, pc) /\ UNCHANGED row
    BY <1>4 DEF count, look, close, tables
  <2>2. pc \in FiberSteps /\ pc \notin Working BY DEF FiberSteps, Working
  <2>3. RowTypes' /\ RowsKept /\ FiberTypes' BY <1>q, <1>n, <2>b, <2>1, <2>2, FiberOnly
  <2>4. BatchTypes'
    <3>1. \/ UNCHANGED batch
          \/ batch' = [batch EXCEPT ![row[r].batch].succeeded = @ + 1]
          \/ batch' = [batch EXCEPT ![row[r].batch].dead_lettered = @ + 1]
          \/ batch' = [batch EXCEPT ![row[r].batch].status = "completed"]
      BY <1>4 DEF count, look, close, tables
    <3> DEFINE b == row[r].batch
    <3>2. /\ [batch[b] EXCEPT !.succeeded = @ + 1] \in BatchRecords
          /\ [batch[b] EXCEPT !.dead_lettered = @ + 1] \in BatchRecords
          /\ [batch[b] EXCEPT !.status = "completed"] \in BatchRecords
      BY <2>b DEF BatchRecords
    <3> QED BY <1>q, <2>b, <3>1, <3>2 DEF BatchTypes
  <2> QED BY <1>q, <1>r, <2>3, <2>4 DEF TypeInv, TickTypes, StaffTypes
<1> QED BY <1>1, <1>2, <1>3, <1>4 DEF process_row

\* The last cancelled batch gives a cursor a producer could have had.
LEMMA ResumeTypes == ASSUME TypeInv PROVE ResumeCursor \in Cursors
<1>1. CASE Cancelled = {} BY <1>1 DEF ResumeCursor, Cursors
<1>2. CASE Cancelled # {}
  <2> DEFINE b == Newest(Cancelled)
             open == Objects \ DoneSet(b)
             first == CHOOSE o \in open : \A p \in open : o <= p
  <2>1. b \in Batches BY <1>2, NewestBatch DEF Cancelled
  <2>2. batch[b].cursor \in Cursors
    BY <2>1 DEF TypeInv, BatchTypes, BatchRecords, Cursors
  <2>3. ASSUME open # {} PROVE first - 1 \in Cursors
    <3>1. open \subseteq Nat BY Bounds
    <3>2. \E o \in open : \A p \in open : o <= p BY <2>3, <3>1, Least
    <3>3. first \in Objects BY <3>2
    <3> HIDE DEF first
    <3> QED BY <3>3, Bounds DEF Cursors, Objects
  <2>4. ResumeCursor = batch[b].cursor \/ (open # {} /\ ResumeCursor = first - 1)
    BY <1>2 DEF ResumeCursor
  <2> HIDE DEF first, open, b
  <2> QED BY <2>2, <2>3, <2>4
<1> QED BY <1>1, <1>2

LEMMA StaffWritten ==
    ASSUME NEW d \in StaffRecords, d.pc \in {"flags", "delete", "status"} => d.batch \in Batches,
           staff' = d
    PROVE  StaffTypes'
BY DEF StaffTypes

\* A request in progress moves on.
LEMMA StaffMoved ==
    ASSUME StaffTypes, NEW pc \in {"create", "delete", "status"},
           pc \in {"delete", "status"} => staff.batch \in Batches,
           staff' = [staff EXCEPT !.pc = pc]
    PROVE  StaffTypes'
<1>1. staff \in StaffRecords BY DEF StaffTypes
<1> DEFINE d == [staff EXCEPT !.pc = pc]
<1>2. d \in StaffRecords /\ d.pc = pc /\ d.batch = staff.batch BY <1>1 DEF StaffRecords
<1> HIDE DEF d
<1>3. staff' = d BY DEF d
<1> QED BY <1>2, <1>3, StaffWritten

LEMMA StaffIdle == ASSUME staff' = IdleStaff PROVE StaffTypes'
<1>1. IdleStaff.pc = "idle" BY DEF IdleStaff
<1> QED BY <1>1, IdleTyped, StaffWritten

LEMMA StaffStepTypes ==
    ASSUME TypeInv, StaffRequests \/ Requests_in_progress
    PROVE  TypeInv' /\ RowsKept
<1>q. /\ BatchTypes /\ RowTypes /\ TickTypes /\ FiberTypes /\ StaffTypes /\ ProcTypes
      /\ staff \in StaffRecords /\ staff.cursor \in Cursors
      /\ staff.pc \in {"flags", "delete", "status"} => staff.batch \in Batches
  BY DEF TypeInv, StaffTypes, StaffRecords
<1>c. UNCHANGED <<refreshed, tick, worker, token, fiber, faults>>
      /\ (ops' = ops \/ ops' = ops + 1)
  BY Zenon DEF StaffRequests, Requests_in_progress, start_refresh, request_cancel, enqueue,
     cancel_batch, create_batch_check, create_batch, cancel_flags, cancel_delete,
     cancel_status, worldRest, Asked
<1>p. ProcTypes' BY <1>q, <1>c DEF ProcTypes
<1>t. TickTypes' BY <1>q, <1>c DEF TickTypes
<1>s. UNCHANGED row => RowTypes' /\ RowsKept /\ FiberTypes'
  BY <1>q, <1>c, SameRows, SameFibers DEF RowTypes
<1>b. UNCHANGED batch => BatchTypes' BY <1>q DEF BatchTypes
<1>f. UNCHANGED staff => StaffTypes' BY <1>q DEF StaffTypes
<1>1. CASE start_refresh
  <2>1. PICK c \in {NULL, ResumeCursor} : staff' = [pc |-> "check", batch |-> 0, cursor |-> c]
    BY <1>1 DEF start_refresh
  <2>2. c \in Cursors BY ResumeTypes DEF Cursors
  <2> DEFINE d == [pc |-> "check", batch |-> 0, cursor |-> c]
  <2>3. d \in StaffRecords /\ d.pc = "check" BY <2>2 DEF StaffRecords
  <2> HIDE DEF d
  <2>4. staff' = d BY <2>1 DEF d
  <2>5. StaffTypes' BY <2>3, <2>4, StaffWritten
  <2> QED BY <1>p, <1>t, <1>s, <1>b, <1>1, <2>5 DEF start_refresh, TypeInv
<1>2. CASE request_cancel
  <2>1. PICK b \in Running : staff' = [pc |-> "flags", batch |-> b, cursor |-> NULL]
    BY <1>2 DEF request_cancel
  <2> DEFINE d == [pc |-> "flags", batch |-> b, cursor |-> NULL]
  <2>3. d \in StaffRecords /\ d.batch \in Batches BY DEF StaffRecords, Running, Cursors
  <2> HIDE DEF d
  <2>4. staff' = d BY <2>1 DEF d
  <2>5. StaffTypes' BY <2>3, <2>4, StaffWritten
  <2> QED BY <1>p, <1>t, <1>s, <1>b, <1>2, <2>5 DEF request_cancel, TypeInv
<1>3. CASE enqueue
  <2>1. PICK q \in Requests, objs \in SUBSET Objects \ {{}} : _insert_batch(q, objs)
    BY <1>3 DEF enqueue
  <2>2. RowTypes' /\ RowsKept
        /\ \A r \in Rows : row[r].status # "none" => row'[r] = row[r]
    BY <1>q, <2>1, InsertTypes
  <2>3. FiberTypes' BY <1>q, <1>c, <2>2, SameFibers
  <2> QED BY <1>p, <1>t, <1>b, <1>f, <1>3, <2>2, <2>3 DEF enqueue, TypeInv
<1>4. CASE cancel_batch
  <2>1. PICK q \in Requests :
          row' = [r \in Rows |->
                       IF r \in RowsOf(q) /\ ~row[r].is_complete
                       THEN [row[r] EXCEPT !.status = "CANCELLED", !.is_complete = TRUE]
                       ELSE row[r]]
    BY <1>4 DEF cancel_batch
  <2> DEFINE S == {r \in RowsOf(q) : ~row[r].is_complete}
             w == [r \in Rows |-> [row[r] EXCEPT !.status = "CANCELLED", !.is_complete = TRUE]]
  <2>2. S \in SUBSET Rows /\ \A r \in S : row[r].status # "none" BY DEF RowsOf, Used
  <2>3. \A r \in S : /\ w[r] \in RowRecords /\ w[r].status = "CANCELLED"
                     /\ w[r].batch = row[r].batch /\ w[r].obj = row[r].obj
                     /\ w[r].attempts = row[r].attempts
    BY <1>q, <2>2 DEF RowTypes, RowRecords
  <2>4. row' = [r \in Rows |-> IF r \in S THEN w[r] ELSE row[r]] BY <2>1
  <2> HIDE DEF S, w
  <2>w. RowTypes /\ \A r \in S :
           /\ row[r].status # "none" /\ w[r] \in RowRecords
           /\ w[r].status # "none" /\ w[r].batch = row[r].batch
           /\ w[r].obj = row[r].obj /\ w[r].attempts = row[r].attempts
           /\ w[r].status \in {"PENDING", "IN_PROGRESS"}
                 => row[r].status \in {"PENDING", "IN_PROGRESS"}
    BY <1>q, <2>2, <2>3
  <2>5. RowTypes' /\ RowsKept /\ \A r \in Rows : row'[r].attempts = row[r].attempts
    BY <2>2, <2>w, <2>4, RowsWritten
  <2>6. FiberTypes' BY <1>q, <1>c, <2>5, SameFibers
  <2> QED BY <1>p, <1>t, <1>b, <1>f, <1>4, <2>5, <2>6 DEF cancel_batch, TypeInv
<1>5. CASE create_batch_check
  <2>1. staff' = IdleStaff \/ staff' = [staff EXCEPT !.pc = "create"]
    BY <1>5 DEF create_batch_check
  <2>2. StaffTypes' BY <1>q, <2>1, StaffIdle, StaffMoved
  <2> QED BY <1>p, <1>t, <1>s, <1>b, <1>5, <2>2 DEF create_batch_check, TypeInv
<1>6. CASE create_batch
  <2>1. PICK b \in Batches :
          batch' = [batch EXCEPT ![b] =
                         [NoBatch EXCEPT !.status = "running", !.cursor = staff.cursor,
                                         !.from = Start(staff.cursor)]]
    BY <1>6 DEF create_batch
  <2>2. Start(staff.cursor) \in Objects \cup {0}
    BY <1>q, ChunkTypes, Bounds DEF Objects
  <2>3. [NoBatch EXCEPT !.status = "running", !.cursor = staff.cursor,
                        !.from = Start(staff.cursor)] \in BatchRecords
    BY <1>q, <2>2 DEF NoBatch, BatchRecords, Cursors
  <2>4. BatchTypes' BY <1>q, <2>1, <2>3, BatchWritten
  <2>5. staff' = IdleStaff /\ UNCHANGED row BY <1>6 DEF create_batch
  <2> QED BY <1>p, <1>t, <1>s, <2>4, <2>5, StaffIdle DEF TypeInv
<1>7. CASE cancel_flags
  <2>0. staff.batch \in Batches BY <1>q, <1>7 DEF cancel_flags
  <2> DEFINE q == [batch[staff.batch] EXCEPT !.cancel_requested = TRUE,
                                             !.enqueue_complete = TRUE]
  <2>1. q \in BatchRecords BY <1>q, <2>0 DEF BatchTypes, BatchRecords
  <2>2. batch' = [batch EXCEPT ![staff.batch] = q] BY <1>7 DEF cancel_flags
  <2> HIDE DEF q
  <2>3. BatchTypes' BY <1>q, <2>0, <2>1, <2>2, BatchWritten
  <2>4. StaffTypes' BY <1>q, <1>7, <2>0, StaffMoved DEF cancel_flags
  <2> QED BY <1>p, <1>t, <1>s, <1>7, <2>3, <2>4 DEF cancel_flags, TypeInv
<1>8. CASE cancel_delete
  <2>0. staff.batch \in Batches BY <1>q, <1>8 DEF cancel_delete
  <2> DEFINE S == {r \in RowsOf(staff.batch) : row[r].status = "PENDING" /\ ~row[r].is_complete}
             w == [r \in Rows |-> [row[r] EXCEPT !.status = "deleted"]]
  <2>2. S \in SUBSET Rows /\ \A r \in S : row[r].status # "none" BY DEF RowsOf, Used
  <2>3. \A r \in S : /\ w[r] \in RowRecords /\ w[r].status = "deleted"
                     /\ w[r].batch = row[r].batch /\ w[r].obj = row[r].obj
                     /\ w[r].attempts = row[r].attempts
    BY <1>q, <2>2 DEF RowTypes, RowRecords
  <2>4. row' = [r \in Rows |-> IF r \in S THEN w[r] ELSE row[r]] BY <1>8 DEF cancel_delete
  <2> HIDE DEF S, w
  <2>w. RowTypes /\ \A r \in S :
           /\ row[r].status # "none" /\ w[r] \in RowRecords
           /\ w[r].status # "none" /\ w[r].batch = row[r].batch
           /\ w[r].obj = row[r].obj /\ w[r].attempts = row[r].attempts
           /\ w[r].status \in {"PENDING", "IN_PROGRESS"}
                 => row[r].status \in {"PENDING", "IN_PROGRESS"}
    BY <1>q, <2>2, <2>3
  <2>5. RowTypes' /\ RowsKept /\ \A r \in Rows : row'[r].attempts = row[r].attempts
    BY <2>2, <2>w, <2>4, RowsWritten
  <2>6. FiberTypes' BY <1>q, <1>c, <2>5, SameFibers
  <2>7. StaffTypes' BY <1>q, <1>8, <2>0, StaffMoved DEF cancel_delete
  <2> QED BY <1>p, <1>t, <1>b, <1>8, <2>5, <2>6, <2>7 DEF cancel_delete, TypeInv
<1>9. CASE cancel_status
  <2>0. staff.batch \in Batches BY <1>q, <1>9 DEF cancel_status
  <2> DEFINE q == [batch[staff.batch] EXCEPT !.status = "cancelled"]
  <2>1. q \in BatchRecords BY <1>q, <2>0 DEF BatchTypes, BatchRecords
  <2>2. batch' = [batch EXCEPT ![staff.batch] = q] BY <1>9 DEF cancel_status
  <2> HIDE DEF q
  <2>3. BatchTypes' BY <1>q, <2>0, <2>1, <2>2, BatchWritten
  <2>4. staff' = IdleStaff /\ UNCHANGED row BY <1>9 DEF cancel_status
  <2> QED BY <1>p, <1>t, <1>s, <2>3, <2>4, StaffIdle DEF TypeInv
<1> QED BY <1>1, <1>2, <1>3, <1>4, <1>5, <1>6, <1>7, <1>8, <1>9
        DEF StaffRequests, Requests_in_progress

LEMMA ProcessTypes ==
    ASSUME TypeInv, (\E r \in Rows : TimePasses(r)) \/ crash \/ start
    PROVE  TypeInv' /\ RowsKept
<1>q. /\ BatchTypes /\ RowTypes /\ TickTypes /\ FiberTypes /\ StaffTypes /\ ProcTypes
  BY DEF TypeInv
<1>1. ASSUME NEW r \in Rows, TimePasses(r) PROVE TypeInv' /\ RowsKept
  <2> DEFINE q == [row[r] EXCEPT !.waiting = FALSE]
  <2>1. row[r] \in RowRecords /\ row[r].status # "none" BY <1>q, <1>1 DEF TimePasses, RowTypes
  <2>2. /\ q \in RowRecords /\ q.status = row[r].status /\ q.batch = row[r].batch
        /\ q.obj = row[r].obj /\ q.attempts = row[r].attempts
    BY <2>1 DEF RowRecords
  <2>3. row' = [row EXCEPT ![r] = q] BY <1>1 DEF TimePasses
  <2>4. row[r].status \in {"PENDING", "IN_PROGRESS"} => row[r].attempts < MaxAttempts
    BY <1>q DEF RowTypes
  <2> HIDE DEF q
  <2>5. RowTypes' /\ RowsKept BY <1>q, <2>1, <2>2, <2>3, <2>4, RowWritten
  <2>6. \A p \in Rows : row'[p].attempts = row[p].attempts BY <1>q, <2>2, <2>3 DEF RowTypes
  <2>7. FiberTypes' BY <1>q, <1>1, <2>5, <2>6, SameFibers DEF TimePasses
  <2> QED BY <1>q, <1>1, <2>5, <2>7
          DEF TimePasses, TypeInv, BatchTypes, TickTypes, StaffTypes, ProcTypes
<1>2. CASE crash
  <2>1. UNCHANGED <<batch, row, refreshed, ops>> /\ faults' = faults + 1
        /\ worker' = "down" /\ token' = FALSE /\ staff' = IdleStaff
        /\ tick' = [t \in Ticks |-> IdleTick] /\ fiber' = [r \in Rows |-> "idle"]
    BY <1>2 DEF crash, tables, Fault
  <2>2. RowTypes' /\ RowsKept BY <1>q, <2>1, SameRows
  <2>3. FiberTypes' BY <2>1 DEF FiberTypes, FiberSteps, Working, Counting
  <2>4. IdleTick.pc = "idle" BY DEF IdleTick
  <2>5. TickTypes' BY <2>1, <2>4, IdleTyped DEF TickTypes
  <2>6. ProcTypes'
    <3>1. token' \in BOOLEAN BY <2>1
    <3>2. refreshed' \subseteq Objects /\ faults' \in Nat /\ ops' \in Nat
          /\ worker' \in {"down", "idle", "claim", "run", "rotate"}
      BY <1>q, <2>1 DEF ProcTypes
    <3> QED BY <3>1, <3>2 DEF ProcTypes
  <2> QED BY <1>q, <2>1, <2>2, <2>3, <2>5, <2>6, StaffIdle DEF TypeInv, BatchTypes
<1>3. CASE start
  <2>0. UNCHANGED <<batch, refreshed, tick, token, fiber, staff, ops>> /\ worker' = "idle"
        /\ (faults' = faults \/ faults' = faults + 1)
    BY <1>3, Zenon DEF start, Fault
  <2>1. RowTypes' /\ RowsKept /\ FiberTypes'
    <3>1. CASE reset_orphaned(FALSE) BY <1>q, <2>0, <3>1, OrphansReset, SameFibers
    <3>2. CASE UNCHANGED row BY <1>q, <2>0, <3>2, SameRows, SameFibers
    <3> QED BY <1>3, <3>1, <3>2 DEF start
  <2>2. ProcTypes' BY <1>q, <2>0 DEF ProcTypes
  <2> QED BY <1>q, <2>0, <2>1, <2>2 DEF TypeInv, BatchTypes, TickTypes, StaffTypes
<1> QED BY <1>1, <1>2, <1>3

LEMMA StepTypes == ASSUME TypeInv, Next PROVE TypeInv' /\ RowsKept
BY ProducerTypes, LoopTypes, FiberStepTypes, StaffStepTypes, ProcessTypes DEF Next

LEMMA Stutter == ASSUME TypeInv, UNCHANGED vars PROVE TypeInv'
BY DEF TypeInv, BatchTypes, RowTypes, TickTypes, FiberTypes, StaffTypes, ProcTypes, vars

\* In every state the tables and the processes hold what their types say.
THEOREM Typed == Spec => []TypeInv
<1>1. TypeInv /\ [Next]_vars => TypeInv' BY StepTypes, Stutter
<1> QED BY <1>1, InitTypes, PTL DEF Spec

LEMMA TypeInvImplies == ASSUME TypeInv PROVE TypeOK
BY DEF TypeInv, BatchTypes, RowTypes, TickTypes, FiberTypes, StaffTypes, ProcTypes, TypeOK,
       TickRecords, StaffRecords, Cursors

\* TypeOK of the run Refresh, for every number of rows, batches and faults: in
\* particular no row is tried once its attempts are spent (model.js, mark_failed).
THEOREM TypeCorrect == Spec => []TypeOK
<1>1. TypeInv => TypeOK BY TypeInvImplies
<1> QED BY <1>1, Typed, PTL

-----------------------------------------------------------------------------
(* A closed row stays closed *)

\* What a step can do to one row and its fiber.
Inserting == (\E t \in Ticks : tick_insert(t)) \/ enqueue
RowStep(r) ==
    \/ row'[r] = row[r] /\ fiber'[r] \in {fiber[r], "idle"}
    \/ /\ Inserting
       /\ row[r].status = "none" /\ ~row[r].is_complete /\ ~row'[r].is_complete
       /\ fiber[r] = "idle" /\ fiber'[r] = "idle"
    \/ /\ row'[r].is_complete = row[r].is_complete /\ row[r].status # "none"
       /\ row[r].is_complete => row'[r].status = row[r].status /\ fiber'[r] = fiber[r]
       /\ fiber'[r] \in {fiber[r], "fetch"}
    \/ row[r].status # "none" /\ row[r].batch \notin Batches /\ row'[r].is_complete
          /\ fiber'[r] = fiber[r]
    \/ process_row(r)

LEMMA RowSteps ==
    ASSUME TypeInv, NEW r \in Rows, Next
    PROVE  RowStep(r)
<1>q. /\ row \in [Rows -> RowRecords] /\ fiber \in [Rows -> FiberSteps] /\ RowTypes
      /\ row[r] \in RowRecords
      /\ row[r].status = "none" => fiber[r] = "idle" /\ ~row[r].is_complete
  BY NoRowTyped DEF TypeInv, RowTypes, FiberTypes
<1>t. fiber'[r] = fiber[r] /\ row'[r] = row[r] => RowStep(r) BY DEF RowStep
<1>s. (/\ fiber'[r] = fiber[r] /\ row'[r].is_complete = row[r].is_complete
       /\ row[r].status # "none"
       /\ row[r].is_complete => row'[r].status = row[r].status) => RowStep(r)
  BY DEF RowStep
<1>n. ASSUME NEW b \in Batches \cup Requests, NEW objs, objs \subseteq Objects,
             _insert_batch(b, objs), UNCHANGED fiber, Inserting
      PROVE  RowStep(r)
  <2>1. CASE row[r].status # "none"
    <3>1. row'[r] = row[r] BY <1>q, <1>n, <2>1, InsertTypes
    <3> QED BY <1>n, <1>t, <3>1
  <2>2. CASE row[r].status = "none"
    <3>1. fiber'[r] = "idle" /\ fiber[r] = "idle" /\ ~row[r].is_complete BY <1>q, <1>n, <2>2
    <3>2. ~row'[r].is_complete
      <4>1. CASE row'[r] = row[r] BY <3>1, <4>1
      <4>2. CASE row'[r] # row[r]
        <5>1. \E o : row'[r] = [NoRow EXCEPT !.batch = b, !.status = "PENDING", !.obj = o]
          BY <1>n, <4>2, Zenon DEF _insert_batch
        <5> QED BY <5>1 DEF NoRow
      <4> QED BY <4>1, <4>2
    <3> QED BY <1>n, <2>2, <3>1, <3>2 DEF RowStep
  <2> QED BY <2>1, <2>2
<1>o. ASSUME NEW by_age \in BOOLEAN, reset_orphaned(by_age), UNCHANGED fiber
      PROVE  RowStep(r)
  <2>1. CASE r \in Orphans(by_age)
    <3>1. row[r].status = "IN_PROGRESS" /\ ~row[r].is_complete BY <2>1 DEF Orphans
    <3>2. row'[r].is_complete = row[r].is_complete
      BY <1>q, <1>o, <2>1 DEF reset_orphaned, RowRecords
    <3> QED BY <1>o, <1>s, <3>1, <3>2
  <2>2. CASE r \notin Orphans(by_age) BY <1>o, <1>t, <2>2 DEF reset_orphaned
  <2> QED BY <2>1, <2>2
<1>1. ASSUME NEW t \in Ticks, Producer(t) \/ tick_failed(t) PROVE RowStep(r)
  <2>1. CASE tick_insert(t)
    <3>1. tick[t].batch \in Batches /\ tick[t].chunk \subseteq Objects
      BY <2>1 DEF TypeInv, TickTypes, TickRecords, tick_insert
    <3> QED BY <1>n, <2>1, <3>1 DEF tick_insert, Inserting
  <2>2. CASE ~tick_insert(t)
    BY <1>1, <1>t, <2>2 DEF Producer, tick_read, tick_advance, increment_total, tick_done,
       complete_if_empty, tick_failed, tables
  <2> QED BY <2>1, <2>2
<1>2. CASE WorkerLoop
  <2>1. CASE worker_tick
    <3>1. UNCHANGED fiber /\ (reset_orphaned(TRUE) \/ UNCHANGED row)
      BY <2>1, Zenon DEF worker_tick
    <3> QED BY <1>t, <1>o, <3>1
  <2>2. CASE claim_pending
    <3>1. CASE fiber'[r] = fiber[r] /\ row'[r] = row[r] BY <1>t, <3>1
    <3>2. CASE ~(fiber'[r] = fiber[r] /\ row'[r] = row[r])
      <4>1. /\ r \in Claimable /\ fiber'[r] = "fetch"
            /\ row'[r] = [row[r] EXCEPT !.status = "IN_PROGRESS", !.waiting = TRUE]
        BY <1>q, <2>2, <3>2 DEF claim_pending
      <4>2. ~row[r].is_complete /\ row[r].status = "PENDING" BY <4>1 DEF Claimable
      <4>3. row'[r].is_complete = row[r].is_complete BY <1>q, <4>1 DEF RowRecords
      <4> QED BY <4>1, <4>2, <4>3 DEF RowStep
    <3> QED BY <3>1, <3>2
  <2>3. CASE worker_settled \/ _maybe_rotate_token
    BY <1>t, <2>3 DEF worker_settled, _maybe_rotate_token, tables
  <2> QED BY <1>2, <2>1, <2>2, <2>3 DEF WorkerLoop
<1>3. ASSUME NEW p \in Rows, process_row(p) PROVE RowStep(r)
  <2>0. CASE p = r BY <1>3, <2>0 DEF RowStep
  <2>1. CASE p # r
    <3>2. \E pc : Goto(p, pc)
      BY <1>3, Zenon DEF process_row, fetch, update_metadata_payload, mark_updated,
         mark_complete, mark_failed, count, look, close
    <3>3. fiber'[r] = fiber[r] BY <1>q, <2>1, <3>2 DEF Goto
    <3>4. \/ UNCHANGED row
          \/ row' = [row EXCEPT ![p].status = "RECORD_UPDATED", ![p].waiting = FALSE]
          \/ row' = [row EXCEPT ![p].status = "COMPLETE", ![p].is_complete = TRUE]
          \/ row' = [row EXCEPT ![p] = MarkFailed(@)]
      BY <1>3, Zenon DEF process_row, fetch, update_metadata_payload, mark_updated,
         mark_complete, mark_failed, count, look, close, tables
    <3>5. row'[r] = row[r] BY <1>q, <2>1, <3>4
    <3> QED BY <1>t, <3>3, <3>5
  <2> QED BY <2>0, <2>1
<1>4. ASSUME NEW p \in Rows, TimePasses(p) PROVE RowStep(r)
  <2>1. CASE p = r
    <3>1. row'[r].is_complete = row[r].is_complete /\ row'[r].status = row[r].status
          /\ row[r].status # "none"
      BY <1>q, <1>4, <2>1 DEF TimePasses, RowRecords
    <3> QED BY <1>4, <1>s, <3>1 DEF TimePasses
  <2>2. CASE p # r
    <3>1. row'[r] = row[r] BY <1>q, <1>4, <2>2 DEF TimePasses
    <3> QED BY <1>4, <1>t, <3>1 DEF TimePasses
  <2> QED BY <2>1, <2>2
<1>5. CASE StaffRequests \/ Requests_in_progress
  <2>1. UNCHANGED fiber
    BY <1>5, Zenon DEF StaffRequests, Requests_in_progress, start_refresh, request_cancel,
       enqueue, cancel_batch, create_batch_check, create_batch, cancel_flags, cancel_delete,
       cancel_status, worldRest
  <2>2. CASE enqueue
    <3>1. PICK b \in Requests, objs \in SUBSET Objects \ {{}} : _insert_batch(b, objs)
      BY <2>2 DEF enqueue
    <3> QED BY <1>n, <2>1, <2>2, <3>1 DEF Inserting
  <2>3. CASE cancel_delete
    <3>1. CASE row'[r] = row[r] BY <1>t, <2>1, <3>1
    <3>2. CASE row'[r] # row[r]
      <4>1. /\ r \in RowsOf(staff.batch) /\ ~row[r].is_complete
            /\ row'[r] = [row[r] EXCEPT !.status = "deleted"]
        BY <2>3, <3>2 DEF cancel_delete
      <4>2. row'[r].is_complete = row[r].is_complete /\ row[r].status # "none"
        BY <1>q, <4>1 DEF RowRecords, RowsOf, Used
      <4> QED BY <1>s, <2>1, <4>1, <4>2
    <3> QED BY <3>1, <3>2
  <2>4. CASE cancel_batch
    <3>1. PICK q \in Requests :
            row' = [p \in Rows |->
                       IF p \in RowsOf(q) /\ ~row[p].is_complete
                       THEN [row[p] EXCEPT !.status = "CANCELLED", !.is_complete = TRUE]
                       ELSE row[p]]
      BY <2>4 DEF cancel_batch
    <3>2. CASE r \in RowsOf(q) /\ ~row[r].is_complete
      <4>1. row[r].batch \notin Batches /\ row[r].status # "none"
        BY <3>2, Bounds DEF RowsOf, Used
      <4>2. row'[r].is_complete BY <1>q, <3>1, <3>2 DEF RowRecords
      <4> QED BY <2>1, <4>1, <4>2 DEF RowStep
    <3>3. CASE ~(r \in RowsOf(q) /\ ~row[r].is_complete)
      <4>1. row'[r] = row[r] BY <3>1, <3>3
      <4> QED BY <1>t, <2>1, <4>1
    <3> QED BY <3>2, <3>3
  <2>5. CASE UNCHANGED row BY <1>t, <2>1, <2>5
  <2> QED BY <1>5, <2>2, <2>3, <2>4, <2>5
          DEF StaffRequests, Requests_in_progress, start_refresh, request_cancel,
              create_batch_check, create_batch, cancel_flags, cancel_status
<1>6. CASE crash
  <2>1. row'[r] = row[r] /\ fiber'[r] = "idle" BY <1>6 DEF crash, tables
  <2> QED BY <2>1 DEF RowStep
<1>7. CASE start
  <2>1. UNCHANGED fiber /\ (reset_orphaned(FALSE) \/ UNCHANGED row)
    BY <1>7, Zenon DEF start
  <2> QED BY <1>t, <1>o, <2>1
<1> QED BY <1>1, <1>2, <1>3, <1>4, <1>5, <1>6, <1>7 DEF Next

Closed(r) == row[r].is_complete /\ fiber[r] = "idle"

LEMMA ClosedKept ==
    ASSUME TypeInv, NEW r \in Rows, Closed(r), Next
    PROVE  Closed(r)'
<1>1. RowStep(r) BY RowSteps
<1>2. ~process_row(r)
  BY DEF Closed, process_row, fetch, update_metadata_payload, mark_updated, mark_complete,
     mark_failed, count, look, close
<1> QED BY <1>1, <1>2 DEF RowStep, Closed

\* ClosedStaysClosed of the run Refresh, for every number of rows, batches, faults
\* and requests (model.js, cancel_batch): only a fiber that held a row when it was
\* closed can write it again; no sweep, claim, retry or insert reopens it.
THEOREM ClosedStays == Spec => ClosedStaysClosed
<1>1. TypeInv /\ [Next]_vars =>
        [\A r \in Rows : row[r].is_complete /\ fiber[r] = "idle"
            => row'[r].is_complete /\ fiber'[r] = "idle"]_vars
  BY ClosedKept DEF Closed
<1> QED BY <1>1, Typed, PTL DEF Spec, ClosedStaysClosed

-----------------------------------------------------------------------------
(* The ledger: what is behind a batch's cursor is queued *)

\* Everything between a batch's first object and its cursor has a row, nothing
\* before its first object has one, and a batch declared complete is at its end.
BatchLedger(b) ==
    /\ batch[b].status = "none" => ~batch[b].cancel_requested /\ Covered(b) = {}
    /\ \A o \in Covered(b) : o > batch[b].from
    /\ batch[b].from <= Start(batch[b].cursor)
    /\ \A o \in Objects :
          batch[b].from < o /\ o <= Start(batch[b].cursor) => o \in Covered(b)
    /\ batch[b].enqueue_complete /\ ~batch[b].cancel_requested
          => Start(batch[b].cursor) = NumObjects

\* A tick, however late, works past the first object of a batch that was started.
TickLedger(t) ==
    tick[t].pc # "idle" =>
        /\ batch[tick[t].batch].status # "none"
        /\ batch[tick[t].batch].from <= Start(tick[t].cursor)
        /\ tick[t].pc \in {"insert", "advance"} => tick[t].chunk = Chunk(tick[t].cursor)
        /\ tick[t].pc = "advance" => tick[t].chunk \subseteq Covered(tick[t].batch)
        /\ tick[t].pc = "done" => Start(tick[t].cursor) = NumObjects
FiberLedger(r) == fiber[r] = "close" => batch[row[r].batch].enqueue_complete
StaffLedger ==
    /\ staff.pc \in {"flags", "delete", "status"} =>
          batch[staff.batch].status \in {"running", "completed"}
    /\ staff.pc \in {"delete", "status"} => batch[staff.batch].cancel_requested

LedgerInv ==
    /\ \A b \in Batches : BatchLedger(b)
    /\ \A t \in Ticks : TickLedger(t)
    /\ \A r \in Rows : FiberLedger(r)
    /\ StaffLedger

Due(b) == {o \in Objects : o > batch[b].from /\ batch[b].status # "none"}
Same(b) == Phase(b)' = Phase(b) /\ Due(b)' = Due(b) /\ Covered(b)' = Covered(b)

\* The steps of the ledger, told by the one batch that a step touches.
LEMMA LedgerStep ==
    ASSUME NEW b \in Batches, \A c \in Batches \ {b} : Same(c),
           \/ Same(b)
           \/ /\ Phase(b) = "none" /\ Phase(b)' = "running" /\ Covered(b)' = Covered(b)
           \/ /\ Phase(b) # "none" /\ Phase(b)' = Phase(b) /\ Due(b)' = Due(b)
              /\ \E objs \in SUBSET Due(b) : Covered(b)' = Covered(b) \cup objs
           \/ /\ Due(b)' = Due(b) /\ Covered(b)' = Covered(b)
              /\ \/ Phase(b) = "running" /\ Covered(b) = Due(b) /\ Phase(b)' = "completed"
                 \/ Phase(b) \in {"running", "completed"} /\ Phase(b)' = "cancelling"
                 \/ Phase(b) = "cancelling" /\ Phase(b)' = "cancelled"
    PROVE  Ledger!Next \/ UNCHANGED Ledger!vars
<1> DEFINE P == [c \in Batches |-> Phase(c)]
           D == [c \in Batches |-> Due(c)]
           T == [c \in Batches |-> Covered(c)]
<1>1. \A c \in Batches \ {b} : P'[c] = P[c] /\ D'[c] = D[c] /\ T'[c] = T[c] BY DEF Same
<1>2. /\ P = [c \in Batches |-> Phase(c)] /\ T = [c \in Batches |-> Covered(c)]
      /\ D = [c \in Batches |-> {o \in Objects : o > batch[c].from
                                                /\ batch[c].status # "none"}]
  BY DEF Due
<1>3. /\ P' = [c \in Batches |-> Phase(c)'] /\ T' = [c \in Batches |-> Covered(c)']
      /\ D' = [c \in Batches |-> Due(c)']
  OBVIOUS
<1>4. /\ P[b] = Phase(b) /\ D[b] = Due(b) /\ T[b] = Covered(b)
      /\ P'[b] = Phase(b)' /\ D'[b] = Due(b)' /\ T'[b] = Covered(b)'
  OBVIOUS
<1>5. (Due(b)' = Due(b) => D' = D) /\ (Covered(b)' = Covered(b) => T' = T)
      /\ (Phase(b)' = Phase(b) => P' = P)
  BY <1>1, <1>2, <1>3 DEF Same
<1>6. /\ P' = [P EXCEPT ![b] = Phase(b)'] /\ D' = [D EXCEPT ![b] = Due(b)']
      /\ T' = [T EXCEPT ![b] = Covered(b)']
  BY <1>1, <1>2, <1>3 DEF Same
<1>7. Due(b)' \in SUBSET Objects BY DEF Due
<1>8. CASE Same(b)
  <2>1. P' = P /\ D' = D /\ T' = T BY <1>5, <1>8 DEF Same
  <2> QED BY <1>2, <2>1 DEF Ledger!vars, Due
<1>9. CASE Phase(b) = "none" /\ Phase(b)' = "running" /\ Covered(b)' = Covered(b)
  <2>1. Ledger!StartBatch(b)
    BY <1>4, <1>5, <1>6, <1>7, <1>9 DEF Ledger!StartBatch, Due
  <2> QED BY <2>1 DEF Ledger!Next
<1>10. CASE /\ Phase(b) # "none" /\ Phase(b)' = Phase(b) /\ Due(b)' = Due(b)
            /\ \E objs \in SUBSET Due(b) : Covered(b)' = Covered(b) \cup objs
  <2>1. Ledger!Take(b)
    BY <1>4, <1>5, <1>6, <1>10 DEF Ledger!Take, Due
  <2> QED BY <2>1 DEF Ledger!Next
<1>11. CASE /\ Due(b)' = Due(b) /\ Covered(b)' = Covered(b)
            /\ Phase(b) = "running" /\ Covered(b) = Due(b) /\ Phase(b)' = "completed"
  <2>1. Ledger!Complete(b)
    BY <1>4, <1>5, <1>6, <1>11 DEF Ledger!Complete, Due
  <2> QED BY <2>1 DEF Ledger!Next
<1>12. CASE /\ Due(b)' = Due(b) /\ Covered(b)' = Covered(b)
            /\ Phase(b) \in {"running", "completed"} /\ Phase(b)' = "cancelling"
  <2>1. Ledger!RequestCancel(b)
    BY <1>4, <1>5, <1>6, <1>12 DEF Ledger!RequestCancel, Due
  <2> QED BY <2>1 DEF Ledger!Next
<1>13. CASE /\ Due(b)' = Due(b) /\ Covered(b)' = Covered(b)
            /\ Phase(b) = "cancelling" /\ Phase(b)' = "cancelled"
  <2>1. Ledger!Cancel(b)
    BY <1>4, <1>5, <1>6, <1>13 DEF Ledger!Cancel, Due
  <2> QED BY <2>1 DEF Ledger!Next
<1> QED BY <1>8, <1>9, <1>10, <1>11, <1>12, <1>13

\* A step in which no batch changes for the ledger.
LEMMA LedgerStutter ==
    ASSUME \A c \in Batches : Same(c)
    PROVE  UNCHANGED Ledger!vars
<1>1. /\ [b \in Batches |-> Phase(b)]' = [b \in Batches |-> Phase(b)]
      /\ [b \in Batches |-> Covered(b)]' = [b \in Batches |-> Covered(b)]
      /\ [b \in Batches |-> Due(b)]' = [b \in Batches |-> Due(b)]
  BY DEF Same
<1> QED BY <1>1 DEF Ledger!vars, Due

\* Steps that write rows already queued cover what was covered.
LEMMA CoverSame ==
    ASSUME RowsKept, \A r \in Rows : row[r].status = "none" => row'[r].status = "none",
           NEW b
    PROVE  Covered(b)' = Covered(b)
<1>1. Used' = Used BY DEF Used, RowsKept
<1>2. RowsOf(b)' = RowsOf(b) BY <1>1 DEF RowsOf, Used, RowsKept
<1> QED BY <1>2 DEF Covered, RowsOf, Used, RowsKept

LEMMA CoverGrows == ASSUME RowsKept, NEW b PROVE Covered(b) \subseteq Covered(b)'
BY DEF Covered, RowsOf, Used, RowsKept

\* What the parts of the invariant need of a step that leaves their process alone.
Progress ==
    \A b \in Batches : batch[b].status # "none" =>
        /\ batch'[b].status # "none" /\ batch'[b].from = batch[b].from
        /\ batch[b].enqueue_complete => batch'[b].enqueue_complete
        /\ batch[b].cancel_requested => batch'[b].cancel_requested

LEMMA TickKept ==
    ASSUME TypeInv, Progress, RowsKept, NEW t \in Ticks, TickLedger(t), tick'[t] = tick[t]
    PROVE  TickLedger(t)'
<1>1. CASE tick[t].pc = "idle" BY <1>1 DEF TickLedger
<1>2. CASE tick[t].pc # "idle"
  <2>1. PICK b \in Batches : b = tick[t].batch BY <1>2 DEF TypeInv, TickTypes
  <2>2. batch[b].status # "none" BY <1>2, <2>1 DEF TickLedger
  <2>3. batch'[b].status # "none" /\ batch'[b].from = batch[b].from
    BY <2>1, <2>2 DEF Progress
  <2>4. Covered(b) \subseteq Covered(b)' BY CoverGrows
  <2>5. tick'[t].batch = b BY <2>1
  <2>6. /\ batch[b].from <= Start(tick[t].cursor)
        /\ tick[t].pc \in {"insert", "advance"} => tick[t].chunk = Chunk(tick[t].cursor)
        /\ tick[t].pc = "advance" => tick[t].chunk \subseteq Covered(b)
        /\ tick[t].pc = "done" => Start(tick[t].cursor) = NumObjects
    BY <1>2, <2>1 DEF TickLedger
  <2>7. TickLedger(t)' =
          (tick'[t].pc # "idle" =>
             /\ batch'[b].status # "none"
             /\ batch'[b].from <= Start(tick'[t].cursor)
             /\ tick'[t].pc \in {"insert", "advance"} => tick'[t].chunk = Chunk(tick'[t].cursor)
             /\ tick'[t].pc = "advance" => tick'[t].chunk \subseteq Covered(b)'
             /\ tick'[t].pc = "done" => Start(tick'[t].cursor) = NumObjects)
    BY <2>5 DEF TickLedger, Covered, RowsOf, Used, Start, Chunk
  <2> QED BY <2>3, <2>4, <2>6, <2>7
<1> QED BY <1>1, <1>2

LEMMA FiberKept ==
    ASSUME TypeInv, Progress, RowsKept, \A b \in Batches : BatchLedger(b), NEW r \in Rows,
           FiberLedger(r), fiber'[r] = fiber[r]
    PROVE  FiberLedger(r)'
<1> SUFFICES ASSUME fiber[r] = "close" PROVE batch'[row'[r].batch].enqueue_complete
  BY DEF FiberLedger
<1>1. row[r].batch \in Batches /\ row[r].status # "none"
  BY DEF TypeInv, FiberTypes, Counting
<1>2. row'[r].batch = row[r].batch BY <1>1 DEF RowsKept
<1>3. batch[row[r].batch].enqueue_complete BY DEF FiberLedger
<1>4. batch[row[r].batch].status # "none"
  BY <1>1 DEF BatchLedger, Covered, RowsOf, Used
<1> QED BY <1>1, <1>2, <1>3, <1>4 DEF Progress

\* Rows may be written and none inserted; the batches stay.
LEMMA BatchesSame ==
    ASSUME LedgerInv, RowsKept, UNCHANGED batch,
           \A r \in Rows : row[r].status = "none" => row'[r].status = "none"
    PROVE  /\ \A b \in Batches : BatchLedger(b)' /\ Same(b)
           /\ Progress /\ UNCHANGED Ledger!vars
<1>1. \A b \in Batches : Covered(b)' = Covered(b) BY CoverSame
<1>2. \A b \in Batches : BatchLedger(b)' BY <1>1 DEF LedgerInv, BatchLedger, Start
<1>3. \A b \in Batches : Same(b) BY <1>1 DEF Same, Phase, Due
<1> QED BY <1>2, <1>3, LedgerStutter DEF Progress

LEMMA CalmStep ==
    ASSUME TypeInv, LedgerInv, RowsKept, UNCHANGED batch,
           \A r \in Rows : row[r].status = "none" => row'[r].status = "none",
           \A t \in Ticks : tick'[t] = tick[t] \/ tick'[t].pc = "idle" \/ TickLedger(t)',
           \A r \in Rows : fiber'[r] = fiber[r] \/ fiber'[r] # "close" \/ FiberLedger(r)',
           UNCHANGED staff \/ StaffLedger'
    PROVE  LedgerInv' /\ UNCHANGED Ledger!vars
<1>1. (\A b \in Batches : BatchLedger(b)') /\ Progress /\ UNCHANGED Ledger!vars
  BY BatchesSame
<1>2. \A t \in Ticks : TickLedger(t) BY DEF LedgerInv
<1>3. \A t \in Ticks : tick'[t] = tick[t] => TickLedger(t)' BY <1>1, <1>2, TickKept
<1>4. \A t \in Ticks : tick'[t].pc = "idle" => TickLedger(t)' BY DEF TickLedger
<1>5. \A r \in Rows : fiber'[r] = fiber[r] => FiberLedger(r)'
  BY <1>1, FiberKept DEF LedgerInv
<1>6. \A r \in Rows : fiber'[r] # "close" => FiberLedger(r)' BY DEF FiberLedger
<1>7. StaffLedger' BY DEF LedgerInv, StaffLedger
<1> QED BY <1>1, <1>3, <1>4, <1>5, <1>6, <1>7 DEF LedgerInv

\* The producer's reads, the worker, and time.
LEMMA CalmTick ==
    ASSUME TypeInv, LedgerInv, NEW t \in Ticks, tick_read(t) \/ tick_failed(t)
    PROVE  LedgerInv' /\ UNCHANGED Ledger!vars
<1>1. RowsKept /\ TypeInv' BY ProducerTypes DEF Producer
<1>2. UNCHANGED <<batch, row, fiber, staff>> BY DEF tick_read, tick_failed, tables
<1>3. ASSUME NEW u \in Ticks, tick'[u] # tick[u], tick'[u].pc # "idle" PROVE TickLedger(u)'
  <2>1. u = t /\ tick_read(t)
    BY <1>3, IdleTyped DEF TypeInv, TickTypes, tick_read, tick_failed, IdleTick
  <2>2. PICK b : b = Newest(Running) OBVIOUS
  <2>3. b \in Batches /\ batch[b].status = "running"
    BY <2>1, <2>2, NewestBatch DEF tick_read, Running
  <2> DEFINE c == batch[b].cursor
  <2>4. c \in Cursors BY <2>3 DEF TypeInv, BatchTypes, BatchRecords, Cursors
  <2>5. tick'[u] = [pc |-> IF Chunk(c) = {} THEN "done" ELSE "insert", batch |-> b,
                    cursor |-> c, chunk |-> Chunk(c)]
    BY <2>1, <2>2 DEF tick_read, TypeInv, TickTypes
  <2>6. batch[b].from <= Start(c) BY <2>3 DEF LedgerInv, BatchLedger
  <2>7. Chunk(c) = {} => Start(c) = NumObjects BY <2>4, ChunkTypes
  <2>8. tick'[u].batch = b /\ tick'[u].cursor = c /\ tick'[u].chunk = Chunk(c)
        /\ tick'[u].pc = (IF Chunk(c) = {} THEN "done" ELSE "insert")
    BY <2>5
  <2>9. batch'[b] = batch[b] BY <1>2
  <2> QED BY <2>3, <2>6, <2>7, <2>8, <2>9 DEF TickLedger, Start, Chunk
<1> QED BY <1>1, <1>2, <1>3, CalmStep

LEMMA CalmWorker ==
    ASSUME TypeInv, LedgerInv, WorkerLoop \/ (\E r \in Rows : TimePasses(r)) \/ crash \/ start
    PROVE  LedgerInv' /\ UNCHANGED Ledger!vars
<1>1. RowsKept /\ TypeInv' BY LoopTypes, ProcessTypes
<1>2. UNCHANGED batch /\ (UNCHANGED <<tick, staff>> \/ crash)
  BY Zenon DEF WorkerLoop, worker_tick, claim_pending, worker_settled, _maybe_rotate_token,
     TimePasses, start, crash, tables
<1>3. ASSUME NEW r \in Rows, row[r].status = "none" PROVE row'[r].status = "none"
  <2>0. row \in [Rows -> RowRecords] BY DEF TypeInv, RowTypes
  <2>1. r \notin Claimable /\ \A a \in BOOLEAN : r \notin Orphans(a)
    BY <1>3 DEF Claimable, Orphans
  <2>2. CASE WorkerLoop
    <3>1. CASE worker_tick BY <1>3, <2>0, <2>1, <3>1 DEF worker_tick, reset_orphaned
    <3>2. CASE claim_pending BY <1>3, <2>0, <2>1, <3>2 DEF claim_pending
    <3>3. CASE worker_settled \/ _maybe_rotate_token
      BY <1>3, <3>3 DEF worker_settled, _maybe_rotate_token, tables
    <3> QED BY <2>2, <3>1, <3>2, <3>3 DEF WorkerLoop
  <2>3. CASE \E q \in Rows : TimePasses(q)
    <3>1. PICK q \in Rows : TimePasses(q) BY <2>3
    <3>2. q # r BY <1>3, <3>1 DEF TimePasses
    <3> QED BY <1>3, <2>0, <3>1, <3>2 DEF TimePasses
  <2>4. CASE crash \/ start
    BY <1>3, <2>0, <2>1, <2>4 DEF crash, start, tables, reset_orphaned
  <2> QED BY <2>2, <2>3, <2>4
<1>4. \A r \in Rows : fiber'[r] = fiber[r] \/ fiber'[r] # "close"
  BY DEF TypeInv, FiberTypes, WorkerLoop, worker_tick, claim_pending, worker_settled,
     _maybe_rotate_token, TimePasses, crash, start
<1>5. \A t \in Ticks : tick'[t] = tick[t] \/ tick'[t].pc = "idle"
  BY <1>2 DEF crash, IdleTick
<1>6. UNCHANGED staff \/ StaffLedger'
  <2>1. IdleStaff.pc = "idle" BY DEF IdleStaff
  <2> QED BY <1>2, <2>1 DEF crash, StaffLedger
<1> QED BY <1>1, <1>2, <1>3, <1>4, <1>5, <1>6, CalmStep

\* A fiber's writes to its row, and its look at the counters.
LEMMA CalmFiber ==
    ASSUME TypeInv, LedgerInv, NEW r \in Rows, process_row(r), ~count(r), ~close(r)
    PROVE  LedgerInv' /\ UNCHANGED Ledger!vars
<1>1. RowsKept BY FiberStepTypes
<1>2. UNCHANGED <<batch, tick, staff>>
  BY DEF process_row, fetch, update_metadata_payload, mark_updated, mark_complete,
     mark_failed, look, tables, fiberRest
<1>3. row[r].status # "none"
  BY DEF TypeInv, FiberTypes, process_row, fetch, update_metadata_payload, mark_updated,
     mark_complete, mark_failed, look
<1>4. \A q \in Rows \ {r} : row'[q] = row[q]
  <2>1. \/ UNCHANGED row
        \/ row' = [row EXCEPT ![r].status = "RECORD_UPDATED", ![r].waiting = FALSE]
        \/ row' = [row EXCEPT ![r].status = "COMPLETE", ![r].is_complete = TRUE]
        \/ row' = [row EXCEPT ![r] = MarkFailed(@)]
    BY Zenon DEF process_row, fetch, update_metadata_payload, mark_updated, mark_complete,
       mark_failed, look, tables
  <2> QED BY <2>1 DEF TypeInv, RowTypes
<1>5. PICK pc : Goto(r, pc)
  BY Zenon DEF process_row, fetch, update_metadata_payload, mark_updated, mark_complete,
     mark_failed, look
<1>6. \A q \in Rows \ {r} : fiber'[q] = fiber[q]
  BY <1>5 DEF Goto, TypeInv, FiberTypes
<1>7. ASSUME fiber'[r] = "close" PROVE FiberLedger(r)'
  <2>1. pc = "close" BY <1>5, <1>7 DEF Goto, TypeInv, FiberTypes
  <2>2. look(r)
    BY <1>7 DEF process_row, fetch, update_metadata_payload, mark_updated, mark_complete,
       mark_failed, Goto, CountStep, AfterFailure, TypeInv, FiberTypes
  <2>3. AllCounted(batch[row[r].batch]) /\ UNCHANGED <<batch, row>>
    BY <1>7, <2>2 DEF look, Goto, tables, TypeInv, FiberTypes
  <2> QED BY <2>3 DEF AllCounted, FiberLedger
<1> QED BY <1>1, <1>2, <1>3, <1>4, <1>6, <1>7, CalmStep

\* The requests that leave the batches and insert nothing.
LEMMA CalmStaff ==
    ASSUME TypeInv, LedgerInv,
           start_refresh \/ request_cancel \/ cancel_batch \/ create_batch_check \/ cancel_delete
    PROVE  LedgerInv' /\ UNCHANGED Ledger!vars
<1>1. RowsKept BY StaffStepTypes DEF StaffRequests, Requests_in_progress
<1>2. UNCHANGED <<batch, tick, fiber>>
  BY DEF start_refresh, request_cancel, cancel_batch, create_batch_check, cancel_delete,
     worldRest
<1>3. ASSUME NEW r \in Rows, row[r].status = "none" PROVE row'[r].status = "none"
  <2>1. \A b : r \notin RowsOf(b) BY <1>3 DEF RowsOf, Used
  <2> QED BY <1>3, <2>1
          DEF TypeInv, RowTypes, start_refresh, request_cancel, cancel_batch,
              create_batch_check, cancel_delete
<1>4. UNCHANGED staff \/ StaffLedger'
  <2>0. staff \in StaffRecords BY DEF TypeInv, StaffTypes
  <2>1. CASE start_refresh BY <2>1 DEF start_refresh, StaffLedger
  <2>2. CASE request_cancel
    <3>1. PICK b \in Running : staff' = [pc |-> "flags", batch |-> b, cursor |-> NULL]
      BY <2>2 DEF request_cancel
    <3>2. staff'.pc = "flags" /\ staff'.batch = b /\ batch'[b].status = "running"
      BY <1>2, <3>1 DEF Running
    <3> QED BY <3>2 DEF StaffLedger
  <2>3. CASE cancel_batch BY <2>3 DEF cancel_batch
  <2>4. CASE create_batch_check
    <3>1. staff'.pc \in {"idle", "create"}
      BY <2>0, <2>4 DEF create_batch_check, IdleStaff, StaffRecords
    <3> QED BY <3>1 DEF StaffLedger
  <2>5. CASE cancel_delete
    <3>1. staff'.pc = "status" /\ staff'.batch = staff.batch
      BY <2>0, <2>5 DEF cancel_delete, StaffRecords
    <3>2. staff.pc = "delete" BY <2>5 DEF cancel_delete
    <3> QED BY <1>2, <3>1, <3>2 DEF LedgerInv, StaffLedger
  <2> QED BY <2>1, <2>2, <2>3, <2>4, <2>5
<1> QED BY <1>1, <1>2, <1>3, <1>4, CalmStep

\* What an insert covers.
LEMMA InsertCovers ==
    ASSUME RowTypes, NEW b \in Batches \cup Requests, NEW objs, objs \subseteq Objects,
           _insert_batch(b, objs)
    PROVE  /\ Covered(b)' = Covered(b) \cup objs
           /\ \A c \in Batches : c # b => Covered(c)' = Covered(c)
<1>1. /\ RowsKept
      /\ \A r \in Rows : row[r].status # "none" => row'[r] = row[r]
      /\ \A r \in Rows : row[r].status = "none" /\ row'[r].status # "none" =>
            row'[r].batch = b /\ row'[r].obj \in objs
      /\ \A o \in objs : \E r \in Rows :
            row'[r].status # "none" /\ row'[r].batch = b /\ row'[r].obj = o
  BY InsertTypes
<1>2. \A c : Covered(c) = {row[r].obj : r \in {q \in Rows : row[q].status # "none"
                                                            /\ row[q].batch = c}}
  BY DEF Covered, RowsOf, Used
<1>3. \A c : Covered(c)' = {row'[r].obj : r \in {q \in Rows : row'[q].status # "none"
                                                              /\ row'[q].batch = c}}
  BY DEF Covered, RowsOf, Used
<1>4. Covered(b)' = Covered(b) \cup objs
  <2>1. Covered(b) \subseteq Covered(b)' BY <1>1, CoverGrows
  <2>2. objs \subseteq Covered(b)' BY <1>1, <1>3
  <2>3. Covered(b)' \subseteq Covered(b) \cup objs BY <1>1, <1>2, <1>3
  <2> QED BY <2>1, <2>2, <2>3
<1>5. ASSUME NEW c \in Batches, c # b PROVE Covered(c)' = Covered(c)
  BY <1>1, <1>2, <1>3, <1>5
<1> QED BY <1>4, <1>5

LEMMA InsertStep ==
    ASSUME TypeInv, LedgerInv, NEW t \in Ticks, tick_insert(t)
    PROVE  LedgerInv' /\ (Ledger!Next \/ UNCHANGED Ledger!vars)
<1>1. RowsKept BY ProducerTypes DEF Producer
<1>2. UNCHANGED <<batch, fiber, staff>> BY DEF tick_insert
<1>3. PICK b \in Batches : b = tick[t].batch
  BY DEF tick_insert, TypeInv, TickTypes
<1>4. PICK c \in Cursors : c = tick[t].cursor BY DEF TypeInv, TickTypes, TickRecords
<1>5. /\ batch[b].status # "none" /\ batch[b].from <= Start(c)
      /\ tick[t].chunk = Chunk(c)
  BY <1>3, <1>4 DEF LedgerInv, TickLedger, tick_insert
<1>6. Chunk(c) \subseteq Objects /\ Start(c) \in 0..NumObjects
      /\ \A o \in Chunk(c) : o > Start(c)
  BY ChunkTypes
<1>7. _insert_batch(b, Chunk(c)) BY <1>3, <1>5 DEF tick_insert
<1>8. Covered(b)' = Covered(b) \cup Chunk(c)
      /\ \A d \in Batches : d # b => Covered(d)' = Covered(d)
  BY <1>6, <1>7, InsertCovers DEF TypeInv
<1>9. batch[b].from \in Nat
  <2>1. batch[b].from \in Objects \cup {0} BY DEF TypeInv, BatchTypes, BatchRecords
  <2>2. Objects \cup {0} \subseteq Nat BY Bounds
  <2> QED BY <2>1, <2>2
<1>10. \A o \in Chunk(c) : o > batch[b].from
  <2>1. \A o \in Chunk(c) : o \in Nat BY <1>6, Bounds
  <2> QED BY <1>5, <1>6, <1>9, <2>1
<1>11. \A d \in Batches : BatchLedger(d)'
  <2>1. \A d \in Batches : d # b => BatchLedger(d)'
    BY <1>2, <1>8 DEF LedgerInv, BatchLedger, Start
  <2>2. BatchLedger(b)'
    BY <1>2, <1>5, <1>8, <1>10 DEF LedgerInv, BatchLedger, Start
  <2> QED BY <2>1, <2>2
<1>12. Progress BY <1>2 DEF Progress
<1>13. \A u \in Ticks : TickLedger(u)'
  <2>0. tick' = [tick EXCEPT ![t].pc = "advance"] /\ tick \in [Ticks -> TickRecords]
    BY DEF tick_insert, TypeInv, TickTypes
  <2>1. \A u \in Ticks \ {t} : tick'[u] = tick[u] BY <2>0
  <2>2. \A u \in Ticks \ {t} : TickLedger(u)'
    BY <1>1, <1>12, <2>1, TickKept DEF LedgerInv
  <2>3. tick'[t].pc = "advance" /\ tick'[t].batch = b /\ tick'[t].cursor = c
        /\ tick'[t].chunk = Chunk(c)
    BY <1>3, <1>4, <1>5, <2>0 DEF TickRecords
  <2>4. batch'[b] = batch[b] BY <1>2
  <2>5. TickLedger(t)' =
          (tick'[t].pc # "idle" =>
             /\ batch'[b].status # "none"
             /\ batch'[b].from <= Start(tick'[t].cursor)
             /\ tick'[t].pc \in {"insert", "advance"} => tick'[t].chunk = Chunk(tick'[t].cursor)
             /\ tick'[t].pc = "advance" => tick'[t].chunk \subseteq Covered(b)'
             /\ tick'[t].pc = "done" => Start(tick'[t].cursor) = NumObjects)
    BY <2>3 DEF TickLedger, Covered, RowsOf, Used, Start, Chunk
  <2>6. TickLedger(t)' BY <1>5, <1>8, <2>3, <2>4, <2>5
  <2> QED BY <2>2, <2>6
<1>14. \A r \in Rows : FiberLedger(r)' BY <1>1, <1>2, <1>12, FiberKept DEF LedgerInv
<1>15. StaffLedger' BY <1>2 DEF LedgerInv, StaffLedger
<1>16. LedgerInv' BY <1>11, <1>13, <1>14, <1>15 DEF LedgerInv
<1>17. \A d \in Batches : Phase(d)' = Phase(d) /\ Due(d)' = Due(d)
  BY <1>2 DEF Phase, Due
<1>18. Phase(b) # "none" BY <1>5 DEF Phase
<1>19. Chunk(c) \in SUBSET Due(b) BY <1>5, <1>6, <1>10 DEF Due
<1>20. \A d \in Batches \ {b} : Same(d) BY <1>8, <1>17 DEF Same
<1>21. \E objs \in SUBSET Due(b) : Covered(b)' = Covered(b) \cup objs BY <1>8, <1>19
<1>22. Ledger!Next \/ UNCHANGED Ledger!vars
  BY <1>17, <1>18, <1>20, <1>21, LedgerStep
<1> QED BY <1>16, <1>22

\* Rows of a request on demand belong to no system-wide batch.
LEMMA EnqueueStep ==
    ASSUME TypeInv, LedgerInv, enqueue
    PROVE  LedgerInv' /\ UNCHANGED Ledger!vars
<1>1. RowsKept BY StaffStepTypes DEF StaffRequests
<1>2. UNCHANGED <<batch, tick, fiber, staff>> BY DEF enqueue, worldRest
<1>3. PICK q \in Requests, objs \in SUBSET Objects \ {{}} : _insert_batch(q, objs)
  BY DEF enqueue
<1>4. \A b \in Batches : Covered(b)' = Covered(b)
  <2>1. RowTypes /\ objs \subseteq Objects /\ q \in Batches \cup Requests BY DEF TypeInv
  <2>2. \A b \in Batches : b # q BY Bounds
  <2>3. \A b \in Batches : b # q => Covered(b)' = Covered(b)
    BY <1>3, <2>1, InsertCovers
  <2> QED BY <2>2, <2>3
<1>5. \A b \in Batches : BatchLedger(b)' BY <1>2, <1>4 DEF LedgerInv, BatchLedger, Start
<1>6. Progress BY <1>2 DEF Progress
<1>7. \A t \in Ticks : TickLedger(t)' BY <1>1, <1>2, <1>6, TickKept DEF LedgerInv
<1>8. \A r \in Rows : FiberLedger(r)' BY <1>1, <1>2, <1>6, FiberKept DEF LedgerInv
<1>9. StaffLedger' BY <1>2 DEF LedgerInv, StaffLedger
<1>10. \A b \in Batches : Same(b) BY <1>2, <1>4 DEF Same, Phase, Due
<1> QED BY <1>5, <1>7, <1>8, <1>9, <1>10, LedgerStutter DEF LedgerInv

-----------------------------------------------------------------------------
(* Steps that write one batch *)

\* What a write of batch b leaves to show: the ledger of b, and what the step is.
LEMMA BatchStep ==
    ASSUME TypeInv, LedgerInv, NEW b \in Batches, NEW q \in BatchRecords, UNCHANGED row,
           batch' = [batch EXCEPT ![b] = q],
           batch[b].status # "none" =>
              /\ q.status # "none" /\ q.from = batch[b].from
              /\ batch[b].enqueue_complete => q.enqueue_complete
              /\ batch[b].cancel_requested => q.cancel_requested,
           BatchLedger(b)',
           \A t \in Ticks : tick'[t] = tick[t] \/ tick'[t].pc \in {"idle", "total", "empty"},
           \A t \in Ticks : tick'[t].pc \in {"total", "empty"} /\ tick'[t] # tick[t] =>
              tick'[t].batch = tick[t].batch /\ tick'[t].cursor = tick[t].cursor
              /\ tick[t].pc # "idle",
           \A r \in Rows : fiber'[r] = fiber[r] \/ fiber'[r] # "close"
    PROVE  /\ \A c \in Batches \ {b} : Same(c)
           /\ StaffLedger' => LedgerInv'
<1>0. batch \in [Batches -> BatchRecords] /\ batch'[b] = q
      /\ \A c \in Batches \ {b} : batch'[c] = batch[c]
  BY DEF TypeInv, BatchTypes
<1>1. RowsKept BY DEF RowsKept
<1>2. \A c : Covered(c)' = Covered(c) BY DEF Covered, RowsOf, Used
<1>3. \A c \in Batches \ {b} : Same(c) BY <1>0, <1>2 DEF Same, Phase, Due
<1>4. \A c \in Batches \ {b} : BatchLedger(c)'
  BY <1>0, <1>2 DEF LedgerInv, BatchLedger, Start
<1>5. Progress BY <1>0 DEF Progress
<1>6. ASSUME NEW t \in Ticks PROVE TickLedger(t)'
  <2>1. CASE tick'[t] = tick[t] BY <1>1, <1>5, <2>1, TickKept DEF LedgerInv
  <2>2. CASE tick'[t].pc = "idle" BY <2>2 DEF TickLedger
  <2>3. CASE tick'[t].pc \in {"total", "empty"} /\ tick'[t] # tick[t]
    <3>1. PICK c \in Batches : c = tick[t].batch BY <2>3 DEF TypeInv, TickTypes
    <3>2. tick'[t].batch = c /\ tick'[t].cursor = tick[t].cursor BY <2>3, <3>1
    <3>3. batch[c].status # "none" /\ batch[c].from <= Start(tick[t].cursor)
      BY <2>3, <3>1 DEF LedgerInv, TickLedger
    <3>4. batch'[c].status # "none" /\ batch'[c].from = batch[c].from
      BY <1>5, <3>3 DEF Progress
    <3>5. TickLedger(t)' =
            (tick'[t].pc # "idle" =>
               /\ batch'[c].status # "none"
               /\ batch'[c].from <= Start(tick'[t].cursor)
               /\ tick'[t].pc \in {"insert", "advance"} => tick'[t].chunk = Chunk(tick'[t].cursor)
               /\ tick'[t].pc = "advance" => tick'[t].chunk \subseteq Covered(c)'
               /\ tick'[t].pc = "done" => Start(tick'[t].cursor) = NumObjects)
      BY <3>2 DEF TickLedger, Covered, RowsOf, Used, Start, Chunk
    <3> QED BY <2>3, <3>2, <3>3, <3>4, <3>5
  <2> QED BY <2>1, <2>2, <2>3
<1>7. \A r \in Rows : fiber'[r] = fiber[r] => FiberLedger(r)'
  BY <1>1, <1>5, FiberKept DEF LedgerInv
<1>8. \A r \in Rows : fiber'[r] # "close" => FiberLedger(r)' BY DEF FiberLedger
<1> QED BY <1>3, <1>4, <1>6, <1>7, <1>8 DEF LedgerInv

LEMMA StaffKept ==
    ASSUME TypeInv, LedgerInv, UNCHANGED staff,
           \A b \in Batches :
              /\ batch[b].status \in {"running", "completed"}
                    => batch'[b].status \in {"running", "completed"}
              /\ batch[b].cancel_requested => batch'[b].cancel_requested
    PROVE  StaffLedger'
BY DEF LedgerInv, StaffLedger, TypeInv, StaffTypes

\* Counters, cursors and the end of the enqueueing are not the ledger's.
LEMMA SameBatch ==
    ASSUME TypeInv, NEW b \in Batches, NEW q \in BatchRecords, UNCHANGED row,
           batch' = [batch EXCEPT ![b] = q], q.status = batch[b].status,
           q.from = batch[b].from, q.cancel_requested = batch[b].cancel_requested
    PROVE  Same(b) /\ batch'[b] = q /\ Covered(b)' = Covered(b)
           /\ \A c \in Batches : /\ batch'[c].status = batch[c].status
                                 /\ batch'[c].cancel_requested = batch[c].cancel_requested
<1>1. batch'[b] = q /\ \A c \in Batches \ {b} : batch'[c] = batch[c]
  BY DEF TypeInv, BatchTypes
<1>2. Covered(b)' = Covered(b) BY DEF Covered, RowsOf, Used
<1> QED BY <1>1, <1>2 DEF Same, Phase, Due

\* A tick's or a fiber's write to its batch that keeps its status.
LEMMA SameStep ==
    ASSUME TypeInv, LedgerInv, NEW b \in Batches, NEW q \in BatchRecords,
           UNCHANGED <<row, staff>>,
           batch' = [batch EXCEPT ![b] = q], q.status = batch[b].status,
           q.from = batch[b].from, q.cancel_requested = batch[b].cancel_requested,
           batch[b].enqueue_complete => q.enqueue_complete,
           /\ q.from <= Start(q.cursor)
           /\ \A o \in Objects : q.from < o /\ o <= Start(q.cursor) => o \in Covered(b)
           /\ q.enqueue_complete /\ ~q.cancel_requested => Start(q.cursor) = NumObjects,
           \A t \in Ticks : tick'[t] = tick[t] \/ tick'[t].pc \in {"idle", "total", "empty"},
           \A t \in Ticks : tick'[t].pc \in {"total", "empty"} /\ tick'[t] # tick[t] =>
              tick'[t].batch = tick[t].batch /\ tick'[t].cursor = tick[t].cursor
              /\ tick[t].pc # "idle",
           \A r \in Rows : fiber'[r] = fiber[r] \/ fiber'[r] # "close"
    PROVE  LedgerInv' /\ UNCHANGED Ledger!vars
<1>1. Same(b) /\ batch'[b] = q /\ Covered(b)' = Covered(b)
      /\ \A c \in Batches : /\ batch'[c].status = batch[c].status
                            /\ batch'[c].cancel_requested = batch[c].cancel_requested
  BY SameBatch
<1>2. BatchLedger(b) BY DEF LedgerInv
<1>3. BatchLedger(b)' BY <1>1, <1>2 DEF BatchLedger, Start
<1>4. StaffLedger' BY <1>1, StaffKept
<1>5. (\A c \in Batches \ {b} : Same(c)) /\ (StaffLedger' => LedgerInv')
  BY <1>3, BatchStep
<1> QED BY <1>1, <1>4, <1>5, LedgerStutter

\* One tick's step, as the lemmas above need it.
LEMMA TickMoved ==
    ASSUME TypeInv, NEW t \in Ticks, tick[t].pc # "idle",
           NEW pc \in {"total", "empty"},
           tick' = [tick EXCEPT ![t].pc = pc] \/ tick' = [tick EXCEPT ![t] = IdleTick]
    PROVE  /\ \A u \in Ticks : tick'[u] = tick[u] \/ tick'[u].pc \in {"idle", "total", "empty"}
           /\ \A u \in Ticks : tick'[u].pc \in {"total", "empty"} /\ tick'[u] # tick[u] =>
                tick'[u].batch = tick[u].batch /\ tick'[u].cursor = tick[u].cursor
                /\ tick[u].pc # "idle"
<1>1. tick \in [Ticks -> TickRecords] BY DEF TypeInv, TickTypes
<1>2. \A u \in Ticks \ {t} : tick'[u] = tick[u] BY <1>1
<1>3. IdleTick.pc = "idle" BY DEF IdleTick
<1>4. \/ tick'[t].pc = "idle"
      \/ tick'[t].pc = pc /\ tick'[t].batch = tick[t].batch /\ tick'[t].cursor = tick[t].cursor
  BY <1>1, <1>3 DEF TickRecords
<1> QED BY <1>2, <1>4

LEMMA AdvanceStep ==
    ASSUME TypeInv, LedgerInv, NEW t \in Ticks, tick_advance(t)
    PROVE  LedgerInv' /\ UNCHANGED Ledger!vars
<1>1. PICK b \in Batches : b = tick[t].batch BY DEF tick_advance, TypeInv, TickTypes
<1>2. PICK c \in Cursors : c = tick[t].cursor BY DEF TypeInv, TickTypes, TickRecords
<1>3. batch[b] \in BatchRecords BY DEF TypeInv, BatchTypes
<1>4. batch[b].from <= Start(c) /\ Chunk(c) \subseteq Covered(b)
  BY <1>1, <1>2 DEF LedgerInv, TickLedger, tick_advance
<1>5. /\ Start(c) \in 0..NumObjects /\ LastOf(c) \in Objects /\ Start(c) <= LastOf(c)
      /\ \A o \in Objects : o > Start(c) /\ o <= LastOf(c) => o \in Chunk(c)
  BY ChunkTypes
<1>6. /\ UNCHANGED <<row, fiber, staff>> /\ tick' = [tick EXCEPT ![t].pc = "total"]
      /\ tick[t].pc # "idle"
      /\ batch' = IF batch[b].cursor = c
                  THEN [batch EXCEPT ![b].cursor = LastOf(c),
                                     ![b].enqueue_complete = @ \/ FALSE]
                  ELSE batch
  BY <1>1, <1>2 DEF tick_advance, Advanced
<1>7. BatchLedger(b) BY DEF LedgerInv
<1> DEFINE q == IF batch[b].cursor = c
                THEN [batch[b] EXCEPT !.cursor = LastOf(c), !.enqueue_complete = @ \/ FALSE]
                ELSE batch[b]
<1>8. q \in BatchRecords /\ q.status = batch[b].status /\ q.from = batch[b].from
      /\ q.cancel_requested = batch[b].cancel_requested
      /\ q.enqueue_complete = batch[b].enqueue_complete
  BY <1>3, <1>5 DEF BatchRecords
<1>9. batch' = [batch EXCEPT ![b] = q] BY <1>6 DEF TypeInv, BatchTypes
<1>10. /\ q.from <= Start(q.cursor)
       /\ \A o \in Objects : q.from < o /\ o <= Start(q.cursor) => o \in Covered(b)
       /\ q.enqueue_complete /\ ~q.cancel_requested => Start(q.cursor) = NumObjects
  <2>1. CASE batch[b].cursor # c
    <3>1. q = batch[b] BY <2>1
    <3> QED BY <1>7, <3>1 DEF BatchLedger
  <2>2. CASE batch[b].cursor = c
    <3>1. q.cursor = LastOf(c) BY <1>3, <2>2 DEF BatchRecords
    <3>2. LastOf(c) \in Nat /\ LastOf(c) <= NumObjects BY <1>5, Bounds DEF Objects
    <3>3. Start(LastOf(c)) = LastOf(c) BY <3>2 DEF Start, NULL
    <3>4. batch[b].from \in Nat
      <4>1. batch[b].from \in Objects \cup {0} BY <1>3 DEF BatchRecords
      <4>2. Objects \cup {0} \subseteq Nat BY Bounds
      <4> QED BY <4>1, <4>2
    <3>5. Objects \subseteq Nat /\ NumObjects \in Nat BY Bounds
    <3> HIDE DEF q
    <3>6. q.from <= LastOf(c) BY <1>4, <1>5, <1>8, <3>2, <3>4
    <3>7. ASSUME NEW o \in Objects, q.from < o, o <= LastOf(c) PROVE o \in Covered(b)
      <4>1. CASE o <= Start(c) BY <1>7, <1>8, <2>2, <3>7, <4>1 DEF BatchLedger
      <4>2. CASE o > Start(c) BY <1>4, <1>5, <3>7, <4>2
      <4> QED BY <1>5, <3>5, <4>1, <4>2
    <3>8. q.enqueue_complete /\ ~q.cancel_requested => LastOf(c) = NumObjects
      BY <1>5, <1>7, <1>8, <2>2, <3>2, <3>5 DEF BatchLedger
    <3> QED BY <3>1, <3>3, <3>6, <3>7, <3>8
  <2> QED BY <2>1, <2>2
<1> HIDE DEF q
<1>11. /\ \A u \in Ticks : tick'[u] = tick[u] \/ tick'[u].pc \in {"idle", "total", "empty"}
       /\ \A u \in Ticks : tick'[u].pc \in {"total", "empty"} /\ tick'[u] # tick[u] =>
            tick'[u].batch = tick[u].batch /\ tick'[u].cursor = tick[u].cursor
            /\ tick[u].pc # "idle"
  BY <1>6, TickMoved
<1> QED BY <1>6, <1>8, <1>9, <1>10, <1>11, SameStep

LEMMA DoneStep ==
    ASSUME TypeInv, LedgerInv, NEW t \in Ticks, tick_done(t)
    PROVE  LedgerInv' /\ UNCHANGED Ledger!vars
<1>1. PICK b \in Batches : b = tick[t].batch BY DEF tick_done, TypeInv, TickTypes
<1>2. PICK c \in Cursors : c = tick[t].cursor BY DEF TypeInv, TickTypes, TickRecords
<1>3. batch[b] \in BatchRecords BY DEF TypeInv, BatchTypes
<1>4. Start(c) = NumObjects BY <1>1, <1>2 DEF LedgerInv, TickLedger, tick_done
<1>6. /\ UNCHANGED <<row, fiber, staff>> /\ tick' = [tick EXCEPT ![t].pc = "empty"]
      /\ tick[t].pc # "idle"
      /\ batch' = IF batch[b].cursor = c
                  THEN [batch EXCEPT ![b].cursor = c, ![b].enqueue_complete = @ \/ TRUE]
                  ELSE batch
  BY <1>1, <1>2 DEF tick_done, Advanced
<1>7. BatchLedger(b) BY DEF LedgerInv
<1> DEFINE q == IF batch[b].cursor = c
                THEN [batch[b] EXCEPT !.enqueue_complete = TRUE] ELSE batch[b]
<1>8. q \in BatchRecords /\ q.status = batch[b].status /\ q.from = batch[b].from
      /\ q.cancel_requested = batch[b].cancel_requested /\ q.cursor = batch[b].cursor
      /\ (batch[b].enqueue_complete => q.enqueue_complete)
      /\ (q.enqueue_complete => batch[b].enqueue_complete \/ batch[b].cursor = c)
  BY <1>3 DEF BatchRecords
<1>9. batch' = [batch EXCEPT ![b] = q]
  BY <1>3, <1>6 DEF TypeInv, BatchTypes, BatchRecords
<1> HIDE DEF q
<1>10. /\ q.from <= Start(q.cursor)
       /\ \A o \in Objects : q.from < o /\ o <= Start(q.cursor) => o \in Covered(b)
       /\ q.enqueue_complete /\ ~q.cancel_requested => Start(q.cursor) = NumObjects
  BY <1>4, <1>7, <1>8 DEF BatchLedger
<1>11. /\ \A u \in Ticks : tick'[u] = tick[u] \/ tick'[u].pc \in {"idle", "total", "empty"}
       /\ \A u \in Ticks : tick'[u].pc \in {"total", "empty"} /\ tick'[u] # tick[u] =>
            tick'[u].batch = tick[u].batch /\ tick'[u].cursor = tick[u].cursor
            /\ tick[u].pc # "idle"
  BY <1>6, TickMoved
<1> QED BY <1>6, <1>8, <1>9, <1>10, <1>11, SameStep

\* The batch's counters are not the ledger's.
LEMMA CountersStep ==
    ASSUME TypeInv, LedgerInv, NEW b \in Batches, NEW q \in BatchRecords,
           UNCHANGED <<row, staff>>, batch' = [batch EXCEPT ![b] = q],
           q.status = batch[b].status, q.from = batch[b].from, q.cursor = batch[b].cursor,
           q.cancel_requested = batch[b].cancel_requested,
           q.enqueue_complete = batch[b].enqueue_complete,
           \A t \in Ticks : tick'[t] = tick[t] \/ tick'[t].pc = "idle",
           \A r \in Rows : fiber'[r] = fiber[r] \/ fiber'[r] # "close"
    PROVE  LedgerInv' /\ UNCHANGED Ledger!vars
<1>1. BatchLedger(b) BY DEF LedgerInv
<1>2. /\ q.from <= Start(q.cursor)
      /\ \A o \in Objects : q.from < o /\ o <= Start(q.cursor) => o \in Covered(b)
      /\ q.enqueue_complete /\ ~q.cancel_requested => Start(q.cursor) = NumObjects
  BY <1>1 DEF BatchLedger
<1>3. /\ \A u \in Ticks : tick'[u] = tick[u] \/ tick'[u].pc \in {"idle", "total", "empty"}
      /\ \A u \in Ticks : tick'[u].pc \in {"total", "empty"} /\ tick'[u] # tick[u] =>
           tick'[u].batch = tick[u].batch /\ tick'[u].cursor = tick[u].cursor
           /\ tick[u].pc # "idle"
  OBVIOUS
<1> QED BY <1>2, <1>3, SameStep

LEMMA CountStepLedger ==
    ASSUME TypeInv, LedgerInv,
           \/ \E t \in Ticks : increment_total(t)
           \/ \E r \in Rows : count(r)
    PROVE  LedgerInv' /\ UNCHANGED Ledger!vars
<1>1. ASSUME NEW t \in Ticks, increment_total(t) PROVE LedgerInv' /\ UNCHANGED Ledger!vars
  <2>1. PICK b \in Batches : b = tick[t].batch
    BY <1>1 DEF increment_total, TypeInv, TickTypes
  <2>2. batch[b] \in BatchRecords BY DEF TypeInv, BatchTypes
  <2>3. Cardinality(tick[t].chunk) \in Nat
    <3>1. IsFiniteSet(Objects) BY Bounds, FS_Interval DEF Objects
    <3>2. tick[t].chunk \subseteq Objects BY DEF TypeInv, TickTypes, TickRecords
    <3> QED BY <3>1, <3>2, FS_Subset, FS_CardinalityType
  <2> DEFINE q == [batch[b] EXCEPT !.total = @ + Cardinality(tick[t].chunk)]
  <2>4. /\ q \in BatchRecords /\ q.status = batch[b].status /\ q.from = batch[b].from
        /\ q.cursor = batch[b].cursor /\ q.cancel_requested = batch[b].cancel_requested
        /\ q.enqueue_complete = batch[b].enqueue_complete
    BY <2>2, <2>3 DEF BatchRecords
  <2>5. batch' = [batch EXCEPT ![b] = q] BY <1>1, <2>1 DEF increment_total
  <2> HIDE DEF q
  <2>6. \A u \in Ticks : tick'[u] = tick[u] \/ tick'[u].pc = "idle"
    BY <1>1 DEF increment_total, IdleTick, TypeInv, TickTypes
  <2>7. UNCHANGED <<row, staff, fiber>> BY <1>1 DEF increment_total
  <2> QED BY <2>4, <2>5, <2>6, <2>7, CountersStep
<1>2. ASSUME NEW r \in Rows, count(r) PROVE LedgerInv' /\ UNCHANGED Ledger!vars
  <2>1. PICK b \in Batches : b = row[r].batch
    BY <1>2 DEF count, TypeInv, FiberTypes, Counting
  <2>2. batch[b] \in BatchRecords /\ batch[b].succeeded \in Nat /\ batch[b].dead_lettered \in Nat
    BY DEF TypeInv, BatchTypes, BatchRecords
  <2> DEFINE ok == [batch[b] EXCEPT !.succeeded = @ + 1]
             dead == [batch[b] EXCEPT !.dead_lettered = @ + 1]
  <2>3. PICK q \in {batch[b], ok, dead} : batch' = [batch EXCEPT ![b] = q]
    <3>1. \/ batch' = [batch EXCEPT ![b] = ok]
          \/ batch' = [batch EXCEPT ![b] = dead]
          \/ UNCHANGED batch
      BY <1>2, <2>1 DEF count
    <3>2. batch = [batch EXCEPT ![b] = batch[b]] BY DEF TypeInv, BatchTypes
    <3> QED BY <3>1, <3>2
  <2>4. /\ q \in BatchRecords /\ q.status = batch[b].status /\ q.from = batch[b].from
        /\ q.cursor = batch[b].cursor /\ q.cancel_requested = batch[b].cancel_requested
        /\ q.enqueue_complete = batch[b].enqueue_complete
    BY <2>2 DEF BatchRecords
  <2>5. batch' = [batch EXCEPT ![b] = q] BY <2>3
  <2>6. UNCHANGED <<row, staff, tick>> BY <1>2 DEF count, fiberRest
  <2>7. \A p \in Rows : fiber'[p] = fiber[p] \/ fiber'[p] # "close"
    BY <1>2 DEF count, Goto, TypeInv, FiberTypes
  <2> QED BY <2>4, <2>5, <2>6, <2>7, CountersStep
<1> QED BY <1>1, <1>2

\* A batch declared completed has queued all it was started over, or is being
\* cancelled.
LEMMA Completed ==
    ASSUME TypeInv, LedgerInv, NEW b \in Batches, batch[b].status = "running",
           batch[b].enqueue_complete, UNCHANGED <<row, staff>>,
           batch' = [batch EXCEPT ![b].status = "completed"],
           \A t \in Ticks : tick'[t] = tick[t] \/ tick'[t].pc = "idle",
           \A r \in Rows : fiber'[r] = fiber[r] \/ fiber'[r] # "close"
    PROVE  LedgerInv' /\ (Ledger!Next \/ UNCHANGED Ledger!vars)
<1>1. batch[b] \in BatchRecords BY DEF TypeInv, BatchTypes
<1>2. BatchLedger(b) BY DEF LedgerInv
<1> DEFINE q == [batch[b] EXCEPT !.status = "completed"]
<1>3. /\ q \in BatchRecords /\ q.status = "completed" /\ q.from = batch[b].from
      /\ q.cursor = batch[b].cursor /\ q.cancel_requested = batch[b].cancel_requested
      /\ q.enqueue_complete = batch[b].enqueue_complete
  BY <1>1 DEF BatchRecords
<1>4. batch' = [batch EXCEPT ![b] = q] OBVIOUS
<1> HIDE DEF q
<1>5. batch'[b] = q /\ \A c \in Batches \ {b} : batch'[c] = batch[c]
  BY <1>4 DEF TypeInv, BatchTypes
<1>6. \A c : Covered(c)' = Covered(c) BY DEF Covered, RowsOf, Used
<1>7. BatchLedger(b)' BY <1>2, <1>3, <1>5, <1>6 DEF BatchLedger, Start
<1>8. /\ \A u \in Ticks : tick'[u] = tick[u] \/ tick'[u].pc \in {"idle", "total", "empty"}
      /\ \A u \in Ticks : tick'[u].pc \in {"total", "empty"} /\ tick'[u] # tick[u] =>
           tick'[u].batch = tick[u].batch /\ tick'[u].cursor = tick[u].cursor
           /\ tick[u].pc # "idle"
  OBVIOUS
<1>9. (\A c \in Batches \ {b} : Same(c)) /\ (StaffLedger' => LedgerInv')
  BY <1>3, <1>4, <1>7, <1>8, BatchStep
<1>10. StaffLedger' BY <1>3, <1>5, StaffKept
<1>11. Due(b)' = Due(b) BY <1>3, <1>5 DEF Due
<1>12. CASE batch[b].cancel_requested
  <2>1. Phase(b)' = Phase(b) BY <1>3, <1>5, <1>12 DEF Phase
  <2> QED BY <1>6, <1>9, <1>10, <1>11, <2>1, LedgerStep DEF Same
<1>13. CASE ~batch[b].cancel_requested
  <2>1. Phase(b) = "running" /\ Phase(b)' = "completed" BY <1>3, <1>5, <1>13 DEF Phase
  <2>2. Start(batch[b].cursor) = NumObjects BY <1>2, <1>13 DEF BatchLedger
  <2>3. \A o \in Objects : o <= NumObjects BY Bounds DEF Objects
  <2>4. Due(b) = {o \in Objects : o > batch[b].from} BY DEF Due
  <2>5. \A o \in Objects : o > batch[b].from => o \in Covered(b)
    <3>1. Objects \cup {0} \subseteq Nat BY Bounds
    <3>2. batch[b].from \in Nat BY <1>1, <3>1 DEF BatchRecords
    <3> QED BY <1>2, <2>2, <2>3, <3>1, <3>2 DEF BatchLedger
  <2>6. Covered(b) \subseteq Due(b)
    <3>1. Covered(b) \subseteq Objects BY DEF Covered, RowsOf, Used, TypeInv, RowTypes
    <3> QED BY <1>2, <2>4, <3>1 DEF BatchLedger
  <2>7. Covered(b) = Due(b) BY <2>4, <2>5, <2>6
  <2>8. Covered(b)' = Covered(b) BY <1>6
  <2>9. Ledger!Next \/ UNCHANGED Ledger!vars
    BY <1>9, <1>11, <2>1, <2>7, <2>8, LedgerStep
  <2> QED BY <1>9, <1>10, <2>9
<1> QED BY <1>12, <1>13

LEMMA CompleteSteps ==
    ASSUME TypeInv, LedgerInv,
           \/ \E t \in Ticks : complete_if_empty(t)
           \/ \E r \in Rows : close(r)
    PROVE  LedgerInv' /\ (Ledger!Next \/ UNCHANGED Ledger!vars)
<1>1. ASSUME NEW t \in Ticks, complete_if_empty(t)
      PROVE LedgerInv' /\ (Ledger!Next \/ UNCHANGED Ledger!vars)
  <2>1. PICK b \in Batches : b = tick[t].batch
    BY <1>1 DEF complete_if_empty, TypeInv, TickTypes
  <2>2. \A u \in Ticks : tick'[u] = tick[u] \/ tick'[u].pc = "idle"
    BY <1>1 DEF complete_if_empty, IdleTick, TypeInv, TickTypes
  <2>3. UNCHANGED <<row, fiber, staff>> BY <1>1 DEF complete_if_empty
  <2>4. CASE /\ batch[b].status = "running" /\ batch[b].enqueue_complete
             /\ batch' = [batch EXCEPT ![b].status = "completed"]
    BY <2>2, <2>3, <2>4, Completed
  <2>5. CASE UNCHANGED batch
    <3>1. RowsKept BY <2>3 DEF RowsKept
    <3> QED BY <2>2, <2>3, <2>5, <3>1, CalmStep
  <2> QED BY <1>1, <2>1, <2>4, <2>5 DEF complete_if_empty
<1>2. ASSUME NEW r \in Rows, close(r)
      PROVE LedgerInv' /\ (Ledger!Next \/ UNCHANGED Ledger!vars)
  <2>1. PICK b \in Batches : b = row[r].batch
    BY <1>2 DEF close, TypeInv, FiberTypes, Counting
  <2>2. batch[b].enqueue_complete BY <1>2, <2>1 DEF LedgerInv, FiberLedger, close
  <2>3. UNCHANGED <<row, staff, tick>> BY <1>2 DEF close, fiberRest
  <2>4. \A p \in Rows : fiber'[p] = fiber[p] \/ fiber'[p] # "close"
    BY <1>2 DEF close, Goto, TypeInv, FiberTypes
  <2>5. CASE /\ batch[b].status = "running"
             /\ batch' = [batch EXCEPT ![b].status = "completed"]
    BY <2>2, <2>3, <2>4, <2>5, Completed
  <2>6. CASE UNCHANGED batch
    <3>1. RowsKept BY <2>3 DEF RowsKept
    <3> QED BY <2>3, <2>4, <2>6, <3>1, CalmStep
  <2> QED BY <1>2, <2>1, <2>5, <2>6 DEF close
<1> QED BY <1>1, <1>2

LEMMA CreateStep ==
    ASSUME TypeInv, LedgerInv, create_batch
    PROVE  LedgerInv' /\ (Ledger!Next \/ UNCHANGED Ledger!vars)
<1>1. PICK b \in Batches :
        /\ batch[b].status = "none"
        /\ batch' = [batch EXCEPT ![b] =
                       [NoBatch EXCEPT !.status = "running", !.cursor = staff.cursor,
                                       !.from = Start(staff.cursor)]]
  BY DEF create_batch
<1>2. PICK c \in Cursors : c = staff.cursor BY DEF TypeInv, StaffTypes, StaffRecords
<1>3. Start(c) \in 0..NumObjects BY ChunkTypes
<1>4. Start(c) \in Objects \cup {0} BY <1>3, Bounds DEF Objects
<1> DEFINE q == [NoBatch EXCEPT !.status = "running", !.cursor = c, !.from = Start(c)]
<1>5. /\ q \in BatchRecords /\ q.status = "running" /\ q.cursor = c /\ q.from = Start(c)
      /\ ~q.enqueue_complete /\ ~q.cancel_requested
  BY <1>4 DEF NoBatch, BatchRecords, Cursors
<1>6. batch' = [batch EXCEPT ![b] = q] BY <1>1, <1>2
<1> HIDE DEF q
<1>7. UNCHANGED <<row, tick, fiber>> /\ staff' = IdleStaff BY DEF create_batch, worldRest
<1>8. batch'[b] = q BY <1>6 DEF TypeInv, BatchTypes
<1>9. BatchLedger(b) BY DEF LedgerInv
<1>10. Covered(b) = {} /\ Covered(b)' = {}
  <2>1. Covered(b)' = Covered(b) BY <1>7 DEF Covered, RowsOf, Used
  <2> QED BY <1>1, <1>9, <2>1 DEF BatchLedger
<1>11. \A o \in Objects : ~(Start(c) < o /\ o <= Start(c))
  <2>1. Objects \subseteq Nat BY Bounds
  <2> QED BY <1>3, <2>1
<1>12. BatchLedger(b)'
  BY <1>3, <1>5, <1>8, <1>10, <1>11 DEF BatchLedger, Start
<1>13. (\A d \in Batches \ {b} : Same(d)) /\ (StaffLedger' => LedgerInv')
  BY <1>1, <1>5, <1>6, <1>7, <1>12, BatchStep
<1>14. StaffLedger' BY <1>7 DEF StaffLedger, IdleStaff
<1>15. Phase(b) = "none" /\ Phase(b)' = "running"
  BY <1>1, <1>5, <1>8, <1>9 DEF Phase, BatchLedger
<1>16. Covered(b)' = Covered(b) BY <1>10
<1>17. Ledger!Next \/ UNCHANGED Ledger!vars BY <1>13, <1>15, <1>16, LedgerStep
<1> QED BY <1>13, <1>14, <1>17

\* A cancel: its request marks the batch, its last write ends it.
LEMMA CancelSteps ==
    ASSUME TypeInv, LedgerInv, cancel_flags \/ cancel_status
    PROVE  LedgerInv' /\ (Ledger!Next \/ UNCHANGED Ledger!vars)
<1>1. PICK b \in Batches : b = staff.batch
  BY DEF cancel_flags, cancel_status, TypeInv, StaffTypes
<1>2. batch[b] \in BatchRecords BY DEF TypeInv, BatchTypes
<1>3. BatchLedger(b) BY DEF LedgerInv
<1>4. batch[b].status \in {"running", "completed"}
      /\ (cancel_status => batch[b].cancel_requested)
  BY <1>1 DEF LedgerInv, StaffLedger, cancel_flags, cancel_status
<1> DEFINE flagged == [batch[b] EXCEPT !.cancel_requested = TRUE, !.enqueue_complete = TRUE]
           ended == [batch[b] EXCEPT !.status = "cancelled"]
<1>5. PICK q \in {flagged, ended} :
               /\ (q = flagged /\ cancel_flags) \/ (q = ended /\ cancel_status)
               /\ batch' = [batch EXCEPT ![b] = q]
  <2>1. CASE cancel_flags
    <3>1. batch' = [batch EXCEPT ![b] = flagged] BY <1>1, <2>1 DEF cancel_flags
    <3> QED BY <2>1, <3>1
  <2>2. CASE cancel_status
    <3>1. batch' = [batch EXCEPT ![b] = ended] BY <1>1, <2>2 DEF cancel_status
    <3> QED BY <2>2, <3>1
  <2> QED BY <2>1, <2>2
<1>6. /\ q \in BatchRecords /\ q.from = batch[b].from /\ q.cursor = batch[b].cursor
      /\ q.status # "none" /\ q.cancel_requested /\ Due(b)' = Due(b)
      /\ batch'[b] = q
      /\ (batch[b].enqueue_complete => q.enqueue_complete)
  <2>1. /\ flagged \in BatchRecords /\ flagged.from = batch[b].from
        /\ flagged.cursor = batch[b].cursor /\ flagged.status = batch[b].status
        /\ flagged.cancel_requested /\ flagged.enqueue_complete
    BY <1>2 DEF BatchRecords
  <2>2. /\ ended \in BatchRecords /\ ended.from = batch[b].from
        /\ ended.cursor = batch[b].cursor /\ ended.status = "cancelled"
        /\ ended.cancel_requested = batch[b].cancel_requested
        /\ ended.enqueue_complete = batch[b].enqueue_complete
    BY <1>2 DEF BatchRecords
  <2> HIDE DEF flagged, ended
  <2>3. /\ q \in BatchRecords /\ q.from = batch[b].from /\ q.cursor = batch[b].cursor
        /\ q.status # "none" /\ q.cancel_requested
        /\ (batch[b].enqueue_complete => q.enqueue_complete)
    BY <1>4, <1>5, <2>1, <2>2
  <2>4. batch'[b] = q BY <1>5 DEF TypeInv, BatchTypes
  <2>5. Due(b)' = Due(b) BY <1>4, <2>3, <2>4 DEF Due
  <2> QED BY <2>3, <2>4, <2>5
<1>7. /\ UNCHANGED <<row, tick, fiber>>
      /\ \/ staff' = IdleStaff
         \/ staff' = [staff EXCEPT !.pc = "delete"] /\ cancel_flags
  BY DEF cancel_flags, cancel_status, worldRest
<1>8. \A c : Covered(c)' = Covered(c) BY <1>7 DEF Covered, RowsOf, Used
<1>9. BatchLedger(b)' BY <1>3, <1>6, <1>8 DEF BatchLedger, Start
<1>10. (\A d \in Batches \ {b} : Same(d)) /\ (StaffLedger' => LedgerInv')
  BY <1>5, <1>6, <1>7, <1>9, BatchStep
<1>11. StaffLedger'
  <2>1. CASE staff' = IdleStaff BY <2>1 DEF StaffLedger, IdleStaff
  <2>2. CASE staff' = [staff EXCEPT !.pc = "delete"] /\ cancel_flags
    <3>1. staff'.pc = "delete" /\ staff'.batch = b
      BY <1>1, <2>2 DEF TypeInv, StaffTypes, StaffRecords
    <3>2. batch'[b].status = batch[b].status /\ batch'[b].cancel_requested
      BY <1>1, <1>2, <1>6, <2>2 DEF cancel_flags, TypeInv, BatchTypes, BatchRecords
    <3> QED BY <1>4, <3>1, <3>2 DEF StaffLedger
  <2> QED BY <1>7, <2>1, <2>2
<1>12. Ledger!Next \/ UNCHANGED Ledger!vars
  <2>1. CASE q = ended /\ cancel_status
    <3>1. Phase(b) = "cancelling" BY <1>4, <2>1 DEF Phase
    <3>2. Phase(b)' = "cancelled" BY <1>2, <1>6, <2>1 DEF Phase, BatchRecords
    <3> QED BY <1>6, <1>8, <1>10, <3>1, <3>2, LedgerStep
  <2>2. CASE q = flagged /\ cancel_flags
    <3>1. batch'[b].status = batch[b].status /\ batch'[b].cancel_requested
      BY <1>2, <1>6, <2>2 DEF BatchRecords
    <3>2. Phase(b)' = "cancelling" BY <1>4, <3>1 DEF Phase
    <3>3. CASE batch[b].cancel_requested
      <4>1. Phase(b) = "cancelling" BY <1>4, <3>3 DEF Phase
      <4> QED BY <1>6, <1>8, <1>10, <3>2, <4>1, LedgerStep DEF Same
    <3>4. CASE ~batch[b].cancel_requested
      <4>1. Phase(b) \in {"running", "completed"} BY <1>4, <3>4 DEF Phase
      <4> QED BY <1>6, <1>8, <1>10, <3>2, <4>1, LedgerStep
    <3> QED BY <3>3, <3>4
  <2> QED BY <1>5, <2>1, <2>2
<1> QED BY <1>10, <1>11, <1>12

-----------------------------------------------------------------------------

LEMMA InitLedger == ASSUME Init PROVE LedgerInv /\ Ledger!Init
<1>1. TypeInv BY InitTypes
<1>2. /\ \A b \in Batches : batch[b] = NoBatch
      /\ \A r \in Rows : row[r] = NoRow /\ fiber[r] = "idle"
      /\ \A t \in Ticks : tick[t].pc = "idle"
      /\ staff.pc = "idle"
  BY DEF Init, IdleTick, IdleStaff
<1>3. \A b : Covered(b) = {} BY <1>2, NoRowTyped DEF Covered, RowsOf, Used
<1>4. \A o \in Objects : ~(o <= 0)
  <2>1. Objects \subseteq Nat \ {0} BY Bounds
  <2> QED BY <2>1
<1>5. /\ NoBatch.status = "none" /\ ~NoBatch.cancel_requested /\ ~NoBatch.enqueue_complete
      /\ NoBatch.from = 0 /\ Start(NoBatch.cursor) = 0
  BY DEF NoBatch, Start
<1>6. \A b \in Batches : BatchLedger(b)
  BY <1>2, <1>3, <1>4, <1>5 DEF BatchLedger
<1>7. LedgerInv
  BY <1>2, <1>6 DEF LedgerInv, TickLedger, FiberLedger, StaffLedger
<1>8. \A b \in Batches : Phase(b) = "none" /\ Due(b) = {} /\ Covered(b) = {}
  BY <1>2, <1>3, <1>5 DEF Phase, Due
<1>9. Ledger!Init BY <1>8 DEF Ledger!Init, Due
<1> QED BY <1>7, <1>9

LEMMA NextLedger ==
    ASSUME TypeInv, LedgerInv, Next
    PROVE  LedgerInv' /\ (Ledger!Next \/ UNCHANGED Ledger!vars)
<1>1. ASSUME NEW t \in Ticks, Producer(t) \/ tick_failed(t)
      PROVE LedgerInv' /\ (Ledger!Next \/ UNCHANGED Ledger!vars)
  BY <1>1, CalmTick, InsertStep, AdvanceStep, DoneStep, CountStepLedger, CompleteSteps
     DEF Producer
<1>2. CASE WorkerLoop \/ (\E r \in Rows : TimePasses(r)) \/ crash \/ start
  BY <1>2, CalmWorker
<1>3. ASSUME NEW r \in Rows, process_row(r)
      PROVE LedgerInv' /\ (Ledger!Next \/ UNCHANGED Ledger!vars)
  BY <1>3, CalmFiber, CountStepLedger, CompleteSteps
<1>4. CASE StaffRequests \/ Requests_in_progress
  BY <1>4, CalmStaff, EnqueueStep, CreateStep, CancelSteps
     DEF StaffRequests, Requests_in_progress
<1> QED BY <1>1, <1>2, <1>3, <1>4 DEF Next

LEMMA StutterLedger ==
    ASSUME TypeInv, LedgerInv, UNCHANGED vars
    PROVE  LedgerInv' /\ UNCHANGED Ledger!vars
<1>1. UNCHANGED <<batch, row, tick, fiber, staff>> BY DEF vars
<1>2. RowsKept BY <1>1 DEF RowsKept
<1> QED BY <1>1, <1>2, CalmStep

\* ImplementsLedger of the run Refresh, for every number of objects, rows, batches,
\* overlapping ticks and failures, and every chunk size (producer.js tick,
\* batches.js): a system-wide batch reports itself completed only when every object
\* past its starting point has been queued, takes no object from before it, and one
\* that is being cancelled ends cancelled.
THEOREM Implements == Spec => ImplementsLedger
<1>1. TypeInv /\ LedgerInv /\ [Next]_vars => LedgerInv' /\ [Ledger!Next]_(Ledger!vars)
  BY NextLedger, StutterLedger
<1>2. Init => LedgerInv /\ Ledger!Init BY InitLedger
<1> QED BY <1>1, <1>2, Typed, PTL DEF Spec, ImplementsLedger, Ledger!Spec

-----------------------------------------------------------------------------
(* A batch counts no row twice *)

\* What a fiber knows of its row: it works on an open one and counts a closed one.
\* A staff cancel closes rows under a fiber, but only rows no batch counts.
RowHonest(r) ==
    /\ fiber[r] \in Working /\ row[r].batch \in Batches => ~row[r].is_complete
    /\ fiber[r] \in Counting => row[r].is_complete

\* A row that has been counted, or never will be.
Done(r) == row[r].is_complete /\ fiber[r] \notin {"count_ok", "count_dead"}
Settled(b) == {r \in RowsOf(b) : Done(r)}
Tally(b) == batch[b].succeeded + batch[b].dead_lettered

HonestInv ==
    /\ \A r \in Rows : RowHonest(r)
    /\ \A b \in Batches : Tally(b) <= Cardinality(Settled(b))

\* A step keeps what a fiber knows, and takes no settled row back.
FineRow(r) == /\ RowHonest(r)'
              /\ row[r].batch \in Batches /\ Done(r) => Done(r)'

LEMMA FiberWrites ==
    ASSUME TypeInv, NEW r \in Rows, RowHonest(r), process_row(r)
    PROVE  FineRow(r)
<1>q. /\ row \in [Rows -> RowRecords] /\ fiber \in [Rows -> FiberSteps]
      /\ row[r] \in RowRecords
  BY DEF TypeInv, RowTypes, FiberTypes
<1> DEFINE open == row[r].batch \in Batches => ~row[r].is_complete
<1>w. fiber[r] \in Working => open BY DEF RowHonest
<1>1. CASE fetch(r) \/ update_metadata_payload(r) \/ mark_updated(r)
  <2>1. open BY <1>1, <1>w DEF fetch, update_metadata_payload, mark_updated, Working
  <2>2. row'[r].batch = row[r].batch /\ row'[r].is_complete = row[r].is_complete
    BY <1>1, <1>q DEF fetch, update_metadata_payload, mark_updated, tables, RowRecords
  <2>3. fiber'[r] \in Working
    BY <1>1, <1>q DEF fetch, update_metadata_payload, mark_updated, Goto, Working
  <2>4. fiber'[r] \notin Counting BY <2>3 DEF Working, Counting
  <2> QED BY <2>1, <2>2, <2>3, <2>4 DEF FineRow, RowHonest, Done
<1>2. CASE mark_complete(r)
  <2>1. open BY <1>2, <1>w DEF mark_complete, Working
  <2>2. ASSUME row' = [row EXCEPT ![r].status = "COMPLETE", ![r].is_complete = TRUE],
               Goto(r, CountStep(r, "count_ok"))
        PROVE  FineRow(r)
    <3>1. row'[r].is_complete BY <2>2, <1>q DEF RowRecords
    <3>2. fiber'[r] \notin Working BY <2>2, <1>q DEF Goto, CountStep, Working
    <3> QED BY <2>1, <3>1, <3>2 DEF FineRow, RowHonest, Done
  <2>3. ASSUME UNCHANGED row, Goto(r, "mark_failed")
        PROVE  FineRow(r)
    <3>1. fiber'[r] \notin Counting BY <2>3, <1>q DEF Goto, Counting
    <3> QED BY <2>1, <2>3, <3>1 DEF FineRow, RowHonest, Done
  <2> QED BY <1>2, <2>2, <2>3 DEF mark_complete
<1>3. CASE mark_failed(r)
  <2>1. open BY <1>3, <1>w DEF mark_failed, Working
  <2>2. ASSUME row' = [row EXCEPT ![r] = MarkFailed(@)], Goto(r, AfterFailure(r))
        PROVE  FineRow(r)
    <3>1. row'[r] = MarkFailed(row[r]) /\ fiber'[r] = AfterFailure(r)
      BY <2>2, <1>q DEF Goto
    <3>2. fiber'[r] \notin Working BY <3>1 DEF AfterFailure, CountStep, Working
    <3>3. fiber'[r] \in Counting => row'[r].is_complete
      BY <3>1, <1>q DEF AfterFailure, CountStep, Counting, MarkFailed, Retried, RowRecords
    <3> QED BY <2>1, <3>2, <3>3 DEF FineRow, RowHonest, Done
  <2>3. ASSUME UNCHANGED row, Goto(r, "idle")
        PROVE  FineRow(r)
    <3>1. fiber'[r] = "idle" BY <2>3, <1>q DEF Goto
    <3> QED BY <2>1, <2>3, <3>1 DEF FineRow, RowHonest, Done, Working, Counting
  <2> QED BY <1>3, <2>2, <2>3 DEF mark_failed
<1>4. CASE count(r) \/ look(r) \/ close(r)
  <2>1. UNCHANGED row BY <1>4 DEF count, look, close, tables
  <2>2. fiber[r] \in Counting BY <1>4 DEF count, look, close, Counting
  <2>3. fiber'[r] \in {"look", "close", "idle"} BY <1>4, <1>q DEF count, look, close, Goto
  <2>4. fiber'[r] \notin Working BY <2>3 DEF Working
  <2> QED BY <2>1, <2>2, <2>3, <2>4 DEF FineRow, RowHonest, Done
<1> QED BY <1>1, <1>2, <1>3, <1>4 DEF process_row

LEMMA RowsFine ==
    ASSUME TypeInv, NEW r \in Rows, RowHonest(r), Next
    PROVE  FineRow(r)
<1>1. row[r].status # "none" => row'[r].batch = row[r].batch BY StepTypes DEF RowsKept
<1>2. CASE process_row(r) BY <1>2, FiberWrites
<1>3. CASE ~process_row(r)
  <2>1. RowStep(r) BY RowSteps
  <2> QED BY <1>1, <1>3, <2>1 DEF RowStep, FineRow, RowHonest, Done, Working, Counting
<1> QED BY <1>2, <1>3

LEMMA TallyTypes == ASSUME TypeInv, NEW b \in Batches
                    PROVE  /\ batch[b] \in BatchRecords
                           /\ batch[b].succeeded \in Nat /\ batch[b].dead_lettered \in Nat
                           /\ Tally(b) \in Nat
BY DEF TypeInv, BatchTypes, BatchRecords, Tally

\* Only a fiber that counts its row raises a counter; a new batch starts at zero.
LEMMA TallyStep ==
    ASSUME TypeInv, NEW b \in Batches, Next
    PROVE  \/ Tally(b)' <= Tally(b)
           \/ /\ Tally(b)' = Tally(b) + 1
              /\ \E r \in RowsOf(b) : /\ fiber[r] \in {"count_ok", "count_dead"}
                                      /\ fiber'[r] = "look" /\ UNCHANGED row
<1>q. /\ batch \in [Batches -> BatchRecords] /\ fiber \in [Rows -> FiberSteps]
      /\ batch[b] \in BatchRecords /\ Tally(b) \in Nat
  BY TallyTypes DEF TypeInv, BatchTypes, FiberTypes
<1>s. (batch'[b].succeeded = batch[b].succeeded
         /\ batch'[b].dead_lettered = batch[b].dead_lettered) => Tally(b)' <= Tally(b)
  BY <1>q DEF Tally
<1>1. ASSUME NEW t \in Ticks, Producer(t) \/ tick_failed(t)
      PROVE  Tally(b)' <= Tally(b)
  <2>1. CASE UNCHANGED batch BY <1>s, <2>1
  <2>2. CASE tick_advance(t) \/ tick_done(t)
    <3>1. PICK c, new, done : batch' = Advanced(tick[t].batch, c, new, done)
      BY <2>2, Zenon DEF tick_advance, tick_done
    <3>2. batch'[b].succeeded = batch[b].succeeded
          /\ batch'[b].dead_lettered = batch[b].dead_lettered
      BY <1>q, <3>1 DEF Advanced, BatchRecords
    <3> QED BY <1>s, <3>2
  <2>3. CASE increment_total(t) \/ complete_if_empty(t)
    <3>1. batch'[b].succeeded = batch[b].succeeded
          /\ batch'[b].dead_lettered = batch[b].dead_lettered
      BY <1>q, <2>3 DEF increment_total, complete_if_empty, BatchRecords
    <3> QED BY <1>s, <3>1
  <2> QED BY <1>1, <2>1, <2>2, <2>3 DEF Producer, tick_read, tick_insert, tick_failed, tables
<1>2. CASE WorkerLoop
  BY <1>2, <1>s DEF WorkerLoop, worker_tick, claim_pending, worker_settled,
     _maybe_rotate_token, tables
<1>3. ASSUME NEW r \in Rows, process_row(r)
      PROVE  \/ Tally(b)' <= Tally(b)
             \/ /\ Tally(b)' = Tally(b) + 1
                /\ r \in RowsOf(b) /\ fiber[r] \in {"count_ok", "count_dead"}
                /\ fiber'[r] = "look" /\ UNCHANGED row
  <2>1. CASE UNCHANGED batch BY <1>s, <2>1
  <2>2. CASE count(r) /\ ~UNCHANGED batch
    <3>1. /\ fiber[r] \in {"count_ok", "count_dead"} /\ fiber'[r] = "look" /\ UNCHANGED row
          /\ \/ batch' = [batch EXCEPT ![row[r].batch].succeeded = @ + 1]
             \/ batch' = [batch EXCEPT ![row[r].batch].dead_lettered = @ + 1]
      BY <1>q, <2>2 DEF count, Goto
    <3>2. row[r].status # "none" BY <3>1 DEF TypeInv, FiberTypes
    <3>3. CASE row[r].batch # b
      <4>1. batch'[b] = batch[b] BY <1>q, <3>1, <3>3
      <4> QED BY <1>s, <4>1
    <3>4. CASE row[r].batch = b
      <4>1. r \in RowsOf(b) BY <3>2, <3>4 DEF RowsOf, Used
      <4>2. CASE batch' = [batch EXCEPT ![row[r].batch].succeeded = @ + 1]
        <5>1. batch'[b].succeeded = batch[b].succeeded + 1
              /\ batch'[b].dead_lettered = batch[b].dead_lettered
          BY <1>q, <3>4, <4>2 DEF BatchRecords
        <5>2. Tally(b)' = Tally(b) + 1 BY <5>1, TallyTypes DEF Tally
        <5> QED BY <3>1, <4>1, <5>2
      <4>3. CASE batch' = [batch EXCEPT ![row[r].batch].dead_lettered = @ + 1]
        <5>1. batch'[b].dead_lettered = batch[b].dead_lettered + 1
              /\ batch'[b].succeeded = batch[b].succeeded
          BY <1>q, <3>4, <4>3 DEF BatchRecords
        <5>2. Tally(b)' = Tally(b) + 1 BY <5>1, TallyTypes DEF Tally
        <5> QED BY <3>1, <4>1, <5>2
      <4> QED BY <3>1, <4>2, <4>3
    <3> QED BY <3>3, <3>4
  <2>3. CASE close(r)
    <3>1. batch'[b].succeeded = batch[b].succeeded
          /\ batch'[b].dead_lettered = batch[b].dead_lettered
      BY <1>q, <2>3 DEF close, BatchRecords
    <3> QED BY <1>s, <3>1
  <2> QED BY <1>3, <2>1, <2>2, <2>3
          DEF process_row, fetch, update_metadata_payload, mark_updated, mark_complete,
              mark_failed, look, tables
<1>4. CASE (\E r \in Rows : TimePasses(r)) \/ crash \/ start
  BY <1>4, <1>s DEF TimePasses, crash, start, tables
<1>5. CASE StaffRequests \/ Requests_in_progress
  <2>1. CASE UNCHANGED batch BY <1>s, <2>1
  <2>2. CASE create_batch
    <3>1. PICK c \in Batches : batch' = [batch EXCEPT ![c] =
                 [NoBatch EXCEPT !.status = "running", !.cursor = staff.cursor,
                                 !.from = Start(staff.cursor)]]
      BY <2>2 DEF create_batch
    <3>2. CASE c = b
      <4>1. batch'[b].succeeded = 0 /\ batch'[b].dead_lettered = 0
        BY <1>q, <3>1, <3>2 DEF NoBatch
      <4> QED BY <1>q, <4>1 DEF Tally
    <3>3. CASE c # b
      <4>1. batch'[b] = batch[b] BY <1>q, <3>1, <3>3
      <4> QED BY <1>s, <4>1
    <3> QED BY <3>2, <3>3
  <2>3. CASE cancel_flags \/ cancel_status
    <3>1. batch'[b].succeeded = batch[b].succeeded
          /\ batch'[b].dead_lettered = batch[b].dead_lettered
      BY <1>q, <2>3 DEF cancel_flags, cancel_status, BatchRecords
    <3> QED BY <1>s, <3>1
  <2> QED BY <1>5, <2>1, <2>2, <2>3
          DEF StaffRequests, Requests_in_progress, start_refresh, request_cancel, enqueue,
              cancel_batch, create_batch_check, cancel_delete
<1> QED BY <1>1, <1>2, <1>3, <1>4, <1>5 DEF Next

LEMMA FiniteRows == ASSUME NEW S, S \subseteq Rows
                    PROVE  IsFiniteSet(S) /\ Cardinality(S) \in Nat
<1>1. IsFiniteSet(Rows) BY Bounds, FS_Interval DEF Rows
<1>2. IsFiniteSet(S) BY <1>1, FS_Subset
<1> QED BY <1>2, FS_CardinalityType

LEMMA HonestStep ==
    ASSUME TypeInv, HonestInv, Next
    PROVE  HonestInv'
<1>1. TypeInv' /\ RowsKept BY StepTypes
<1>2. \A r \in Rows : FineRow(r) BY RowsFine DEF HonestInv
<1>3. ASSUME NEW b \in Batches PROVE (Tally(b) <= Cardinality(Settled(b)))'
  <2> DEFINE S == Settled(b)
             T == Settled(b)'
  <2>1. S \subseteq T
    <3> SUFFICES ASSUME NEW r \in S PROVE r \in T OBVIOUS
    <3>1. r \in Rows /\ row[r].status # "none" /\ row[r].batch = b /\ Done(r)
      BY DEF Settled, RowsOf, Used
    <3>2. Done(r)' BY <1>2, <3>1 DEF FineRow
    <3> QED BY <1>1, <3>1, <3>2 DEF RowsKept, Settled, RowsOf, Used
  <2>2. T \subseteq Rows BY DEF Settled, RowsOf, Used
  <2>3. /\ IsFiniteSet(S) /\ Cardinality(S) \in Nat
        /\ IsFiniteSet(T) /\ Cardinality(T) \in Nat
    BY <2>1, <2>2, FiniteRows
  <2>4. Cardinality(S) <= Cardinality(T) BY <2>1, <2>3, FS_Subset
  <2>5. Tally(b) \in Nat /\ Tally(b) <= Cardinality(S) BY TallyTypes DEF HonestInv
  <2>6. Tally(b)' \in Nat BY <1>1 DEF TypeInv, BatchTypes, BatchRecords, Tally
  <2>7. Tally(b)' <= Cardinality(T)
    <3>1. CASE Tally(b)' <= Tally(b)
      <4> HIDE DEF S, T
      <4> QED BY <2>3, <2>4, <2>5, <2>6, <3>1
    <3>2. ASSUME Tally(b)' = Tally(b) + 1, NEW r \in RowsOf(b),
                 fiber[r] \in {"count_ok", "count_dead"}, fiber'[r] = "look", UNCHANGED row
          PROVE  Tally(b)' <= Cardinality(T)
      <4>1. r \notin S BY <3>2 DEF Settled, Done
      <4>2. row[r].is_complete BY <3>2 DEF HonestInv, RowHonest, Counting, RowsOf, Used
      <4>3. r \in T BY <3>2, <4>2 DEF Settled, Done, RowsOf, Used
      <4> HIDE DEF S, T
      <4>4. S \cup {r} \subseteq T BY <2>1, <4>3
      <4>5. Cardinality(S \cup {r}) = Cardinality(S) + 1 BY <2>3, <4>1, FS_AddElement
      <4>6. Cardinality(S \cup {r}) <= Cardinality(T) BY <2>3, <4>4, FS_Subset
      <4> QED BY <2>3, <2>5, <3>2, <4>5, <4>6
    <3> QED BY <3>1, <3>2, TallyStep
  <2> QED BY <2>7
<1> QED BY <1>2, <1>3 DEF HonestInv, FineRow

LEMMA InitHonest == ASSUME Init PROVE HonestInv
<1>1. \A r \in Rows : RowHonest(r) BY DEF Init, RowHonest, Working, Counting
<1>2. ASSUME NEW b \in Batches PROVE Tally(b) <= Cardinality(Settled(b))
  <2>1. Tally(b) = 0 BY DEF Init, Tally, NoBatch
  <2>2. Cardinality(Settled(b)) \in Nat BY FiniteRows DEF Settled, RowsOf, Used
  <2> QED BY <2>1, <2>2
<1> QED BY <1>1, <1>2 DEF HonestInv

LEMMA HonestStutter == ASSUME HonestInv, UNCHANGED vars PROVE HonestInv'
BY DEF HonestInv, RowHonest, Tally, Settled, RowsOf, Used, Done, vars

\* CountersHonest of the run Refresh, for every number of objects, rows, batches,
\* overlapping ticks, faults and requests (batches.js, on_row_terminal): a batch
\* never counts more rows than have ended, whatever is retried, swept or cancelled.
THEOREM CountersAreHonest == Spec => []CountersHonest
<1>3. TypeInv /\ HonestInv /\ [Next]_vars => HonestInv' BY HonestStep, HonestStutter
<1>4. ASSUME TypeInv, HonestInv PROVE CountersHonest
  <2> SUFFICES ASSUME NEW b \in Batches
               PROVE  Tally(b) <= Cardinality({r \in RowsOf(b) : row[r].is_complete})
    BY DEF CountersHonest, Tally
  <2> DEFINE C == {r \in RowsOf(b) : row[r].is_complete}
  <2>1. Settled(b) \subseteq C BY DEF Settled, Done
  <2>2. C \subseteq Rows BY DEF RowsOf, Used
  <2>3. /\ IsFiniteSet(C) /\ Cardinality(C) \in Nat /\ Cardinality(Settled(b)) \in Nat
    BY <2>1, <2>2, FiniteRows
  <2> HIDE DEF C
  <2>4. Cardinality(Settled(b)) <= Cardinality(C) BY <2>1, <2>3, FS_Subset
  <2>5. Tally(b) \in Nat /\ Tally(b) <= Cardinality(Settled(b))
    BY <1>4, TallyTypes DEF HonestInv
  <2>6. Tally(b) <= Cardinality(C) BY <2>3, <2>4, <2>5
  <2> QED BY <2>6 DEF C
<1> QED BY <1>3, <1>4, InitHonest, Typed, PTL DEF Spec

-----------------------------------------------------------------------------
(* An undisturbed batch is clean *)

\* What a closed row says of its object.
Outcome(r) ==
    /\ fiber[r] \in {"mark_updated", "mark_complete"} => row[r].obj \in refreshed
    /\ row[r].is_complete /\ row[r].batch \in Batches
          => row[r].status = "DEAD_LETTERED" \/ row[r].obj \in refreshed

LEMMA RefreshedGrows == ASSUME Next PROVE refreshed \subseteq refreshed'
BY Zenon DEF Next, Producer, tick_read, tick_insert, tick_advance, increment_total, tick_done,
   complete_if_empty, tick_failed, WorkerLoop, worker_tick, claim_pending, worker_settled,
   _maybe_rotate_token, process_row, fetch, update_metadata_payload, mark_updated,
   mark_complete, mark_failed, count, look, close, TimePasses, StaffRequests,
   Requests_in_progress, start_refresh, request_cancel, enqueue, cancel_batch,
   create_batch_check, create_batch, cancel_flags, cancel_delete, cancel_status, crash,
   start, tables, worldRest

LEMMA OutcomeStep ==
    ASSUME TypeInv, NEW r \in Rows, RowHonest(r), Outcome(r), Next
    PROVE  Outcome(r)'
<1>q. /\ row \in [Rows -> RowRecords] /\ fiber \in [Rows -> FiberSteps]
      /\ row[r] \in RowRecords /\ refreshed \subseteq refreshed'
  BY RefreshedGrows DEF TypeInv, RowTypes, FiberTypes
<1>k. row[r].status # "none" => row'[r].batch = row[r].batch /\ row'[r].obj = row[r].obj
  BY StepTypes DEF RowsKept
<1>1. CASE ~process_row(r)
  <2>1. RowStep(r) BY RowSteps
  <2>2. fiber[r] # "idle" => row[r].status # "none" BY DEF TypeInv, FiberTypes
  <2> QED BY <1>q, <1>k, <1>1, <2>1, <2>2 DEF RowStep, Outcome
<1>2. CASE process_row(r)
  <2>0. row[r].status # "none"
    BY <1>2 DEF TypeInv, FiberTypes, process_row, fetch, update_metadata_payload,
       mark_updated, mark_complete, mark_failed, count, look, close
  <2>o. row'[r].batch = row[r].batch /\ row'[r].obj = row[r].obj BY <1>k, <2>0
  <2>w. fiber[r] \in Working /\ row[r].batch \in Batches => ~row[r].is_complete
    BY DEF RowHonest
  <2>1. CASE fetch(r) \/ count(r) \/ look(r) \/ close(r)
    <3>1. UNCHANGED row /\ fiber'[r] \notin {"mark_updated", "mark_complete"}
      BY <1>q, <2>1 DEF fetch, count, look, close, Goto, tables
    <3> QED BY <1>q, <3>1 DEF Outcome
  <2>2. CASE update_metadata_payload(r)
    <3>1. UNCHANGED row /\ (fiber'[r] = "mark_failed" \/ row[r].obj \in refreshed')
      BY <1>q, <2>2 DEF update_metadata_payload, Goto
    <3> QED BY <1>q, <3>1 DEF Outcome
  <2>3. CASE mark_updated(r)
    <3>1. fiber[r] \in Working /\ row[r].obj \in refreshed
      BY <2>3 DEF mark_updated, Outcome, Working
    <3>2. row'[r].is_complete = row[r].is_complete
      BY <1>q, <2>3 DEF mark_updated, RowRecords
    <3> QED BY <1>q, <2>o, <2>w, <3>1, <3>2 DEF Outcome
  <2>4. CASE mark_complete(r)
    <3>1. row[r].obj \in refreshed BY <2>4 DEF mark_complete, Outcome
    <3> QED BY <1>q, <2>o, <3>1 DEF Outcome
  <2>5. CASE mark_failed(r)
    <3>1. fiber[r] \in Working BY <2>5 DEF mark_failed, Working
    <3>2. fiber'[r] \notin {"mark_updated", "mark_complete"}
      BY <1>q, <2>5 DEF mark_failed, Goto, AfterFailure, CountStep
    <3>3. CASE UNCHANGED row BY <1>q, <3>2, <3>3 DEF Outcome
    <3>4. CASE row' = [row EXCEPT ![r] = MarkFailed(@)]
      <4>1. row'[r] = MarkFailed(row[r]) BY <1>q, <3>4
      <4>2. row'[r].is_complete => row'[r].status = "DEAD_LETTERED"
        BY <1>q, <4>1 DEF MarkFailed, RowRecords
      <4> QED BY <3>2, <4>2 DEF Outcome
    <3> QED BY <2>5, <3>3, <3>4 DEF mark_failed
  <2> QED BY <1>2, <2>1, <2>2, <2>3, <2>4, <2>5 DEF process_row
<1> QED BY <1>1, <1>2

\* What the chunk that a tick carries reaches.
LEMMA ChunkReach ==
    ASSUME NEW cursor \in Cursors
    PROVE  /\ \A o \in Chunk(cursor) : o <= LastOf(cursor)
           /\ Start(LastOf(cursor)) = LastOf(cursor)
<1> DEFINE s == Start(cursor)
<1>1. s \in 0..NumObjects /\ LastOf(cursor) \in Objects BY ChunkTypes
<1>2. LastOf(cursor) = IF s + ChunkSize < NumObjects THEN s + ChunkSize ELSE NumObjects
  BY DEF LastOf
<1>3. Chunk(cursor) = {o \in Objects : s < o /\ o <= s + ChunkSize} BY DEF Chunk
<1> HIDE DEF s
<1>4. \A o \in Chunk(cursor) : o <= LastOf(cursor)
  BY <1>1, <1>2, <1>3, Bounds DEF Objects
<1>5. LastOf(cursor) # NULL BY <1>1, Bounds DEF NULL
<1> QED BY <1>4, <1>5 DEF Start

\* An insert gives each object one row, which no fiber holds.
LEMMA InsertCounts ==
    ASSUME TypeInv, NEW b \in Batches \cup Requests, NEW objs, objs \subseteq Objects,
           _insert_batch(b, objs)
    PROVE  \E S \in SUBSET Rows :
              /\ RowsOf(b)' = RowsOf(b) \cup S
              /\ \A c \in Batches : c # b => RowsOf(c)' = RowsOf(c)
              /\ Used' = Used \cup S
              /\ \A r \in Used : row'[r] = row[r]
              /\ \A r \in S : /\ r \notin Used /\ row'[r].batch = b /\ row'[r].obj \in objs
                              /\ fiber[r] = "idle"
                              /\ \A q \in S : row'[q].obj = row'[r].obj => q = r
              /\ IsFiniteSet(S) /\ Cardinality(S) = Cardinality(objs)
<1>1. PICK new \in [objs -> Rows \ Used] :
        LET inserted == {new[o] : o \in objs} IN
        /\ \A o, p \in objs : o < p => new[o] < new[p]
        /\ row' = [r \in Rows |->
                    IF r \in inserted
                    THEN [NoRow EXCEPT !.batch = b, !.status = "PENDING",
                                       !.obj = CHOOSE o \in objs : new[o] = r]
                    ELSE row[r]]
  BY DEF _insert_batch
<1> DEFINE S == {new[o] : o \in objs}
           Of(r) == CHOOSE o \in objs : new[o] = r
           fresh(r) == [NoRow EXCEPT !.batch = b, !.status = "PENDING", !.obj = Of(r)]
<1>2. S \in SUBSET Rows /\ \A r \in S : r \notin Used OBVIOUS
<1>3. \A r \in S : Of(r) \in objs /\ new[Of(r)] = r OBVIOUS
<1>4. row' = [r \in Rows |-> IF r \in S THEN fresh(r) ELSE row[r]] BY <1>1
<1>5. \A r \in S : fresh(r).status = "PENDING" /\ fresh(r).batch = b /\ fresh(r).obj = Of(r)
  BY DEF NoRow
<1>6. \A o, p \in objs : new[o] = new[p] => o = p
  <2> SUFFICES ASSUME NEW o \in objs, NEW p \in objs, new[o] = new[p] PROVE o = p OBVIOUS
  <2>1. o \in Nat /\ p \in Nat /\ new[o] \in Nat BY Bounds DEF Rows
  <2>2. (o < p => new[o] < new[p]) /\ (p < o => new[p] < new[o]) BY <1>1
  <2> QED BY <2>1, <2>2
<1>7. IsFiniteSet(S) /\ Cardinality(S) = Cardinality(objs)
  <2>1. IsFiniteSet(objs)
    <3>1. IsFiniteSet(Objects) BY Bounds, FS_Interval DEF Objects
    <3> QED BY <3>1, FS_Subset
  <2>2. new \in Bijection(objs, S)
    BY <1>6 DEF Bijection, Injection, IsInjective, Surjection, S
  <2>3. ExistsBijection(objs, S) BY <2>2 DEF ExistsBijection
  <2> QED BY <2>1, <2>3, FS_Bijection
<1> HIDE DEF Of, fresh, S
<1>8. \A r \in Rows : r \notin S => row'[r] = row[r] BY <1>4
<1>9. \A r \in S : row'[r] = fresh(r) BY <1>2, <1>4
<1>10. \A r \in Used : row'[r] = row[r] BY <1>2, <1>8 DEF Used
<1>11. \A r \in S : row'[r].status # "none" /\ row'[r].batch = b /\ row'[r].obj = Of(r)
  BY <1>5, <1>9
<1>12. Used' = Used \cup S
  <2>1. Used \subseteq Used' BY <1>10 DEF Used
  <2>2. S \subseteq Used' BY <1>2, <1>11 DEF Used
  <2>3. Used' \subseteq Used \cup S BY <1>8 DEF Used
  <2> QED BY <2>1, <2>2, <2>3
<1>13. RowsOf(b)' = RowsOf(b) \cup S
  <2>1. RowsOf(b)' = {r \in Used' : row'[r].batch = b} BY DEF RowsOf
  <2>2. \A r \in Used' : row'[r].batch = b <=> r \in S \/ (r \in Used /\ row[r].batch = b)
    BY <1>10, <1>11, <1>12
  <2> QED BY <1>12, <2>1, <2>2 DEF RowsOf
<1>14. ASSUME NEW c \in Batches, c # b PROVE RowsOf(c)' = RowsOf(c)
  <2>1. RowsOf(c)' = {r \in Used' : row'[r].batch = c} BY DEF RowsOf
  <2>2. \A r \in Used' : row'[r].batch = c <=> (r \in Used /\ row[r].batch = c)
    BY <1>2, <1>10, <1>11, <1>12, <1>14
  <2> QED BY <1>12, <2>1, <2>2 DEF RowsOf
<1>15. \A r \in S : fiber[r] = "idle"
  BY <1>2 DEF TypeInv, FiberTypes, Used
<1>16. \A r, q \in S : row'[q].obj = row'[r].obj => q = r
  <2> SUFFICES ASSUME NEW r \in S, NEW q \in S, row'[q].obj = row'[r].obj PROVE q = r
    OBVIOUS
  <2>1. Of(q) = Of(r) BY <1>11
  <2> QED BY <1>3, <2>1
<1>17. \A r \in S : row'[r].obj \in objs BY <1>3, <1>11
<1> QED BY <1>2, <1>7, <1>10, <1>11, <1>12, <1>13, <1>14, <1>15, <1>16, <1>17

LEMMA RowsSame ==
    ASSUME TypeInv, Next, ~Inserting
    PROVE  /\ Used' = Used
           /\ \A r \in Used : row'[r].batch = row[r].batch /\ row'[r].obj = row[r].obj
           /\ \A b : RowsOf(b)' = RowsOf(b)
<1>1. RowsKept BY StepTypes
<1>2. ASSUME NEW r \in Rows, row[r].status = "none" PROVE row'[r].status = "none"
  <2>1. RowStep(r) BY RowSteps
  <2>2. ~process_row(r)
    BY <1>2 DEF TypeInv, FiberTypes, process_row, fetch, update_metadata_payload,
       mark_updated, mark_complete, mark_failed, count, look, close
  <2> QED BY <1>2, <2>1, <2>2 DEF RowStep
<1>3. Used' = Used BY <1>1, <1>2 DEF Used, RowsKept
<1>4. \A r \in Used : row'[r].batch = row[r].batch /\ row'[r].obj = row[r].obj
  BY <1>1 DEF RowsKept, Used
<1>5. \A b : RowsOf(b)' = RowsOf(b) BY <1>3, <1>4 DEF RowsOf
<1> QED BY <1>3, <1>4, <1>5

\* With one tick and no failure: the tick holds its batch's cursor until it has
\* moved it; the total counts the batch's rows, but for a chunk in flight; no row
\* lies ahead of the cursor; a batch marked enqueued gets no more rows; and a batch
\* completes, or is about to, only when as many rows were counted as it has.
Only == tick[1]
Busy(b, pcs) == Only.batch = b /\ Only.pc \in pcs
InFlight(b) == IF Busy(b, {"advance", "total"}) THEN Cardinality(Only.chunk) ELSE 0
Reach(b) == IF Busy(b, {"advance"}) THEN LastOf(Only.cursor) ELSE Start(batch[b].cursor)

Held(b) == Busy(b, {"insert", "advance"}) => batch[b].cursor = Only.cursor
TotalTrue(b) == batch[b].total + InFlight(b) = Cardinality(RowsOf(b))
Behind(b) == \A r \in RowsOf(b) : row[r].obj <= Reach(b)
NotLate(b) == batch[b].enqueue_complete /\ ~batch[b].cancel_requested
                 => ~Busy(b, {"insert", "advance", "total"})
Full(b) == batch[b].enqueue_complete /\ Tally(b) >= batch[b].total
Counted(b) == /\ batch[b].status = "completed" \/ \E r \in RowsOf(b) : fiber[r] = "close"
              /\ ~batch[b].cancel_requested
              => Full(b)
CleanBatch(b) == Held(b) /\ TotalTrue(b) /\ Behind(b) /\ NotLate(b) /\ Counted(b)

LEMMA OneTick ==
    ASSUME NumTicks = 1, TypeInv
    PROVE  /\ Ticks = {1} /\ Only \in TickRecords /\ tick \in [Ticks -> TickRecords]
           /\ Only.pc # "idle" => Only.batch \in Batches
           /\ Only.cursor \in Cursors /\ Only.chunk \subseteq Objects
           /\ IsFiniteSet(Only.chunk) /\ Cardinality(Only.chunk) \in Nat
<1>1. Ticks = {1} BY DEF Ticks
<1>2. Only \in TickRecords /\ (Only.pc # "idle" => Only.batch \in Batches)
      /\ tick \in [Ticks -> TickRecords]
  BY <1>1 DEF TypeInv, TickTypes, Only
<1>3. Only.cursor \in Cursors /\ Only.chunk \subseteq Objects BY <1>2 DEF TickRecords
<1>4. IsFiniteSet(Objects) BY Bounds, FS_Interval DEF Objects
<1>5. IsFiniteSet(Only.chunk) BY <1>3, <1>4, FS_Subset
<1> QED BY <1>1, <1>2, <1>3, <1>5, FS_CardinalityType

\* The producer's steps but the insert.
LEMMA CleanTick ==
    ASSUME NumTicks = 1, TypeInv, NEW b \in Batches, CleanBatch(b), NEW t \in Ticks,
           Producer(t), ~tick_insert(t)
    PROVE  CleanBatch(b)'
<1>o. /\ Only \in TickRecords /\ tick \in [Ticks -> TickRecords] /\ Only.cursor \in Cursors
      /\ t = 1 /\ tick[1] = Only /\ 1 \in Ticks
      /\ Cardinality(Only.chunk) \in Nat
  BY OneTick DEF Only
<1>b. /\ batch \in [Batches -> BatchRecords] /\ batch[b] \in BatchRecords
      /\ batch[b].total \in Nat /\ Tally(b) \in Nat
  BY TallyTypes DEF TypeInv, BatchTypes, BatchRecords
<1>u. UNCHANGED <<row, fiber>>
  BY DEF Producer, tick_read, tick_advance, increment_total, tick_done, complete_if_empty,
     tables
<1>r. RowsOf(b)' = RowsOf(b) /\ Cardinality(RowsOf(b))' = Cardinality(RowsOf(b))
  BY <1>u DEF RowsOf, Used
<1>c. Held(b) /\ TotalTrue(b) /\ Behind(b) /\ NotLate(b) /\ Counted(b) BY DEF CleanBatch
<1>1. CASE tick_read(t)
  <2> DEFINE n == Newest(Running)
  <2>1. /\ UNCHANGED batch /\ Only.pc = "idle" /\ Only' \in [pc : {"done", "insert"},
             batch : {n}, cursor : {batch[n].cursor}, chunk : SUBSET Objects]
        /\ ~batch[n].enqueue_complete
    <3>1. n \in Batches BY <1>1, NewestBatch DEF tick_read, Running
    <3>2. Chunk(batch[n].cursor) \subseteq Objects BY DEF Chunk
    <3> QED BY <1>o, <1>1, <3>1, <3>2 DEF tick_read, tables, Only
  <2> HIDE DEF n
  <2>2. Only'.pc \in {"done", "insert"} /\ Only'.batch = n /\ Only'.cursor = batch[n].cursor
    BY <2>1
  <2>3. Held(b)' BY <2>1, <2>2 DEF Held, Busy
  <2>4. TotalTrue(b)' BY <1>c, <1>r, <2>1, <2>2 DEF TotalTrue, InFlight, Busy
  <2>5. Behind(b)' BY <1>c, <1>r, <1>u, <2>1, <2>2 DEF Behind, Reach, Busy, Start
  <2>6. NotLate(b)' BY <2>1, <2>2 DEF NotLate, Busy
  <2>7. Counted(b)' BY <1>c, <1>r, <1>u, <2>1 DEF Counted, Full, Tally
  <2> QED BY <2>3, <2>4, <2>5, <2>6, <2>7 DEF CleanBatch
<1>2. CASE tick_advance(t)
  <2>1. /\ Only.pc = "advance" /\ Only'.pc = "total" /\ Only'.batch = Only.batch
        /\ Only'.cursor = Only.cursor /\ Only'.chunk = Only.chunk
        /\ batch' = Advanced(Only.batch, Only.cursor, LastOf(Only.cursor), FALSE)
    BY <1>o, <1>2 DEF tick_advance, TickRecords, Only
  <2>2. /\ batch'[b].total = batch[b].total /\ Tally(b)' = Tally(b)
        /\ batch'[b].status = batch[b].status
        /\ batch'[b].cancel_requested = batch[b].cancel_requested
        /\ batch'[b].enqueue_complete = batch[b].enqueue_complete
    BY <1>b, <2>1 DEF Advanced, Tally, BatchRecords
  <2>3. Held(b)' BY <2>1 DEF Held, Busy
  <2>4. TotalTrue(b)' BY <1>c, <1>r, <2>1, <2>2 DEF TotalTrue, InFlight, Busy
  <2>5. Reach(b)' = Reach(b)
    <3>1. CASE b # Only.batch
      <4>1. batch'[b].cursor = batch[b].cursor BY <1>b, <2>1, <3>1 DEF Advanced
      <4> QED BY <2>1, <3>1, <4>1 DEF Reach, Busy, Start
    <3>2. CASE b = Only.batch
      <4>1. batch[b].cursor = Only.cursor BY <1>c, <2>1, <3>2 DEF Held, Busy
      <4>2. batch'[b].cursor = LastOf(Only.cursor)
        BY <1>b, <2>1, <3>2, <4>1 DEF Advanced, BatchRecords
      <4>3. Start(batch'[b].cursor) = LastOf(Only.cursor) BY <1>o, <4>2, ChunkReach
      <4>4. Reach(b) = LastOf(Only.cursor) BY <2>1, <3>2 DEF Reach, Busy
      <4>5. Reach(b)' = Start(batch'[b].cursor) BY <2>1 DEF Reach, Busy, Start
      <4> QED BY <4>3, <4>4, <4>5
    <3> QED BY <3>1, <3>2
  <2>6. Behind(b)' BY <1>c, <1>r, <1>u, <2>5 DEF Behind
  <2>7. NotLate(b)' BY <1>c, <2>1, <2>2 DEF NotLate, Busy
  <2>8. Counted(b)' BY <1>c, <1>r, <1>u, <2>2 DEF Counted, Full
  <2> QED BY <2>3, <2>4, <2>6, <2>7, <2>8 DEF CleanBatch
<1>3. CASE increment_total(t)
  <2>1. /\ Only.pc = "total" /\ Only'.pc = "idle"
        /\ batch' = [batch EXCEPT ![Only.batch].total = @ + Cardinality(Only.chunk)]
    BY <1>o, <1>3 DEF increment_total, IdleTick, Only
  <2>2. /\ batch'[b].cursor = batch[b].cursor /\ Tally(b)' = Tally(b)
        /\ batch'[b].status = batch[b].status
        /\ batch'[b].cancel_requested = batch[b].cancel_requested
        /\ batch'[b].enqueue_complete = batch[b].enqueue_complete
        /\ batch'[b].total = IF b = Only.batch THEN batch[b].total + Cardinality(Only.chunk)
                                               ELSE batch[b].total
    BY <1>b, <2>1 DEF Tally, BatchRecords
  <2>3. Held(b)' BY <2>1 DEF Held, Busy
  <2>4. TotalTrue(b)'
    <3>1. InFlight(b)' = 0 BY <2>1 DEF InFlight, Busy
    <3>2. InFlight(b) = IF b = Only.batch THEN Cardinality(Only.chunk) ELSE 0
      BY <2>1 DEF InFlight, Busy
    <3>3. batch'[b].total + 0 = Cardinality(RowsOf(b))
      BY <1>b, <1>c, <1>o, <2>2, <3>2 DEF TotalTrue
    <3> QED BY <1>r, <3>1, <3>3 DEF TotalTrue
  <2>5. Behind(b)' BY <1>c, <1>r, <1>u, <2>1, <2>2 DEF Behind, Reach, Busy, Start
  <2>6. NotLate(b)' BY <2>1 DEF NotLate, Busy
  <2>7. Counted(b)'
    BY <1>c, <1>r, <1>u, <2>1, <2>2 DEF Counted, NotLate, Full, Busy
  <2> QED BY <2>3, <2>4, <2>5, <2>6, <2>7 DEF CleanBatch
<1>4. CASE tick_done(t)
  <2>1. /\ Only.pc = "done" /\ Only'.pc = "empty"
        /\ batch' = Advanced(Only.batch, Only.cursor, Only.cursor, TRUE)
    BY <1>o, <1>4 DEF tick_done, TickRecords, Only
  <2>2. /\ batch'[b].total = batch[b].total /\ Tally(b)' = Tally(b)
        /\ batch'[b].status = batch[b].status /\ batch'[b].cursor = batch[b].cursor
        /\ batch'[b].cancel_requested = batch[b].cancel_requested
        /\ batch[b].enqueue_complete => batch'[b].enqueue_complete
    BY <1>b, <2>1 DEF Advanced, Tally, BatchRecords
  <2>3. Held(b)' BY <2>1 DEF Held, Busy
  <2>4. TotalTrue(b)' BY <1>c, <1>r, <2>1, <2>2 DEF TotalTrue, InFlight, Busy
  <2>5. Behind(b)' BY <1>c, <1>r, <1>u, <2>1, <2>2 DEF Behind, Reach, Busy, Start
  <2>6. NotLate(b)' BY <2>1 DEF NotLate, Busy
  <2>7. Counted(b)' BY <1>c, <1>r, <1>u, <2>2 DEF Counted, Full
  <2> QED BY <2>3, <2>4, <2>5, <2>6, <2>7 DEF CleanBatch
<1>5. CASE complete_if_empty(t)
  <2>1. /\ Only.pc = "empty" /\ Only'.pc = "idle"
        /\ \/ UNCHANGED batch
           \/ /\ batch[Only.batch].total = 0 /\ batch[Only.batch].enqueue_complete
              /\ batch' = [batch EXCEPT ![Only.batch].status = "completed"]
    BY <1>o, <1>5 DEF complete_if_empty, IdleTick, Only
  <2>2. /\ batch'[b].total = batch[b].total /\ Tally(b)' = Tally(b)
        /\ batch'[b].cursor = batch[b].cursor
        /\ batch'[b].cancel_requested = batch[b].cancel_requested
        /\ batch'[b].enqueue_complete = batch[b].enqueue_complete
        /\ \/ batch'[b].status = batch[b].status
           \/ batch[b].total = 0 /\ batch[b].enqueue_complete
    BY <1>b, <2>1 DEF Tally, BatchRecords
  <2>3. Held(b)' BY <2>1 DEF Held, Busy
  <2>4. TotalTrue(b)' BY <1>c, <1>r, <2>1, <2>2 DEF TotalTrue, InFlight, Busy
  <2>5. Behind(b)' BY <1>c, <1>r, <1>u, <2>1, <2>2 DEF Behind, Reach, Busy, Start
  <2>6. NotLate(b)' BY <2>1 DEF NotLate, Busy
  <2>7. Counted(b)'
    <3>1. Full(b) => Full(b)' BY <2>2 DEF Full
    <3>2. batch[b].total = 0 /\ batch[b].enqueue_complete => Full(b)'
      BY <1>b, <2>2 DEF Full
    <3> QED BY <1>c, <1>r, <1>u, <2>2, <3>1, <3>2 DEF Counted
  <2> QED BY <2>3, <2>4, <2>5, <2>6, <2>7 DEF CleanBatch
<1> QED BY <1>1, <1>2, <1>3, <1>4, <1>5 DEF Producer

LEMMA CleanInsert ==
    ASSUME NumTicks = 1, TypeInv, LedgerInv, NEW b \in Batches, CleanBatch(b), NEW t \in Ticks,
           tick_insert(t)
    PROVE  /\ CleanBatch(b)'
           /\ (NoDuplicates /\ CleanBatch(Only.batch)) => NoDuplicates'
<1>o. /\ Only \in TickRecords /\ tick \in [Ticks -> TickRecords] /\ Only.cursor \in Cursors
      /\ t = 1 /\ tick[1] = Only /\ 1 \in Ticks
      /\ Only.pc = "insert" /\ Only.batch \in Batches
      /\ IsFiniteSet(Only.chunk) /\ Cardinality(Only.chunk) \in Nat
      /\ Only.chunk \subseteq Objects
  BY OneTick DEF Only, tick_insert
<1>p. /\ Only'.pc = "advance" /\ Only'.batch = Only.batch
      /\ Only'.cursor = Only.cursor /\ Only'.chunk = Only.chunk
      /\ UNCHANGED <<batch, fiber>>
  BY <1>o DEF tick_insert, TickRecords, Only
<1>l. Only.chunk = Chunk(Only.cursor)
  BY <1>o DEF LedgerInv, TickLedger, Only
<1>k. /\ Start(Only.cursor) \in 0..NumObjects /\ LastOf(Only.cursor) \in Objects
      /\ Start(Only.cursor) <= LastOf(Only.cursor)
      /\ \A o \in Only.chunk : o > Start(Only.cursor) /\ o <= LastOf(Only.cursor)
  BY <1>o, <1>l, ChunkTypes, ChunkReach
<1>x. Objects \subseteq Nat BY Bounds
<1>c. Held(b) /\ TotalTrue(b) /\ Behind(b) /\ NotLate(b) /\ Counted(b) BY DEF CleanBatch
<1>w. PICK w \in Batches : w = Only.batch BY <1>o
<1>i. _insert_batch(w, Only.chunk) BY <1>o, <1>w DEF tick_insert
<1>s. PICK S \in SUBSET Rows :
              /\ RowsOf(w)' = RowsOf(w) \cup S
              /\ \A c \in Batches : c # w => RowsOf(c)' = RowsOf(c)
              /\ Used' = Used \cup S
              /\ \A r \in Used : row'[r] = row[r]
              /\ \A r \in S : /\ r \notin Used /\ row'[r].batch = w
                              /\ row'[r].obj \in Only.chunk /\ fiber[r] = "idle"
                              /\ \A q \in S : row'[q].obj = row'[r].obj => q = r
              /\ IsFiniteSet(S) /\ Cardinality(S) = Cardinality(Only.chunk)
  BY <1>o, <1>i, InsertCounts
<1>u. \A c : RowsOf(c) \subseteq Used BY DEF RowsOf
<1>t. \A r \in Used : row[r].obj \in Nat BY <1>x DEF TypeInv, RowTypes, Used
<1>1. Held(b)' BY <1>w, <1>c, <1>o, <1>p DEF Held, Busy
<1>2. TotalTrue(b)'
  <2>1. CASE b # w
    BY <1>w, <1>c, <1>p, <1>s, <2>1 DEF TotalTrue, InFlight, Busy
  <2>2. CASE b = w
    <3>1. RowsOf(b) \cap S = {} BY <1>s, <1>u
    <3>2. IsFiniteSet(RowsOf(b)) /\ Cardinality(RowsOf(b)) \in Nat
      BY FiniteRows DEF RowsOf, Used
    <3>3. Cardinality(RowsOf(b) \cup S) = Cardinality(RowsOf(b)) + Cardinality(S)
      <4>1. Cardinality(RowsOf(b) \cup S)
              = Cardinality(RowsOf(b)) + Cardinality(S) - Cardinality(RowsOf(b) \cap S)
        BY <1>s, <3>2, FS_Union
      <4>2. Cardinality(RowsOf(b) \cap S) = 0 BY <3>1, FS_EmptySet
      <4>3. Cardinality(S) \in Nat BY <1>s, FS_CardinalityType
      <4> QED BY <3>2, <4>1, <4>2, <4>3
    <3>4. InFlight(b) = 0 BY <1>w, <1>o DEF InFlight, Busy
    <3>5. InFlight(b)' = Cardinality(Only.chunk) BY <1>w, <1>p, <2>2 DEF InFlight, Busy
    <3>6. batch[b].total = Cardinality(RowsOf(b))
      <4>1. batch[b].total \in Nat BY DEF TypeInv, BatchTypes, BatchRecords
      <4> QED BY <1>c, <3>4, <4>1 DEF TotalTrue
    <3>7. Cardinality(RowsOf(b))' = Cardinality(RowsOf(b)) + Cardinality(Only.chunk)
      BY <1>s, <2>2, <3>3
    <3>8. batch'[b].total = Cardinality(RowsOf(b)) BY <1>p, <3>6
    <3> QED BY <3>5, <3>7, <3>8 DEF TotalTrue
  <2> QED BY <2>1, <2>2
<1>3. Behind(b)'
  <2>1. CASE b # w
    BY <1>w, <1>c, <1>p, <1>s, <1>u, <2>1 DEF Behind, Reach, Busy, Start
  <2>2. CASE b = w
    <3>1. Reach(b) = Start(Only.cursor) BY <1>w, <1>c, <1>o, <2>2 DEF Reach, Held, Busy
    <3>2. Reach(b)' = LastOf(Only.cursor) BY <1>w, <1>p, <2>2 DEF Reach, Busy, LastOf, Start
    <3>3. ASSUME NEW r \in RowsOf(b) PROVE row'[r].obj <= LastOf(Only.cursor)
      <4>1. row[r].obj <= Start(Only.cursor) BY <1>c, <3>1, <3>3 DEF Behind
      <4>2. row'[r] = row[r] /\ row[r].obj \in Nat BY <1>s, <1>t, <1>u, <3>3
      <4>3. Start(Only.cursor) \in Nat /\ LastOf(Only.cursor) \in Nat
        <5>1. \A n \in 0..NumObjects : n \in Nat BY Bounds
        <5> QED BY <1>k, <1>x, <5>1
      <4>4. row[r].obj <= LastOf(Only.cursor) BY <1>k, <4>1, <4>2, <4>3
      <4> QED BY <4>2, <4>4
    <3>4. \A r \in S : row'[r].obj <= LastOf(Only.cursor) BY <1>k, <1>s
    <3>5. \A r \in RowsOf(b)' : row'[r].obj <= LastOf(Only.cursor) BY <1>s, <2>2, <3>3, <3>4
    <3> QED BY <3>2, <3>5 DEF Behind
  <2> QED BY <2>1, <2>2
<1>4. NotLate(b)' BY <1>w, <1>c, <1>o, <1>p DEF NotLate, Busy
<1>5. Counted(b)'
  <2>1. (\E r \in RowsOf(b)' : fiber'[r] = "close") => \E r \in RowsOf(b) : fiber[r] = "close"
    BY <1>p, <1>s
  <2> QED BY <1>c, <1>p, <2>1 DEF Counted, Full, Tally
<1>6. ASSUME NoDuplicates, CleanBatch(w) PROVE NoDuplicates'
  <2>1. Reach(w) = Start(Only.cursor) BY <1>w, <1>6, <1>o DEF CleanBatch, Reach, Held, Busy
  <2>2. ASSUME NEW r \in Used, NEW q \in S, row[r].batch = w
        PROVE  row'[r].obj # row'[q].obj
    <3>1. r \in RowsOf(w) BY <2>2 DEF RowsOf
    <3>2. row[r].obj <= Start(Only.cursor) BY <1>6, <2>1, <3>1 DEF CleanBatch, Behind
    <3>3. row'[q].obj > Start(Only.cursor) /\ row'[q].obj \in Nat BY <1>k, <1>o, <1>s, <1>x
    <3>4. row'[r] = row[r] /\ row[r].obj \in Nat BY <1>s, <1>t, <2>2
    <3> QED BY <1>k, <3>2, <3>3, <3>4
  <2>3. ASSUME NEW r \in Used', NEW q \in Used', row'[r].batch = row'[q].batch,
               row'[r].obj = row'[q].obj
        PROVE  r = q
    <3>1. CASE r \in Used /\ q \in Used BY <1>6, <1>s, <2>3, <3>1 DEF NoDuplicates
    <3>2. CASE r \in S /\ q \in S BY <1>s, <2>3, <3>2
    <3>3. CASE r \in Used /\ q \in S BY <1>s, <2>2, <2>3, <3>3
    <3>4. CASE r \in S /\ q \in Used BY <1>s, <2>2, <2>3, <3>4
    <3> QED BY <1>s, <3>1, <3>2, <3>3, <3>4
  <2> QED BY <2>3 DEF NoDuplicates
<1> QED BY <1>w, <1>1, <1>2, <1>3, <1>4, <1>5, <1>6 DEF CleanBatch

\* Rows on demand leave the batches alone, and a request has no row before.
LEMMA CleanEnqueue ==
    ASSUME NumTicks = 1, TypeInv, enqueue
    PROVE  /\ \A b \in Batches : CleanBatch(b) => CleanBatch(b)'
           /\ NoDuplicates => NoDuplicates'
<1>1. PICK q \in Requests, objs \in SUBSET Objects \ {{}} :
         RowsOf(q) = {} /\ _insert_batch(q, objs)
  BY DEF enqueue
<1>2. UNCHANGED <<batch, tick, fiber>> BY DEF enqueue, worldRest
<1>3. PICK S \in SUBSET Rows :
              /\ \A c \in Batches : c # q => RowsOf(c)' = RowsOf(c)
              /\ Used' = Used \cup S
              /\ \A r \in Used : row'[r] = row[r]
              /\ \A r \in S : /\ row'[r].batch = q
                              /\ \A p \in S : row'[p].obj = row'[r].obj => p = r
  BY <1>1, InsertCounts
<1>4. ASSUME NEW b \in Batches, CleanBatch(b) PROVE CleanBatch(b)'
  <2>1. RowsOf(b)' = RowsOf(b) BY <1>3, Bounds
  <2>2. \A r \in RowsOf(b) : row'[r] = row[r] BY <1>3 DEF RowsOf
  <2>3. Only' = Only BY <1>2 DEF Only
  <2> QED BY <1>2, <1>4, <2>1, <2>2, <2>3
          DEF CleanBatch, Held, TotalTrue, Behind, NotLate, Counted, Full, Tally, InFlight,
              Reach, Busy, Start, LastOf
<1>5. ASSUME NoDuplicates PROVE NoDuplicates'
  <2>1. ASSUME NEW r \in Used', NEW p \in Used', row'[r].batch = row'[p].batch,
               row'[r].obj = row'[p].obj
        PROVE  r = p
    <3>0. \A s \in Used : row[s].batch # q BY <1>1 DEF RowsOf
    <3>1. CASE r \in Used /\ p \in Used BY <1>3, <1>5, <2>1, <3>1 DEF NoDuplicates
    <3>2. CASE r \in S /\ p \in S BY <1>3, <2>1, <3>2
    <3>3. CASE (r \in Used /\ p \in S) \/ (r \in S /\ p \in Used)
      BY <1>3, <2>1, <3>0, <3>3
    <3> QED BY <1>3, <3>1, <3>2, <3>3
  <2> QED BY <2>1 DEF NoDuplicates
<1> QED BY <1>4, <1>5

\* A step that leaves the tick, the rows and what a batch holds, but perhaps its
\* status and its counters.
LEMMA CleanFrame ==
    ASSUME NEW b \in Batches, CleanBatch(b), UNCHANGED tick, RowsOf(b)' = RowsOf(b),
           \A r \in RowsOf(b) : row'[r].obj = row[r].obj,
           batch'[b].cursor = batch[b].cursor, batch'[b].total = batch[b].total,
           batch'[b].enqueue_complete = batch[b].enqueue_complete,
           batch'[b].cancel_requested = batch[b].cancel_requested,
           Tally(b)' >= batch[b].total \/ Tally(b)' = Tally(b),
           batch'[b].status = "completed" =>
              batch[b].status = "completed" \/ \E r \in RowsOf(b) : fiber[r] = "close",
           \A r \in RowsOf(b) : fiber'[r] = "close" => fiber[r] = "close" \/ Full(b)
    PROVE  CleanBatch(b)'
<1>1. Only' = Only BY DEF Only
<1>2. Held(b)' /\ TotalTrue(b)' /\ Behind(b)' /\ NotLate(b)'
  BY <1>1 DEF CleanBatch, Held, TotalTrue, Behind, NotLate, InFlight, Reach, Busy, Start, LastOf
<1>3. Full(b) => Full(b)' BY DEF Full
<1>4. Counted(b)' BY <1>3 DEF CleanBatch, Counted
<1> QED BY <1>2, <1>4 DEF CleanBatch

\* The steps that write no batch and move no tick.
LEMMA CleanQuiet ==
    ASSUME TypeInv, NEW b \in Batches, CleanBatch(b), Next, ~Inserting,
           UNCHANGED <<batch, tick>>,
           \A r \in RowsOf(b) : fiber'[r] = "close" => fiber[r] = "close" \/ Full(b)
    PROVE  CleanBatch(b)'
<1>1. RowsOf(b)' = RowsOf(b) /\ \A r \in RowsOf(b) : row'[r].obj = row[r].obj
  BY RowsSame DEF RowsOf
<1>2. Tally(b)' = Tally(b) BY DEF Tally
<1> QED BY <1>1, <1>2, CleanFrame

LEMMA CleanFiber ==
    ASSUME TypeInv, NEW b \in Batches, CleanBatch(b), Next, ~Inserting,
           NEW p \in Rows, process_row(p)
    PROVE  CleanBatch(b)'
<1>q. /\ batch \in [Batches -> BatchRecords] /\ fiber \in [Rows -> FiberSteps]
      /\ batch[b] \in BatchRecords /\ Tally(b) \in Nat
      /\ batch[b].succeeded \in Nat /\ batch[b].dead_lettered \in Nat
  BY TallyTypes DEF TypeInv, BatchTypes, FiberTypes
<1>k. UNCHANGED tick
  BY Zenon DEF process_row, fetch, update_metadata_payload, mark_updated, mark_complete,
     mark_failed, count, look, close, fiberRest
<1>r. RowsOf(b)' = RowsOf(b) /\ \A r \in RowsOf(b) : row'[r].obj = row[r].obj
  BY RowsSame DEF RowsOf
<1>f. /\ \E pc : Goto(p, pc)
      /\ fiber'[p] = "close" => look(p)
  BY <1>q DEF process_row, fetch, update_metadata_payload, mark_updated, mark_complete,
     mark_failed, count, look, close, Goto, CountStep, AfterFailure
<1>g. \A r \in RowsOf(b) : fiber'[r] = "close" => fiber[r] = "close" \/ (r = p /\ look(p))
  BY <1>q, <1>f DEF Goto
<1>1. CASE fetch(p) \/ update_metadata_payload(p) \/ mark_updated(p) \/ mark_complete(p)
           \/ mark_failed(p)
  <2>1. UNCHANGED batch
    BY <1>1 DEF fetch, update_metadata_payload, mark_updated, mark_complete, mark_failed, tables
  <2>2. fiber[p] \in Working /\ ~look(p)
    BY <1>1 DEF fetch, update_metadata_payload, mark_updated, mark_complete, mark_failed, look,
       Working
  <2> QED BY <1>g, <1>k, <2>1, <2>2, CleanQuiet
<1>2. CASE look(p)
  <2>1. UNCHANGED batch BY <1>2 DEF look, tables
  <2>2. p \in RowsOf(b) /\ fiber'[p] = "close" => Full(b)
    <3>1. row[p].batch = b /\ fiber'[p] = "close" => AllCounted(batch[b])
      BY <1>q, <1>2 DEF look, Goto
    <3> QED BY <3>1 DEF AllCounted, Full, Tally, RowsOf
  <2> QED BY <1>g, <1>k, <2>1, <2>2, CleanQuiet
<1>3. CASE count(p)
  <2>1. ~look(p) BY <1>3 DEF count, look
  <2>2. \/ UNCHANGED batch
        \/ \E c : batch' = [batch EXCEPT ![c].succeeded = @ + 1]
        \/ \E c : batch' = [batch EXCEPT ![c].dead_lettered = @ + 1]
    BY <1>3, Zenon DEF count
  <2>3. /\ batch'[b].cursor = batch[b].cursor /\ batch'[b].total = batch[b].total
        /\ batch'[b].enqueue_complete = batch[b].enqueue_complete
        /\ batch'[b].cancel_requested = batch[b].cancel_requested
        /\ batch'[b].status = batch[b].status
        /\ batch'[b].succeeded \in {batch[b].succeeded, batch[b].succeeded + 1}
        /\ batch'[b].dead_lettered \in {batch[b].dead_lettered, batch[b].dead_lettered + 1}
    BY <1>q, <2>2 DEF BatchRecords
  <2>4. Tally(b)' \in Nat /\ Tally(b)' >= Tally(b) BY <1>q, <2>3 DEF Tally
  <2>5. batch[b].total \in Nat BY <1>q DEF BatchRecords
  <2>6. Full(b) => Full(b)' BY <1>q, <2>3, <2>4, <2>5 DEF Full
  <2>7. Counted(b)' BY <1>g, <1>r, <2>1, <2>3, <2>6 DEF CleanBatch, Counted
  <2>8. Only' = Only BY <1>k DEF Only
  <2>9. Held(b)' /\ TotalTrue(b)' /\ Behind(b)' /\ NotLate(b)'
    BY <1>r, <2>3, <2>8 DEF CleanBatch, Held, TotalTrue, Behind, NotLate, InFlight, Reach,
       Busy, Start, LastOf
  <2> QED BY <2>7, <2>9 DEF CleanBatch
<1>4. CASE close(p)
  <2>1. ~look(p) BY <1>4 DEF close, look
  <2>2. fiber[p] = "close" /\ row[p].status # "none"
    BY <1>4 DEF close, TypeInv, FiberTypes
  <2>3. /\ batch'[b].cursor = batch[b].cursor /\ batch'[b].total = batch[b].total
        /\ batch'[b].enqueue_complete = batch[b].enqueue_complete
        /\ batch'[b].cancel_requested = batch[b].cancel_requested
        /\ Tally(b)' = Tally(b)
        /\ batch'[b].status = batch[b].status \/ row[p].batch = b
    BY <1>q, <1>4 DEF close, Tally, BatchRecords
  <2>4. row[p].batch = b => p \in RowsOf(b) BY <2>2 DEF RowsOf, Used
  <2> QED BY <1>g, <1>k, <1>r, <2>1, <2>2, <2>3, <2>4, CleanFrame
<1> QED BY <1>1, <1>2, <1>3, <1>4 DEF process_row

LEMMA CleanRequest ==
    ASSUME NumTicks = 1, TypeInv, LedgerInv, NEW b \in Batches, CleanBatch(b), Next, ~Inserting,
           StaffRequests \/ Requests_in_progress
    PROVE  CleanBatch(b)'
<1>q. /\ batch \in [Batches -> BatchRecords] /\ batch[b] \in BatchRecords
  BY TallyTypes DEF TypeInv, BatchTypes
<1>k. UNCHANGED <<tick, fiber>>
  BY Zenon DEF StaffRequests, Requests_in_progress, start_refresh, request_cancel,
     enqueue, cancel_batch, create_batch_check, create_batch, cancel_flags, cancel_delete,
     cancel_status, worldRest
<1>r. RowsOf(b)' = RowsOf(b) /\ \A r \in RowsOf(b) : row'[r].obj = row[r].obj
  BY RowsSame DEF RowsOf
<1>1. CASE UNCHANGED batch BY <1>1, <1>k, CleanQuiet
<1>2. CASE create_batch
  <2>1. PICK c \in Batches :
           /\ batch[c].status = "none"
           /\ batch' = [batch EXCEPT ![c] =
                 [NoBatch EXCEPT !.status = "running", !.cursor = staff.cursor,
                                 !.from = Start(staff.cursor)]]
    BY <1>2 DEF create_batch
  <2>2. CASE c # b
    <3>1. batch'[b] = batch[b] BY <1>q, <2>1, <2>2
    <3> QED BY <1>k, <1>r, <3>1, CleanFrame DEF Tally
  <2>3. CASE c = b
    <3>1. batch'[b].total = 0 /\ batch'[b].status = "running"
      BY <1>q, <2>1, <2>3 DEF NoBatch
    <3>2. RowsOf(b) = {} BY <2>1, <2>3 DEF LedgerInv, BatchLedger, Covered
    <3>3. ~Busy(b, {"insert", "advance", "total"})
      BY <2>1, <2>3, OneTick DEF LedgerInv, TickLedger, Busy, Only
    <3>4. Only' = Only BY <1>k DEF Only
    <3>5. Held(b)' /\ NotLate(b)' BY <3>3, <3>4 DEF Held, NotLate, Busy
    <3>6. TotalTrue(b)'
      <4>1. InFlight(b)' = 0 BY <3>3, <3>4 DEF InFlight, Busy
      <4>2. Cardinality(RowsOf(b)') = 0 BY <1>r, <3>2, FS_EmptySet
      <4> QED BY <3>1, <4>1, <4>2 DEF TotalTrue
    <3>7. Behind(b)' BY <1>r, <3>2 DEF Behind
    <3>8. Counted(b)' BY <1>r, <3>1, <3>2 DEF Counted
    <3> QED BY <3>5, <3>6, <3>7, <3>8 DEF CleanBatch
  <2> QED BY <2>2, <2>3
<1>3. CASE cancel_flags
  <2>1. CASE staff.batch # b
    <3>1. batch'[b] = batch[b] BY <1>q, <1>3, <2>1 DEF cancel_flags
    <3> QED BY <1>k, <1>r, <3>1, CleanFrame DEF Tally
  <2>2. CASE staff.batch = b
    <3>1. batch'[b].cancel_requested /\ batch'[b].total = batch[b].total
          /\ batch'[b].cursor = batch[b].cursor
      BY <1>q, <1>3, <2>2 DEF cancel_flags, BatchRecords
    <3>2. Only' = Only BY <1>k DEF Only
    <3> QED BY <1>r, <3>1, <3>2
            DEF CleanBatch, Held, TotalTrue, Behind, NotLate, Counted, InFlight, Reach, Busy,
                Start, LastOf
  <2> QED BY <2>1, <2>2
<1>4. CASE cancel_status
  <2>1. /\ batch'[b].cursor = batch[b].cursor /\ batch'[b].total = batch[b].total
        /\ batch'[b].enqueue_complete = batch[b].enqueue_complete
        /\ batch'[b].cancel_requested = batch[b].cancel_requested
        /\ Tally(b)' = Tally(b)
        /\ batch'[b].status = batch[b].status \/ batch'[b].status = "cancelled"
    BY <1>q, <1>4 DEF cancel_status, Tally, BatchRecords
  <2> QED BY <1>k, <1>r, <2>1, CleanFrame
<1> QED BY <1>1, <1>2, <1>3, <1>4
        DEF StaffRequests, Requests_in_progress, start_refresh, request_cancel, enqueue,
            cancel_batch, create_batch_check, cancel_delete

CleanInv ==
    /\ \A r \in Rows : Outcome(r)
    /\ faults = 0 /\ NumTicks = 1 => NoDuplicates /\ \A b \in Batches : CleanBatch(b)

LEMMA CleanStep ==
    ASSUME TypeInv, LedgerInv, HonestInv, CleanInv, Next
    PROVE  CleanInv'
<1>1. \A r \in Rows : Outcome(r)' BY OutcomeStep DEF CleanInv, HonestInv
<1>2. ASSUME faults' = 0, NumTicks = 1
      PROVE  NoDuplicates' /\ \A b \in Batches : CleanBatch(b)'
  <2>f. faults \in Nat BY DEF TypeInv, ProcTypes
  <2>1. ~Fault BY <1>2, <2>f DEF Fault
  <2>2. faults = 0
    BY <1>2, <2>1, Zenon DEF Next, Producer, tick_read, tick_insert, tick_advance,
       increment_total, tick_done, complete_if_empty, tick_failed, WorkerLoop, worker_tick,
       claim_pending, worker_settled, _maybe_rotate_token, process_row, fetch,
       update_metadata_payload, mark_updated, mark_complete, mark_failed, count, look, close,
       TimePasses, StaffRequests, Requests_in_progress, start_refresh, request_cancel, enqueue,
       cancel_batch, create_batch_check, create_batch, cancel_flags, cancel_delete,
       cancel_status, crash, start, tables, worldRest
  <2>3. NoDuplicates /\ \A b \in Batches : CleanBatch(b) BY <1>2, <2>2 DEF CleanInv
  <2>4. CASE enqueue BY <1>2, <2>3, <2>4, CleanEnqueue
  <2>5. ASSUME NEW t \in Ticks, tick_insert(t)
        PROVE  NoDuplicates' /\ \A b \in Batches : CleanBatch(b)'
    <3>1. Only.batch \in Batches
      BY <1>2, <2>5, OneTick DEF tick_insert, Only
    <3> QED BY <1>2, <2>3, <2>5, <3>1, CleanInsert
  <2>6. CASE ~Inserting
    <3>1. NoDuplicates'
      <4>1. /\ Used' = Used
            /\ \A r \in Used : row'[r].batch = row[r].batch /\ row'[r].obj = row[r].obj
        BY <2>6, RowsSame
      <4> QED BY <2>3, <4>1 DEF NoDuplicates
    <3>2. ASSUME NEW b \in Batches PROVE CleanBatch(b)'
      <4>0. CleanBatch(b) BY <2>3
      <4>1. ASSUME NEW t \in Ticks, Producer(t) PROVE CleanBatch(b)'
        <5>1. ~tick_insert(t) BY <2>6 DEF Inserting
        <5> QED BY <1>2, <4>0, <4>1, <5>1, CleanTick
      <4>2. ASSUME NEW r \in Rows, process_row(r) PROVE CleanBatch(b)'
        BY <2>6, <4>0, <4>2, CleanFiber
      <4>3. CASE StaffRequests \/ Requests_in_progress
        BY <1>2, <2>6, <4>0, <4>3, CleanRequest
      <4>4. CASE WorkerLoop \/ (\E r \in Rows : TimePasses(r)) \/ start
        <5>1. UNCHANGED <<batch, tick>>
          BY <4>4, Zenon DEF WorkerLoop, worker_tick, claim_pending, worker_settled,
             _maybe_rotate_token, TimePasses, start, tables
        <5>2. \A r \in Rows : fiber'[r] = "close" => fiber[r] = "close"
          BY <4>4 DEF WorkerLoop, worker_tick, claim_pending, worker_settled,
             _maybe_rotate_token, TimePasses, start
        <5>3. \A r \in RowsOf(b) : r \in Rows BY DEF RowsOf, Used
        <5> QED BY <2>6, <4>0, <5>1, <5>2, <5>3, CleanQuiet
      <4>5. (\A t \in Ticks : ~tick_failed(t)) /\ ~crash BY <2>1 DEF tick_failed, crash
      <4> QED BY <4>1, <4>2, <4>3, <4>4, <4>5 DEF Next
    <3> QED BY <3>1, <3>2
  <2> QED BY <2>4, <2>5, <2>6 DEF Inserting
<1> QED BY <1>1, <1>2 DEF CleanInv

\* Counted in full, a batch has no open row: as many rows are settled as it has.
LEMMA FullIsDone ==
    ASSUME TypeInv, LedgerInv, HonestInv, CleanInv, faults = 0, NumTicks = 1,
           NEW b \in Batches
    PROVE  CompletedIsDone(b)
<1> SUFFICES ASSUME batch[b].status = "completed", ~batch[b].cancel_requested
             PROVE  /\ \A r \in RowsOf(b) : Ended(r)
                    /\ \A o \in Objects : o > batch[b].from =>
                          \/ o \in refreshed
                          \/ \E r \in RowsOf(b) : row[r].obj = o /\ row[r].status = "DEAD_LETTERED"
  BY DEF CompletedIsDone
<1>1. Full(b) /\ TotalTrue(b) /\ NotLate(b) BY DEF CleanInv, CleanBatch, Counted
<1>2. InFlight(b) = 0 BY <1>1 DEF Full, NotLate, InFlight, Busy
<1>3. batch[b].total \in Nat /\ Tally(b) \in Nat
  BY TallyTypes DEF TypeInv, BatchTypes, BatchRecords
<1>4. batch[b].total = Cardinality(RowsOf(b)) BY <1>1, <1>2, <1>3 DEF TotalTrue
<1> DEFINE C == Settled(b)
           R == RowsOf(b)
<1>5. C \subseteq R /\ R \subseteq Rows BY DEF Settled, RowsOf, Used
<1>6. /\ IsFiniteSet(R) /\ Cardinality(R) \in Nat
      /\ IsFiniteSet(C) /\ Cardinality(C) \in Nat
  BY <1>5, FiniteRows
<1>7. Tally(b) <= Cardinality(C) /\ Tally(b) >= Cardinality(R)
  BY <1>1, <1>4 DEF HonestInv, Full
<1> HIDE DEF C, R
<1>8. Cardinality(C) <= Cardinality(R) /\ (Cardinality(R) = Cardinality(C) => R = C)
  BY <1>5, <1>6, FS_Subset
<1>9. R = C BY <1>3, <1>6, <1>7, <1>8
<1>10. \A r \in RowsOf(b) : row[r].is_complete BY <1>9 DEF R, C, Settled, Done
<1>11. ASSUME NEW o \in Objects, o > batch[b].from
       PROVE  \/ o \in refreshed
              \/ \E r \in RowsOf(b) : row[r].obj = o /\ row[r].status = "DEAD_LETTERED"
  <2>1. /\ Start(batch[b].cursor) = NumObjects
        /\ batch[b].from < o /\ o <= NumObjects => o \in Covered(b)
    BY <1>1, <1>11 DEF LedgerInv, BatchLedger, Full
  <2>2. batch[b].from < o /\ o <= NumObjects
    <3>1. batch[b].from \in Objects \cup {0} BY DEF TypeInv, BatchTypes, BatchRecords
    <3>2. Objects \cup {0} \subseteq Nat BY Bounds
    <3> QED BY <1>11, <3>1, <3>2, Bounds DEF Objects
  <2>3. PICK r \in RowsOf(b) : row[r].obj = o BY <2>1, <2>2 DEF Covered
  <2>4. r \in Rows /\ row[r].batch \in Batches /\ row[r].is_complete
    BY <1>10, <2>3 DEF RowsOf, Used
  <2>5. row[r].status = "DEAD_LETTERED" \/ row[r].obj \in refreshed
    BY <2>4 DEF CleanInv, Outcome
  <2> QED BY <2>3, <2>5
<1> QED BY <1>10, <1>11 DEF Ended

\* UndisturbedIsClean of the run Refresh, for every number of objects, rows,
\* batches and requests (batches.js, on_row_terminal; producer.js, tick): while
\* nothing fails and ticks do not overlap, nothing is queued twice, and a batch
\* that completes leaves every row ended and every object refreshed or given up.
THEOREM UndisturbedBatches == Spec => []UndisturbedIsClean
<1>1. ASSUME Init PROVE HonestInv /\ CleanInv
  <2>0. \A b : RowsOf(b) = {} BY <1>1 DEF Init, RowsOf, Used, NoRow
  <2>1. HonestInv BY <1>1, InitHonest
  <2>2. \A r \in Rows : Outcome(r) BY <1>1 DEF Init, Outcome, NoRow
  <2>3. NoDuplicates BY <1>1 DEF Init, NoDuplicates, Used, NoRow
  <2>4. ASSUME NumTicks = 1, NEW b \in Batches PROVE CleanBatch(b)
    <3>1. Only.pc = "idle" BY <1>1, <2>4 DEF Init, Only, Ticks, IdleTick
    <3>2. batch[b].total = 0 /\ batch[b].status = "none" BY <1>1 DEF Init, NoBatch
    <3>3. Cardinality(RowsOf(b)) = 0 BY <2>0, FS_EmptySet
    <3> QED BY <2>0, <3>1, <3>2, <3>3
            DEF CleanBatch, Held, TotalTrue, Behind, NotLate, Counted, InFlight, Busy
  <2> QED BY <2>1, <2>2, <2>3, <2>4 DEF CleanInv
<1>2. ASSUME CleanInv, UNCHANGED vars PROVE CleanInv'
  BY <1>2 DEF CleanInv, Outcome, NoDuplicates, CleanBatch, Held, TotalTrue, Behind, NotLate,
     Counted, Full, Tally, InFlight, Reach, Busy, Only, Start, LastOf, RowsOf, Used, vars
<1>3. TypeInv /\ LedgerInv /\ HonestInv /\ CleanInv /\ [Next]_vars => HonestInv' /\ CleanInv'
  BY <1>2, HonestStep, HonestStutter, CleanStep
<1>4. TypeInv /\ LedgerInv /\ HonestInv /\ CleanInv => UndisturbedIsClean
  BY FullIsDone DEF UndisturbedIsClean, CleanInv
<1>5. TypeInv /\ LedgerInv /\ [Next]_vars => LedgerInv' BY NextLedger, StutterLedger
<1>6. Init => LedgerInv BY InitLedger
<1> QED BY <1>1, <1>3, <1>4, <1>5, <1>6, Typed, PTL DEF Spec
=============================================================================
