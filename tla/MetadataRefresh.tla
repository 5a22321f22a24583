--------------------------- MODULE MetadataRefresh ---------------------------
(***************************************************************************)
(* The metadata refresh: the producer that turns a system-wide batch into  *)
(* queue rows (metadata/producer.js), the batch rollup                     *)
(* (metadata/batches.js), the queue (metadata/model.js), the worker that   *)
(* fetches each record from ArchivesSpace and writes it to tbl_objects     *)
(* (metadata/worker.js), and the staff requests that start, resume and     *)
(* cancel a batch or refresh single objects (metadata/admin_controller.js, *)
(* metadata/controller.js).                                                *)
(*                                                                         *)
(* One action is one step between two awaits; consecutive reads of a       *)
(* request are one step.  A crash and a shutdown that does not wait for    *)
(* its fibers are the same step.                                           *)
(***************************************************************************)
EXTENDS Integers, FiniteSets

CONSTANTS
    NumObjects,    \* active objects with an ArchivesSpace URI
    NumBatches,    \* bound: system-wide batches
    NumRequests,   \* bound: on-demand batches
    NumRows,       \* bound: queue rows
    NumTicks,      \* producer tick() calls in progress at once
    ChunkSize,     \* metadata_system_refresh.chunk_size
    Concurrency,   \* metadata_worker.concurrency
    MaxAttempts,   \* metadata_worker.max_attempts
    RotateTokens,  \* archivespace.token_rotate_after_requests > 0
    MaxFaults,     \* bound: crashes, database and login failures
    MaxOps         \* bound: staff requests

ASSUME RefreshAssumption ==
    /\ {NumObjects, NumRows, ChunkSize, Concurrency, MaxAttempts} \subseteq Nat \ {0}
    /\ {NumBatches, NumRequests, NumTicks, MaxFaults, MaxOps} \subseteq Nat
    /\ RotateTokens \in BOOLEAN

Objects  == 1..NumObjects
Batches  == 1..NumBatches                              \* system-wide
Requests == (NumBatches + 1)..(NumBatches + NumRequests)   \* on demand
Rows     == 1..NumRows
Ticks    == 1..NumTicks

VARIABLES
    batch,      \* tbl_metadata_refresh_batches
    row,        \* tbl_metadata_update_queue
    refreshed,  \* objects whose tbl_objects row a refresh has written
    tick,       \* the producer's tick() calls
    worker,     \* where the worker's loop is
    token,      \* token_holder[0] is set
    fiber,      \* process_row, by the row it works on
    staff,      \* a staff request in progress
    faults, ops

tables == <<batch, row, refreshed>>
vars == <<batch, row, refreshed, tick, worker, token, fiber, staff, faults, ops>>

NULL == -1     \* cursor_id before the first chunk

BatchRecords ==
    [status : {"none", "running", "completed", "cancelled"},
     cursor : Objects \cup {NULL, 0}, from : Objects \cup {0},
     total : Nat, succeeded : Nat, dead_lettered : Nat,
     enqueue_complete : BOOLEAN, cancel_requested : BOOLEAN]
NoBatch == [status |-> "none", cursor |-> NULL, from |-> 0, total |-> 0,
            succeeded |-> 0, dead_lettered |-> 0,
            enqueue_complete |-> FALSE, cancel_requested |-> FALSE]

\* `waiting`: next_attempt_at lies ahead, or, in progress, the claim is recent.
RowRecords ==
    [batch : Batches \cup Requests \cup {0}, obj : Objects \cup {0},
     status : {"none", "PENDING", "IN_PROGRESS", "RECORD_UPDATED", "COMPLETE",
               "CANCELLED", "DEAD_LETTERED", "deleted"},
     is_complete : BOOLEAN, attempts : 0..MaxAttempts, waiting : BOOLEAN]
NoRow == [batch |-> 0, obj |-> 0, status |-> "none", is_complete |-> FALSE,
          attempts |-> 0, waiting |-> FALSE]

IdleTick  == [pc |-> "idle", batch |-> 0, cursor |-> NULL, chunk |-> {}]
IdleStaff == [pc |-> "idle", batch |-> 0, cursor |-> NULL]

FiberSteps == {"idle", "fetch", "write", "mark_updated", "mark_complete",
               "mark_failed", "count_ok", "count_dead", "look", "close"}

TypeOK ==
    /\ batch \in [Batches -> BatchRecords]
    /\ row \in [Rows -> RowRecords]
    /\ refreshed \subseteq Objects
    /\ tick \in [Ticks -> [pc : {"idle", "insert", "advance", "total", "done", "empty"},
                           batch : Batches \cup {0}, cursor : Objects \cup {NULL, 0},
                           chunk : SUBSET Objects]]
    /\ worker \in {"down", "idle", "claim", "run", "rotate"}
    /\ token \in BOOLEAN
    /\ fiber \in [Rows -> FiberSteps]
    /\ staff \in [pc : {"idle", "check", "create", "flags", "delete", "status"},
                  batch : Batches \cup {0}, cursor : Objects \cup {NULL, 0}]
    /\ faults \in Nat /\ ops \in Nat

Init ==
    /\ batch = [b \in Batches |-> NoBatch]
    /\ row = [r \in Rows |-> NoRow]
    /\ refreshed = {}
    /\ tick = [t \in Ticks |-> IdleTick]
    /\ worker = "idle" /\ token = FALSE
    /\ fiber = [r \in Rows |-> "idle"]
    /\ staff = IdleStaff
    /\ faults = 0 /\ ops = 0

-----------------------------------------------------------------------------
(* Rows and batches *)

Running == {b \in Batches : batch[b].status = "running"}
Used == {r \in Rows : row[r].status # "none"}
RowsOf(b) == {r \in Used : row[r].batch = b}
Newest(bs) == CHOOSE b \in bs : \A c \in bs : c <= b

\* Terminal: `is_complete = 1`; the rows a cancel removed are gone.
Ended(r) == row[r].is_complete \/ row[r].status = "deleted"

\* _insert_batch: one PENDING row per object, under the next free ids.
_insert_batch(b, objs) ==
    \E new \in [objs -> Rows \ Used] :
       LET inserted == {new[o] : o \in objs} IN
       /\ \A o, p \in objs : o < p => new[o] < new[p]
       /\ \A r \in Rows, q \in inserted : r < q => r \in Used \cup inserted
       /\ row' = [r \in Rows |->
                    IF r \in inserted
                    THEN [NoRow EXCEPT !.batch = b, !.status = "PENDING",
                                       !.obj = CHOOSE o \in objs : new[o] = r]
                    ELSE row[r]]

\* advance_cursor: compare-and-swap on the cursor alone.
Advanced(b, expected, new, done) ==
    IF batch[b].cursor = expected
    THEN [batch EXCEPT ![b].cursor = new,
                       ![b].enqueue_complete = @ \/ done]
    ELSE batch

Fault == faults < MaxFaults /\ faults' = faults + 1

-----------------------------------------------------------------------------
(* The producer: tick() of producer.js *)

\* read_chunk_from_objects: the first ChunkSize objects past the cursor, and
\* the last one of them.  Objects are numbered in the order of their ids.
Start_mutant(cursor) == IF cursor \in {NULL, 0} THEN 0 ELSE cursor - 1
Start(cursor) == IF cursor = NULL THEN 0 ELSE cursor
Chunk_mutant(cursor) ==
    {o \in Objects : Start(cursor) < o /\ o < Start(cursor) + ChunkSize}
Chunk(cursor) == {o \in Objects : Start(cursor) < o /\ o <= Start(cursor) + ChunkSize}
LastOf(cursor) == IF Start(cursor) + ChunkSize < NumObjects
                  THEN Start(cursor) + ChunkSize ELSE NumObjects

tick_read(t) ==
    /\ worker # "down" /\ tick[t].pc = "idle"
    /\ Running # {}
    /\ LET b == Newest(Running)
           chunk == Chunk(batch[b].cursor) IN
       /\ ~batch[b].enqueue_complete
       /\ tick' = [tick EXCEPT ![t] =
                     [pc |-> IF chunk = {} THEN "done" ELSE "insert",
                      batch |-> b, cursor |-> batch[b].cursor, chunk |-> chunk]]
    /\ UNCHANGED <<tables, worker, token, fiber, staff, faults, ops>>

tick_insert(t) ==
    /\ tick[t].pc = "insert"
    /\ _insert_batch(tick[t].batch, tick[t].chunk)
    /\ tick' = [tick EXCEPT ![t].pc = "advance"]
    /\ UNCHANGED <<batch, refreshed, worker, token, fiber, staff, faults, ops>>

\* A lost compare-and-swap is logged; the tick goes on.
tick_advance(t) ==
    /\ tick[t].pc = "advance"
    /\ batch' = Advanced(tick[t].batch, tick[t].cursor, LastOf(tick[t].cursor), FALSE)
    /\ tick' = [tick EXCEPT ![t].pc = "total"]
    /\ UNCHANGED <<row, refreshed, worker, token, fiber, staff, faults, ops>>

increment_total(t) ==
    /\ tick[t].pc = "total"
    /\ batch' = [batch EXCEPT ![tick[t].batch].total = @ + Cardinality(tick[t].chunk)]
    /\ tick' = [tick EXCEPT ![t] = IdleTick]
    /\ UNCHANGED <<row, refreshed, worker, token, fiber, staff, faults, ops>>

tick_done(t) ==
    /\ tick[t].pc = "done"
    /\ batch' = Advanced(tick[t].batch, tick[t].cursor, tick[t].cursor, TRUE)
    /\ tick' = [tick EXCEPT ![t].pc = "empty"]
    /\ UNCHANGED <<row, refreshed, worker, token, fiber, staff, faults, ops>>

complete_if_empty(t) ==
    /\ tick[t].pc = "empty"
    /\ LET b == tick[t].batch IN
       batch' = IF batch[b].status = "running" /\ batch[b].total = 0
                      /\ batch[b].enqueue_complete
                THEN [batch EXCEPT ![b].status = "completed"] ELSE batch
    /\ tick' = [tick EXCEPT ![t] = IdleTick]
    /\ UNCHANGED <<row, refreshed, worker, token, fiber, staff, faults, ops>>

\* Any of its statements fails: safe_tick logs the error.
tick_failed(t) ==
    /\ tick[t].pc # "idle" /\ Fault
    /\ tick' = [tick EXCEPT ![t] = IdleTick]
    /\ UNCHANGED <<tables, worker, token, fiber, staff, ops>>

Producer(t) ==
    \/ tick_read(t) \/ tick_insert(t) \/ tick_advance(t) \/ increment_total(t)
    \/ tick_done(t) \/ complete_if_empty(t)

-----------------------------------------------------------------------------
(* The worker: tick() and process_row() of worker.js *)

\* reset_orphaned with an age, or at boot without one.
Orphans_mutant(by_age) == {}
Orphans(by_age) ==
    {r \in Rows : /\ row[r].status = "IN_PROGRESS" /\ ~row[r].is_complete
                  /\ by_age => ~row[r].waiting}
reset_orphaned(by_age) ==
    row' = [r \in Rows |-> IF r \in Orphans(by_age)
                           THEN [row[r] EXCEPT !.status = "PENDING", !.waiting = FALSE]
                           ELSE row[r]]

\* A tick that has no token mints one, or ends; then the sweep, whose failure is
\* logged.
worker_tick ==
    /\ worker = "idle"
    /\ \/ /\ worker' = "claim" /\ token' = TRUE
          /\ \/ reset_orphaned(TRUE) /\ UNCHANGED faults
             \/ Orphans(TRUE) # {} /\ Fault /\ UNCHANGED row
       \/ ~token /\ Fault /\ UNCHANGED <<row, worker, token>>
    /\ UNCHANGED <<batch, refreshed, tick, fiber, staff, ops>>

\* claim_pending: on-demand rows first, then by id.
Before(q, r) ==
    LET onDemand(x) == row[x].batch \in Requests
    IN (onDemand(q) /\ ~onDemand(r)) \/ ((onDemand(q) <=> onDemand(r)) /\ q < r)
Claimable_mutant ==
    {r \in Rows : row[r].status \in {"PENDING", "DEAD_LETTERED"} /\ ~row[r].waiting}
Claimable ==
    {r \in Rows : row[r].status = "PENDING" /\ ~row[r].is_complete /\ ~row[r].waiting}
claim_pending ==
    LET claimed == {r \in Claimable :
                      Cardinality({q \in Claimable : Before(q, r)}) < Concurrency} IN
    /\ worker = "claim"
    /\ \/ /\ row' = [r \in Rows |-> IF r \in claimed
                       THEN [row[r] EXCEPT !.status = "IN_PROGRESS", !.waiting = TRUE]
                       ELSE row[r]]
          /\ fiber' = [r \in Rows |-> IF r \in claimed THEN "fetch" ELSE fiber[r]]
          /\ worker' = IF claimed = {} THEN "idle" ELSE "run"
          /\ UNCHANGED faults
       \/ Claimable # {} /\ Fault /\ worker' = "idle" /\ UNCHANGED <<row, fiber>>
    /\ UNCHANGED <<batch, refreshed, tick, token, staff, ops>>

\* Promise.allSettled: the loop goes on when every fiber has ended.
worker_settled ==
    /\ worker = "run" /\ \A r \in Rows : fiber[r] = "idle"
    /\ worker' = IF RotateTokens THEN "rotate" ELSE "idle"
    /\ UNCHANGED <<tables, tick, token, fiber, staff, faults, ops>>

\* _maybe_rotate_token: a failed mint leaves the holder empty.
_maybe_rotate_token ==
    /\ worker = "rotate" /\ worker' = "idle"
    /\ \/ token' = TRUE /\ UNCHANGED faults
       \/ token' = FALSE /\ Fault
    /\ UNCHANGED <<tables, tick, fiber, staff, ops>>

Goto(r, pc) == fiber' = [fiber EXCEPT ![r] = pc]
fiberRest == <<tick, worker, token, staff, ops>>

\* What comes before the first write: get_record; on a 401 or 403 a fresh token
\* and one more get_record; get_db_record; build_payload.
fetch(r) ==
    /\ fiber[r] = "fetch"
    /\ \E pc \in {"write", "mark_failed"} : Goto(r, pc)
    /\ UNCHANGED <<tables, fiberRest, faults>>

update_metadata_payload(r) ==
    /\ fiber[r] = "write"
    /\ \/ /\ refreshed' = refreshed \cup {row[r].obj}
          /\ Goto(r, "mark_updated") /\ UNCHANGED faults
       \/ Goto(r, "mark_failed") /\ Fault /\ UNCHANGED refreshed
    /\ UNCHANGED <<batch, row, fiberRest>>

\* The marks write `where id`, whatever the row has become.
mark_updated(r) ==
    /\ fiber[r] = "mark_updated"
    /\ \/ /\ row' = [row EXCEPT ![r].status = "RECORD_UPDATED", ![r].waiting = FALSE]
          /\ Goto(r, "mark_complete") /\ UNCHANGED faults
       \/ Goto(r, "mark_failed") /\ Fault /\ UNCHANGED row
    /\ UNCHANGED <<batch, refreshed, fiberRest>>

\* row_is_system_refresh: only a system-wide batch keeps counters.
CountStep(r, pc) == IF row[r].batch \in Batches THEN pc ELSE "idle"

mark_complete(r) ==
    /\ fiber[r] = "mark_complete"
    /\ \/ /\ row' = [row EXCEPT ![r].status = "COMPLETE", ![r].is_complete = TRUE]
          /\ Goto(r, CountStep(r, "count_ok")) /\ UNCHANGED faults
       \/ Goto(r, "mark_failed") /\ Fault /\ UNCHANGED row
    /\ UNCHANGED <<batch, refreshed, fiberRest>>

\* Retry within the budget, dead letter at its end.  If the write itself
\* fails the fiber is rejected and the row stays as it is.
Retried(q) == q.attempts < MaxAttempts
MarkFailed(q) ==
    LET failed == [q EXCEPT !.attempts = @ + 1] IN
    IF Retried(failed)
    THEN [failed EXCEPT !.status = "PENDING", !.is_complete = FALSE, !.waiting = TRUE]
    ELSE [failed EXCEPT !.status = "DEAD_LETTERED", !.is_complete = TRUE, !.waiting = FALSE]

\* The outcome decides whether the batch counts the row.
AfterFailure_mutant(r) == CountStep(r, "count_dead")
AfterFailure(r) == IF Retried([row[r] EXCEPT !.attempts = @ + 1])
                   THEN "idle" ELSE CountStep(r, "count_dead")
mark_failed(r) ==
    /\ fiber[r] = "mark_failed"
    /\ \/ /\ row' = [row EXCEPT ![r] = MarkFailed(@)]
          /\ Goto(r, AfterFailure(r)) /\ UNCHANGED faults
       \/ Goto(r, "idle") /\ Fault /\ UNCHANGED row
    /\ UNCHANGED <<batch, refreshed, fiberRest>>

\* on_row_terminal: increment, read, and a compare-and-swap on the status.
\* roll_up logs an error and goes on.
count(r) ==
    /\ fiber[r] \in {"count_ok", "count_dead"}
    /\ \/ /\ batch' = IF fiber[r] = "count_ok"
                      THEN [batch EXCEPT ![row[r].batch].succeeded = @ + 1]
                      ELSE [batch EXCEPT ![row[r].batch].dead_lettered = @ + 1]
          /\ Goto(r, "look") /\ UNCHANGED faults
       \/ Goto(r, "idle") /\ Fault /\ UNCHANGED batch
    /\ UNCHANGED <<row, refreshed, fiberRest>>

AllCounted(q) == /\ q.status = "running" /\ q.enqueue_complete
                 /\ q.succeeded + q.dead_lettered >= q.total
look(r) ==
    /\ fiber[r] = "look"
    /\ Goto(r, IF AllCounted(batch[row[r].batch]) THEN "close" ELSE "idle")
    /\ UNCHANGED <<tables, fiberRest, faults>>

close(r) ==
    /\ fiber[r] = "close"
    /\ batch' = IF batch[row[r].batch].status = "running"
                THEN [batch EXCEPT ![row[r].batch].status = "completed"] ELSE batch
    /\ Goto(r, "idle")
    /\ UNCHANGED <<row, refreshed, fiberRest, faults>>

process_row(r) ==
    \/ fetch(r) \/ update_metadata_payload(r) \/ mark_updated(r) \/ mark_complete(r)
    \/ mark_failed(r) \/ count(r) \/ look(r) \/ close(r)

WorkerLoop ==
    worker_tick \/ claim_pending \/ worker_settled \/ _maybe_rotate_token

\* A backoff ends, or a claim nobody works on becomes old.
TimePasses(r) ==
    /\ row[r].waiting /\ fiber[r] = "idle"
    /\ row[r].status \in {"PENDING", "IN_PROGRESS"}
    /\ row' = [row EXCEPT ![r].waiting = FALSE]
    /\ UNCHANGED <<batch, refreshed, tick, worker, token, fiber, staff, faults, ops>>

-----------------------------------------------------------------------------
(* Staff requests *)

worldRest == <<refreshed, tick, worker, token, fiber, faults>>
Asked == staff.pc = "idle" /\ worker # "down" /\ ops < MaxOps /\ ops' = ops + 1

Cancelled == {b \in Batches : batch[b].status = "cancelled"}
DoneSet(b) == {row[r].obj : r \in {q \in RowsOf(b) : row[q].is_complete}}

\* get_last_cancelled_cursor: before the first object that the last cancelled
\* batch did not finish; its own cursor if it finished none, or all.
ResumeCursor ==
    IF Cancelled = {} THEN NULL
    ELSE LET b == Newest(Cancelled)
             open == Objects \ DoneSet(b) IN
         IF batch[b].cursor = NULL \/ DoneSet(b) = {} \/ open = {}
         THEN batch[b].cursor
         ELSE (CHOOSE o \in open : \A p \in open : o <= p) - 1

\* start_refresh, with or without "resume"; create_batch refuses while a batch
\* is running.
start_refresh ==
    /\ Asked
    /\ \E cursor \in {NULL, ResumeCursor} :
          staff' = [pc |-> "check", batch |-> 0, cursor |-> cursor]
    /\ UNCHANGED <<batch, row, worldRest>>

create_batch_check ==
    /\ staff.pc = "check"
    /\ staff' = IF Running # {} THEN IdleStaff ELSE [staff EXCEPT !.pc = "create"]
    /\ UNCHANGED <<batch, row, worldRest, ops>>

create_batch ==
    /\ staff.pc = "create"
    /\ \E b \in Batches :
          /\ batch[b].status = "none" /\ \A c \in Batches : c < b => batch[c].status # "none"
          /\ batch' = [batch EXCEPT ![b] =
                         [NoBatch EXCEPT !.status = "running", !.cursor = staff.cursor,
                                         !.from = Start(staff.cursor)]]
    /\ staff' = IdleStaff
    /\ UNCHANGED <<row, worldRest, ops>>

\* request_cancel: a read, then three writes, none of them guarded.
request_cancel ==
    /\ Asked
    /\ \E b \in Running : staff' = [pc |-> "flags", batch |-> b, cursor |-> NULL]
    /\ UNCHANGED <<batch, row, worldRest>>

cancel_flags ==
    /\ staff.pc = "flags"
    /\ batch' = [batch EXCEPT ![staff.batch].cancel_requested = TRUE,
                              ![staff.batch].enqueue_complete = TRUE]
    /\ staff' = [staff EXCEPT !.pc = "delete"]
    /\ UNCHANGED <<row, worldRest, ops>>

cancel_delete ==
    /\ staff.pc = "delete"
    /\ row' = [r \in Rows |->
                 IF r \in RowsOf(staff.batch) /\ row[r].status = "PENDING"
                       /\ ~row[r].is_complete
                 THEN [row[r] EXCEPT !.status = "deleted"] ELSE row[r]]
    /\ staff' = [staff EXCEPT !.pc = "status"]
    /\ UNCHANGED <<batch, worldRest, ops>>

cancel_status ==
    /\ staff.pc = "status"
    /\ batch' = [batch EXCEPT ![staff.batch].status = "cancelled"]
    /\ staff' = IdleStaff
    /\ UNCHANGED <<row, worldRest, ops>>

\* enqueue_single, enqueue_collection, enqueue_collection_record and
\* enqueue_pids differ in the objects they take.
enqueue ==
    /\ Asked
    /\ \E q \in Requests, objs \in SUBSET Objects \ {{}} :
          /\ RowsOf(q) = {} /\ \A p \in Requests : p < q => RowsOf(p) # {}
          /\ _insert_batch(q, objs)
    /\ UNCHANGED <<batch, staff, worldRest>>

\* cancel_batch: closes the request's open rows, those in progress as well.
cancel_batch ==
    /\ Asked
    /\ \E q \in Requests :
          /\ RowsOf(q) # {}
          /\ row' = [r \in Rows |->
                       IF r \in RowsOf(q) /\ ~row[r].is_complete
                       THEN [row[r] EXCEPT !.status = "CANCELLED", !.is_complete = TRUE]
                       ELSE row[r]]
    /\ UNCHANGED <<batch, staff, worldRest>>

Requests_in_progress ==
    create_batch_check \/ create_batch \/ cancel_flags \/ cancel_delete \/ cancel_status
StaffRequests == start_refresh \/ request_cancel \/ enqueue \/ cancel_batch

-----------------------------------------------------------------------------
(* The process *)

crash ==
    /\ worker # "down" /\ Fault
    /\ worker' = "down" /\ token' = FALSE
    /\ tick' = [t \in Ticks |-> IdleTick]
    /\ fiber' = [r \in Rows |-> "idle"]
    /\ staff' = IdleStaff
    /\ UNCHANGED <<tables, ops>>

\* start(): the sweep without an age; a failure is logged.
start ==
    /\ worker = "down" /\ worker' = "idle"
    /\ \/ reset_orphaned(FALSE) /\ UNCHANGED faults
       \/ Orphans(FALSE) # {} /\ Fault /\ UNCHANGED row
    /\ UNCHANGED <<batch, refreshed, tick, token, fiber, staff, ops>>

Next ==
    \/ \E t \in Ticks : Producer(t) \/ tick_failed(t)
    \/ WorkerLoop
    \/ \E r \in Rows : process_row(r) \/ TimePasses(r)
    \/ StaffRequests \/ Requests_in_progress
    \/ crash \/ start

Spec == Init /\ [][Next]_vars

(* The interval, the timer loop and the event loop keep running what has   *)
(* begun, backoffs end, and the process is started again.  Staff owe       *)
(* nothing; a request they made runs to its end.                           *)
FairSpec ==
    /\ Spec
    /\ \A t \in Ticks : WF_vars(Producer(t))
    /\ WF_vars(WorkerLoop)
    /\ \A r \in Rows : WF_vars(process_row(r)) /\ WF_vars(TimePasses(r))
    /\ WF_vars(Requests_in_progress)
    /\ WF_vars(start)

-----------------------------------------------------------------------------
(* Properties *)

\* batches.js and producer.js: the rows a batch counts are rows that ended; no
\* crash, retry or late write makes it count a row twice.
CountersHonest ==
    \A b \in Batches :
        batch[b].succeeded + batch[b].dead_lettered
            <= Cardinality({r \in RowsOf(b) : row[r].is_complete})

\* batches.js (on_row_terminal, complete_if_empty) and producer.js (tick): while
\* nothing fails and producer ticks do not overlap, no object is queued twice in
\* one batch; and a batch that completed, and is not being cancelled, left no row
\* behind, and every object it was started over has been refreshed or given up.
CompletedIsDone(b) ==
    batch[b].status = "completed" /\ ~batch[b].cancel_requested =>
        /\ \A r \in RowsOf(b) : Ended(r)
        /\ \A o \in Objects : o > batch[b].from =>
              \/ o \in refreshed
              \/ \E r \in RowsOf(b) : row[r].obj = o /\ row[r].status = "DEAD_LETTERED"
NoDuplicates ==
    \A r, q \in Used : row[r].batch = row[q].batch /\ row[r].obj = row[q].obj => r = q
UndisturbedIsClean ==
    faults = 0 /\ NumTicks = 1 => NoDuplicates /\ \A b \in Batches : CompletedIsDone(b)

\* model.js (cancel_batch): a row closed by staff is worked on again only if a
\* fiber held it when it was closed.
ClosedStaysClosed ==
    [][\A r \in Rows :
          row[r].is_complete /\ fiber[r] = "idle"
            => row'[r].is_complete /\ fiber'[r] = "idle"]_vars

\* worker.js and model.js (mark_failed, reset_orphaned): a queued row is
\* refreshed, given up, cancelled, or left between its two marks; no failure,
\* backoff or restart leaves it waiting.
Queued(r) == row[r].status \in {"PENDING", "IN_PROGRESS"} /\ ~row[r].is_complete
RowsSettle == \A r \in Rows : Queued(r) ~> (Ended(r) \/ row[r].status = "RECORD_UPDATED")

\* What the batch promises of its coverage, whatever happens to its rows.
Covered(b) == {row[r].obj : r \in RowsOf(b)}
Phase(b) == IF batch[b].cancel_requested /\ batch[b].status # "cancelled"
            THEN "cancelling" ELSE batch[b].status
Ledger == INSTANCE RefreshLedger
            WITH phase <- [b \in Batches |-> Phase(b)],
                 due   <- [b \in Batches |-> {o \in Objects : o > batch[b].from
                                                /\ batch[b].status # "none"}],
                 taken <- [b \in Batches |-> Covered(b)]
ImplementsLedger == Ledger!Spec
=============================================================================
