------------------------------ MODULE AipStore ------------------------------
(***************************************************************************)
(* Stage 6: the preservation copy of each AIP to cloud storage.  The stage *)
(* handler (ingester/stages/aip_store.js), its part of the worker's claim  *)
(* phase (ingester/worker.js), the retry budget kept in tbl_aip_store, the *)
(* staff requests that stop, dismiss and retry a copy, the backfill        *)
(* (ingester/aip_backfill.js), crashes and restarts.                       *)
(*                                                                         *)
(* Several queue rows can stand for one AIP: the row of its ingest and the *)
(* rows of later backfills share one tbl_aip_store row.  Rows 1..NumAips   *)
(* are the ingests' rows, later ids are backfill rows.                     *)
(*                                                                         *)
(* One action is one step between two awaits.  Claim phases do not overlap *)
(* here; IngestPipeline models overlapping ones.                           *)
(***************************************************************************)
EXTENDS Integers, FiniteSets

CONSTANTS
    NumAips,       \* packages whose repository object exists
    Held,          \* the ones stage 5 still holds; the others were closed
                   \* before stage 6 was switched on
    NumBackfill,   \* bound: backfill rows
    NumStaff,      \* staff sessions
    Concurrency,   \* cfg.concurrency
    Stage6Serial,  \* aip_store.serial, default TRUE
    ScanWindow,    \* STAGE6_BACKOFF_SCAN
    ChunkSize,     \* aip_store.backfill_chunk_size
    MaxAttempts,   \* aip_store.max_attempts
    NotFoundMax,   \* aip_store.not_found_max_attempts
    MaxFaults,     \* bound: crashes, shutdowns and database failures
    MaxOps         \* bound: staff requests

ASSUME AipStoreAssumption ==
    /\ {NumAips, Concurrency, ScanWindow, ChunkSize, MaxAttempts, NotFoundMax}
            \subseteq Nat \ {0}
    /\ {NumBackfill, NumStaff, MaxFaults, MaxOps} \subseteq Nat
    /\ Stage6Serial \in BOOLEAN
    /\ Held \subseteq 1..NumAips

Aips  == 1..NumAips
Rows  == 1..(NumAips + NumBackfill)
Staff == 1..NumStaff

VARIABLES
    \* --- tbl_ingest_queue ---
    state, is_complete,
    sip,          \* sip_uuid: the AIP the row stands for, 0 while unused
    batch,        \* the backfill batch: its least row id
    \* --- tbl_aip_store, one row per AIP ---
    store,
    \* --- the process ---
    phase, enabled, claim, task,
    \* --- requests in progress ---
    staff,
    \* --- the outside world, and what has been asked of it ---
    wasabi,       \* AIPs whose bytes are in cloud storage
    calls,        \* copy calls made for each AIP
    \* --- bounds ---
    faults, ops

queueVars == <<state, is_complete, sip, batch>>
worldVars == <<wasabi, calls>>
boundVars == <<faults, ops>>
vars == <<queueVars, store, phase, enabled, claim, task, staff, worldVars, boundVars>>

STAGE6_STATES == {"AIP_STORE_PENDING", "AIP_STORE_IN_PROGRESS"}
RowStates == STAGE6_STATES \cup {"ABSENT", "COMPLETE", "AIP_STORE_COMPLETE",
                "AIP_STORE_FAILED", "CANCELLED_BY_USER", "INGEST_HALTED"}

\* STATUS, and the two messages that decide anything.
Statuses == {"none", "INITIAL", "INGEST_COPIED_OK", "INGEST_COPY_FAILED", "AM_NOT_FOUND"}
StoreRecords == [status : Statuses, attempts : Nat, waiting : BOOLEAN,
                 message : {"none", "RETRY_FROM_DURACLOUD", "AM_DELETED"}]
NoStoreRow == [status |-> "none", attempts |-> 0, waiting |-> FALSE,
               message |-> "none"]

\* Mutant: a failed copy passes for a stored one.
is_terminal_success_mutant(s) == s.status \in {"INGEST_COPIED_OK", "INGEST_COPY_FAILED"}
is_terminal_success(s) == s.status = "INGEST_COPIED_OK"
is_orphan(s) == s.status = "AM_NOT_FOUND"

\* A row as a claim read it.
Copies == [row : Rows, state : STAGE6_STATES]
CopyOf(r) == [row |-> r, state |-> state[r]]

IdleClaim == [pc |-> "idle", inside |-> FALSE, batch |-> {}, claimed |-> {}]
IdleTask  == [pc |-> "idle", claimed |-> "AIP_STORE_PENDING", aborted |-> FALSE,
              duracloud |-> FALSE, why |-> "none", next |-> 0]
IdleStaff == [pc |-> "idle", row |-> 0, aips |-> {}]

Failures == {"copy_failed", "not_found", "am_deleted"}

ClaimRecords ==
    [pc : {"idle", "snap", "resume", "admit_resume", "pending", "filter",
           "admit_pending"},
     inside : BOOLEAN, batch : SUBSET Copies, claimed : SUBSET Copies]

TaskRecords ==
    [pc : {"idle", "lookup", "drain", "already", "orphan", "mark", "call", "wait",
           "store", "complete", "record", "park"},
     claimed : STAGE6_STATES, aborted : BOOLEAN, duracloud : BOOLEAN,
     why : Failures \cup {"none"}, next : Nat]

StaffRecords ==
    [pc : {"idle", "stop_store", "stop_park", "dismiss", "source", "requeue",
           "candidates", "insert"},
     row : Rows \cup {0}, aips : SUBSET Aips]

TypeOK ==
    /\ state \in [Rows -> RowStates]
    /\ is_complete \in [Rows -> BOOLEAN]
    /\ sip \in [Rows -> Aips \cup {0}]
    /\ \A r \in Rows : state[r] # "ABSENT" => sip[r] \in Aips
    /\ batch \in [Rows -> Nat]
    /\ store \in [Aips -> StoreRecords]
    /\ phase \in {"up", "stopping", "down"}
    /\ enabled \in BOOLEAN
    /\ claim \in ClaimRecords
    /\ task \in [Rows -> TaskRecords]
    /\ staff \in [Staff -> StaffRecords]
    /\ wasabi \subseteq Aips
    /\ calls \in [Aips -> Nat]
    /\ faults \in Nat /\ ops \in Nat

\* Every package is ingested; nothing is known of its copy.
Init ==
    /\ state = [r \in Rows |-> IF r \in Aips THEN "COMPLETE" ELSE "ABSENT"]
    /\ is_complete = [r \in Rows |-> r \in Aips \ Held]
    /\ sip = [r \in Rows |-> IF r \in Aips THEN r ELSE 0]
    /\ batch = [r \in Rows |-> 0]
    /\ store = [a \in Aips |-> NoStoreRow]
    /\ phase = "up" /\ enabled = TRUE
    /\ claim = IdleClaim
    /\ task = [r \in Rows |-> IdleTask]
    /\ staff = [p \in Staff |-> IdleStaff]
    /\ wasabi = {}
    /\ calls = [a \in Aips |-> 0]
    /\ faults = 0 /\ ops = 0

OpenIn(st) == {r \in Rows : state[r] = st /\ ~is_complete[r]}
NewestRows(rows, limit) == {r \in rows : Cardinality({q \in rows : q > r}) < limit}
stage6_dispatched == {r \in Rows : task[r].pc # "idle"}

\* update_queue writes `where id`, whatever the row has become.
update_queue(r, st, done) ==
    /\ state' = [state EXCEPT ![r] = st]
    /\ is_complete' = [is_complete EXCEPT ![r] = done]
    /\ UNCHANGED <<sip, batch>>

upsert_by_uuid(a, patch) == store' = [store EXCEPT ![a] = patch]

-----------------------------------------------------------------------------
(* Stage 5 hands a package over at the end of its hold *)

hand_off(r) ==
    /\ phase = "up" /\ enabled
    /\ state[r] = "COMPLETE" /\ ~is_complete[r]
    /\ update_queue(r, "AIP_STORE_PENDING", FALSE)
    /\ UNCHANGED <<store, phase, enabled, claim, task, staff, worldVars,
                   boundVars>>

-----------------------------------------------------------------------------
(* The claim phase: the stage-6 part of tick() *)

ClaimFrame == UNCHANGED <<queueVars, store, phase, enabled, staff, worldVars>>

\* tick(): the first await counts the copies the database says are under way.
tick_count ==
    /\ phase = "up" /\ claim.pc = "idle"
    /\ claim' = [IdleClaim EXCEPT
                    !.pc = "snap",
                    !.inside = Stage6Serial /\ OpenIn("AIP_STORE_IN_PROGRESS") # {}]
    /\ UNCHANGED task /\ ClaimFrame /\ UNCHANGED boundVars

\* The gate trusts the database count alone.
InFlight_mutant == FALSE

\* The in-memory half of the gate, read when the count is back.
InFlight == Stage6Serial /\ stage6_dispatched # {}

tick_snapshot ==
    /\ claim.pc = "snap"
    /\ claim' = IF InFlight THEN IdleClaim ELSE [claim EXCEPT !.pc = "resume"]
    /\ UNCHANGED task /\ ClaimFrame /\ UNCHANGED boundVars

\* Mutant: rows found in progress are left to whoever started them.
Resumable_mutant == {}

\* The rows to resume are listed first, the newest of them.
Resumable == NewestRows(OpenIn("AIP_STORE_IN_PROGRESS"), Concurrency)

claim_resume ==
    /\ claim.pc = "resume"
    /\ claim' = [claim EXCEPT !.pc = "admit_resume",
                              !.batch = {CopyOf(r) : r \in Resumable}]
    /\ UNCHANGED task /\ ClaimFrame /\ UNCHANGED boundVars

\* Rows in flight by now are skipped; one row per tick under the gate.
Admitted ==
    LET fresh == {c \in claim.batch : c.row \notin stage6_dispatched}
    IN  IF Stage6Serial THEN {c \in fresh : \A d \in fresh : d.row <= c.row}
        ELSE fresh

\* rows.map(dispatch_one): the tick is over, the stages run on their copies.
Dispatch(claimed) ==
    /\ claim' = IdleClaim
    /\ task' = [r \in Rows |->
          IF \E c \in claimed : c.row = r
          THEN [IdleTask EXCEPT !.pc = "lookup",
                    !.claimed = (CHOOSE c \in claimed : c.row = r).state]
          ELSE task[r]]

\* A new copy waits for the one under way.
PendingClosed(claimed) ==
    \/ Cardinality(claimed) >= Concurrency
    \/ Stage6Serial /\ (claimed # {} \/ claim.inside)

admit_resume ==
    /\ claim.pc = "admit_resume"
    /\ IF PendingClosed(Admitted) THEN Dispatch(Admitted)
       ELSE /\ claim' = [claim EXCEPT !.pc = "pending", !.batch = {},
                                      !.claimed = Admitted]
            /\ UNCHANGED task
    /\ ClaimFrame /\ UNCHANGED boundVars

\* claim_stage6_pending: the newest candidates first ...
claim_pending ==
    /\ claim.pc = "pending"
    /\ LET rows == NewestRows(OpenIn("AIP_STORE_PENDING"), ScanWindow)
       IN IF rows = {} THEN Dispatch(claim.claimed)
          ELSE /\ claim' = [claim EXCEPT !.pc = "filter",
                                         !.batch = {CopyOf(r) : r \in rows}]
               /\ UNCHANGED task
    /\ ClaimFrame /\ UNCHANGED boundVars

\* ... then the ones in backoff are left out, unless the lookup fails.
claim_filter ==
    /\ claim.pc = "filter"
    /\ LET limit == Concurrency - Cardinality(claim.claimed)
           rows == {c.row : c \in claim.batch}
           runnable == {r \in rows : ~store[sip[r]].waiting}
           Limited(rs) == {c \in claim.batch : c.row \in NewestRows(rs, limit)}
       IN \/ /\ claim' = [claim EXCEPT !.pc = "admit_pending", !.batch = Limited(runnable)]
             /\ UNCHANGED faults
          \/ /\ faults < MaxFaults /\ faults' = faults + 1
             /\ claim' = [claim EXCEPT !.pc = "admit_pending", !.batch = Limited(rows)]
    /\ UNCHANGED <<task, ops>> /\ ClaimFrame

admit_pending ==
    /\ claim.pc = "admit_pending"
    /\ Dispatch(claim.claimed \cup Admitted)
    /\ ClaimFrame /\ UNCHANGED boundVars

\* A claim query fails: the tick gives up.
claim_failed ==
    /\ claim.pc # "idle"
    /\ faults < MaxFaults /\ faults' = faults + 1
    /\ claim' = IdleClaim
    /\ UNCHANGED <<task, ops>> /\ ClaimFrame

-----------------------------------------------------------------------------
(* The stage.  Leaving it and clearing the row's abort controller is part of   *)
(* its last step.                                                              *)

At(r, step)   == task[r].pc = step
Goto(r, step) == task' = [task EXCEPT ![r].pc = step]
Return(r)     == task' = [task EXCEPT ![r] = IdleTask]
StageFrame    == UNCHANGED <<phase, enabled, claim, staff, ops>>

\* Mutant: a lookup that forgets the backoff guard.
Backoff_mutant(s) == FALSE
Backoff(s) == s.waiting

\* The entry: the store row decides.
lookup(r) ==
    LET s == store[sip[r]] IN
    /\ At(r, "lookup")
    /\ CASE ~enabled               -> Goto(r, "drain")
         [] is_terminal_success(s) -> Goto(r, "already")
         [] is_orphan(s)           -> Goto(r, "orphan")
         [] Backoff(s)             -> Return(r)
         [] OTHER -> task' = [task EXCEPT
              ![r].pc = IF task[r].claimed = "AIP_STORE_IN_PROGRESS"
                        THEN "call" ELSE "mark",
              ![r].duracloud = s.message = "RETRY_FROM_DURACLOUD"]
    /\ StageFrame /\ UNCHANGED <<queueVars, store, worldVars, faults>>

\* Stage 6 switched off: the row drains without a copy.
drain(r) ==
    /\ At(r, "drain")
    /\ update_queue(r, "COMPLETE", TRUE) /\ Return(r)
    /\ StageFrame /\ UNCHANGED <<store, worldVars, faults>>

already_copied(r) ==
    /\ At(r, "already")
    /\ update_queue(r, "AIP_STORE_COMPLETE", TRUE) /\ Return(r)
    /\ StageFrame /\ UNCHANGED <<store, worldVars, faults>>

skip_orphan(r) ==
    /\ At(r, "orphan")
    /\ update_queue(r, "AIP_STORE_FAILED", TRUE) /\ Return(r)
    /\ StageFrame /\ UNCHANGED <<store, worldVars, faults>>

mark_in_progress(r) ==
    /\ At(r, "mark")
    /\ update_queue(r, "AIP_STORE_IN_PROGRESS", is_complete[r]) /\ Goto(r, "call")
    /\ StageFrame /\ UNCHANGED <<store, worldVars, faults>>

\* The request is torn down at once when the signal is already aborted.
copy_call(r) ==
    /\ At(r, "call")
    /\ IF task[r].aborted THEN Return(r) /\ UNCHANGED calls
       ELSE Goto(r, "wait") /\ calls' = [calls EXCEPT ![sip[r]] = @ + 1]
    /\ StageFrame /\ UNCHANGED <<queueVars, store, wasabi, faults>>

\* Whatever the answer, an aborted stage returns without a write.  The other
\* side may still finish the copy.
copy_aborted(r) ==
    /\ At(r, "wait") /\ task[r].aborted
    /\ Return(r)
    /\ wasabi' \in {wasabi, wasabi \cup {sip[r]}}
    /\ StageFrame /\ UNCHANGED <<queueVars, store, calls, faults>>

copy_succeeds(r) ==
    /\ At(r, "wait") /\ ~task[r].aborted
    /\ Goto(r, "store")
    /\ wasabi' = wasabi \cup {sip[r]}
    /\ StageFrame /\ UNCHANGED <<queueVars, store, calls, faults>>

\* _record_failure counts from the attempts it reads again; a failed read
\* counts from zero.  A timed-out copy may have arrived all the same.
copy_fails(r) ==
    /\ At(r, "wait") /\ ~task[r].aborted
    /\ \E why \in Failures, read \in BOOLEAN :
         /\ read \/ faults < MaxFaults
         /\ faults' = IF read THEN faults ELSE faults + 1
         /\ task' = [task EXCEPT ![r].pc = "record", ![r].why = why,
                ![r].next = IF read THEN store[sip[r]].attempts + 1 ELSE 1]
         /\ wasabi' \in {wasabi} \cup IF why = "copy_failed"
                                      THEN {wasabi \cup {sip[r]}} ELSE {}
    /\ StageFrame /\ UNCHANGED <<queueVars, store, calls>>

store_copied(r) ==
    /\ At(r, "store")
    /\ upsert_by_uuid(sip[r], [NoStoreRow EXCEPT !.status = "INGEST_COPIED_OK"])
    /\ Goto(r, "complete")
    /\ StageFrame /\ UNCHANGED <<queueVars, worldVars, faults>>

complete(r) ==
    /\ At(r, "complete")
    /\ update_queue(r, "AIP_STORE_COMPLETE", TRUE) /\ Return(r)
    /\ StageFrame /\ UNCHANGED <<store, worldVars, faults>>

\* What a failure comes to.
Verdict(d) ==
    CASE d.why = "am_deleted" -> "dead"
      [] d.why = "not_found" -> IF d.next >= NotFoundMax THEN "dead" ELSE "retry"
      [] OTHER -> IF d.next >= MaxAttempts THEN "failed" ELSE "retry"

\* Mutant: the attempt is not counted.
FailurePatch_mutant(d) ==
    [status |-> IF Verdict(d) = "dead" THEN "AM_NOT_FOUND" ELSE "INGEST_COPY_FAILED",
     attempts |-> d.next - 1, waiting |-> Verdict(d) = "retry",
     message |-> IF d.duracloud /\ Verdict(d) = "retry" THEN "RETRY_FROM_DURACLOUD"
                 ELSE "none"]

FailurePatch(d) ==
    [status |-> IF Verdict(d) = "dead" THEN "AM_NOT_FOUND" ELSE "INGEST_COPY_FAILED",
     attempts |-> d.next,
     waiting |-> Verdict(d) = "retry",
     message |-> CASE d.why = "am_deleted" -> "AM_DELETED"
                   [] d.duracloud /\ Verdict(d) = "retry" -> "RETRY_FROM_DURACLOUD"
                   [] OTHER -> "none"]

\* Best effort: the queue row moves on even when this write fails.
record_failure(r) ==
    /\ At(r, "record")
    /\ Goto(r, "park")
    /\ \/ upsert_by_uuid(sip[r], FailurePatch(task[r])) /\ UNCHANGED faults
       \/ faults < MaxFaults /\ faults' = faults + 1 /\ UNCHANGED store
    /\ StageFrame /\ UNCHANGED <<queueVars, worldVars>>

\* Mutant: the row is parked in a state the pipeline does not know.
ParkState(v) == IF v = "retry" THEN "AIP_STORE_PENDING" ELSE "AIP_STORE_FAILED"

\* The last write.  It does not look at the abort signal.
park(r) ==
    LET v == Verdict(task[r]) IN
    /\ At(r, "park")
    /\ update_queue(r, ParkState(v), v = "dead") /\ Return(r)
    /\ StageFrame /\ UNCHANGED <<store, worldVars, faults>>

\* A read or a write of the stage throws: the row is halted, unless that
\* write fails too.
stage_threw(r) ==
    /\ task[r].pc \in {"lookup", "drain", "already", "orphan", "mark", "store",
                       "complete", "park"}
    /\ faults < MaxFaults /\ faults' = faults + 1
    /\ Return(r)
    /\ \/ update_queue(r, "INGEST_HALTED", is_complete[r])
       \/ UNCHANGED queueVars
    /\ StageFrame /\ UNCHANGED <<store, worldVars>>

-----------------------------------------------------------------------------
(* Time, crashes and restarts *)

\* next_attempt_at is in the past from now on.
backoff_ends(a) ==
    /\ store[a].waiting
    /\ store' = [store EXCEPT ![a].waiting = FALSE]
    /\ UNCHANGED <<queueVars, phase, enabled, claim, task, staff, worldVars, boundVars>>

\* stop(): no new ticks, every running stage is aborted.
stop ==
    /\ phase = "up"
    /\ faults < MaxFaults /\ faults' = faults + 1
    /\ phase' = "stopping"
    /\ task' = [r \in Rows |-> IF task[r].pc = "idle" THEN task[r]
                               ELSE [task[r] EXCEPT !.aborted = TRUE]]
    /\ UNCHANGED <<queueVars, store, enabled, claim, staff, worldVars, ops>>

\* The process is gone, with every request it was serving.  A copy under way
\* may still arrive.
Gone ==
    /\ phase' = "down"
    /\ claim' = IdleClaim
    /\ task' = [r \in Rows |-> IdleTask]
    /\ staff' = [p \in Staff |-> IdleStaff]
    /\ \E late \in SUBSET {sip[r] : r \in {q \in Rows : At(q, "wait")}} :
          wasabi' = wasabi \cup late
    /\ UNCHANGED <<queueVars, store, enabled, calls, ops>>

crash ==
    /\ phase = "up"
    /\ faults < MaxFaults /\ faults' = faults + 1
    /\ Gone

exit == phase = "stopping" /\ Gone /\ UNCHANGED faults

\* The boot: the configuration may have changed; finalize_pending_completes
\* closes the rows whose hold was cut short.  No sweep touches stage 6.
start ==
    /\ phase = "down"
    /\ phase' = "up"
    /\ enabled' \in BOOLEAN
    /\ is_complete' = [r \in Rows |-> is_complete[r] \/ state[r] = "COMPLETE"]
    /\ UNCHANGED <<state, sip, batch, store, claim, task, staff, worldVars,
                   boundVars>>

-----------------------------------------------------------------------------
(* Staff requests *)

StaffFrame == UNCHANGED <<phase, enabled, claim, wasabi, calls, faults>>

Begin(p, step, r, aips) ==
    /\ phase # "down" /\ staff[p].pc = "idle"
    /\ ops < MaxOps /\ ops' = ops + 1
    /\ staff' = [staff EXCEPT ![p] = [pc |-> step, row |-> r, aips |-> aips]]
Proceed(p, step) == staff' = [staff EXCEPT ![p].pc = step] /\ UNCHANGED ops
Answer(p) == staff' = [staff EXCEPT ![p] = IdleStaff] /\ UNCHANGED ops

\* stop_aip_copy_action reads the row and aborts its stage, if one runs,
stop_aip_copy(p, r) ==
    /\ state[r] \in STAGE6_STATES
    /\ Begin(p, "stop_store", r, {})
    /\ task' = [task EXCEPT ![r].aborted = task[r].pc # "idle"]
    /\ UNCHANGED <<queueVars, store>> /\ StaffFrame

\* then marks the copy failed (the attempts are kept),
stop_store(p) ==
    /\ staff[p].pc = "stop_store"
    /\ LET a == sip[staff[p].row]
       IN upsert_by_uuid(a, [NoStoreRow EXCEPT !.status = "INGEST_COPY_FAILED",
                                               !.attempts = store[a].attempts])
    /\ Proceed(p, "stop_park")
    /\ UNCHANGED <<queueVars, task>> /\ StaffFrame

\* then parks the row.
stop_park(p) ==
    /\ staff[p].pc = "stop_park"
    /\ update_queue(staff[p].row, "AIP_STORE_FAILED", FALSE)
    /\ Answer(p)
    /\ UNCHANGED <<store, task>> /\ StaffFrame

\* dismiss_aip_row_action: the check, and later the write.
dismiss_aip_row(p, r) ==
    /\ state[r] = "AIP_STORE_FAILED"
    /\ Begin(p, "dismiss", r, {})
    /\ UNCHANGED <<queueVars, store, task>> /\ StaffFrame

dismiss_write(p) ==
    /\ staff[p].pc = "dismiss"
    /\ update_queue(staff[p].row, state[staff[p].row], TRUE)
    /\ Answer(p)
    /\ UNCHANGED <<store, task>> /\ StaffFrame

\* aip_retry and aip_retry_duracloud: reset_for_retry opens a new budget,
aip_retry(p, a, dc) ==
    /\ store[a].status # "none"
    /\ Begin(p, IF dc THEN "source" ELSE "requeue", 0, {a})
    /\ upsert_by_uuid(a, [NoStoreRow EXCEPT !.status = "INITIAL"])
    /\ UNCHANGED <<queueVars, task>> /\ StaffFrame

\* the source is chosen,
retry_source(p) ==
    /\ staff[p].pc = "source"
    /\ store' = [a \in Aips |-> IF a \in staff[p].aips
                    THEN [store[a] EXCEPT !.message = "RETRY_FROM_DURACLOUD"]
                    ELSE store[a]]
    /\ Proceed(p, "requeue")
    /\ UNCHANGED <<queueVars, task>> /\ StaffFrame

\* and the AIP's newest row goes back to the queue, whatever state it is in.
retry_requeue(p) ==
    /\ staff[p].pc = "requeue"
    /\ \E r \in NewestRows({q \in Rows : sip[q] \in staff[p].aips}, 1) :
         /\ update_queue(r, "AIP_STORE_PENDING", FALSE)
    /\ Answer(p)
    /\ UNCHANGED <<store, task>> /\ StaffFrame

\* A query of a request fails: the request is over, except that a stop parks its
\* row even when the store write fails.
request_failed(p) ==
    /\ staff[p].pc # "idle"
    /\ faults < MaxFaults /\ faults' = faults + 1
    /\ staff' = [staff EXCEPT ![p] = IF @.pc = "stop_store"
                    THEN [@ EXCEPT !.pc = "stop_park"] ELSE IdleStaff]
    /\ UNCHANGED <<queueVars, store, phase, enabled, claim, task, worldVars, ops>>

(* The backfill *)

\* _live_stage6_sip_uuids
live == {sip[r] : r \in OpenIn("AIP_STORE_PENDING") \cup OpenIn("AIP_STORE_IN_PROGRESS")}

\* _apply_eligible_filter: the fate of the AIP is still open.
eligible(a) == ~is_terminal_success(store[a]) /\ ~is_orphan(store[a])

backfill_start(p) ==
    /\ enabled
    /\ Begin(p, "candidates", 0, Aips \ live)
    /\ UNCHANGED <<queueVars, store, task>> /\ StaffFrame

\* The next chunk of eligible AIPs, oldest object first.
backfill_candidates(p) ==
    /\ staff[p].pc = "candidates"
    /\ LET found == {a \in staff[p].aips : eligible(a)}
           chunk == {a \in found : Cardinality({b \in found : b < a}) < ChunkSize}
       IN staff' = [staff EXCEPT ![p] = IF chunk = {} THEN IdleStaff
                        ELSE [staff[p] EXCEPT !.pc = "insert", !.aips = chunk]]
    /\ UNCHANGED <<queueVars, store, task, ops>> /\ StaffFrame

\* One insert; ids are handed out in order.
backfill_insert(p) ==
    LET chunk == staff[p].aips
        used == {r \in Rows : state[r] # "ABSENT"}
        RowFor(a) == Cardinality(used) + Cardinality({b \in chunk : b <= a})
        new == {r \in Rows \ used : \E a \in chunk : RowFor(a) = r}
    IN
    /\ staff[p].pc = "insert"
    /\ Cardinality(new) = Cardinality(chunk)
    /\ state' = [r \in Rows |-> IF r \in new THEN "AIP_STORE_PENDING" ELSE state[r]]
    /\ sip' = [r \in Rows |-> IF r \in new THEN CHOOSE a \in chunk : RowFor(a) = r
                              ELSE sip[r]]
    /\ batch' = [r \in Rows |-> IF r \in new THEN Cardinality(used) + 1 ELSE batch[r]]
    /\ Answer(p)
    /\ UNCHANGED <<is_complete, store, task>> /\ StaffFrame

\* cancel_backfill: the pending rows of the latest batch.  It needs no bound:
\* what it closes stays closed, but for requests that have theirs.
cancel_backfill(p) ==
    /\ phase # "down" /\ staff[p].pc = "idle"
    /\ LET backfilled == {r \in Rows : batch[r] # 0}
           hit == {r \in backfilled : /\ state[r] = "AIP_STORE_PENDING"
                                      /\ \A q \in backfilled : batch[q] <= batch[r]}
       IN /\ backfilled # {}
          /\ state' = [r \in Rows |-> IF r \in hit THEN "CANCELLED_BY_USER" ELSE state[r]]
          /\ is_complete' = [r \in Rows |-> r \in hit \/ is_complete[r]]
    /\ UNCHANGED <<sip, batch, staff, store, task, ops>> /\ StaffFrame

-----------------------------------------------------------------------------
(* The specification *)

Tick == \/ tick_count \/ tick_snapshot \/ claim_resume \/ admit_resume
        \/ claim_pending \/ claim_filter \/ admit_pending

Stage(r) ==
    \/ lookup(r) \/ drain(r) \/ already_copied(r) \/ skip_orphan(r)
    \/ mark_in_progress(r) \/ copy_call(r) \/ copy_aborted(r)
    \/ copy_succeeds(r) \/ copy_fails(r) \/ store_copied(r) \/ complete(r)
    \/ record_failure(r) \/ park(r)

Request(p) ==
    \/ backfill_start(p) \/ cancel_backfill(p)
    \/ \E r \in Rows : stop_aip_copy(p, r) \/ dismiss_aip_row(p, r)
    \/ \E a \in Aips, dc \in BOOLEAN : aip_retry(p, a, dc)

Handle(p) ==
    \/ stop_store(p) \/ stop_park(p) \/ dismiss_write(p) \/ retry_source(p)
    \/ retry_requeue(p) \/ backfill_candidates(p) \/ backfill_insert(p)

Next ==
    \/ Tick \/ claim_failed
    \/ \E r \in Rows : hand_off(r) \/ Stage(r) \/ stage_threw(r)
    \/ \E a \in Aips : backoff_ends(a)
    \/ stop \/ crash \/ exit \/ start
    \/ \E p \in Staff : Request(p) \/ Handle(p) \/ request_failed(p)

\* The timer ticks while the process is up, every copy call has a wall-clock
\* budget, time passes, and the service manager restarts the process.
Fairness ==
    /\ WF_vars(Tick)
    /\ \A r \in Rows : WF_vars(Stage(r))
    /\ \A a \in Aips : WF_vars(backoff_ends(a))
    /\ WF_vars(exit) /\ WF_vars(start)

Spec     == Init /\ [][Next]_vars
FairSpec == Spec /\ Fairness

-----------------------------------------------------------------------------
(* Properties *)

\* A row reports its AIP preserved only when the bytes are in cloud storage,
\* whatever was stopped, retried, queued twice or restarted (aip_store.js).
CompleteIsStored ==
    \A r \in Rows : state[r] = "AIP_STORE_COMPLETE" => sip[r] \in wasabi

\* Under the gate one copy call at a time is open, across resumed rows,
\* backfills and retries (worker.js, the stage 6 gate).
OneCopy ==
    Stage6Serial => \A q, r \in Rows : At(q, "wait") /\ At(r, "wait") => q = r

\* Under the gate a copy call starts only for an AIP whose fate is open and whose
\* backoff is over: two rows of one AIP never copy it twice, and no resume,
\* fallback or retry cuts a backoff short (aip_store.js, the entry guards).
Due(a) == eligible(a) /\ ~store[a].waiting
OnlyDueCopiesStart ==
    [][Stage6Serial => \A a \in Aips : calls[a] # calls'[a] => Due(a)]_vars

\* Under the gate the retry budget bounds the calls: a new one starts only with
\* a staff request or a fault (a failed read restarts the count), and a further
\* row of the AIP is worth one call (aip_store.js, _record_failure).  A shutdown
\* is worth two calls even where the budget is one: it aborts a copy before it is
\* counted, and the tick under way dispatches the row once more.  Without the
\* gate two rows of one AIP count one attempt between them.
Longer(m, n) == IF m > n THEN m ELSE n
Longest == Longer(2, Longer(MaxAttempts, NotFoundMax))
BudgetKept ==
    Stage6Serial =>
        \A a \in Aips :
            calls[a] < Longest * (1 + faults + ops) + Cardinality({r \in Rows : sip[r] = a})

\* Every row handed to stage 6 gets out of its queue: stored, failed, closed
\* or halted, through backoffs, restarts and copies ahead of it (worker.js,
\* claim_stage6_pending: a failing AIP must not block the others).
RowsSettle ==
    \A r \in Rows : r \in OpenIn("AIP_STORE_PENDING") \cup OpenIn("AIP_STORE_IN_PROGRESS")
        ~> r \notin OpenIn("AIP_STORE_PENDING") \cup OpenIn("AIP_STORE_IN_PROGRESS")
=============================================================================
