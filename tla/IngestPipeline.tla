--------------------------- MODULE IngestPipeline ---------------------------
(***************************************************************************)
(* Stages 1 to 5 of the ingest pipeline: the rows of tbl_ingest_queue, the *)
(* in-process worker that claims and dispatches them                       *)
(* (ingester/worker.js), the stage handlers (ingester/stages), the staff   *)
(* actions that change a row under the worker (ingester/controller.js),    *)
(* process crashes and restarts, and as much of the outside world as the   *)
(* properties tell apart: where the package folder is, what Archivematica  *)
(* was asked to do, and which repository objects exist.                    *)
(*                                                                         *)
(* One action is one step between two awaits.  A call to an outside system *)
(* that only reads is part of the step that uses its answer; a call that   *)
(* changes something outside is a step of its own, so that a crash can     *)
(* fall between it and the database write that records it.                 *)
(***************************************************************************)
EXTENDS IngestStates, Integers, FiniteSets

CONSTANTS
    NumRows,        \* packages of one collection; row ids are 1..NumRows
    BatchSize,      \* packages one submission queues
    NumTicks,       \* tick() calls that can be alive at once
    NumStaff,       \* staff sessions
    Concurrency,    \* cfg.concurrency
    PipelineSerial, \* cfg.pipeline_serial, default TRUE
    AmParallel,     \* cfg.am_parallel, default FALSE
    OverlapClaims,  \* may a claim phase outlast the poll interval?
    DipCopy,        \* cfg.dip_copy_enabled
    AipEnabled,     \* aip_store.enabled
    MaxFaults,      \* bound: crashes, shutdowns and database outages
    MaxOps          \* bound: staff requests

ASSUME ConstantsAssumption ==
    /\ NumRows \in Nat \ {0} /\ BatchSize \in Nat \ {0} /\ NumTicks \in Nat \ {0} /\ NumStaff \in Nat
    /\ Concurrency \in Nat \ {0}
    /\ {PipelineSerial, AmParallel, OverlapClaims, DipCopy, AipEnabled}
            \subseteq BOOLEAN
    /\ MaxFaults \in Nat /\ MaxOps \in Nat

Rows  == 1..NumRows
Ticks == 1..NumTicks
Staff == 1..NumStaff

\* One package at a time through stages 1 to 5 (the default).
serial == ~AmParallel /\ PipelineSerial

claim_order == IF serial THEN SERIAL_PIPELINE_ORDER ELSE ready_states

VARIABLES
    \* --- tbl_ingest_queue and its event log ---
    state,        \* pipeline_state (status mirrors it)
    is_complete,
    cols,         \* the columns that are filled in
    cancel_from,  \* `from` of the row's latest cancel event, by prior class
    \* --- the worker process ---
    phase,        \* "up", "stopping" or "down"
    tick,         \* each live tick(): its claim phase
    task,         \* task[t][r]: the dispatch_one() of row r by tick t
    abort_controllers, pipeline_dispatched, am_dispatched,
    \* --- requests in progress ---
    staff,
    \* --- the outside world ---
    folder,       \* 001-ready, 002-ingest, or archived to Wasabi
    transfers,    \* start_transfer calls Archivematica accepted
    aip,          \* Archivematica finished the ingest: an AIP exists
    objects,      \* tbl_objects rows inserted
    \* --- bounds ---
    faults, ops,
    resets        \* orphan resets, and resets and retries that came late

rowVars   == <<state, is_complete, cols, cancel_from>>
procVars  == <<abort_controllers, pipeline_dispatched, am_dispatched>>
worldVars == <<folder, transfers, aip, objects>>
boundVars == <<faults, ops, resets>>
vars == <<rowVars, phase, tick, task, procVars, staff, worldVars, boundVars>>

Columns == {"metadata", "transfer_folder", "sip_uuid", "dip_path"}

PriorClasses == {"none", "pre_upload", "post_upload", "am"}

\* A row as a claim read it; the stage works on this copy.
Copies == [row : Rows, state : PIPELINE_STATES, cols : SUBSET Columns]
CopyOf(r) == [row |-> r, state |-> state[r], cols |-> cols[r]]

IdleTick == [pc |-> "idle", resting |-> FALSE, inflight |-> FALSE,
             pos |-> 1, batch |-> {}, claimed |-> {}]

IdleTask == [pc |-> "idle", claimed |-> "ABSENT", cols |-> {},
             aborted |-> FALSE]

IdleStaff == [pc |-> "idle", op |-> "none", todo |-> {}, cur |-> 0,
              seen |-> "none"]

\* STAGE_BY_STATE: where the stage that owns a state starts for a row claimed
\* in that state.
ENTRY_STEP ==
    [ PENDING |-> "mark_processing", PROCESSING_METADATA |-> "mark_processing",
      QA_COMPLETE |-> "file_count", UPLOADING |-> "file_count",
      UPLOAD_COMPLETE |-> "start_transfer", TRANSFER_STARTED |-> "approve",
      TRANSFER_IN_PROGRESS |-> "transfer_status",
      TRANSFER_COMPLETE |-> "ingest_entry", INGEST_IN_PROGRESS |-> "ingest_entry",
      INGEST_COMPLETE |-> "ingest_entry", WAITING_FOR_DURACLOUD |-> "ingest_entry",
      METADATA_PROCESSED |-> "creating", CREATING_REPOSITORY_RECORD |-> "creating" ]

Steps ==
    {"idle", "mark_processing", "fetch", "file_count", "move", "upload_status",
     "start_transfer", "mark_started", "approve", "mark_in_progress",
     "transfer_status", "ingest_entry", "ingest_status", "drift", "dip",
     "mets", "creating", "build", "archive", "complete", "hold", "settle"}

TickRecords ==
    [pc : {"idle", "snap", "list", "admit", "run"}, resting : BOOLEAN,
     inflight : BOOLEAN, pos : 1..14,
     batch : SUBSET Copies, claimed : SUBSET Copies]

TaskRecords ==
    [pc : Steps, claimed : PIPELINE_STATES \cup {"ABSENT"},
     cols : SUBSET Columns, aborted : BOOLEAN]

StaffRecords ==
    [pc : {"idle", "abort", "reread", "move", "write"},
     op : {"none", "cancel", "rollback", "rollback_am", "reset", "retry",
           "orphans"},
     todo : SUBSET [row : Rows, state : PipelineRowStates],
     cur : Rows \cup {0}, seen : PriorClasses]

TypeOK ==
    /\ state \in [Rows -> PipelineRowStates]
    /\ is_complete \in [Rows -> BOOLEAN]
    /\ cols \in [Rows -> SUBSET Columns]
    /\ cancel_from \in [Rows -> PriorClasses]
    /\ phase \in {"up", "stopping", "down"}
    /\ tick \in [Ticks -> TickRecords]
    /\ task \in [Ticks -> [Rows -> TaskRecords]]
    /\ abort_controllers \in [Rows -> Ticks \cup {0}]
    /\ pipeline_dispatched \subseteq Rows
    /\ am_dispatched \subseteq Rows
    /\ staff \in [Staff -> StaffRecords]
    /\ folder \in [Rows -> {"ready", "ingest", "archived"}]
    /\ transfers \in [Rows -> Nat]
    /\ aip \in [Rows -> BOOLEAN]
    /\ objects \in [Rows -> Nat]
    /\ faults \in Nat /\ ops \in Nat /\ resets \in Nat

Init ==
    /\ state = [r \in Rows |-> "ABSENT"]
    /\ is_complete = [r \in Rows |-> FALSE]
    /\ cols = [r \in Rows |-> {}]
    /\ cancel_from = [r \in Rows |-> "none"]
    /\ phase = "up"
    /\ tick = [t \in Ticks |-> IdleTick]
    /\ task = [t \in Ticks |-> [r \in Rows |-> IdleTask]]
    /\ abort_controllers = [r \in Rows |-> 0]
    /\ pipeline_dispatched = {} /\ am_dispatched = {}
    /\ staff = [p \in Staff |-> IdleStaff]
    /\ folder = [r \in Rows |-> "ready"]
    /\ transfers = [r \in Rows |-> 0]
    /\ aip = [r \in Rows |-> FALSE]
    /\ objects = [r \in Rows |-> 0]
    /\ faults = 0 /\ ops = 0 /\ resets = 0

Open(r) == state[r] # "ABSENT" /\ ~is_complete[r]

-----------------------------------------------------------------------------
(* Submission *)

\* enqueue and queue_packages: one transaction queues a batch; ids are handed
\* out in order.
queue_packages ==
    /\ phase # "down"
    /\ LET absent == {r \in Rows : state[r] = "ABSENT"}
           batch == {r \in absent : Cardinality({q \in absent : q < r}) < BatchSize}
       IN /\ batch # {}
          /\ state' = [r \in Rows |-> IF r \in batch THEN "PENDING" ELSE state[r]]
    /\ UNCHANGED <<is_complete, cols, cancel_from, phase, tick, task, procVars,
                   staff, worldVars, boundVars>>

-----------------------------------------------------------------------------
(* The worker's claim phase: tick() *)

Claiming(t) == tick[t].pc \in {"snap", "list", "admit"}

\* setInterval starts a tick (the free one with the least name); its first
\* await counts the rows resting in the gate's states.
tick_count(t) ==
    /\ phase = "up"
    /\ tick[t].pc = "idle" /\ \A u \in 1..(t - 1) : tick[u].pc # "idle"
    /\ OverlapClaims \/ \A u \in Ticks : ~Claiming(u)
    /\ tick' = [tick EXCEPT ![t] =
         [IdleTick EXCEPT
            !.pc = "snap",
            !.resting = ~AmParallel /\ \E r \in Rows :
                /\ Open(r)
                /\ state[r] \in IF serial THEN PIPELINE_MID_STATES
                                          ELSE AM_INSIDE_STATES]]
    /\ UNCHANGED <<rowVars, phase, task, procVars, staff, worldVars, boundVars>>

InFlight_mutant == FALSE   \* the gate trusts the database alone

\* The in-memory half of the gate.
InFlight == IF serial THEN pipeline_dispatched # {} ELSE am_dispatched # {}

\* It is read when the count has come back.  In serial mode a dispatched row
\* closes every stage-1-5 state for this tick.
tick_snapshot(t) ==
    /\ tick[t].pc = "snap"
    /\ tick' = [tick EXCEPT ![t] =
                  IF serial /\ InFlight THEN IdleTick
                  ELSE [tick[t] EXCEPT !.pc = "list", !.inflight = InFlight]]
    /\ UNCHANGED <<rowVars, phase, task, procVars, staff, worldVars, boundVars>>

\* May this tick claim a row in state st?
Admits(t, st) ==
    LET am_admitted == \E c \in tick[t].claimed : c.state \in AM_ACTIVE_STATES
    IN  IF serial
        THEN /\ tick[t].claimed = {}
             /\ st = "PENDING" => ~tick[t].resting
        ELSE \/ AmParallel
             \/ st \notin AM_ACTIVE_STATES
             \/ /\ ~tick[t].inflight /\ ~am_admitted
                /\ st \in AM_ENTRY_STATES => ~tick[t].resting

LoopOver(t) == \/ tick[t].pos > Len(claim_order)
               \/ Cardinality(tick[t].claimed) >= Concurrency
               \/ serial /\ tick[t].claimed # {}

\* list_queue: the newest open rows in one state.
list_queue(st, limit) ==
    LET found == {r \in Rows : state[r] = st /\ ~is_complete[r]}
    IN  {r \in found : Cardinality({q \in found : q > r}) < limit}

\* One turn of the claim loop, up to the answer of its list_queue.
tick_list(t) ==
    /\ tick[t].pc = "list"
    /\ ~LoopOver(t)
    /\ LET st == claim_order[tick[t].pos]
           rows == IF Admits(t, st)
                   THEN list_queue(st, Concurrency - Cardinality(tick[t].claimed))
                   ELSE {}
       IN tick' = [tick EXCEPT ![t] =
                     IF rows = {} THEN [tick[t] EXCEPT !.pos = tick[t].pos + 1]
                     ELSE [tick[t] EXCEPT !.pc = "admit",
                                          !.batch = {CopyOf(r) : r \in rows}]]
    /\ UNCHANGED <<rowVars, phase, task, procVars, staff, worldVars, boundVars>>

\* list_queue answers the newest first.
Newest(copies) == {c \in copies : \A d \in copies : d.row <= c.row}

\* Rows already in flight are skipped, by the map of this moment.
Fresh_mutant(t) == tick[t].batch
Fresh(t) == {c \in tick[t].batch : abort_controllers[c.row] = 0}

\* One row per turn in the gated states.
OneAdmit_mutant(st) == FALSE
OneAdmit(st) == serial \/ (~AmParallel /\ st \in AM_ACTIVE_STATES)

\* The answer is filtered and pushed on `claimed`.
tick_admit(t) ==
    /\ tick[t].pc = "admit"
    /\ LET admitted == IF OneAdmit(claim_order[tick[t].pos])
                       THEN Newest(Fresh(t)) ELSE Fresh(t)
       IN tick' = [tick EXCEPT ![t] =
                     [tick[t] EXCEPT !.pc = "list", !.pos = tick[t].pos + 1,
                                     !.batch = {},
                                     !.claimed = tick[t].claimed \cup admitted]]
    /\ UNCHANGED <<rowVars, phase, task, procVars, staff, worldVars, boundVars>>

\* rows.map(dispatch_one): every claimed row is registered and its stage
\* starts on the claimed copy.  Nothing rechecks the row, or `stopping`.
tick_dispatch(t) ==
    /\ tick[t].pc = "list"
    /\ LoopOver(t)
    /\ LET claimed == tick[t].claimed
           rows == {c.row : c \in claimed}
           copy(r) == CHOOSE c \in claimed : c.row = r
       IN /\ tick' = [tick EXCEPT ![t] =
                        IF claimed = {} THEN IdleTick
                        ELSE [IdleTick EXCEPT !.pc = "run"]]
          /\ task' = [task EXCEPT ![t] = [r \in Rows |->
                        IF r \in rows
                        THEN [pc |-> ENTRY_STEP[copy(r).state],
                              claimed |-> copy(r).state,
                              cols |-> copy(r).cols, aborted |-> FALSE]
                        ELSE task[t][r]]]
          /\ abort_controllers' = [r \in Rows |->
                IF r \in rows THEN t ELSE abort_controllers[r]]
          /\ pipeline_dispatched' = pipeline_dispatched \cup rows
          /\ am_dispatched' = am_dispatched
                \cup {c.row : c \in {d \in claimed : d.state \in AM_ACTIVE_STATES}}
    /\ UNCHANGED <<rowVars, phase, staff, worldVars, boundVars>>

\* tick() returns when every stage it dispatched has settled.
tick_return(t) ==
    /\ tick[t].pc = "run"
    /\ \A r \in Rows : task[t][r].pc = "idle"
    /\ tick' = [tick EXCEPT ![t] = IdleTick]
    /\ UNCHANGED <<rowVars, phase, task, procVars, staff, worldVars, boundVars>>

\* A claim query fails: the tick gives up without dispatching.
tick_claim_failed(t) ==
    /\ Claiming(t)
    /\ faults < MaxFaults
    /\ faults' = faults + 1
    /\ tick' = [tick EXCEPT ![t] = IdleTick]
    /\ UNCHANGED <<rowVars, phase, task, procVars, staff, worldVars, ops, resets>>

-----------------------------------------------------------------------------
(* Stage steps.  (t, r) is the dispatch of row r by tick t.  update_queue      *)
(* writes `where id`, whatever state the row is in by then.                    *)

SetTask(t, r, d) == task' = [task EXCEPT ![t] = [task[t] EXCEPT ![r] = d]]
At(t, r, step)   == task[t][r].pc = step
Goto(t, r, step) == SetTask(t, r, [task[t][r] EXCEPT !.pc = step])
Has(t, r, col)   == col \in task[t][r].cols
Aborted(t, r)    == task[t][r].aborted

update_queue(r, st, filled) ==
    /\ state' = [state EXCEPT ![r] = st]
    /\ cols' = [cols EXCEPT ![r] = @ \cup filled]
    /\ UNCHANGED <<is_complete, cancel_from>>

\* The stage remembers what it filled in and goes on at another step.
Advance(t, r, filled, step) ==
    SetTask(t, r, [task[t][r] EXCEPT !.pc = step,
                                     !.cols = task[t][r].cols \cup filled])

\* halt(): write the failure state and return.
halt(t, r, st) == update_queue(r, st, {}) /\ Goto(t, r, "settle")

\* A stage's last write, or its return without one after an abort.
Finish_mutant(t, r, st, filled) ==   \* the columns are not stored
    update_queue(r, st, {}) /\ Goto(t, r, "settle")
Finish(t, r, st, filled) == update_queue(r, st, filled) /\ Goto(t, r, "settle")
LeaveForResume(t, r) ==
    /\ Aborted(t, r)
    /\ Goto(t, r, "settle")
    /\ UNCHANGED rowVars

StageFrame == UNCHANGED <<phase, tick, procVars, staff, boundVars>>

(* Stage 1: process_metadata.  It never looks at the abort signal. *)

mark_processing(t, r) ==
    /\ At(t, r, "mark_processing")
    /\ update_queue(r, "PROCESSING_METADATA", {})
    /\ Goto(t, r, "fetch")
    /\ StageFrame /\ UNCHANGED worldVars

\* A failed fetch falls back on the snapshot of an earlier run, if any.
fetch_and_validate(t, r) ==
    /\ At(t, r, "fetch")
    /\ \/ ~Has(t, r, "metadata") /\ halt(t, r, "INGEST_HALTED")
       \/ halt(t, r, "AS_METADATA_INVALID")
       \/ Finish(t, r, "QA_COMPLETE", {"metadata"})
    /\ StageFrame /\ UNCHANGED worldVars

(* Stage 2: upload *)

file_count(t, r) ==
    /\ At(t, r, "file_count")
    /\ \/ halt(t, r, "INGEST_HALTED")
       \/ update_queue(r, "UPLOADING", {}) /\ Goto(t, r, "move")
    /\ StageFrame /\ UNCHANGED worldVars

\* move_to_ingest, then move_to_sftp; either call may fail.
move_package(t, r) ==
    /\ At(t, r, "move")
    /\ LET moved == [folder EXCEPT ![r] = IF @ = "ready" THEN "ingest" ELSE @]
       IN \/ /\ folder' = moved
             /\ Goto(t, r, "upload_status") /\ UNCHANGED rowVars
          \/ folder' \in {folder, moved} /\ halt(t, r, "INGEST_HALTED")
    /\ StageFrame /\ UNCHANGED <<transfers, aip, objects>>

\* poll(): its last probe may answer after the abort; only the loop's own
\* check returns `aborted`.
upload_status(t, r) ==
    /\ At(t, r, "upload_status")
    /\ \/ LeaveForResume(t, r)
       \/ halt(t, r, "UPLOAD_TIMEOUT")
       \/ halt(t, r, "INGEST_HALTED")
       \/ Finish(t, r, "UPLOAD_COMPLETE", {})
    /\ StageFrame /\ UNCHANGED worldVars

(* Stage 3: transfer *)

\* A failed start_transfer may still have reached Archivematica.
start_transfer(t, r) ==
    /\ At(t, r, "start_transfer")
    /\ LET started == [transfers EXCEPT ![r] = @ + 1]
       IN \/ /\ transfers' = started
             /\ Advance(t, r, {"transfer_folder"}, "mark_started")
             /\ UNCHANGED rowVars
          \/ transfers' \in {transfers, started} /\ halt(t, r, "INGEST_HALTED")
    /\ StageFrame /\ UNCHANGED <<folder, aip, objects>>

mark_started(t, r) ==
    /\ At(t, r, "mark_started")
    /\ update_queue(r, "TRANSFER_STARTED", {"transfer_folder"})
    /\ Goto(t, r, "approve")
    /\ StageFrame /\ UNCHANGED worldVars

approve_transfer(t, r) ==
    /\ At(t, r, "approve")
    /\ IF ~Has(t, r, "transfer_folder") THEN halt(t, r, "INGEST_HALTED")
       ELSE \/ LeaveForResume(t, r)
            \/ halt(t, r, "APPROVE_TIMEOUT")
            \/ /\ update_queue(r, "TRANSFER_APPROVED", {})
               /\ Goto(t, r, "mark_in_progress")
    /\ StageFrame /\ UNCHANGED worldVars

mark_in_progress(t, r) ==
    /\ At(t, r, "mark_in_progress")
    /\ update_queue(r, "TRANSFER_IN_PROGRESS", {})
    /\ Goto(t, r, "transfer_status")
    /\ StageFrame /\ UNCHANGED worldVars

\* Neither the start call nor the unapproved list need have told the transfer
\* uuid, and storing it is best effort: without it the stage halts, as without
\* the transfer folder.
transfer_status(t, r) ==
    /\ At(t, r, "transfer_status")
    /\ \/ halt(t, r, "INGEST_HALTED")
       \/ /\ Has(t, r, "transfer_folder")
          /\ \/ LeaveForResume(t, r)
             \/ halt(t, r, "TRANSFER_STATUS_TIMEOUT")
             \/ halt(t, r, "FAILED")
             \/ Finish(t, r, "TRANSFER_COMPLETE", {"sip_uuid"})
    /\ StageFrame /\ UNCHANGED worldVars

(* Stage 4: ingest *)

\* A row without a sip_uuid halts; otherwise a fresh one is marked, and a
\* resumed one goes on at the substep its state names.
INGEST_SUBSTEP_mutant ==   \* a fresh row is not polled
                  [TRANSFER_COMPLETE |-> "drift",
                   INGEST_IN_PROGRESS |-> "ingest_status",
                   INGEST_COMPLETE |-> "drift", WAITING_FOR_DURACLOUD |-> "dip"]
INGEST_SUBSTEP == [TRANSFER_COMPLETE |-> "ingest_status",
                   INGEST_IN_PROGRESS |-> "ingest_status",
                   INGEST_COMPLETE |-> "drift", WAITING_FOR_DURACLOUD |-> "dip"]

ingest_entry(t, r) ==
    /\ At(t, r, "ingest_entry")
    /\ LET claimed == task[t][r].claimed
       IN IF ~Has(t, r, "sip_uuid") THEN halt(t, r, "INGEST_HALTED")
          ELSE /\ IF claimed = "TRANSFER_COMPLETE"
                  THEN update_queue(r, "INGEST_IN_PROGRESS", {})
                  ELSE UNCHANGED rowVars
               /\ Goto(t, r, INGEST_SUBSTEP[claimed])
    /\ StageFrame /\ UNCHANGED worldVars

ingest_status(t, r) ==
    /\ At(t, r, "ingest_status")
    /\ \/ /\ \/ LeaveForResume(t, r)
             \/ halt(t, r, "INGEST_STATUS_TIMEOUT")
             \/ halt(t, r, "FAILED")
          /\ UNCHANGED aip
       \/ /\ aip' = [aip EXCEPT ![r] = TRUE]
          /\ update_queue(r, "INGEST_COMPLETE", {})
          /\ Goto(t, r, "drift")
    /\ StageFrame /\ UNCHANGED <<folder, transfers, objects>>

check_for_drift(t, r) ==
    /\ At(t, r, "drift")
    /\ \/ halt(t, r, "AS_METADATA_DRIFT")
       \/ Goto(t, r, "dip") /\ UNCHANGED rowVars
    /\ StageFrame /\ UNCHANGED worldVars

\* Enter the access-copy wait.  Without the DIP copy the dip_path is looked
\* up first, once; a row resumed at the wait is not written again.
wait_for_dip(t, r) ==
    /\ At(t, r, "dip")
    /\ \/ /\ ~DipCopy /\ ~Has(t, r, "dip_path")
          /\ \/ halt(t, r, "INGEST_HALTED")
             \/ /\ update_queue(r, "WAITING_FOR_DURACLOUD", {"dip_path"})
                /\ Advance(t, r, {"dip_path"}, "mets")
       \/ /\ DipCopy \/ Has(t, r, "dip_path")
          /\ IF task[t][r].claimed = "WAITING_FOR_DURACLOUD"
             THEN UNCHANGED rowVars
             ELSE update_queue(r, "WAITING_FOR_DURACLOUD", {})
          /\ Goto(t, r, "mets")
    /\ StageFrame /\ UNCHANGED worldVars

\* Without the DIP copy: probe the METS in DuraCloud until it is there.
poll_mets(t, r) ==
    \/ LeaveForResume(t, r)
    \/ halt(t, r, "DURACLOUD_TIMEOUT")
    \/ Finish(t, r, "METADATA_PROCESSED", {})

\* Not configured, a DIP that will not come, a refused or failed copy, the
\* budget over: the same halt, with the dip_path once it is known.
halt_dip_wait(t, r) ==
    /\ \E dip \in SUBSET {"dip_path"} : update_queue(r, "DURACLOUD_TIMEOUT", dip)
    /\ Goto(t, r, "settle")

\* With it: find the DIP, wait until it is stored, have curation copy it.
wait_and_copy_dip(t, r) ==
    \/ LeaveForResume(t, r)
    \/ halt_dip_wait(t, r)
    \/ Finish(t, r, "METADATA_PROCESSED", {"dip_path"})

wait_for_mets(t, r) ==
    /\ At(t, r, "mets")
    /\ \/ DipCopy /\ wait_and_copy_dip(t, r)
       \/ ~DipCopy /\ poll_mets(t, r)
    /\ StageFrame /\ UNCHANGED worldVars

(* Stage 5: repository *)

mets_halt_state == IF DipCopy THEN "DURACLOUD_TIMEOUT" ELSE "INGEST_HALTED"

\* Mutant: a row resumed mid-build is taken to have its object.
creating_record_mutant(t, r) ==
    /\ At(t, r, "creating")
    /\ IF task[t][r].claimed = "CREATING_REPOSITORY_RECORD"
       THEN UNCHANGED rowVars /\ Goto(t, r, "archive")
       ELSE update_queue(r, "CREATING_REPOSITORY_RECORD", {}) /\ Goto(t, r, "build")
    /\ StageFrame /\ UNCHANGED worldVars

\* Missing inputs halt; a row not resumed mid-build is marked.
creating_record(t, r) ==
    /\ At(t, r, "creating")
    /\ IF ~Has(t, r, "sip_uuid") \/ ~Has(t, r, "metadata")
       THEN halt(t, r, "INGEST_HALTED")
       ELSE IF ~Has(t, r, "dip_path") THEN halt(t, r, mets_halt_state)
       ELSE /\ IF task[t][r].claimed = "CREATING_REPOSITORY_RECORD"
               THEN UNCHANGED rowVars
               ELSE update_queue(r, "CREATING_REPOSITORY_RECORD", {})
            /\ Goto(t, r, "build")
    /\ StageFrame /\ UNCHANGED worldVars

\* Mutant: an insert that failed is only logged.

\* Fetch and parse the METS, mint the handle (best effort), build and insert
\* the tbl_objects row.  An abort is honoured only by a failed METS fetch.
build_record(t, r) ==
    /\ At(t, r, "build")
    /\ \/ /\ \/ LeaveForResume(t, r)
             \/ halt(t, r, mets_halt_state)
             \/ halt(t, r, "INGEST_HALTED")
          /\ UNCHANGED objects
       \/ /\ objects' = [objects EXCEPT ![r] = @ + 1]
          /\ Goto(t, r, "archive")
          /\ UNCHANGED rowVars
    /\ StageFrame /\ UNCHANGED <<folder, transfers, aip>>

\* Curation archives 002-ingest/<collection uuid>, every package left in it;
\* best effort, so it may not happen.
move_to_ingested ==
    folder' \in {folder,
                [q \in Rows |-> IF folder[q] = "ingest" THEN "archived" ELSE folder[q]]}

\* convert enqueue and cleanup_sftp touch no row; then the archive copy.
archive_package(t, r) ==
    /\ At(t, r, "archive")
    /\ move_to_ingested
    /\ Goto(t, r, "complete")
    /\ StageFrame /\ UNCHANGED <<rowVars, transfers, aip, objects>>

complete_record(t, r) ==
    /\ At(t, r, "complete")
    /\ state' = [state EXCEPT ![r] = "COMPLETE"]
    /\ is_complete' = [is_complete EXCEPT ![r] = FALSE]
    /\ Goto(t, r, "hold")
    /\ StageFrame /\ UNCHANGED <<cols, cancel_from, worldVars>>

\* complete_hold_ms, then the hand-off to stage 6 or the final flip.
complete_hold(t, r) ==
    /\ At(t, r, "hold")
    /\ \/ LeaveForResume(t, r)
       \/ ~Aborted(t, r) /\ AipEnabled /\ Finish(t, r, "AIP_STORE_PENDING", {})
       \/ /\ ~Aborted(t, r) /\ ~AipEnabled
          /\ is_complete' = [is_complete EXCEPT ![r] = TRUE]
          /\ Goto(t, r, "settle")
          /\ UNCHANGED <<state, cols, cancel_from>>
    /\ StageFrame /\ UNCHANGED worldVars

(* dispatch_one around the stage *)

\* The stage threw: dispatch_one writes INGEST_HALTED, if the database lets it.
stage_threw(t, r) ==
    /\ task[t][r].pc \notin {"idle", "settle"}
    /\ faults < MaxFaults
    /\ faults' = faults + 1
    /\ \/ halt(t, r, "INGEST_HALTED")
       \/ Goto(t, r, "settle") /\ UNCHANGED rowVars
    /\ UNCHANGED <<phase, tick, procVars, staff, worldVars, ops, resets>>

\* Mutant: the finally block forgets the serial gate's set.
settle_mutant(t, r) ==
    /\ At(t, r, "settle")
    /\ SetTask(t, r, IdleTask)
    /\ abort_controllers' = [abort_controllers EXCEPT ![r] = 0]
    /\ am_dispatched' = am_dispatched \ {r}
    /\ UNCHANGED <<rowVars, phase, tick, pipeline_dispatched, staff, worldVars,
                   boundVars>>

\* dispatch_one's finally block.
settle(t, r) ==
    /\ At(t, r, "settle")
    /\ SetTask(t, r, IdleTask)
    /\ abort_controllers' = [abort_controllers EXCEPT ![r] = 0]
    /\ pipeline_dispatched' = pipeline_dispatched \ {r}
    /\ am_dispatched' = IF task[t][r].claimed \in AM_ACTIVE_STATES
                        THEN am_dispatched \ {r} ELSE am_dispatched
    /\ UNCHANGED <<rowVars, phase, tick, staff, worldVars, boundVars>>

-----------------------------------------------------------------------------
(* The life of the process *)

\* Fire the abort signal of the rows in rs that have a controller.
Abort(rs) ==
    task' = [t \in Ticks |-> [r \in Rows |->
               IF r \in rs /\ abort_controllers[r] = t /\ task[t][r].pc # "idle"
               THEN [task[t][r] EXCEPT !.aborted = TRUE] ELSE task[t][r]]]

\* stop(): no new ticks, every registered signal aborted.
stop ==
    /\ phase = "up"
    /\ faults < MaxFaults
    /\ faults' = faults + 1
    /\ phase' = "stopping"
    /\ Abort(Rows)
    /\ UNCHANGED <<rowVars, tick, procVars, staff, worldVars, ops, resets>>

\* The process ends, with everything it kept in memory: after stop() has
\* drained or timed out, or in a crash.
Die ==
    /\ phase' = "down"
    /\ tick' = [t \in Ticks |-> IdleTick]
    /\ task' = [t \in Ticks |-> [r \in Rows |-> IdleTask]]
    /\ abort_controllers' = [r \in Rows |-> 0]
    /\ pipeline_dispatched' = {} /\ am_dispatched' = {}
    /\ staff' = [p \in Staff |-> IdleStaff]
    /\ UNCHANGED <<rowVars, worldVars, ops, resets>>

crash == phase = "up" /\ faults < MaxFaults /\ faults' = faults + 1 /\ Die
exit  == phase = "stopping" /\ UNCHANGED faults /\ Die

swept_mutant(r) == IF state[r] \in ACTIVELY_RUNNING_STATES   \* the legacy state
                   THEN "STARTING" ELSE state[r]

\* model.reset_orphaned on one row.
swept(r) == IF ~is_complete[r] /\ state[r] \in ACTIVELY_RUNNING_STATES
            THEN "PENDING" ELSE state[r]

\* start(): reset_orphaned, then finalize_pending_completes, then the timer.
start ==
    /\ phase = "down"
    /\ phase' = "up"
    /\ state' = [r \in Rows |-> swept(r)]
    /\ is_complete' = [r \in Rows |-> is_complete[r] \/ state[r] = "COMPLETE"]
    /\ UNCHANGED <<cols, cancel_from, tick, task, procVars, staff, worldVars,
                   boundVars>>

-----------------------------------------------------------------------------
(* Staff requests.  Each reads the row (or the batch), checks the action       *)
(* against what it read, and writes by id later.                               *)

OpenRows(sts) == {r \in Rows : Open(r) /\ state[r] \in sts}

\* Only a rollback uses the state it read again.
Item(op, r) == [row |-> r, state |-> IF op = "rollback" THEN state[r] ELSE "ABSENT"]

\* A request has read its rows and goes on with the ones it may act on.
Begin(p, op, step, rows) ==
    /\ phase # "down"
    /\ ops < MaxOps
    /\ staff[p].pc = "idle"
    /\ rows # {}
    /\ ops' = ops + 1
    /\ staff' = [staff EXCEPT ![p] = [IdleStaff EXCEPT
                    !.pc = step, !.op = op, !.todo = {Item(op, r) : r \in rows}]]
    /\ UNCHANGED <<rowVars, phase, tick, task, procVars, worldVars, faults, resets>>

Offers(r, action) == action \in available_actions(state[r])

cancel_row(p, r) ==
    state[r] \in CANCELLABLE_STATES /\ Begin(p, "cancel", "abort", {r})

cancel_batch(p) ==
    Begin(p, "cancel", "abort", OpenRows(CANCELLABLE_STATES))

rollback_pre_ingest(p, r) ==
    Offers(r, "rollback_pre_ingest") /\ Begin(p, "rollback", "move", {r})

return_to_packaging(p, r) ==
    Offers(r, "rollback_to_packaging") /\ Begin(p, "rollback", "move", {r})

\* The anchor row must offer a rollback; every open row that does is taken.
rollback_batch_pre(p, anchor) ==
    /\ \/ Offers(anchor, "rollback_pre_ingest")
       \/ Offers(anchor, "rollback_to_packaging")
    /\ Begin(p, "rollback", "move",
             {r \in Rows : Open(r) /\ \/ Offers(r, "rollback_pre_ingest")
                                      \/ Offers(r, "rollback_to_packaging")})

rollback_archivematica(p, r) ==
    /\ Offers(r, "rollback_archivematica")
    /\ "sip_uuid" \in cols[r]
    /\ Begin(p, "rollback_am", "write", {r})

reset_row(p, r) == Offers(r, "reset") /\ Begin(p, "reset", "write", {r})

retry_access_copy(p, r) ==
    Offers(r, "retry_access_copy") /\ Begin(p, "retry", "write", {r})

\* The endpoint runs the boot sweep while the worker is live.
reset_orphaned(p) ==
    Begin(p, "orphans", "write", OpenRows(ACTIVELY_RUNNING_STATES))

\* Go on with the request's next row, or answer it.
Proceed(p, item, step) ==
    LET rest == staff[p].todo \ {item}
    IN  staff' = [staff EXCEPT ![p] =
            IF rest = {} THEN IdleStaff
            ELSE [staff[p] EXCEPT !.pc = step, !.todo = rest, !.cur = 0,
                                  !.seen = "none"]]

\* What a cancelled row was doing, as Return to Packaging tells it apart.
prior(st) == CASE st \in PRE_UPLOAD_PRIOR_STATES         -> "pre_upload"
               [] st \in POST_UPLOAD_PRE_AM_PRIOR_STATES -> "post_upload"
               [] st \in AM_PRIOR_STATES                 -> "am"
               [] OTHER                                  -> "none"

\* Cancel, first half: the worker's abort hook.
cancel_abort(p) ==
    /\ staff[p].op = "cancel" /\ staff[p].pc = "abort"
    /\ \E i \in staff[p].todo :
         /\ \A j \in staff[p].todo : j.row <= i.row
         /\ Abort({i.row})
         /\ staff' = [staff EXCEPT ![p] =
                        [staff[p] EXCEPT !.pc = "reread", !.cur = i.row]]
    /\ UNCHANGED <<rowVars, phase, tick, procVars, worldVars, boundVars>>

\* model.cancel reads the row again: a terminal row is left alone.
cancel_reread(p) ==
    /\ staff[p].op = "cancel" /\ staff[p].pc = "reread"
    /\ \E i \in staff[p].todo :
         /\ i.row = staff[p].cur
         /\ IF state[i.row] \in TERMINAL_FOR_CANCEL
            THEN Proceed(p, i, "abort")
            ELSE staff' = [staff EXCEPT ![p] =
                    [staff[p] EXCEPT !.pc = "write", !.seen = prior(state[i.row])]]
    /\ UNCHANGED <<rowVars, phase, tick, task, procVars, worldVars, boundVars>>

\* The event keeps the state the reread saw, not the one overwritten; there is
\* none when the row is cancelled already.
cancel_write(p) ==
    /\ staff[p].op = "cancel" /\ staff[p].pc = "write"
    /\ \E i \in staff[p].todo :
         /\ i.row = staff[p].cur
         /\ state' = [state EXCEPT ![i.row] = "CANCELLED_BY_USER"]
         /\ cancel_from' = [cancel_from EXCEPT ![i.row] =
                IF state[i.row] = "CANCELLED_BY_USER" THEN @ ELSE staff[p].seen]
         /\ Proceed(p, i, "abort")
    /\ UNCHANGED <<is_complete, cols, phase, tick, task, procVars, worldVars,
                   boundVars>>

\* Does the rollback of this row move its folder back to 001-ready?
needs_qa_move(item) ==
    item.state = "CANCELLED_BY_USER" =>
        cancel_from[item.row] \in {"post_upload", "am"}

\* qa.move_from_ingest_to_ready, best effort.
rollback_move(p) ==
    /\ staff[p].op = "rollback" /\ staff[p].pc = "move"
    /\ \E i \in staff[p].todo :
         /\ \A j \in staff[p].todo : j.row <= i.row
         /\ folder' \in {folder} \cup
                IF needs_qa_move(i) /\ folder[i.row] = "ingest"
                THEN {[folder EXCEPT ![i.row] = "ready"]} ELSE {}
         /\ staff' = [staff EXCEPT ![p] =
                        [staff[p] EXCEPT !.pc = "write", !.cur = i.row]]
    /\ UNCHANGED <<rowVars, phase, tick, task, procVars, transfers, aip, objects,
                   boundVars>>

rollback_write(p) ==
    /\ staff[p].op = "rollback" /\ staff[p].pc = "write"
    /\ \E i \in staff[p].todo :
         /\ i.row = staff[p].cur
         /\ state' = [state EXCEPT ![i.row] =
                        IF i.state \in STATES_AT_PRE_AM_FAILURE
                        THEN "ROLLED_BACK_TO_READY" ELSE "RETURNED_TO_PACKAGING"]
         /\ is_complete' = [is_complete EXCEPT ![i.row] = TRUE]
         /\ Proceed(p, i, "move")
    /\ UNCHANGED <<cols, cancel_from, phase, tick, task, procVars, worldVars,
                   boundVars>>

\* Mutant: Retry sends the row back to the start of the pipeline.
StaffTarget_mutant == [rollback_am |-> "AM_DELETION_REQUESTED", reset |-> "PENDING",
                       retry |-> "PENDING", orphans |-> "PENDING"]

\* The one write of the other actions.
StaffTarget == [rollback_am |-> "AM_DELETION_REQUESTED", reset |-> "PENDING",
                retry |-> "WAITING_FOR_DURACLOUD", orphans |-> "PENDING"]

\* A reset or a retry that another session has overtaken.
Late(p, r) == \/ staff[p].op = "reset" /\ ~Offers(r, "reset")
              \/ staff[p].op = "retry" /\ ~Offers(r, "retry_access_copy")

staff_write(p) ==
    /\ staff[p].op \in DOMAIN StaffTarget /\ staff[p].pc = "write"
    /\ \E i \in staff[p].todo :
         /\ \A j \in staff[p].todo : j.row <= i.row
         /\ state' = [state EXCEPT ![i.row] = StaffTarget[staff[p].op]]
         /\ is_complete' = [is_complete EXCEPT ![i.row] =
                              @ \/ staff[p].op = "rollback_am"]
         /\ resets' = IF staff[p].op = "orphans" \/ Late(p, i.row) THEN resets + 1 ELSE resets
         /\ Proceed(p, i, "write")
    /\ UNCHANGED <<cols, cancel_from, phase, tick, task, procVars, worldVars,
                   faults, ops>>

-----------------------------------------------------------------------------
(* The specification *)

Tick(t) == \/ tick_count(t) \/ tick_snapshot(t) \/ tick_list(t)
           \/ tick_admit(t) \/ tick_dispatch(t) \/ tick_return(t)

Stage(t, r) ==
    \/ mark_processing(t, r) \/ fetch_and_validate(t, r)
    \/ file_count(t, r) \/ move_package(t, r) \/ upload_status(t, r)
    \/ start_transfer(t, r) \/ mark_started(t, r) \/ approve_transfer(t, r)
    \/ mark_in_progress(t, r) \/ transfer_status(t, r)
    \/ ingest_entry(t, r) \/ ingest_status(t, r) \/ check_for_drift(t, r)
    \/ wait_for_dip(t, r) \/ wait_for_mets(t, r)
    \/ creating_record(t, r) \/ build_record(t, r) \/ archive_package(t, r)
    \/ complete_record(t, r) \/ complete_hold(t, r)
    \/ settle(t, r)

Request(p) ==
    \/ cancel_batch(p) \/ reset_orphaned(p)
    \/ \E r \in Rows :
         \/ cancel_row(p, r) \/ rollback_pre_ingest(p, r)
         \/ return_to_packaging(p, r) \/ rollback_batch_pre(p, r)
         \/ rollback_archivematica(p, r) \/ reset_row(p, r)
         \/ retry_access_copy(p, r)

Handle(p) ==
    \/ cancel_abort(p) \/ cancel_reread(p) \/ cancel_write(p)
    \/ rollback_move(p) \/ rollback_write(p) \/ staff_write(p)

Next ==
    \/ queue_packages
    \/ \E t \in Ticks : Tick(t) \/ tick_claim_failed(t)
    \/ \E t \in Ticks, r \in Rows : Stage(t, r) \/ stage_threw(t, r)
    \/ \E p \in Staff : Request(p) \/ Handle(p)
    \/ stop \/ crash \/ exit \/ start

\* The timer keeps ticking while the process is up, every poll has a budget,
\* every call a timeout, a stopping process exits and the service manager
\* starts it again.  Nothing makes staff act.
Fairness ==
    /\ WF_vars(\E t \in Ticks : Tick(t))
    /\ \A t \in Ticks, r \in Rows : WF_vars(Stage(t, r))
    /\ WF_vars(exit) /\ WF_vars(start)

Spec     == Init /\ [][Next]_vars
FairSpec == Spec /\ Fairness

-----------------------------------------------------------------------------
(* Properties *)

Busy(t, r) == task[t][r].pc # "idle"

\* Serial mode runs one stage-1-5 dispatch at a time, whatever the ticks read
\* before their awaits and whatever staff and crashes do in between
\* (worker.js, the serial gate).
OneDispatch ==
    \A t, u \in Ticks : \A q, r \in Rows :
        Busy(t, q) /\ Busy(u, r) => t = u /\ q = r

\* The same row is never dispatched twice at once: two ticks never run one
\* stage against each other (worker.js, the abort_controllers check).
NoDoubleDispatch ==
    \A r \in Rows, t, u \in Ticks : Busy(t, r) /\ Busy(u, r) => t = u

\* Archivematica's window: at most one open row is between start_transfer and
\* the end of AM's ingest, across cancels that a running stage overwrites,
\* restarts and retried rows (worker.js, "admits at most ONE row").
OneInArchivematica ==
    \A q, r \in Rows :
        /\ Open(q) /\ state[q] \in AM_INSIDE_STATES
        /\ Open(r) /\ state[r] \in AM_INSIDE_STATES
        => q = r

\* What a stage needs to find in the row when it is claimed in a given state.
Needed(st) ==
    (IF st \in AM_INSIDE_STATES \cup AM_PRIOR_STATES
              \cup {"QA_COMPLETE", "UPLOAD_COMPLETE"}
     THEN {"metadata"} ELSE {})
    \cup (IF st \in {"TRANSFER_STARTED", "TRANSFER_IN_PROGRESS"}
          THEN {"transfer_folder"} ELSE {})
    \cup (IF st \in AM_PRIOR_STATES \cup {"TRANSFER_COMPLETE"}
          THEN {"sip_uuid"} ELSE {})
    \cup (IF st \in {"METADATA_PROCESSED", "CREATING_REPOSITORY_RECORD"}
          THEN {"dip_path"} ELSE {})

\* Every row, and every copy a claim holds, has the columns the stage of its
\* state reads: the missing_sip_uuid, missing_dip_path, missing_am_identifiers
\* and missing_metadata_snapshot halts cannot fire, on any resume path.
StageInputs ==
    /\ \A r \in Rows : Needed(state[r]) \subseteq cols[r]
    /\ \A t \in Ticks : \A c \in tick[t].claimed : Needed(c.state) \subseteq c.cols

\* A row that reports the ingest complete has its repository object
\* (stages/repository.js: COMPLETE follows the insert).
CompleteHasObject ==
    \A r \in Rows :
        state[r] \in {"COMPLETE", "AIP_STORE_PENDING"} => objects[r] > 0

\* A repository object is only ever built for a package whose ingest
\* Archivematica has finished, whatever was cancelled, retried or restarted.
ObjectHasAip == \A r \in Rows : objects[r] > 0 => aip[r]

\* Work is repeated only after a fault, a staff orphan reset, or a reset or
\* retry written on a row that no longer offered it: without these a package
\* is handed to Archivematica once and gets one object, however staff cancel
\* and retry it (retry_access_copy and reset_row, ingester/controller.js,
\* check the row and write it by id).
RepeatsNeedFaults ==
    \A r \in Rows : /\ transfers[r] <= 1 + faults + resets
                    /\ objects[r] <= 1 + faults + resets

\* The batch drains: from some time on no open row waits for the worker,
\* whatever halted, was cancelled or was restarted on the way.
BatchDrains ==
    <>[](\A r \in Rows : ~(Open(r) /\ state[r] \in PIPELINE_STATES))
=============================================================================
