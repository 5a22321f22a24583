----------------------- MODULE IngestPipeline_proofs ------------------------
(***************************************************************************)
(* Proofs about IngestPipeline, for any number of rows, ticks and staff    *)
(* sessions and any setting of the worker's switches: types and the        *)
(* dispatch discipline; for the serial worker, Archivematica's window of   *)
(* one package and the bound on repeated work; and the evidence that the   *)
(* state of a row rests on.                                                *)
(***************************************************************************)
EXTENDS IngestPipeline, FiniteSetTheorems, WellFoundedInduction, TLAPS

-----------------------------------------------------------------------------
(* Type correctness *)

Stage4States == {"TRANSFER_COMPLETE", "INGEST_IN_PROGRESS", "INGEST_COMPLETE",
                 "WAITING_FOR_DURACLOUD"}

\* Stage 4 is only ever entered for a row claimed in one of its states, which
\* is what its table of substeps is defined on.
IngestClaim ==
    \A t \in Ticks, r \in Rows :
        task[t][r].pc = "ingest_entry" => task[t][r].claimed \in Stage4States

RowTypes  == /\ state \in [Rows -> PipelineRowStates]
             /\ is_complete \in [Rows -> BOOLEAN]
             /\ cols \in [Rows -> SUBSET Columns]
             /\ cancel_from \in [Rows -> PriorClasses]
TaskTypes == task \in [Ticks -> [Rows -> TaskRecords]] /\ IngestClaim
\* An answer is only filtered for a state the loop has.
TickTypes == /\ tick \in [Ticks -> TickRecords]
             /\ \A t \in Ticks : tick[t].pc = "admit" => tick[t].pos < 14
ProcTypes == /\ abort_controllers \in [Rows -> Ticks \cup {0}]
             /\ pipeline_dispatched \subseteq Rows
             /\ am_dispatched \subseteq Rows
WorldTypes == /\ folder \in [Rows -> {"ready", "ingest", "archived"}]
              /\ transfers \in [Rows -> Nat]
              /\ aip \in [Rows -> BOOLEAN]
              /\ objects \in [Rows -> Nat]
BoundTypes == faults \in Nat /\ ops \in Nat /\ resets \in Nat

TypeInv == /\ RowTypes /\ TaskTypes /\ ProcTypes /\ WorldTypes /\ BoundTypes
           /\ phase \in {"up", "stopping", "down"}
           /\ TickTypes
           /\ staff \in [Staff -> StaffRecords]

\* A row write keeps the row types.
LEMMA UpdateTypes ==
    ASSUME RowTypes, NEW r \in Rows, NEW st \in PipelineRowStates,
           NEW filled \in SUBSET Columns, update_queue(r, st, filled)
    PROVE  RowTypes'
BY DEF RowTypes, update_queue

\* Writing one entry of the task table changes that entry alone.
LEMMA SetTaskEntry ==
    ASSUME task \in [Ticks -> [Rows -> TaskRecords]],
           NEW t \in Ticks, NEW r \in Rows, NEW d \in TaskRecords,
           SetTask(t, r, d)
    PROVE  /\ task' \in [Ticks -> [Rows -> TaskRecords]]
           /\ task'[t][r] = d
           /\ \A u \in Ticks, q \in Rows :
                ~(u = t /\ q = r) => task'[u][q] = task[u][q]
BY DEF SetTask

LEMMA SetTaskTypes ==
    ASSUME TaskTypes, NEW t \in Ticks, NEW r \in Rows, NEW d \in TaskRecords,
           d.pc = "ingest_entry" => d.claimed \in Stage4States,
           SetTask(t, r, d)
    PROVE  TaskTypes'
<1>1. /\ task' \in [Ticks -> [Rows -> TaskRecords]]
      /\ task'[t][r] = d
      /\ \A u \in Ticks, q \in Rows :
            ~(u = t /\ q = r) => task'[u][q] = task[u][q]
  BY SetTaskEntry DEF TaskTypes
<1> QED BY <1>1 DEF TaskTypes, IngestClaim

\* A stage that goes on at a step other than the entry of stage 4 keeps the
\* task types.
LEMMA GotoTypes ==
    ASSUME TaskTypes, NEW t \in Ticks, NEW r \in Rows,
           NEW step \in Steps, step # "ingest_entry", Goto(t, r, step)
    PROVE  TaskTypes'
<1> DEFINE d == [task[t][r] EXCEPT !.pc = step]
<1>1. task[t][r] \in TaskRecords BY DEF TaskTypes
<1>2. d \in TaskRecords /\ d.pc = step BY <1>1 DEF TaskRecords
<1>3. SetTask(t, r, d) BY DEF Goto
<1> HIDE DEF d
<1> QED BY <1>2, <1>3, SetTaskTypes

LEMMA AdvanceTypes ==
    ASSUME TaskTypes, NEW t \in Ticks, NEW r \in Rows, NEW filled \in SUBSET Columns,
           NEW step \in Steps, step # "ingest_entry", Advance(t, r, filled, step)
    PROVE  TaskTypes'
<1> DEFINE d == [task[t][r] EXCEPT !.pc = step, !.cols = task[t][r].cols \cup filled]
<1>1. task[t][r] \in TaskRecords BY DEF TaskTypes
<1>2. d \in TaskRecords /\ d.pc = step BY <1>1 DEF TaskRecords
<1>3. SetTask(t, r, d) BY DEF Advance
<1> HIDE DEF d
<1> QED BY <1>2, <1>3, SetTaskTypes

\* The states and steps the stages write.
LEMMA StageStates ==
    /\ {"PROCESSING_METADATA", "QA_COMPLETE", "AS_METADATA_INVALID", "UPLOADING",
        "UPLOAD_TIMEOUT", "UPLOAD_COMPLETE", "TRANSFER_STARTED",
        "TRANSFER_APPROVED", "TRANSFER_IN_PROGRESS", "TRANSFER_COMPLETE",
        "APPROVE_TIMEOUT", "TRANSFER_STATUS_TIMEOUT", "INGEST_STATUS_TIMEOUT",
        "FAILED", "INGEST_IN_PROGRESS", "INGEST_COMPLETE", "AS_METADATA_DRIFT",
        "WAITING_FOR_DURACLOUD", "DURACLOUD_TIMEOUT", "METADATA_PROCESSED",
        "CREATING_REPOSITORY_RECORD", "COMPLETE", "AIP_STORE_PENDING",
        "INGEST_HALTED"} \subseteq PipelineRowStates
    /\ {"idle", "mark_processing", "fetch", "file_count", "move", "upload_status",
        "start_transfer", "mark_started", "approve", "mark_in_progress",
        "transfer_status", "ingest_status", "drift", "dip", "mets",
        "creating", "build", "archive", "complete", "hold", "settle"}
            \subseteq Steps
    /\ {"metadata", "transfer_folder", "sip_uuid", "dip_path"} \subseteq Columns
    /\ mets_halt_state \in PipelineRowStates
BY DEF PipelineRowStates, PIPELINE_STATES, TERMINAL_FOR_CANCEL,
       STATES_AT_PRE_AM_FAILURE, STATES_AT_AM_FAILURE,
       STATES_PRE_FOLDER_MOVE_FAILURE, Steps, Columns, mets_halt_state

LEMMA HaltTypes ==
    ASSUME RowTypes, TaskTypes, NEW t \in Ticks, NEW r \in Rows,
           NEW st \in PipelineRowStates, halt(t, r, st)
    PROVE  RowTypes' /\ TaskTypes'
BY UpdateTypes, GotoTypes, StageStates DEF halt

LEMMA DipHaltTypes ==
    ASSUME RowTypes, TaskTypes, NEW t \in Ticks, NEW r \in Rows,
           halt_dip_wait(t, r)
    PROVE  RowTypes' /\ TaskTypes'
<1>1. PICK dip \in SUBSET {"dip_path"} : update_queue(r, "DURACLOUD_TIMEOUT", dip)
  BY DEF halt_dip_wait
<1>2. dip \in SUBSET Columns BY DEF Columns
<1> QED BY <1>1, <1>2, UpdateTypes, GotoTypes, StageStates DEF halt_dip_wait

LEMMA FinishTypes ==
    ASSUME RowTypes, TaskTypes, NEW t \in Ticks, NEW r \in Rows,
           NEW st \in PipelineRowStates, NEW filled \in SUBSET Columns,
           Finish(t, r, st, filled)
    PROVE  RowTypes' /\ TaskTypes'
BY UpdateTypes, GotoTypes, StageStates DEF Finish

LEMMA LeaveTypes ==
    ASSUME RowTypes, TaskTypes, NEW t \in Ticks, NEW r \in Rows,
           LeaveForResume(t, r)
    PROVE  RowTypes' /\ TaskTypes'
BY GotoTypes, StageStates DEF LeaveForResume, RowTypes, rowVars

LEMMA FrameTypes ==
    ASSUME TypeInv, StageFrame, RowTypes', TaskTypes', WorldTypes'
    PROVE  TypeInv'
BY DEF TypeInv, StageFrame, procVars, boundVars, TickTypes, ProcTypes, BoundTypes

\* Every stage step keeps the types.
LEMMA StageTypes ==
    ASSUME TypeInv, NEW t \in Ticks, NEW r \in Rows, Stage(t, r)
    PROVE  TypeInv'
<1> USE StageStates, UpdateTypes, GotoTypes, AdvanceTypes, HaltTypes, FinishTypes,
        LeaveTypes
<1>0. RowTypes /\ TaskTypes /\ WorldTypes BY DEF TypeInv
<1>1. CASE mark_processing(t, r)
  <2>1. RowTypes' /\ TaskTypes' BY <1>0, <1>1 DEF mark_processing, rowVars, RowTypes
  <2>2. WorldTypes' BY <1>0, <1>1 DEF mark_processing, WorldTypes, worldVars
  <2> QED BY <1>1, <2>1, <2>2, FrameTypes DEF mark_processing
<1>2. CASE fetch_and_validate(t, r)
  <2>1. RowTypes' /\ TaskTypes' BY <1>0, <1>2 DEF fetch_and_validate, rowVars, RowTypes
  <2>2. WorldTypes' BY <1>0, <1>2 DEF fetch_and_validate, WorldTypes, worldVars
  <2> QED BY <1>2, <2>1, <2>2, FrameTypes DEF fetch_and_validate
<1>3. CASE file_count(t, r)
  <2>1. RowTypes' /\ TaskTypes' BY <1>0, <1>3 DEF file_count, rowVars, RowTypes
  <2>2. WorldTypes' BY <1>0, <1>3 DEF file_count, WorldTypes, worldVars
  <2> QED BY <1>3, <2>1, <2>2, FrameTypes DEF file_count
<1>4. CASE move_package(t, r)
  <2>1. RowTypes' /\ TaskTypes' BY <1>0, <1>4 DEF move_package, rowVars, RowTypes
  <2>2. WorldTypes' BY <1>0, <1>4 DEF move_package, WorldTypes, worldVars
  <2> QED BY <1>4, <2>1, <2>2, FrameTypes DEF move_package
<1>5. CASE upload_status(t, r)
  <2>1. RowTypes' /\ TaskTypes' BY <1>0, <1>5 DEF upload_status, rowVars, RowTypes
  <2>2. WorldTypes' BY <1>0, <1>5 DEF upload_status, WorldTypes, worldVars
  <2> QED BY <1>5, <2>1, <2>2, FrameTypes DEF upload_status
<1>6. CASE start_transfer(t, r)
  <2>1. RowTypes' /\ TaskTypes' BY <1>0, <1>6 DEF start_transfer, rowVars, RowTypes
  <2>2. WorldTypes' BY <1>0, <1>6 DEF start_transfer, WorldTypes, worldVars
  <2> QED BY <1>6, <2>1, <2>2, FrameTypes DEF start_transfer
<1>7. CASE mark_started(t, r)
  <2>1. RowTypes' /\ TaskTypes' BY <1>0, <1>7 DEF mark_started, rowVars, RowTypes
  <2>2. WorldTypes' BY <1>0, <1>7 DEF mark_started, WorldTypes, worldVars
  <2> QED BY <1>7, <2>1, <2>2, FrameTypes DEF mark_started
<1>8. CASE approve_transfer(t, r)
  <2>1. RowTypes' /\ TaskTypes' BY <1>0, <1>8 DEF approve_transfer, rowVars, RowTypes
  <2>2. WorldTypes' BY <1>0, <1>8 DEF approve_transfer, WorldTypes, worldVars
  <2> QED BY <1>8, <2>1, <2>2, FrameTypes DEF approve_transfer
<1>9. CASE mark_in_progress(t, r)
  <2>1. RowTypes' /\ TaskTypes' BY <1>0, <1>9 DEF mark_in_progress, rowVars, RowTypes
  <2>2. WorldTypes' BY <1>0, <1>9 DEF mark_in_progress, WorldTypes, worldVars
  <2> QED BY <1>9, <2>1, <2>2, FrameTypes DEF mark_in_progress
<1>10. CASE transfer_status(t, r)
  <2>1. RowTypes' /\ TaskTypes' BY <1>0, <1>10 DEF transfer_status, rowVars, RowTypes
  <2>2. WorldTypes' BY <1>0, <1>10 DEF transfer_status, WorldTypes, worldVars
  <2> QED BY <1>10, <2>1, <2>2, FrameTypes DEF transfer_status
<1>11. CASE ingest_entry(t, r)
  <2>0. At(t, r, "ingest_entry") BY <1>11 DEF ingest_entry
  <2>a. task[t][r].claimed \in Stage4States
    BY <1>0, <2>0 DEF TaskTypes, IngestClaim, At
  <2>b. /\ INGEST_SUBSTEP[task[t][r].claimed] \in Steps
        /\ INGEST_SUBSTEP[task[t][r].claimed] # "ingest_entry"
    BY <2>a DEF Stage4States, INGEST_SUBSTEP
  <2>c. ASSUME \/ update_queue(r, "INGEST_IN_PROGRESS", {})
               \/ UNCHANGED rowVars,
               Goto(t, r, INGEST_SUBSTEP[task[t][r].claimed])
        PROVE  RowTypes' /\ TaskTypes'
    <3>1. TaskTypes' BY <1>0, <2>b, <2>c
    <3>2. RowTypes' BY <1>0, <2>c DEF rowVars, RowTypes
    <3> QED BY <3>1, <3>2
  <2>1. RowTypes' /\ TaskTypes' BY <1>0, <1>11, <2>c DEF ingest_entry
  <2>2. WorldTypes' BY <1>0, <1>11 DEF ingest_entry, WorldTypes, worldVars
  <2> QED BY <1>11, <2>1, <2>2, FrameTypes DEF ingest_entry
<1>12. CASE ingest_status(t, r)
  <2>1. RowTypes' /\ TaskTypes' BY <1>0, <1>12 DEF ingest_status, rowVars, RowTypes
  <2>2. WorldTypes' BY <1>0, <1>12 DEF ingest_status, WorldTypes, worldVars
  <2> QED BY <1>12, <2>1, <2>2, FrameTypes DEF ingest_status
<1>13. CASE check_for_drift(t, r)
  <2>1. RowTypes' /\ TaskTypes' BY <1>0, <1>13 DEF check_for_drift, rowVars, RowTypes
  <2>2. WorldTypes' BY <1>0, <1>13 DEF check_for_drift, WorldTypes, worldVars
  <2> QED BY <1>13, <2>1, <2>2, FrameTypes DEF check_for_drift
<1>14. CASE wait_for_dip(t, r)
  <2>1. RowTypes' /\ TaskTypes' BY <1>0, <1>14 DEF wait_for_dip, rowVars, RowTypes
  <2>2. WorldTypes' BY <1>0, <1>14 DEF wait_for_dip, WorldTypes, worldVars
  <2> QED BY <1>14, <2>1, <2>2, FrameTypes DEF wait_for_dip
<1>15. CASE wait_for_mets(t, r)
  <2>1. RowTypes' /\ TaskTypes'
    <3>1. CASE LeaveForResume(t, r) BY <1>0, <3>1, LeaveTypes
    <3>2. CASE halt(t, r, "DURACLOUD_TIMEOUT") BY <1>0, <3>2, HaltTypes, StageStates
    <3>3. CASE halt_dip_wait(t, r) BY <1>0, <3>3, DipHaltTypes
    <3>4. ASSUME NEW filled \in SUBSET Columns,
                 Finish(t, r, "METADATA_PROCESSED", filled)
          PROVE  RowTypes' /\ TaskTypes'
      BY <1>0, <3>4, FinishTypes, StageStates
    <3>5. {} \in SUBSET Columns /\ {"dip_path"} \in SUBSET Columns BY DEF Columns
    <3> QED
      BY <1>15, <3>1, <3>2, <3>3, <3>4, <3>5
      DEF wait_for_mets, poll_mets, wait_and_copy_dip
  <2>2. WorldTypes' BY <1>0, <1>15 DEF wait_for_mets, WorldTypes, worldVars
  <2> QED BY <1>15, <2>1, <2>2, FrameTypes DEF wait_for_mets
<1>16. CASE creating_record(t, r)
  <2>1. RowTypes' /\ TaskTypes' BY <1>0, <1>16 DEF creating_record, rowVars, RowTypes
  <2>2. WorldTypes' BY <1>0, <1>16 DEF creating_record, WorldTypes, worldVars
  <2> QED BY <1>16, <2>1, <2>2, FrameTypes DEF creating_record
<1>17. CASE build_record(t, r)
  <2>1. RowTypes' /\ TaskTypes' BY <1>0, <1>17 DEF build_record, rowVars, RowTypes
  <2>2. WorldTypes' BY <1>0, <1>17 DEF build_record, WorldTypes, worldVars
  <2> QED BY <1>17, <2>1, <2>2, FrameTypes DEF build_record
<1>18. CASE archive_package(t, r)
  <2>1. RowTypes' /\ TaskTypes' BY <1>0, <1>18 DEF archive_package, rowVars, RowTypes
  <2>2. WorldTypes' BY <1>0, <1>18 DEF archive_package, move_to_ingested,
         WorldTypes, worldVars
  <2> QED BY <1>18, <2>1, <2>2, FrameTypes DEF archive_package
<1>19. CASE complete_record(t, r)
  <2>1. RowTypes' /\ TaskTypes' BY <1>0, <1>19 DEF complete_record, rowVars, RowTypes
  <2>2. WorldTypes' BY <1>0, <1>19 DEF complete_record, WorldTypes, worldVars
  <2> QED BY <1>19, <2>1, <2>2, FrameTypes DEF complete_record
<1>20. CASE complete_hold(t, r)
  <2>a. ASSUME is_complete' = [is_complete EXCEPT ![r] = TRUE],
               Goto(t, r, "settle"), UNCHANGED <<state, cols, cancel_from>>
        PROVE  RowTypes' /\ TaskTypes'
    <3>1. TaskTypes' BY <1>0, <2>a
    <3>2. RowTypes' BY <1>0, <2>a DEF RowTypes
    <3> QED BY <3>1, <3>2
  <2>1. RowTypes' /\ TaskTypes' BY <1>0, <1>20, <2>a DEF complete_hold
  <2>2. WorldTypes' BY <1>0, <1>20 DEF complete_hold, WorldTypes, worldVars
  <2> QED BY <1>20, <2>1, <2>2, FrameTypes DEF complete_hold
<1>21. CASE settle(t, r)
  <2>1. IdleTask \in TaskRecords /\ IdleTask.pc = "idle"
    BY StageStates DEF IdleTask, TaskRecords
  <2>2. TaskTypes' BY <1>0, <1>21, <2>1, SetTaskTypes DEF settle
  <2>3. ProcTypes' BY <1>21 DEF settle, TypeInv, ProcTypes
  <2> QED BY <1>21, <2>2, <2>3 DEF settle, TypeInv, RowTypes, TickTypes, WorldTypes,
         BoundTypes, rowVars, worldVars, boundVars
<1> QED BY <1>1, <1>2, <1>3, <1>4, <1>5, <1>6, <1>7, <1>8, <1>9, <1>10, <1>11, <1>12, <1>13, <1>14, <1>15, <1>16, <1>17, <1>18, <1>19, <1>20, <1>21 DEF Stage

\* The claim loop has thirteen turns, each over a pipeline state.
LEMMA ClaimOrder ==
    /\ Len(claim_order) = 13
    /\ \A i \in 1..13 : claim_order[i] \in PIPELINE_STATES
<1>1. CASE serial
  <2>1. claim_order = SERIAL_PIPELINE_ORDER BY <1>1 DEF claim_order
  <2> QED BY <2>1 DEF SERIAL_PIPELINE_ORDER, PIPELINE_STATES
<1>2. CASE ~serial
  <2>1. claim_order = ready_states BY <1>2 DEF claim_order
  <2> QED BY <2>1 DEF ready_states, PIPELINE_STATES
<1> QED BY <1>1, <1>2

\* Every step of a claim phase keeps the types.
LEMMA TickTypesKept ==
    ASSUME TypeInv, NEW t \in Ticks, Tick(t) \/ tick_claim_failed(t)
    PROVE  TypeInv'
<1>0. /\ tick \in [Ticks -> TickRecords] /\ tick[t] \in TickRecords
      /\ tick[t].pc = "admit" => tick[t].pos < 14
  BY DEF TypeInv, TickTypes
<1>i. IdleTick \in TickRecords /\ IdleTick.pc = "idle"
  BY DEF TickRecords, IdleTick
<1>1. ASSUME NEW x \in TickRecords, x.pc = "admit" => x.pos < 14,
             tick' = [tick EXCEPT ![t] = x],
             UNCHANGED <<rowVars, phase, task, procVars, staff, worldVars>>,
             UNCHANGED boundVars \/ tick_claim_failed(t)
      PROVE  TypeInv'
  <2>1. BoundTypes'
    BY <1>1 DEF TypeInv, BoundTypes, boundVars, tick_claim_failed
  <2>2. RowTypes' /\ TaskTypes' /\ ProcTypes' /\ WorldTypes'
    BY <1>1 DEF TypeInv, RowTypes, TaskTypes, IngestClaim, ProcTypes,
       WorldTypes, rowVars, procVars, worldVars
  <2>3. TickTypes' BY <1>0, <1>1 DEF TypeInv, TickTypes
  <2> QED BY <1>1, <2>1, <2>2, <2>3 DEF TypeInv
<1>2. CASE tick_count(t)
  <2>1. PICK b \in BOOLEAN : tick' = [tick EXCEPT ![t] =
            [IdleTick EXCEPT !.pc = "snap", !.resting = b]]
    BY <1>2 DEF tick_count
  <2>2. /\ [IdleTick EXCEPT !.pc = "snap", !.resting = b] \in TickRecords
        /\ [IdleTick EXCEPT !.pc = "snap", !.resting = b].pc = "snap"
    BY <1>i DEF TickRecords
  <2> QED BY <1>1, <1>2, <2>1, <2>2 DEF tick_count
<1>3. CASE tick_snapshot(t)
  <2>1. InFlight \in BOOLEAN BY DEF InFlight
  <2>2. /\ [tick[t] EXCEPT !.pc = "list", !.inflight = InFlight] \in TickRecords
        /\ [tick[t] EXCEPT !.pc = "list", !.inflight = InFlight].pc = "list"
    BY <1>0, <2>1 DEF TickRecords
  <2> QED BY <1>i, <1>1, <1>3, <2>2 DEF tick_snapshot
<1>4. CASE tick_list(t)
  <2>2. tick[t].pos \in 1..13
    <3>1. tick[t].pos \in 1..14 BY <1>0 DEF TickRecords
    <3>2. ~(tick[t].pos > Len(claim_order)) BY <1>4 DEF tick_list, LoopOver
    <3> QED BY <3>1, <3>2, ClaimOrder
  <2>3. /\ [tick[t] EXCEPT !.pos = tick[t].pos + 1] \in TickRecords
        /\ [tick[t] EXCEPT !.pos = tick[t].pos + 1].pc = "list"
    <3>1. tick[t].pos + 1 \in 1..14 BY <2>2
    <3>2. tick[t].pc = "list" BY <1>4 DEF tick_list
    <3> QED BY <1>0, <3>1, <3>2 DEF TickRecords
  <2>4. ASSUME NEW rows \in SUBSET Rows,
               \A r \in rows : state[r] = claim_order[tick[t].pos]
        PROVE  /\ [tick[t] EXCEPT !.pc = "admit", !.batch = {CopyOf(r) : r \in rows}]
                      \in TickRecords
               /\ [tick[t] EXCEPT !.pc = "admit",
                                  !.batch = {CopyOf(r) : r \in rows}].pos < 14
    <3>1. claim_order[tick[t].pos] \in PIPELINE_STATES BY <2>2, ClaimOrder
    <3>2. \A r \in rows : cols[r] \in SUBSET Columns BY DEF TypeInv, RowTypes
    <3>3. \A r \in rows : CopyOf(r) \in Copies
      BY <2>4, <3>1, <3>2 DEF CopyOf, Copies
    <3> DEFINE batch == {CopyOf(r) : r \in rows}
    <3>4. batch \in SUBSET Copies BY <3>3
    <3> HIDE DEF batch
    <3>5. [tick[t] EXCEPT !.pc = "admit", !.batch = batch] \in TickRecords
      BY <1>0, <3>4 DEF TickRecords
    <3>6. [tick[t] EXCEPT !.pc = "admit", !.batch = batch].pos = tick[t].pos
      BY <1>0 DEF TickRecords
    <3>7. tick[t].pos < 14 BY <2>2
    <3> QED BY <3>5, <3>6, <3>7 DEF batch
  <2> DEFINE st == claim_order[tick[t].pos]
             rows == IF Admits(t, st)
                     THEN list_queue(st, Concurrency - Cardinality(tick[t].claimed))
                     ELSE {}
  <2>5. rows \in SUBSET Rows /\ \A r \in rows : state[r] = claim_order[tick[t].pos]
    BY DEF list_queue
  <2>6. \/ tick' = [tick EXCEPT ![t] = [tick[t] EXCEPT !.pos = tick[t].pos + 1]]
        \/ tick' = [tick EXCEPT ![t] =
                [tick[t] EXCEPT !.pc = "admit", !.batch = {CopyOf(r) : r \in rows}]]
    BY <1>4 DEF tick_list
  <2>7. UNCHANGED <<rowVars, phase, task, procVars, staff, worldVars, boundVars>>
    BY <1>4 DEF tick_list
  <2> HIDE DEF rows, st
  <2>8. CASE tick' = [tick EXCEPT ![t] = [tick[t] EXCEPT !.pos = tick[t].pos + 1]]
    BY <1>1, <2>3, <2>7, <2>8
  <2>9. CASE tick' = [tick EXCEPT ![t] =
                [tick[t] EXCEPT !.pc = "admit", !.batch = {CopyOf(r) : r \in rows}]]
    BY <1>1, <2>4, <2>5, <2>7, <2>9
  <2> QED BY <2>6, <2>8, <2>9
<1>5. CASE tick_admit(t)
  <2> DEFINE admitted == IF OneAdmit(claim_order[tick[t].pos])
                         THEN Newest(Fresh(t)) ELSE Fresh(t)
             x == [tick[t] EXCEPT !.pc = "list", !.pos = tick[t].pos + 1,
                                  !.batch = {},
                                  !.claimed = tick[t].claimed \cup admitted]
  <2>1. tick' = [tick EXCEPT ![t] = x] BY <1>5 DEF tick_admit
  <2>2. tick[t].pos + 1 \in 1..14 BY <1>0, <1>5 DEF tick_admit, TickRecords
  <2>3. tick[t].batch \subseteq Copies /\ tick[t].claimed \subseteq Copies
    BY <1>0 DEF TickRecords
  <2>4. admitted \subseteq Copies BY <2>3 DEF Newest, Fresh
  <2> HIDE DEF admitted
  <2>5. x \in TickRecords /\ x.pc = "list" BY <1>0, <2>2, <2>3, <2>4 DEF TickRecords
  <2> HIDE DEF x
  <2> QED BY <1>1, <1>5, <2>1, <2>5 DEF tick_admit
<1>6. CASE tick_dispatch(t)
  <2> DEFINE claimed == tick[t].claimed
             rows == {c.row : c \in claimed}
             copy(r) == CHOOSE c \in claimed : c.row = r
             started(r) == [pc |-> ENTRY_STEP[copy(r).state],
                            claimed |-> copy(r).state,
                            cols |-> copy(r).cols, aborted |-> FALSE]
  <2>1. claimed \subseteq Copies BY <1>0 DEF TickRecords
  <2>2. \A r \in rows : copy(r) \in Copies /\ copy(r).row = r BY <2>1
  <2>3. rows \subseteq Rows BY <2>1 DEF Copies
  <2>4. ASSUME NEW st \in PIPELINE_STATES
        PROVE  /\ ENTRY_STEP[st] \in Steps
               /\ ENTRY_STEP[st] = "ingest_entry" => st \in Stage4States
    BY DEF ENTRY_STEP, Steps, PIPELINE_STATES, Stage4States
  <2>5. \A r \in rows :
            /\ started(r) \in TaskRecords
            /\ started(r).pc = "ingest_entry" => started(r).claimed \in Stage4States
    <3> SUFFICES ASSUME NEW r \in rows
                 PROVE  /\ started(r) \in TaskRecords
                        /\ started(r).pc = "ingest_entry"
                               => started(r).claimed \in Stage4States
      OBVIOUS
    <3>1. copy(r).state \in PIPELINE_STATES /\ copy(r).cols \in SUBSET Columns
      BY <2>2 DEF Copies
    <3> HIDE DEF copy
    <3> QED BY <2>4, <3>1 DEF TaskRecords
  <2>6. task' = [task EXCEPT ![t] = [r \in Rows |->
                    IF r \in rows THEN started(r) ELSE task[t][r]]]
    BY <1>6 DEF tick_dispatch
  <2>7. /\ abort_controllers' = [r \in Rows |->
                IF r \in rows THEN t ELSE abort_controllers[r]]
        /\ pipeline_dispatched' = pipeline_dispatched \cup rows
        /\ am_dispatched' = am_dispatched
                \cup {c.row : c \in {d \in claimed : d.state \in AM_ACTIVE_STATES}}
    BY <1>6 DEF tick_dispatch
  <2>8. /\ tick' = [tick EXCEPT ![t] = IF claimed = {} THEN IdleTick
                                      ELSE [IdleTick EXCEPT !.pc = "run"]]
        /\ UNCHANGED <<rowVars, phase, staff, worldVars, boundVars>>
    BY <1>6 DEF tick_dispatch
  <2>9. TickTypes'
    <3>1. /\ [IdleTick EXCEPT !.pc = "run"] \in TickRecords
          /\ [IdleTick EXCEPT !.pc = "run"].pc = "run"
      BY <1>i DEF TickRecords
    <3> QED BY <1>0, <1>i, <2>8, <3>1 DEF TypeInv, TickTypes
  <2>10. ProcTypes'
    <3>1. {c.row : c \in {d \in claimed : d.state \in AM_ACTIVE_STATES}} \subseteq rows
      OBVIOUS
    <3> QED BY <2>3, <2>7, <3>1 DEF TypeInv, ProcTypes
  <2> HIDE DEF started, rows, claimed
  <2>11. TaskTypes'
    <3>1. task \in [Ticks -> [Rows -> TaskRecords]] /\ IngestClaim
      BY DEF TypeInv, TaskTypes
    <3>2. task' \in [Ticks -> [Rows -> TaskRecords]] BY <2>5, <2>6, <3>1
    <3>3. \A u \in Ticks, q \in Rows :
            task'[u][q] = IF u = t /\ q \in rows THEN started(q) ELSE task[u][q]
      BY <2>6, <3>1
    <3> QED BY <2>5, <3>1, <3>2, <3>3 DEF TaskTypes, IngestClaim
  <2> QED BY <2>8, <2>9, <2>10, <2>11 DEF TypeInv, RowTypes, WorldTypes,
          BoundTypes, rowVars, worldVars, boundVars
<1>7. CASE tick_return(t)
  BY <1>0, <1>i, <1>1, <1>7 DEF tick_return
<1>8. CASE tick_claim_failed(t)
  BY <1>0, <1>i, <1>1, <1>8 DEF tick_claim_failed
<1> QED BY <1>2, <1>3, <1>4, <1>5, <1>6, <1>7, <1>8 DEF Tick

LEMMA ThrewTypes ==
    ASSUME TypeInv, NEW t \in Ticks, NEW r \in Rows, stage_threw(t, r)
    PROVE  TypeInv'
<1>1. RowTypes /\ TaskTypes BY DEF TypeInv
<1>2. RowTypes' /\ TaskTypes'
  BY <1>1, StageStates, HaltTypes, GotoTypes DEF stage_threw, rowVars, RowTypes
<1>3. ProcTypes' /\ WorldTypes' /\ BoundTypes' /\ TickTypes'
  BY DEF stage_threw, TypeInv, ProcTypes, WorldTypes, BoundTypes, TickTypes,
     procVars, worldVars
<1> QED BY <1>2, <1>3 DEF stage_threw, TypeInv

\* An abort signal changes no step.
LEMMA AbortTypes ==
    ASSUME TaskTypes, NEW rs \in SUBSET Rows, Abort(rs)
    PROVE  /\ TaskTypes'
           /\ \A t \in Ticks, r \in Rows :
                /\ task'[t][r].pc = task[t][r].pc
                /\ task'[t][r].claimed = task[t][r].claimed
                /\ task'[t][r].cols = task[t][r].cols
<1> DEFINE d(t, r) ==
             IF r \in rs /\ abort_controllers[r] = t /\ task[t][r].pc # "idle"
             THEN [task[t][r] EXCEPT !.aborted = TRUE] ELSE task[t][r]
<1>1. task' = [t \in Ticks |-> [r \in Rows |-> d(t, r)]] BY DEF Abort
<1>2. \A t \in Ticks, r \in Rows : task[t][r] \in TaskRecords BY DEF TaskTypes
<1>3. \A t \in Ticks, r \in Rows :
        /\ d(t, r) \in TaskRecords
        /\ d(t, r).pc = task[t][r].pc
        /\ d(t, r).claimed = task[t][r].claimed
        /\ d(t, r).cols = task[t][r].cols
  <2> SUFFICES ASSUME NEW t \in Ticks, NEW r \in Rows
               PROVE  /\ d(t, r) \in TaskRecords
                      /\ d(t, r).pc = task[t][r].pc
                      /\ d(t, r).claimed = task[t][r].claimed
                      /\ d(t, r).cols = task[t][r].cols
    OBVIOUS
  <2>1. task[t][r] \in TaskRecords BY <1>2
  <2>2. CASE d(t, r) = task[t][r]
    <3> HIDE DEF d
    <3> QED BY <2>1, <2>2
  <2>3. CASE d(t, r) = [task[t][r] EXCEPT !.aborted = TRUE]
    <3> HIDE DEF d
    <3> QED BY <2>1, <2>3 DEF TaskRecords
  <2> QED BY <2>2, <2>3
<1> HIDE DEF d
<1>4. \A t \in Ticks, r \in Rows : task'[t][r] = d(t, r) BY <1>1
<1>5. task' \in [Ticks -> [Rows -> TaskRecords]] BY <1>1, <1>3
<1> QED BY <1>3, <1>4, <1>5 DEF TaskTypes, IngestClaim

\* A shutdown, a crash and a restart keep the types.
LEMMA ProcessTypes ==
    ASSUME TypeInv, stop \/ crash \/ exit \/ start
    PROVE  TypeInv'
<1>1. CASE stop
  <2>1. TaskTypes' BY <1>1, AbortTypes DEF stop, TypeInv
  <2> QED BY <1>1, <2>1 DEF stop, TypeInv, RowTypes, ProcTypes, WorldTypes,
         BoundTypes, TickTypes, rowVars, procVars, worldVars
<1>2. CASE crash \/ exit
  <2>1. Die BY <1>2 DEF crash, exit
  <2>2. faults' \in Nat BY <1>2 DEF crash, exit, TypeInv, BoundTypes
  <2>3. IdleTick \in TickRecords /\ IdleTick.pc = "idle"
    BY DEF IdleTick, TickRecords
  <2>4. IdleTask \in TaskRecords /\ IdleTask.pc = "idle"
    BY StageStates DEF IdleTask, TaskRecords
  <2>5. IdleStaff \in StaffRecords BY DEF IdleStaff, StaffRecords, PriorClasses
  <2>6. TickTypes' BY <2>1, <2>3 DEF Die, TickTypes
  <2>7. TaskTypes' BY <2>1, <2>4 DEF Die, TaskTypes, IngestClaim
  <2>8. staff' \in [Staff -> StaffRecords] BY <2>1, <2>5 DEF Die
  <2>9. RowTypes' /\ WorldTypes' /\ ProcTypes' /\ BoundTypes'
    BY <2>1, <2>2 DEF Die, TypeInv, RowTypes, WorldTypes, ProcTypes,
       BoundTypes, rowVars, worldVars
  <2> QED BY <2>1, <2>6, <2>7, <2>8, <2>9 DEF Die, TypeInv
<1>3. CASE start
  <2>1. \A r \in Rows : swept(r) \in PipelineRowStates
    BY DEF swept, TypeInv, RowTypes, PipelineRowStates, PIPELINE_STATES
  <2>2. RowTypes'
    BY <1>3, <2>1 DEF start, TypeInv, RowTypes
  <2> QED BY <1>3, <2>2 DEF start, TypeInv, TaskTypes, IngestClaim, ProcTypes,
         WorldTypes, BoundTypes, TickTypes, procVars, worldVars, boundVars
<1> QED BY <1>1, <1>2, <1>3

LEMMA QueueTypes ==
    ASSUME TypeInv, queue_packages
    PROVE  TypeInv'
<1>1. "PENDING" \in PipelineRowStates BY DEF PipelineRowStates, PIPELINE_STATES
<1>2. RowTypes' BY <1>1 DEF queue_packages, TypeInv, RowTypes
<1> QED BY <1>2 DEF queue_packages, TypeInv, TaskTypes, IngestClaim, ProcTypes,
       WorldTypes, BoundTypes, TickTypes, procVars, worldVars, boundVars

StaffItems == [row : Rows, state : PipelineRowStates]

\* A request that begins holds rows it read.
LEMMA BeginTypes ==
    ASSUME TypeInv, NEW p \in Staff,
           NEW op \in {"cancel", "rollback", "rollback_am", "reset", "retry", "orphans"},
           NEW step \in {"abort", "move", "write"},
           NEW rows \in SUBSET Rows, Begin(p, op, step, rows)
    PROVE  TypeInv'
<1>1. "ABSENT" \in PipelineRowStates BY DEF PipelineRowStates
<1>2. \A r \in Rows : Item(op, r) \in StaffItems
  BY <1>1 DEF Item, StaffItems, TypeInv, RowTypes
<1> DEFINE todo == {Item(op, r) : r \in rows}
<1>3. todo \in SUBSET StaffItems BY <1>2
<1>4. IdleStaff \in StaffRecords BY DEF IdleStaff, StaffRecords, PriorClasses
<1>5. staff' = [staff EXCEPT ![p] =
                  [IdleStaff EXCEPT !.pc = step, !.op = op, !.todo = todo]]
  BY DEF Begin
<1> HIDE DEF todo
<1>6. [IdleStaff EXCEPT !.pc = step, !.op = op, !.todo = todo] \in StaffRecords
  BY <1>3, <1>4 DEF StaffRecords, StaffItems
<1>7. staff' \in [Staff -> StaffRecords] BY <1>5, <1>6 DEF TypeInv
<1>8. BoundTypes' BY DEF Begin, TypeInv, BoundTypes
<1> QED BY <1>7, <1>8 DEF Begin, TypeInv, RowTypes, TaskTypes, IngestClaim,
       ProcTypes, WorldTypes, TickTypes, rowVars, procVars, worldVars

LEMMA RequestTypes ==
    ASSUME TypeInv, NEW p \in Staff, Request(p)
    PROVE  TypeInv'
<1>1. \A sts : OpenRows(sts) \in SUBSET Rows BY DEF OpenRows
<1>2. CASE cancel_batch(p) BY <1>1, <1>2, BeginTypes DEF cancel_batch
<1>3. CASE reset_orphaned(p) BY <1>1, <1>3, BeginTypes DEF reset_orphaned
<1>4. ASSUME NEW r \in Rows,
             \/ cancel_row(p, r) \/ rollback_pre_ingest(p, r)
             \/ return_to_packaging(p, r) \/ rollback_batch_pre(p, r)
             \/ rollback_archivematica(p, r) \/ reset_row(p, r)
             \/ retry_access_copy(p, r)
      PROVE  TypeInv'
  <2>1. {r} \in SUBSET Rows OBVIOUS
  <2>2. CASE cancel_row(p, r) BY <2>1, <2>2, BeginTypes DEF cancel_row
  <2>3. CASE rollback_pre_ingest(p, r)
    BY <2>1, <2>3, BeginTypes DEF rollback_pre_ingest
  <2>4. CASE return_to_packaging(p, r)
    BY <2>1, <2>4, BeginTypes DEF return_to_packaging
  <2>5. CASE rollback_batch_pre(p, r)
    BY <2>5, BeginTypes DEF rollback_batch_pre
  <2>6. CASE rollback_archivematica(p, r)
    BY <2>1, <2>6, BeginTypes DEF rollback_archivematica
  <2>7. CASE reset_row(p, r) BY <2>1, <2>7, BeginTypes DEF reset_row
  <2>8. CASE retry_access_copy(p, r)
    BY <2>1, <2>8, BeginTypes DEF retry_access_copy
  <2> QED BY <1>4, <2>2, <2>3, <2>4, <2>5, <2>6, <2>7, <2>8
<1> QED BY <1>2, <1>3, <1>4 DEF Request

LEMMA ProceedTypes ==
    ASSUME staff \in [Staff -> StaffRecords], NEW p \in Staff, NEW i,
           NEW step \in {"abort", "move", "write"}, Proceed(p, i, step)
    PROVE  staff' \in [Staff -> StaffRecords]
<1> DEFINE rest == staff[p].todo \ {i}
<1>1. staff[p] \in StaffRecords OBVIOUS
<1>2. rest \in SUBSET StaffItems BY <1>1 DEF StaffRecords, StaffItems
<1>3. IdleStaff \in StaffRecords BY DEF IdleStaff, StaffRecords, PriorClasses
<1>4. staff' = [staff EXCEPT ![p] =
            IF rest = {} THEN IdleStaff
            ELSE [staff[p] EXCEPT !.pc = step, !.todo = rest, !.cur = 0,
                                  !.seen = "none"]]
  BY DEF Proceed
<1> HIDE DEF rest
<1>5. [staff[p] EXCEPT !.pc = step, !.todo = rest, !.cur = 0, !.seen = "none"]
            \in StaffRecords
  BY <1>1, <1>2 DEF StaffRecords, StaffItems, PriorClasses
<1> QED BY <1>3, <1>4, <1>5

\* Every step of a request's handler keeps the types.
LEMMA HandleTypes ==
    ASSUME TypeInv, NEW p \in Staff, Handle(p)
    PROVE  TypeInv'
<1>0. /\ staff \in [Staff -> StaffRecords] /\ staff[p] \in StaffRecords
      /\ \A i \in staff[p].todo : i.row \in Rows
  BY DEF TypeInv, StaffRecords
<1>s. /\ {"CANCELLED_BY_USER", "ROLLED_BACK_TO_READY", "RETURNED_TO_PACKAGING",
           "AM_DELETION_REQUESTED", "PENDING", "WAITING_FOR_DURACLOUD"}
                \subseteq PipelineRowStates
      /\ \A st : prior(st) \in PriorClasses
  BY DEF PipelineRowStates, TERMINAL_FOR_CANCEL, PIPELINE_STATES, prior, PriorClasses
<1>1. CASE cancel_abort(p)
  <2>1. PICK i \in staff[p].todo :
            /\ Abort({i.row})
            /\ staff' = [staff EXCEPT ![p] =
                            [staff[p] EXCEPT !.pc = "reread", !.cur = i.row]]
    BY <1>1 DEF cancel_abort
  <2>2. TaskTypes' BY <1>0, <2>1, AbortTypes DEF TypeInv
  <2>3. [staff[p] EXCEPT !.pc = "reread", !.cur = i.row] \in StaffRecords
    BY <1>0 DEF StaffRecords
  <2>4. staff' \in [Staff -> StaffRecords] BY <1>0, <2>1, <2>3
  <2> QED BY <1>1, <2>2, <2>4 DEF cancel_abort, TypeInv, RowTypes, ProcTypes,
         WorldTypes, BoundTypes, TickTypes, rowVars, procVars, worldVars, boundVars
<1>2. CASE cancel_reread(p)
  <2>1. PICK i \in staff[p].todo :
            \/ Proceed(p, i, "abort")
            \/ staff' = [staff EXCEPT ![p] =
                  [staff[p] EXCEPT !.pc = "write", !.seen = prior(state[i.row])]]
    BY <1>2 DEF cancel_reread
  <2>2. [staff[p] EXCEPT !.pc = "write", !.seen = prior(state[i.row])] \in StaffRecords
    BY <1>0, <1>s DEF StaffRecords
  <2>3. staff' \in [Staff -> StaffRecords] BY <1>0, <2>1, <2>2, ProceedTypes
  <2> QED BY <1>2, <2>3 DEF cancel_reread, TypeInv, RowTypes, TaskTypes,
         IngestClaim, ProcTypes, WorldTypes, BoundTypes, TickTypes, rowVars,
         procVars, worldVars, boundVars
<1>3. CASE cancel_write(p)
  <2>1. PICK i \in staff[p].todo :
            /\ state' = [state EXCEPT ![i.row] = "CANCELLED_BY_USER"]
            /\ cancel_from' = [cancel_from EXCEPT ![i.row] =
                  IF state[i.row] = "CANCELLED_BY_USER" THEN @ ELSE staff[p].seen]
            /\ Proceed(p, i, "abort")
    BY <1>3 DEF cancel_write
  <2>2. staff[p].seen \in PriorClasses BY <1>0 DEF StaffRecords
  <2>3. RowTypes' BY <1>0, <1>s, <1>3, <2>1, <2>2 DEF cancel_write, TypeInv, RowTypes
  <2>4. staff' \in [Staff -> StaffRecords] BY <1>0, <2>1, ProceedTypes
  <2> QED BY <1>3, <2>3, <2>4 DEF cancel_write, TypeInv, TaskTypes, IngestClaim,
         ProcTypes, WorldTypes, BoundTypes, TickTypes, procVars, worldVars, boundVars
<1>4. CASE rollback_move(p)
  <2>1. PICK i \in staff[p].todo :
            /\ folder' \in {folder, [folder EXCEPT ![i.row] = "ready"]}
            /\ staff' = [staff EXCEPT ![p] =
                            [staff[p] EXCEPT !.pc = "write", !.cur = i.row]]
    BY <1>4 DEF rollback_move
  <2>2. [staff[p] EXCEPT !.pc = "write", !.cur = i.row] \in StaffRecords
    BY <1>0 DEF StaffRecords
  <2>3. staff' \in [Staff -> StaffRecords] BY <1>0, <2>1, <2>2
  <2>4. WorldTypes' BY <1>4, <2>1 DEF rollback_move, TypeInv, WorldTypes
  <2> QED BY <1>4, <2>3, <2>4 DEF rollback_move, TypeInv, RowTypes, TaskTypes,
         IngestClaim, ProcTypes, BoundTypes, TickTypes, rowVars, procVars, boundVars
<1>5. CASE rollback_write(p)
  <2>1. PICK i \in staff[p].todo :
            /\ \E st \in {"ROLLED_BACK_TO_READY", "RETURNED_TO_PACKAGING"} :
                    state' = [state EXCEPT ![i.row] = st]
            /\ is_complete' = [is_complete EXCEPT ![i.row] = TRUE]
            /\ Proceed(p, i, "move")
    BY <1>5 DEF rollback_write
  <2>2. RowTypes' BY <1>0, <1>s, <1>5, <2>1 DEF rollback_write, TypeInv, RowTypes
  <2>3. staff' \in [Staff -> StaffRecords] BY <1>0, <2>1, ProceedTypes
  <2> QED BY <1>5, <2>2, <2>3 DEF rollback_write, TypeInv, TaskTypes, IngestClaim,
         ProcTypes, WorldTypes, BoundTypes, TickTypes, procVars, worldVars, boundVars
<1>6. CASE staff_write(p)
  <2>1. PICK i \in staff[p].todo :
            /\ state' = [state EXCEPT ![i.row] = StaffTarget[staff[p].op]]
            /\ is_complete' = [is_complete EXCEPT ![i.row] =
                                  @ \/ staff[p].op = "rollback_am"]
            /\ Proceed(p, i, "write")
    BY <1>6 DEF staff_write
  <2>2. StaffTarget[staff[p].op] \in PipelineRowStates
    BY <1>6, <1>s DEF staff_write, StaffTarget
  <2>3. RowTypes' BY <1>0, <1>6, <2>1, <2>2 DEF staff_write, TypeInv, RowTypes
  <2>4. staff' \in [Staff -> StaffRecords] BY <1>0, <2>1, ProceedTypes
  <2>5. BoundTypes' BY <1>6 DEF staff_write, TypeInv, BoundTypes
  <2> QED BY <1>6, <2>3, <2>4, <2>5 DEF staff_write, TypeInv, TaskTypes,
         IngestClaim, ProcTypes, WorldTypes, TickTypes, procVars, worldVars
<1> QED BY <1>1, <1>2, <1>3, <1>4, <1>5, <1>6 DEF Handle

LEMMA InitTypes == Init => TypeInv
<1> SUFFICES ASSUME Init PROVE TypeInv OBVIOUS
<1>1. "ABSENT" \in PipelineRowStates /\ "none" \in PriorClasses
  BY DEF PipelineRowStates, PriorClasses
<1>2. IdleTick \in TickRecords /\ IdleTick.pc = "idle" BY DEF IdleTick, TickRecords
<1>3. IdleTask \in TaskRecords /\ IdleTask.pc = "idle"
  BY StageStates DEF IdleTask, TaskRecords
<1>4. IdleStaff \in StaffRecords BY DEF IdleStaff, StaffRecords, PriorClasses
<1>5. RowTypes /\ WorldTypes /\ ProcTypes /\ BoundTypes
  BY <1>1 DEF Init, RowTypes, WorldTypes, ProcTypes, BoundTypes
<1> QED BY <1>2, <1>3, <1>4, <1>5 DEF Init, TypeInv, TickTypes, TaskTypes, IngestClaim

LEMMA NextTypes == TypeInv /\ [Next]_vars => TypeInv'
<1> SUFFICES ASSUME TypeInv, [Next]_vars PROVE TypeInv' OBVIOUS
<1>1. CASE queue_packages BY <1>1, QueueTypes
<1>2. CASE \E t \in Ticks : Tick(t) \/ tick_claim_failed(t) BY <1>2, TickTypesKept
<1>3. CASE \E t \in Ticks, r \in Rows : Stage(t, r) \/ stage_threw(t, r)
  BY <1>3, StageTypes, ThrewTypes
<1>4. CASE \E p \in Staff : Request(p) \/ Handle(p) BY <1>4, RequestTypes, HandleTypes
<1>5. CASE stop \/ crash \/ exit \/ start BY <1>5, ProcessTypes
<1>6. CASE UNCHANGED vars
  BY <1>6 DEF vars, TypeInv, RowTypes, TaskTypes, IngestClaim, ProcTypes,
     WorldTypes, BoundTypes, TickTypes, rowVars, procVars, worldVars, boundVars
<1> QED BY <1>1, <1>2, <1>3, <1>4, <1>5, <1>6 DEF Next

THEOREM TypeInvariant == Spec => []TypeInv
BY InitTypes, NextTypes, PTL DEF Spec

\* Type correctness: whatever the worker, the stages, staff, crashes and
\* restarts do, every variable keeps to its type; in particular no row is ever
\* left in a state the vocabulary does not know (TypeOK).
THEOREM TypeCorrect == Spec => []TypeOK
<1>1. TypeInv => TypeOK
  BY DEF TypeInv, TypeOK, RowTypes, TaskTypes, ProcTypes, WorldTypes, BoundTypes,
     TickTypes
<1> QED BY <1>1, TypeInvariant, PTL

-----------------------------------------------------------------------------
(* The worker's dispatch discipline: as long as claim phases do not        *)
(* overlap, no row is ever dispatched twice at once, and in serial mode    *)
(* nothing at all is dispatched beside a dispatched row.                   *)


\* Every row of a claim in progress is still free, and every running stage is
\* the one its row's abort controller belongs to.
ClaimInv ==
    /\ \A t, u \in Ticks : Claiming(t) /\ Claiming(u) => t = u
    /\ \A t \in Ticks : tick[t].claimed # {} => Claiming(t)
    /\ \A t \in Ticks : \A c \in tick[t].claimed : abort_controllers[c.row] = 0
    /\ \A t \in Ticks, r \in Rows : Busy(t, r) => abort_controllers[r] = t

\* In serial mode a claim loop runs only while nothing is dispatched, and it
\* claims one row.
SerialInv ==
    /\ \A t \in Ticks : tick[t].pc \in {"list", "admit"} => pipeline_dispatched = {}
    /\ \A t \in Ticks, r \in Rows : Busy(t, r) => r \in pipeline_dispatched
    /\ \A t \in Ticks : tick[t].pc = "admit" => tick[t].claimed = {}
    /\ \A t \in Ticks : \A c, d \in tick[t].claimed : c.row = d.row
    /\ OneDispatch

\* A stage step changes the entry of its own dispatch alone, which is busy.
LEMMA StageLocal ==
    ASSUME TypeInv, NEW t \in Ticks, NEW r \in Rows,
           Stage(t, r) \/ stage_threw(t, r)
    PROVE  /\ Busy(t, r)
           /\ \A u \in Ticks, q \in Rows :
                ~(u = t /\ q = r) => task'[u][q] = task[u][q]
<1>0. task \in [Ticks -> [Rows -> TaskRecords]] /\ task[t][r] \in TaskRecords
  BY DEF TypeInv, TaskTypes
<1>1. ASSUME NEW d, SetTask(t, r, d)
      PROVE  \A u \in Ticks, q \in Rows :
                ~(u = t /\ q = r) => task'[u][q] = task[u][q]
  BY <1>0, <1>1 DEF SetTask
<1>2. \E d : SetTask(t, r, d)
  <2>1. CASE stage_threw(t, r) BY <2>1 DEF stage_threw, halt, Goto
  <2>2. CASE mark_processing(t, r) \/ fetch_and_validate(t, r) \/ file_count(t, r)
             \/ move_package(t, r) \/ upload_status(t, r)
    BY <2>2 DEF mark_processing, fetch_and_validate, file_count, move_package,
       upload_status, LeaveForResume, halt, Finish, Goto
  <2>3. CASE start_transfer(t, r) \/ mark_started(t, r) \/ approve_transfer(t, r)
             \/ mark_in_progress(t, r) \/ transfer_status(t, r)
    BY <2>3 DEF start_transfer, mark_started, approve_transfer, mark_in_progress,
       transfer_status, LeaveForResume, halt, Finish, Goto, Advance
  <2>4. CASE ingest_entry(t, r) \/ ingest_status(t, r) \/ check_for_drift(t, r)
             \/ wait_for_dip(t, r) \/ wait_for_mets(t, r)
    BY <2>4 DEF ingest_entry, ingest_status, check_for_drift, wait_for_dip,
       wait_for_mets, poll_mets, wait_and_copy_dip, halt_dip_wait, LeaveForResume, halt, Finish, Goto, Advance
  <2>5. CASE creating_record(t, r) \/ build_record(t, r) \/ archive_package(t, r)
             \/ complete_record(t, r) \/ complete_hold(t, r) \/ settle(t, r)
    BY <2>5 DEF creating_record, build_record, archive_package, complete_record,
       complete_hold, settle, LeaveForResume, halt, Finish, Goto
  <2> QED BY <2>1, <2>2, <2>3, <2>4, <2>5 DEF Stage
<1>3. Busy(t, r)
  BY DEF Stage, stage_threw, Busy, At, mark_processing, fetch_and_validate,
     file_count, move_package, upload_status, start_transfer, mark_started,
     approve_transfer, mark_in_progress, transfer_status, ingest_entry,
     ingest_status, check_for_drift, wait_for_dip, wait_for_mets,
     creating_record, build_record, archive_package, complete_record,
     complete_hold, settle
<1> QED BY <1>1, <1>2, <1>3

\* A stage step other than the last leaves the worker's books alone.
LEMMA StageBooks ==
    ASSUME NEW t \in Ticks, NEW r \in Rows, Stage(t, r) \/ stage_threw(t, r)
    PROVE  settle(t, r) \/ UNCHANGED <<tick, procVars>>
BY DEF Stage, stage_threw, StageFrame, mark_processing, fetch_and_validate,
   file_count, move_package, upload_status, start_transfer, mark_started,
   approve_transfer, mark_in_progress, transfer_status, ingest_entry,
   ingest_status, check_for_drift, wait_for_dip, wait_for_mets,
   creating_record, build_record, archive_package, complete_record,
   complete_hold

\* What a claim-phase step other than the dispatch does to its tick.
LEMMA TickStep ==
    ASSUME TypeInv, NEW t \in Ticks, Tick(t) \/ tick_claim_failed(t),
           ~tick_dispatch(t)
    PROVE  /\ UNCHANGED <<task, procVars>>
           /\ \A u \in Ticks \ {t} : tick'[u] = tick[u]
           /\ \/ tick'[t].pc \in {"idle"} /\ tick'[t].claimed = {}
              \/ tick_count(t) /\ tick'[t].pc = "snap" /\ tick'[t].claimed = {}
              \/ /\ tick[t].pc = "snap" /\ tick'[t].pc = "list"
                 /\ tick'[t].claimed = tick[t].claimed
                 /\ serial => ~InFlight
              \/ /\ tick[t].pc = "list" /\ tick'[t].pc \in {"list", "admit"}
                 /\ tick'[t].claimed = tick[t].claimed
                 /\ ~LoopOver(t)
              \/ tick_admit(t)
<1>0. tick \in [Ticks -> TickRecords] /\ tick[t] \in TickRecords
  BY DEF TypeInv, TickTypes
<1>i. IdleTick \in TickRecords /\ IdleTick.pc = "idle" /\ IdleTick.claimed = {}
  BY DEF IdleTick, TickRecords
<1>1. CASE tick_count(t)
  <2>1. PICK b \in BOOLEAN : tick' = [tick EXCEPT ![t] =
            [IdleTick EXCEPT !.pc = "snap", !.resting = b]]
    BY <1>1 DEF tick_count
  <2>2. /\ [IdleTick EXCEPT !.pc = "snap", !.resting = b].pc = "snap"
        /\ [IdleTick EXCEPT !.pc = "snap", !.resting = b].claimed = {}
    BY <1>i DEF TickRecords
  <2> QED BY <1>0, <1>1, <2>1, <2>2 DEF tick_count
<1>2. CASE tick_snapshot(t)
  <2>1. CASE tick' = [tick EXCEPT ![t] = IdleTick]
    BY <1>0, <1>i, <1>2, <2>1 DEF tick_snapshot
  <2>2. CASE /\ ~(serial /\ InFlight)
             /\ tick' = [tick EXCEPT ![t] =
                           [tick[t] EXCEPT !.pc = "list", !.inflight = InFlight]]
    <3>1. /\ [tick[t] EXCEPT !.pc = "list", !.inflight = InFlight].pc = "list"
          /\ [tick[t] EXCEPT !.pc = "list", !.inflight = InFlight].claimed
                = tick[t].claimed
      BY <1>0 DEF TickRecords
    <3>2. tick[t].pc = "snap" /\ UNCHANGED <<task, procVars>>
      BY <1>2 DEF tick_snapshot
    <3> QED BY <1>0, <2>2, <3>1, <3>2
  <2> QED BY <1>2, <2>1, <2>2 DEF tick_snapshot
<1>3. CASE tick_list(t)
  <2>1. \E x \in {[tick[t] EXCEPT !.pos = tick[t].pos + 1]}
              \cup {[tick[t] EXCEPT !.pc = "admit", !.batch = b] :
                       b \in SUBSET {CopyOf(r) : r \in Rows}} :
            tick' = [tick EXCEPT ![t] = x]
    BY <1>3 DEF tick_list, list_queue
  <2>2. PICK x \in {[tick[t] EXCEPT !.pos = tick[t].pos + 1]}
              \cup {[tick[t] EXCEPT !.pc = "admit", !.batch = b] :
                       b \in SUBSET {CopyOf(r) : r \in Rows}} :
            tick' = [tick EXCEPT ![t] = x]
    BY <2>1
  <2>3. tick[t].pc = "list" /\ ~LoopOver(t) /\ UNCHANGED <<task, procVars>>
    BY <1>3 DEF tick_list
  <2>4. x.pc \in {"list", "admit"} /\ x.claimed = tick[t].claimed
    BY <1>0, <2>2, <2>3 DEF TickRecords
  <2> QED BY <1>0, <2>2, <2>3, <2>4
<1>4. CASE tick_admit(t) BY <1>0, <1>4 DEF tick_admit
<1>5. CASE tick_return(t) BY <1>0, <1>i, <1>5 DEF tick_return
<1>6. CASE tick_claim_failed(t) BY <1>0, <1>i, <1>6 DEF tick_claim_failed
<1> QED BY <1>1, <1>2, <1>3, <1>4, <1>5, <1>6 DEF Tick

\* What the two inductive invariants read.
Frozen == /\ UNCHANGED <<tick, procVars>>
          /\ \A t \in Ticks, r \in Rows : task'[t][r].pc = task[t][r].pc

LEMMA FrozenInv ==
    ASSUME Frozen PROVE /\ ClaimInv => ClaimInv'
                        /\ SerialInv => SerialInv'
<1>1. \A t \in Ticks : Claiming(t)' = Claiming(t) BY DEF Frozen, Claiming
<1>2. \A t \in Ticks, r \in Rows : Busy(t, r)' = Busy(t, r) BY DEF Frozen, Busy
<1>3. tick' = tick /\ abort_controllers' = abort_controllers
      /\ pipeline_dispatched' = pipeline_dispatched
  BY DEF Frozen, procVars
<1>4. ClaimInv => ClaimInv' BY <1>1, <1>2, <1>3 DEF ClaimInv
<1>5. SerialInv => SerialInv' BY <1>2, <1>3 DEF SerialInv, OneDispatch
<1> QED BY <1>4, <1>5

\* Submissions, staff, aborts and a start leave the dispatches alone.
LEMMA OthersFrozen ==
    ASSUME TypeInv,
           \/ queue_packages \/ stop \/ start \/ UNCHANGED vars
           \/ \E p \in Staff : Request(p) \/ Handle(p)
    PROVE  Frozen
<1>1. CASE queue_packages BY <1>1 DEF queue_packages, Frozen
<1>2. CASE stop
  BY <1>2, AbortTypes DEF stop, Frozen, TypeInv
<1>3. CASE start BY <1>3 DEF start, Frozen
<1>4. CASE UNCHANGED vars BY <1>4 DEF vars, Frozen
<1>5. ASSUME NEW p \in Staff, Request(p) PROVE Frozen
  BY <1>5 DEF Request, cancel_batch, reset_orphaned, cancel_row, rollback_pre_ingest,
     return_to_packaging, rollback_batch_pre, rollback_archivematica, reset_row,
     retry_access_copy, Begin, Frozen
<1>6. ASSUME NEW p \in Staff, Handle(p) PROVE Frozen
  <2>1. CASE cancel_abort(p)
    <3>1. PICK i \in staff[p].todo : Abort({i.row}) BY <2>1 DEF cancel_abort
    <3>2. i.row \in Rows BY DEF TypeInv, StaffRecords
    <3>3. \A t \in Ticks, r \in Rows : task'[t][r].pc = task[t][r].pc
      BY <3>1, <3>2, AbortTypes DEF TypeInv
    <3> QED BY <2>1, <3>3 DEF cancel_abort, Frozen
  <2>2. CASE ~cancel_abort(p)
    BY <1>6, <2>2 DEF Handle, cancel_reread, cancel_write, rollback_move,
       rollback_write, staff_write, Frozen
  <2> QED BY <2>1, <2>2
<1> QED BY <1>1, <1>2, <1>3, <1>4, <1>5, <1>6

\* The dispatch: the claimed rows start under this tick, nothing else does.
LEMMA DispatchStep ==
    ASSUME TypeInv, NEW t \in Ticks, tick_dispatch(t)
    PROVE  LET rows == {c.row : c \in tick[t].claimed} IN
           /\ tick[t].pc = "list"
           /\ \A u \in Ticks \ {t} : tick'[u] = tick[u]
           /\ tick'[t].pc \in {"idle", "run"} /\ tick'[t].claimed = {}
           /\ \A u \in Ticks, q \in Rows :
                 ~(u = t /\ q \in rows) => task'[u][q] = task[u][q]
           /\ \A q \in Rows : abort_controllers'[q] =
                 IF q \in rows THEN t ELSE abort_controllers[q]
           /\ pipeline_dispatched' = pipeline_dispatched \cup rows
<1> DEFINE rows == {c.row : c \in tick[t].claimed}
<1>1. IdleTick \in TickRecords /\ IdleTick.pc = "idle" /\ IdleTick.claimed = {}
  BY DEF IdleTick, TickRecords
<1>2. /\ [IdleTick EXCEPT !.pc = "run"].pc = "run"
      /\ [IdleTick EXCEPT !.pc = "run"].claimed = {}
  BY <1>1 DEF TickRecords
<1>3. tick \in [Ticks -> TickRecords] /\ task \in [Ticks -> [Rows -> TaskRecords]]
  BY DEF TypeInv, TickTypes, TaskTypes
<1>4. /\ tick[t].pc = "list"
      /\ tick' = [tick EXCEPT ![t] = IF tick[t].claimed = {} THEN IdleTick
                                    ELSE [IdleTick EXCEPT !.pc = "run"]]
  BY DEF tick_dispatch
<1>5. \A q \in Rows : q \notin rows => task'[t][q] = task[t][q]
  <2> DEFINE copy(q) == CHOOSE c \in tick[t].claimed : c.row = q
             started == [q \in Rows |-> IF q \in rows
                           THEN [pc |-> ENTRY_STEP[copy(q).state],
                                 claimed |-> copy(q).state,
                                 cols |-> copy(q).cols, aborted |-> FALSE]
                           ELSE task[t][q]]
  <2>1. task' = [task EXCEPT ![t] = started] BY DEF tick_dispatch
  <2>2. \A q \in Rows : q \notin rows => started[q] = task[t][q] OBVIOUS
  <2> HIDE DEF started
  <2> QED BY <1>3, <2>1, <2>2
<1>6. \A u \in Ticks \ {t} : task'[u] = task[u] BY <1>3 DEF tick_dispatch
<1>7. \A u \in Ticks, q \in Rows :
        ~(u = t /\ q \in rows) => task'[u][q] = task[u][q]
  <2> HIDE DEF rows
  <2> QED BY <1>5, <1>6
<1>8. /\ abort_controllers' = [q \in Rows |->
                IF q \in rows THEN t ELSE abort_controllers[q]]
      /\ pipeline_dispatched' = pipeline_dispatched \cup rows
  BY DEF tick_dispatch
<1> QED BY <1>1, <1>2, <1>3, <1>4, <1>7, <1>8

LEMMA ClaimStep ==
    ASSUME TypeInv, ClaimInv, ~OverlapClaims, [Next]_vars
    PROVE  ClaimInv'
<1>1. CASE \/ queue_packages \/ stop \/ start \/ UNCHANGED vars
           \/ \E p \in Staff : Request(p) \/ Handle(p)
  BY <1>1, OthersFrozen, FrozenInv
<1>2. CASE crash \/ exit
  <2>1. Die BY <1>2 DEF crash, exit
  <2>2. IdleTick.pc = "idle" /\ IdleTick.claimed = {} /\ IdleTask.pc = "idle"
    BY DEF IdleTick, IdleTask
  <2>3. /\ \A t \in Ticks : tick'[t].pc = "idle" /\ tick'[t].claimed = {}
        /\ \A t \in Ticks, r \in Rows : task'[t][r].pc = "idle"
    BY <2>1, <2>2 DEF Die
  <2> QED BY <2>3 DEF ClaimInv, Claiming, Busy
<1>3. ASSUME NEW t \in Ticks, tick_dispatch(t) PROVE ClaimInv'
  <2> DEFINE rows == {c.row : c \in tick[t].claimed}
  <2>1. /\ tick[t].pc = "list"
        /\ \A u \in Ticks \ {t} : tick'[u] = tick[u]
        /\ tick'[t].pc \in {"idle", "run"} /\ tick'[t].claimed = {}
        /\ \A u \in Ticks, q \in Rows :
                 ~(u = t /\ q \in rows) => task'[u][q] = task[u][q]
        /\ \A q \in Rows : abort_controllers'[q] =
                 IF q \in rows THEN t ELSE abort_controllers[q]
    BY <1>3, DispatchStep
  <2>2. \A q \in rows : abort_controllers[q] = 0 BY DEF ClaimInv
  <2>3. \A u \in Ticks : u # 0 BY DEF Ticks
  <2>4. \A u \in Ticks \ {t} : ~Claiming(u) /\ tick[u].claimed = {}
    BY <2>1 DEF ClaimInv, Claiming
  <2>5. \A u \in Ticks : tick'[u].claimed = {} BY <2>1, <2>4
  <2>6. \A u \in Ticks : ~Claiming(u)' BY <2>1, <2>4 DEF Claiming
  <2> HIDE DEF rows
  <2>7. \A u \in Ticks, q \in Rows : Busy(u, q)' => abort_controllers'[q] = u
    <3> SUFFICES ASSUME NEW u \in Ticks, NEW q \in Rows, Busy(u, q)'
                 PROVE  abort_controllers'[q] = u
      OBVIOUS
    <3>1. CASE u = t /\ q \in rows BY <2>1, <3>1
    <3>2. CASE ~(u = t /\ q \in rows)
      <4>1. Busy(u, q) BY <2>1, <3>2 DEF Busy
      <4>2. abort_controllers[q] = u BY <4>1 DEF ClaimInv
      <4> QED BY <2>1, <2>2, <2>3, <4>2
    <3> QED BY <3>1, <3>2
  <2> QED BY <2>5, <2>6, <2>7 DEF ClaimInv
<1>4. ASSUME NEW t \in Ticks, Tick(t) \/ tick_claim_failed(t), ~tick_dispatch(t)
      PROVE  ClaimInv'
  <2>1. /\ UNCHANGED <<task, procVars>>
        /\ \A u \in Ticks \ {t} : tick'[u] = tick[u]
    BY <1>4, TickStep
  <2>2. \A u \in Ticks \ {t} : Claiming(u)' = Claiming(u) BY <2>1 DEF Claiming
  <2>3. \A u \in Ticks, q \in Rows : Busy(u, q)' => abort_controllers'[q] = u
    BY <2>1 DEF procVars, Busy, ClaimInv
  <2>4. abort_controllers' = abort_controllers BY <2>1 DEF procVars
  <2>5. CASE tick'[t].pc = "idle" /\ tick'[t].claimed = {}
    <3>1. ~Claiming(t)' BY <2>5 DEF Claiming
    <3> QED BY <2>1, <2>2, <2>3, <2>4, <2>5, <3>1 DEF ClaimInv
  <2>6. CASE tick_count(t) /\ tick'[t].pc = "snap" /\ tick'[t].claimed = {}
    <3>1. \A u \in Ticks : ~Claiming(u) BY <2>6 DEF tick_count
    <3>2. Claiming(t)' BY <2>6 DEF Claiming
    <3> QED BY <2>1, <2>2, <2>3, <2>4, <2>6, <3>1, <3>2 DEF ClaimInv
  <2>7. CASE /\ Claiming(t) /\ Claiming(t)'
             /\ \A c \in tick'[t].claimed : abort_controllers[c.row] = 0
    BY <2>1, <2>2, <2>3, <2>4, <2>7 DEF ClaimInv
  <2>8. CASE tick_admit(t)
    <3>1. tick[t] \in TickRecords /\ tick \in [Ticks -> TickRecords]
      BY DEF TypeInv, TickTypes
    <3> DEFINE admitted == IF OneAdmit(claim_order[tick[t].pos])
                           THEN Newest(Fresh(t)) ELSE Fresh(t)
    <3>2. \A c \in admitted : abort_controllers[c.row] = 0 BY DEF Newest, Fresh
    <3>3. tick' = [tick EXCEPT ![t] =
                     [tick[t] EXCEPT !.pc = "list", !.pos = tick[t].pos + 1,
                                     !.batch = {},
                                     !.claimed = tick[t].claimed \cup admitted]]
      BY <2>8 DEF tick_admit
    <3> HIDE DEF admitted
    <3>4. tick'[t].pc = "list" /\ tick'[t].claimed = tick[t].claimed \cup admitted
      BY <3>1, <3>3 DEF TickRecords
    <3>5. \A c \in tick'[t].claimed : abort_controllers[c.row] = 0
      BY <3>2, <3>4 DEF ClaimInv
    <3>6. Claiming(t) /\ Claiming(t)' BY <2>8, <3>4 DEF tick_admit, Claiming
    <3> QED BY <2>7, <3>5, <3>6
  <2>9. CASE /\ tick[t].pc \in {"snap", "list"} /\ tick'[t].pc \in {"list", "admit"}
             /\ tick'[t].claimed = tick[t].claimed
    <3>1. Claiming(t) /\ Claiming(t)' BY <2>9 DEF Claiming
    <3> QED BY <2>7, <2>9, <3>1 DEF ClaimInv
  <2> QED BY <1>4, <2>5, <2>6, <2>8, <2>9, TickStep
<1>5. ASSUME NEW t \in Ticks, NEW r \in Rows, Stage(t, r) \/ stage_threw(t, r)
      PROVE  ClaimInv'
  <2>1. /\ Busy(t, r)
        /\ \A u \in Ticks, q \in Rows :
                ~(u = t /\ q = r) => task'[u][q] = task[u][q]
    BY <1>5, StageLocal
  <2>2. abort_controllers[r] = t BY <2>1 DEF ClaimInv
  <2>3. CASE UNCHANGED <<tick, procVars>>
    <3>1. \A u \in Ticks, q \in Rows : Busy(u, q)' => Busy(u, q)
      BY <2>1 DEF Busy
    <3>2. \A u \in Ticks : Claiming(u)' = Claiming(u) BY <2>3 DEF Claiming
    <3> QED BY <2>3, <3>1, <3>2 DEF ClaimInv, procVars
  <2>4. CASE settle(t, r)
    <3>1. /\ tick' = tick
          /\ abort_controllers' = [abort_controllers EXCEPT ![r] = 0]
          /\ task'[t][r].pc = "idle"
      <4>1. IdleTask \in TaskRecords /\ IdleTask.pc = "idle"
        BY StageStates DEF IdleTask, TaskRecords
      <4>2. task'[t][r] = IdleTask
        BY <2>4, <4>1, SetTaskEntry DEF settle, TypeInv, TaskTypes
      <4> QED BY <2>4, <4>1, <4>2 DEF settle
    <3>2. abort_controllers \in [Rows -> Ticks \cup {0}] BY DEF TypeInv, ProcTypes
    <3>3. \A u \in Ticks : Claiming(u)' = Claiming(u) BY <3>1 DEF Claiming
    <3>4. \A u \in Ticks, q \in Rows : Busy(u, q)' => q # r /\ Busy(u, q)
      BY <2>1, <2>2, <3>1 DEF Busy, ClaimInv
    <3>5. \A u \in Ticks : \A c \in tick[u].claimed : c.row \in Rows
      BY DEF TypeInv, TickTypes, TickRecords, Copies
    <3> QED BY <3>1, <3>2, <3>3, <3>4, <3>5 DEF ClaimInv
  <2> QED BY <1>5, <2>3, <2>4, StageBooks
<1> QED BY <1>1, <1>2, <1>3, <1>4, <1>5 DEF Next

LEMMA ClaimInit == Init => ClaimInv
BY DEF Init, ClaimInv, Claiming, Busy, IdleTick, IdleTask

\* No two ticks ever run a stage of the same row against each other, in either
\* mode, as long as claim phases do not overlap (NoDoubleDispatch).
THEOREM NoRowTwice == ASSUME ~OverlapClaims PROVE Spec => []NoDoubleDispatch
<1>1. Init => ClaimInv BY ClaimInit
<1>2. TypeInv /\ ClaimInv /\ [Next]_vars => ClaimInv' BY ClaimStep
<1>3. ClaimInv => NoDoubleDispatch BY DEF ClaimInv, NoDoubleDispatch
<1> QED BY <1>1, <1>2, <1>3, TypeInvariant, PTL DEF Spec

\* The rows a serial claim admits: at most one.
LEMMA AdmitOne ==
    ASSUME TypeInv, serial, NEW t \in Ticks, tick_admit(t)
    PROVE  /\ tick'[t].pc = "list"
           /\ \E new : /\ \A c, d \in new : c.row = d.row
                       /\ tick'[t].claimed = tick[t].claimed \cup new
<1>1. tick[t] \in TickRecords /\ tick \in [Ticks -> TickRecords]
  BY DEF TypeInv, TickTypes
<1>2. \A c \in tick[t].batch : c.row \in Int
  BY <1>1 DEF TickRecords, Copies, Rows
<1> DEFINE new == Newest(Fresh(t))
<1>3. \A c, d \in new : c.row = d.row
  <2> SUFFICES ASSUME NEW c \in new, NEW d \in new PROVE c.row = d.row OBVIOUS
  <2>1. c \in tick[t].batch /\ d \in tick[t].batch BY DEF Newest, Fresh
  <2>2. d.row <= c.row /\ c.row <= d.row BY DEF Newest
  <2> QED BY <1>2, <2>1, <2>2
<1>4. tick' = [tick EXCEPT ![t] =
                 [tick[t] EXCEPT !.pc = "list", !.pos = tick[t].pos + 1,
                                 !.batch = {}, !.claimed = tick[t].claimed \cup new]]
  BY DEF tick_admit, OneAdmit
<1> HIDE DEF new
<1>5. tick'[t].pc = "list" /\ tick'[t].claimed = tick[t].claimed \cup new
  BY <1>1, <1>4 DEF TickRecords
<1> QED BY <1>3, <1>5

LEMMA SerialStep ==
    ASSUME TypeInv, ClaimInv, SerialInv, serial, ~OverlapClaims, [Next]_vars
    PROVE  SerialInv'
<1>1. CASE \/ queue_packages \/ stop \/ start \/ UNCHANGED vars
           \/ \E p \in Staff : Request(p) \/ Handle(p)
  BY <1>1, OthersFrozen, FrozenInv
<1>2. CASE crash \/ exit
  <2>1. Die BY <1>2 DEF crash, exit
  <2>2. IdleTick.pc = "idle" /\ IdleTick.claimed = {} /\ IdleTask.pc = "idle"
    BY DEF IdleTick, IdleTask
  <2>3. /\ \A t \in Ticks : tick'[t].pc = "idle" /\ tick'[t].claimed = {}
        /\ \A t \in Ticks, r \in Rows : task'[t][r].pc = "idle"
    BY <2>1, <2>2 DEF Die
  <2> QED BY <2>3 DEF SerialInv, OneDispatch, Busy
\* The dispatch: nothing was dispatched, and the claim holds one row.
<1>3. ASSUME NEW t \in Ticks, tick_dispatch(t) PROVE SerialInv'
  <2> DEFINE rows == {c.row : c \in tick[t].claimed}
  <2>1. /\ tick[t].pc = "list"
        /\ \A u \in Ticks \ {t} : tick'[u] = tick[u]
        /\ tick'[t].pc \in {"idle", "run"} /\ tick'[t].claimed = {}
        /\ \A u \in Ticks, q \in Rows :
                 ~(u = t /\ q \in rows) => task'[u][q] = task[u][q]
        /\ pipeline_dispatched' = pipeline_dispatched \cup rows
    BY <1>3, DispatchStep
  <2>2. pipeline_dispatched = {} BY <2>1 DEF SerialInv
  <2>3. \A u \in Ticks, q \in Rows : ~Busy(u, q) BY <2>2 DEF SerialInv
  <2>4. \A q, r \in rows : q = r BY DEF SerialInv
  <2>5. \A u \in Ticks \ {t} : ~Claiming(u) /\ tick[u].claimed = {}
    BY <2>1 DEF ClaimInv, Claiming
  <2>6. \A u \in Ticks : tick'[u].pc \notin {"list", "admit"} /\ tick'[u].claimed = {}
    BY <2>1, <2>5 DEF Claiming
  <2> HIDE DEF rows
  <2>7. \A u \in Ticks, q \in Rows : Busy(u, q)' => u = t /\ q \in rows
    BY <2>1, <2>3 DEF Busy
  <2>8. OneDispatch' BY <2>4, <2>7 DEF OneDispatch
  <2> QED BY <2>1, <2>6, <2>7, <2>8 DEF SerialInv
<1>4. ASSUME NEW t \in Ticks, Tick(t) \/ tick_claim_failed(t), ~tick_dispatch(t)
      PROVE  SerialInv'
  <2>1. /\ UNCHANGED <<task, procVars>>
        /\ \A u \in Ticks \ {t} : tick'[u] = tick[u]
    BY <1>4, TickStep
  <2>2. pipeline_dispatched' = pipeline_dispatched BY <2>1 DEF procVars
  <2>3. /\ OneDispatch'
        /\ \A u \in Ticks, r \in Rows : Busy(u, r)' => r \in pipeline_dispatched'
    BY <2>1, <2>2 DEF SerialInv, OneDispatch, Busy
  <2>4. SUFFICES /\ tick'[t].pc \in {"list", "admit"} => pipeline_dispatched = {}
                 /\ tick'[t].pc = "admit" => tick'[t].claimed = {}
                 /\ \A c, d \in tick'[t].claimed : c.row = d.row
    BY <2>1, <2>2, <2>3 DEF SerialInv
  <2>5. CASE tick'[t].pc \in {"idle", "snap"} /\ tick'[t].claimed = {} BY <2>5
  <2>6. CASE /\ tick[t].pc = "snap" /\ tick'[t].pc = "list" /\ ~InFlight
             /\ tick'[t].claimed = tick[t].claimed
    BY <2>6 DEF InFlight, SerialInv
  <2>7. CASE /\ tick[t].pc = "list" /\ tick'[t].pc \in {"list", "admit"} /\ ~LoopOver(t)
             /\ tick'[t].claimed = tick[t].claimed
    BY <2>7 DEF LoopOver, SerialInv
  <2>8. CASE tick_admit(t)
    <3>1. tick[t].pc = "admit" BY <2>8 DEF tick_admit
    <3>2. tick[t].claimed = {} /\ pipeline_dispatched = {} BY <3>1 DEF SerialInv
    <3> QED BY <2>8, <3>2, AdmitOne
  <2> QED BY <1>4, <2>5, <2>6, <2>7, <2>8, TickStep
<1>5. ASSUME NEW t \in Ticks, NEW r \in Rows, Stage(t, r) \/ stage_threw(t, r)
      PROVE  SerialInv'
  <2>1. /\ Busy(t, r)
        /\ \A u \in Ticks, q \in Rows :
                ~(u = t /\ q = r) => task'[u][q] = task[u][q]
    BY <1>5, StageLocal
  <2>2. \A u \in Ticks, q \in Rows : Busy(u, q) => u = t /\ q = r
    BY <2>1 DEF SerialInv, OneDispatch
  <2>3. \A u \in Ticks, q \in Rows : Busy(u, q)' => u = t /\ q = r
    BY <2>1, <2>2 DEF Busy
  <2>4. OneDispatch' BY <2>3 DEF OneDispatch
  <2>5. r \in pipeline_dispatched BY <2>1 DEF SerialInv
  <2>6. \A u \in Ticks : tick[u].pc \notin {"list", "admit"} BY <2>5 DEF SerialInv
  <2>7. CASE UNCHANGED <<tick, procVars>>
    BY <2>3, <2>4, <2>5, <2>6, <2>7 DEF SerialInv, procVars
  <2>8. CASE settle(t, r)
    <3>1. tick' = tick BY <2>8 DEF settle
    <3>2. task'[t][r].pc = "idle"
      <4>1. IdleTask \in TaskRecords /\ IdleTask.pc = "idle"
        BY StageStates DEF IdleTask, TaskRecords
      <4> QED BY <2>8, <4>1, SetTaskEntry DEF settle, TypeInv, TaskTypes
    <3>3. \A u \in Ticks, q \in Rows : ~Busy(u, q)' BY <2>3, <3>2 DEF Busy
    <3> QED BY <2>4, <2>6, <3>1, <3>3 DEF SerialInv
  <2> QED BY <1>5, <2>7, <2>8, StageBooks
<1> QED BY <1>1, <1>2, <1>3, <1>4, <1>5 DEF Next

\* In serial mode, as long as claim phases do not overlap, one stage-1-5
\* dispatch runs at a time, through crashes, shutdowns and staff actions
\* (OneDispatch).
THEOREM OneAtATime ==
    ASSUME serial, ~OverlapClaims PROVE Spec => []OneDispatch
<1>1. Init => ClaimInv BY ClaimInit
<1>2. Init => SerialInv
  BY DEF Init, SerialInv, OneDispatch, Busy, IdleTick, IdleTask
<1>3. TypeInv /\ ClaimInv /\ [Next]_vars => ClaimInv' BY ClaimStep
<1>4. TypeInv /\ ClaimInv /\ SerialInv /\ [Next]_vars => SerialInv' BY SerialStep
<1>5. SerialInv => OneDispatch BY DEF SerialInv
<1> QED BY <1>1, <1>2, <1>3, <1>4, <1>5, TypeInvariant, PTL DEF Spec

-----------------------------------------------------------------------------
(* What each step does to the rows: the moves of a stage, and the writes   *)
(* of everybody else.                                                      *)

\* The entry a stage goes on with.
LEMMA GotoEntry ==
    ASSUME TypeInv, NEW t \in Ticks, NEW r \in Rows, NEW step, Goto(t, r, step)
    PROVE  /\ task'[t][r].pc = step
           /\ task'[t][r].cols = task[t][r].cols
           /\ task'[t][r].claimed = task[t][r].claimed
<1>1. task \in [Ticks -> [Rows -> TaskRecords]] /\ task[t][r] \in TaskRecords
  BY DEF TypeInv, TaskTypes
<1> DEFINE d == [task[t][r] EXCEPT !.pc = step]
<1>2. d.pc = step /\ d.cols = task[t][r].cols /\ d.claimed = task[t][r].claimed
  BY <1>1 DEF TaskRecords
<1>3. task' = [task EXCEPT ![t] = [task[t] EXCEPT ![r] = d]] BY DEF Goto, SetTask
<1> HIDE DEF d
<1>4. task'[t][r] = d BY <1>1, <1>3
<1> QED BY <1>2, <1>4

LEMMA AdvanceEntry ==
    ASSUME TypeInv, NEW t \in Ticks, NEW r \in Rows, NEW step, NEW filled,
           Advance(t, r, filled, step)
    PROVE  /\ task'[t][r].pc = step
           /\ task'[t][r].cols = task[t][r].cols \cup filled
           /\ task'[t][r].claimed = task[t][r].claimed
<1>1. task \in [Ticks -> [Rows -> TaskRecords]] /\ task[t][r] \in TaskRecords
  BY DEF TypeInv, TaskTypes
<1> DEFINE d == [task[t][r] EXCEPT !.pc = step, !.cols = task[t][r].cols \cup filled]
<1>2. /\ d.pc = step /\ d.cols = task[t][r].cols \cup filled
      /\ d.claimed = task[t][r].claimed
  BY <1>1 DEF TaskRecords
<1>3. task' = [task EXCEPT ![t] = [task[t] EXCEPT ![r] = d]] BY DEF Advance, SetTask
<1> HIDE DEF d
<1>4. task'[t][r] = d BY <1>1, <1>3
<1> QED BY <1>2, <1>4

-----------------------------------------------------------------------------
\* The steps of a dispatch that take its row through Archivematica's window.
TransferSteps ==
    {"start_transfer", "mark_started", "approve", "mark_in_progress", "transfer_status"}
Transferring(t, r) ==
    \/ task[t][r].pc \in TransferSteps
    \/ task[t][r].pc = "ingest_entry" /\ task[t][r].claimed = "TRANSFER_COMPLETE"
InWindow(q) == Open(q) /\ state[q] \in AM_INSIDE_STATES

\* A package is handed to Archivematica from the states and steps before its
\* transfer, and gets its object from any before the insert.
Kinds == {"transfer", "object"}
Count(k, r) == IF k = "transfer" THEN transfers[r] ELSE objects[r]
DueStates(k) == IF k = "transfer"
    THEN {"ABSENT", "PENDING", "PROCESSING_METADATA", "QA_COMPLETE", "UPLOADING",
          "UPLOAD_COMPLETE", "AS_METADATA_INVALID"}
    ELSE PIPELINE_STATES \cup {"ABSENT", "TRANSFER_APPROVED", "AS_METADATA_INVALID",
                               "DURACLOUD_TIMEOUT"}
DueSteps(k) == IF k = "transfer"
    THEN {"mark_processing", "fetch", "file_count", "move", "upload_status",
          "start_transfer"}
    ELSE Steps \ {"idle", "archive", "complete", "hold", "settle"}
DoneSteps(k) == IF k = "transfer" THEN {"mark_started"} ELSE {"archive", "complete"}

\* How a step of a stage moves its own row, from the state st and the step pc to
\* the state su and the step qc, by what the proofs below tell apart.
Moves(pc, claimed, st, su, qc) ==
    /\ su \in AM_INSIDE_STATES =>
          \/ su = st \/ pc \in TransferSteps
          \/ pc = "ingest_entry" /\ claimed = "TRANSFER_COMPLETE"
    /\ qc \in TransferSteps => pc \in TransferSteps
    /\ qc # "ingest_entry"
\* The same of its two counters, m before and n after.
Counts(k, pc, st, su, qc, m, n) ==
    LET done  == /\ qc \notin DueSteps(k)
                 /\ qc \in DoneSteps(k) \/ su \notin DueStates(k)
        undue == \/ done
                 \/ /\ qc \notin DueSteps(k)
                    /\ su = st /\ pc \notin DoneSteps(k)
    IN  \/ n = m /\ pc \in DueSteps(k)
        \/ n = m /\ undue
        \/ n = m + 1 /\ pc \in DueSteps(k) /\ done
Moved(t, r) ==
    /\ Moves(task[t][r].pc, task[t][r].claimed, state[r], state'[r], task'[t][r].pc)
    /\ \A k \in Kinds : Counts(k, task[t][r].pc, state[r], state'[r], task'[t][r].pc,
                               Count(k, r), Count(k, r)')
    /\ is_complete[r] => is_complete'[r] \/ state'[r] = "COMPLETE"

LEMMA UpdateRow ==
    ASSUME TypeInv, NEW r \in Rows, NEW st, NEW filled, update_queue(r, st, filled)
    PROVE  state'[r] = st /\ is_complete' = is_complete
BY DEF update_queue, TypeInv, RowTypes

\* A write and a step that leave both counters alone.
LEMMA MovedBy ==
    ASSUME NEW t \in Ticks, NEW r \in Rows, NEW pc, task[t][r].pc = pc,
           NEW su, state'[r] = su, NEW qc, task'[t][r].pc = qc,
           qc # "ingest_entry", (is_complete' = is_complete) \/ su = "COMPLETE",
           transfers'[r] = transfers[r], objects'[r] = objects[r],
           \/ su = state[r] \/ su \notin AM_INSIDE_STATES \/ pc \in TransferSteps
           \/ pc = "ingest_entry" /\ task[t][r].claimed = "TRANSFER_COMPLETE",
           qc \in TransferSteps => pc \in TransferSteps,
           \A k \in Kinds :
              \/ pc \in DueSteps(k)
              \/ /\ qc \notin DueSteps(k)
                 /\ \/ qc \in DoneSteps(k) \/ su \notin DueStates(k)
                    \/ su = state[r] /\ pc \notin DoneSteps(k)
    PROVE  Moved(t, r)
<1>1. Moves(task[t][r].pc, task[t][r].claimed, state[r], state'[r], task'[t][r].pc)
  BY DEF Moves
<1>2. \A k \in Kinds : Count(k, r)' = Count(k, r) BY DEF Count
<1>3. \A k \in Kinds : Counts(k, task[t][r].pc, state[r], state'[r], task'[t][r].pc,
                               Count(k, r), Count(k, r)')
  BY <1>2 DEF Counts
<1>4. is_complete[r] => is_complete'[r] \/ state'[r] = "COMPLETE" OBVIOUS
<1> QED BY <1>1, <1>3, <1>4 DEF Moved


\* The stages before the transfer.
EarlyStates == {"PROCESSING_METADATA", "QA_COMPLETE", "AS_METADATA_INVALID", "UPLOADING",
                "UPLOAD_TIMEOUT", "UPLOAD_COMPLETE", "INGEST_HALTED"}
LEMMA EarlyMoved ==
    ASSUME TypeInv, NEW t \in Ticks, NEW r \in Rows,
           \/ mark_processing(t, r) \/ fetch_and_validate(t, r) \/ file_count(t, r)
           \/ move_package(t, r) \/ upload_status(t, r)
    PROVE  Moved(t, r)
<1> USE GotoEntry, UpdateRow
<1> DEFINE pc == task[t][r].pc
           qc == task'[t][r].pc
           su == state'[r]
<1>1. /\ pc \in {"mark_processing", "fetch", "file_count", "move", "upload_status"}
      /\ is_complete' = is_complete
      /\ transfers'[r] = transfers[r] /\ objects'[r] = objects[r]
      /\ qc \in {"fetch", "move", "upload_status", "settle"}
      /\ su = state[r] \/ su \in EarlyStates
  <2>1. CASE mark_processing(t, r)
    BY <2>1 DEF mark_processing, At, worldVars, EarlyStates
  <2>2. CASE fetch_and_validate(t, r)
    BY <2>2 DEF fetch_and_validate, At, worldVars, EarlyStates, halt, Finish
  <2>3. CASE file_count(t, r)
    BY <2>3 DEF file_count, At, worldVars, EarlyStates, halt
  <2>4. CASE move_package(t, r)
    BY <2>4 DEF move_package, At, rowVars, EarlyStates, halt
  <2>5. CASE upload_status(t, r)
    BY <2>5 DEF upload_status, At, worldVars, rowVars, EarlyStates, halt, Finish,
       LeaveForResume
  <2> QED BY <2>1, <2>2, <2>3, <2>4, <2>5
<1>2. \A k \in Kinds : pc \in DueSteps(k) BY <1>1 DEF Kinds, DueSteps, Steps
<1>3. su = state[r] \/ su \notin AM_INSIDE_STATES
  BY <1>1 DEF EarlyStates, AM_INSIDE_STATES
<1>4. qc # "ingest_entry" /\ qc \notin TransferSteps BY <1>1 DEF TransferSteps
<1> QED BY <1>1, <1>2, <1>3, <1>4, MovedBy

\* The transfer stage.
LEMMA StartMoved ==
    ASSUME TypeInv, NEW t \in Ticks, NEW r \in Rows, start_transfer(t, r)
    PROVE  Moved(t, r)
<1> USE GotoEntry, AdvanceEntry, UpdateRow
<1> DEFINE pc == task[t][r].pc
           qc == task'[t][r].pc
           su == state'[r]
<1>1. transfers \in [Rows -> Nat] BY DEF TypeInv, WorldTypes
<1>2. /\ pc = "start_transfer" /\ is_complete' = is_complete /\ objects'[r] = objects[r]
      /\ \/ transfers'[r] = transfers[r] + 1 /\ qc = "mark_started" /\ su = state[r]
         \/ transfers'[r] = transfers[r] + 1 /\ qc = "settle" /\ su = "INGEST_HALTED"
         \/ transfers'[r] = transfers[r] /\ qc = "settle" /\ su = "INGEST_HALTED"
  BY <1>1 DEF start_transfer, At, rowVars, halt
<1>3. /\ "start_transfer" \in DueSteps("transfer") /\ "start_transfer" \in DueSteps("object")
      /\ "start_transfer" \in TransferSteps
      /\ "mark_started" \notin DueSteps("transfer") /\ "mark_started" \in DoneSteps("transfer")
      /\ "settle" \notin DueSteps("transfer")
      /\ "INGEST_HALTED" \notin DueStates("transfer")
  BY DEF DueSteps, Steps, DoneSteps, DueStates, TransferSteps
<1>4. Moves(pc, task[t][r].claimed, state[r], su, qc) BY <1>2, <1>3 DEF Moves
<1>5. Counts("transfer", pc, state[r], su, qc, transfers[r], transfers'[r])
  BY <1>2, <1>3 DEF Counts
<1>6. Counts("object", pc, state[r], su, qc, objects[r], objects'[r])
  BY <1>2, <1>3 DEF Counts
<1> HIDE DEF pc, qc, su
<1>7. \A k \in Kinds : Counts(k, pc, state[r], su, qc, Count(k, r), Count(k, r)')
  BY <1>5, <1>6 DEF Count, Kinds
<1> QED BY <1>2, <1>4, <1>7 DEF Moved, pc, qc, su

TransferStates == {"TRANSFER_STARTED", "TRANSFER_APPROVED", "TRANSFER_IN_PROGRESS",
    "TRANSFER_COMPLETE", "APPROVE_TIMEOUT", "TRANSFER_STATUS_TIMEOUT", "FAILED",
    "INGEST_HALTED"}
LEMMA TransferMoved ==
    ASSUME TypeInv, NEW t \in Ticks, NEW r \in Rows,
           \/ mark_started(t, r) \/ approve_transfer(t, r) \/ mark_in_progress(t, r)
           \/ transfer_status(t, r)
    PROVE  Moved(t, r)
<1> USE GotoEntry, UpdateRow
<1> DEFINE pc == task[t][r].pc
           qc == task'[t][r].pc
           su == state'[r]
<1>1. /\ pc \in {"mark_started", "approve", "mark_in_progress", "transfer_status"}
      /\ is_complete' = is_complete
      /\ transfers'[r] = transfers[r] /\ objects'[r] = objects[r]
      /\ qc \in {"approve", "mark_in_progress", "transfer_status", "settle"}
      /\ (su = state[r] /\ pc # "mark_started") \/ su \in TransferStates
  <2>1. CASE mark_started(t, r) \/ mark_in_progress(t, r)
    BY <2>1 DEF mark_started, mark_in_progress, At, worldVars, TransferStates
  <2>2. CASE approve_transfer(t, r)
    BY <2>2 DEF approve_transfer, At, worldVars, rowVars, TransferStates, halt,
       LeaveForResume
  <2>3. CASE transfer_status(t, r)
    BY <2>3 DEF transfer_status, At, worldVars, rowVars, TransferStates, halt, Finish,
       LeaveForResume
  <2> QED BY <2>1, <2>2, <2>3
<1>2. pc \in DueSteps("object") /\ pc \in TransferSteps
  BY <1>1 DEF DueSteps, Steps, TransferSteps
<1>3. qc \notin DueSteps("transfer") /\ qc # "ingest_entry" BY <1>1 DEF DueSteps
<1>4. su \notin DueStates("transfer") \/ (su = state[r] /\ pc \notin DoneSteps("transfer"))
  BY <1>1 DEF TransferStates, DueStates, DoneSteps
<1> QED BY <1>1, <1>2, <1>3, <1>4, MovedBy DEF Kinds

\* The ingest stage and the repository stage up to the build.
IngestSteps == {"ingest_entry", "ingest_status", "drift", "dip", "mets", "creating", "build"}
IngestStateSet == {"INGEST_COMPLETE", "AS_METADATA_DRIFT",
    "WAITING_FOR_DURACLOUD", "DURACLOUD_TIMEOUT", "METADATA_PROCESSED",
    "CREATING_REPOSITORY_RECORD", "INGEST_STATUS_TIMEOUT", "FAILED", "INGEST_HALTED"}
LEMMA IngestMoved ==
    ASSUME TypeInv, NEW t \in Ticks, NEW r \in Rows,
           \/ ingest_entry(t, r) \/ ingest_status(t, r) \/ check_for_drift(t, r)
           \/ wait_for_dip(t, r) \/ wait_for_mets(t, r) \/ creating_record(t, r)
    PROVE  Moved(t, r)
<1> USE GotoEntry, AdvanceEntry, UpdateRow
<1> DEFINE pc == task[t][r].pc
           qc == task'[t][r].pc
           su == state'[r]
<1>1. /\ pc \in IngestSteps \ {"build"}
      /\ is_complete' = is_complete
      /\ transfers'[r] = transfers[r] /\ objects'[r] = objects[r]
      /\ qc \in (IngestSteps \ {"ingest_entry"}) \cup {"settle"}
      /\ \/ su = state[r]
         \/ su \in IngestStateSet
         \/ /\ su = "INGEST_IN_PROGRESS" /\ pc = "ingest_entry"
            /\ task[t][r].claimed = "TRANSFER_COMPLETE"
  <2>1. CASE ingest_entry(t, r)
    <3>1. pc = "ingest_entry" BY <2>1 DEF ingest_entry, At
    <3>2. task[t][r].claimed \in Stage4States BY <3>1 DEF TypeInv, TaskTypes, IngestClaim
    <3>3. INGEST_SUBSTEP[task[t][r].claimed] \in {"ingest_status", "drift", "dip"}
      BY <3>2 DEF INGEST_SUBSTEP, Stage4States
    <3> QED BY <2>1, <3>1, <3>3 DEF ingest_entry, worldVars, rowVars, halt,
            IngestStateSet, IngestSteps
  <2>2. CASE ingest_status(t, r)
    BY <2>2 DEF ingest_status, At, rowVars, LeaveForResume, halt, IngestStateSet, IngestSteps
  <2>3. CASE check_for_drift(t, r)
    BY <2>3 DEF check_for_drift, At, worldVars, rowVars, halt, IngestStateSet, IngestSteps
  <2>4. CASE wait_for_dip(t, r)
    BY <2>4 DEF wait_for_dip, At, worldVars, rowVars, halt, IngestStateSet, IngestSteps
  <2>5. CASE wait_for_mets(t, r)
    BY <2>5 DEF wait_for_mets, poll_mets, wait_and_copy_dip, halt_dip_wait, At, worldVars,
       rowVars, LeaveForResume, halt, Finish, IngestStateSet, IngestSteps
  <2>6. CASE creating_record(t, r)
    BY <2>6 DEF creating_record, At, worldVars, rowVars, halt, mets_halt_state,
       IngestStateSet, IngestSteps
  <2> QED BY <2>1, <2>2, <2>3, <2>4, <2>5, <2>6
<1>2. pc \in DueSteps("object") /\ pc \notin DoneSteps("transfer")
  BY <1>1 DEF DueSteps, DoneSteps, Steps, IngestSteps
<1>3. /\ qc \notin DueSteps("transfer") /\ qc # "ingest_entry"
      /\ qc \notin TransferSteps
  BY <1>1 DEF DueSteps, IngestSteps, TransferSteps
<1>4. su \notin DueStates("transfer") \/ su = state[r]
  BY <1>1 DEF IngestStateSet, DueStates
<1>5. \/ su = state[r] \/ su \notin AM_INSIDE_STATES
      \/ pc = "ingest_entry" /\ task[t][r].claimed = "TRANSFER_COMPLETE"
  BY <1>1 DEF IngestStateSet, AM_INSIDE_STATES
<1> QED BY <1>1, <1>2, <1>3, <1>4, <1>5, MovedBy DEF Kinds

\* The build, and what follows it.
LEMMA BuildMoved ==
    ASSUME TypeInv, NEW t \in Ticks, NEW r \in Rows, build_record(t, r)
    PROVE  Moved(t, r)
<1> USE GotoEntry, UpdateRow
<1> DEFINE pc == task[t][r].pc
           qc == task'[t][r].pc
           su == state'[r]
<1>1. objects \in [Rows -> Nat] BY DEF TypeInv, WorldTypes
<1>2. /\ pc = "build" /\ is_complete' = is_complete /\ transfers'[r] = transfers[r]
      /\ \/ objects'[r] = objects[r] + 1 /\ qc = "archive" /\ su = state[r]
         \/ /\ objects'[r] = objects[r] /\ qc = "settle"
            /\ su \in {"INGEST_HALTED", "DURACLOUD_TIMEOUT", state[r]}
  BY <1>1 DEF build_record, At, rowVars, halt, LeaveForResume, mets_halt_state
<1>3. /\ "build" \in DueSteps("object") /\ "build" \notin DoneSteps("transfer")
      /\ "archive" \notin DueSteps("object") /\ "archive" \in DoneSteps("object")
      /\ {"archive", "settle"} \cap DueSteps("transfer") = {}
      /\ "INGEST_HALTED" \notin DueStates("transfer")
      /\ "DURACLOUD_TIMEOUT" \notin DueStates("transfer")
      /\ {"archive", "settle"} \cap TransferSteps = {}
      /\ {"INGEST_HALTED", "DURACLOUD_TIMEOUT"} \cap AM_INSIDE_STATES = {}
  BY DEF DueSteps, Steps, DoneSteps, DueStates, TransferSteps, AM_INSIDE_STATES
<1>4. Moves(pc, task[t][r].claimed, state[r], su, qc) BY <1>2, <1>3 DEF Moves
<1>5. Counts("transfer", pc, state[r], su, qc, transfers[r], transfers'[r])
  BY <1>2, <1>3 DEF Counts
<1>6. Counts("object", pc, state[r], su, qc, objects[r], objects'[r])
  BY <1>2, <1>3 DEF Counts
<1> HIDE DEF pc, qc, su
<1>7. \A k \in Kinds : Counts(k, pc, state[r], su, qc, Count(k, r), Count(k, r)')
  BY <1>5, <1>6 DEF Count, Kinds
<1> QED BY <1>2, <1>4, <1>7 DEF Moved, pc, qc, su

LEMMA LateMoved ==
    ASSUME TypeInv, NEW t \in Ticks, NEW r \in Rows,
           archive_package(t, r) \/ complete_record(t, r) \/ complete_hold(t, r)
             \/ settle(t, r)
    PROVE  Moved(t, r)
<1> USE GotoEntry, UpdateRow
<1> DEFINE pc == task[t][r].pc
           qc == task'[t][r].pc
           su == state'[r]
<1>1. /\ transfers'[r] = transfers[r] /\ objects'[r] = objects[r]
      /\ \/ pc = "archive" /\ qc = "complete" /\ su = state[r]
         \/ pc = "complete" /\ qc = "hold" /\ su = "COMPLETE"
         \/ pc = "hold" /\ qc = "settle" /\ su \in {"AIP_STORE_PENDING", state[r]}
         \/ pc = "settle" /\ qc = "idle" /\ su = state[r]
      /\ is_complete[r] => is_complete'[r] \/ su = "COMPLETE"
  <2>0. state \in [Rows -> PipelineRowStates] /\ is_complete \in [Rows -> BOOLEAN]
    BY DEF TypeInv, RowTypes
  <2>1. CASE archive_package(t, r)
    BY <2>1 DEF archive_package, At, rowVars
  <2>2. CASE complete_record(t, r)
    BY <2>0, <2>2 DEF complete_record, At, worldVars
  <2>3. CASE complete_hold(t, r)
    BY <2>0, <2>3 DEF complete_hold, At, worldVars, rowVars, Finish, LeaveForResume
  <2>4. CASE settle(t, r)
    <3>1. IdleTask \in TaskRecords /\ IdleTask.pc = "idle"
      BY StageStates DEF IdleTask, TaskRecords
    <3>2. qc = "idle"
      BY <2>4, <3>1, SetTaskEntry DEF settle, TypeInv, TaskTypes
    <3> QED BY <2>4, <3>2 DEF settle, At, rowVars, worldVars
  <2> QED BY <2>1, <2>2, <2>3, <2>4
<1>3. /\ {"archive", "complete"} = DoneSteps("object")
      /\ {"archive", "complete", "hold", "settle"} \cap DoneSteps("transfer") = {}
      /\ {"complete", "hold", "settle", "idle"}
            \cap (DueSteps("object") \cup DueSteps("transfer") \cup TransferSteps) = {}
      /\ {"COMPLETE", "AIP_STORE_PENDING"}
            \cap (DueStates("object") \cup DueStates("transfer") \cup AM_INSIDE_STATES) = {}
  BY DEF DueSteps, Steps, DoneSteps, DueStates, TransferSteps, AM_INSIDE_STATES,
     PIPELINE_STATES
<1>4. Moves(pc, task[t][r].claimed, state[r], su, qc) BY <1>1, <1>3 DEF Moves
<1>5. Counts("transfer", pc, state[r], su, qc, transfers[r], transfers'[r])
  BY <1>1, <1>3 DEF Counts
<1>6. Counts("object", pc, state[r], su, qc, objects[r], objects'[r])
  BY <1>1, <1>3 DEF Counts
<1> HIDE DEF pc, qc, su
<1>7. \A k \in Kinds : Counts(k, pc, state[r], su, qc, Count(k, r), Count(k, r)')
  BY <1>5, <1>6 DEF Count, Kinds
<1> QED BY <1>1, <1>4, <1>7 DEF Moved, pc, qc, su

\* Every step of a stage is one of these moves.
LEMMA StageMoved ==
    ASSUME TypeInv, NEW t \in Ticks, NEW r \in Rows, Stage(t, r)
    PROVE  Moved(t, r)
BY EarlyMoved, StartMoved, TransferMoved, IngestMoved, BuildMoved, LateMoved DEF Stage

\* What a step of a stage leaves alone.
LEMMA StageOthers ==
    ASSUME TypeInv, NEW t \in Ticks, NEW r \in Rows, Stage(t, r) \/ stage_threw(t, r)
    PROVE  /\ \A q \in Rows \ {r} :
                 /\ state'[q] = state[q] /\ is_complete'[q] = is_complete[q]
                 /\ transfers'[q] = transfers[q] /\ objects'[q] = objects[q]
           /\ UNCHANGED <<phase, resets>>
           /\ Stage(t, r) => faults' = faults
<1>0. /\ state \in [Rows -> PipelineRowStates] /\ is_complete \in [Rows -> BOOLEAN]
      /\ transfers \in [Rows -> Nat] /\ objects \in [Rows -> Nat]
  BY DEF TypeInv, RowTypes, WorldTypes
<1> USE DEF StageFrame, boundVars, rowVars, worldVars, update_queue
<1>1. CASE stage_threw(t, r)
  <2>1. faults' # faults BY <1>1 DEF stage_threw, TypeInv, BoundTypes
  <2>2. ~Stage(t, r)
    BY <2>1 DEF Stage, mark_processing, fetch_and_validate,
     file_count, move_package, upload_status, start_transfer, mark_started,
     approve_transfer, mark_in_progress, transfer_status, ingest_entry,
     ingest_status, check_for_drift, wait_for_dip, wait_for_mets,
     creating_record, build_record, archive_package, complete_record,
     complete_hold, settle
  <2> QED BY <1>0, <1>1, <2>2 DEF stage_threw, halt
<1>2. CASE mark_processing(t, r) \/ fetch_and_validate(t, r) \/ file_count(t, r)
             \/ move_package(t, r) \/ upload_status(t, r)
    BY <1>0, <1>2 DEF mark_processing, fetch_and_validate, file_count, move_package,
       upload_status, LeaveForResume, halt, Finish
<1>3. CASE start_transfer(t, r) \/ mark_started(t, r) \/ approve_transfer(t, r)
             \/ mark_in_progress(t, r) \/ transfer_status(t, r)
    BY <1>0, <1>3 DEF start_transfer, mark_started, approve_transfer, mark_in_progress,
       transfer_status, LeaveForResume, halt, Finish
<1>4. CASE ingest_entry(t, r) \/ ingest_status(t, r) \/ check_for_drift(t, r)
             \/ wait_for_dip(t, r) \/ wait_for_mets(t, r)
    BY <1>0, <1>4 DEF ingest_entry, ingest_status, check_for_drift, wait_for_dip,
       wait_for_mets, poll_mets, wait_and_copy_dip, halt_dip_wait, LeaveForResume, halt,
       Finish
<1>5. CASE creating_record(t, r) \/ build_record(t, r) \/ archive_package(t, r)
             \/ complete_record(t, r) \/ complete_hold(t, r) \/ settle(t, r)
    BY <1>0, <1>5 DEF creating_record, build_record, archive_package, complete_record,
       complete_hold, settle, LeaveForResume, halt, Finish
<1> QED BY <1>1, <1>2, <1>3, <1>4, <1>5 DEF Stage

\* A stage that threw: its row halts or stays, its counters stay, and the fault is
\* counted.
LEMMA ThrewMoved ==
    ASSUME TypeInv, NEW t \in Ticks, NEW r \in Rows, stage_threw(t, r)
    PROVE  /\ state'[r] \in {"INGEST_HALTED", state[r]} /\ is_complete' = is_complete
           /\ transfers' = transfers /\ objects' = objects
           /\ task'[t][r].pc = "settle" /\ faults' = faults + 1
BY GotoEntry, UpdateRow DEF stage_threw, halt, rowVars, worldVars

-----------------------------------------------------------------------------
\* What submissions, staff, aborts and a start do to the rows.
StaffStates == {"CANCELLED_BY_USER", "ROLLED_BACK_TO_READY", "RETURNED_TO_PACKAGING",
                "AM_DELETION_REQUESTED"}
Written(q) ==
    \/ state'[q] = state[q] /\ (is_complete[q] => is_complete'[q])
    \/ /\ is_complete[q] => is_complete'[q]
       /\ \/ state'[q] \in StaffStates
          \/ state'[q] = "PENDING" /\ state[q] \in {"ABSENT", "AS_METADATA_INVALID"}
          \/ state'[q] = "WAITING_FOR_DURACLOUD" /\ state[q] = "DURACLOUD_TIMEOUT"
          \/ /\ state'[q] \in {"PENDING", "WAITING_FOR_DURACLOUD"}
             /\ (phase = "down" /\ phase' = "up") \/ resets' = resets + 1
OthersRows ==
    /\ \A q \in Rows : Written(q)
    /\ UNCHANGED <<tick, transfers, objects>>
    /\ \A u \in Ticks, q \in Rows : /\ task'[u][q].pc = task[u][q].pc
                                    /\ task'[u][q].claimed = task[u][q].claimed
    /\ \/ UNCHANGED <<phase, faults>> /\ resets' \in {resets, resets + 1}
       \/ phase = "up" /\ phase' = "stopping" /\ faults' = faults + 1 /\ resets' = resets
       \/ phase = "down" /\ phase' = "up" /\ faults' = faults /\ resets' = resets

LEMMA OffersWhat ==
    /\ \A r : Offers(r, "reset") => state[r] = "AS_METADATA_INVALID"
    /\ \A r : Offers(r, "retry_access_copy") => state[r] = "DURACLOUD_TIMEOUT"
BY DEF Offers, available_actions, STATES_PRE_FOLDER_MOVE_FAILURE

LEMMA StaffWritten ==
    ASSUME TypeInv, NEW p \in Staff, Handle(p)
    PROVE  OthersRows
<1>0. /\ state \in [Rows -> PipelineRowStates] /\ is_complete \in [Rows -> BOOLEAN]
      /\ \A i \in staff[p].todo : i.row \in Rows
  BY DEF TypeInv, RowTypes, StaffRecords
<1>1. CASE cancel_abort(p)
  <2>1. PICK i \in staff[p].todo : Abort({i.row}) BY <1>1 DEF cancel_abort
  <2>2. \A u \in Ticks, q \in Rows : /\ task'[u][q].pc = task[u][q].pc
                                     /\ task'[u][q].claimed = task[u][q].claimed
    BY <1>0, <2>1, AbortTypes DEF TypeInv
  <2>3. UNCHANGED <<rowVars, phase, tick, procVars, worldVars, boundVars>>
    BY <1>1 DEF cancel_abort
  <2> QED BY <2>2, <2>3 DEF OthersRows, Written, rowVars, worldVars, boundVars
<1>2. CASE cancel_reread(p) \/ rollback_move(p)
  BY <1>2 DEF cancel_reread, rollback_move, OthersRows, Written, rowVars, worldVars, boundVars
<1>3. CASE cancel_write(p)
  <2>1. PICK i \in staff[p].todo : state' = [state EXCEPT ![i.row] = "CANCELLED_BY_USER"]
    BY <1>3 DEF cancel_write
  <2> QED BY <1>0, <1>3, <2>1 DEF cancel_write, OthersRows, Written, worldVars, boundVars,
          StaffStates
<1>4. CASE rollback_write(p)
  <2>1. PICK i \in staff[p].todo :
          /\ state' = [state EXCEPT ![i.row] =
                        IF i.state \in STATES_AT_PRE_AM_FAILURE
                        THEN "ROLLED_BACK_TO_READY" ELSE "RETURNED_TO_PACKAGING"]
          /\ is_complete' = [is_complete EXCEPT ![i.row] = TRUE]
    BY <1>4 DEF rollback_write
  <2> QED BY <1>0, <1>4, <2>1 DEF rollback_write, OthersRows, Written, worldVars, boundVars,
          StaffStates
<1>5. CASE staff_write(p)
  <2>1. PICK i \in staff[p].todo :
         /\ state' = [state EXCEPT ![i.row] = StaffTarget[staff[p].op]]
         /\ is_complete' = [is_complete EXCEPT ![i.row] =
                              @ \/ staff[p].op = "rollback_am"]
         /\ resets' = IF staff[p].op = "orphans" \/ Late(p, i.row) THEN resets + 1
                      ELSE resets
    BY <1>5 DEF staff_write
  <2>2. UNCHANGED <<phase, tick, task, worldVars, faults>> BY <1>5 DEF staff_write
  <2>3. staff[p].op \in {"rollback_am", "reset", "retry", "orphans"}
    BY <1>5 DEF staff_write, StaffTarget
  <2>4. \A q \in Rows \ {i.row} : Written(q) BY <1>0, <2>1 DEF Written
  <2>5. state'[i.row] = StaffTarget[staff[p].op] /\ (is_complete[i.row] => is_complete'[i.row])
    BY <1>0, <2>1
  <2>10. resets' \in {resets, resets + 1} BY <2>1
  <2>11. SUFFICES Written(i.row) BY <2>2, <2>4, <2>10 DEF OthersRows, worldVars
  <2>6. CASE staff[p].op = "rollback_am"
    BY <2>5, <2>6 DEF Written, StaffTarget, StaffStates
  <2>7. CASE staff[p].op = "reset"
    <3>1. state'[i.row] = "PENDING" BY <2>5, <2>7 DEF StaffTarget
    <3>2. state[i.row] = "AS_METADATA_INVALID" \/ resets' = resets + 1
      BY <2>1, <2>7, OffersWhat DEF Late
    <3> QED BY <2>5, <3>1, <3>2 DEF Written
  <2>8. CASE staff[p].op = "retry"
    <3>1. state'[i.row] = "WAITING_FOR_DURACLOUD" BY <2>5, <2>8 DEF StaffTarget
    <3>2. state[i.row] = "DURACLOUD_TIMEOUT" \/ resets' = resets + 1
      BY <2>1, <2>8, OffersWhat DEF Late
    <3> QED BY <2>5, <3>1, <3>2 DEF Written
  <2>9. CASE staff[p].op = "orphans"
    <3>1. state'[i.row] = "PENDING" BY <2>5, <2>9 DEF StaffTarget
    <3>2. resets' = resets + 1 BY <2>1, <2>9
    <3> QED BY <2>5, <3>1, <3>2 DEF Written
  <2> QED BY <2>3, <2>6, <2>7, <2>8, <2>9
<1> QED BY <1>1, <1>2, <1>3, <1>4, <1>5 DEF Handle

LEMMA OthersWritten ==
    ASSUME TypeInv,
           \/ queue_packages \/ stop \/ start \/ UNCHANGED vars
           \/ \E p \in Staff : Request(p) \/ Handle(p)
    PROVE  OthersRows
<1>0. state \in [Rows -> PipelineRowStates] /\ is_complete \in [Rows -> BOOLEAN]
  BY DEF TypeInv, RowTypes
<1>1. CASE queue_packages
  <2>1. \A q \in Rows : \/ state'[q] = state[q]
                        \/ state'[q] = "PENDING" /\ state[q] = "ABSENT"
    BY <1>1 DEF queue_packages
  <2> QED BY <1>1, <2>1 DEF queue_packages, OthersRows, Written, worldVars, boundVars
<1>2. CASE stop
  <2>1. \A u \in Ticks, q \in Rows : /\ task'[u][q].pc = task[u][q].pc
                                     /\ task'[u][q].claimed = task[u][q].claimed
    BY <1>2, AbortTypes DEF TypeInv, stop
  <2>2. \A q \in Rows : Written(q) BY <1>2 DEF stop, Written, rowVars
  <2> QED BY <1>2, <2>1, <2>2 DEF stop, OthersRows, worldVars
<1>3. CASE start
  <2>1. \A q \in Rows : Written(q) BY <1>0, <1>3 DEF start, Written, swept, boundVars
  <2> QED BY <1>3, <2>1 DEF start, OthersRows, worldVars, boundVars
<1>4. CASE UNCHANGED vars
  BY <1>4 DEF vars, OthersRows, Written, rowVars, worldVars, boundVars
<1>5. ASSUME NEW p \in Staff, Request(p) PROVE OthersRows
  <2>1. UNCHANGED <<rowVars, phase, tick, task, worldVars, faults, resets>>
    BY <1>5 DEF Request, cancel_batch, reset_orphaned, cancel_row, rollback_pre_ingest,
     return_to_packaging, rollback_batch_pre, rollback_archivematica, reset_row,
     retry_access_copy, Begin
  <2> QED BY <2>1 DEF OthersRows, Written, rowVars, worldVars
<1> QED BY <1>1, <1>2, <1>3, <1>4, <1>5, StaffWritten

-----------------------------------------------------------------------------
(* Archivematica's window: in serial mode at most one open row is in it.   *)

Alone(r) == \A q \in Rows : InWindow(q) => q = r

\* A claim loop has passed every state before its position: no row in the
\* window is in one of them.
Passed(t) == \A q \in Rows : InWindow(q) =>
                \A n \in 1..(tick[t].pos - 1) : state[q] # SERIAL_PIPELINE_ORDER[n]

\* What a claim takes to the window, or a dispatch takes there, is alone.
WindowInv ==
    /\ OneInArchivematica
    /\ \A t \in Ticks, r \in Rows : Transferring(t, r) => Alone(r)
    /\ \A t \in Ticks : \A c \in tick[t].batch \cup tick[t].claimed :
          c.state \in AM_ACTIVE_STATES => Alone(c.row)
    /\ \A t \in Ticks :
          tick[t].pc \in {"list", "admit"} /\ tick[t].claimed = {} => Passed(t)

\* How far a claim loop is, by its step.
LoopShape ==
    /\ \A t \in Ticks : tick[t].pc = "snap" => tick[t].pos = 1
    /\ \A t \in Ticks : tick[t].pc \notin {"list", "admit"} => tick[t].claimed = {}
    /\ \A t \in Ticks : tick[t].pc = "admit" <=> tick[t].batch # {}
    /\ \A r \in Rows : abort_controllers[r] # 0 => r \in pipeline_dispatched

\* A set of rows has a last one: the least of the intervals n..NumRows.
LEMMA LastRow ==
    ASSUME NEW S, S \subseteq Rows, S # {}
    PROVE  \E m \in S : \A n \in S : n <= m
<1> DEFINE T == {n..NumRows : n \in S}
           R == StrictSubsetOrdering(Nat)
<1>0. NumRows \in Nat BY ConstantsAssumption
<1>1. \A n \in S : n..NumRows \subseteq Nat /\ IsFiniteSet(n..NumRows)
  BY <1>0, FS_Interval DEF Rows
<1>2. T \subseteq FiniteSubsetsOf(Nat) /\ T # {} BY <1>1 DEF FiniteSubsetsOf
<1>3. IsWellFoundedOn(R, FiniteSubsetsOf(Nat)) BY FS_StrictSubsetOrderingWellFounded
<1> HIDE DEF R
<1>4. \E x \in T : \A y \in T : ~(<<y, x>> \in R) BY <1>2, <1>3, WFMin
<1>5. PICK m \in S : \A y \in T : ~(<<y, m..NumRows>> \in R) BY <1>4
<1>6. ASSUME NEW n \in S, ~(n <= m) PROVE FALSE
  <2>1. n..NumRows \subseteq m..NumRows /\ m \in m..NumRows /\ m \notin n..NumRows
    BY <1>0, <1>6 DEF Rows
  <2>2. <<n..NumRows, m..NumRows>> \in R BY <1>1, <2>1 DEF StrictSubsetOrdering, R
  <2> QED BY <1>5, <2>2
<1> QED BY <1>6

\* list_queue answers something when there is something to answer.
LEMMA ListAnswers ==
    ASSUME NEW st, NEW limit \in Nat \ {0}, NEW q \in Rows, state[q] = st, ~is_complete[q]
    PROVE  list_queue(st, limit) # {}
<1> DEFINE found == {r \in Rows : state[r] = st /\ ~is_complete[r]}
<1>1. PICK m \in found : \A n \in found : n <= m BY LastRow
<1>2. {r \in found : r > m} = {} BY <1>1 DEF Rows
<1>3. Cardinality({r \in found : r > m}) = 0 BY <1>2, FS_EmptySet
<1>4. m \in list_queue(st, limit) BY <1>3 DEF list_queue
<1> QED BY <1>4

LEMMA NewestAnswers ==
    ASSUME NEW copies, \A c \in copies : c.row \in Rows, copies # {}
    PROVE  Newest(copies) # {}
<1> DEFINE S == {c.row : c \in copies}
<1>1. S \subseteq Rows /\ S # {} OBVIOUS
<1>2. \A c \in copies : c.row \in S OBVIOUS
<1>3. \A n \in S : \E c \in copies : c.row = n OBVIOUS
<1> HIDE DEF S
<1>4. PICK m \in S : \A n \in S : n <= m BY <1>1, LastRow
<1>5. PICK c \in copies : c.row = m BY <1>3
<1> QED BY <1>2, <1>4, <1>5 DEF Newest

\* The window lies between the upload and the queue's latest states.
LEMMA SerialOrder ==
    /\ Len(SERIAL_PIPELINE_ORDER) = 13
    /\ \A n \in 1..13 : SERIAL_PIPELINE_ORDER[n] = "UPLOAD_COMPLETE" => n = 9
    /\ \A st \in AM_INSIDE_STATES : \E n \in 5..8 : SERIAL_PIPELINE_ORDER[n] = st
    /\ \A st \in AM_ACTIVE_STATES : st \in AM_INSIDE_STATES \/ st = "UPLOAD_COMPLETE"
    /\ "PENDING" \notin AM_INSIDE_STATES
BY DEF SERIAL_PIPELINE_ORDER, AM_INSIDE_STATES, AM_ACTIVE_STATES, AM_ENTRY_STATES

LEMMA EntryMoves ==
    ASSUME NEW st \in PIPELINE_STATES
    PROVE  /\ \/ ENTRY_STEP[st] \in TransferSteps
              \/ ENTRY_STEP[st] = "ingest_entry" /\ st = "TRANSFER_COMPLETE"
              => st \in AM_ACTIVE_STATES
           /\ \A k \in Kinds : ENTRY_STEP[st] \in DueSteps(k) => st \in DueStates(k)
           /\ \A k \in Kinds : ENTRY_STEP[st] \notin DoneSteps(k)
BY DEF ENTRY_STEP, PIPELINE_STATES, TransferSteps, AM_ACTIVE_STATES, AM_ENTRY_STATES,
   AM_INSIDE_STATES, Kinds, DueSteps, DueStates, DoneSteps, Steps

\* A dispatch starts each of its rows where the state its copy holds says.
LEMMA DispatchEntry ==
    ASSUME TypeInv, NEW t \in Ticks, tick_dispatch(t), NEW q \in Rows,
           q \in {c.row : c \in tick[t].claimed}
    PROVE  \E c \in tick[t].claimed :
              /\ c.row = q /\ c.state \in PIPELINE_STATES
              /\ task'[t][q].pc = ENTRY_STEP[c.state] /\ task'[t][q].claimed = c.state
<1> DEFINE claimed == tick[t].claimed
           rows == {c.row : c \in claimed}
           copy(r) == CHOOSE c \in claimed : c.row = r
           started == [r \in Rows |-> IF r \in rows
                           THEN [pc |-> ENTRY_STEP[copy(r).state],
                                 claimed |-> copy(r).state,
                                 cols |-> copy(r).cols, aborted |-> FALSE]
                           ELSE task[t][r]]
<1>0. /\ task \in [Ticks -> [Rows -> TaskRecords]]
      /\ tick \in [Ticks -> TickRecords] /\ claimed \subseteq Copies
    BY DEF TypeInv, TaskTypes, TickTypes, TickRecords
<1>1. task' = [task EXCEPT ![t] = started] BY DEF tick_dispatch
<1>2. copy(q) \in claimed /\ copy(q).row = q OBVIOUS
<1>3. copy(q).state \in PIPELINE_STATES BY <1>0, <1>2 DEF Copies
<1>4. started[q] = [pc |-> ENTRY_STEP[copy(q).state], claimed |-> copy(q).state,
                    cols |-> copy(q).cols, aborted |-> FALSE]
  OBVIOUS
<1>5. started[q].pc = ENTRY_STEP[copy(q).state] /\ started[q].claimed = copy(q).state
  BY <1>4
<1>6. task'[t][q] = started[q]
  <2> HIDE DEF started
  <2> QED BY <1>0, <1>1
<1> HIDE DEF started, copy
<1> QED BY <1>2, <1>3, <1>5, <1>6

\* What a tick step does to its claim loop in serial mode.
LEMMA LoopStep ==
    ASSUME TypeInv, SerialInv, LoopShape, serial, NEW t \in Ticks,
           Tick(t) \/ tick_claim_failed(t), ~tick_dispatch(t)
    PROVE  \/ /\ tick'[t].pc \in {"idle", "snap"} /\ tick'[t].pos = 1
              /\ tick'[t].batch = {} /\ tick'[t].claimed = {}
           \/ /\ tick[t].pc = "snap" /\ tick'[t].pc = "list" /\ tick'[t].pos = 1
              /\ tick'[t].batch = {} /\ tick'[t].claimed = {}
           \/ /\ tick[t].pc = "list" /\ tick'[t].pc = "list"
              /\ tick[t].pos \in 1..13 /\ tick'[t].pos = tick[t].pos + 1
              /\ tick[t].claimed = {} /\ tick'[t].claimed = {} /\ tick'[t].batch = {}
              /\ SERIAL_PIPELINE_ORDER[tick[t].pos] = "PENDING"
                   \/ \A q \in Rows : ~(/\ state[q] = SERIAL_PIPELINE_ORDER[tick[t].pos]
                                        /\ ~is_complete[q])
           \/ /\ tick[t].pc = "list" /\ tick'[t].pc = "admit"
              /\ tick[t].pos \in 1..13 /\ tick'[t].pos = tick[t].pos
              /\ tick[t].claimed = {} /\ tick'[t].claimed = {} /\ tick'[t].batch # {}
              /\ \A c \in tick'[t].batch :
                    /\ c.row \in Rows /\ c.state = SERIAL_PIPELINE_ORDER[tick[t].pos]
                    /\ state[c.row] = c.state /\ ~is_complete[c.row]
           \/ /\ tick[t].pc = "admit" /\ tick'[t].pc = "list"
              /\ tick'[t].claimed # {} /\ tick'[t].batch = {}
              /\ tick'[t].claimed \subseteq tick[t].batch
<1>0. /\ tick \in [Ticks -> TickRecords] /\ tick[t] \in TickRecords
      /\ claim_order = SERIAL_PIPELINE_ORDER
  BY DEF TypeInv, TickTypes, claim_order
<1>i. /\ IdleTick \in TickRecords /\ IdleTick.pc = "idle" /\ IdleTick.claimed = {}
      /\ IdleTick.pos = 1 /\ IdleTick.batch = {}
  BY DEF IdleTick, TickRecords
<1>s. /\ tick[t].pc = "snap" => tick[t].pos = 1
      /\ tick[t].pc \notin {"list", "admit"} => tick[t].claimed = {}
      /\ tick[t].pc = "admit" <=> tick[t].batch # {}
  BY DEF LoopShape
<1>1. CASE tick_count(t)
  <2>1. PICK b \in BOOLEAN : tick' = [tick EXCEPT ![t] =
            [IdleTick EXCEPT !.pc = "snap", !.resting = b]]
    BY <1>1 DEF tick_count
  <2> DEFINE x == [IdleTick EXCEPT !.pc = "snap", !.resting = b]
  <2>2. x.pc = "snap" /\ x.claimed = {} /\ x.pos = 1 /\ x.batch = {}
    BY <1>i DEF TickRecords
  <2> HIDE DEF x
  <2>3. tick'[t] = x BY <1>0, <2>1 DEF x
  <2> QED BY <2>2, <2>3
<1>2. CASE tick_snapshot(t)
  <2>1. CASE tick' = [tick EXCEPT ![t] = IdleTick]
    BY <1>0, <1>i, <2>1
  <2>2. CASE tick' = [tick EXCEPT ![t] =
                           [tick[t] EXCEPT !.pc = "list", !.inflight = InFlight]]
    <3> DEFINE x == [tick[t] EXCEPT !.pc = "list", !.inflight = InFlight]
    <3>1. /\ x.pc = "list" /\ x.claimed = tick[t].claimed /\ x.pos = tick[t].pos
          /\ x.batch = tick[t].batch
      BY <1>0 DEF TickRecords
    <3>2. tick[t].pc = "snap" BY <1>2 DEF tick_snapshot
    <3> HIDE DEF x
    <3>3. tick'[t] = x BY <1>0, <2>2 DEF x
    <3> QED BY <1>s, <3>1, <3>2, <3>3
  <2> QED BY <1>2, <2>1, <2>2 DEF tick_snapshot
<1>3. CASE tick_list(t)
  <2> DEFINE st == SERIAL_PIPELINE_ORDER[tick[t].pos]
             rows == IF Admits(t, st)
                     THEN list_queue(st, Concurrency - Cardinality(tick[t].claimed))
                     ELSE {}
             batch == {CopyOf(r) : r \in rows}
  <2>1. tick[t].pc = "list" /\ ~LoopOver(t) BY <1>3 DEF tick_list
  <2>2. tick[t].claimed = {} BY <2>1 DEF LoopOver
  <2>3. tick[t].pos \in 1..13
    <3>1. tick[t].pos \in 1..14 BY <1>0 DEF TickRecords
    <3>2. ~(tick[t].pos > 13) BY <1>0, <2>1, SerialOrder DEF LoopOver
    <3> QED BY <3>1, <3>2
  <2>4. tick[t].batch = {} BY <1>s, <2>1
  <2>5. CASE rows = {}
    <3> DEFINE x == [tick[t] EXCEPT !.pos = tick[t].pos + 1]
    <3>1. tick' = [tick EXCEPT ![t] = x] BY <1>0, <1>3, <2>5 DEF tick_list
    <3>2. x.pc = "list" /\ x.pos = tick[t].pos + 1 /\ x.claimed = {} /\ x.batch = {}
      BY <1>0, <2>1, <2>2, <2>4 DEF TickRecords
    <3> HIDE DEF x
    <3>3. tick'[t] = x BY <1>0, <3>1
    <3>4. st = "PENDING" \/ \A q \in Rows : ~(state[q] = st /\ ~is_complete[q])
      <4>1. SUFFICES ASSUME st # "PENDING", NEW q \in Rows, state[q] = st, ~is_complete[q]
                     PROVE  FALSE
        OBVIOUS
      <4>2. Admits(t, st) BY <2>2, <4>1 DEF Admits
      <4>3. Concurrency - Cardinality(tick[t].claimed) \in Nat \ {0}
        BY <2>2, FS_EmptySet, ConstantsAssumption
      <4>4. rows = list_queue(st, Concurrency - Cardinality(tick[t].claimed)) BY <4>2
      <4> HIDE DEF rows, st
      <4> QED BY <2>5, <4>1, <4>3, <4>4, ListAnswers
    <3> QED BY <2>1, <2>2, <2>3, <3>2, <3>3, <3>4
  <2>6. CASE rows # {}
    <3> DEFINE x == [tick[t] EXCEPT !.pc = "admit", !.batch = batch]
    <3>1. tick' = [tick EXCEPT ![t] = x] BY <1>0, <1>3, <2>6 DEF tick_list
    <3>2. \A r \in rows : r \in Rows /\ state[r] = st /\ ~is_complete[r]
      BY DEF list_queue
    <3>3. /\ batch # {}
          /\ \A c \in batch : /\ c.row \in Rows /\ c.state = st
                              /\ state[c.row] = c.state /\ ~is_complete[c.row]
      <4> HIDE DEF rows, st
      <4>1. \A r \in rows : CopyOf(r).row = r /\ CopyOf(r).state = state[r] BY DEF CopyOf
      <4> QED BY <2>6, <3>2, <4>1
    <3> HIDE DEF batch, rows
    <3>4. x.pc = "admit" /\ x.pos = tick[t].pos /\ x.claimed = {} /\ x.batch = batch
      BY <1>0, <2>2 DEF TickRecords
    <3> HIDE DEF x
    <3>5. tick'[t] = x BY <1>0, <3>1
    <3> QED BY <2>1, <2>2, <2>3, <3>3, <3>4, <3>5
  <2> QED BY <2>5, <2>6
<1>4. CASE tick_admit(t)
  <2>1. tick[t].pc = "admit" BY <1>4 DEF tick_admit
  <2>2. tick[t].claimed = {} /\ pipeline_dispatched = {} BY <2>1 DEF SerialInv
  <2>3. tick[t].batch # {} /\ \A c \in tick[t].batch : c.row \in Rows
    BY <1>0, <1>s, <2>1 DEF TickRecords, Copies
  <2>4. \A r \in Rows : abort_controllers[r] = 0 BY <2>2 DEF LoopShape
  <2>5. Fresh(t) = tick[t].batch BY <2>3, <2>4 DEF Fresh
  <2> DEFINE new == Newest(Fresh(t))
             x == [tick[t] EXCEPT !.pc = "list", !.pos = tick[t].pos + 1,
                                  !.batch = {}, !.claimed = tick[t].claimed \cup new]
  <2>6. new # {} /\ new \subseteq tick[t].batch
    BY <2>3, <2>5, NewestAnswers DEF Newest
  <2>7. tick' = [tick EXCEPT ![t] = x] BY <1>4 DEF tick_admit, OneAdmit
  <2> HIDE DEF new
  <2>8. x.pc = "list" /\ x.batch = {} /\ x.claimed = new BY <1>0, <2>2 DEF TickRecords
  <2> HIDE DEF x
  <2>9. tick'[t] = x BY <1>0, <2>7
  <2> QED BY <2>1, <2>6, <2>8, <2>9
<1>5. CASE tick_return(t) BY <1>0, <1>i, <1>5 DEF tick_return
<1>6. CASE tick_claim_failed(t) BY <1>0, <1>i, <1>6 DEF tick_claim_failed
<1> QED BY <1>1, <1>2, <1>3, <1>4, <1>5, <1>6 DEF Tick

LEMMA LoopShapeStep ==
    ASSUME TypeInv, SerialInv, LoopShape, serial, [Next]_vars
    PROVE  LoopShape'
<1>i. /\ IdleTick.pc = "idle" /\ IdleTick.claimed = {} /\ IdleTick.batch = {}
      /\ [IdleTick EXCEPT !.pc = "run"].pc = "run"
      /\ [IdleTick EXCEPT !.pc = "run"].claimed = {}
      /\ [IdleTick EXCEPT !.pc = "run"].batch = {}
  BY DEF IdleTick
<1>t. tick \in [Ticks -> TickRecords] BY DEF TypeInv, TickTypes
<1>1. CASE UNCHANGED <<tick, procVars>> BY <1>1 DEF LoopShape, procVars
<1>2. CASE crash \/ exit
  <2>1. Die BY <1>2 DEF crash, exit
  <2> QED BY <1>i, <2>1 DEF Die, LoopShape
<1>3. ASSUME NEW t \in Ticks, tick_dispatch(t) PROVE LoopShape'
  <2> DEFINE rows == {c.row : c \in tick[t].claimed}
  <2>1. /\ \A u \in Ticks \ {t} : tick'[u] = tick[u]
        /\ \A q \in Rows : abort_controllers'[q] =
                 IF q \in rows THEN t ELSE abort_controllers[q]
        /\ pipeline_dispatched' = pipeline_dispatched \cup rows
    BY <1>3, DispatchStep
  <2>2. tick'[t] = IF tick[t].claimed = {} THEN IdleTick ELSE [IdleTick EXCEPT !.pc = "run"]
    BY <1>3, <1>t DEF tick_dispatch
  <2>3. tick'[t].pc \in {"idle", "run"} /\ tick'[t].claimed = {} /\ tick'[t].batch = {}
    BY <1>i, <2>2
  <2> HIDE DEF rows
  <2> QED BY <2>1, <2>3 DEF LoopShape
<1>4. ASSUME NEW t \in Ticks, Tick(t) \/ tick_claim_failed(t), ~tick_dispatch(t)
      PROVE  LoopShape'
  <2>1. UNCHANGED procVars /\ \A u \in Ticks \ {t} : tick'[u] = tick[u]
    BY <1>4, TickStep
  <2>2. /\ tick'[t].pc = "snap" => tick'[t].pos = 1
        /\ tick'[t].pc \notin {"list", "admit"} => tick'[t].claimed = {}
        /\ tick'[t].pc = "admit" <=> tick'[t].batch # {}
    BY <1>4, LoopStep
  <2> QED BY <2>1, <2>2 DEF LoopShape, procVars
<1>5. ASSUME NEW t \in Ticks, NEW r \in Rows, settle(t, r) PROVE LoopShape'
  <2>1. /\ tick' = tick
        /\ abort_controllers' = [abort_controllers EXCEPT ![r] = 0]
        /\ pipeline_dispatched' = pipeline_dispatched \ {r}
    BY <1>5 DEF settle
  <2>2. abort_controllers \in [Rows -> Ticks \cup {0}] BY DEF TypeInv, ProcTypes
  <2> QED BY <2>1, <2>2 DEF LoopShape
<1>6. CASE \/ queue_packages \/ stop \/ start \/ UNCHANGED vars
           \/ \E p \in Staff : Request(p) \/ Handle(p)
  BY <1>1, <1>6, OthersFrozen DEF Frozen
<1>7. ASSUME NEW t \in Ticks, NEW r \in Rows, Stage(t, r) \/ stage_threw(t, r)
      PROVE  LoopShape'
  BY <1>1, <1>5, <1>7, StageBooks
<1> QED BY <1>2, <1>3, <1>4, <1>6, <1>7 DEF Next

\* A stage step takes no row into the window but its own, and that one only from
\* the transfer.
LEMMA StageWindow ==
    ASSUME TypeInv, NEW t \in Ticks, NEW r \in Rows, Stage(t, r) \/ stage_threw(t, r)
    PROVE  /\ \A q \in Rows : InWindow(q)' => InWindow(q) \/ (q = r /\ Transferring(t, r))
           /\ \A u \in Ticks, q \in Rows : Transferring(u, q)' => Transferring(u, q)
<1>1. /\ \A q \in Rows \ {r} :
            state'[q] = state[q] /\ is_complete'[q] = is_complete[q]
      /\ \A u \in Ticks, q \in Rows : ~(u = t /\ q = r) => task'[u][q] = task[u][q]
  BY StageOthers, StageLocal
<1>2. /\ \A q \in Rows \ {r} : InWindow(q)' => InWindow(q)
      /\ \A u \in Ticks, q \in Rows :
            ~(u = t /\ q = r) => (Transferring(u, q)' => Transferring(u, q))
  BY <1>1 DEF InWindow, Open, Transferring
<1>3. SUFFICES /\ InWindow(r)' => InWindow(r) \/ Transferring(t, r)
               /\ Transferring(t, r)' => Transferring(t, r)
  BY <1>2
<1>n. {"ABSENT", "COMPLETE", "INGEST_HALTED"} \cap AM_INSIDE_STATES = {}
  BY DEF AM_INSIDE_STATES
<1>4. CASE Stage(t, r)
  <2>1. /\ Moves(task[t][r].pc, task[t][r].claimed, state[r], state'[r], task'[t][r].pc)
        /\ is_complete[r] => is_complete'[r] \/ state'[r] = "COMPLETE"
    BY <1>4, StageMoved DEF Moved
  <2> QED BY <1>n, <2>1 DEF Moves, InWindow, Open, Transferring
<1>5. CASE stage_threw(t, r)
  <2>1. /\ state'[r] \in {"INGEST_HALTED", state[r]} /\ is_complete' = is_complete
        /\ task'[t][r].pc = "settle"
    BY <1>5, ThrewMoved
  <2> QED BY <1>n, <2>1 DEF InWindow, Open, Transferring, TransferSteps
<1> QED BY <1>4, <1>5

\* Nobody but a stage takes a row into the window.
LEMMA OthersWindow ==
    ASSUME OthersRows
    PROVE  /\ \A q \in Rows : InWindow(q)' => InWindow(q) /\ state'[q] = state[q]
           /\ \A u \in Ticks, q \in Rows : Transferring(u, q)' => Transferring(u, q)
<1>1. (StaffStates \cup {"PENDING", "WAITING_FOR_DURACLOUD"}) \cap AM_INSIDE_STATES = {}
  BY DEF StaffStates, AM_INSIDE_STATES
<1>2. \A q \in Rows : InWindow(q)' => InWindow(q) /\ state'[q] = state[q]
  BY <1>1 DEF OthersRows, Written, InWindow, Open
<1> QED BY <1>2 DEF OthersRows, Transferring

\* A step that takes no row into the window and no copy to a claim keeps the
\* invariant.
LEMMA WindowShrinks ==
    ASSUME WindowInv, \A q \in Rows : InWindow(q)' => InWindow(q) /\ state'[q] = state[q],
           \A u \in Ticks, q \in Rows : Transferring(u, q)' => Transferring(u, q),
           UNCHANGED tick
    PROVE  WindowInv'
<1>1. \A q \in Rows : Alone(q) => Alone(q)' BY DEF Alone
<1>2. OneInArchivematica' BY DEF WindowInv, OneInArchivematica, InWindow
<1>3. \A t \in Ticks : Passed(t) => Passed(t)' BY DEF Passed
<1>4. \A t \in Ticks : \A c : Alone(c.row) => Alone(c.row)' BY DEF Alone
<1> QED BY <1>1, <1>2, <1>3, <1>4 DEF WindowInv

LEMMA WindowStep ==
    ASSUME TypeInv, ClaimInv, SerialInv, LoopShape, WindowInv, serial, ~OverlapClaims,
           [Next]_vars
    PROVE  WindowInv'
<1>1. CASE \/ queue_packages \/ stop \/ start \/ UNCHANGED vars
           \/ \E p \in Staff : Request(p) \/ Handle(p)
  <2>1. OthersRows BY <1>1, OthersWritten
  <2> QED BY <2>1, OthersWindow, WindowShrinks DEF OthersRows
<1>2. CASE crash \/ exit
  <2>1. Die BY <1>2 DEF crash, exit
  <2>2. /\ IdleTick.pc = "idle" /\ IdleTick.claimed = {} /\ IdleTick.batch = {}
        /\ IdleTask.pc = "idle"
    BY DEF IdleTick, IdleTask
  <2>3. /\ \A t \in Ticks : tick'[t].pc = "idle" /\ tick'[t].claimed = {} /\ tick'[t].batch = {}
        /\ \A t \in Ticks, r \in Rows : task'[t][r].pc = "idle"
        /\ UNCHANGED rowVars
    BY <2>1, <2>2 DEF Die
  <2>4. OneInArchivematica' BY <2>3 DEF WindowInv, OneInArchivematica, Open, rowVars
  <2>5. \A t \in Ticks, r \in Rows : ~Transferring(t, r)'
    BY <2>3 DEF Transferring, TransferSteps
  <2> QED BY <2>3, <2>4, <2>5 DEF WindowInv
<1>r. ASSUME UNCHANGED rowVars
      PROVE  /\ \A q \in Rows : InWindow(q)' = InWindow(q)
             /\ \A c : Alone(c)' = Alone(c)
             /\ OneInArchivematica'
  <2>1. \A q \in Rows : InWindow(q)' = InWindow(q) BY <1>r DEF InWindow, Open, rowVars
  <2> QED BY <1>r, <2>1 DEF Alone, WindowInv, OneInArchivematica, Open, rowVars
<1>3. ASSUME NEW t \in Ticks, tick_dispatch(t) PROVE WindowInv'
  <2> DEFINE rows == {c.row : c \in tick[t].claimed}
  <2>1. /\ tick[t].pc = "list"
        /\ \A u \in Ticks \ {t} : tick'[u] = tick[u]
        /\ tick'[t].pc \in {"idle", "run"} /\ tick'[t].claimed = {}
        /\ \A u \in Ticks, q \in Rows :
                 ~(u = t /\ q \in rows) => task'[u][q] = task[u][q]
    BY <1>3, DispatchStep
  <2>2. UNCHANGED rowVars BY <1>3 DEF tick_dispatch
  <2>3. LoopShape' BY <1>3, LoopShapeStep DEF Next, Tick
  <2>4. tick'[t].batch = {} BY <2>1, <2>3 DEF LoopShape
  <2>5. \A u \in Ticks, q \in Rows : Transferring(u, q)' => Alone(q)
    <3> SUFFICES ASSUME NEW u \in Ticks, NEW q \in Rows, Transferring(u, q)'
                 PROVE  Alone(q)
      OBVIOUS
    <3>1. CASE u = t /\ q \in rows
      <4>1. PICK c \in tick[t].claimed :
              /\ c.row = q /\ c.state \in PIPELINE_STATES
              /\ task'[t][q].pc = ENTRY_STEP[c.state] /\ task'[t][q].claimed = c.state
        BY <1>3, <3>1, DispatchEntry
      <4>2. c.state \in AM_ACTIVE_STATES BY <3>1, <4>1, EntryMoves DEF Transferring
      <4> QED BY <4>1, <4>2 DEF WindowInv
    <3>2. CASE ~(u = t /\ q \in rows)
      <4>1. Transferring(u, q) BY <2>1, <3>2 DEF Transferring
      <4> QED BY <4>1 DEF WindowInv
    <3> QED BY <3>1, <3>2
  <2> HIDE DEF rows
  <2>6. \A u \in Ticks : Passed(u)' = (\A q \in Rows : InWindow(q) =>
                \A n \in 1..(tick'[u].pos - 1) : state[q] # SERIAL_PIPELINE_ORDER[n])
    BY <1>r, <2>2 DEF Passed, rowVars
  <2>7. \A u \in Ticks \ {t} : Passed(u)' = Passed(u) BY <2>1, <2>6 DEF Passed
  <2> QED BY <1>r, <2>1, <2>2, <2>4, <2>5, <2>7 DEF WindowInv
<1>4. ASSUME NEW t \in Ticks, Tick(t) \/ tick_claim_failed(t), ~tick_dispatch(t)
      PROVE  WindowInv'
  <2>1. /\ UNCHANGED <<task, procVars>> /\ \A u \in Ticks \ {t} : tick'[u] = tick[u]
    BY <1>4, TickStep
  <2>2. UNCHANGED rowVars
    BY <1>4 DEF Tick, tick_count, tick_snapshot, tick_list, tick_admit, tick_dispatch,
       tick_return, tick_claim_failed
  <2>3. \A u \in Ticks, q \in Rows : Transferring(u, q)' = Transferring(u, q)
    BY <2>1 DEF Transferring
  <2>4. \A u \in Ticks : Passed(u)' = (\A q \in Rows : InWindow(q) =>
                \A n \in 1..(tick'[u].pos - 1) : state[q] # SERIAL_PIPELINE_ORDER[n])
    BY <1>r, <2>2 DEF Passed, rowVars
  <2>5. \A u \in Ticks \ {t} : Passed(u)' = Passed(u) BY <2>1, <2>4 DEF Passed
  <2>6. SUFFICES /\ \A c \in tick'[t].batch \cup tick'[t].claimed :
                       c.state \in AM_ACTIVE_STATES => Alone(c.row)
                 /\ tick'[t].pc \in {"list", "admit"} /\ tick'[t].claimed = {} => Passed(t)'
    <3>1. \A u \in Ticks, q \in Rows : Transferring(u, q)' => Alone(q)'
      BY <1>r, <2>2, <2>3 DEF WindowInv
    <3>2. \A u \in Ticks : \A c \in tick'[u].batch \cup tick'[u].claimed :
             c.state \in AM_ACTIVE_STATES => Alone(c.row)
      BY <2>1, <2>6 DEF WindowInv
    <3>3. \A k : Alone(k)' = Alone(k) BY <1>r, <2>2
    <3>4. \A u \in Ticks : tick'[u].pc \in {"list", "admit"} /\ tick'[u].claimed = {}
                              => Passed(u)'
      BY <2>1, <2>5, <2>6 DEF WindowInv
    <3>5. OneInArchivematica' BY <1>r, <2>2
    <3>6. \A u \in Ticks : \A c \in tick'[u].batch \cup tick'[u].claimed :
             c.state \in AM_ACTIVE_STATES => Alone(c.row)'
      BY <3>2, <3>3
    <3> QED BY <3>1, <3>4, <3>5, <3>6 DEF WindowInv
  <2>7. CASE /\ tick'[t].pos = 1 /\ tick'[t].batch = {} /\ tick'[t].claimed = {}
    <3>1. 1..(tick'[t].pos - 1) = {} BY <2>7
    <3>2. Passed(t)' BY <2>4, <3>1
    <3> QED BY <2>7, <3>2
  <2>8. CASE /\ tick[t].pc = "list" /\ tick'[t].pc = "list"
             /\ tick[t].pos \in 1..13 /\ tick'[t].pos = tick[t].pos + 1
             /\ tick[t].claimed = {} /\ tick'[t].claimed = {} /\ tick'[t].batch = {}
             /\ SERIAL_PIPELINE_ORDER[tick[t].pos] = "PENDING"
                   \/ \A q \in Rows : ~(/\ state[q] = SERIAL_PIPELINE_ORDER[tick[t].pos]
                                        /\ ~is_complete[q])
    <3>1. Passed(t) BY <2>8 DEF WindowInv
    <3>2. \A q \in Rows : InWindow(q) => state[q] # SERIAL_PIPELINE_ORDER[tick[t].pos]
      BY <2>8, SerialOrder DEF InWindow, Open
    <3>3. \A n \in 1..(tick'[t].pos - 1) : n \in 1..(tick[t].pos - 1) \/ n = tick[t].pos
      BY <2>8
    <3> QED BY <2>4, <2>8, <3>1, <3>2, <3>3 DEF Passed
  <2>9. CASE /\ tick[t].pc = "list" /\ tick'[t].pc = "admit"
             /\ tick[t].pos \in 1..13 /\ tick'[t].pos = tick[t].pos
             /\ tick[t].claimed = {} /\ tick'[t].claimed = {}
             /\ \A c \in tick'[t].batch :
                    /\ c.row \in Rows /\ c.state = SERIAL_PIPELINE_ORDER[tick[t].pos]
                    /\ state[c.row] = c.state /\ ~is_complete[c.row]
    <3>1. Passed(t) BY <2>9 DEF WindowInv
    <3>2. Passed(t)' BY <2>4, <2>9, <3>1 DEF Passed
    <3>3. ASSUME NEW c \in tick'[t].batch, c.state \in AM_ACTIVE_STATES
          PROVE  Alone(c.row)
      <4>1. CASE c.state \in AM_INSIDE_STATES
        <5>1. state[c.row] # "ABSENT" BY <2>9, <3>3, <4>1 DEF AM_INSIDE_STATES
        <5>2. InWindow(c.row) BY <2>9, <3>3, <4>1, <5>1 DEF InWindow, Open
        <5> QED BY <2>9, <3>3, <5>2 DEF WindowInv, OneInArchivematica, InWindow, Alone
      <4>2. CASE c.state = "UPLOAD_COMPLETE"
        <5>1. tick[t].pos = 9 BY <2>9, <3>3, <4>2, SerialOrder
        <5>2. \A q \in Rows : ~InWindow(q)
          <6> SUFFICES ASSUME NEW q \in Rows, InWindow(q) PROVE FALSE OBVIOUS
          <6>1. PICK n \in 5..8 : SERIAL_PIPELINE_ORDER[n] = state[q]
            BY SerialOrder DEF InWindow
          <6>2. n \in 1..(tick[t].pos - 1) BY <5>1
          <6> QED BY <3>1, <6>1, <6>2 DEF Passed
        <5> QED BY <5>2 DEF Alone
      <4> QED BY <3>3, <4>1, <4>2, SerialOrder
    <3> QED BY <2>9, <3>2, <3>3
  <2>10. CASE /\ tick'[t].claimed # {} /\ tick'[t].batch = {}
              /\ tick'[t].claimed \subseteq tick[t].batch
    BY <2>10 DEF WindowInv
  <2> HIDE DEF WindowInv, LoopShape, SerialInv
  <2> QED BY <1>4, <2>7, <2>8, <2>9, <2>10, LoopStep
<1>5. ASSUME NEW t \in Ticks, NEW r \in Rows, Stage(t, r) \/ stage_threw(t, r)
      PROVE  WindowInv'
  <2>1. Busy(t, r) BY <1>5, StageLocal
  <2>2. /\ \A q \in Rows : InWindow(q)' => InWindow(q) \/ (q = r /\ Transferring(t, r))
        /\ \A u \in Ticks, q \in Rows : Transferring(u, q)' => Transferring(u, q)
    BY <1>5, StageWindow
  <2>3. tick' = tick BY <1>5, StageBooks DEF settle
  <2>4. r \in pipeline_dispatched BY <2>1 DEF SerialInv
  <2>5. \A u \in Ticks : tick[u].pc \notin {"list", "admit"} BY <2>4 DEF SerialInv
  <2>6. \A u \in Ticks : tick[u].batch = {} /\ tick[u].claimed = {} BY <2>5 DEF LoopShape
  <2>7. \A u \in Ticks, q \in Rows : Transferring(u, q) => u = t /\ q = r
    BY <2>1 DEF SerialInv, OneDispatch, Busy, Transferring, TransferSteps
  <2>8. CASE Transferring(t, r)
    <3>1. Alone(r) BY <2>8 DEF WindowInv
    <3>2. \A q \in Rows : InWindow(q)' => q = r BY <2>2, <3>1 DEF Alone
    <3>3. OneInArchivematica' BY <3>2 DEF OneInArchivematica, InWindow
    <3> QED BY <2>2, <2>3, <2>5, <2>6, <2>7, <3>2, <3>3 DEF WindowInv, Alone
  <2>9. CASE ~Transferring(t, r)
    <3>1. \A u \in Ticks, q \in Rows : ~Transferring(u, q)' BY <2>2, <2>7, <2>9
    <3>2. OneInArchivematica' BY <2>2, <2>9 DEF WindowInv, OneInArchivematica, InWindow
    <3> QED BY <2>3, <2>5, <2>6, <3>1, <3>2 DEF WindowInv
  <2> QED BY <2>8, <2>9
<1> QED BY <1>1, <1>2, <1>3, <1>4, <1>5 DEF Next

LEMMA WindowInit == Init => WindowInv /\ LoopShape
<1> SUFFICES ASSUME Init PROVE WindowInv /\ LoopShape OBVIOUS
<1>1. \A t \in Ticks : tick[t].pc = "idle" /\ tick[t].claimed = {} /\ tick[t].batch = {}
  BY DEF Init, IdleTick
<1>2. \A t \in Ticks, r \in Rows : ~Transferring(t, r)
  BY DEF Init, IdleTask, Transferring, TransferSteps
<1>3. OneInArchivematica BY DEF Init, OneInArchivematica, Open
<1> QED BY <1>1, <1>2, <1>3 DEF Init, WindowInv, LoopShape

\* In serial mode, as long as claim phases do not overlap, at most one open row
\* is between start_transfer and the end of Archivematica's ingest, whatever
\* staff cancel, reset and retry and wherever a crash falls
\* (OneInArchivematica).
THEOREM OneInTheWindow ==
    ASSUME serial, ~OverlapClaims PROVE Spec => []OneInArchivematica
<1>1. Init => ClaimInv BY ClaimInit
<1>2. Init => SerialInv
  BY DEF Init, SerialInv, OneDispatch, Busy, IdleTick, IdleTask
<1>3. Init => WindowInv /\ LoopShape BY WindowInit
<1>4. TypeInv /\ ClaimInv /\ [Next]_vars => ClaimInv' BY ClaimStep
<1>5. TypeInv /\ ClaimInv /\ SerialInv /\ [Next]_vars => SerialInv' BY SerialStep
<1>6. TypeInv /\ SerialInv /\ LoopShape /\ [Next]_vars => LoopShape' BY LoopShapeStep
<1>7. TypeInv /\ ClaimInv /\ SerialInv /\ LoopShape /\ WindowInv /\ [Next]_vars => WindowInv'
  BY WindowStep
<1>8. WindowInv => OneInArchivematica BY DEF WindowInv
<1> QED BY <1>1, <1>2, <1>3, <1>4, <1>5, <1>6, <1>7, <1>8, TypeInvariant, PTL DEF Spec

-----------------------------------------------------------------------------
(* Repeated work: each row's counters against the faults and resets so far. *)

Due(k, r) ==
    \/ state[r] \in DueStates(k) /\ \A t \in Ticks : task[t][r].pc \notin DoneSteps(k)
    \/ \E t \in Ticks : task[t][r].pc \in DueSteps(k)
    \/ \E t \in Ticks : \E c \in tick[t].batch \cup tick[t].claimed :
          c.row = r /\ c.state \in DueStates(k)

\* A process gives each row one go, and whatever ends it counts as a fault.
Allowed == faults + resets + (IF phase = "up" THEN 1 ELSE 0)

RepeatInv ==
    /\ \A k \in Kinds, r \in Rows : /\ Count(k, r) <= Allowed
                                    /\ phase # "down" /\ Due(k, r) => Count(k, r) < Allowed
    /\ phase = "down" => \A t \in Ticks : /\ tick[t].pc = "idle"
                                          /\ \A r \in Rows : ~Busy(t, r)

LEMMA CountTypes ==
    ASSUME TypeInv
    PROVE  /\ \A k \in Kinds, r \in Rows : Count(k, r) \in Nat
           /\ Allowed \in Nat /\ faults \in Nat /\ resets \in Nat
BY DEF TypeInv, WorldTypes, BoundTypes, Count, Allowed

\* The claims a serial worker holds while a stage runs: none.
LEMMA NoClaims ==
    ASSUME SerialInv, LoopShape, NEW t \in Ticks, NEW r \in Rows, Busy(t, r)
    PROVE  \A u \in Ticks : tick[u].batch = {} /\ tick[u].claimed = {}
<1>1. r \in pipeline_dispatched BY DEF SerialInv
<1>2. \A u \in Ticks : tick[u].pc \notin {"list", "admit"} BY <1>1 DEF SerialInv
<1> QED BY <1>2 DEF LoopShape

\* A stage step keeps the budget of its own row.
LEMMA StageBudget ==
    ASSUME TypeInv, SerialInv, LoopShape, RepeatInv, NEW t \in Ticks, NEW r \in Rows, Stage(t, r), NEW k \in Kinds
    PROVE  /\ Count(k, r)' <= Allowed'
           /\ Due(k, r)' => Count(k, r)' < Allowed'
<1>1. Busy(t, r) BY StageLocal
<1>2. phase # "down" BY <1>1 DEF RepeatInv
<1>3. UNCHANGED <<phase, resets, faults>> /\ Allowed' = Allowed
  BY StageOthers DEF Allowed
<1>4. \A u \in Ticks : tick[u].batch = {} /\ tick[u].claimed = {} BY <1>1, NoClaims
<1>5. \A u \in Ticks : tick'[u].batch = {} /\ tick'[u].claimed = {}
  BY <1>4, StageBooks DEF settle
<1>6. \A u \in Ticks : u # t => task[u][r].pc = "idle" /\ task'[u][r].pc = "idle"
  BY <1>1, StageLocal DEF SerialInv, OneDispatch, Busy
<1>7. "idle" \notin DueSteps(k) /\ "idle" \notin DoneSteps(k)
  BY DEF Kinds, DueSteps, DoneSteps
<1> DEFINE pc == task[t][r].pc
           qc == task'[t][r].pc
           st == state[r]
           su == state'[r]
           m  == Count(k, r)
           n  == Count(k, r)'
<1>8. Due(k, r) <=> \/ st \in DueStates(k) /\ pc \notin DoneSteps(k)
                    \/ pc \in DueSteps(k)
  BY <1>4, <1>6, <1>7 DEF Due
<1>9. Due(k, r)' <=> \/ su \in DueStates(k) /\ qc \notin DoneSteps(k)
                     \/ qc \in DueSteps(k)
  BY <1>5, <1>6, <1>7 DEF Due
<1>10. /\ m \in Nat /\ Allowed \in Nat /\ m <= Allowed
       /\ Due(k, r) => m < Allowed
  BY <1>2, CountTypes DEF RepeatInv
<1>11. Counts(k, pc, st, su, qc, m, n) BY StageMoved DEF Moved
<1> HIDE DEF pc, qc, st, su, m, n
<1> QED BY <1>3, <1>8, <1>9, <1>10, <1>11 DEF Counts, m, n

\* The rows a step passes by: their counters stay, and what is due was due, or
\* the step is a fault, a reset or a start.
LEMMA SameBudget ==
    ASSUME TypeInv, RepeatInv, NEW k \in Kinds, NEW r \in Rows,
           Count(k, r)' = Count(k, r),
           \/ /\ Allowed' = Allowed /\ (Due(k, r)' => Due(k, r))
              /\ phase # "down"
           \/ Allowed' = Allowed /\ phase' = "down"
           \/ Allowed' >= Allowed + 1 /\ Allowed' \in Nat
    PROVE  /\ Count(k, r)' <= Allowed'
           /\ phase' # "down" /\ Due(k, r)' => Count(k, r)' < Allowed'
<1>1. /\ Count(k, r) \in Nat /\ Allowed \in Nat /\ Count(k, r) <= Allowed
      /\ phase # "down" /\ Due(k, r) => Count(k, r) < Allowed
  BY CountTypes DEF RepeatInv
<1> QED BY <1>1

LEMMA DueWritten ==
    ASSUME NEW k \in Kinds
    PROVE  /\ StaffStates \cap DueStates(k) = {}
           /\ "PENDING" \in DueStates(k) /\ "ABSENT" \in DueStates(k)
           /\ "AS_METADATA_INVALID" \in DueStates(k)
           /\ "WAITING_FOR_DURACLOUD" \in DueStates(k) => "DURACLOUD_TIMEOUT" \in DueStates(k)
BY DEF Kinds, DueStates, StaffStates, PIPELINE_STATES

\* Submissions and staff: a write that makes a row due again is counted as a
\* reset, and a start follows a fault.
LEMMA OthersRepeat ==
    ASSUME TypeInv, RepeatInv, OthersRows
    PROVE  RepeatInv'
<1>1. /\ UNCHANGED <<tick, transfers, objects>>
      /\ \A u \in Ticks, q \in Rows : task'[u][q].pc = task[u][q].pc
  BY DEF OthersRows
<1>2. \A k \in Kinds, r \in Rows : Count(k, r)' = Count(k, r) BY <1>1 DEF Count
<1>3. faults \in Nat /\ resets \in Nat /\ Allowed \in Nat BY CountTypes
<1>4. phase' = "down" => phase = "down" BY DEF OthersRows
<1>5. phase' = "down" => \A t \in Ticks : /\ tick'[t].pc = "idle"
                                          /\ \A r \in Rows : ~Busy(t, r)'
  BY <1>1, <1>4 DEF RepeatInv, Busy
<1>6. ASSUME NEW k \in Kinds, NEW r \in Rows
      PROVE  /\ Count(k, r)' <= Allowed'
             /\ phase' # "down" /\ Due(k, r)' => Count(k, r)' < Allowed'
  <2>1. CASE phase = "down" /\ phase' = "up" /\ faults' = faults /\ resets' = resets
    <3>1. Allowed' = Allowed + 1 BY <1>3, <2>1 DEF Allowed
    <3> QED BY <1>2, <1>3, <3>1, SameBudget
  <2>2. CASE resets' = resets + 1 /\ UNCHANGED <<phase, faults>>
    <3>1. Allowed' = Allowed + 1 BY <1>3, <2>2 DEF Allowed
    <3> QED BY <1>2, <1>3, <3>1, SameBudget
  <2>3. CASE /\ resets' = resets
             /\ \/ UNCHANGED <<phase, faults>>
                \/ phase = "up" /\ phase' = "stopping" /\ faults' = faults + 1
    <3>1. Allowed' = Allowed BY <1>3, <2>3 DEF Allowed
    <3>2. ~(phase = "down" /\ phase' = "up") /\ resets' # resets + 1 BY <1>3, <2>3
    <3>3. state'[r] \in DueStates(k) => state[r] \in DueStates(k)
      <4>1. Written(r) BY DEF OthersRows
      <4> QED BY <3>2, <4>1, DueWritten DEF Written
    <3>4. Due(k, r)' => Due(k, r) BY <1>1, <3>3 DEF Due
    <3>5. CASE phase # "down" BY <1>2, <3>1, <3>4, <3>5, SameBudget
    <3>6. CASE phase = "down"
      <4>1. phase' = "down" BY <2>3, <3>6
      <4> QED BY <1>2, <3>1, <4>1, SameBudget
    <3> QED BY <3>5, <3>6
  <2> QED BY <2>1, <2>2, <2>3 DEF OthersRows
<1> QED BY <1>5, <1>6 DEF RepeatInv

\* A claim only passes on what was due.
LEMMA TickRepeat ==
    ASSUME TypeInv, ClaimInv, SerialInv, LoopShape, RepeatInv, serial, NEW t \in Ticks,
           Tick(t) \/ tick_claim_failed(t)
    PROVE  RepeatInv'
<1>1. UNCHANGED <<state, phase, transfers, objects, resets>>
  BY DEF Tick, tick_count, tick_snapshot, tick_list, tick_admit, tick_dispatch,
     tick_return, tick_claim_failed, rowVars, worldVars, boundVars
<1>2. \A k \in Kinds, r \in Rows : Count(k, r)' = Count(k, r) BY <1>1 DEF Count
<1>3. faults \in Nat /\ resets \in Nat /\ Allowed \in Nat BY CountTypes
<1>i. IdleTick.pc = "idle" BY DEF IdleTick
<1>4. phase' # "down" /\ phase # "down"
  <2>1. phase = "up" \/ tick[t].pc # "idle"
    BY DEF Tick, tick_count, tick_snapshot, tick_list, tick_admit, tick_dispatch,
       tick_return, tick_claim_failed, Claiming
  <2> QED BY <1>1, <2>1 DEF RepeatInv
<1>5. SUFFICES ASSUME NEW k \in Kinds, NEW r \in Rows
               PROVE  /\ Count(k, r)' <= Allowed'
                      /\ phase' # "down" /\ Due(k, r)' => Count(k, r)' < Allowed'
  BY <1>4 DEF RepeatInv
<1>6. CASE tick_claim_failed(t)
  <2>1. Allowed' = Allowed + 1 BY <1>1, <1>3, <1>6 DEF tick_claim_failed, Allowed
  <2> QED BY <1>2, <1>3, <2>1, SameBudget
<1>7. CASE Tick(t)
  <2>1. Allowed' = Allowed
    BY <1>1, <1>7 DEF Tick, tick_count, tick_snapshot, tick_list, tick_admit, tick_dispatch,
       tick_return, boundVars, Allowed
  <2>2. SUFFICES Due(k, r)' => Due(k, r) BY <1>2, <1>4, <2>1, SameBudget
  <2>3. CASE tick_dispatch(t)
    <3> DEFINE rows == {c.row : c \in tick[t].claimed}
    <3>1. /\ tick[t].pc = "list"
          /\ \A u \in Ticks \ {t} : tick'[u] = tick[u]
          /\ tick'[t].claimed = {}
          /\ \A u \in Ticks, q \in Rows :
                 ~(u = t /\ q \in rows) => task'[u][q] = task[u][q]
      BY <2>3, DispatchStep
    <3>2. LoopShape' BY <2>3, LoopShapeStep DEF Next, Tick
    <3>3. tick'[t].batch = {}
      <4>1. tick'[t].pc \in {"idle", "run"} BY <2>3, DispatchStep
      <4> QED BY <3>2, <4>1 DEF LoopShape
    <3>4. \A u \in Ticks, q \in Rows : task[u][q].pc = "idle"
      BY <3>1 DEF SerialInv, Busy
    <3>5. "idle" \notin DueSteps(k) /\ "idle" \notin DoneSteps(k)
      BY DEF Kinds, DueSteps, DoneSteps
    <3>6. CASE r \in rows
      <4>1. PICK c \in tick[t].claimed :
              /\ c.row = r /\ c.state \in PIPELINE_STATES
              /\ task'[t][r].pc = ENTRY_STEP[c.state]
        BY <2>3, <3>6, DispatchEntry
      <4> HIDE DEF rows
      <4>2. \A u \in Ticks \ {t} : task'[u][r].pc = "idle" BY <3>1, <3>4
      <4>3. Due(k, r)' => \/ state[r] \in DueStates(k)
                          \/ ENTRY_STEP[c.state] \in DueSteps(k)
                          \/ \E u \in Ticks : \E d \in tick[u].batch \cup tick[u].claimed :
                                d.row = r /\ d.state \in DueStates(k)
        BY <1>1, <3>1, <3>3, <3>5, <4>1, <4>2 DEF Due
      <4>4. ENTRY_STEP[c.state] \in DueSteps(k) => c.state \in DueStates(k)
        BY <4>1, EntryMoves
      <4> QED BY <3>4, <3>5, <4>1, <4>3, <4>4 DEF Due
    <3>7. CASE r \notin rows
      <4> HIDE DEF rows
      <4>1. \A u \in Ticks : task'[u][r] = task[u][r] BY <3>1, <3>7
      <4> QED BY <1>1, <3>1, <3>3, <4>1 DEF Due
    <3> QED BY <3>6, <3>7
  <2>4. CASE ~tick_dispatch(t)
    <3>1. UNCHANGED task /\ \A u \in Ticks \ {t} : tick'[u] = tick[u]
      BY <1>7, <2>4, TickStep
    <3>2. \A c \in tick'[t].batch \cup tick'[t].claimed :
            \/ c \in tick[t].batch
            \/ /\ tick[t].pc = "list" /\ c.row \in Rows /\ c.state = state[c.row]
      BY <1>7, <2>4, LoopStep
    <3>3. SUFFICES ASSUME NEW c \in tick'[t].batch \cup tick'[t].claimed,
                          c.row = r, c.state \in DueStates(k)
                   PROVE  Due(k, r)
      BY <1>1, <3>1 DEF Due
    <3>4. CASE c \in tick[t].batch BY <3>3, <3>4 DEF Due
    <3>5. CASE tick[t].pc = "list" /\ c.state = state[c.row]
      <4>1. \A u \in Ticks : task[u][r].pc = "idle" BY <3>5 DEF SerialInv, Busy
      <4>2. "idle" \notin DoneSteps(k) BY DEF Kinds, DoneSteps
      <4> QED BY <3>3, <3>5, <4>1, <4>2 DEF Due
    <3> QED BY <3>2, <3>4, <3>5
  <2> QED BY <2>3, <2>4
<1> QED BY <1>6, <1>7

LEMMA RepeatStep ==
    ASSUME TypeInv, ClaimInv, SerialInv, LoopShape, RepeatInv, serial, ~OverlapClaims,
           [Next]_vars
    PROVE  RepeatInv'
<1>1. CASE \/ queue_packages \/ stop \/ start \/ UNCHANGED vars
           \/ \E p \in Staff : Request(p) \/ Handle(p)
  BY <1>1, OthersWritten, OthersRepeat
<1>2. CASE crash \/ exit
  <2>1. /\ phase' = "down" /\ UNCHANGED <<worldVars, resets>>
        /\ \A t \in Ticks : tick'[t].pc = "idle" /\ \A r \in Rows : task'[t][r].pc = "idle"
    BY <1>2 DEF crash, exit, Die, IdleTick, IdleTask
  <2>2. \A k \in Kinds, r \in Rows : Count(k, r)' = Count(k, r)
    BY <2>1 DEF Count, worldVars
  <2>3. faults \in Nat /\ resets \in Nat BY CountTypes
  <2>4. Allowed' = Allowed BY <1>2, <2>1, <2>3 DEF crash, exit, Allowed
  <2>5. ASSUME NEW k \in Kinds, NEW r \in Rows
        PROVE  /\ Count(k, r)' <= Allowed'
               /\ phase' # "down" /\ Due(k, r)' => Count(k, r)' < Allowed'
    BY <2>1, <2>2, <2>4, SameBudget
  <2> QED BY <2>1, <2>5 DEF RepeatInv, Busy
<1>3. ASSUME NEW t \in Ticks, Tick(t) \/ tick_claim_failed(t) PROVE RepeatInv'
  BY <1>3, TickRepeat
<1>4. ASSUME NEW t \in Ticks, NEW r \in Rows, Stage(t, r) PROVE RepeatInv'
  <2>1. /\ Busy(t, r)
        /\ \A u \in Ticks, q \in Rows : ~(u = t /\ q = r) => task'[u][q] = task[u][q]
    BY <1>4, StageLocal
  <2>2. phase # "down" /\ phase' # "down" BY <1>4, <2>1, StageOthers DEF RepeatInv
  <2>3. ASSUME NEW k \in Kinds, NEW q \in Rows
        PROVE  /\ Count(k, q)' <= Allowed'
               /\ phase' # "down" /\ Due(k, q)' => Count(k, q)' < Allowed'
    <3>1. CASE q = r BY <1>4, <3>1, StageBudget
    <3>2. CASE q # r
      <4>1. /\ state'[q] = state[q] /\ transfers'[q] = transfers[q]
            /\ objects'[q] = objects[q] /\ UNCHANGED <<phase, resets, faults>>
        BY <1>4, <3>2, StageOthers
      <4>2. tick' = tick BY <1>4, StageBooks DEF settle
      <4>3. Allowed' = Allowed BY <4>1 DEF Allowed
      <4>4. Count(k, q)' = Count(k, q) BY <4>1 DEF Count
      <4>5. \A u \in Ticks : task'[u][q] = task[u][q] BY <2>1, <3>2
      <4>6. Due(k, q)' => Due(k, q) BY <4>1, <4>2, <4>5 DEF Due
      <4> QED BY <2>2, <4>3, <4>4, <4>6, SameBudget
    <3> QED BY <3>1, <3>2
  <2> QED BY <2>2, <2>3 DEF RepeatInv
<1>5. ASSUME NEW t \in Ticks, NEW r \in Rows, stage_threw(t, r) PROVE RepeatInv'
  <2>1. phase # "down" /\ phase' # "down"
    BY <1>5, StageLocal, StageOthers DEF RepeatInv
  <2>2. /\ UNCHANGED <<phase, resets, transfers, objects>> /\ faults' = faults + 1
    BY <1>5, ThrewMoved, StageOthers
  <2>3. \A k \in Kinds, q \in Rows : Count(k, q)' = Count(k, q) BY <2>2 DEF Count
  <2>4. Allowed' = Allowed + 1 /\ Allowed \in Nat BY <2>2, CountTypes DEF Allowed
  <2>5. ASSUME NEW k \in Kinds, NEW q \in Rows
        PROVE  /\ Count(k, q)' <= Allowed'
               /\ phase' # "down" /\ Due(k, q)' => Count(k, q)' < Allowed'
    BY <2>3, <2>4, SameBudget
  <2> QED BY <2>1, <2>5 DEF RepeatInv
<1> QED BY <1>1, <1>2, <1>3, <1>4, <1>5 DEF Next

\* In serial mode, as long as claim phases do not overlap, a package is handed
\* to Archivematica, and gets its object, at most once more than there were
\* faults and resets (RepeatsNeedFaults).
THEOREM WorkIsNotRepeated ==
    ASSUME serial, ~OverlapClaims PROVE Spec => []RepeatsNeedFaults
<1>1. Init => ClaimInv BY ClaimInit
<1>2. Init => SerialInv
  BY DEF Init, SerialInv, OneDispatch, Busy, IdleTick, IdleTask
<1>3. Init => LoopShape BY WindowInit
<1>4. Init => RepeatInv
  <2> SUFFICES ASSUME Init PROVE RepeatInv OBVIOUS
  <2>1. \A k \in Kinds, r \in Rows : Count(k, r) = 0 BY DEF Init, Count
  <2>2. Allowed = 1 /\ phase = "up" BY DEF Init, Allowed
  <2> QED BY <2>1, <2>2 DEF RepeatInv
<1>5. TypeInv /\ ClaimInv /\ [Next]_vars => ClaimInv' BY ClaimStep
<1>6. TypeInv /\ ClaimInv /\ SerialInv /\ [Next]_vars => SerialInv' BY SerialStep
<1>7. TypeInv /\ SerialInv /\ LoopShape /\ [Next]_vars => LoopShape' BY LoopShapeStep
<1>8. TypeInv /\ ClaimInv /\ SerialInv /\ LoopShape /\ RepeatInv /\ [Next]_vars => RepeatInv'
  BY RepeatStep
<1>9. TypeInv /\ RepeatInv => RepeatsNeedFaults
  <2> SUFFICES ASSUME TypeInv, RepeatInv, NEW r \in Rows
               PROVE  transfers[r] <= 1 + faults + resets /\ objects[r] <= 1 + faults + resets
    BY DEF RepeatsNeedFaults
  <2>1. Count("transfer", r) <= Allowed /\ Count("object", r) <= Allowed
    BY DEF RepeatInv, Kinds
  <2>2. transfers[r] <= Allowed /\ objects[r] <= Allowed BY <2>1 DEF Count
  <2>3. /\ faults \in Nat /\ resets \in Nat /\ transfers[r] \in Nat /\ objects[r] \in Nat
    BY CountTypes DEF TypeInv, WorldTypes
  <2> QED BY <2>2, <2>3 DEF Allowed
<1> QED BY <1>1, <1>2, <1>3, <1>4, <1>5, <1>6, <1>7, <1>8, <1>9, TypeInvariant, PTL DEF Spec

-----------------------------------------------------------------------------
(* The evidence behind a row: it never claims to be further than its       *)
(* columns, its AIP and its repository object show, in both modes and      *)
(* under every flag.  The argument is that the evidence only grows, and    *)
(* that every place which writes a state (a stage step, a claimed copy, a  *)
(* staff retry held between its check and its write) still holds the       *)
(* evidence for it.                                                        *)

\* The states, and the steps of a dispatch, that each piece of evidence backs.
MetadataStates ==
    {"QA_COMPLETE", "UPLOADING", "UPLOAD_COMPLETE", "TRANSFER_STARTED",
     "TRANSFER_IN_PROGRESS", "TRANSFER_COMPLETE", "INGEST_IN_PROGRESS",
     "INGEST_COMPLETE", "WAITING_FOR_DURACLOUD", "METADATA_PROCESSED",
     "CREATING_REPOSITORY_RECORD", "DURACLOUD_TIMEOUT"}
FolderStates == {"TRANSFER_STARTED", "TRANSFER_IN_PROGRESS"}
AipStates    == {"INGEST_COMPLETE", "WAITING_FOR_DURACLOUD", "METADATA_PROCESSED",
                 "CREATING_REPOSITORY_RECORD", "DURACLOUD_TIMEOUT"}
SipStates    == {"TRANSFER_COMPLETE", "INGEST_IN_PROGRESS"} \cup AipStates
DipStates    == {"METADATA_PROCESSED", "CREATING_REPOSITORY_RECORD"}
ObjectStates == {"COMPLETE", "AIP_STORE_PENDING"}

FolderSteps == {"approve", "mark_in_progress", "transfer_status"}
AipSteps    == {"drift", "dip", "mets", "creating", "build"}
SipSteps    == {"ingest_entry", "ingest_status"} \cup AipSteps
MetadataSteps ==
    {"file_count", "move", "upload_status", "start_transfer", "mark_started"}
        \cup FolderSteps \cup SipSteps
DipSteps    == {"creating", "build"} \cup IF DipCopy THEN {} ELSE {"mets"}
ObjectSteps == {"archive", "complete", "hold"}

\* State st is backed by columns c, AIP a and o objects.
Backed(st, c, a, o) ==
    /\ st \in MetadataStates => "metadata" \in c
    /\ st \in FolderStates   => "transfer_folder" \in c
    /\ st \in SipStates      => "sip_uuid" \in c
    /\ st \in DipStates      => "dip_path" \in c
    /\ st \in AipStates      => a
    /\ st \in ObjectStates   => o > 0

\* So is a dispatch d at its step.
StepBacked(d, c, a, o) ==
    /\ d.pc \in MetadataSteps => "metadata" \in c
    /\ d.pc \in FolderSteps   => "transfer_folder" \in c
    /\ d.pc \in SipSteps      => "sip_uuid" \in c
    /\ d.pc \in DipSteps      => "dip_path" \in c
    /\ d.pc \in AipSteps      => a
    /\ d.pc \in ObjectSteps   => o > 0
    /\ d.pc = "ingest_entry" /\ d.claimed \in AipStates => a
    /\ "dip_path" \in d.cols  => "dip_path" \in c

\* A claimed copy is no newer than its row and carries its stage's inputs.
CopyBacked(k) ==
    /\ Backed(k.state, cols[k.row], aip[k.row], objects[k.row])
    /\ k.cols \subseteq cols[k.row]
    /\ Needed(k.state) \subseteq k.cols

RowsBacked   == \A r \in Rows : Backed(state[r], cols[r], aip[r], objects[r])
TasksBacked  == \A t \in Ticks, r \in Rows :
                    StepBacked(task[t][r], cols[r], aip[r], objects[r])
CopiesBacked == \A t \in Ticks : \A k \in tick[t].batch \cup tick[t].claimed :
                    CopyBacked(k)
RetryBacked  == \A p \in Staff : staff[p].op = "retry" =>
                    \A i \in staff[p].todo :
                       Backed("WAITING_FOR_DURACLOUD",
                              cols[i.row], aip[i.row], objects[i.row])

Evidence == /\ RowsBacked /\ TasksBacked /\ CopiesBacked /\ RetryBacked
            /\ ObjectHasAip

-----------------------------------------------------------------------------
(* What the states and steps need, and that evidence only grows *)

Grows == /\ \A r \in Rows : cols[r] \subseteq cols'[r]
         /\ \A r \in Rows : aip[r] => aip'[r]
         /\ \A r \in Rows : objects[r] > 0 => objects'[r] > 0

LEMMA BackedGrows ==
    ASSUME NEW st, NEW c, NEW a, NEW o, NEW c1, NEW a1, NEW o1,
           c \subseteq c1, a => a1, o > 0 => o1 > 0
    PROVE  Backed(st, c, a, o) => Backed(st, c1, a1, o1)
BY DEF Backed

LEMMA StepGrows ==
    ASSUME NEW d, NEW c, NEW a, NEW o, NEW c1, NEW a1, NEW o1,
           c \subseteq c1, a => a1, o > 0 => o1 > 0, StepBacked(d, c, a, o)
    PROVE  StepBacked(d, c1, a1, o1)
BY DEF StepBacked

\* States that claim nothing: the halts, the terminal states and the start.
LEMMA PlainStates ==
    \A st \in {"PENDING", "PROCESSING_METADATA", "TRANSFER_APPROVED",
               "INGEST_HALTED", "UPLOAD_TIMEOUT", "APPROVE_TIMEOUT",
               "TRANSFER_STATUS_TIMEOUT", "INGEST_STATUS_TIMEOUT", "FAILED",
               "AS_METADATA_DRIFT", "AS_METADATA_INVALID", "CANCELLED_BY_USER",
               "ROLLED_BACK_TO_READY", "RETURNED_TO_PACKAGING",
               "AM_DELETION_REQUESTED", "ABSENT"} :
        \A c, a, o : Backed(st, c, a, o)
BY DEF Backed, MetadataStates, FolderStates, SipStates, AipStates, DipStates,
       ObjectStates

\* A dispatch that is over needs nothing but its copy's dip_path.
LEMMA PlainSteps ==
    ASSUME NEW d, NEW c, NEW a, NEW o,
           d.pc \in {"idle", "settle", "mark_processing", "fetch"},
           "dip_path" \in d.cols => "dip_path" \in c
    PROVE  StepBacked(d, c, a, o)
BY DEF StepBacked, MetadataSteps, FolderSteps, SipSteps, AipSteps, DipSteps,
       ObjectSteps

\* The columns a stage looks for are columns its state is backed by.
LEMMA NeededBacked ==
    ASSUME NEW st, NEW c, NEW a, NEW o, Backed(st, c, a, o)
    PROVE  Needed(st) \subseteq c
BY DEF Backed, Needed, AM_INSIDE_STATES, AM_PRIOR_STATES, MetadataStates,
       FolderStates, SipStates, AipStates, DipStates

\* A stage starts at a step its row's state backs.
LEMMA EntryBacked ==
    ASSUME NEW st \in PIPELINE_STATES, NEW c, NEW a, NEW o, Backed(st, c, a, o),
           NEW d, d.pc = ENTRY_STEP[st], d.claimed = st, d.cols \subseteq c
    PROVE  StepBacked(d, c, a, o)
<1>1. CASE st \in {"PENDING", "PROCESSING_METADATA"}
  <2>1. d.pc = "mark_processing" BY <1>1 DEF ENTRY_STEP
  <2> QED BY <2>1, PlainSteps
<1>2. CASE st \in {"QA_COMPLETE", "UPLOADING", "UPLOAD_COMPLETE"}
  <2>1. d.pc \in {"file_count", "start_transfer"} BY <1>2 DEF ENTRY_STEP
  <2>2. "metadata" \in c BY <1>2 DEF Backed, MetadataStates
  <2> QED BY <2>1, <2>2 DEF StepBacked, MetadataSteps, FolderSteps, SipSteps,
     AipSteps, DipSteps, ObjectSteps
<1>3. CASE st \in FolderStates
  <2>1. d.pc \in {"approve", "transfer_status"} BY <1>3 DEF ENTRY_STEP, FolderStates
  <2>2. {"metadata", "transfer_folder"} \subseteq c
    BY <1>3 DEF Backed, MetadataStates, FolderStates
  <2> QED BY <2>1, <2>2 DEF StepBacked, MetadataSteps, FolderSteps, SipSteps,
     AipSteps, DipSteps, ObjectSteps
<1>4. CASE st \in Stage4States
  <2>1. d.pc = "ingest_entry" BY <1>4 DEF ENTRY_STEP, Stage4States
  <2>2. {"metadata", "sip_uuid"} \subseteq c
    BY <1>4 DEF Backed, MetadataStates, SipStates, AipStates, Stage4States
  <2>3. st \in AipStates => a BY DEF Backed
  <2> QED BY <2>1, <2>2, <2>3 DEF StepBacked, MetadataSteps, FolderSteps, SipSteps,
     AipSteps, DipSteps, ObjectSteps
<1>5. CASE st \in DipStates
  <2>1. d.pc = "creating" BY <1>5 DEF ENTRY_STEP, DipStates
  <2>2. {"metadata", "sip_uuid", "dip_path"} \subseteq c /\ a
    BY <1>5 DEF Backed, MetadataStates, SipStates, AipStates, DipStates
  <2> QED BY <2>1, <2>2 DEF StepBacked, MetadataSteps, FolderSteps, SipSteps,
     AipSteps, DipSteps, ObjectSteps
<1> QED BY <1>1, <1>2, <1>3, <1>4, <1>5
    DEF PIPELINE_STATES, FolderStates, DipStates, Stage4States

-----------------------------------------------------------------------------
(* One dispatch's step *)

\* What a step of dispatch (t, r) may do to the evidence.
Local(t, r) ==
    /\ UNCHANGED <<tick, staff>>
    /\ Grows
    /\ \A q \in Rows \ {r} : state'[q] = state[q]
    /\ \/ state'[r] = state[r]
       \/ Backed(state'[r], cols'[r], aip'[r], objects'[r])
    /\ StepBacked(task'[t][r], cols'[r], aip'[r], objects'[r])
    /\ ObjectHasAip'

\* Copies and held retries stay backed while the evidence grows.
LEMMA GrowsCopies ==
    ASSUME TypeInv, Grows, UNCHANGED <<tick, staff>>, CopiesBacked, RetryBacked
    PROVE  CopiesBacked' /\ RetryBacked'
<1>1. CopiesBacked'
  <2> SUFFICES ASSUME NEW u \in Ticks,
                      NEW k \in tick[u].batch \cup tick[u].claimed
               PROVE  CopyBacked(k)'
    BY DEF CopiesBacked
  <2>1. CopyBacked(k) BY DEF CopiesBacked
  <2>2. k.row \in Rows BY DEF TypeInv, TickTypes, TickRecords, Copies
  <2>3. Backed(k.state, cols'[k.row], aip'[k.row], objects'[k.row])
    BY <2>1, <2>2, BackedGrows DEF CopyBacked, Grows
  <2> QED BY <2>1, <2>2, <2>3 DEF CopyBacked, Grows
<1>2. RetryBacked'
  <2> SUFFICES ASSUME NEW p \in Staff, staff[p].op = "retry", NEW i \in staff[p].todo
               PROVE  Backed("WAITING_FOR_DURACLOUD", cols'[i.row], aip'[i.row],
                             objects'[i.row])
    BY DEF RetryBacked
  <2>1. i.row \in Rows BY DEF TypeInv, StaffRecords
  <2>2. Backed("WAITING_FOR_DURACLOUD", cols[i.row], aip[i.row], objects[i.row])
    BY DEF RetryBacked
  <2> QED BY <2>1, <2>2, BackedGrows DEF Grows
<1> QED BY <1>1, <1>2

LEMMA LocalEvidence ==
    ASSUME TypeInv, Evidence, NEW t \in Ticks, NEW r \in Rows, Local(t, r),
           \A u \in Ticks, q \in Rows :
               ~(u = t /\ q = r) => task'[u][q] = task[u][q]
    PROVE  Evidence'
<1>1. Grows BY DEF Local
<1>2. RowsBacked'
  <2> SUFFICES ASSUME NEW q \in Rows
               PROVE  Backed(state'[q], cols'[q], aip'[q], objects'[q])
    BY DEF RowsBacked
  <2>1. CASE state'[q] = state[q]
    <3>1. Backed(state[q], cols[q], aip[q], objects[q]) BY DEF Evidence, RowsBacked
    <3>2. Backed(state[q], cols'[q], aip'[q], objects'[q])
      BY <1>1, <3>1, BackedGrows DEF Grows
    <3> QED BY <2>1, <3>2
  <2>2. CASE q = r BY <2>1, <2>2 DEF Local
  <2> QED BY <2>1, <2>2 DEF Local
<1>3. TasksBacked'
  <2> SUFFICES ASSUME NEW u \in Ticks, NEW q \in Rows
               PROVE  StepBacked(task'[u][q], cols'[q], aip'[q], objects'[q])
    BY DEF TasksBacked
  <2>1. CASE u = t /\ q = r BY <2>1 DEF Local
  <2>2. CASE ~(u = t /\ q = r)
    <3>1. StepBacked(task[u][q], cols[q], aip[q], objects[q])
      BY DEF Evidence, TasksBacked
    <3>2. StepBacked(task[u][q], cols'[q], aip'[q], objects'[q])
      BY <1>1, <3>1, StepGrows DEF Grows
    <3> QED BY <2>2, <3>2
  <2> QED BY <2>1, <2>2
<1>4. CopiesBacked' /\ RetryBacked'
  BY <1>1, GrowsCopies DEF Local, Evidence
<1> QED BY <1>2, <1>3, <1>4 DEF Evidence, Local

\* A step that writes the row and goes on with task entry d.
LEMMA WriteLocal ==
    ASSUME TypeInv, Evidence, NEW t \in Ticks, NEW r \in Rows,
           NEW st, NEW filled, update_queue(r, st, filled),
           UNCHANGED <<tick, staff, aip, objects>>,
           Backed(st, cols[r] \cup filled, aip[r], objects[r]),
           StepBacked(task'[t][r], cols[r] \cup filled, aip[r], objects[r])
    PROVE  Local(t, r)
<1>1. /\ state \in [Rows -> PipelineRowStates]
      /\ cols \in [Rows -> SUBSET Columns]
  BY DEF TypeInv, RowTypes
<1>2. /\ state'[r] = st /\ cols'[r] = cols[r] \cup filled
      /\ \A q \in Rows \ {r} : state'[q] = state[q] /\ cols'[q] = cols[q]
  BY <1>1 DEF update_queue
<1>3. Grows BY <1>2 DEF Grows
<1>4. ObjectHasAip' BY DEF Evidence, ObjectHasAip
<1> QED BY <1>2, <1>3, <1>4 DEF Local

\* A step that leaves the row alone.
LEMMA QuietLocal ==
    ASSUME Evidence, NEW t \in Ticks, NEW r \in Rows,
           UNCHANGED rowVars, UNCHANGED <<tick, staff, aip, objects>>,
           StepBacked(task'[t][r], cols[r], aip[r], objects[r])
    PROVE  Local(t, r)
<1>1. state' = state /\ cols' = cols BY DEF rowVars
<1>2. Grows BY <1>1 DEF Grows
<1>3. ObjectHasAip' BY DEF Evidence, ObjectHasAip
<1> QED BY <1>1, <1>2, <1>3 DEF Local

\* The three ways a stage ends.
LEMMA SettleEntry ==
    ASSUME TypeInv, Evidence, NEW t \in Ticks, NEW r \in Rows, Goto(t, r, "settle"),
           NEW c, cols[r] \subseteq c
    PROVE  StepBacked(task'[t][r], c, aip[r], objects[r])
<1>1. "dip_path" \in task[t][r].cols => "dip_path" \in c
  BY DEF Evidence, TasksBacked, StepBacked
<1>2. task'[t][r].pc = "settle" /\ task'[t][r].cols = task[t][r].cols
  BY GotoEntry
<1> QED BY <1>1, <1>2, PlainSteps

LEMMA LeaveLocal ==
    ASSUME TypeInv, Evidence, NEW t \in Ticks, NEW r \in Rows,
           LeaveForResume(t, r), UNCHANGED <<tick, staff, aip, objects>>
    PROVE  Local(t, r)
BY SettleEntry, QuietLocal DEF LeaveForResume

LEMMA HaltLocal ==
    ASSUME TypeInv, Evidence, NEW t \in Ticks, NEW r \in Rows, NEW st,
           halt(t, r, st), UNCHANGED <<tick, staff, aip, objects>>,
           Backed(st, cols[r], aip[r], objects[r])
    PROVE  Local(t, r)
<1>1. update_queue(r, st, {}) /\ Goto(t, r, "settle") BY DEF halt
<1>2. cols[r] \cup {} = cols[r] OBVIOUS
<1>3. StepBacked(task'[t][r], cols[r] \cup {}, aip[r], objects[r])
  BY <1>1, SettleEntry
<1>4. Backed(st, cols[r] \cup {}, aip[r], objects[r]) BY <1>2
<1> QED BY <1>1, <1>3, <1>4, WriteLocal

LEMMA FinishLocal ==
    ASSUME TypeInv, Evidence, NEW t \in Ticks, NEW r \in Rows, NEW st, NEW filled,
           Finish(t, r, st, filled), UNCHANGED <<tick, staff, aip, objects>>,
           Backed(st, cols[r] \cup filled, aip[r], objects[r])
    PROVE  Local(t, r)
<1>1. update_queue(r, st, filled) /\ Goto(t, r, "settle") BY DEF Finish
<1>2. StepBacked(task'[t][r], cols[r] \cup filled, aip[r], objects[r])
  BY <1>1, SettleEntry
<1> QED BY <1>1, <1>2, WriteLocal

\* Going on at a step, with or without a row write.
LEMMA GotoLocal ==
    ASSUME TypeInv, Evidence, NEW t \in Ticks, NEW r \in Rows, NEW step,
           Goto(t, r, step), UNCHANGED rowVars,
           UNCHANGED <<tick, staff, aip, objects>>,
           \A d : /\ d.pc = step /\ d.claimed = task[t][r].claimed
                  /\ "dip_path" \in d.cols => "dip_path" \in cols[r]
                  => StepBacked(d, cols[r], aip[r], objects[r])
    PROVE  Local(t, r)
<1>1. "dip_path" \in task[t][r].cols => "dip_path" \in cols[r]
  BY DEF Evidence, TasksBacked, StepBacked
<1>2. StepBacked(task'[t][r], cols[r], aip[r], objects[r]) BY <1>1, GotoEntry
<1> QED BY <1>2, QuietLocal

LEMMA WriteGotoLocal ==
    ASSUME TypeInv, Evidence, NEW t \in Ticks, NEW r \in Rows,
           NEW st, NEW filled, NEW step,
           update_queue(r, st, filled), Goto(t, r, step),
           UNCHANGED <<tick, staff, aip, objects>>,
           Backed(st, cols[r] \cup filled, aip[r], objects[r]),
           \A d : /\ d.pc = step /\ d.claimed = task[t][r].claimed
                  /\ "dip_path" \in d.cols => "dip_path" \in cols[r]
                  => StepBacked(d, cols[r] \cup filled, aip[r], objects[r])
    PROVE  Local(t, r)
<1>1. "dip_path" \in task[t][r].cols => "dip_path" \in cols[r]
  BY DEF Evidence, TasksBacked, StepBacked
<1>2. StepBacked(task'[t][r], cols[r] \cup filled, aip[r], objects[r])
  BY <1>1, GotoEntry
<1> QED BY <1>2, WriteLocal

\* Stages 1 and 2.
LEMMA EarlyLocal ==
    ASSUME TypeInv, Evidence, NEW t \in Ticks, NEW r \in Rows,
           \/ mark_processing(t, r) \/ fetch_and_validate(t, r)
           \/ file_count(t, r) \/ move_package(t, r) \/ upload_status(t, r)
    PROVE  Local(t, r)
<1> DEFINE backed(step, c) ==
      \A d : /\ d.pc = step /\ d.claimed = task[t][r].claimed
             /\ "dip_path" \in d.cols => "dip_path" \in cols[r]
             => StepBacked(d, c, aip[r], objects[r])
<1>0. StepBacked(task[t][r], cols[r], aip[r], objects[r]) BY DEF Evidence, TasksBacked
<1>u. UNCHANGED <<tick, staff, aip, objects>>
  BY DEF mark_processing, fetch_and_validate, file_count, move_package,
     upload_status, StageFrame, worldVars
<1>1. CASE mark_processing(t, r)
  <2>1. Backed("PROCESSING_METADATA", cols[r] \cup {}, aip[r], objects[r])
    BY PlainStates
  <2>2. backed("fetch", cols[r] \cup {}) BY PlainSteps
  <2> QED BY <1>1, <1>u, <2>1, <2>2, WriteGotoLocal DEF mark_processing
<1>2. CASE fetch_and_validate(t, r)
  <2>1. Backed("QA_COMPLETE", cols[r] \cup {"metadata"}, aip[r], objects[r])
    BY DEF Backed, MetadataStates, FolderStates,
     SipStates, AipStates, DipStates, ObjectStates
  <2>2. /\ Backed("INGEST_HALTED", cols[r], aip[r], objects[r])
        /\ Backed("AS_METADATA_INVALID", cols[r], aip[r], objects[r])
    BY PlainStates
  <2> QED BY <1>2, <1>u, <2>1, <2>2, HaltLocal, FinishLocal DEF fetch_and_validate
<1>3. ASSUME At(t, r, "file_count") \/ At(t, r, "move") \/ At(t, r, "upload_status")
      PROVE  "metadata" \in cols[r]
  BY <1>0, <1>3 DEF At, StepBacked, MetadataSteps
<1>h. /\ Backed("INGEST_HALTED", cols[r], aip[r], objects[r])
      /\ Backed("UPLOAD_TIMEOUT", cols[r], aip[r], objects[r])
  BY PlainStates
<1>4. CASE file_count(t, r)
  <2>1. "metadata" \in cols[r] BY <1>3, <1>4 DEF file_count
  <2>2. Backed("UPLOADING", cols[r] \cup {}, aip[r], objects[r])
    BY <2>1 DEF Backed, MetadataStates, FolderStates,
     SipStates, AipStates, DipStates, ObjectStates
  <2>3. backed("move", cols[r] \cup {})
    BY <2>1 DEF StepBacked, MetadataSteps, FolderSteps,
     SipSteps, AipSteps, DipSteps, ObjectSteps
  <2> QED BY <1>4, <1>u, <1>h, <2>2, <2>3, HaltLocal, WriteGotoLocal DEF file_count
<1>5. CASE move_package(t, r)
  <2>1. "metadata" \in cols[r] BY <1>3, <1>5 DEF move_package
  <2>2. backed("upload_status", cols[r])
    BY <2>1 DEF StepBacked, MetadataSteps, FolderSteps,
     SipSteps, AipSteps, DipSteps, ObjectSteps
  <2> QED BY <1>5, <1>u, <1>h, <2>2, HaltLocal, GotoLocal DEF move_package
<1>6. CASE upload_status(t, r)
  <2>1. "metadata" \in cols[r] BY <1>3, <1>6 DEF upload_status
  <2>2. Backed("UPLOAD_COMPLETE", cols[r] \cup {}, aip[r], objects[r])
    BY <2>1 DEF Backed, MetadataStates, FolderStates,
     SipStates, AipStates, DipStates, ObjectStates
  <2> QED BY <1>6, <1>u, <1>h, <2>2, HaltLocal, LeaveLocal, FinishLocal
      DEF upload_status
<1> QED BY <1>1, <1>2, <1>4, <1>5, <1>6

\* Stage 3.
LEMMA TransferLocal ==
    ASSUME TypeInv, Evidence, NEW t \in Ticks, NEW r \in Rows,
           \/ start_transfer(t, r) \/ mark_started(t, r) \/ approve_transfer(t, r)
           \/ mark_in_progress(t, r) \/ transfer_status(t, r)
    PROVE  Local(t, r)
<1> DEFINE backed(step, c) ==
      \A d : /\ d.pc = step /\ d.claimed = task[t][r].claimed
             /\ "dip_path" \in d.cols => "dip_path" \in cols[r]
             => StepBacked(d, c, aip[r], objects[r])
<1>0. StepBacked(task[t][r], cols[r], aip[r], objects[r]) BY DEF Evidence, TasksBacked
<1>u. UNCHANGED <<tick, staff, aip, objects>>
  BY DEF start_transfer, mark_started, approve_transfer, mark_in_progress,
     transfer_status, StageFrame, worldVars
<1>h. \A st \in {"INGEST_HALTED", "APPROVE_TIMEOUT", "TRANSFER_STATUS_TIMEOUT",
                 "FAILED", "TRANSFER_APPROVED"} :
         Backed(st, cols[r], aip[r], objects[r])
  BY PlainStates
<1>m. "metadata" \in cols[r]
  BY <1>0 DEF start_transfer, mark_started, approve_transfer, mark_in_progress,
     transfer_status, At, StepBacked, MetadataSteps, FolderSteps
<1>f. ASSUME At(t, r, "approve") \/ At(t, r, "mark_in_progress")
             \/ At(t, r, "transfer_status")
      PROVE  "transfer_folder" \in cols[r]
  BY <1>0, <1>f DEF At, StepBacked, FolderSteps
<1>1. CASE start_transfer(t, r)
  <2>1. CASE Advance(t, r, {"transfer_folder"}, "mark_started") /\ UNCHANGED rowVars
    <3>1. task'[t][r].pc = "mark_started"
          /\ task'[t][r].cols = task[t][r].cols \cup {"transfer_folder"}
      BY <2>1, AdvanceEntry
    <3>2. "dip_path" \in task'[t][r].cols => "dip_path" \in cols[r]
      BY <1>0, <3>1 DEF StepBacked
    <3>3. StepBacked(task'[t][r], cols[r], aip[r], objects[r])
      BY <1>m, <3>1, <3>2 DEF StepBacked, MetadataSteps, FolderSteps,
     SipSteps, AipSteps, DipSteps, ObjectSteps
    <3> QED BY <1>u, <2>1, <3>3, QuietLocal
  <2> QED BY <1>1, <1>u, <1>h, <2>1, HaltLocal DEF start_transfer
<1>2. CASE mark_started(t, r)
  <2>1. Backed("TRANSFER_STARTED", cols[r] \cup {"transfer_folder"}, aip[r], objects[r])
    BY <1>m DEF Backed, MetadataStates, FolderStates,
     SipStates, AipStates, DipStates, ObjectStates
  <2>2. backed("approve", cols[r] \cup {"transfer_folder"})
    BY <1>m DEF StepBacked, MetadataSteps, FolderSteps,
     SipSteps, AipSteps, DipSteps, ObjectSteps
  <2> QED BY <1>2, <1>u, <2>1, <2>2, WriteGotoLocal DEF mark_started
<1>3. CASE approve_transfer(t, r)
  <2>1. "transfer_folder" \in cols[r] BY <1>f, <1>3 DEF approve_transfer
  <2>2. cols[r] \cup {} = cols[r] OBVIOUS
  <2>3. Backed("TRANSFER_APPROVED", cols[r] \cup {}, aip[r], objects[r])
    BY <1>h, <2>2
  <2>4. backed("mark_in_progress", cols[r] \cup {})
    BY <1>m, <2>1 DEF StepBacked, MetadataSteps, FolderSteps,
     SipSteps, AipSteps, DipSteps, ObjectSteps
  <2> QED BY <1>3, <1>u, <1>h, <2>3, <2>4, HaltLocal, LeaveLocal, WriteGotoLocal
      DEF approve_transfer
<1>4. CASE mark_in_progress(t, r)
  <2>1. "transfer_folder" \in cols[r] BY <1>f, <1>4 DEF mark_in_progress
  <2>2. Backed("TRANSFER_IN_PROGRESS", cols[r] \cup {}, aip[r], objects[r])
    BY <1>m, <2>1 DEF Backed, MetadataStates, FolderStates,
     SipStates, AipStates, DipStates, ObjectStates
  <2>3. backed("transfer_status", cols[r] \cup {})
    BY <1>m, <2>1 DEF StepBacked, MetadataSteps, FolderSteps,
     SipSteps, AipSteps, DipSteps, ObjectSteps
  <2> QED BY <1>4, <1>u, <2>2, <2>3, WriteGotoLocal DEF mark_in_progress
<1>5. CASE transfer_status(t, r)
  <2>1. Backed("TRANSFER_COMPLETE", cols[r] \cup {"sip_uuid"}, aip[r], objects[r])
    BY <1>m DEF Backed, MetadataStates, FolderStates,
     SipStates, AipStates, DipStates, ObjectStates
  <2> QED BY <1>5, <1>u, <1>h, <2>1, HaltLocal, LeaveLocal, FinishLocal
      DEF transfer_status
<1> QED BY <1>1, <1>2, <1>3, <1>4, <1>5

\* Stage 4.
LEMMA IngestLocal ==
    ASSUME TypeInv, Evidence, NEW t \in Ticks, NEW r \in Rows,
           \/ ingest_entry(t, r) \/ ingest_status(t, r) \/ check_for_drift(t, r)
           \/ wait_for_dip(t, r) \/ wait_for_mets(t, r)
    PROVE  Local(t, r)
<1> DEFINE backed(step, c) ==
      \A d : /\ d.pc = step /\ d.claimed = task[t][r].claimed
             /\ "dip_path" \in d.cols => "dip_path" \in cols[r]
             => StepBacked(d, c, aip[r], objects[r])
<1>0. StepBacked(task[t][r], cols[r], aip[r], objects[r]) BY DEF Evidence, TasksBacked
<1>h. \A st \in {"INGEST_HALTED", "INGEST_STATUS_TIMEOUT", "FAILED",
                 "AS_METADATA_DRIFT"} :
         Backed(st, cols[r], aip[r], objects[r])
  BY PlainStates
<1>m. "metadata" \in cols[r] /\ "sip_uuid" \in cols[r]
  BY <1>0 DEF ingest_entry, ingest_status, check_for_drift, wait_for_dip,
     wait_for_mets, At, StepBacked, MetadataSteps, SipSteps, AipSteps
<1>a. ASSUME At(t, r, "drift") \/ At(t, r, "dip") \/ At(t, r, "mets")
      PROVE  aip[r]
  BY <1>0, <1>a DEF At, StepBacked, AipSteps
<1>d. "dip_path" \in task[t][r].cols => "dip_path" \in cols[r]
  BY <1>0 DEF StepBacked
<1>1. CASE ingest_entry(t, r)
  <2>u. UNCHANGED <<tick, staff, aip, objects>>
    BY <1>1 DEF ingest_entry, StageFrame, worldVars
  <2> DEFINE claimed == task[t][r].claimed
             step == INGEST_SUBSTEP[claimed]
  <2>1. claimed \in Stage4States
    BY <1>1 DEF ingest_entry, At, TypeInv, TaskTypes, IngestClaim
  <2>2. claimed \in AipStates => aip[r]
    BY <1>0, <1>1 DEF ingest_entry, At, StepBacked
  <2>3. /\ step \in {"ingest_status", "drift", "dip"}
        /\ step \in {"drift", "dip"} => aip[r]
    BY <2>1, <2>2 DEF INGEST_SUBSTEP, Stage4States, AipStates
  <2>4. backed(step, cols[r])
    <3> HIDE DEF step
    <3> QED BY <1>m, <2>3 DEF StepBacked, MetadataSteps, FolderSteps,
     SipSteps, AipSteps, DipSteps, ObjectSteps
  <2>5. cols[r] \cup {} = cols[r] OBVIOUS
  <2>6. Backed("INGEST_IN_PROGRESS", cols[r] \cup {}, aip[r], objects[r])
    BY <1>m DEF Backed, MetadataStates, FolderStates,
     SipStates, AipStates, DipStates, ObjectStates
  <2> HIDE DEF step
  <2>7. CASE halt(t, r, "INGEST_HALTED") BY <1>h, <2>u, <2>7, HaltLocal
  <2>8. CASE update_queue(r, "INGEST_IN_PROGRESS", {}) /\ Goto(t, r, step)
    <3>1. backed(step, cols[r] \cup {}) BY <2>4, <2>5
    <3> QED BY <2>u, <2>6, <2>8, <3>1, WriteGotoLocal
  <2>9. CASE UNCHANGED rowVars /\ Goto(t, r, step)
    BY <2>u, <2>4, <2>9, GotoLocal
  <2> QED BY <1>1, <2>7, <2>8, <2>9 DEF ingest_entry, step
<1>2. CASE ingest_status(t, r)
  <2>0. UNCHANGED <<tick, staff, objects>>
    BY <1>2 DEF ingest_status, StageFrame
  <2>1. CASE /\ \/ LeaveForResume(t, r) \/ halt(t, r, "INGEST_STATUS_TIMEOUT")
                \/ halt(t, r, "FAILED")
             /\ UNCHANGED aip
    BY <1>h, <2>0, <2>1, HaltLocal, LeaveLocal
  <2>2. CASE /\ aip' = [aip EXCEPT ![r] = TRUE]
             /\ update_queue(r, "INGEST_COMPLETE", {})
             /\ Goto(t, r, "drift")
    <3>1. /\ state \in [Rows -> PipelineRowStates]
          /\ cols \in [Rows -> SUBSET Columns] /\ aip \in [Rows -> BOOLEAN]
      BY DEF TypeInv, RowTypes, WorldTypes
    <3>2. /\ state'[r] = "INGEST_COMPLETE" /\ cols' = cols /\ aip'[r]
          /\ \A q \in Rows \ {r} : state'[q] = state[q] /\ aip'[q] = aip[q]
      <4>1. cols' = [cols EXCEPT ![r] = cols[r] \cup {}] BY <2>2 DEF update_queue
      <4>2. cols' = cols BY <3>1, <4>1
      <4> QED BY <2>2, <3>1, <4>2 DEF update_queue
    <3>3. Grows BY <2>0, <3>2 DEF Grows
    <3>4. ObjectHasAip' BY <2>0, <3>2 DEF Evidence, ObjectHasAip
    <3>5. Backed("INGEST_COMPLETE", cols'[r], aip'[r], objects'[r])
      BY <1>m, <3>2 DEF Backed, MetadataStates, FolderStates,
     SipStates, AipStates, DipStates, ObjectStates
    <3>6. task'[t][r].pc = "drift" /\ task'[t][r].cols = task[t][r].cols
      BY <2>2, GotoEntry
    <3>7. StepBacked(task'[t][r], cols'[r], aip'[r], objects'[r])
      BY <1>m, <1>d, <3>2, <3>6 DEF StepBacked, MetadataSteps, FolderSteps,
     SipSteps, AipSteps, DipSteps, ObjectSteps
    <3> QED BY <2>0, <3>2, <3>3, <3>4, <3>5, <3>7 DEF Local
  <2> QED BY <1>2, <2>1, <2>2 DEF ingest_status
<1>u. ASSUME check_for_drift(t, r) \/ wait_for_dip(t, r) \/ wait_for_mets(t, r)
      PROVE  UNCHANGED <<tick, staff, aip, objects>> /\ aip[r]
  BY <1>a, <1>u DEF check_for_drift, wait_for_dip, wait_for_mets, StageFrame, worldVars
<1>3. CASE check_for_drift(t, r)
  <2>1. backed("dip", cols[r])
    BY <1>m, <1>u, <1>3 DEF StepBacked, MetadataSteps, FolderSteps,
     SipSteps, AipSteps, DipSteps, ObjectSteps
  <2> QED BY <1>3, <1>u, <1>h, <2>1, HaltLocal, GotoLocal DEF check_for_drift
<1>4. CASE wait_for_dip(t, r)
  <2>0. /\ Backed("WAITING_FOR_DURACLOUD", cols[r] \cup {}, aip[r], objects[r])
        /\ Backed("WAITING_FOR_DURACLOUD", cols[r] \cup {"dip_path"}, aip[r], objects[r])
    BY <1>m, <1>u, <1>4 DEF Backed, MetadataStates, FolderStates,
     SipStates, AipStates, DipStates, ObjectStates
  <2>1. CASE halt(t, r, "INGEST_HALTED") BY <1>h, <1>u, <1>4, <2>1, HaltLocal
  <2>2. CASE /\ update_queue(r, "WAITING_FOR_DURACLOUD", {"dip_path"})
             /\ Advance(t, r, {"dip_path"}, "mets")
    <3>1. task'[t][r].pc = "mets" BY <2>2, AdvanceEntry
    <3>2. StepBacked(task'[t][r], cols[r] \cup {"dip_path"}, aip[r], objects[r])
      BY <1>m, <1>u, <1>4, <3>1 DEF StepBacked, MetadataSteps, FolderSteps,
     SipSteps, AipSteps, DipSteps, ObjectSteps
    <3> QED BY <1>u, <1>4, <2>0, <2>2, <3>2, WriteLocal
  <2>3. CASE /\ DipCopy \/ Has(t, r, "dip_path")
             /\ \/ UNCHANGED rowVars
                \/ update_queue(r, "WAITING_FOR_DURACLOUD", {})
             /\ Goto(t, r, "mets")
    <3>1. DipCopy \/ "dip_path" \in cols[r] BY <1>d, <2>3 DEF Has
    <3>2. backed("mets", cols[r]) /\ backed("mets", cols[r] \cup {})
      BY <1>m, <1>u, <1>4, <3>1 DEF StepBacked, MetadataSteps, FolderSteps,
     SipSteps, AipSteps, DipSteps, ObjectSteps
    <3> QED BY <1>u, <1>4, <2>0, <2>3, <3>2, GotoLocal, WriteGotoLocal
  <2> QED BY <1>4, <2>1, <2>2, <2>3 DEF wait_for_dip
<1>5. CASE wait_for_mets(t, r)
  <2>0. DipCopy \/ "dip_path" \in cols[r]
    BY <1>0, <1>5 DEF wait_for_mets, At, StepBacked, DipSteps
  <2>1. CASE LeaveForResume(t, r) BY <1>u, <1>5, <2>1, LeaveLocal
  <2>2. CASE halt(t, r, "DURACLOUD_TIMEOUT") \/ halt_dip_wait(t, r)
    <3>1. PICK dip \in SUBSET {"dip_path"} : update_queue(r, "DURACLOUD_TIMEOUT", dip)
      BY <2>2 DEF halt, halt_dip_wait
    <3>2. Backed("DURACLOUD_TIMEOUT", cols[r] \cup dip, aip[r], objects[r])
      BY <1>m, <1>u, <1>5 DEF Backed, MetadataStates, FolderStates,
     SipStates, AipStates, DipStates, ObjectStates
    <3>3. StepBacked(task'[t][r], cols[r] \cup dip, aip[r], objects[r])
      BY <2>2, SettleEntry DEF halt, halt_dip_wait
    <3> QED BY <1>u, <1>5, <3>1, <3>2, <3>3, WriteLocal
  <2>3. CASE Finish(t, r, "METADATA_PROCESSED", IF DipCopy THEN {"dip_path"} ELSE {})
    <3> DEFINE filled == IF DipCopy THEN {"dip_path"} ELSE {}
    <3>1. Backed("METADATA_PROCESSED", cols[r] \cup filled, aip[r], objects[r])
      BY <1>m, <1>u, <1>5, <2>0 DEF Backed, MetadataStates, FolderStates,
     SipStates, AipStates, DipStates, ObjectStates
    <3> HIDE DEF filled
    <3> QED BY <1>u, <1>5, <2>3, <3>1, FinishLocal DEF filled
  <2> QED BY <1>5, <2>1, <2>2, <2>3 DEF wait_for_mets, wait_and_copy_dip, poll_mets
<1> QED BY <1>1, <1>2, <1>3, <1>4, <1>5

\* Stage 5.
LEMMA RepositoryLocal ==
    ASSUME TypeInv, Evidence, NEW t \in Ticks, NEW r \in Rows,
           \/ creating_record(t, r) \/ build_record(t, r) \/ archive_package(t, r)
           \/ complete_record(t, r) \/ complete_hold(t, r)
    PROVE  Local(t, r)
<1> DEFINE backed(step, c) ==
      \A d : /\ d.pc = step /\ d.claimed = task[t][r].claimed
             /\ "dip_path" \in d.cols => "dip_path" \in cols[r]
             => StepBacked(d, c, aip[r], objects[r])
<1>0. StepBacked(task[t][r], cols[r], aip[r], objects[r]) BY DEF Evidence, TasksBacked
<1>d. "dip_path" \in task[t][r].cols => "dip_path" \in cols[r]
  BY <1>0 DEF StepBacked
<1>i. ASSUME At(t, r, "creating") \/ At(t, r, "build")
      PROVE  /\ {"metadata", "sip_uuid", "dip_path"} \subseteq cols[r]
             /\ aip[r]
  BY <1>0, <1>i DEF At, StepBacked, MetadataSteps, SipSteps, AipSteps, DipSteps
<1>o. ASSUME At(t, r, "archive") \/ At(t, r, "complete") \/ At(t, r, "hold")
      PROVE  objects[r] > 0
  BY <1>0, <1>o DEF At, StepBacked, ObjectSteps
<1>h. ASSUME At(t, r, "creating") \/ At(t, r, "build")
      PROVE  \A st \in {"INGEST_HALTED", mets_halt_state} :
                Backed(st, cols[r], aip[r], objects[r])
  BY <1>i, <1>h DEF mets_halt_state, Backed, MetadataStates, FolderStates,
     SipStates, AipStates, DipStates, ObjectStates
<1>1. CASE creating_record(t, r)
  <2>u. UNCHANGED <<tick, staff, aip, objects>>
    BY <1>1 DEF creating_record, StageFrame, worldVars
  <2>i. /\ {"metadata", "sip_uuid", "dip_path"} \subseteq cols[r]
        /\ aip[r]
    BY <1>1, <1>i DEF creating_record
  <2>h. \A st \in {"INGEST_HALTED", mets_halt_state} :
                Backed(st, cols[r], aip[r], objects[r])
    BY <1>1, <1>h DEF creating_record
  <2>1. Backed("CREATING_REPOSITORY_RECORD", cols[r] \cup {}, aip[r], objects[r])
    BY <2>i DEF Backed, MetadataStates, FolderStates,
     SipStates, AipStates, DipStates, ObjectStates
  <2>2. backed("build", cols[r]) /\ backed("build", cols[r] \cup {})
    BY <2>i DEF StepBacked, MetadataSteps, FolderSteps,
     SipSteps, AipSteps, DipSteps, ObjectSteps
  <2>3. CASE halt(t, r, "INGEST_HALTED") BY <2>u, <2>h, <2>3, HaltLocal
  <2>4. CASE halt(t, r, mets_halt_state) BY <2>u, <2>h, <2>4, HaltLocal
  <2>5. CASE UNCHANGED rowVars /\ Goto(t, r, "build")
    BY <2>u, <2>2, <2>5, GotoLocal
  <2>6. CASE update_queue(r, "CREATING_REPOSITORY_RECORD", {}) /\ Goto(t, r, "build")
    BY <2>u, <2>1, <2>2, <2>6, WriteGotoLocal
  <2> QED BY <1>1, <2>3, <2>4, <2>5, <2>6 DEF creating_record
<1>2. CASE build_record(t, r)
  <2>u. UNCHANGED <<tick, staff, aip>> BY <1>2 DEF build_record, StageFrame
  <2>h. \A st \in {"INGEST_HALTED", mets_halt_state} :
                Backed(st, cols[r], aip[r], objects[r])
    BY <1>2, <1>h DEF build_record
  <2>1. CASE LeaveForResume(t, r) /\ UNCHANGED objects
    BY <2>u, <2>1, LeaveLocal
  <2>2. CASE halt(t, r, mets_halt_state) /\ UNCHANGED objects
    BY <2>u, <2>h, <2>2, HaltLocal
  <2>3. CASE halt(t, r, "INGEST_HALTED") /\ UNCHANGED objects
    BY <2>u, <2>h, <2>3, HaltLocal
  <2>4. CASE /\ objects' = [objects EXCEPT ![r] = @ + 1]
             /\ Goto(t, r, "archive") /\ UNCHANGED rowVars
    <3>1. objects \in [Rows -> Nat] BY DEF TypeInv, WorldTypes
    <3>2. /\ objects'[r] = objects[r] + 1 /\ objects'[r] > 0
          /\ \A q \in Rows \ {r} : objects'[q] = objects[q]
      BY <2>4, <3>1
    <3>3. state' = state /\ cols' = cols BY <2>4 DEF rowVars
    <3>4. Grows
      <4>1. \A q \in Rows : objects[q] > 0 => objects'[q] > 0 BY <3>2
      <4> QED BY <2>u, <3>3, <4>1 DEF Grows
    <3>5. ObjectHasAip'
      <4>1. aip[r] BY <1>2, <1>i DEF build_record
      <4> QED BY <2>u, <3>2, <4>1 DEF Evidence, ObjectHasAip
    <3>6. /\ task'[t][r].pc = "archive" /\ task'[t][r].cols = task[t][r].cols
      BY <2>4, GotoEntry
    <3>7. StepBacked(task'[t][r], cols'[r], aip'[r], objects'[r])
      BY <1>d, <3>2, <3>3, <3>6 DEF StepBacked, MetadataSteps, FolderSteps,
     SipSteps, AipSteps, DipSteps, ObjectSteps
    <3> QED BY <2>u, <3>3, <3>4, <3>5, <3>7 DEF Local
  <2> QED BY <1>2, <2>1, <2>2, <2>3, <2>4 DEF build_record
<1>3. CASE archive_package(t, r)
  <2>1. UNCHANGED <<tick, staff, aip, objects>> /\ UNCHANGED rowVars
    BY <1>3 DEF archive_package, StageFrame
  <2>2. objects[r] > 0 BY <1>3, <1>o DEF archive_package
  <2>3. backed("complete", cols[r])
    BY <2>2 DEF StepBacked, MetadataSteps, FolderSteps,
     SipSteps, AipSteps, DipSteps, ObjectSteps
  <2>4. Goto(t, r, "complete") BY <1>3 DEF archive_package
  <2> QED BY <2>1, <2>3, <2>4, GotoLocal
<1>4. CASE complete_record(t, r)
  <2>1. /\ UNCHANGED <<tick, staff, cols, aip, objects>>
        /\ state' = [state EXCEPT ![r] = "COMPLETE"] /\ Goto(t, r, "hold")
    BY <1>4 DEF complete_record, StageFrame, worldVars
  <2>2. objects[r] > 0 BY <1>4, <1>o DEF complete_record
  <2>3. /\ state'[r] = "COMPLETE"
        /\ \A q \in Rows \ {r} : state'[q] = state[q]
    BY <2>1 DEF TypeInv, RowTypes
  <2>4. Backed("COMPLETE", cols'[r], aip'[r], objects'[r])
    BY <2>1, <2>2 DEF Backed, MetadataStates, FolderStates,
     SipStates, AipStates, DipStates, ObjectStates
  <2>5. task'[t][r].pc = "hold" /\ task'[t][r].cols = task[t][r].cols
    BY <2>1, GotoEntry
  <2>6. StepBacked(task'[t][r], cols'[r], aip'[r], objects'[r])
    BY <1>d, <2>1, <2>2, <2>5 DEF StepBacked, MetadataSteps, FolderSteps,
     SipSteps, AipSteps, DipSteps, ObjectSteps
  <2>7. Grows BY <2>1 DEF Grows
  <2>8. ObjectHasAip' BY <2>1 DEF Evidence, ObjectHasAip
  <2> QED BY <2>1, <2>3, <2>4, <2>6, <2>7, <2>8 DEF Local
<1>5. CASE complete_hold(t, r)
  <2>u. UNCHANGED <<tick, staff, aip, objects>>
    BY <1>5 DEF complete_hold, StageFrame, worldVars
  <2>1. CASE LeaveForResume(t, r) BY <2>u, <2>1, LeaveLocal
  <2>2. CASE Finish(t, r, "AIP_STORE_PENDING", {})
    <3>1. objects[r] > 0 BY <1>5, <1>o DEF complete_hold
    <3>2. Backed("AIP_STORE_PENDING", cols[r] \cup {}, aip[r], objects[r])
      BY <3>1 DEF Backed, MetadataStates, FolderStates,
     SipStates, AipStates, DipStates, ObjectStates
    <3> QED BY <2>u, <2>2, <3>2, FinishLocal
  <2>3. CASE Goto(t, r, "settle") /\ UNCHANGED <<state, cols>>
    <3>1. StepBacked(task'[t][r], cols[r], aip[r], objects[r])
      <4>1. task'[t][r].pc = "settle" /\ task'[t][r].cols = task[t][r].cols
        BY <2>3, GotoEntry
      <4> QED BY <1>d, <4>1, PlainSteps
    <3>2. Grows BY <2>u, <2>3 DEF Grows
    <3>3. ObjectHasAip' BY <2>u DEF Evidence, ObjectHasAip
    <3> QED BY <2>u, <2>3, <3>1, <3>2, <3>3 DEF Local
  <2> QED BY <1>5, <2>1, <2>2, <2>3 DEF complete_hold
<1> QED BY <1>1, <1>2, <1>3, <1>4, <1>5

\* The end of a dispatch, and a stage that throws.
LEMMA SettleLocal ==
    ASSUME TypeInv, Evidence, NEW t \in Ticks, NEW r \in Rows,
           settle(t, r) \/ stage_threw(t, r)
    PROVE  Local(t, r)
<1>u. UNCHANGED <<tick, staff, aip, objects>>
  BY DEF settle, stage_threw, worldVars
<1>1. CASE settle(t, r)
  <2>1. IdleTask \in TaskRecords /\ IdleTask.pc = "idle" /\ IdleTask.cols = {}
    BY StageStates DEF IdleTask, TaskRecords
  <2>2. task'[t][r] = IdleTask
    BY <1>1, <2>1, SetTaskEntry DEF settle, TypeInv, TaskTypes
  <2>3. StepBacked(task'[t][r], cols[r], aip[r], objects[r])
    BY <2>1, <2>2, PlainSteps
  <2>4. UNCHANGED rowVars BY <1>1 DEF settle
  <2> QED BY <1>u, <2>3, <2>4, QuietLocal
<1>2. CASE stage_threw(t, r)
  <2>1. CASE halt(t, r, "INGEST_HALTED")
    <3>1. Backed("INGEST_HALTED", cols[r], aip[r], objects[r]) BY PlainStates
    <3> QED BY <1>u, <2>1, <3>1, HaltLocal
  <2>2. CASE Goto(t, r, "settle") /\ UNCHANGED rowVars
    <3>1. \A d : /\ d.pc = "settle" /\ d.claimed = task[t][r].claimed
                 /\ "dip_path" \in d.cols => "dip_path" \in cols[r]
                 => StepBacked(d, cols[r], aip[r], objects[r])
      BY PlainSteps
    <3> QED BY <1>u, <2>2, <3>1, GotoLocal
  <2> QED BY <1>2, <2>1, <2>2 DEF stage_threw
<1> QED BY <1>1, <1>2

\* Every stage step keeps the evidence.
LEMMA StageEvidence ==
    ASSUME TypeInv, Evidence, NEW t \in Ticks, NEW r \in Rows,
           Stage(t, r) \/ stage_threw(t, r)
    PROVE  Evidence'
<1>1. Local(t, r)
  BY EarlyLocal, TransferLocal, IngestLocal, RepositoryLocal, SettleLocal DEF Stage
<1>2. \A u \in Ticks, q \in Rows :
               ~(u = t /\ q = r) => task'[u][q] = task[u][q]
  BY StageLocal
<1> QED BY <1>1, <1>2, LocalEvidence

-----------------------------------------------------------------------------
(* The claim phase *)

\* A claim-phase step keeps the copies it holds or takes fresh ones.
LEMMA TickCopies ==
    ASSUME TypeInv, NEW t \in Ticks, Tick(t) \/ tick_claim_failed(t),
           ~tick_dispatch(t)
    PROVE  tick'[t].batch \cup tick'[t].claimed \subseteq
              tick[t].batch \cup tick[t].claimed \cup {CopyOf(r) : r \in Rows}
<1>0. tick \in [Ticks -> TickRecords] /\ tick[t] \in TickRecords
  BY DEF TypeInv, TickTypes
<1>i. IdleTick \in TickRecords /\ IdleTick.batch = {} /\ IdleTick.claimed = {}
  BY DEF IdleTick, TickRecords
<1>1. CASE tick_count(t)
  <2>1. PICK b \in BOOLEAN : tick' = [tick EXCEPT ![t] =
            [IdleTick EXCEPT !.pc = "snap", !.resting = b]]
    BY <1>1 DEF tick_count
  <2> DEFINE x == [IdleTick EXCEPT !.pc = "snap", !.resting = b]
  <2>2. x.batch = {} /\ x.claimed = {} BY <1>i DEF TickRecords
  <2> HIDE DEF x
  <2> QED BY <1>0, <2>1, <2>2 DEF x
<1>2. CASE tick_snapshot(t)
  <2> DEFINE x == [tick[t] EXCEPT !.pc = "list", !.inflight = InFlight]
  <2>1. x.batch = tick[t].batch /\ x.claimed = tick[t].claimed
    BY <1>0 DEF TickRecords
  <2>2. tick' = [tick EXCEPT ![t] = IF serial /\ InFlight THEN IdleTick ELSE x]
    BY <1>2 DEF tick_snapshot
  <2> HIDE DEF x
  <2> QED BY <1>0, <1>i, <2>1, <2>2
<1>3. CASE tick_list(t)
  <2>1. PICK x \in {[tick[t] EXCEPT !.pos = tick[t].pos + 1]}
              \cup {[tick[t] EXCEPT !.pc = "admit", !.batch = b] :
                       b \in SUBSET {CopyOf(r) : r \in Rows}} :
            tick' = [tick EXCEPT ![t] = x]
    BY <1>3 DEF tick_list, list_queue
  <2>2. /\ x.claimed = tick[t].claimed
        /\ x.batch = tick[t].batch \/ x.batch \subseteq {CopyOf(r) : r \in Rows}
    BY <1>0, <2>1 DEF TickRecords
  <2> QED BY <1>0, <2>1, <2>2
<1>4. CASE tick_admit(t)
  <2> DEFINE admitted == IF OneAdmit(claim_order[tick[t].pos])
                         THEN Newest(Fresh(t)) ELSE Fresh(t)
             x == [tick[t] EXCEPT !.pc = "list", !.pos = tick[t].pos + 1,
                      !.batch = {}, !.claimed = tick[t].claimed \cup admitted]
  <2>1. admitted \subseteq tick[t].batch BY DEF Newest, Fresh
  <2>2. tick' = [tick EXCEPT ![t] = x] BY <1>4 DEF tick_admit
  <2> HIDE DEF admitted
  <2>3. x.batch = {} /\ x.claimed = tick[t].claimed \cup admitted
    BY <1>0 DEF TickRecords
  <2> HIDE DEF x
  <2> QED BY <1>0, <2>1, <2>2, <2>3
<1>5. CASE tick_return(t) BY <1>0, <1>i, <1>5 DEF tick_return
<1>6. CASE tick_claim_failed(t) BY <1>0, <1>i, <1>6 DEF tick_claim_failed
<1> QED BY <1>1, <1>2, <1>3, <1>4, <1>5, <1>6 DEF Tick

\* What a claim-phase step leaves alone.
LEMMA TickFrame ==
    ASSUME NEW t \in Ticks, Tick(t) \/ tick_claim_failed(t)
    PROVE  UNCHANGED <<state, cols, staff, aip, objects>>
BY DEF Tick, tick_count, tick_snapshot, tick_list, tick_admit, tick_dispatch,
   tick_return, tick_claim_failed, rowVars, worldVars

LEMMA TickEvidence ==
    ASSUME TypeInv, Evidence, NEW t \in Ticks, Tick(t) \/ tick_claim_failed(t)
    PROVE  Evidence'
<1>u. UNCHANGED <<state, cols, staff, aip, objects>> BY TickFrame
<1>1. RowsBacked' /\ RetryBacked' /\ ObjectHasAip'
  BY <1>u DEF Evidence, RowsBacked, RetryBacked, ObjectHasAip
<1>2. \A r \in Rows : CopyBacked(CopyOf(r))
  <2> SUFFICES ASSUME NEW r \in Rows PROVE CopyBacked(CopyOf(r)) OBVIOUS
  <2>1. Backed(state[r], cols[r], aip[r], objects[r]) BY DEF Evidence, RowsBacked
  <2>2. Needed(state[r]) \subseteq cols[r] BY <2>1, NeededBacked
  <2> QED BY <2>1, <2>2 DEF CopyBacked, CopyOf
<1>3. \A k : CopyBacked(k) => CopyBacked(k)' BY <1>u DEF CopyBacked
<1>4. CASE tick_dispatch(t)
  <2> DEFINE claimed == tick[t].claimed
             rows == {c.row : c \in claimed}
             copy(q) == CHOOSE c \in claimed : c.row = q
             started == [q \in Rows |-> IF q \in rows
                           THEN [pc |-> ENTRY_STEP[copy(q).state],
                                 claimed |-> copy(q).state,
                                 cols |-> copy(q).cols, aborted |-> FALSE]
                           ELSE task[t][q]]
  <2>0. /\ task \in [Ticks -> [Rows -> TaskRecords]]
        /\ tick \in [Ticks -> TickRecords] /\ claimed \subseteq Copies
    BY DEF TypeInv, TaskTypes, TickTypes, TickRecords
  <2>1. task' = [task EXCEPT ![t] = started] BY <1>4 DEF tick_dispatch
  <2>2. ASSUME NEW q \in Rows
        PROVE  StepBacked(started[q], cols[q], aip[q], objects[q])
    <3>1. CASE q \in rows
      <4> DEFINE c == copy(q)
      <4>1. c \in claimed /\ c.row = q BY <3>1
      <4>2. CopyBacked(c) BY <4>1 DEF Evidence, CopiesBacked
      <4>3. started[q] = [pc |-> ENTRY_STEP[c.state], claimed |-> c.state,
                          cols |-> c.cols, aborted |-> FALSE]
        BY <3>1
      <4> HIDE DEF c, started, claimed
      <4>4. c.state \in PIPELINE_STATES BY <2>0, <4>1 DEF Copies
      <4>5. /\ Backed(c.state, cols[q], aip[q], objects[q])
            /\ c.cols \subseteq cols[q]
        BY <4>1, <4>2 DEF CopyBacked
      <4>6. /\ started[q].pc = ENTRY_STEP[c.state]
            /\ started[q].claimed = c.state /\ started[q].cols = c.cols
        BY <4>3
      <4> QED BY <4>4, <4>5, <4>6, EntryBacked
    <3>2. CASE q \notin rows
      <4>1. started[q] = task[t][q] BY <3>2
      <4> HIDE DEF started
      <4> QED BY <4>1 DEF Evidence, TasksBacked
    <3> QED BY <3>1, <3>2
  <2> HIDE DEF started
  <2>3. TasksBacked'
    <3>1. \A u \in Ticks \ {t} : task'[u] = task[u] BY <2>0, <2>1
    <3>2. task'[t] = started BY <2>0, <2>1
    <3> QED BY <1>u, <2>2, <3>1, <3>2 DEF Evidence, TasksBacked
  <2>4. CopiesBacked'
    <3>1. IdleTick \in TickRecords /\ IdleTick.batch = {} /\ IdleTick.claimed = {}
      BY DEF IdleTick, TickRecords
    <3> DEFINE x == [IdleTick EXCEPT !.pc = "run"]
    <3>2. x.batch = {} /\ x.claimed = {} BY <3>1 DEF TickRecords
    <3>3. tick' = [tick EXCEPT ![t] = IF claimed = {} THEN IdleTick ELSE x]
      BY <1>4 DEF tick_dispatch
    <3> HIDE DEF x, claimed
    <3>4. tick'[t].batch = {} /\ tick'[t].claimed = {}
      BY <2>0, <3>1, <3>2, <3>3
    <3>5. \A u \in Ticks \ {t} : tick'[u] = tick[u] BY <2>0, <3>3
    <3> QED BY <1>3, <3>4, <3>5 DEF Evidence, CopiesBacked
  <2> QED BY <1>1, <2>3, <2>4 DEF Evidence
<1>5. CASE ~tick_dispatch(t)
  <2>1. /\ task' = task
        /\ \A u \in Ticks \ {t} : tick'[u] = tick[u]
    BY <1>5, TickStep
  <2>2. TasksBacked' BY <1>u, <2>1 DEF Evidence, TasksBacked
  <2>3. \A k \in tick'[t].batch \cup tick'[t].claimed : CopyBacked(k)
    BY <1>2, <1>5, TickCopies DEF Evidence, CopiesBacked
  <2>4. CopiesBacked' BY <1>3, <2>1, <2>3 DEF Evidence, CopiesBacked
  <2> QED BY <1>1, <2>2, <2>4 DEF Evidence
<1> QED BY <1>4, <1>5

-----------------------------------------------------------------------------
(* Submissions, staff, shutdowns and restarts *)

\* A step that changes no column, AIP, object, claim or stage, and writes
\* states that are backed.
LEMMA StatesWritten ==
    ASSUME TypeInv, Evidence, UNCHANGED <<tick, cols, aip, objects>>,
           \A u \in Ticks, q \in Rows :
               /\ task'[u][q].pc = task[u][q].pc
               /\ task'[u][q].claimed = task[u][q].claimed
               /\ task'[u][q].cols = task[u][q].cols,
           \A q \in Rows : \/ state'[q] = state[q]
                           \/ Backed(state'[q], cols[q], aip[q], objects[q]),
           RetryBacked'
    PROVE  Evidence'
<1>1. RowsBacked' BY DEF Evidence, RowsBacked
<1>2. TasksBacked'
  <2> SUFFICES ASSUME NEW u \in Ticks, NEW q \in Rows
               PROVE  StepBacked(task'[u][q], cols[q], aip[q], objects[q])
    BY DEF TasksBacked
  <2>1. StepBacked(task[u][q], cols[q], aip[q], objects[q])
    BY DEF Evidence, TasksBacked
  <2> QED BY <2>1 DEF StepBacked
<1>3. CopiesBacked' BY DEF Evidence, CopiesBacked, CopyBacked
<1>4. ObjectHasAip' BY DEF Evidence, ObjectHasAip
<1> QED BY <1>1, <1>2, <1>3, <1>4 DEF Evidence

\* No retry begins: every retry held after the step was held before it.
NoNewRetry == \A p \in Staff : staff'[p].op = "retry" =>
                 staff[p].op = "retry" /\ staff'[p].todo \subseteq staff[p].todo

LEMMA RetryKept ==
    ASSUME RetryBacked, UNCHANGED <<cols, aip, objects>>, NoNewRetry
    PROVE  RetryBacked'
BY DEF RetryBacked, NoNewRetry

LEMMA ProceedRetry ==
    ASSUME TypeInv, NEW p \in Staff, NEW i, NEW step, Proceed(p, i, step)
    PROVE  NoNewRetry
<1> DEFINE rest == staff[p].todo \ {i}
           x == [staff[p] EXCEPT !.pc = step, !.todo = rest, !.cur = 0,
                                 !.seen = "none"]
<1>1. staff \in [Staff -> StaffRecords] /\ staff[p] \in StaffRecords
  BY DEF TypeInv
<1>2. x.op = staff[p].op /\ x.todo \subseteq staff[p].todo
  BY <1>1 DEF StaffRecords
<1>3. IdleStaff.op = "none" BY DEF IdleStaff
<1>4. staff' = [staff EXCEPT ![p] = IF rest = {} THEN IdleStaff ELSE x]
  BY DEF Proceed
<1> HIDE DEF x, rest
<1> QED BY <1>1, <1>2, <1>3, <1>4 DEF NoNewRetry

\* The entry of a request that begins.
LEMMA BeginEntry ==
    ASSUME TypeInv, NEW p \in Staff, NEW op, NEW step, NEW rows,
           Begin(p, op, step, rows)
    PROVE  /\ staff'[p].op = op /\ staff'[p].todo = {Item(op, r) : r \in rows}
           /\ \A s \in Staff \ {p} : staff'[s] = staff[s]
           /\ UNCHANGED <<state, tick, task, cols, aip, objects>>
<1> DEFINE todo == {Item(op, r) : r \in rows}
           x == [IdleStaff EXCEPT !.pc = step, !.op = op, !.todo = todo]
<1>1. staff \in [Staff -> StaffRecords] BY DEF TypeInv
<1>2. staff' = [staff EXCEPT ![p] = x] BY DEF Begin
<1> HIDE DEF todo
<1>3. x.op = op /\ x.todo = todo BY DEF IdleStaff
<1> HIDE DEF x
<1>4. staff'[p] = x /\ \A s \in Staff \ {p} : staff'[s] = staff[s] BY <1>1, <1>2
<1>5. UNCHANGED <<state, tick, task, cols, aip, objects>>
  BY DEF Begin, rowVars, worldVars
<1> QED BY <1>3, <1>4, <1>5 DEF todo

\* A request begins: only a retry takes evidence along, and it is only offered
\* for a row in DURACLOUD_TIMEOUT.
LEMMA RequestEvidence ==
    ASSUME TypeInv, Evidence, NEW p \in Staff, Request(p)
    PROVE  Evidence'
<1>1. \E op, step, rows :
        /\ Begin(p, op, step, rows)
        /\ op = "retry" => \E r \in Rows : rows = {r} /\ state[r] = "DURACLOUD_TIMEOUT"
  <2>1. CASE \E r \in Rows : retry_access_copy(p, r)
    <3>1. PICK r \in Rows : retry_access_copy(p, r) BY <2>1
    <3>2. state[r] = "DURACLOUD_TIMEOUT"
      BY <3>1 DEF retry_access_copy, Offers, available_actions, STAGE6_STATES
    <3> QED BY <3>1, <3>2 DEF retry_access_copy
  <2>2. ASSUME NEW op, NEW step, NEW rows, Begin(p, op, step, rows), op # "retry"
        PROVE  \E o, s, rs :
                 /\ Begin(p, o, s, rs)
                 /\ o = "retry" =>
                      \E r \in Rows : rs = {r} /\ state[r] = "DURACLOUD_TIMEOUT"
    BY <2>2
  <2>3. CASE cancel_batch(p)
    BY <2>2, <2>3 DEF cancel_batch
  <2>4. CASE reset_orphaned(p)
    BY <2>2, <2>4 DEF reset_orphaned
  <2>5. ASSUME NEW r \in Rows, cancel_row(p, r)
        PROVE  Begin(p, "cancel", "abort", {r})
    BY <2>5 DEF cancel_row
  <2>6. ASSUME NEW r \in Rows, rollback_pre_ingest(p, r) \/ return_to_packaging(p, r)
        PROVE  Begin(p, "rollback", "move", {r})
    BY <2>6 DEF rollback_pre_ingest, return_to_packaging
  <2>7. ASSUME NEW r \in Rows, rollback_batch_pre(p, r)
        PROVE  \E rows : Begin(p, "rollback", "move", rows)
    BY <2>7 DEF rollback_batch_pre
  <2>8. ASSUME NEW r \in Rows, rollback_archivematica(p, r) \/ reset_row(p, r)
        PROVE  \E op \in {"rollback_am", "reset"} : Begin(p, op, "write", {r})
    BY <2>8 DEF rollback_archivematica, reset_row
  <2>9. CASE \E r \in Rows :
                \/ cancel_row(p, r) \/ rollback_pre_ingest(p, r)
                \/ return_to_packaging(p, r) \/ rollback_batch_pre(p, r)
                \/ rollback_archivematica(p, r) \/ reset_row(p, r)
    BY <2>2, <2>5, <2>6, <2>7, <2>8, <2>9
  <2> QED BY <2>1, <2>3, <2>4, <2>9 DEF Request
<1>2. PICK op, step, rows :
        /\ Begin(p, op, step, rows)
        /\ op = "retry" => \E r \in Rows : rows = {r} /\ state[r] = "DURACLOUD_TIMEOUT"
  BY <1>1
<1>3. /\ staff'[p].op = op /\ staff'[p].todo = {Item(op, r) : r \in rows}
      /\ \A s \in Staff \ {p} : staff'[s] = staff[s]
      /\ UNCHANGED <<state, tick, task, cols, aip, objects>>
  BY <1>2, BeginEntry
<1>4. RetryBacked'
  <2> SUFFICES ASSUME NEW s \in Staff, staff'[s].op = "retry",
                      NEW i \in staff'[s].todo
               PROVE  Backed("WAITING_FOR_DURACLOUD", cols[i.row], aip[i.row],
                             objects[i.row])
    BY <1>3 DEF RetryBacked
  <2>1. CASE s # p BY <1>3, <2>1 DEF Evidence, RetryBacked
  <2>2. CASE s = p
    <3>1. PICK r \in Rows : rows = {r} /\ state[r] = "DURACLOUD_TIMEOUT"
      BY <1>2, <1>3, <2>2
    <3>2. i = Item(op, r) BY <1>3, <2>2, <3>1
    <3>3. i.row = r BY <3>2 DEF Item
    <3>4. Backed("DURACLOUD_TIMEOUT", cols[r], aip[r], objects[r])
      BY <3>1 DEF Evidence, RowsBacked
    <3>5. Backed("WAITING_FOR_DURACLOUD", cols[r], aip[r], objects[r])
      BY <3>4 DEF Backed, MetadataStates, FolderStates, SipStates, AipStates,
         DipStates, ObjectStates
    <3> QED BY <3>3, <3>5
  <2> QED BY <2>1, <2>2
<1> QED BY <1>3, <1>4, StatesWritten

\* A request goes on: what it writes is plain, or is the retry's state.
LEMMA HandleEvidence ==
    ASSUME TypeInv, Evidence, NEW p \in Staff, Handle(p)
    PROVE  Evidence'
<1>0. /\ staff \in [Staff -> StaffRecords] /\ staff[p] \in StaffRecords
      /\ \A i \in staff[p].todo : i.row \in Rows
      /\ state \in [Rows -> PipelineRowStates]
  BY DEF TypeInv, StaffRecords, RowTypes
<1>u. UNCHANGED <<tick, cols, aip, objects>>
  BY DEF Handle, cancel_abort, cancel_reread, cancel_write, rollback_move,
     rollback_write, staff_write, rowVars, worldVars
<1>r. ASSUME NoNewRetry PROVE RetryBacked'
  BY <1>r, <1>u, RetryKept DEF Evidence
<1>p. ASSUME NEW x, staff' = [staff EXCEPT ![p] = x],
             x.op = staff[p].op, x.todo = staff[p].todo
      PROVE  NoNewRetry
  BY <1>0, <1>p DEF NoNewRetry
<1>1. CASE cancel_abort(p)
  <2>1. PICK i \in staff[p].todo :
            /\ Abort({i.row})
            /\ staff' = [staff EXCEPT ![p] =
                            [staff[p] EXCEPT !.pc = "reread", !.cur = i.row]]
    BY <1>1 DEF cancel_abort
  <2> DEFINE x == [staff[p] EXCEPT !.pc = "reread", !.cur = i.row]
  <2>2. x.op = staff[p].op /\ x.todo = staff[p].todo BY <1>0 DEF StaffRecords
  <2> HIDE DEF x
  <2>3. NoNewRetry BY <1>p, <2>1, <2>2 DEF x
  <2>4. \A u \in Ticks, q \in Rows :
               /\ task'[u][q].pc = task[u][q].pc
               /\ task'[u][q].claimed = task[u][q].claimed
               /\ task'[u][q].cols = task[u][q].cols
    BY <1>0, <2>1, AbortTypes DEF TypeInv
  <2>5. state' = state BY <1>1 DEF cancel_abort, rowVars
  <2> QED BY <1>r, <1>u, <2>3, <2>4, <2>5, StatesWritten
<1>t. ASSUME ~cancel_abort(p) PROVE task' = task
  BY <1>t DEF Handle, cancel_reread, cancel_write, rollback_move, rollback_write,
     staff_write
<1>w. ASSUME ~cancel_abort(p), NoNewRetry,
             \A q \in Rows : \/ state'[q] = state[q]
                             \/ Backed(state'[q], cols[q], aip[q], objects[q])
      PROVE  Evidence'
  BY <1>u, <1>t, <1>r, <1>w, StatesWritten
<1>2. CASE cancel_reread(p) /\ ~cancel_abort(p)
  <2>1. PICK i \in staff[p].todo :
            \/ Proceed(p, i, "abort")
            \/ staff' = [staff EXCEPT ![p] =
                  [staff[p] EXCEPT !.pc = "write", !.seen = prior(state[i.row])]]
    BY <1>2 DEF cancel_reread
  <2> DEFINE x == [staff[p] EXCEPT !.pc = "write", !.seen = prior(state[i.row])]
  <2>2. x.op = staff[p].op /\ x.todo = staff[p].todo BY <1>0 DEF StaffRecords
  <2> HIDE DEF x
  <2>3. NoNewRetry BY <1>p, <2>1, <2>2, ProceedRetry DEF x
  <2>4. state' = state BY <1>2 DEF cancel_reread, rowVars
  <2> QED BY <1>2, <1>w, <2>3, <2>4
<1>3. CASE cancel_write(p) /\ ~cancel_abort(p)
  <2>1. PICK i \in staff[p].todo :
            /\ state' = [state EXCEPT ![i.row] = "CANCELLED_BY_USER"]
            /\ Proceed(p, i, "abort")
    BY <1>3 DEF cancel_write
  <2>2. \A q \in Rows : Backed("CANCELLED_BY_USER", cols[q], aip[q], objects[q])
    BY PlainStates
  <2> QED BY <1>0, <1>3, <1>w, <2>1, <2>2, ProceedRetry
<1>4. CASE rollback_move(p) /\ ~cancel_abort(p)
  <2>1. PICK i \in staff[p].todo :
            staff' = [staff EXCEPT ![p] =
                            [staff[p] EXCEPT !.pc = "write", !.cur = i.row]]
    BY <1>4 DEF rollback_move
  <2> DEFINE x == [staff[p] EXCEPT !.pc = "write", !.cur = i.row]
  <2>2. x.op = staff[p].op /\ x.todo = staff[p].todo BY <1>0 DEF StaffRecords
  <2> HIDE DEF x
  <2>3. NoNewRetry BY <1>p, <2>1, <2>2 DEF x
  <2>4. state' = state BY <1>4 DEF rollback_move, rowVars
  <2> QED BY <1>4, <1>w, <2>3, <2>4
<1>5. CASE rollback_write(p) /\ ~cancel_abort(p)
  <2>1. PICK i \in staff[p].todo :
            /\ \E st \in {"ROLLED_BACK_TO_READY", "RETURNED_TO_PACKAGING"} :
                    state' = [state EXCEPT ![i.row] = st]
            /\ Proceed(p, i, "move")
    BY <1>5 DEF rollback_write
  <2>2. \A q \in Rows : \A st \in {"ROLLED_BACK_TO_READY", "RETURNED_TO_PACKAGING"} :
            Backed(st, cols[q], aip[q], objects[q])
    BY PlainStates
  <2> QED BY <1>0, <1>5, <1>w, <2>1, <2>2, ProceedRetry
<1>6. CASE staff_write(p) /\ ~cancel_abort(p)
  <2>1. PICK i \in staff[p].todo :
            /\ state' = [state EXCEPT ![i.row] = StaffTarget[staff[p].op]]
            /\ Proceed(p, i, "write")
    BY <1>6 DEF staff_write
  <2>2. Backed(StaffTarget[staff[p].op], cols[i.row], aip[i.row], objects[i.row])
    <3>1. CASE staff[p].op = "retry"
      <4>1. StaffTarget[staff[p].op] = "WAITING_FOR_DURACLOUD"
        BY <3>1 DEF StaffTarget
      <4> QED BY <3>1, <4>1 DEF Evidence, RetryBacked
    <3>2. CASE staff[p].op # "retry"
      <4>1. StaffTarget[staff[p].op] \in {"AM_DELETION_REQUESTED", "PENDING"}
        BY <1>6, <3>2 DEF staff_write, StaffTarget
      <4> QED BY <4>1, PlainStates
    <3> QED BY <3>1, <3>2
  <2>3. \A q \in Rows : \/ state'[q] = state[q]
                        \/ Backed(state'[q], cols[q], aip[q], objects[q])
    BY <1>0, <2>1, <2>2
  <2> QED BY <1>6, <1>w, <2>1, <2>3, ProceedRetry
<1> QED BY <1>1, <1>2, <1>3, <1>4, <1>5, <1>6 DEF Handle

\* A submission, a shutdown, a crash and a restart.
LEMMA ProcessEvidence ==
    ASSUME TypeInv, Evidence, queue_packages \/ stop \/ crash \/ exit \/ start
    PROVE  Evidence'
<1>p. \A q \in Rows : Backed("PENDING", cols[q], aip[q], objects[q])
  BY PlainStates
<1>1. CASE queue_packages
  <2>1. \A q \in Rows : state'[q] \in {state[q], "PENDING"}
    BY <1>1 DEF queue_packages
  <2>2. UNCHANGED <<tick, task, staff, cols, aip, objects>>
    BY <1>1 DEF queue_packages, worldVars
  <2>3. RetryBacked' BY <2>2 DEF Evidence, RetryBacked
  <2> QED BY <1>p, <2>1, <2>2, <2>3, StatesWritten
<1>2. CASE stop
  <2>1. UNCHANGED <<tick, staff, state, cols, aip, objects>> /\ Abort(Rows)
    BY <1>2 DEF stop, rowVars, worldVars
  <2>2. \A u \in Ticks, q \in Rows :
               /\ task'[u][q].pc = task[u][q].pc
               /\ task'[u][q].claimed = task[u][q].claimed
               /\ task'[u][q].cols = task[u][q].cols
    BY <2>1, AbortTypes DEF TypeInv
  <2>3. RetryBacked' BY <2>1 DEF Evidence, RetryBacked
  <2> QED BY <2>1, <2>2, <2>3, StatesWritten
<1>3. CASE start
  <2>1. \A q \in Rows : state'[q] \in {state[q], "PENDING"}
    BY <1>3 DEF start, swept
  <2>2. UNCHANGED <<tick, task, staff, cols, aip, objects>>
    BY <1>3 DEF start, worldVars
  <2>3. RetryBacked' BY <2>2 DEF Evidence, RetryBacked
  <2> QED BY <1>p, <2>1, <2>2, <2>3, StatesWritten
<1>4. CASE crash \/ exit
  <2>1. Die BY <1>4 DEF crash, exit
  <2>2. UNCHANGED <<state, cols, aip, objects>> BY <2>1 DEF Die, rowVars, worldVars
  <2>3. /\ IdleTick.batch = {} /\ IdleTick.claimed = {}
        /\ IdleTask.pc = "idle" /\ IdleTask.cols = {} /\ IdleStaff.op = "none"
    BY DEF IdleTick, IdleTask, IdleStaff
  <2>4. /\ \A u \in Ticks : tick'[u].batch = {} /\ tick'[u].claimed = {}
        /\ \A u \in Ticks, q \in Rows : task'[u][q].pc = "idle" /\ task'[u][q].cols = {}
        /\ \A s \in Staff : staff'[s].op = "none"
    BY <2>1, <2>3 DEF Die
  <2>5. TasksBacked'
    <3>1. \A u \in Ticks, q \in Rows :
             StepBacked(task'[u][q], cols'[q], aip'[q], objects'[q])
      BY <2>4, PlainSteps
    <3> QED BY <3>1 DEF TasksBacked
  <2>6. RowsBacked' /\ CopiesBacked' /\ RetryBacked' /\ ObjectHasAip'
    BY <2>2, <2>4 DEF Evidence, RowsBacked, CopiesBacked, RetryBacked, ObjectHasAip
  <2> QED BY <2>5, <2>6 DEF Evidence
<1> QED BY <1>1, <1>2, <1>3, <1>4

-----------------------------------------------------------------------------
(* The theorems *)

LEMMA EvidenceInit == Init => Evidence
<1> SUFFICES ASSUME Init PROVE Evidence OBVIOUS
<1>1. /\ IdleTick.batch = {} /\ IdleTick.claimed = {}
      /\ IdleTask.pc = "idle" /\ IdleTask.cols = {} /\ IdleStaff.op = "none"
  BY DEF IdleTick, IdleTask, IdleStaff
<1>2. RowsBacked
  <2>1. \A q \in Rows : state[q] = "ABSENT" BY DEF Init
  <2> QED BY <2>1, PlainStates DEF RowsBacked
<1>3. TasksBacked
  <2>1. \A u \in Ticks, q \in Rows : task[u][q].pc = "idle" /\ task[u][q].cols = {}
    BY <1>1 DEF Init
  <2>2. \A u \in Ticks, q \in Rows :
            StepBacked(task[u][q], cols[q], aip[q], objects[q])
    BY <2>1, PlainSteps
  <2> QED BY <2>2 DEF TasksBacked
<1>4. CopiesBacked
  <2>1. \A u \in Ticks : tick[u].batch = {} /\ tick[u].claimed = {}
    BY <1>1 DEF Init
  <2> QED BY <2>1 DEF CopiesBacked
<1>5. RetryBacked
  <2>1. \A p \in Staff : staff[p].op = "none" BY <1>1 DEF Init
  <2> QED BY <2>1 DEF RetryBacked
<1>6. ObjectHasAip
  <2>1. \A r \in Rows : objects[r] = 0 BY DEF Init
  <2> QED BY <2>1 DEF ObjectHasAip
<1> QED BY <1>2, <1>3, <1>4, <1>5, <1>6 DEF Evidence

LEMMA EvidenceStep == TypeInv /\ Evidence /\ [Next]_vars => Evidence'
<1> SUFFICES ASSUME TypeInv, Evidence, [Next]_vars PROVE Evidence' OBVIOUS
<1>1. CASE queue_packages \/ stop \/ crash \/ exit \/ start
  BY <1>1, ProcessEvidence
<1>2. CASE \E t \in Ticks : Tick(t) \/ tick_claim_failed(t) BY <1>2, TickEvidence
<1>3. CASE \E t \in Ticks, r \in Rows : Stage(t, r) \/ stage_threw(t, r)
  BY <1>3, StageEvidence
<1>4. CASE \E p \in Staff : Request(p) \/ Handle(p)
  BY <1>4, RequestEvidence, HandleEvidence
<1>5. CASE UNCHANGED vars
  BY <1>5 DEF vars, rowVars, worldVars, Evidence, RowsBacked, TasksBacked,
     CopiesBacked, CopyBacked, RetryBacked, ObjectHasAip
<1> QED BY <1>1, <1>2, <1>3, <1>4, <1>5 DEF Next

\* The evidence is kept by every step of the system.
THEOREM EvidenceKept == Spec => []Evidence
BY EvidenceInit, EvidenceStep, TypeInvariant, PTL DEF Spec

\* Every row, and every copy a claim holds, has the columns its stage reads,
\* on every resume path and whatever staff and crashes do: the missing_* halts
\* of stages 3 to 5 cannot fire (StageInputs).
THEOREM InputsFound == Spec => []StageInputs
<1>1. Evidence => StageInputs
  <2> SUFFICES ASSUME Evidence PROVE StageInputs OBVIOUS
  <2>1. \A r \in Rows : Needed(state[r]) \subseteq cols[r]
    BY NeededBacked DEF Evidence, RowsBacked
  <2>2. \A t \in Ticks : \A c \in tick[t].claimed : Needed(c.state) \subseteq c.cols
    BY DEF Evidence, CopiesBacked, CopyBacked
  <2> QED BY <2>1, <2>2 DEF StageInputs
<1> QED BY <1>1, EvidenceKept, PTL

\* A row that reports COMPLETE, or waits for its AIP copy, has its repository
\* object, whatever ran beside it (CompleteHasObject).
THEOREM CompleteMeansObject == Spec => []CompleteHasObject
<1>1. Evidence => CompleteHasObject
  BY DEF Evidence, RowsBacked, Backed, ObjectStates, CompleteHasObject
<1> QED BY <1>1, EvidenceKept, PTL

\* No repository object is built before Archivematica has finished the
\* package's ingest, even in the interleaved mode and with overlapping claims
\* (ObjectHasAip).
THEOREM ObjectMeansAip == Spec => []ObjectHasAip
<1>1. Evidence => ObjectHasAip BY DEF Evidence
<1> QED BY <1>1, EvidenceKept, PTL

=============================================================================
