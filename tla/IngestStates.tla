---------------------------- MODULE IngestStates ----------------------------
(***************************************************************************)
(* The vocabulary of the ingest queue: the pipeline states of a            *)
(* tbl_ingest_queue row, the sets the worker gates its claims with         *)
(* (ingester/worker.js), the sets the model guards its sweeps with         *)
(* (ingester/model.js) and the table of staff actions                      *)
(* (ingester/state_metadata.js).  Everything here is a constant.           *)
(***************************************************************************)
EXTENDS Naturals, Sequences

STAGE6_STATES == {"AIP_STORE_PENDING", "AIP_STORE_IN_PROGRESS"}

\* The serialized part of the pipeline, stages 1 to 5.
PIPELINE_STATES ==
    {"PENDING", "PROCESSING_METADATA", "QA_COMPLETE", "UPLOADING",
     "UPLOAD_COMPLETE", "TRANSFER_STARTED", "TRANSFER_IN_PROGRESS",
     "TRANSFER_COMPLETE", "INGEST_IN_PROGRESS", "INGEST_COMPLETE",
     "WAITING_FOR_DURACLOUD", "METADATA_PROCESSED",
     "CREATING_REPOSITORY_RECORD"}

\* A package already in flight: every pipeline state but the entry state.
PIPELINE_MID_STATES == PIPELINE_STATES \ {"PENDING"}

\* The serial claim order of stages 1 to 5: latest stage first.
SERIAL_PIPELINE_ORDER ==
    <<"CREATING_REPOSITORY_RECORD", "METADATA_PROCESSED",
      "WAITING_FOR_DURACLOUD", "INGEST_COMPLETE", "INGEST_IN_PROGRESS",
      "TRANSFER_COMPLETE", "TRANSFER_IN_PROGRESS", "TRANSFER_STARTED",
      "UPLOAD_COMPLETE", "UPLOADING", "QA_COMPLETE", "PROCESSING_METADATA",
      "PENDING">>

\* The interleaved claim order, Object.keys(STAGE_BY_STATE), stages 1 to 5.
ready_states ==
    <<"PENDING", "PROCESSING_METADATA", "QA_COMPLETE", "UPLOADING",
      "UPLOAD_COMPLETE", "TRANSFER_STARTED", "TRANSFER_IN_PROGRESS",
      "TRANSFER_COMPLETE", "INGEST_IN_PROGRESS", "INGEST_COMPLETE",
      "WAITING_FOR_DURACLOUD", "METADATA_PROCESSED",
      "CREATING_REPOSITORY_RECORD">>

\* Claiming an ENTRY row starts a new Archivematica transfer; an INSIDE row
\* already has one.
AM_ENTRY_STATES == {"UPLOAD_COMPLETE"}

AM_INSIDE_STATES ==
    {"TRANSFER_STARTED", "TRANSFER_IN_PROGRESS", "TRANSFER_COMPLETE",
     "INGEST_IN_PROGRESS"}

AM_ACTIVE_STATES == AM_ENTRY_STATES \cup AM_INSIDE_STATES

\* States the boot sweep (and the staff endpoint) sends back to PENDING.
\* STARTING, REPLICATING_PACKAGE, CONSTRUCTED_OBJECT_PATHS and
\* METADATA_RECORD_PARTS_UPDATED are in the code's set too, but no code of
\* this version writes them.
ACTIVELY_RUNNING_STATES == {"UPLOADING", "CREATING_REPOSITORY_RECORD"}

\* Where a halted package was: before Archivematica had an AIP of it, after,
\* or before its folder ever moved.
STATES_AT_PRE_AM_FAILURE ==
    {"INGEST_HALTED", "UPLOAD_TIMEOUT", "APPROVE_TIMEOUT",
     "TRANSFER_STATUS_TIMEOUT"}

STATES_AT_AM_FAILURE ==
    {"INGEST_STATUS_TIMEOUT", "FAILED", "AS_METADATA_DRIFT",
     "DURACLOUD_TIMEOUT"}

STATES_PRE_FOLDER_MOVE_FAILURE == {"AS_METADATA_INVALID"}

\* What a cancelled row was doing, split by where its folder is.
PRE_UPLOAD_PRIOR_STATES == {"PENDING", "PROCESSING_METADATA", "QA_COMPLETE"}

POST_UPLOAD_PRE_AM_PRIOR_STATES ==
    {"UPLOADING", "UPLOAD_COMPLETE", "TRANSFER_STARTED",
     "TRANSFER_IN_PROGRESS", "TRANSFER_APPROVED", "TRANSFER_COMPLETE"}

AM_PRIOR_STATES ==
    {"INGEST_IN_PROGRESS", "INGEST_COMPLETE", "WAITING_FOR_DURACLOUD",
     "METADATA_PROCESSED", "CREATING_REPOSITORY_RECORD"}

CANCELLABLE_STATES ==
    PRE_UPLOAD_PRIOR_STATES \cup POST_UPLOAD_PRE_AM_PRIOR_STATES
        \cup AM_PRIOR_STATES

\* States a cancel leaves alone.
TERMINAL_FOR_CANCEL ==
    {"COMPLETE", "CANCELLED_BY_USER", "ROLLED_BACK_TO_READY",
     "RETURNED_TO_PACKAGING", "AM_DELETION_REQUESTED"}
        \cup STATES_AT_PRE_AM_FAILURE \cup STATES_AT_AM_FAILURE
        \cup STATES_PRE_FOLDER_MOVE_FAILURE

\* Every state a stage-1-5 row can be in; ABSENT is the row not yet queued.
PipelineRowStates ==
    {"ABSENT", "TRANSFER_APPROVED", "AIP_STORE_PENDING"}
        \cup PIPELINE_STATES \cup TERMINAL_FOR_CANCEL

\* The staff actions a row's state offers ("timeline" is offered always).
available_actions(state) ==
    CASE state \in STAGE6_STATES                     -> {"stop_aip_copy"}
      [] state = "AIP_STORE_FAILED"                  -> {"dismiss_aip_row"}
      [] state \in {"CANCELLED_BY_USER",
                    "AM_DELETION_REQUESTED"}         -> {"rollback_to_packaging"}
      [] state = "DURACLOUD_TIMEOUT"                 -> {"retry_access_copy",
                                                         "rollback_archivematica"}
      [] state \in STATES_AT_PRE_AM_FAILURE          -> {"rollback_pre_ingest"}
      [] state \in STATES_AT_AM_FAILURE \ {"DURACLOUD_TIMEOUT"}
                                                     -> {"rollback_archivematica"}
      [] state \in STATES_PRE_FOLDER_MOVE_FAILURE    -> {"reset"}
      [] state \in CANCELLABLE_STATES                -> {"cancel"}
      [] OTHER                                       -> {}
=============================================================================
