------------------------------ MODULE Workspace ------------------------------
(***************************************************************************)
(* The packaging workspace (src/ingester/workspace.js, jobs.js and the     *)
(* dashboard's workspace actions): Make Digital Objects, its reversal, the *)
(* description QA and the submission to the ingest queue, each a request   *)
(* of many awaits on the curation service, ArchivesSpace and the two       *)
(* queues, which any other request may overtake.  What becomes of a queued *)
(* row is IngestPipeline's; here it only moves, halts, resumes and ends.   *)
(***************************************************************************)
EXTENDS KalturaIds

CONSTANT MaxRows   \* rows in the ingest queue (bound of the model)

ASSUME WorkspaceAssumption == MaxRows \in Nat

VARIABLES
    away,      \* packages that have left 001-ready
    uri,       \* packages with a uri.txt
    component, \* media file -> its ArchivesSpace component
    backed,    \* components whose ids no request has cleared since
    jobs,      \* folder -> the newest job of tbl_ingest_jobs
    checked,   \* folder -> what the newest QA job rests on
    rows       \* tbl_ingest_queue

folderVars == <<away, uri, component, backed>>
jobVars == <<jobs, checked>>
vars == <<kalturaVars, folderVars, jobVars, rows>>

In(f) == {h \in Holds : h.folder = f}
Ready(f) == In(f) \ away
MediaOf(f) == Media(In(f))
Components == [folder : Folders, package : Names, file : MediaFiles]
COMPONENT == {"none", "attached", "unseen", "bare"}
ROW == {"queued", "uploaded", "halted", "closed"}
Open(r) == r.status \in {"queued", "uploaded"}
ComponentsOf(holds) ==
    UNION {{[folder |-> h.folder, package |-> h.package, file |-> x] : x \in h.files} : h \in holds}

TypeOK ==
    /\ KalturaTypeOK
    /\ away \subseteq Holds /\ uri \subseteq Holds
    /\ component \in [ComponentsOf(Holds) -> COMPONENT]
    /\ backed \subseteq Components
    /\ jobs \in [Folders -> {"none", "QA", "other"}]
    /\ checked \in [Folders -> {"no", "checked", "stamped", "muddled"}]
    /\ Len(rows) <= MaxRows /\ \A i \in DOMAIN rows : rows[i].status \in ROW

Init ==
    /\ KalturaInit
    /\ away = {} /\ uri = {}
    /\ component = [c \in ComponentsOf(Holds) |-> "none"]
    /\ backed = {}
    /\ jobs = [f \in Folders |-> "none"] /\ checked = [f \in Folders |-> "no"]
    /\ rows = <<>>

-----------------------------------------------------------------------------
(* Job history *)

(* get_qa_passed_folders: the newest job of the folder is a passed QA.      *)
qa_passed(f) == jobs[f] = "QA"

(* _record_job_safely.  A write that fails is swallowed: what it leaves is  *)
(* what a crash just before it leaves.                                      *)
record_job(f, job, basis) ==
    /\ jobs' = [jobs EXCEPT ![f] = job]
    /\ checked' = [checked EXCEPT ![f] = basis]

(* What was checked in a folder no longer holds, and a QA under way has     *)
(* read some of it.                                                         *)
Outdates(f) ==
    /\ checked' = [checked EXCEPT ![f] = "no"]
Crossed(runNow, kind, f) ==
    [t \in Sessions |-> IF runNow[t].kind = kind /\ runNow[t].folder = f
                        THEN [runNow[t] EXCEPT !.crossed = TRUE] ELSE runNow[t]]

Answered(s, ok) == [Idle EXCEPT !.kind = run[s].kind, !.step = "record", !.folder = run[s].folder,
                                !.ok = ok, !.crossed = run[s].crossed]
Answer(s, ok) == run' = [run EXCEPT ![s] = Answered(s, ok)]
Elsewhere == UNCHANGED <<kqueue, ids, runs>>

-----------------------------------------------------------------------------
(* Make Digital Objects *)

make_digital_objects_action(s, f) ==
    /\ Begins(s, [Idle EXCEPT !.kind = "mdo", !.step = "list", !.folder = f])
    /\ UNCHANGED <<kqueue, ids>> /\ UNCHANGED <<folderVars, jobVars, rows>>

(* The structure gate refuses; or it passes, as it does when it cannot ask. *)
structure_refused(s) ==
    /\ run[s].kind \in {"mdo", "submit"} /\ At(s, "list") /\ Answer(s, FALSE)
    /\ Elsewhere /\ UNCHANGED <<folderVars, jobVars, rows>>

(* _collect_kaltura_media: without the package list it goes on with no      *)
(* media at all; of a package that is away just then it sees none.          *)
list_media(s) ==
    /\ run[s].kind = "mdo" /\ At(s, "list")
    /\ \/ run' = [run EXCEPT ![s].step = "call", ![s].blind = In(run[s].folder)]
       \/ run' = [run EXCEPT ![s].step = "read", ![s].todo = Ready(run[s].folder),
                             ![s].blind = In(run[s].folder) \cap away]
    /\ Elsewhere /\ UNCHANGED <<folderVars, jobVars, rows>>

(* One package's file list.  A failed call refuses the run; an answer other *)
(* than 200 counts as no files.                                             *)
read_media(s) ==
    /\ run[s].kind = "mdo" /\ At(s, "read") /\ run[s].todo # {}
    /\ LET h == First(run[s].todo)
       IN \/ run' = [run EXCEPT ![s].todo = @ \ {h}, ![s].media = @ \cup Media({h})]
          \/ run' = [run EXCEPT ![s].todo = @ \ {h}, ![s].blind = @ \cup {h}]
          \/ Answer(s, FALSE)
    /\ Elsewhere /\ UNCHANGED <<folderVars, jobVars, rows>>
media_read(s) ==
    /\ run[s].kind = "mdo" /\ At(s, "read") /\ run[s].todo = {}
    /\ Goes(s, IF run[s].media = {} THEN "call" ELSE "resolve")
    /\ Elsewhere /\ UNCHANGED <<folderVars, jobVars, rows>>

Single(m) == [package |-> m.package, file |-> m.file, single |-> TRUE]
Double(m) == [package |-> m.package, file |-> m.file, single |-> FALSE]

(* Every file the run listed must have come back as a single entry.         *)
failures_mutant(s) == {m \in run[s].media : Double(m) \in run[s].results}
failures(s) == {m \in run[s].media : Single(m) \notin run[s].results}
compare_results(s) ==
    /\ run[s].kind = "mdo" /\ At(s, "resolved")
    /\ IF failures(s) = {} THEN Goes(s, "call") ELSE Answer(s, FALSE)
    /\ Elsewhere /\ UNCHANGED <<folderVars, jobVars, rows>>

(* The curation service makes the digital objects of the packages without a *)
(* uri.txt and leaves the others as they are.                               *)
Made(s, c) ==
    IF Single([package |-> c.package, file |-> c.file]) \in run[s].results
       /\ [package |-> c.package, file |-> c.file] \in run[s].media THEN "attached"
    ELSE IF \E h \in run[s].blind : h.package = c.package THEN "unseen" ELSE "bare"
make_digital_objects(s) ==
    /\ run[s].kind = "mdo" /\ At(s, "call")
    /\ LET f == run[s].folder
           new == ComponentsOf(Ready(f) \ uri)
       IN \/ /\ Answer(s, FALSE) /\ UNCHANGED <<uri, component, backed, checked>>
          \/ \E answered \in BOOLEAN :
               /\ uri' = uri \cup Ready(f)
               /\ component' = [c \in DOMAIN component |->
                                  IF c \in new THEN Made(s, c) ELSE component[c]]
               /\ backed' = IF run[s].crossed THEN backed
                            ELSE backed \cup {c \in new : Made(s, c) = "attached"}
               /\ IF Ready(f) \subseteq uri THEN UNCHANGED checked ELSE Outdates(f)
               /\ run' = Crossed([run EXCEPT ![s] = Answered(s, answered)], "qa", f)
    /\ Elsewhere /\ UNCHANGED <<away, jobs, rows>>

record_mdo(s) ==
    /\ run[s].kind = "mdo" /\ At(s, "record") /\ Returns(s)
    /\ record_job(run[s].folder, "other", "no")
    /\ Elsewhere /\ UNCHANGED <<folderVars, rows>>

(* The lookups in between; a clear takes the ids of attached files with it. *)
resolve_packages(s) ==
    /\ Resolving(s)
    /\ backed' = IF At(s, "clear") THEN {c \in backed : c.package \notin PackagesOf(run[s].media)}
                 ELSE backed
    /\ UNCHANGED <<away, uri, component>> /\ UNCHANGED <<jobVars, rows>>
clear_kaltura_queue(s) ==
    /\ clear_queue(s) /\ backed' = {}
    /\ UNCHANGED <<away, uri, component>> /\ UNCHANGED <<jobVars, rows>>

(* A query or the session that fails ends the request; Make Digital Objects *)
(* then is refused.                                                         *)
resolve_failed(s) ==
    /\ run[s].step \in {"resolve", "clear", "clear_queue", "enqueue", "peek", "mark", "file", "wipe"}
    /\ IF run[s].kind = "mdo" THEN Answer(s, FALSE) ELSE Returns(s)
    /\ Elsewhere /\ UNCHANGED <<folderVars, jobVars, rows>>

-----------------------------------------------------------------------------
(* Revert: uri.txt is removed from every package; no job is recorded.       *)
revert_to_mdo_action(s, f) ==
    /\ Begins(s, [Idle EXCEPT !.kind = "revert", !.step = "call", !.folder = f])
    /\ UNCHANGED <<kqueue, ids>> /\ UNCHANGED <<folderVars, jobVars, rows>>
revert_to_mdo(s) ==
    /\ run[s].kind = "revert" /\ At(s, "call")
    /\ \/ Returns(s) /\ UNCHANGED <<uri, checked>>
       \/ /\ uri' = uri \ Ready(run[s].folder)
          /\ Outdates(run[s].folder)
          /\ run' = Crossed([run EXCEPT ![s] = Idle], "qa", run[s].folder)
    /\ Elsewhere /\ UNCHANGED <<away, component, backed, jobs, rows>>

-----------------------------------------------------------------------------
(* Description QA: each package's uri.txt is read and its record validated, *)
(* one after the other.  A folder without packages passes.                  *)
aspace_qa_check_action(s, f) ==
    /\ Begins(s, [Idle EXCEPT !.kind = "qa", !.step = "list", !.folder = f])
    /\ UNCHANGED <<kqueue, ids>> /\ UNCHANGED <<folderVars, jobVars, rows>>
list_checked(s) ==
    /\ run[s].kind = "qa" /\ At(s, "list")
    /\ \/ Answer(s, FALSE)
       \/ run' = [run EXCEPT ![s].step = "read", ![s].todo = Ready(run[s].folder), ![s].ok = TRUE]
    /\ Elsewhere /\ UNCHANGED <<folderVars, jobVars, rows>>
validate_package(s) ==
    /\ run[s].kind = "qa" /\ At(s, "read")
    /\ IF run[s].todo = {} THEN Goes(s, "record")
       ELSE LET h == First(run[s].todo)
            IN \E valid \in BOOLEAN :
                  /\ valid => h \in uri
                  /\ run' = [run EXCEPT ![s].todo = @ \ {h}, ![s].ok = @ /\ valid]
    /\ Elsewhere /\ UNCHANGED <<folderVars, jobVars, rows>>

QaJob_mutant(s) == "QA"
QaJob(s) == IF run[s].ok THEN "QA" ELSE "other"
record_qa(s) ==
    /\ run[s].kind = "qa" /\ At(s, "record") /\ Returns(s)
    /\ record_job(run[s].folder, QaJob(s),
                  IF run[s].crossed THEN "muddled" ELSE IF run[s].ok THEN "checked" ELSE "no")
    /\ Elsewhere /\ UNCHANGED <<folderVars, rows>>

-----------------------------------------------------------------------------
(* Submit to Ingest *)

submit_ingest_action(s, f) ==
    /\ Begins(s, [Idle EXCEPT !.kind = "submit", !.step = "count", !.folder = f])
    /\ UNCHANGED <<kqueue, ids>> /\ UNCHANGED <<folderVars, jobVars, rows>>

(* One ingest at a time; what follows the count does not look again.        *)
MaySubmit == \A i \in DOMAIN rows : ~Open(rows[i])
active_ingest_count(s) ==
    /\ run[s].kind = "submit" /\ At(s, "count")
    /\ IF MaySubmit THEN run' = [run EXCEPT ![s].step = "list", ![s].crossed = FALSE] ELSE Returns(s)
    /\ Elsewhere /\ UNCHANGED <<folderVars, jobVars, rows>>

(* _ensure_collection_exists: the folder does not name a resource, or no    *)
(* collection could be found or provisioned for it.                         *)
collection_refused(s) ==
    /\ run[s].kind = "submit" /\ At(s, "list") /\ Answer(s, FALSE)
    /\ Elsewhere /\ UNCHANGED <<folderVars, jobVars, rows>>

(* Behind the gates, the packages of the folder.                            *)
list_submitted(s) ==
    /\ run[s].kind = "submit" /\ At(s, "list")
    /\ \/ Answer(s, FALSE)
       \/ /\ Ready(run[s].folder) # {}
          /\ run' = [run EXCEPT ![s].step = "read", ![s].todo = Ready(run[s].folder),
                                ![s].packages = Ready(run[s].folder)]
    /\ Elsewhere /\ UNCHANGED <<folderVars, jobVars, rows>>

(* A package whose uri.txt is missing, or cannot be read, rejects them all. *)
read_uri(s) ==
    /\ run[s].kind = "submit" /\ At(s, "read")
    /\ IF run[s].todo = {} THEN Goes(s, "insert")
       ELSE \/ Answer(s, FALSE)
            \/ LET h == First(run[s].todo)
               IN h \in uri /\ run' = [run EXCEPT ![s].todo = @ \ {h}]
    /\ Elsewhere /\ UNCHANGED <<folderVars, jobVars, rows>>

(* model.queue_packages: all rows in one transaction, or none.              *)
insert_rows(s) ==
    /\ run[s].kind = "submit" /\ At(s, "insert")
    /\ \/ Answer(s, FALSE) /\ UNCHANGED rows
       \/ /\ Len(rows) + Cardinality(run[s].packages) <= MaxRows
          /\ rows' = rows \o SetToSeq({[holds |-> h, status |-> "queued",
                                        how |-> IF run[s].crossed THEN "beside" ELSE "alone"]
                                         : h \in run[s].packages})
          /\ run' = Crossed([run EXCEPT ![s] = Answered(s, TRUE)], "submit", run[s].folder)
    /\ Elsewhere /\ UNCHANGED <<folderVars, jobVars>>

(* The submission's own job; after it, when rows were queued, a passed QA.  *)
record_submit(s) ==
    /\ run[s].kind = "submit" /\ At(s, "record")
    /\ IF run[s].ok THEN Goes(s, "stamp") ELSE Returns(s)
    /\ record_job(run[s].folder, "other", "no")
    /\ Elsewhere /\ UNCHANGED <<folderVars, rows>>
stamp_qa(s) ==
    /\ run[s].kind = "submit" /\ At(s, "stamp") /\ Returns(s)
    /\ record_job(run[s].folder, "QA", "stamped")
    /\ Elsewhere /\ UNCHANGED <<folderVars, rows>>

-----------------------------------------------------------------------------
(* The queued rows, as the pipeline and staff move them on *)

Becomes(i, status) == rows' = [rows EXCEPT ![i].status = status]
PipelineOnly == UNCHANGED kalturaVars /\ UNCHANGED <<uri, component, backed>> /\ UNCHANGED jobVars

upload_package(i) ==
    /\ rows[i].status = "queued" /\ rows[i].holds \notin away
    /\ away' = away \cup {rows[i].holds} /\ Becomes(i, "uploaded")
    /\ PipelineOnly
complete_row(i) ==
    /\ rows[i].status = "uploaded" /\ Becomes(i, "closed")
    /\ UNCHANGED away /\ PipelineOnly
(* Halted by a stage, or cancelled.                                         *)
halt_row(i) ==
    /\ Open(rows[i]) /\ Becomes(i, "halted")
    /\ UNCHANGED away /\ PipelineOnly
(* Reset and Retry ask no more than the row's own state.                    *)
resume_row(i) ==
    /\ rows[i].status = "halted"
    /\ rows' = [rows EXCEPT ![i].how = "resumed",
                  ![i].status = IF rows[i].holds \in away THEN "uploaded" ELSE "queued"]
    /\ UNCHANGED away /\ PipelineOnly

(* Return to Packaging: the folder goes back, best effort; the row is       *)
(* closed; a failed packaging job is recorded.                              *)
return_to_packaging(s, i) ==
    /\ rows[i].status = "halted"
    /\ Begins(s, [Idle EXCEPT !.kind = "return", !.step = "move", !.folder = rows[i].holds.folder,
                              !.packages = {rows[i].holds}, !.id = i])
    /\ UNCHANGED <<kqueue, ids>> /\ UNCHANGED <<folderVars, jobVars, rows>>
move_from_ingest_to_ready(s) ==
    /\ run[s].kind = "return" /\ At(s, "move")
    /\ \/ Goes(s, "write") /\ UNCHANGED <<away, checked>>
       \/ /\ run[s].packages \subseteq away /\ away' = away \ run[s].packages
          /\ Outdates(run[s].folder)
          /\ run' = Crossed([run EXCEPT ![s].step = "write"], "qa", run[s].folder)
    /\ Elsewhere /\ UNCHANGED <<uri, component, backed, jobs, rows>>
return_row(s) ==
    /\ run[s].kind = "return" /\ At(s, "write")
    /\ Becomes(run[s].id, "closed") /\ Goes(s, "record")
    /\ Elsewhere /\ UNCHANGED <<folderVars, jobVars>>
record_return(s) ==
    /\ run[s].kind = "return" /\ At(s, "record") /\ Returns(s)
    /\ record_job(run[s].folder, "other", "no")
    /\ Elsewhere /\ UNCHANGED <<folderVars, rows>>

-----------------------------------------------------------------------------
(* The process dies with every request it was serving.                      *)
Unrecorded(f) == \E s \in Sessions : /\ run[s].kind \in {"mdo", "return"} /\ run[s].folder = f
                                     /\ run[s].step \in {"write", "record"}
crash ==
    /\ \E s \in Sessions : run[s].step # "idle"
    /\ run' = [s \in Sessions |-> Idle]
    /\ checked' = [f \in Folders |-> IF Unrecorded(f) /\ checked[f] = "no" THEN "muddled"
                                     ELSE checked[f]]
    /\ UNCHANGED <<kqueue, ids, runs, jobs>> /\ UNCHANGED <<folderVars, rows>>

Request(s, f) ==
    \/ make_digital_objects_action(s, f) \/ revert_to_mdo_action(s, f)
    \/ aspace_qa_check_action(s, f) \/ submit_ingest_action(s, f)
MakeDigitalObjects(s) ==
    \/ structure_refused(s) \/ list_media(s) \/ read_media(s) \/ media_read(s)
    \/ compare_results(s) \/ make_digital_objects(s) \/ record_mdo(s) \/ revert_to_mdo(s)
CheckDescription(s) == list_checked(s) \/ validate_package(s) \/ record_qa(s)
SubmitToIngest(s) ==
    \/ active_ingest_count(s) \/ collection_refused(s) \/ list_submitted(s) \/ read_uri(s) \/ insert_rows(s)
    \/ record_submit(s) \/ stamp_qa(s)
ReturnToPackaging(s) == move_from_ingest_to_ready(s) \/ return_row(s) \/ record_return(s)
Row(i) == upload_package(i) \/ complete_row(i) \/ halt_row(i) \/ resume_row(i)

Next ==
    \/ \E s \in Sessions :
         \/ \E f \in Folders : Request(s, f)
         \/ MakeDigitalObjects(s) \/ CheckDescription(s) \/ SubmitToIngest(s)
         \/ ReturnToPackaging(s)
         \/ resolve_packages(s) \/ clear_kaltura_queue(s) \/ resolve_failed(s)
         \/ post_metadata(s) /\ UNCHANGED <<folderVars, jobVars, rows>>
         \/ \E i \in DOMAIN rows : return_to_packaging(s, i)
    \/ \E i \in DOMAIN rows : Row(i)
    \/ crash

Spec == Init /\ [][Next]_vars

-----------------------------------------------------------------------------
(* No component is made without its Kaltura identifier for a media file     *)
(* that the run had listed: staff's folders go through blocked or whole     *)
(* (workspace.js, the pre-flight of run_make_digital_objects).              *)
NoneLeftBare == \A c \in DOMAIN component : component[c] # "bare"

(* Stage 5 finds the entry id of a component that carries one, until a      *)
(* request names the same package or staff clear the queue (kaltura/        *)
(* model.js, clear_packages).                                               *)
StageFiveFindsIds == \A c \in backed : has_entry_id(c.package, c.file)

(* A run that no other request for ids overlapped has an answer for every   *)
(* file it asked about: only company takes its rows or its answers away.    *)
AloneIsAnswered ==
    \A s \in Sessions :
        run[s].kind = "mdo" /\ At(s, "resolved") /\ ~run[s].crossed =>
            \A m \in run[s].media : {Single(m), Double(m)} \cap run[s].results # {}

(* list_workspace hides from the QA view a folder with uri.txt only if the  *)
(* newest QA read its packages as they are now, or a submission vouches for *)
(* it; else its QA ran across a change, or the job of a change is missing.  *)
Hidden(f) == qa_passed(f) /\ \E h \in Ready(f) : h \in uri
HiddenWasChecked ==
    \A f \in Folders : Hidden(f) => checked[f] # "no" \/ Unrecorded(f)

(* Two open rows for one package take two submissions past the count at     *)
(* once, or a halted row resumed beside a newer one (dashboard.js,          *)
(* submit_ingest_action).                                                   *)
OneOpenRow ==
    \A i, j \in DOMAIN rows :
        i < j /\ rows[i].holds = rows[j].holds /\ Open(rows[i]) /\ Open(rows[j])
            => {rows[i].how, rows[j].how} \cap {"beside", "resumed"} # {}

(* The workspace keeps its types, makes no component bare, and has one open *)
(* row for a package, as the three comments say.                            *)
WorkspaceInv == TypeOK /\ NoneLeftBare /\ OneOpenRow
=============================================================================
