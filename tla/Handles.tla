------------------------------ MODULE Handles ------------------------------
(***************************************************************************)
(* Hand-minted handles (src/handles/model.js) and the helper process that  *)
(* writes them to the handle server (src/libs/handle_writer.js).  A mint   *)
(* records its rows as pending, writes them in one batch and reconciles    *)
(* row by row; a removal marks the row, deletes at the server and marks    *)
(* the row again.  The helper is killed after a timeout, whatever it has   *)
(* done by then.  Target URLs and notes are left out.                      *)
(***************************************************************************)
EXTENDS Naturals, FiniteSets

CONSTANTS
    Suffixes,  \* handle suffixes a mint may draw
    Sessions,  \* administrators' sessions
    MaxOps,    \* requests (bound of the model)
    MaxFaults  \* faults (bound of the model)

VARIABLES
    handles,   \* suffix -> the status of its row in tbl_handles, or "none"
    server,    \* suffixes that resolve at the handle server
    linked,    \* suffixes a repository object uses as its handle
    desk,      \* session -> its step in mint or remove
    doubtful,  \* suffixes whose last write reached the server without an answer
    contested, \* suffixes that two sessions have worked on at once
    ops, faults

handleVars == <<handles, server, linked, desk, doubtful, contested>>

STATUS == {"none", "pending", "minted", "failed", "deleting", "deleted"}
AtRest == [step |-> "idle", todo |-> {}, good |-> {}, was |-> "none"]

HandlesInit ==
    /\ handles = [h \in Suffixes |-> "none"]
    /\ server = {} /\ linked = {}
    /\ desk = [s \in Sessions |-> AtRest]
    /\ doubtful = {} /\ contested = {}

-----------------------------------------------------------------------------
(* One write at the server: what it leaves there.  Creating what exists and *)
(* deleting what does not are reported, and change nothing.                 *)
DuHandleTool(op, S) == IF op = "create" THEN server \cup S ELSE server \ S

SetStatus(S, status) == handles' = [h \in Suffixes |-> IF h \in S THEN status ELSE handles[h]]
WorkedOn(s, S) ==
    contested' = contested \cup {h \in S : \E u \in Sessions \ {s} : h \in desk[u].todo}

mint(s, S) ==
    /\ desk[s].step = "idle" /\ ops < MaxOps
    /\ S # {} /\ \A h \in S : handles[h] = "none"
    /\ ops' = ops + 1
    /\ SetStatus(S, "pending")
    /\ desk' = [desk EXCEPT ![s] = [AtRest EXCEPT !.step = "batch", !.todo = S]]
    /\ UNCHANGED <<server, linked, doubtful, contested, faults>>

(* The batch: every result streams back; or some operations are refused;    *)
(* or the helper is killed between results and the batch call throws.       *)
batch(s) ==
    /\ desk[s].step = "batch"
    /\ \/ /\ server' = DuHandleTool("create", desk[s].todo)
          /\ desk' = [desk EXCEPT ![s].step = "reconcile", ![s].good = desk[s].todo]
          /\ UNCHANGED faults
       \/ /\ faults < MaxFaults /\ faults' = faults + 1
          /\ \E done \in SUBSET desk[s].todo :
               /\ server' = DuHandleTool("create", done)
               /\ \/ desk' = [desk EXCEPT ![s].step = "reconcile", ![s].good = done]
                  \/ desk' = [desk EXCEPT ![s].step = "failed"]
    /\ UNCHANGED <<handles, linked, doubtful, contested, ops>>

mint_failed(s) ==
    /\ desk[s].step = "failed"
    /\ SetStatus(desk[s].todo, "failed")
    /\ desk' = [desk EXCEPT ![s] = AtRest]
    /\ UNCHANGED <<server, linked, doubtful, contested, ops, faults>>

Outcome_mutant(good, h) == "minted"
Outcome(good, h) == IF h \in good THEN "minted" ELSE "failed"

mint_reconcile(s) ==
    /\ desk[s].step = "reconcile"
    /\ \E h \in desk[s].todo :
         /\ SetStatus({h}, Outcome(desk[s].good, h))
         /\ desk' = [desk EXCEPT ![s] =
              IF desk[s].todo = {h} THEN AtRest ELSE [desk[s] EXCEPT !.todo = @ \ {h}]]
    /\ UNCHANGED <<server, linked, doubtful, contested, ops, faults>>

-----------------------------------------------------------------------------
(* Remove: a live look for an object that uses the handle, then the row is  *)
(* marked; what the status was is kept to restore it.                       *)
linked_pids(h) == linked \cap {h}
remove(s, h) ==
    /\ desk[s].step = "idle" /\ ops < MaxOps
    /\ handles[h] \notin {"none", "deleted"}
    /\ linked_pids(h) = {}
    /\ ops' = ops + 1
    /\ WorkedOn(s, {h})
    /\ desk' = [desk EXCEPT ![s] =
         [AtRest EXCEPT !.step = "mark", !.todo = {h}, !.was = handles[h]]]
    /\ UNCHANGED <<handles, server, linked, doubtful, faults>>

remove_mark(s) ==
    /\ desk[s].step = "mark"
    /\ SetStatus(desk[s].todo, "deleting")
    /\ desk' = [desk EXCEPT ![s].step = "delete"]
    /\ UNCHANGED <<server, linked, doubtful, contested, ops, faults>>

(* 200 and 404 are both success; a refusal leaves the handle; a timeout     *)
(* may come after the server has deleted it.                                *)
remove_write(s) ==
    /\ desk[s].step = "delete"
    /\ \/ /\ server' = DuHandleTool("delete", desk[s].todo)
          /\ desk' = [desk EXCEPT ![s].step = "deleted"]
          /\ doubtful' = doubtful \ desk[s].todo
          /\ UNCHANGED faults
       \/ /\ faults < MaxFaults /\ faults' = faults + 1
          /\ desk' = [desk EXCEPT ![s].step = "restore"]
          /\ \/ server' = DuHandleTool("delete", desk[s].todo)
                /\ doubtful' = doubtful \cup desk[s].todo
             \/ UNCHANGED <<server, doubtful>>
    /\ UNCHANGED <<handles, linked, contested, ops>>

Restored(s) == desk[s].was
remove_finish(s) ==
    /\ desk[s].step \in {"deleted", "restore"}
    /\ SetStatus(desk[s].todo, IF desk[s].step = "deleted" THEN "deleted" ELSE Restored(s))
    /\ desk' = [desk EXCEPT ![s] = AtRest]
    /\ UNCHANGED <<server, linked, doubtful, contested, ops, faults>>

(* An object is given the handle, outside this code. *)
attach(h) ==
    /\ handles[h] = "minted" /\ h \notin linked
    /\ linked' = linked \cup {h}
    /\ contested' = contested \cup {g \in {h} : \E s \in Sessions : g \in desk[s].todo}
    /\ UNCHANGED <<handles, server, desk, doubtful, ops, faults>>

(* The process dies: the sessions are gone, the rows stay as they are. *)
desks_cut ==
    /\ desk' = [s \in Sessions |-> AtRest]
    /\ UNCHANGED <<handles, server, linked, doubtful, contested>>

HandleSteps(s) ==
    \/ \E S \in SUBSET Suffixes : mint(s, S)
    \/ batch(s) \/ mint_failed(s) \/ mint_reconcile(s)
    \/ \E h \in Suffixes : remove(s, h)
    \/ remove_mark(s) \/ remove_write(s) \/ remove_finish(s)

-----------------------------------------------------------------------------
(* The record tells the truth: a handle recorded as minted resolves and one *)
(* recorded as deleted does not, unless two administrators worked on it at  *)
(* once or the server's answer to a delete was lost                         *)
(* (src/handles/model.js:205 and :304).  Under the same exceptions a handle *)
(* that an object uses resolves: a removal looks for such objects itself.   *)
RecordHonest ==
    \A h \in Suffixes \ contested :
        /\ handles[h] = "minted" /\ h \notin doubtful => h \in server
        /\ handles[h] = "deleted" => h \notin server
        /\ h \in linked \ doubtful => h \in server
=============================================================================
