--------------------------- MODULE AipStore_proofs --------------------------
(***************************************************************************)
(* Proofs about AipStore, for any number of packages, backfill rows and    *)
(* staff sessions, any retry budgets and any bound on faults and requests: *)
(* types; complete means stored; and, under the gate, one copy at a time,  *)
(* copies only when they are due, and calls within the retry budget.       *)
(***************************************************************************)
EXTENDS AipStore, FiniteSetTheorems, TLAPS

-----------------------------------------------------------------------------
(* Type correctness *)

Present(r) == state[r] # "ABSENT"

QueueTypes == /\ state \in [Rows -> RowStates]
              /\ is_complete \in [Rows -> BOOLEAN]
              /\ sip \in [Rows -> Aips \cup {0}]
              /\ \A r \in Rows : Present(r) <=> sip[r] \in Aips
              /\ batch \in [Rows -> Nat]
StoreTypes == store \in [Aips -> StoreRecords]
\* A row a claim, a stage or a request holds is there, and stays.
ClaimTypes == /\ claim \in ClaimRecords
              /\ \A c \in claim.batch \cup claim.claimed : Present(c.row)
TaskTypes  == /\ task \in [Rows -> TaskRecords]
              /\ \A r \in Rows : task[r].pc # "idle" => Present(r)
StaffTypes == /\ staff \in [Staff -> StaffRecords]
              /\ \A p \in Staff :
                   /\ staff[p].row # 0 => Present(staff[p].row)
                   /\ staff[p].pc \in {"stop_store", "stop_park", "dismiss"}
                        => staff[p].row # 0
ProcTypes  == /\ phase \in {"up", "stopping", "down"}
              /\ enabled \in BOOLEAN
WorldTypes == /\ wasabi \subseteq Aips
              /\ calls \in [Aips -> Nat]
BoundTypes == faults \in Nat /\ ops \in Nat

TypeInv == /\ QueueTypes /\ StoreTypes /\ ClaimTypes /\ TaskTypes /\ StaffTypes
           /\ ProcTypes /\ WorldTypes /\ BoundTypes

\* What a step may do to the queue: a row that is there stays, for its AIP.
Kept == /\ \A r \in Rows : Present(r) => Present(r)' /\ sip'[r] = sip[r]
        /\ QueueTypes'

LEMMA RowStateNames ==
    /\ STAGE6_STATES \subseteq RowStates \ {"ABSENT"}
    /\ {"COMPLETE", "AIP_STORE_COMPLETE", "AIP_STORE_FAILED", "CANCELLED_BY_USER",
        "INGEST_HALTED"} \subseteq RowStates \ {"ABSENT"}
    /\ "AIP_STORE_PENDING" \in STAGE6_STATES
BY DEF RowStates, STAGE6_STATES

LEMMA RowsAreNumbers == Rows \subseteq Nat \ {0} /\ Aips \subseteq Rows /\ 0 \notin Rows
BY AipStoreAssumption DEF Rows, Aips

\* A row write keeps the queue.
LEMMA UpdateKept ==
    ASSUME QueueTypes, NEW r \in Rows, Present(r), NEW st \in RowStates \ {"ABSENT"},
           NEW done \in BOOLEAN, update_queue(r, st, done)
    PROVE  Kept
BY DEF QueueTypes, Present, update_queue, Kept

LEMMA SameKept == ASSUME QueueTypes, UNCHANGED queueVars PROVE Kept
BY DEF QueueTypes, queueVars, Present, Kept

\* What the claim, the stages and the requests hold stays typed while the queue
\* keeps its rows and they do not move.
LEMMA ClaimCarried == ASSUME ClaimTypes, Kept, UNCHANGED claim PROVE ClaimTypes'
BY DEF ClaimTypes, Kept, ClaimRecords, Copies, Present
LEMMA TaskCarried == ASSUME TaskTypes, Kept, UNCHANGED task PROVE TaskTypes'
BY DEF TaskTypes, Kept, Present
LEMMA StaffCarried == ASSUME StaffTypes, Kept, UNCHANGED staff PROVE StaffTypes'
BY DEF StaffTypes, Kept, StaffRecords, Present

\* A stage's next entry in the task table.
LEMMA SetTaskTypes ==
    ASSUME TaskTypes, Kept, NEW r \in Rows, Present(r), NEW d \in TaskRecords,
           task' = [task EXCEPT ![r] = d]
    PROVE  TaskTypes'
BY DEF TaskTypes, Kept, Present

LEMMA IdleTyped == /\ IdleTask \in TaskRecords /\ IdleTask.pc = "idle"
                   /\ IdleClaim \in ClaimRecords /\ IdleStaff \in StaffRecords
                   /\ IdleClaim.batch = {} /\ IdleClaim.claimed = {}
                   /\ IdleClaim.pc = "idle"
                   /\ IdleStaff.pc = "idle" /\ IdleStaff.row = 0
                   /\ NoStoreRow \in StoreRecords
BY DEF IdleTask, TaskRecords, IdleClaim, ClaimRecords, IdleStaff, StaffRecords,
   NoStoreRow, StoreRecords, STAGE6_STATES, Failures, Statuses

Steps == {"lookup", "drain", "already", "orphan", "mark", "call", "wait", "store",
          "complete", "record", "park"}

LEMMA GotoTypes ==
    ASSUME TaskTypes, Kept, NEW r \in Rows, Present(r), NEW step \in Steps,
           Goto(r, step)
    PROVE  TaskTypes'
<1> DEFINE d == [task[r] EXCEPT !.pc = step]
<1>1. task[r] \in TaskRecords BY DEF TaskTypes
<1>2. d \in TaskRecords BY <1>1 DEF TaskRecords, Steps
<1>3. task' = [task EXCEPT ![r] = d] BY DEF Goto
<1> HIDE DEF d
<1> QED BY <1>2, <1>3, SetTaskTypes

LEMMA ReturnTypes ==
    ASSUME TaskTypes, Kept, NEW r \in Rows, Present(r), Return(r)
    PROVE  TaskTypes'
BY IdleTyped, SetTaskTypes DEF Return

\* A stage step keeps the rest of the process typed.
LEMMA StageCarried ==
    ASSUME TypeInv, Kept, StageFrame, TaskTypes', StoreTypes', WorldTypes',
           faults' \in Nat
    PROVE  TypeInv'
BY ClaimCarried, StaffCarried DEF TypeInv, StageFrame, Kept, ProcTypes, BoundTypes

LEMMA FailurePatchTyped ==
    ASSUME NEW d \in TaskRecords PROVE FailurePatch(d) \in StoreRecords
<1>1. d.next \in Nat BY DEF TaskRecords
<1>2. (Verdict(d) = "retry") \in BOOLEAN OBVIOUS
<1> QED BY <1>1, <1>2 DEF FailurePatch, StoreRecords, Statuses

LEMMA StageTypes ==
    ASSUME TypeInv, NEW r \in Rows, Stage(r) \/ stage_threw(r)
    PROVE  TypeInv' /\ Kept
<1>p. Present(r)
  BY DEF TypeInv, TaskTypes, Stage, stage_threw, At, lookup, drain, already_copied,
     skip_orphan, mark_in_progress, copy_call, copy_aborted, copy_succeeds,
     copy_fails, store_copied, complete, record_failure, park
<1>a. sip[r] \in Aips /\ task[r] \in TaskRecords /\ store[sip[r]] \in StoreRecords
  BY <1>p DEF TypeInv, QueueTypes, StoreTypes, TaskTypes
<1>q. QueueTypes /\ TaskTypes /\ StoreTypes /\ WorldTypes /\ faults \in Nat
      /\ is_complete[r] \in BOOLEAN
  BY DEF TypeInv, BoundTypes, QueueTypes
<1>1. CASE lookup(r)
  <2>1. Kept BY <1>q, <1>1, SameKept DEF lookup
  <2>2. TaskTypes'
    <3>1. CASE \E step \in {"drain", "already", "orphan"} : Goto(r, step)
      BY <1>p, <1>q, <2>1, <3>1, GotoTypes DEF Steps
    <3>2. CASE Return(r) BY <1>p, <1>q, <2>1, <3>2, ReturnTypes
    <3>3. CASE \E step \in {"call", "mark"}, b \in BOOLEAN :
                 task' = [task EXCEPT ![r].pc = step, ![r].duracloud = b]
      <4>1. PICK step \in {"call", "mark"}, b \in BOOLEAN :
                 task' = [task EXCEPT ![r].pc = step, ![r].duracloud = b]
        BY <3>3
      <4> DEFINE d == [task[r] EXCEPT !.pc = step, !.duracloud = b]
      <4>2. d \in TaskRecords BY <1>a DEF TaskRecords
      <4>3. task' = [task EXCEPT ![r] = d] BY <1>q, <4>1 DEF TaskTypes
      <4> HIDE DEF d
      <4> QED BY <1>p, <1>q, <2>1, <4>2, <4>3, SetTaskTypes
    <3> QED BY <1>1, <3>1, <3>2, <3>3 DEF lookup
  <2> QED BY <1>q, <1>1, <2>1, <2>2, StageCarried
          DEF lookup, StoreTypes, WorldTypes, worldVars
<1>2. CASE drain(r) \/ already_copied(r) \/ skip_orphan(r) \/ complete(r)
           \/ park(r) \/ mark_in_progress(r)
  <2>1. \E st \in RowStates \ {"ABSENT"}, done \in BOOLEAN : update_queue(r, st, done)
    <3>1. CASE park(r)
      <4>1. ParkState(Verdict(task[r])) \in RowStates \ {"ABSENT"}
            /\ (Verdict(task[r]) = "dead") \in BOOLEAN
        BY RowStateNames DEF ParkState
      <4> QED BY <3>1, <4>1 DEF park
    <3>2. CASE mark_in_progress(r)
      BY <1>q, <3>2, RowStateNames DEF mark_in_progress, STAGE6_STATES
    <3> QED BY <1>2, <3>1, <3>2, RowStateNames
            DEF drain, already_copied, skip_orphan, complete
  <2>3. Kept BY <1>p, <1>q, <2>1, UpdateKept
  <2>4. Return(r) \/ Goto(r, "call")
    BY <1>2 DEF drain, already_copied, skip_orphan, complete, park, mark_in_progress
  <2>5. TaskTypes' BY <1>p, <1>q, <2>3, <2>4, ReturnTypes, GotoTypes DEF Steps
  <2>6. StageFrame /\ UNCHANGED <<store, worldVars, faults>>
    BY <1>2 DEF drain, already_copied, skip_orphan, complete, park, mark_in_progress
  <2> QED BY <1>q, <2>3, <2>5, <2>6, StageCarried DEF StoreTypes, WorldTypes, worldVars
<1>3. CASE copy_call(r)
  <2>1. Kept BY <1>q, <1>3, SameKept DEF copy_call
  <2>2. TaskTypes'
    BY <1>p, <1>q, <1>3, <2>1, ReturnTypes, GotoTypes DEF copy_call, Steps
  <2>3. WorldTypes' BY <1>q, <1>a, <1>3 DEF copy_call, WorldTypes
  <2> QED BY <1>q, <1>3, <2>1, <2>2, <2>3, StageCarried DEF copy_call, StoreTypes
<1>4. CASE copy_aborted(r) \/ copy_succeeds(r)
  <2>1. Kept BY <1>q, <1>4, SameKept DEF copy_aborted, copy_succeeds
  <2>2. TaskTypes'
    BY <1>p, <1>q, <1>4, <2>1, ReturnTypes, GotoTypes
       DEF copy_aborted, copy_succeeds, Steps
  <2>3. WorldTypes' BY <1>q, <1>a, <1>4 DEF copy_aborted, copy_succeeds, WorldTypes
  <2> QED BY <1>q, <1>4, <2>1, <2>2, <2>3, StageCarried
          DEF copy_aborted, copy_succeeds, StoreTypes
<1>5. CASE copy_fails(r)
  <2>1. PICK why \in Failures, read \in BOOLEAN :
         /\ faults' = IF read THEN faults ELSE faults + 1
         /\ task' = [task EXCEPT ![r].pc = "record", ![r].why = why,
                ![r].next = IF read THEN store[sip[r]].attempts + 1 ELSE 1]
         /\ wasabi' \in {wasabi} \cup IF why = "copy_failed"
                                      THEN {wasabi \cup {sip[r]}} ELSE {}
    BY <1>5 DEF copy_fails
  <2>2. Kept BY <1>q, <1>5, SameKept DEF copy_fails
  <2> DEFINE n == IF read THEN store[sip[r]].attempts + 1 ELSE 1
             d == [task[r] EXCEPT !.pc = "record", !.why = why, !.next = n]
  <2>3. n \in Nat BY <1>a DEF StoreRecords
  <2>4. task' = [task EXCEPT ![r] = d] BY <1>q, <2>1 DEF TaskTypes
  <2> HIDE DEF n
  <2>5. d \in TaskRecords BY <1>a, <2>3 DEF TaskRecords
  <2> HIDE DEF d
  <2>6. TaskTypes' BY <1>p, <1>q, <2>2, <2>4, <2>5, SetTaskTypes
  <2>7. WorldTypes' BY <1>q, <1>a, <1>5, <2>1 DEF copy_fails, WorldTypes
  <2>8. faults' \in Nat BY <1>q, <2>1
  <2> QED BY <1>q, <1>5, <2>2, <2>6, <2>7, <2>8, StageCarried DEF copy_fails, StoreTypes
<1>6. CASE store_copied(r) \/ record_failure(r)
  <2>1. Kept BY <1>q, <1>6, SameKept DEF store_copied, record_failure
  <2>2. TaskTypes'
    BY <1>p, <1>q, <1>6, <2>1, GotoTypes DEF store_copied, record_failure, Steps
  <2>3. [NoStoreRow EXCEPT !.status = "INGEST_COPIED_OK"] \in StoreRecords
        /\ FailurePatch(task[r]) \in StoreRecords
    BY <1>a, FailurePatchTyped DEF NoStoreRow, StoreRecords, Statuses
  <2>4. StoreTypes' /\ faults' \in Nat
    BY <1>q, <1>6, <2>3 DEF store_copied, record_failure, upsert_by_uuid, StoreTypes
  <2> QED BY <1>q, <1>6, <2>1, <2>2, <2>4, StageCarried
          DEF store_copied, record_failure, WorldTypes, worldVars
<1>7. CASE stage_threw(r)
  <2>1. Kept
    <3>1. CASE UNCHANGED queueVars BY <1>q, <3>1, SameKept
    <3>2. CASE update_queue(r, "INGEST_HALTED", is_complete[r])
      BY <1>p, <1>q, <3>2, UpdateKept, RowStateNames
    <3> QED BY <1>7, <3>1, <3>2 DEF stage_threw
  <2>2. TaskTypes' BY <1>p, <1>q, <1>7, <2>1, ReturnTypes DEF stage_threw
  <2> QED BY <1>q, <1>7, <2>1, <2>2, StageCarried
          DEF stage_threw, StoreTypes, WorldTypes, worldVars
<1> QED BY <1>1, <1>2, <1>3, <1>4, <1>5, <1>6, <1>7 DEF Stage

(* The claim phase *)

LEMMA CopyTypes ==
    ASSUME QueueTypes, NEW st \in STAGE6_STATES, NEW r \in OpenIn(st)
    PROVE  CopyOf(r) \in Copies /\ Present(CopyOf(r).row)
BY RowStateNames DEF QueueTypes, OpenIn, CopyOf, Copies, Present

\* What a dispatch starts is typed when the rows it starts are.
LEMMA DispatchTypes ==
    ASSUME TypeInv, Kept, NEW claimed, claimed \subseteq Copies,
           \A c \in claimed : Present(c.row), Dispatch(claimed)
    PROVE  ClaimTypes' /\ TaskTypes'
<1>1. ClaimTypes' BY IdleTyped DEF Dispatch, ClaimTypes
<1>2. ASSUME NEW r \in Rows
      PROVE  task'[r] \in TaskRecords /\ (task'[r].pc # "idle" => Present(r)')
  <2>1. CASE \E c \in claimed : c.row = r
    <3> DEFINE c == CHOOSE c \in claimed : c.row = r
    <3>1. c \in claimed /\ c.row = r BY <2>1
    <3>2. c.state \in STAGE6_STATES BY <3>1 DEF Copies
    <3>3. task'[r] = [IdleTask EXCEPT !.pc = "lookup", !.claimed = c.state]
      BY <2>1 DEF Dispatch
    <3>4. Present(r) BY <3>1
    <3> HIDE DEF c
    <3>5. task'[r] \in TaskRecords
      BY <3>2, <3>3, IdleTyped DEF IdleTask, TaskRecords
    <3> QED BY <3>4, <3>5 DEF Kept
  <2>2. CASE ~\E c \in claimed : c.row = r
    <3>1. task'[r] = task[r] BY <2>2 DEF Dispatch
    <3> QED BY <3>1 DEF TypeInv, TaskTypes, Kept
  <2> QED BY <2>1, <2>2
<1>3. task' = [r \in Rows |-> task'[r]] BY DEF Dispatch
<1>4. TaskTypes' BY <1>2, <1>3, Zenon DEF TaskTypes
<1> QED BY <1>1, <1>4

LEMMA AdmittedTypes == Admitted \subseteq claim.batch
BY DEF Admitted

LEMMA ClaimStepTypes ==
    ASSUME TypeInv, Tick \/ claim_failed
    PROVE  TypeInv' /\ Kept
<1>1. ClaimFrame /\ faults' \in Nat /\ UNCHANGED ops
  BY DEF Tick, tick_count, tick_snapshot, claim_resume, admit_resume, claim_pending,
     claim_filter, admit_pending, claim_failed, boundVars, TypeInv, BoundTypes
<1>2. Kept BY <1>1, SameKept DEF ClaimFrame, TypeInv
<1>b. claim \in ClaimRecords /\ claim.batch \subseteq Copies
      /\ claim.claimed \subseteq Copies
      /\ (\A c \in claim.batch \cup claim.claimed : Present(c.row))
      /\ claim.inside \in BOOLEAN
  BY DEF TypeInv, ClaimTypes, ClaimRecords
<1>c. ASSUME NEW st \in STAGE6_STATES
      PROVE  {CopyOf(r) : r \in OpenIn(st)} \subseteq Copies
             /\ \A c \in {CopyOf(r) : r \in OpenIn(st)} : Present(c.row)
  BY CopyTypes DEF TypeInv
<1>3. ClaimTypes' /\ TaskTypes'
  <2>1. CASE tick_count
    <3>1. [IdleClaim EXCEPT !.pc = "snap",
             !.inside = Stage6Serial /\ OpenIn("AIP_STORE_IN_PROGRESS") # {}]
            \in ClaimRecords
      BY AipStoreAssumption DEF IdleClaim, ClaimRecords
    <3>2. claim'.batch = {} /\ claim'.claimed = {} BY <2>1 DEF tick_count, IdleClaim
    <3> QED BY <1>2, <2>1, <3>1, <3>2, TaskCarried DEF tick_count, ClaimTypes, TypeInv
  <2>2. CASE tick_snapshot \/ claim_failed
    <3>1. claim' = IdleClaim \/ claim' = [claim EXCEPT !.pc = "resume"]
      BY <2>2 DEF tick_snapshot, claim_failed
    <3>2. claim' \in ClaimRecords BY <1>b, <3>1, IdleTyped DEF ClaimRecords
    <3>3. claim'.batch \cup claim'.claimed \subseteq claim.batch \cup claim.claimed
      BY <1>b, <3>1, IdleTyped DEF ClaimRecords
    <3>4. UNCHANGED task BY <2>2 DEF tick_snapshot, claim_failed
    <3>5. \A c \in Copies : Present(c.row) => Present(c.row)'
      BY <1>2 DEF Kept, Copies
    <3> QED BY <1>2, <1>b, <3>2, <3>3, <3>4, <3>5, TaskCarried DEF ClaimTypes, TypeInv
  <2>3. CASE claim_resume
    <3>1. Resumable \subseteq OpenIn("AIP_STORE_IN_PROGRESS")
      BY DEF Resumable, NewestRows
    <3> DEFINE B == {CopyOf(r) : r \in Resumable}
    <3>2. B \subseteq Copies /\ \A c \in B : Present(c.row)
      BY <1>c, <3>1 DEF STAGE6_STATES
    <3>3. claim' = [claim EXCEPT !.pc = "admit_resume", !.batch = B]
      BY <2>3 DEF claim_resume
    <3> HIDE DEF B
    <3>4. claim' \in ClaimRecords /\ claim'.batch = B /\ claim'.claimed = claim.claimed
      BY <1>b, <3>2, <3>3 DEF ClaimRecords
    <3>5. \A c \in Copies : Present(c.row) => Present(c.row)'
      BY <1>2 DEF Kept, Copies
    <3> QED BY <1>2, <1>b, <2>3, <3>2, <3>4, <3>5, TaskCarried
            DEF claim_resume, ClaimTypes, TypeInv
  <2>4. CASE admit_resume
    <3>1. CASE Dispatch(Admitted)
      BY <1>2, <1>b, <3>1, AdmittedTypes, DispatchTypes
    <3>2. CASE /\ claim' = [claim EXCEPT !.pc = "pending", !.batch = {},
                                         !.claimed = Admitted]
               /\ UNCHANGED task
      <4> DEFINE A == Admitted
      <4>1. A \subseteq Copies /\ \A c \in A : Present(c.row)
        BY <1>b, AdmittedTypes
      <4>2. claim' = [claim EXCEPT !.pc = "pending", !.batch = {}, !.claimed = A]
        BY <3>2
      <4> HIDE DEF A
      <4>3. claim' \in ClaimRecords /\ claim'.batch = {} /\ claim'.claimed = A
        BY <1>b, <4>1, <4>2 DEF ClaimRecords
      <4>5. \A c \in Copies : Present(c.row) => Present(c.row)'
        BY <1>2 DEF Kept, Copies
      <4> QED BY <1>2, <3>2, <4>1, <4>3, <4>5, TaskCarried DEF ClaimTypes, TypeInv
    <3> QED BY <2>4, <3>1, <3>2 DEF admit_resume
  <2>5. CASE claim_pending
    <3> DEFINE rows == NewestRows(OpenIn("AIP_STORE_PENDING"), ScanWindow)
               B == {CopyOf(r) : r \in rows}
    <3>1. CASE Dispatch(claim.claimed)
      BY <1>2, <1>b, <3>1, DispatchTypes
    <3>2. CASE claim' = [claim EXCEPT !.pc = "filter", !.batch = B] /\ UNCHANGED task
      <4>1. rows \subseteq OpenIn("AIP_STORE_PENDING") BY DEF NewestRows
      <4>2. B \subseteq Copies /\ \A c \in B : Present(c.row)
        BY <1>c, <4>1 DEF STAGE6_STATES
      <4> HIDE DEF B
      <4>3. claim' \in ClaimRecords /\ claim'.batch = B
            /\ claim'.claimed = claim.claimed
        BY <1>b, <3>2, <4>2 DEF ClaimRecords
      <4>5. \A c \in Copies : Present(c.row) => Present(c.row)'
        BY <1>2 DEF Kept, Copies
      <4> QED BY <1>2, <1>b, <3>2, <4>2, <4>3, <4>5, TaskCarried DEF ClaimTypes, TypeInv
    <3> QED BY <2>5, <3>1, <3>2 DEF claim_pending
  <2>6. CASE claim_filter
    <3>1. \E B \in SUBSET claim.batch :
             claim' = [claim EXCEPT !.pc = "admit_pending", !.batch = B]
      BY <2>6 DEF claim_filter
    <3>2. PICK B \in SUBSET claim.batch :
             claim' = [claim EXCEPT !.pc = "admit_pending", !.batch = B]
      BY <3>1
    <3>3. claim' \in ClaimRecords /\ claim'.batch = B /\ claim'.claimed = claim.claimed
      BY <1>b, <3>2 DEF ClaimRecords
    <3>5. \A c \in Copies : Present(c.row) => Present(c.row)'
      BY <1>2 DEF Kept, Copies
    <3> QED BY <1>2, <1>b, <2>6, <3>2, <3>3, <3>5, TaskCarried
            DEF claim_filter, ClaimTypes, TypeInv
  <2>7. CASE admit_pending
    BY <1>2, <1>b, <2>7, AdmittedTypes, DispatchTypes DEF admit_pending
  <2> QED BY <2>1, <2>2, <2>3, <2>4, <2>5, <2>6, <2>7 DEF Tick
<1>4. StaffTypes' BY <1>1, <1>2, StaffCarried DEF ClaimFrame, TypeInv
<1> QED BY <1>1, <1>2, <1>3, <1>4
        DEF ClaimFrame, TypeInv, Kept, StoreTypes, ProcTypes, WorldTypes, worldVars,
            BoundTypes

(* The hand-over, time, crashes and restarts *)

LEMMA WorldStepTypes ==
    ASSUME TypeInv,
           \/ \E r \in Rows : hand_off(r)
           \/ \E a \in Aips : backoff_ends(a)
           \/ stop \/ crash \/ exit \/ start
    PROVE  TypeInv'
<1>q. QueueTypes /\ ClaimTypes /\ TaskTypes /\ StaffTypes /\ StoreTypes /\ WorldTypes
      /\ ProcTypes /\ BoundTypes
  BY DEF TypeInv
<1>1. CASE \E r \in Rows : hand_off(r)
  <2>1. PICK r \in Rows : hand_off(r) BY <1>1
  <2>2. Present(r)
    BY <1>q, <2>1 DEF hand_off, Present, QueueTypes
  <2>3. Kept
    BY <1>q, <2>1, <2>2, UpdateKept, RowStateNames DEF hand_off
  <2>4. ClaimTypes' /\ TaskTypes' /\ StaffTypes'
    BY <1>q, <2>1, <2>3, ClaimCarried, TaskCarried, StaffCarried DEF hand_off
  <2> QED BY <1>q, <2>1, <2>3, <2>4
          DEF hand_off, TypeInv, Kept, StoreTypes, ProcTypes, WorldTypes, worldVars,
              BoundTypes, boundVars
<1>2. CASE \E a \in Aips : backoff_ends(a)
  <2>1. PICK a \in Aips : backoff_ends(a) BY <1>2
  <2>2. Kept BY <1>q, <2>1, SameKept DEF backoff_ends
  <2>3. ClaimTypes' /\ TaskTypes' /\ StaffTypes'
    BY <1>q, <2>1, <2>2, ClaimCarried, TaskCarried, StaffCarried DEF backoff_ends
  <2>4. StoreTypes' BY <1>q, <2>1 DEF backoff_ends, StoreTypes, StoreRecords
  <2> QED BY <1>q, <2>1, <2>2, <2>3, <2>4
          DEF backoff_ends, TypeInv, Kept, ProcTypes, WorldTypes, worldVars,
              BoundTypes, boundVars
<1>3. CASE stop
  <2>1. Kept BY <1>q, <1>3, SameKept DEF stop
  <2>2. ClaimTypes' /\ StaffTypes'
    BY <1>q, <1>3, <2>1, ClaimCarried, StaffCarried DEF stop
  <2>3. TaskTypes' BY <1>q, <1>3, <2>1 DEF stop, TaskTypes, TaskRecords, Kept
  <2> QED BY <1>q, <1>3, <2>1, <2>2, <2>3
          DEF stop, TypeInv, Kept, StoreTypes, ProcTypes, WorldTypes, worldVars,
              BoundTypes
<1>4. CASE crash \/ exit
  <2>1. Gone /\ faults' \in Nat BY <1>q, <1>4 DEF crash, exit, BoundTypes
  <2>2. Kept BY <1>q, <2>1, SameKept DEF Gone
  <2>3. ClaimTypes' /\ TaskTypes' /\ StaffTypes'
    BY <2>1, IdleTyped DEF Gone, ClaimTypes, TaskTypes, StaffTypes
  <2>4. {sip[r] : r \in {q \in Rows : At(q, "wait")}} \subseteq Aips
    BY <1>q DEF At, TaskTypes, QueueTypes
  <2>5. WorldTypes' BY <1>q, <2>1, <2>4 DEF Gone, WorldTypes
  <2> QED BY <1>q, <2>1, <2>2, <2>3, <2>5
          DEF Gone, TypeInv, Kept, StoreTypes, ProcTypes, BoundTypes
<1>5. CASE start
  <2>1. Kept BY <1>q, <1>5 DEF start, Kept, QueueTypes, Present
  <2>2. ClaimTypes' /\ TaskTypes' /\ StaffTypes'
    BY <1>q, <1>5, <2>1, ClaimCarried, TaskCarried, StaffCarried DEF start
  <2> QED BY <1>q, <1>5, <2>1, <2>2
          DEF start, TypeInv, Kept, StoreTypes, ProcTypes, WorldTypes, worldVars,
              BoundTypes, boundVars
<1> QED BY <1>1, <1>2, <1>3, <1>4, <1>5

(* Staff requests *)

\* A request's next entry.
LEMMA SetStaffTypes ==
    ASSUME StaffTypes, Kept, NEW p \in Staff, NEW d \in StaffRecords,
           d.row # 0 => Present(d.row),
           d.pc \in {"stop_store", "stop_park", "dismiss"} => d.row # 0,
           staff' = [staff EXCEPT ![p] = d]
    PROVE  StaffTypes'
<1>1. \A r \in Rows : Present(r) => Present(r)' BY DEF Kept
<1>2. \A q \in Staff : staff'[q] = IF q = p THEN d ELSE staff[q] BY DEF StaffTypes
<1>3. \A q \in Staff : staff[q].row \in Rows \cup {0} /\ d.row \in Rows \cup {0}
  BY DEF StaffTypes, StaffRecords
<1>4. staff' \in [Staff -> StaffRecords] BY DEF StaffTypes
<1> QED BY <1>1, <1>2, <1>3, <1>4 DEF StaffTypes

LEMMA BeginTypes ==
    ASSUME StaffTypes, BoundTypes, Kept, NEW p \in Staff,
           NEW step \in {"stop_store", "dismiss", "source", "requeue", "candidates"},
           NEW r \in Rows \cup {0}, NEW aips \in SUBSET Aips,
           r # 0 => Present(r), step \in {"stop_store", "dismiss"} => r # 0,
           Begin(p, step, r, aips)
    PROVE  StaffTypes' /\ ops' \in Nat
<1> DEFINE d == [pc |-> step, row |-> r, aips |-> aips]
<1>1. d \in StaffRecords BY DEF StaffRecords
<1>2. staff' = [staff EXCEPT ![p] = d] /\ d.row = r /\ d.pc = step BY DEF Begin
<1> HIDE DEF d
<1>3. StaffTypes' BY <1>1, <1>2, SetStaffTypes
<1> QED BY <1>3 DEF Begin, BoundTypes

LEMMA AnswerTypes ==
    ASSUME StaffTypes, BoundTypes, Kept, NEW p \in Staff, Answer(p)
    PROVE  StaffTypes' /\ ops' \in Nat
<1>1. StaffTypes' BY IdleTyped, SetStaffTypes DEF Answer
<1> QED BY <1>1 DEF Answer, BoundTypes

LEMMA ProceedTypes ==
    ASSUME StaffTypes, BoundTypes, Kept, NEW p \in Staff,
           NEW step \in {"stop_park", "requeue"},
           step = "stop_park" => staff[p].pc = "stop_store", Proceed(p, step)
    PROVE  StaffTypes' /\ ops' \in Nat
<1> DEFINE d == [staff[p] EXCEPT !.pc = step]
<1>1. staff[p] \in StaffRecords BY DEF StaffTypes
<1>2. d \in StaffRecords /\ d.row = staff[p].row /\ d.pc = step
  BY <1>1 DEF StaffRecords
<1>3. staff' = [staff EXCEPT ![p] = d] BY DEF Proceed
<1> HIDE DEF d
<1>4. d.row # 0 => Present(d.row) BY <1>2 DEF StaffTypes
<1>5. d.pc \in {"stop_store", "stop_park", "dismiss"} => d.row # 0
  BY <1>2 DEF StaffTypes
<1>6. StaffTypes' BY <1>2, <1>3, <1>4, <1>5, SetStaffTypes
<1> QED BY <1>6 DEF Proceed, BoundTypes

\* A request keeps the rest of the process typed.
LEMMA RequestCarried ==
    ASSUME TypeInv, Kept, StaffFrame, TaskTypes', StoreTypes', StaffTypes',
           ops' \in Nat
    PROVE  TypeInv'
BY ClaimCarried DEF TypeInv, StaffFrame, Kept, ProcTypes, WorldTypes, BoundTypes

LEMMA NewestSubset == ASSUME NEW rows, NEW n PROVE NewestRows(rows, n) \subseteq rows
BY DEF NewestRows

LEMMA CardRows == ASSUME NEW S, S \subseteq Rows PROVE Cardinality(S) \in Nat
<1>1. IsFiniteSet(Rows)
  BY FS_Interval, AipStoreAssumption DEF Rows
<1> QED BY <1>1, FS_Subset, FS_CardinalityType

LEMMA StaffStepTypes ==
    ASSUME TypeInv, NEW p \in Staff, Request(p) \/ Handle(p)
    PROVE  TypeInv' /\ Kept
<1>q. QueueTypes /\ TaskTypes /\ StaffTypes /\ StoreTypes /\ WorldTypes /\ BoundTypes
      /\ ops \in Nat
  BY DEF TypeInv, QueueTypes, WorldTypes, BoundTypes
<1>s. staff[p] \in StaffRecords /\ staff[p].aips \subseteq Aips
      /\ staff[p].row \in Rows \cup {0}
  BY <1>q DEF StaffTypes, StaffRecords
<1>h. staff[p].pc \in {"stop_store", "stop_park", "dismiss"}
        => staff[p].row \in Rows /\ Present(staff[p].row) /\ sip[staff[p].row] \in Aips
           /\ state[staff[p].row] \in RowStates \ {"ABSENT"}
  BY <1>q, <1>s DEF StaffTypes, QueueTypes, Present
<1>1. CASE \E r \in Rows : stop_aip_copy(p, r)
  <2>1. PICK r \in Rows : stop_aip_copy(p, r) BY <1>1
  <2>2. Kept BY <1>q, <2>1, SameKept DEF stop_aip_copy
  <2>3. Present(r) BY <2>1, RowStateNames DEF stop_aip_copy, Present
  <2>4. StaffTypes' /\ ops' \in Nat
    BY <1>q, <2>1, <2>2, <2>3, BeginTypes, RowsAreNumbers DEF stop_aip_copy
  <2> DEFINE b == task[r].pc # "idle"
             d == [task[r] EXCEPT !.aborted = b]
  <2>5. task[r] \in TaskRecords BY <1>q DEF TaskTypes
  <2>6. d \in TaskRecords BY <2>5 DEF TaskRecords
  <2>7. task' = [task EXCEPT ![r] = d] BY <1>q, <2>1 DEF stop_aip_copy, TaskTypes
  <2> HIDE DEF d
  <2>8. TaskTypes' BY <1>q, <2>2, <2>3, <2>6, <2>7, SetTaskTypes
  <2> QED BY <1>q, <2>1, <2>2, <2>4, <2>8, RequestCarried
          DEF stop_aip_copy, StoreTypes
<1>2. CASE stop_store(p)
  <2>1. Kept BY <1>q, <1>2, SameKept DEF stop_store
  <2>2. StaffTypes' /\ ops' \in Nat BY <1>q, <1>2, <2>1, ProceedTypes DEF stop_store
  <2> DEFINE a == sip[staff[p].row]
             s == [NoStoreRow EXCEPT !.status = "INGEST_COPY_FAILED",
                                     !.attempts = store[a].attempts]
  <2>3. a \in Aips BY <1>h, <1>2 DEF stop_store
  <2>4. store[a].attempts \in Nat BY <1>q, <2>3 DEF StoreTypes, StoreRecords
  <2>5. s \in StoreRecords BY <2>4 DEF NoStoreRow, StoreRecords, Statuses
  <2>6. store' = [store EXCEPT ![a] = s] BY <1>2 DEF stop_store, upsert_by_uuid
  <2> HIDE DEF s, a
  <2>7. StoreTypes' BY <1>q, <2>3, <2>5, <2>6 DEF StoreTypes
  <2> QED BY <1>q, <1>2, <2>1, <2>2, <2>7, TaskCarried, RequestCarried DEF stop_store
<1>3. CASE stop_park(p) \/ dismiss_write(p)
  <2>1. Kept
    BY <1>q, <1>h, <1>3, UpdateKept, RowStateNames DEF stop_park, dismiss_write
  <2>2. StaffTypes' /\ ops' \in Nat
    BY <1>q, <1>3, <2>1, AnswerTypes DEF stop_park, dismiss_write
  <2> QED BY <1>q, <1>3, <2>1, <2>2, TaskCarried, RequestCarried
          DEF stop_park, dismiss_write, StoreTypes
<1>4. CASE \E r \in Rows : dismiss_aip_row(p, r)
  <2>1. PICK r \in Rows : dismiss_aip_row(p, r) BY <1>4
  <2>2. Kept BY <1>q, <2>1, SameKept DEF dismiss_aip_row
  <2>3. Present(r) BY <2>1 DEF dismiss_aip_row, Present
  <2>4. StaffTypes' /\ ops' \in Nat
    BY <1>q, <2>1, <2>2, <2>3, BeginTypes, RowsAreNumbers DEF dismiss_aip_row
  <2> QED BY <1>q, <2>1, <2>2, <2>4, TaskCarried, RequestCarried
          DEF dismiss_aip_row, StoreTypes
<1>5. CASE \E a \in Aips, dc \in BOOLEAN : aip_retry(p, a, dc)
  <2>1. PICK a \in Aips, dc \in BOOLEAN : aip_retry(p, a, dc) BY <1>5
  <2>2. Kept BY <1>q, <2>1, SameKept DEF aip_retry
  <2>3. StaffTypes' /\ ops' \in Nat
    BY <1>q, <2>1, <2>2, BeginTypes DEF aip_retry
  <2>4. [NoStoreRow EXCEPT !.status = "INITIAL"] \in StoreRecords
    BY DEF NoStoreRow, StoreRecords, Statuses
  <2>5. StoreTypes' BY <1>q, <2>1, <2>4 DEF aip_retry, upsert_by_uuid, StoreTypes
  <2> QED BY <1>q, <2>1, <2>2, <2>3, <2>5, TaskCarried, RequestCarried DEF aip_retry
<1>6. CASE retry_source(p)
  <2>1. Kept BY <1>q, <1>6, SameKept DEF retry_source
  <2>2. StaffTypes' /\ ops' \in Nat BY <1>q, <1>6, <2>1, ProceedTypes DEF retry_source
  <2>3. \A a \in Aips : [store[a] EXCEPT !.message = "RETRY_FROM_DURACLOUD"]
                          \in StoreRecords
    BY <1>q DEF StoreTypes, StoreRecords
  <2>4. StoreTypes' BY <1>q, <1>6, <2>3 DEF retry_source, StoreTypes
  <2> QED BY <1>q, <1>6, <2>1, <2>2, <2>4, TaskCarried, RequestCarried DEF retry_source
<1>7. CASE retry_requeue(p)
  <2>1. PICK r \in NewestRows({q \in Rows : sip[q] \in staff[p].aips}, 1) :
             /\ update_queue(r, "AIP_STORE_PENDING", FALSE)
    BY <1>7 DEF retry_requeue
  <2>2. r \in Rows /\ sip[r] \in staff[p].aips BY NewestSubset
  <2>3. Present(r) BY <1>q, <1>s, <2>2 DEF QueueTypes
  <2>4. Kept BY <1>q, <2>1, <2>2, <2>3, UpdateKept, RowStateNames
  <2>5. StaffTypes' /\ ops' \in Nat BY <1>q, <1>7, <2>4, AnswerTypes DEF retry_requeue
  <2> QED BY <1>q, <1>7, <2>4, <2>5, TaskCarried, RequestCarried
          DEF retry_requeue, StoreTypes
<1>8. CASE backfill_start(p)
  <2>1. Kept BY <1>q, <1>8, SameKept DEF backfill_start
  <2>2. StaffTypes' /\ ops' \in Nat BY <1>q, <1>8, <2>1, BeginTypes DEF backfill_start
  <2> QED BY <1>q, <1>8, <2>1, <2>2, TaskCarried, RequestCarried
          DEF backfill_start, StoreTypes
<1>9. CASE backfill_candidates(p)
  <2>1. Kept BY <1>q, <1>9, SameKept DEF backfill_candidates
  <2>2. \E chunk \in SUBSET staff[p].aips :
           staff' = [staff EXCEPT ![p] = IF chunk = {} THEN IdleStaff
                        ELSE [staff[p] EXCEPT !.pc = "insert", !.aips = chunk]]
    BY <1>9 DEF backfill_candidates
  <2>3. PICK chunk \in SUBSET staff[p].aips :
           staff' = [staff EXCEPT ![p] = IF chunk = {} THEN IdleStaff
                        ELSE [staff[p] EXCEPT !.pc = "insert", !.aips = chunk]]
    BY <2>2
  <2> DEFINE e == [staff[p] EXCEPT !.pc = "insert", !.aips = chunk]
             d == IF chunk = {} THEN IdleStaff ELSE e
  <2>4. e \in StaffRecords /\ e.row = staff[p].row /\ e.pc = "insert"
    BY <1>s DEF StaffRecords
  <2>5. d \in StaffRecords /\ (d.row # 0 => Present(d.row))
        /\ d.pc \notin {"stop_store", "stop_park", "dismiss"}
    BY <1>q, <2>4, IdleTyped DEF StaffTypes
  <2>6. staff' = [staff EXCEPT ![p] = d] BY <2>3
  <2> HIDE DEF d
  <2>7. StaffTypes' BY <1>q, <2>1, <2>5, <2>6, SetStaffTypes
  <2> QED BY <1>q, <1>9, <2>1, <2>7, TaskCarried, RequestCarried
          DEF backfill_candidates, StoreTypes
<1>10. CASE backfill_insert(p)
  <2> DEFINE chunk == staff[p].aips
             used == {r \in Rows : state[r] # "ABSENT"}
             RowFor(a) == Cardinality(used) + Cardinality({b \in chunk : b <= a})
             new == {r \in Rows \ used : \E a \in chunk : RowFor(a) = r}
             first == Cardinality(used) + 1
  <2>1. /\ state' = [r \in Rows |-> IF r \in new THEN "AIP_STORE_PENDING" ELSE state[r]]
        /\ sip' = [r \in Rows |-> IF r \in new THEN CHOOSE a \in chunk : RowFor(a) = r
                                  ELSE sip[r]]
        /\ batch' = [r \in Rows |-> IF r \in new THEN first ELSE batch[r]]
        /\ UNCHANGED is_complete
    BY <1>10 DEF backfill_insert
  <2>2. first \in Nat BY CardRows
  <2>3. \A r \in new : (CHOOSE a \in chunk : RowFor(a) = r) \in Aips BY <1>s
  <2>4. \A r \in new : r \in Rows /\ ~Present(r) BY DEF Present
  <2> HIDE DEF new, first, chunk, RowFor
  <2>5. Kept
    BY <1>q, <2>1, <2>2, <2>3, <2>4, RowStateNames, RowsAreNumbers
       DEF Kept, QueueTypes, Present
  <2>6. StaffTypes' /\ ops' \in Nat
    BY <1>q, <1>10, <2>5, AnswerTypes DEF backfill_insert
  <2> QED BY <1>q, <1>10, <2>5, <2>6, TaskCarried, RequestCarried
          DEF backfill_insert, StoreTypes
<1>11. CASE cancel_backfill(p)
  <2>1. \E hit \in SUBSET {r \in Rows : state[r] = "AIP_STORE_PENDING"} :
          /\ state' = [r \in Rows |-> IF r \in hit THEN "CANCELLED_BY_USER" ELSE state[r]]
          /\ is_complete' = [r \in Rows |-> r \in hit \/ is_complete[r]]
          /\ UNCHANGED <<sip, batch, staff, store, task>> /\ StaffFrame
          /\ UNCHANGED ops
    BY <1>11 DEF cancel_backfill
  <2>2. PICK hit \in SUBSET {r \in Rows : state[r] = "AIP_STORE_PENDING"} :
          /\ state' = [r \in Rows |-> IF r \in hit THEN "CANCELLED_BY_USER" ELSE state[r]]
          /\ is_complete' = [r \in Rows |-> r \in hit \/ is_complete[r]]
          /\ UNCHANGED <<sip, batch, staff, store, task>> /\ StaffFrame
          /\ UNCHANGED ops
    BY <2>1
  <2>3. Kept BY <1>q, <2>2, RowStateNames DEF Kept, QueueTypes, Present
  <2>4. StaffTypes' BY <1>q, <2>2, <2>3, StaffCarried
  <2> QED BY <1>q, <2>2, <2>3, <2>4, TaskCarried, RequestCarried DEF StoreTypes
<1> QED BY <1>1, <1>2, <1>3, <1>4, <1>5, <1>6, <1>7, <1>8, <1>9, <1>10, <1>11
        DEF Request, Handle

\* A failed request disturbs only itself.
LEMMA FailedTypes ==
    ASSUME TypeInv, NEW p \in Staff, request_failed(p)
    PROVE  TypeInv'
<1>q. QueueTypes /\ StaffTypes /\ TaskTypes /\ ClaimTypes /\ BoundTypes
  BY DEF TypeInv
<1>1. Kept BY <1>q, SameKept DEF request_failed
<1> DEFINE e == [staff[p] EXCEPT !.pc = "stop_park"]
           d == IF staff[p].pc = "stop_store" THEN e ELSE IdleStaff
<1>2. staff[p] \in StaffRecords BY <1>q DEF StaffTypes
<1>3. e \in StaffRecords /\ e.row = staff[p].row BY <1>2 DEF StaffRecords
<1>4. d \in StaffRecords /\ (d.row # 0 => Present(d.row))
      /\ (d.pc \in {"stop_store", "stop_park", "dismiss"} => d.row # 0)
  BY <1>q, <1>3, IdleTyped DEF StaffTypes
<1>5. staff' = [staff EXCEPT ![p] = d] BY DEF request_failed
<1> HIDE DEF d
<1>6. StaffTypes' BY <1>q, <1>1, <1>4, <1>5, SetStaffTypes
<1>7. ClaimTypes' /\ TaskTypes'
  BY <1>q, <1>1, ClaimCarried, TaskCarried DEF request_failed
<1> QED BY <1>q, <1>1, <1>6, <1>7
        DEF request_failed, TypeInv, Kept, StoreTypes, ProcTypes, WorldTypes, worldVars,
            BoundTypes

LEMMA StutterTypes == ASSUME TypeInv, UNCHANGED vars PROVE TypeInv'
BY DEF vars, queueVars, worldVars, boundVars, TypeInv, QueueTypes, Present, StoreTypes,
   ClaimTypes, TaskTypes, StaffTypes, ProcTypes, WorldTypes, BoundTypes

LEMMA NextTypes == ASSUME TypeInv, [Next]_vars PROVE TypeInv'
<1>1. ASSUME NEW p \in Staff, Request(p) \/ Handle(p) PROVE TypeInv'
  BY <1>1, StaffStepTypes
<1>2. ASSUME NEW r \in Rows, Stage(r) \/ stage_threw(r) PROVE TypeInv'
  BY <1>2, StageTypes
<1> QED BY <1>1, <1>2, ClaimStepTypes, WorldStepTypes, FailedTypes, StutterTypes DEF Next

LEMMA InitTypes == Init => TypeInv
<1> SUFFICES ASSUME Init PROVE TypeInv OBVIOUS
<1>1. QueueTypes
  <2>1. "ABSENT" \in RowStates /\ "COMPLETE" \in RowStates BY DEF RowStates
  <2>2. \A r \in Rows : Present(r) <=> sip[r] \in Aips
    BY RowsAreNumbers DEF Init, Present
  <2> QED BY <2>1, <2>2, RowsAreNumbers DEF Init, QueueTypes
<1>2. StoreTypes /\ ClaimTypes /\ TaskTypes /\ StaffTypes
  BY IdleTyped DEF Init, StoreTypes, ClaimTypes, TaskTypes, StaffTypes
<1>3. ProcTypes /\ WorldTypes /\ BoundTypes
  BY DEF Init, ProcTypes, WorldTypes, BoundTypes
<1> QED BY <1>1, <1>2, <1>3 DEF TypeInv

LEMMA TypesHold == Spec => []TypeInv
BY InitTypes, NextTypes, PTL DEF Spec

\* The queue, the store rows, the claim, the stages and the requests keep their
\* types (tbl_ingest_queue, tbl_aip_store, worker.js, dashboard.js).
THEOREM TypeCorrect == Spec => []TypeOK
<1>1. TypeInv => TypeOK
  BY DEF TypeInv, QueueTypes, Present, StoreTypes, ClaimTypes, TaskTypes, StaffTypes,
     ProcTypes, WorldTypes, BoundTypes, TypeOK
<1> QED BY <1>1, TypesHold, PTL

-----------------------------------------------------------------------------
(* A row that reports its AIP preserved.  The bytes never leave cloud storage, *)
(* so it is enough that the store row, a stage about to say so and a row that  *)
(* says so all have them there.                                                *)

Knows == {"store", "complete", "already"}

StoredInv ==
    /\ \A a \in Aips : store[a].status = "INGEST_COPIED_OK" => a \in wasabi
    /\ \A r \in Rows : task[r].pc \in Knows => sip[r] \in wasabi
    /\ CompleteIsStored

\* What a step must not do to disturb it.
StoredStep ==
    /\ wasabi \subseteq wasabi'
    /\ \A a \in Aips : store'[a].status = "INGEST_COPIED_OK"
                         => store[a].status = "INGEST_COPIED_OK" \/ a \in wasabi'
    /\ \A r \in Rows : task'[r].pc \in Knows
                         => task[r].pc \in Knows \/ (Present(r) /\ sip[r] \in wasabi')
    /\ \A r \in Rows : state'[r] = "AIP_STORE_COMPLETE"
                         => \/ state[r] = "AIP_STORE_COMPLETE"
                            \/ Present(r) /\ sip[r] \in wasabi'

LEMMA StoredKept ==
    ASSUME TypeInv, StoredInv, Kept, StoredStep PROVE StoredInv'
<1>1. \A r \in Rows : task[r].pc \in Knows => Present(r)
  BY DEF TypeInv, TaskTypes, Knows
<1>2. \A r \in Rows : state[r] = "AIP_STORE_COMPLETE" => Present(r) BY DEF Present
<1> QED BY <1>1, <1>2 DEF StoredInv, StoredStep, Kept, CompleteIsStored

LEMMA StageStored ==
    ASSUME TypeInv, StoredInv, NEW r \in Rows, Stage(r) \/ stage_threw(r)
    PROVE  StoredStep
<1>t. task \in [Rows -> TaskRecords] /\ state \in [Rows -> RowStates]
      /\ store \in [Aips -> StoreRecords]
  BY DEF TypeInv, TaskTypes, QueueTypes, StoreTypes
<1>p. Present(r) /\ sip[r] \in Aips /\ task[r] \in TaskRecords
  BY DEF TypeInv, TaskTypes, QueueTypes, Stage, stage_threw, At, lookup, drain,
     already_copied, skip_orphan, mark_in_progress, copy_call, copy_aborted,
     copy_succeeds, copy_fails, store_copied, complete, record_failure, park
<1>r. Return(r) => \A q \in Rows : task'[q].pc \in Knows => task[q].pc \in Knows
  BY <1>t, IdleTyped DEF Return, Knows
<1>g. ASSUME NEW step \in Steps, Goto(r, step)
      PROVE  task'[r].pc = step /\ \A q \in Rows \ {r} : task'[q] = task[q]
  BY <1>t, <1>p, <1>g DEF Goto, TaskRecords
<1>1. CASE lookup(r)
  <2>1. \A q \in Rows : task'[q].pc \in Knows
          => task[q].pc \in Knows \/ (Present(q) /\ sip[q] \in wasabi)
    <3>1. CASE Goto(r, "drain") \/ Goto(r, "orphan")
      BY <1>g, <3>1 DEF Knows, Steps
    <3>2. CASE is_terminal_success(store[sip[r]]) /\ Goto(r, "already")
      BY <1>p, <1>g, <3>2 DEF Steps, StoredInv, is_terminal_success
    <3>3. CASE Return(r) BY <1>r, <3>3
    <3>4. CASE \E step \in {"call", "mark"}, b \in BOOLEAN :
                 task' = [task EXCEPT ![r].pc = step, ![r].duracloud = b]
      BY <1>t, <1>p, <3>4 DEF Knows, TaskRecords
    <3> QED BY <1>1, <3>1, <3>2, <3>3, <3>4 DEF lookup
  <2> QED BY <1>1, <2>1 DEF lookup, StoredStep, worldVars, queueVars
<1>2. CASE already_copied(r) \/ complete(r)
  <2>1. sip[r] \in wasabi /\ UNCHANGED <<wasabi, store>> /\ Return(r)
    BY <1>2 DEF already_copied, complete, At, StoredInv, Knows, worldVars
  <2>2. \A q \in Rows \ {r} : state'[q] = state[q]
    BY <1>t, <1>2 DEF already_copied, complete, update_queue
  <2> QED BY <1>p, <1>r, <2>1, <2>2 DEF StoredStep
<1>3. CASE drain(r) \/ skip_orphan(r) \/ park(r) \/ mark_in_progress(r)
  <2>1. \A q \in Rows : state'[q] = "AIP_STORE_COMPLETE" => state[q] = state'[q]
    BY <1>t, <1>3 DEF drain, skip_orphan, park, mark_in_progress, update_queue, ParkState
  <2>2. Return(r) \/ Goto(r, "call")
    BY <1>3 DEF drain, skip_orphan, park, mark_in_progress
  <2>3. \A q \in Rows : task'[q].pc \in Knows => task[q].pc \in Knows
    BY <1>r, <1>g, <2>2 DEF Knows, Steps
  <2>4. UNCHANGED <<wasabi, store>>
    BY <1>3 DEF drain, skip_orphan, park, mark_in_progress, worldVars
  <2> QED BY <2>1, <2>3, <2>4 DEF StoredStep
<1>4. CASE copy_call(r) \/ copy_aborted(r)
  <2>1. Return(r) \/ Goto(r, "wait") BY <1>4 DEF copy_call, copy_aborted
  <2>2. \A q \in Rows : task'[q].pc \in Knows => task[q].pc \in Knows
    BY <1>r, <1>g, <2>1 DEF Knows, Steps
  <2>3. wasabi \subseteq wasabi' /\ UNCHANGED <<state, store>>
    BY <1>4 DEF copy_call, copy_aborted, queueVars
  <2> QED BY <2>2, <2>3 DEF StoredStep
<1>5. CASE copy_succeeds(r)
  <2>1. Goto(r, "store") /\ wasabi' = wasabi \cup {sip[r]} /\ UNCHANGED <<state, store>>
    BY <1>5 DEF copy_succeeds, queueVars
  <2> QED BY <1>p, <1>g, <2>1 DEF StoredStep, Steps
<1>6. CASE copy_fails(r)
  <2>1. \A q \in Rows : task'[q].pc \in Knows => task[q].pc \in Knows
    BY <1>t, <1>p, <1>6 DEF copy_fails, Knows, TaskRecords
  <2>2. wasabi \subseteq wasabi' /\ UNCHANGED <<state, store>>
    BY <1>6 DEF copy_fails, queueVars
  <2> QED BY <2>1, <2>2 DEF StoredStep
<1>7. CASE store_copied(r)
  <2>1. sip[r] \in wasabi BY <1>7 DEF store_copied, At, StoredInv, Knows
  <2>2. Goto(r, "complete") /\ UNCHANGED <<wasabi, state>>
    BY <1>7 DEF store_copied, queueVars, worldVars
  <2>3. \A a \in Aips \ {sip[r]} : store'[a] = store[a]
    BY <1>t, <1>7 DEF store_copied, upsert_by_uuid
  <2> QED BY <1>p, <1>g, <2>1, <2>2, <2>3 DEF StoredStep, Steps
<1>8. CASE record_failure(r)
  <2>1. FailurePatch(task[r]).status # "INGEST_COPIED_OK" BY DEF FailurePatch
  <2>2. \A a \in Aips : store'[a].status = "INGEST_COPIED_OK" => store'[a] = store[a]
    BY <1>t, <1>p, <1>8, <2>1 DEF record_failure, upsert_by_uuid
  <2>3. Goto(r, "park") /\ UNCHANGED <<wasabi, state>>
    BY <1>8 DEF record_failure, queueVars, worldVars
  <2> QED BY <1>g, <2>2, <2>3 DEF StoredStep, Knows, Steps
<1>9. CASE stage_threw(r)
  <2>1. \A q \in Rows : state'[q] = "AIP_STORE_COMPLETE" => state[q] = state'[q]
    BY <1>t, <1>9 DEF stage_threw, update_queue, queueVars
  <2>2. Return(r) /\ UNCHANGED <<wasabi, store>> BY <1>9 DEF stage_threw, worldVars
  <2> QED BY <1>r, <2>1, <2>2 DEF StoredStep
<1> QED BY <1>1, <1>2, <1>3, <1>4, <1>5, <1>6, <1>7, <1>8, <1>9 DEF Stage

LEMMA ClaimStored ==
    ASSUME TypeInv, StoredInv, Tick \/ claim_failed PROVE StoredStep
<1>1. ClaimFrame
  BY DEF Tick, tick_count, tick_snapshot, claim_resume, admit_resume, claim_pending,
     claim_filter, admit_pending, claim_failed
<1>2. ASSUME NEW claimed, Dispatch(claimed), NEW r \in Rows
      PROVE  task'[r].pc \in Knows => task[r].pc \in Knows
  <2>1. CASE \E c \in claimed : c.row = r
    BY <1>2, <2>1 DEF Dispatch, IdleTask, Knows
  <2> QED BY <1>2, <2>1 DEF Dispatch
<1>3. (\E claimed : Dispatch(claimed)) \/ UNCHANGED task
  BY DEF Tick, tick_count, tick_snapshot, claim_resume, admit_resume, claim_pending,
     claim_filter, admit_pending, claim_failed
<1> QED BY <1>1, <1>2, <1>3 DEF ClaimFrame, StoredStep, queueVars, worldVars

LEMMA StaffStored ==
    ASSUME TypeInv, StoredInv, NEW p \in Staff, Request(p) \/ Handle(p)
    PROVE  StoredStep
<1>t. task \in [Rows -> TaskRecords] /\ state \in [Rows -> RowStates]
      /\ store \in [Aips -> StoreRecords]
  BY DEF TypeInv, TaskTypes, QueueTypes, StoreTypes
<1>1. wasabi' = wasabi
  BY DEF Request, Handle, StaffFrame, backfill_start, cancel_backfill, stop_aip_copy,
     dismiss_aip_row, aip_retry, stop_store, stop_park, dismiss_write, retry_source,
     retry_requeue, backfill_candidates, backfill_insert
<1>2. \A r \in Rows : task'[r].pc = task[r].pc
  <2>1. CASE \E r \in Rows : stop_aip_copy(p, r)
    <3>1. PICK r \in Rows : stop_aip_copy(p, r) BY <2>1
    <3>2. PICK b : task' = [task EXCEPT ![r].aborted = b] BY <3>1 DEF stop_aip_copy
    <3> QED BY <1>t, <3>2 DEF TaskRecords
  <2>2. CASE UNCHANGED task BY <2>2
  <2> QED BY <2>1, <2>2
     DEF Request, Handle, backfill_start, cancel_backfill, dismiss_aip_row, aip_retry,
         stop_store, stop_park, dismiss_write, retry_source, retry_requeue,
         backfill_candidates, backfill_insert
<1>3. \A r \in Rows : state'[r] = "AIP_STORE_COMPLETE" => state[r] = state'[r]
  <2>1. CASE UNCHANGED state BY <2>1
  <2>2. CASE \E r \in Rows : dismiss_aip_row(p, r) \/ stop_aip_copy(p, r)
    BY <2>2 DEF dismiss_aip_row, stop_aip_copy, queueVars
  <2>3. CASE stop_park(p) \/ dismiss_write(p) \/ retry_requeue(p)
    BY <1>t, <2>3 DEF stop_park, dismiss_write, retry_requeue, update_queue
  <2>4. CASE backfill_insert(p) \/ cancel_backfill(p)
    BY <1>t, <2>4 DEF backfill_insert, cancel_backfill
  <2>5. CASE \/ backfill_start(p) \/ stop_store(p) \/ retry_source(p)
             \/ backfill_candidates(p)
             \/ \E a \in Aips, dc \in BOOLEAN : aip_retry(p, a, dc)
    BY <2>5 DEF backfill_start, stop_store, retry_source, backfill_candidates,
       aip_retry, queueVars
  <2> QED BY <2>1, <2>2, <2>3, <2>4, <2>5 DEF Request, Handle
<1>4. \A a \in Aips : store'[a].status = "INGEST_COPIED_OK"
                        => store[a].status = "INGEST_COPIED_OK"
  <2>1. CASE stop_store(p)
    BY <1>t, <2>1 DEF stop_store, upsert_by_uuid, NoStoreRow
  <2>2. CASE \E a \in Aips, dc \in BOOLEAN : aip_retry(p, a, dc)
    BY <1>t, <2>2 DEF aip_retry, upsert_by_uuid, NoStoreRow
  <2>3. CASE retry_source(p) BY <1>t, <2>3 DEF retry_source, StoreRecords
  <2>4. CASE UNCHANGED store BY <2>4
  <2> QED BY <2>1, <2>2, <2>3, <2>4
     DEF Request, Handle, backfill_start, cancel_backfill, stop_aip_copy,
         dismiss_aip_row, stop_park, dismiss_write, retry_requeue,
         backfill_candidates, backfill_insert
<1> QED BY <1>1, <1>2, <1>3, <1>4 DEF StoredStep

LEMMA WorldStored ==
    ASSUME TypeInv, StoredInv,
           \/ \E r \in Rows : hand_off(r)
           \/ \E a \in Aips : backoff_ends(a)
           \/ stop \/ crash \/ exit \/ start
    PROVE  StoredStep /\ Kept
<1>t. task \in [Rows -> TaskRecords] /\ state \in [Rows -> RowStates]
      /\ store \in [Aips -> StoreRecords] /\ QueueTypes
  BY DEF TypeInv, TaskTypes, QueueTypes, StoreTypes
<1>1. CASE \E r \in Rows : hand_off(r)
  <2>1. PICK r \in Rows : hand_off(r) BY <1>1
  <2>2. Present(r) BY <1>t, <2>1 DEF hand_off, Present, QueueTypes
  <2>3. Kept BY <1>t, <2>1, <2>2, UpdateKept, RowStateNames DEF hand_off
  <2> QED BY <1>t, <2>1, <2>3 DEF hand_off, update_queue, StoredStep, worldVars
<1>2. CASE \E a \in Aips : backoff_ends(a)
  <2>1. Kept BY <1>t, <1>2, SameKept DEF backoff_ends
  <2> QED BY <1>t, <1>2, <2>1
          DEF backoff_ends, StoredStep, StoreRecords, queueVars, worldVars
<1>3. CASE stop
  <2>1. Kept BY <1>t, <1>3, SameKept DEF stop
  <2> QED BY <1>t, <1>3, <2>1 DEF stop, StoredStep, TaskRecords, queueVars, worldVars
<1>4. CASE crash \/ exit
  <2>1. Gone BY <1>4 DEF crash, exit
  <2>2. Kept BY <1>t, <2>1, SameKept DEF Gone
  <2>3. \A r \in Rows : task'[r].pc = "idle" BY <2>1, IdleTyped DEF Gone
  <2> QED BY <2>1, <2>2, <2>3 DEF Gone, StoredStep, Knows, queueVars
<1>5. CASE start
  <2>1. Kept BY <1>t, <1>5 DEF start, Kept, QueueTypes, Present
  <2> QED BY <1>5, <2>1 DEF start, StoredStep, worldVars
<1> QED BY <1>1, <1>2, <1>3, <1>4, <1>5

LEMMA NextStored == ASSUME TypeInv, StoredInv, [Next]_vars PROVE StoredInv'
<1>1. CASE Tick \/ claim_failed
  BY <1>1, ClaimStored, ClaimStepTypes, StoredKept
<1>2. CASE \E r \in Rows : Stage(r) \/ stage_threw(r)
  BY <1>2, StageStored, StageTypes, StoredKept
<1>3. CASE \E p \in Staff : Request(p) \/ Handle(p)
  BY <1>3, StaffStored, StaffStepTypes, StoredKept
<1>4. CASE \/ \E r \in Rows : hand_off(r)
           \/ \E a \in Aips : backoff_ends(a)
           \/ stop \/ crash \/ exit \/ start
  BY <1>4, WorldStored, StoredKept
<1>5. CASE UNCHANGED vars \/ \E p \in Staff : request_failed(p)
  BY <1>5 DEF request_failed, vars, queueVars, worldVars, StoredInv, CompleteIsStored
<1> QED BY <1>1, <1>2, <1>3, <1>4, <1>5 DEF Next

LEMMA InitStored == Init => StoredInv
<1> SUFFICES ASSUME Init PROVE StoredInv OBVIOUS
<1>1. \A a \in Aips : store[a].status = "none" BY DEF Init, NoStoreRow
<1>2. \A r \in Rows : task[r].pc = "idle" BY IdleTyped DEF Init
<1>3. \A r \in Rows : state[r] # "AIP_STORE_COMPLETE" BY DEF Init
<1> QED BY <1>1, <1>2, <1>3 DEF StoredInv, Knows, CompleteIsStored

\* A row reports its AIP preserved only when the bytes are in cloud storage,
\* through every stop, retry, backfill, crash and restart (aip_store.js).
THEOREM PreservedIsStored == Spec => []CompleteIsStored
<1>1. TypeInv /\ StoredInv /\ [Next]_vars => (TypeInv /\ StoredInv)'
  BY NextTypes, NextStored
<1>2. Init => TypeInv /\ StoredInv BY InitTypes, InitStored
<1>3. StoredInv => CompleteIsStored BY DEF StoredInv
<1> QED BY <1>1, <1>2, <1>3, PTL DEF Spec

-----------------------------------------------------------------------------
(* One copy at a time.  Under the gate a claim past its snapshot has seen no   *)
(* running stage, holds no earlier catch, and dispatches one row at most.      *)

Running(r) == task[r].pc # "idle"

CopyInv ==
    Stage6Serial =>
        /\ \A q, r \in Rows : Running(q) /\ Running(r) => q = r
        /\ claim.pc \notin {"idle", "snap"} => \A r \in Rows : ~Running(r)
        /\ claim.claimed = {}

\* Most steps start no stage and leave the claim where it is, or end it.
LEMMA QuietKept ==
    ASSUME CopyInv, \A r \in Rows : Running(r)' => Running(r),
           UNCHANGED claim \/ claim' = IdleClaim
    PROVE  CopyInv'
<1>1. IdleClaim.pc = "idle" /\ IdleClaim.claimed = {} BY DEF IdleClaim
<1>2. CASE UNCHANGED claim BY <1>2 DEF CopyInv
<1>3. CASE claim' = IdleClaim BY <1>1, <1>3 DEF CopyInv
<1> QED BY <1>2, <1>3

LEMMA OneAdmitted ==
    ASSUME Stage6Serial, claim.batch \subseteq Copies, NEW c \in Admitted, NEW d \in Admitted
    PROVE  c.row = d.row
<1>1. c \in Copies /\ d \in Copies /\ c.row <= d.row /\ d.row <= c.row BY DEF Admitted
<1>2. c.row \in Rows /\ d.row \in Rows BY <1>1 DEF Copies
<1>3. \A x, y \in Rows : x <= y /\ y <= x => x = y BY RowsAreNumbers
<1> QED BY <1>1, <1>2, <1>3, Zenon

LEMMA DispatchOne ==
    ASSUME CopyInv, NEW claimed, Dispatch(claimed), claim.pc \notin {"idle", "snap"},
           Stage6Serial => \A c, d \in claimed : c.row = d.row
    PROVE  CopyInv'
<1> SUFFICES ASSUME Stage6Serial PROVE CopyInv' BY DEF CopyInv
<1>1. \A r \in Rows : Running(r)' => \E c \in claimed : c.row = r
  BY DEF Dispatch, CopyInv, Running
<1>2. \A q, r \in Rows : Running(q)' /\ Running(r)' => q = r BY <1>1
<1>3. claim'.pc = "idle" /\ claim'.claimed = {} BY DEF Dispatch, IdleClaim
<1> QED BY <1>2, <1>3 DEF CopyInv

LEMMA ClaimOne == ASSUME TypeInv, CopyInv, Tick \/ claim_failed PROVE CopyInv'
<1>b. claim \in ClaimRecords /\ claim.batch \subseteq Copies
  BY DEF TypeInv, ClaimTypes, ClaimRecords
<1>1. CASE tick_count
  <2>1. claim'.pc = "snap" /\ claim'.claimed = {} /\ UNCHANGED task
    BY <1>1 DEF tick_count, IdleClaim
  <2> QED BY <2>1 DEF CopyInv, Running
<1>2. CASE tick_snapshot
  <2>1. CASE InFlight BY <1>2, <2>1, QuietKept DEF tick_snapshot, Running
  <2>2. CASE ~InFlight
    <3>1. Stage6Serial => \A r \in Rows : ~Running(r)
      BY <2>2 DEF InFlight, stage6_dispatched, Running
    <3>2. claim'.claimed = claim.claimed /\ UNCHANGED task
      BY <1>2, <1>b, <2>2 DEF tick_snapshot, ClaimRecords
    <3> QED BY <3>1, <3>2 DEF CopyInv, Running
  <2> QED BY <2>1, <2>2
<1>3. CASE claim_failed BY <1>3, QuietKept DEF claim_failed, Running
<1>4. CASE claim_resume
  <2>1. claim.pc = "resume" /\ claim'.claimed = claim.claimed /\ UNCHANGED task
    BY <1>4, <1>b DEF claim_resume, ClaimRecords
  <2> QED BY <2>1 DEF CopyInv, Running
<1>5. CASE admit_resume
  <2>1. claim.pc = "admit_resume" BY <1>5 DEF admit_resume
  <2>2. CASE Dispatch(Admitted)
    BY <1>b, <2>1, <2>2, OneAdmitted, DispatchOne
  <2>3. CASE ~PendingClosed(Admitted)
    <3>1. claim' = [claim EXCEPT !.pc = "pending", !.batch = {}, !.claimed = Admitted]
          /\ UNCHANGED task
      BY <1>5, <2>3 DEF admit_resume
    <3>2. Stage6Serial => Admitted = {} BY <2>3 DEF PendingClosed
    <3>3. claim'.claimed = Admitted BY <1>b, <3>1 DEF ClaimRecords
    <3> QED BY <2>1, <3>1, <3>2, <3>3 DEF CopyInv, Running
  <2> QED BY <1>5, <2>2, <2>3 DEF admit_resume
<1>6. CASE claim_pending
  <2>1. claim.pc = "pending" BY <1>6 DEF claim_pending
  <2>2. CASE Dispatch(claim.claimed)
    BY <2>1, <2>2, DispatchOne DEF CopyInv
  <2>3. CASE claim'.claimed = claim.claimed /\ UNCHANGED task
    BY <2>1, <2>3 DEF CopyInv, Running
  <2> QED BY <1>6, <1>b, <2>2, <2>3 DEF claim_pending, ClaimRecords
<1>7. CASE claim_filter
  <2>1. claim.pc = "filter" /\ claim'.claimed = claim.claimed /\ UNCHANGED task
    BY <1>7, <1>b DEF claim_filter, ClaimRecords
  <2> QED BY <2>1 DEF CopyInv, Running
<1>8. CASE admit_pending
  <2>1. claim.pc = "admit_pending" /\ Dispatch(claim.claimed \cup Admitted)
    BY <1>8 DEF admit_pending
  <2>2. Stage6Serial => \A c, d \in claim.claimed \cup Admitted : c.row = d.row
    BY <1>b, OneAdmitted DEF CopyInv
  <2> QED BY <2>1, <2>2, DispatchOne
<1> QED BY <1>1, <1>2, <1>3, <1>4, <1>5, <1>6, <1>7, <1>8 DEF Tick

LEMMA StageOne ==
    ASSUME TypeInv, CopyInv, NEW r \in Rows, Stage(r) \/ stage_threw(r) PROVE CopyInv'
<1>t. task \in [Rows -> TaskRecords] BY DEF TypeInv, TaskTypes
<1>1. Running(r)
  BY DEF Running, Stage, stage_threw, At, lookup, drain, already_copied, skip_orphan,
     mark_in_progress, copy_call, copy_aborted, copy_succeeds, copy_fails, store_copied,
     complete, record_failure, park
<1>2. UNCHANGED claim
  BY DEF Stage, stage_threw, StageFrame, lookup, drain, already_copied, skip_orphan,
     mark_in_progress, copy_call, copy_aborted, copy_succeeds, copy_fails, store_copied,
     complete, record_failure, park
<1>3. \E d : task' = [task EXCEPT ![r] = d]
  <2>1. CASE lookup(r) BY <1>t, <2>1 DEF lookup, Goto, Return
  <2>2. CASE copy_fails(r) BY <1>t, <2>2 DEF copy_fails
  <2>3. CASE ~lookup(r) /\ ~copy_fails(r)
    BY <1>t, <2>3 DEF Goto, Return, Stage, stage_threw, drain, already_copied,
       skip_orphan, mark_in_progress, copy_call, copy_aborted, copy_succeeds,
       store_copied, complete, record_failure, park
  <2> QED BY <2>1, <2>2, <2>3
<1>4. \A q \in Rows : q # r => task'[q] = task[q] BY <1>t, <1>3
<1> QED BY <1>1, <1>2, <1>4, QuietKept DEF Running

LEMMA RestOne ==
    ASSUME TypeInv, CopyInv,
           \/ \E r \in Rows : hand_off(r)
           \/ \E a \in Aips : backoff_ends(a)
           \/ stop \/ crash \/ exit \/ start
           \/ \E p \in Staff : Request(p) \/ Handle(p)
    PROVE  CopyInv'
<1>t. task \in [Rows -> TaskRecords] BY DEF TypeInv, TaskTypes
<1>1. CASE \/ \E r \in Rows : hand_off(r)
           \/ \E a \in Aips : backoff_ends(a)
           \/ start
  BY <1>1, QuietKept DEF hand_off, backoff_ends, start, Running
<1>2. CASE crash \/ exit
  BY <1>2, IdleTyped, QuietKept DEF crash, exit, Gone, Running
<1>3. CASE stop BY <1>t, <1>3, QuietKept DEF stop, Running, TaskRecords
<1>4. CASE \E p \in Staff : Request(p) \/ Handle(p)
  <2>1. PICK p \in Staff : Request(p) \/ Handle(p) BY <1>4
  <2>2. UNCHANGED claim
    BY <2>1 DEF Request, Handle, StaffFrame, backfill_start, cancel_backfill,
       stop_aip_copy, dismiss_aip_row, aip_retry, stop_store, stop_park, dismiss_write,
       retry_source, retry_requeue, backfill_candidates, backfill_insert
  <2>3. CASE \E r \in Rows : stop_aip_copy(p, r)
    <3>1. PICK r \in Rows : stop_aip_copy(p, r) BY <2>3
    <3>2. PICK b : task' = [task EXCEPT ![r].aborted = b] BY <3>1 DEF stop_aip_copy
    <3> QED BY <1>t, <2>2, <3>2, QuietKept DEF Running, TaskRecords
  <2>4. CASE UNCHANGED task BY <2>2, <2>4, QuietKept DEF Running
  <2> QED BY <2>1, <2>3, <2>4
     DEF Request, Handle, backfill_start, cancel_backfill, dismiss_aip_row, aip_retry,
         stop_store, stop_park, dismiss_write, retry_source, retry_requeue,
         backfill_candidates, backfill_insert
<1> QED BY <1>1, <1>2, <1>3, <1>4

LEMMA NextOne == ASSUME TypeInv, CopyInv, [Next]_vars PROVE CopyInv'
<1>1. CASE UNCHANGED vars \/ \E p \in Staff : request_failed(p)
  BY <1>1 DEF request_failed, vars, CopyInv, Running
<1>2. CASE Next /\ ~\E p \in Staff : request_failed(p)
  BY <1>2, ClaimOne, StageOne, RestOne DEF Next
<1> QED BY <1>1, <1>2

\* Under the gate one copy call at a time is open, across resumed rows,
\* backfills and retries (worker.js, the stage 6 gate).
THEOREM OneCopyAtATime == Spec => []OneCopy
<1>1. Init => TypeInv /\ CopyInv
  <2> SUFFICES ASSUME Init PROVE CopyInv BY InitTypes
  <2>1. \A r \in Rows : ~Running(r) BY IdleTyped DEF Init, Running
  <2> QED BY <2>1, IdleTyped DEF Init, CopyInv
<1>2. TypeInv /\ CopyInv /\ [Next]_vars => (TypeInv /\ CopyInv)'
  BY NextTypes, NextOne
<1>3. TypeInv /\ CopyInv => OneCopy BY DEF CopyInv, OneCopy, Running, At
<1> QED BY <1>1, <1>2, <1>3, PTL DEF Spec

-----------------------------------------------------------------------------
(* No copy that is not due.  What the entry of a stage read of the store row   *)
(* still holds when the call starts: the one running stage writes the row only *)
(* after its call, and no request closes the AIP's fate or opens a backoff.    *)

Committed(r) == task[r].pc \in {"mark", "call"}

DueInv == Stage6Serial => \A r \in Rows : Committed(r) => Due(sip[r])

LEMMA DueKept ==
    ASSUME TypeInv, DueInv, Kept,
           \A r \in Rows : Committed(r)' => Committed(r),
           \A a \in Aips : Due(a) => Due(a)'
    PROVE  DueInv'
<1>1. \A r \in Rows : Committed(r) => Present(r) /\ sip[r] \in Aips
  BY DEF TypeInv, TaskTypes, QueueTypes, Committed
<1>2. \A r \in Rows : Committed(r) => sip'[r] = sip[r] BY <1>1 DEF Kept
<1> QED BY <1>1, <1>2 DEF DueInv

LEMMA SameDue == UNCHANGED store => \A a \in Aips : Due(a) => Due(a)'
BY DEF Due, eligible, is_terminal_success, is_orphan

LEMMA StageDue ==
    ASSUME TypeInv, CopyInv, DueInv, NEW r \in Rows, Stage(r) \/ stage_threw(r)
    PROVE  DueInv'
<1>t. task \in [Rows -> TaskRecords] BY DEF TypeInv, TaskTypes
<1>k. Kept BY StageTypes
<1>p. Running(r) /\ sip[r] \in Aips /\ sip'[r] = sip[r]
  <2>1. Running(r)
    BY DEF Running, Stage, stage_threw, At, lookup, drain, already_copied, skip_orphan,
       mark_in_progress, copy_call, copy_aborted, copy_succeeds, copy_fails,
       store_copied, complete, record_failure, park
  <2> QED BY <1>k, <2>1 DEF TypeInv, TaskTypes, QueueTypes, Running, Kept
<1>r. Return(r) => \A q \in Rows : Committed(q)' => Committed(q)
  BY <1>t, IdleTyped DEF Return, Committed
<1>g. ASSUME NEW step \in Steps, Goto(r, step)
      PROVE  task'[r].pc = step /\ \A q \in Rows \ {r} : task'[q] = task[q]
  BY <1>t, <1>g DEF Goto, TaskRecords
<1>1. CASE lookup(r)
  <2>1. \A q \in Rows \ {r} : task'[q] = task[q]
    BY <1>t, <1>1 DEF lookup, Goto, Return
  <2>2. Committed(r)' => Due(sip[r])
    <3>1. CASE Goto(r, "drain") \/ Goto(r, "orphan") \/ Goto(r, "already")
      BY <1>g, <3>1 DEF Committed, Steps
    <3>2. CASE Return(r) BY <1>t, <3>2, IdleTyped DEF Return, Committed
    <3>3. CASE /\ ~is_terminal_success(store[sip[r]]) /\ ~is_orphan(store[sip[r]])
               /\ ~Backoff(store[sip[r]])
      BY <3>3 DEF Due, eligible, Backoff
    <3> QED BY <1>1, <3>1, <3>2, <3>3 DEF lookup
  <2>3. UNCHANGED <<store, sip>> BY <1>1 DEF lookup, queueVars
  <2> QED BY <1>p, <2>1, <2>2, <2>3
      DEF DueInv, Committed, Due, eligible, is_terminal_success, is_orphan
<1>2. CASE drain(r) \/ already_copied(r) \/ skip_orphan(r) \/ complete(r)
           \/ park(r) \/ mark_in_progress(r) \/ copy_call(r) \/ copy_aborted(r)
           \/ copy_succeeds(r) \/ copy_fails(r) \/ stage_threw(r)
  <2>1. UNCHANGED store
    BY <1>2 DEF drain, already_copied, skip_orphan, complete, park, mark_in_progress,
       copy_call, copy_aborted, copy_succeeds, copy_fails, stage_threw, worldVars
  <2>2. \A q \in Rows : Committed(q)' => Committed(q)
    <3>1. CASE Return(r) BY <1>r, <3>1
    <3>2. CASE mark_in_progress(r)
      BY <1>g, <3>2 DEF mark_in_progress, At, Committed, Steps
    <3>3. CASE Goto(r, "wait") \/ Goto(r, "store")
      BY <1>g, <3>3 DEF Committed, Steps
    <3>4. CASE copy_fails(r)
      BY <1>t, <3>4 DEF copy_fails, Committed, TaskRecords
    <3> QED BY <1>2, <3>1, <3>2, <3>3, <3>4
        DEF drain, already_copied, skip_orphan, complete, park, copy_call,
            copy_aborted, copy_succeeds, stage_threw
  <2> QED BY <1>k, <2>1, <2>2, SameDue, DueKept
<1>3. CASE store_copied(r) \/ record_failure(r)
  <2>1. Goto(r, "complete") \/ Goto(r, "park") BY <1>3 DEF store_copied, record_failure
  <2>2. Stage6Serial => \A q \in Rows : q # r => ~Running(q) BY <1>p DEF CopyInv
  <2>3. Stage6Serial => \A q \in Rows : ~Committed(q)'
    BY <1>g, <2>1, <2>2 DEF Running, Committed, Steps
  <2> QED BY <2>3 DEF DueInv
<1> QED BY <1>1, <1>2, <1>3 DEF Stage

LEMMA ClaimDue ==
    ASSUME TypeInv, DueInv, Tick \/ claim_failed PROVE DueInv'
<1>1. ClaimFrame /\ ((\E claimed : Dispatch(claimed)) \/ UNCHANGED task)
  BY DEF Tick, tick_count, tick_snapshot, claim_resume, admit_resume, claim_pending,
     claim_filter, admit_pending, claim_failed
<1>2. \A r \in Rows : Committed(r)' => Committed(r)
  <2>1. CASE UNCHANGED task BY <2>1 DEF Committed
  <2>2. ASSUME NEW claimed, Dispatch(claimed), NEW r \in Rows
        PROVE  Committed(r)' => Committed(r)
    <3>1. CASE \E c \in claimed : c.row = r
      BY <2>2, <3>1 DEF Dispatch, IdleTask, Committed
    <3> QED BY <2>2, <3>1 DEF Dispatch, Committed
  <2> QED BY <1>1, <2>1, <2>2
<1> QED BY <1>1, <1>2, ClaimStepTypes, SameDue, DueKept DEF ClaimFrame

LEMMA WorldKept ==
    ASSUME TypeInv,
           \/ \E r \in Rows : hand_off(r)
           \/ \E a \in Aips : backoff_ends(a)
           \/ stop \/ crash \/ exit \/ start
    PROVE  Kept
<1>1. QueueTypes BY DEF TypeInv
<1>2. CASE \E r \in Rows : hand_off(r)
  <2>1. PICK r \in Rows : hand_off(r) BY <1>2
  <2>2. Present(r)
    BY <1>1, <2>1 DEF hand_off, Present, QueueTypes
  <2> QED BY <1>1, <2>1, <2>2, UpdateKept, RowStateNames DEF hand_off
<1>3. CASE (\E a \in Aips : backoff_ends(a)) \/ stop \/ crash \/ exit
  BY <1>1, <1>3, SameKept DEF backoff_ends, stop, crash, exit, Gone
<1>4. CASE start BY <1>1, <1>4 DEF start, Kept, QueueTypes, Present
<1> QED BY <1>2, <1>3, <1>4

LEMMA RestDue ==
    ASSUME TypeInv, DueInv,
           \/ \E r \in Rows : hand_off(r)
           \/ \E a \in Aips : backoff_ends(a)
           \/ stop \/ crash \/ exit \/ start
    PROVE  DueInv'
<1>t. task \in [Rows -> TaskRecords] /\ store \in [Aips -> StoreRecords]
  BY DEF TypeInv, TaskTypes, StoreTypes
<1>k. Kept BY WorldKept
<1>1. \A r \in Rows : Committed(r)' => Committed(r)
  <2>1. CASE crash \/ exit BY <2>1, IdleTyped DEF crash, exit, Gone, Committed
  <2>2. CASE stop BY <1>t, <2>2 DEF stop, Committed, TaskRecords
  <2>3. CASE UNCHANGED task BY <2>3 DEF Committed
  <2> QED BY <2>1, <2>2, <2>3 DEF hand_off, backoff_ends, start
<1>2. \A a \in Aips : Due(a) => Due(a)'
  <2>1. CASE \E a \in Aips : backoff_ends(a)
    BY <1>t, <2>1
       DEF backoff_ends, StoreRecords, Due, eligible, is_terminal_success, is_orphan
  <2>2. CASE UNCHANGED store BY <2>2, SameDue
  <2> QED BY <2>1, <2>2 DEF hand_off, stop, crash, exit, Gone, start
<1> QED BY <1>k, <1>1, <1>2, DueKept

LEMMA StaffDue ==
    ASSUME TypeInv, DueInv, NEW p \in Staff, Request(p) \/ Handle(p) PROVE DueInv'
<1>t. task \in [Rows -> TaskRecords] /\ store \in [Aips -> StoreRecords]
  BY DEF TypeInv, TaskTypes, StoreTypes
<1>1. \A r \in Rows : Committed(r)' => Committed(r)
  <2>1. CASE \E r \in Rows : stop_aip_copy(p, r)
    <3>1. PICK r \in Rows : stop_aip_copy(p, r) BY <2>1
    <3>2. PICK b : task' = [task EXCEPT ![r].aborted = b] BY <3>1 DEF stop_aip_copy
    <3> QED BY <1>t, <3>2 DEF Committed, TaskRecords
  <2>2. CASE UNCHANGED task BY <2>2 DEF Committed
  <2> QED BY <2>1, <2>2
     DEF Request, Handle, backfill_start, cancel_backfill, dismiss_aip_row, aip_retry,
         stop_store, stop_park, dismiss_write, retry_source, retry_requeue,
         backfill_candidates, backfill_insert
<1>2. \A a \in Aips : Due(a) => Due(a)'
  <2>1. CASE stop_store(p)
    BY <1>t, <2>1 DEF stop_store, upsert_by_uuid, NoStoreRow, Due, eligible,
       is_terminal_success, is_orphan
  <2>2. CASE \E a \in Aips, dc \in BOOLEAN : aip_retry(p, a, dc)
    BY <1>t, <2>2 DEF aip_retry, upsert_by_uuid, NoStoreRow, Due, eligible,
       is_terminal_success, is_orphan
  <2>3. CASE retry_source(p)
    BY <1>t, <2>3 DEF retry_source, StoreRecords, Due, eligible, is_terminal_success,
       is_orphan
  <2>4. CASE UNCHANGED store BY <2>4, SameDue
  <2> QED BY <2>1, <2>2, <2>3, <2>4
     DEF Request, Handle, backfill_start, cancel_backfill, stop_aip_copy,
         dismiss_aip_row, stop_park, dismiss_write, retry_requeue,
         backfill_candidates, backfill_insert
<1> QED BY <1>1, <1>2, StaffStepTypes, DueKept

\* Only copy_call asks for a copy.
LEMMA CallsAreDue ==
    ASSUME TypeInv, DueInv, [Next]_vars, Stage6Serial,
           NEW a \in Aips, calls[a] # calls'[a]
    PROVE  Due(a)
<1>1. \E r \in Rows : copy_call(r)
  <2>1. UNCHANGED calls \/ \E r \in Rows : copy_call(r)
    <3>1. CASE Tick \/ claim_failed
      BY <3>1 DEF Tick, tick_count, tick_snapshot, claim_resume, admit_resume,
         claim_pending, claim_filter, admit_pending, claim_failed, ClaimFrame, worldVars
    <3>2. CASE \E r \in Rows : Stage(r) \/ stage_threw(r)
      BY <3>2 DEF Stage, stage_threw, lookup, drain, already_copied, skip_orphan,
         mark_in_progress, copy_aborted, copy_succeeds, copy_fails, store_copied,
         complete, record_failure, park, worldVars
    <3>3. CASE \/ \E r \in Rows : hand_off(r)
               \/ \E b \in Aips : backoff_ends(b)
               \/ stop \/ crash \/ exit \/ start
      BY <3>3 DEF hand_off, backoff_ends, stop, crash, exit, Gone, start, worldVars
    <3>4. CASE \E p \in Staff : Request(p) \/ Handle(p)
      BY <3>4 DEF Request, Handle, StaffFrame, backfill_start, cancel_backfill,
         stop_aip_copy, dismiss_aip_row, aip_retry, stop_store, stop_park,
         dismiss_write, retry_source, retry_requeue, backfill_candidates,
         backfill_insert
    <3>5. CASE UNCHANGED vars \/ \E p \in Staff : request_failed(p)
      BY <3>5 DEF request_failed, vars, worldVars
    <3> QED BY <3>1, <3>2, <3>3, <3>4, <3>5 DEF Next
  <2> QED BY <2>1
<1>2. PICK r \in Rows : copy_call(r) BY <1>1
<1>3. Committed(r) /\ a = sip[r]
  BY <1>2 DEF copy_call, At, Committed, TypeInv, WorldTypes
<1> QED BY <1>3 DEF DueInv

\* Under the gate a copy call starts only for an AIP whose fate is open and whose
\* backoff is over, whatever rows stand for it (aip_store.js, the entry guards).
THEOREM CopiesAreDue == Spec => OnlyDueCopiesStart
<1> DEFINE Inv == TypeInv /\ CopyInv /\ DueInv
<1>1. Init => Inv
  <2> SUFFICES ASSUME Init PROVE CopyInv /\ DueInv BY InitTypes
  <2>1. \A r \in Rows : ~Running(r) /\ ~Committed(r)
    BY IdleTyped DEF Init, Running, Committed
  <2> QED BY <2>1, IdleTyped DEF Init, CopyInv, DueInv
<1>2. Inv /\ [Next]_vars => Inv'
  <2> SUFFICES ASSUME TypeInv, CopyInv, DueInv, [Next]_vars PROVE DueInv'
    BY NextTypes, NextOne
  <2>1. CASE UNCHANGED vars \/ \E p \in Staff : request_failed(p)
    BY <2>1 DEF request_failed, vars, queueVars, DueInv, Committed, Due, eligible,
       is_terminal_success, is_orphan
  <2>2. CASE Next /\ ~\E p \in Staff : request_failed(p)
    BY <2>2, ClaimDue, StageDue, RestDue, StaffDue DEF Next
  <2> QED BY <2>1, <2>2
<1>3. Inv /\ [Next]_vars
        => [Stage6Serial => \A a \in Aips : calls[a] # calls'[a] => Due(a)]_vars
  BY CallsAreDue
<1> QED BY <1>1, <1>2, <1>3, PTL DEF Spec, OnlyDueCopiesStart

-----------------------------------------------------------------------------
(* The retry budget.  Every staff request and every fault grants an AIP a full *)
(* budget of calls; a row of it that will not be dispatched again by itself    *)
(* has given back the one call it may have been worth.  Set aside are the      *)
(* calls of requests that will put a row back or reopen a copied AIP, and the  *)
(* one a tick under way may still start during a shutdown.                     *)

\* The row can reach a copy call without a staff request.
Awake(r) ==
    \/ task[r].pc # "idle"
    \/ \E c \in claim.batch \cup claim.claimed : c.row = r
    \/ ~is_complete[r] /\ state[r] \in STAGE6_STATES \cup {"COMPLETE"}
Rested(a) == {r \in Rows : sip[r] = a /\ ~Awake(r)}
Requeuers(a) == {p \in Staff : staff[p].pc \in {"source", "requeue"} /\ a \in staff[p].aips}
Stoppers(a) == {p \in Staff : staff[p].pc = "stop_store" /\ sip[staff[p].row] = a}
Ending == IF phase = "stopping" THEN 1 ELSE 0

Granted(a) ==
    Longest * (1 + faults + ops) + Cardinality(Rested(a)) - Cardinality(Requeuers(a))
        - (Longest - 1) * Cardinality(Stoppers(a)) - Ending

\* The calls still to come for an AIP without a further grant.
After(n) == Longer(Longest - n, 1)
Left(a) == IF is_terminal_success(store[a]) THEN 1 ELSE After(store[a].attempts)

\* The stage has made a call that its AIP's store row does not count yet, or that
\* was the last one and its row has not been parked for it.
Owing(r) ==
    \/ task[r].pc \in {"store", "complete", "record"}
    \/ task[r].pc = "wait" /\ ~task[r].aborted
    \/ task[r].pc = "park" /\ task[r].next >= Longest
Credit(a) == IF \E r \in Rows : sip[r] = a /\ Owing(r) THEN 1 ELSE 0

Overrun(n) == IF n >= Longest THEN 1 ELSE 0
BudgetInv ==
    Stage6Serial =>
        /\ \A a \in Aips : calls[a] + Left(a) <= Granted(a) + Credit(a)
        /\ \A r \in Rows : task[r].pc = "record" =>
               calls[sip[r]] + After(task[r].next)
                   <= Granted(sip[r]) + Overrun(task[r].next)

LEMMA LongestFacts ==
    /\ Longest \in Nat /\ Longest >= 2
    /\ MaxAttempts <= Longest /\ NotFoundMax <= Longest
    /\ MaxAttempts \in Nat /\ NotFoundMax \in Nat
BY AipStoreAssumption DEF Longest, Longer

LEMMA AfterFacts ==
    ASSUME NEW n \in Nat
    PROVE  /\ After(n) \in Nat /\ 1 <= After(n) /\ After(n) <= Longest
           /\ n < Longest => After(n) = Longest - n
           /\ n >= Longest => After(n) = 1
BY LongestFacts DEF After, Longer

LEMMA LeftFacts ==
    ASSUME TypeInv, NEW a \in Aips PROVE Left(a) \in Nat /\ 1 <= Left(a) /\ Left(a) <= Longest
<1>1. store[a].attempts \in Nat BY DEF TypeInv, StoreTypes, StoreRecords
<1> QED BY <1>1, AfterFacts, LongestFacts DEF Left

LEMMA StaffFinite == IsFiniteSet(Rows) /\ IsFiniteSet(Staff)
<1>1. NumAips + NumBackfill \in Int /\ NumStaff \in Int BY AipStoreAssumption
<1>2. IsFiniteSet(1..(NumAips + NumBackfill)) BY <1>1, FS_Interval
<1>3. IsFiniteSet(1..NumStaff) BY <1>1, FS_Interval
<1> QED BY <1>2, <1>3 DEF Rows, Staff

LEMMA CountFacts ==
    ASSUME NEW a
    PROVE  /\ IsFiniteSet(Rested(a)) /\ IsFiniteSet(Requeuers(a)) /\ IsFiniteSet(Stoppers(a))
           /\ Cardinality(Rested(a)) \in Nat /\ Cardinality(Requeuers(a)) \in Nat
           /\ Cardinality(Stoppers(a)) \in Nat
<1>1. Rested(a) \subseteq Rows /\ Requeuers(a) \subseteq Staff /\ Stoppers(a) \subseteq Staff
  BY DEF Rested, Requeuers, Stoppers
<1>2. IsFiniteSet(Rested(a)) BY <1>1, StaffFinite, FS_Subset
<1>3. IsFiniteSet(Requeuers(a)) BY <1>1, StaffFinite, FS_Subset
<1>4. IsFiniteSet(Stoppers(a)) BY <1>1, StaffFinite, FS_Subset
<1> QED BY <1>2, <1>3, <1>4, FS_CardinalityType

LEMMA NextCountFacts ==
    ASSUME NEW a
    PROVE  /\ IsFiniteSet(Rested(a)') /\ IsFiniteSet(Requeuers(a)') /\ IsFiniteSet(Stoppers(a)')
           /\ Cardinality(Rested(a)') \in Nat /\ Cardinality(Requeuers(a)') \in Nat
           /\ Cardinality(Stoppers(a)') \in Nat
<1>1. Rested(a)' \subseteq Rows /\ Requeuers(a)' \subseteq Staff /\ Stoppers(a)' \subseteq Staff
  BY DEF Rested, Requeuers, Stoppers
<1>2. IsFiniteSet(Rested(a)') BY <1>1, StaffFinite, FS_Subset
<1>3. IsFiniteSet(Requeuers(a)') BY <1>1, StaffFinite, FS_Subset
<1>4. IsFiniteSet(Stoppers(a)') BY <1>1, StaffFinite, FS_Subset
<1> QED BY <1>2, <1>3, <1>4, FS_CardinalityType

LEMMA GrantedType == ASSUME TypeInv, NEW a PROVE Granted(a) \in Int
<1>1. Longest * (1 + faults + ops) \in Int /\ Ending \in Int
      /\ (Longest - 1) * Cardinality(Stoppers(a)) \in Int
  BY LongestFacts, CountFacts DEF TypeInv, BoundTypes, Ending
<1> QED BY <1>1, CountFacts DEF Granted

\* A set that grows, or loses or gains one element.
LEMMA CardGrows ==
    ASSUME NEW S, NEW T, IsFiniteSet(T), S \subseteq T
    PROVE  /\ Cardinality(S) <= Cardinality(T)
           /\ S # T => Cardinality(S) + 1 <= Cardinality(T)
<1>1. IsFiniteSet(S) /\ Cardinality(S) <= Cardinality(T) BY FS_Subset
<1>2. Cardinality(T) = Cardinality(S) => T = S BY FS_Subset
<1>3. Cardinality(S) \in Nat /\ Cardinality(T) \in Nat BY <1>1, FS_CardinalityType
<1> QED BY <1>1, <1>2, <1>3

LEMMA CardButOne ==
    ASSUME NEW S, NEW T, NEW x, IsFiniteSet(S), IsFiniteSet(T), S \subseteq T \cup {x}
    PROVE  Cardinality(S) <= Cardinality(T) + 1
<1>1. IsFiniteSet(T \cup {x})
      /\ Cardinality(T \cup {x}) = IF x \in T THEN Cardinality(T) ELSE Cardinality(T) + 1
  BY FS_AddElement
<1>2. Cardinality(S) <= Cardinality(T \cup {x}) BY <1>1, FS_Subset
<1>3. Cardinality(S) \in Nat /\ Cardinality(T) \in Nat BY FS_CardinalityType
<1> QED BY <1>1, <1>2, <1>3

\* What a step does to the grant, part by part.
LEMMA GrantChange ==
    ASSUME TypeInv, TypeInv', NEW a, NEW f \in Int, NEW d \in Int, NEW q \in Int,
           NEW s \in Int, NEW e \in Int,
           faults' + ops' = faults + ops + f,
           Cardinality(Rested(a)') >= Cardinality(Rested(a)) + d,
           Cardinality(Requeuers(a)') <= Cardinality(Requeuers(a)) + q,
           Cardinality(Stoppers(a)') <= Cardinality(Stoppers(a)) + s,
           Ending' <= Ending + e
    PROVE  Granted(a)' >= Granted(a) + Longest * f + d - q - (Longest - 1) * s - e
<1> DEFINE L == Longest
           x == 1 + faults + ops
           y == Cardinality(Stoppers(a))
           z == Cardinality(Stoppers(a)')
<1>1. L \in Nat /\ L - 1 \in Nat /\ x \in Int /\ y \in Int /\ z \in Int /\ z <= y + s
  BY LongestFacts, CountFacts, NextCountFacts DEF TypeInv, BoundTypes
<1>2. 1 + faults' + ops' = x + f
  <2>1. {faults, ops, faults', ops'} \subseteq Int BY DEF TypeInv, BoundTypes
  <2> QED BY <2>1
<1>e. Ending \in Int /\ Ending' \in Int BY DEF Ending
<1>c. Longest' = Longest BY DEF Longest
<1>3. Granted(a)' = L * (x + f) + Cardinality(Rested(a)') - Cardinality(Requeuers(a)')
                      - (L - 1) * z - Ending'
  BY <1>2, <1>c DEF Granted
<1>4. Granted(a) = L * x + Cardinality(Rested(a)) - Cardinality(Requeuers(a))
                      - (L - 1) * y - Ending
  BY DEF Granted
<1> HIDE DEF L, x, y, z
<1>5. L * (x + f) = L * x + L * f BY <1>1
<1>6. (L - 1) * z <= (L - 1) * (y + s) BY <1>1
<1>7. (L - 1) * (y + s) = (L - 1) * y + (L - 1) * s BY <1>1
<1>8. L * x \in Int /\ L * f \in Int /\ (L - 1) * y \in Int /\ (L - 1) * z \in Int
      /\ (L - 1) * s \in Int
  BY <1>1
<1>9. Granted(a)' >= Granted(a) + L * f + d - q - (L - 1) * s - e
  <2> DEFINE lx == L * x  lf == L * f  ly == (L - 1) * y  lz == (L - 1) * z
             ls == (L - 1) * s
             d0 == Cardinality(Rested(a))  d1 == Cardinality(Rested(a)')
             q0 == Cardinality(Requeuers(a))  q1 == Cardinality(Requeuers(a)')
  <2>1. lx \in Int /\ lf \in Int /\ ly \in Int /\ lz \in Int /\ ls \in Int
        /\ d0 \in Int /\ d1 \in Int /\ q0 \in Int /\ q1 \in Int
    BY <1>8, CountFacts, NextCountFacts
  <2>2. Granted(a)' = lx + lf + d1 - q1 - lz - Ending' BY <1>3, <1>5
  <2>3. Granted(a) = lx + d0 - q0 - ly - Ending BY <1>4
  <2>4. lz <= ly + ls BY <1>6, <1>7
  <2>5. d1 >= d0 + d /\ q1 <= q0 + q OBVIOUS
  <2> HIDE DEF lx, lf, ly, lz, ls, d0, d1, q0, q1
  <2> DEFINE g0 == Granted(a)  g1 == Granted(a)'  e0 == Ending  e1 == Ending'
  <2>7. g1 = lx + lf + d1 - q1 - lz - e1 /\ g0 = lx + d0 - q0 - ly - e0
        /\ e1 <= e0 + e /\ e0 \in Int /\ e1 \in Int
    BY <2>2, <2>3, <1>e
  <2> HIDE DEF g0, g1, e0, e1
  <2>8. g1 >= g0 + lf + d - q - ls - e
    BY <2>1, <2>4, <2>5, <2>7
  <2>6. Granted(a)' >= Granted(a) + lf + d - q - ls - e
    BY <2>8 DEF g0, g1
  <2> QED BY <2>6 DEF lf, ls
<1> QED BY <1>9 DEF L

\* What a step may do to the counted sets without a loss.
Settling == \A r \in Rows : Present(r) /\ Awake(r)' => Awake(r)
Answering(p) ==
    \/ staff'[p] = staff[p]
    \/ staff'[p].pc \notin {"source", "requeue", "stop_store"}
    \/ staff[p].pc = "source" /\ staff'[p].pc = "requeue" /\ staff'[p].aips = staff[p].aips

LEMMA RestedGrow ==
    ASSUME TypeInv, Kept, Settling, NEW a \in Aips
    PROVE  /\ Rested(a) \subseteq Rested(a)'
           /\ Cardinality(Rested(a)') >= Cardinality(Rested(a))
           /\ \A r \in Rows : sip[r] = a /\ Awake(r) /\ ~Awake(r)'
                  => Cardinality(Rested(a)') >= Cardinality(Rested(a)) + 1
<1>1. \A r \in Rows : sip[r] = a => Present(r) /\ sip'[r] = a
  BY DEF TypeInv, QueueTypes, Kept
<1>2. Rested(a) \subseteq Rested(a)' BY <1>1 DEF Rested, Settling
<1>3. Cardinality(Rested(a)) \in Nat /\ Cardinality(Rested(a)') \in Nat
  BY CountFacts, NextCountFacts
<1>4. /\ Cardinality(Rested(a)) <= Cardinality(Rested(a)')
      /\ Rested(a) # Rested(a)' => Cardinality(Rested(a)) + 1 <= Cardinality(Rested(a)')
  BY <1>2, NextCountFacts, CardGrows
<1>5. \A r \in Rows : sip[r] = a /\ Awake(r) /\ ~Awake(r)' => Rested(a) # Rested(a)'
  BY <1>1 DEF Rested
<1> QED BY <1>2, <1>3, <1>4, <1>5

LEMMA StoppersMove ==
    ASSUME TypeInv, Kept, NEW a \in Aips, NEW p \in Staff
    PROVE  staff'[p] = staff[p] /\ p \in Stoppers(a)' => p \in Stoppers(a)
<1>1. staff[p].pc = "stop_store" => staff[p].row \in Rows /\ Present(staff[p].row)
  BY DEF TypeInv, StaffTypes, StaffRecords
<1> QED BY <1>1 DEF Stoppers, Kept

LEMMA RequestsEnd ==
    ASSUME TypeInv, Kept, NEW a \in Aips, \A p \in Staff : Answering(p)
    PROVE  /\ Cardinality(Requeuers(a)') <= Cardinality(Requeuers(a))
           /\ Cardinality(Stoppers(a)') <= Cardinality(Stoppers(a))
<1>1. Requeuers(a)' \subseteq Requeuers(a) BY DEF Requeuers, Answering
<1>2. Stoppers(a)' \subseteq Stoppers(a)
  <2> SUFFICES ASSUME NEW p \in Staff, p \in Stoppers(a)' PROVE p \in Stoppers(a)
    BY DEF Stoppers
  <2>1. staff'[p] = staff[p] BY DEF Answering, Stoppers
  <2> QED BY <2>1, StoppersMove
<1>3. Cardinality(Requeuers(a)') <= Cardinality(Requeuers(a))
  BY <1>1, CountFacts, CardGrows
<1>4. Cardinality(Stoppers(a)') <= Cardinality(Stoppers(a))
  BY <1>2, CountFacts, CardGrows
<1> QED BY <1>3, <1>4

\* No loss, and a full budget for each fault or request; a row at rest adds one.
LEMMA GrantKept ==
    ASSUME TypeInv, TypeInv', Kept, Settling, \A p \in Staff : Answering(p),
           NEW f \in Nat, faults' + ops' = faults + ops + f, Ending' <= Ending,
           NEW a \in Aips
    PROVE  /\ Granted(a)' >= Granted(a) + Longest * f
           /\ \A r \in Rows : sip[r] = a /\ Awake(r) /\ ~Awake(r)'
                  => Granted(a)' >= Granted(a) + Longest * f + 1
<1>t. Longest * f \in Int /\ Granted(a) \in Int /\ (Longest - 1) * 0 = 0
  BY LongestFacts, GrantedType
<1>0. Cardinality(Requeuers(a)) \in Int /\ Cardinality(Stoppers(a)) \in Int /\ Ending \in Int
      /\ Cardinality(Rested(a)) \in Int
  BY CountFacts DEF Ending
<1>1. /\ Cardinality(Requeuers(a)') <= Cardinality(Requeuers(a)) + 0
      /\ Cardinality(Stoppers(a)') <= Cardinality(Stoppers(a)) + 0
      /\ Ending' <= Ending + 0
  BY <1>0, RequestsEnd
<1>2. Cardinality(Rested(a)') >= Cardinality(Rested(a)) + 0 BY <1>0, RestedGrow
<1>3. Granted(a)' >= Granted(a) + Longest * f + 0 - 0 - (Longest - 1) * 0 - 0
  BY <1>1, <1>2, GrantChange
<1>4. ASSUME NEW r \in Rows, sip[r] = a, Awake(r), ~Awake(r)'
      PROVE  Granted(a)' >= Granted(a) + Longest * f + 1
  <2>1. Cardinality(Rested(a)') >= Cardinality(Rested(a)) + 1 BY <1>4, RestedGrow
  <2>2. Granted(a)' >= Granted(a) + Longest * f + 1 - 0 - (Longest - 1) * 0 - 0
    BY <1>1, <2>1, GrantChange
  <2> QED BY <1>t, <2>2
<1> QED BY <1>t, <1>3, <1>4

\* A step that makes no call and records no failure keeps the account when what is
\* left to an AIP and what it owes move with its grant.
Balanced(a) ==
    /\ calls'[a] = calls[a]
    /\ Granted(a)' >= Granted(a)
    /\ Left(a)' + Granted(a) + Credit(a) <= Left(a) + Granted(a)' + Credit(a)'

LEMMA BudgetBalanced ==
    ASSUME TypeInv, TypeInv', Kept, BudgetInv, \A a \in Aips : Balanced(a),
           \A r \in Rows : task'[r].pc = "record"
               => task[r].pc = "record" /\ task'[r].next = task[r].next
    PROVE  BudgetInv'
<1> SUFFICES ASSUME Stage6Serial PROVE BudgetInv' BY DEF BudgetInv
<1>t. ASSUME NEW a \in Aips
      PROVE  /\ Left(a) \in Int /\ Granted(a) \in Int /\ Credit(a) \in Int /\ calls[a] \in Int
             /\ Left(a)' \in Int /\ Granted(a)' \in Int /\ Credit(a)' \in Int
  <2>1. Left(a) \in Int /\ Left(a)' \in Int
    <3>1. store[a].attempts \in Nat /\ store'[a].attempts \in Nat
      BY DEF TypeInv, StoreTypes, StoreRecords
    <3>2. After(store[a].attempts) \in Nat /\ After(store'[a].attempts) \in Nat
      BY <3>1, AfterFacts
    <3>3. After(store[a].attempts)' = After(store'[a].attempts) BY DEF After, Longest
    <3> QED BY <3>2, <3>3 DEF Left
  <2>2. Granted(a) \in Int BY GrantedType
  <2>3. Granted(a)' \in Int
    <3>1. Longest * (1 + faults' + ops') \in Int /\ Ending' \in Int
          /\ (Longest - 1) * Cardinality(Stoppers(a)') \in Int
      BY LongestFacts, NextCountFacts DEF TypeInv, BoundTypes, Ending
    <3> QED BY <3>1, NextCountFacts DEF Granted, Longest
  <2> QED BY <2>1, <2>2, <2>3 DEF Credit, TypeInv, WorldTypes
<1>1. ASSUME NEW a \in Aips PROVE (calls[a] + Left(a) <= Granted(a) + Credit(a))'
  <2>1. calls[a] + Left(a) <= Granted(a) + Credit(a) BY DEF BudgetInv
  <2>2. Balanced(a) OBVIOUS
  <2> QED BY <1>t, <2>1, <2>2 DEF Balanced
<1>2. ASSUME NEW r \in Rows, task'[r].pc = "record"
      PROVE  (calls[sip[r]] + After(task[r].next)
                <= Granted(sip[r]) + Overrun(task[r].next))'
  <2>1. sip[r] \in Aips /\ sip'[r] = sip[r] /\ task'[r].next = task[r].next
        /\ task[r].pc = "record"
    BY <1>2 DEF TypeInv, TaskTypes, QueueTypes, Kept
  <2>2. PICK a \in Aips : a = sip[r] BY <2>1
  <2>3. task[r].next \in Nat BY DEF TypeInv, TaskTypes, TaskRecords
  <2>4. PICK n \in Nat : n = task[r].next BY <2>3
  <2>5. calls[a] + After(n) <= Granted(a) + Overrun(n)
    BY <2>1, <2>2, <2>4 DEF BudgetInv
  <2>6. Balanced(a) OBVIOUS
  <2>7. After(n) \in Nat /\ Overrun(n) \in Nat BY AfterFacts DEF Overrun
  <2>8. calls'[a] + After(n) <= Granted(a)' + Overrun(n)
    BY <1>t, <2>5, <2>6, <2>7 DEF Balanced
  <2>9. After(n)' = After(n) /\ Overrun(n)' = Overrun(n) BY DEF After, Overrun, Longest
  <2>10. sip'[r] = a /\ task'[r].next = n BY <2>1, <2>2, <2>4
  <2> QED BY <2>8, <2>9, <2>10
<1> QED BY <1>1, <1>2 DEF BudgetInv

\* A claim that has read nothing holds nothing.
BatchInv == claim.pc \in {"idle", "snap", "resume"} => claim.batch = {}

LEMMA NextBatch == ASSUME TypeInv, BatchInv, [Next]_vars PROVE BatchInv'
<1>t. claim \in ClaimRecords BY DEF TypeInv, ClaimTypes
<1>i. IdleClaim.batch = {} BY IdleTyped
<1>1. CASE UNCHANGED claim BY <1>1 DEF BatchInv
<1>2. CASE claim' = IdleClaim BY <1>i, <1>2 DEF BatchInv
<1>3. CASE Tick /\ claim' # claim /\ claim' # IdleClaim
  <2>1. CASE tick_count \/ tick_snapshot
    <3>1. claim'.batch = {}
      BY <1>t, <1>3, <2>1 DEF tick_count, tick_snapshot, IdleClaim, ClaimRecords, BatchInv
    <3> QED BY <3>1 DEF BatchInv
  <2>2. CASE claim_resume \/ admit_resume \/ claim_pending \/ claim_filter \/ admit_pending
    <3>1. claim'.pc \in {"admit_resume", "pending", "filter", "admit_pending"}
      BY <1>t, <1>3, <2>2 DEF claim_resume, admit_resume, claim_pending, claim_filter,
         admit_pending, Dispatch, ClaimRecords
    <3> QED BY <3>1 DEF BatchInv
  <2> QED BY <1>3, <2>1, <2>2 DEF Tick
<1>4. CASE ~Tick
  BY <1>1, <1>2, <1>4
     DEF Next, claim_failed, hand_off, Stage, stage_threw, StageFrame, lookup, drain,
         already_copied, skip_orphan, mark_in_progress, copy_call, copy_aborted,
         copy_succeeds, copy_fails, store_copied, complete, record_failure, park,
         backoff_ends, stop, crash, exit, Gone, start, Request, Handle, StaffFrame,
         backfill_start, cancel_backfill, stop_aip_copy, dismiss_aip_row, aip_retry,
         stop_store, stop_park, dismiss_write, retry_source, retry_requeue,
         backfill_candidates, backfill_insert, request_failed, vars
<1> QED BY <1>1, <1>2, <1>3, <1>4

\* Between its entry and its last write a stage's AIP is not recorded as copied:
\* no other stage runs that could record it.
Opened(r) == task[r].pc \in {"mark", "call", "wait", "store", "record"}
FreshInv ==
    Stage6Serial => \A r \in Rows : Opened(r) => ~is_terminal_success(store[sip[r]])

LEMMA FreshKept ==
    ASSUME TypeInv, FreshInv, Kept,
           \A r \in Rows : Opened(r)' => Opened(r),
           \A a \in Aips : is_terminal_success(store[a])' => is_terminal_success(store[a])
    PROVE  FreshInv'
<1>1. \A r \in Rows : Opened(r) => Present(r) /\ sip[r] \in Aips
  BY DEF TypeInv, TaskTypes, QueueTypes, Opened
<1>2. \A r \in Rows : Opened(r) => sip'[r] = sip[r] BY <1>1 DEF Kept
<1> QED BY <1>1, <1>2 DEF FreshInv, is_terminal_success

LEMMA StageRuns == ASSUME NEW r \in Rows, Stage(r) \/ stage_threw(r) PROVE Running(r)
BY DEF Running, Stage, stage_threw, At, lookup, drain, already_copied, skip_orphan,
   mark_in_progress, copy_call, copy_aborted, copy_succeeds, copy_fails, store_copied,
   complete, record_failure, park

LEMMA StageFresh ==
    ASSUME TypeInv, CopyInv, FreshInv, NEW r \in Rows, Stage(r) \/ stage_threw(r)
    PROVE  FreshInv'
<1>t. task \in [Rows -> TaskRecords] BY DEF TypeInv, TaskTypes
<1>k. Kept BY StageTypes
<1>p. Running(r) /\ sip[r] \in Aips /\ sip'[r] = sip[r]
  BY <1>k, StageRuns DEF TypeInv, TaskTypes, QueueTypes, Running, Kept
<1>r. Return(r) => \A q \in Rows : Opened(q)' => Opened(q)
  BY <1>t, IdleTyped DEF Return, Opened
<1>g. ASSUME NEW step \in Steps, Goto(r, step)
      PROVE  task'[r].pc = step /\ \A q \in Rows \ {r} : task'[q] = task[q]
  BY <1>t, <1>g DEF Goto, TaskRecords
<1>1. CASE lookup(r)
  <2>1. \A q \in Rows \ {r} : task'[q] = task[q]
    BY <1>t, <1>1 DEF lookup, Goto, Return
  <2>2. Opened(r)' => ~is_terminal_success(store[sip[r]])
    <3>1. CASE Goto(r, "drain") \/ Goto(r, "orphan") \/ Goto(r, "already")
      BY <1>g, <3>1 DEF Opened, Steps
    <3>2. CASE Return(r) BY <1>t, <3>2, IdleTyped DEF Return, Opened
    <3> QED BY <1>1, <3>1, <3>2 DEF lookup
  <2>3. UNCHANGED <<store, sip>> BY <1>1 DEF lookup, queueVars
  <2> QED BY <1>p, <2>1, <2>2, <2>3 DEF FreshInv, Opened, is_terminal_success
<1>2. CASE drain(r) \/ already_copied(r) \/ skip_orphan(r) \/ complete(r)
           \/ park(r) \/ mark_in_progress(r) \/ copy_call(r) \/ copy_aborted(r)
           \/ copy_succeeds(r) \/ copy_fails(r) \/ stage_threw(r)
  <2>1. UNCHANGED store
    BY <1>2 DEF drain, already_copied, skip_orphan, complete, park, mark_in_progress,
       copy_call, copy_aborted, copy_succeeds, copy_fails, stage_threw, worldVars
  <2>2. \A q \in Rows : Opened(q)' => Opened(q)
    <3>1. CASE Return(r) BY <1>r, <3>1
    <3>2. CASE mark_in_progress(r)
      BY <1>g, <3>2 DEF mark_in_progress, At, Opened, Steps
    <3>3. CASE copy_call(r) /\ Goto(r, "wait")
      BY <1>g, <3>3 DEF copy_call, At, Opened, Steps
    <3>5. CASE copy_succeeds(r)
      BY <1>g, <3>5 DEF copy_succeeds, At, Opened, Steps
    <3>4. CASE copy_fails(r)
      BY <1>t, <3>4 DEF copy_fails, At, Opened, TaskRecords
    <3> QED BY <1>2, <3>1, <3>2, <3>3, <3>4, <3>5
        DEF drain, already_copied, skip_orphan, complete, park, copy_call,
            copy_aborted, stage_threw
  <2> QED BY <1>k, <2>1, <2>2, FreshKept DEF is_terminal_success
<1>3. CASE store_copied(r) \/ record_failure(r)
  <2>1. Goto(r, "complete") \/ Goto(r, "park") BY <1>3 DEF store_copied, record_failure
  <2>2. Stage6Serial => \A q \in Rows : q # r => ~Running(q) BY <1>p DEF CopyInv
  <2>3. Stage6Serial => \A q \in Rows : ~Opened(q)'
    BY <1>g, <2>1, <2>2 DEF Running, Opened, Steps
  <2> QED BY <2>3 DEF FreshInv
<1> QED BY <1>1, <1>2, <1>3 DEF Stage

LEMMA NextFresh ==
    ASSUME TypeInv, CopyInv, FreshInv, [Next]_vars PROVE FreshInv'
<1>t. task \in [Rows -> TaskRecords] /\ store \in [Aips -> StoreRecords]
  BY DEF TypeInv, TaskTypes, StoreTypes
<1>1. CASE \E r \in Rows : Stage(r) \/ stage_threw(r) BY <1>1, StageFresh
<1>2. CASE Tick \/ claim_failed
  <2>1. ClaimFrame /\ ((\E claimed : Dispatch(claimed)) \/ UNCHANGED task)
    BY <1>2 DEF Tick, tick_count, tick_snapshot, claim_resume, admit_resume,
       claim_pending, claim_filter, admit_pending, claim_failed
  <2>2. \A r \in Rows : Opened(r)' => Opened(r)
    <3>1. CASE UNCHANGED task BY <3>1 DEF Opened
    <3>2. ASSUME NEW claimed, Dispatch(claimed), NEW r \in Rows
          PROVE  Opened(r)' => Opened(r)
      BY <3>2 DEF Dispatch, IdleTask, Opened
    <3> QED BY <2>1, <3>1, <3>2
  <2> QED BY <1>2, <2>1, <2>2, ClaimStepTypes, FreshKept
          DEF ClaimFrame, is_terminal_success
<1>3. CASE \/ \E r \in Rows : hand_off(r)
           \/ \E a \in Aips : backoff_ends(a)
           \/ stop \/ crash \/ exit \/ start
  <2>1. \A r \in Rows : Opened(r)' => Opened(r)
    <3>1. CASE crash \/ exit BY <3>1, IdleTyped DEF crash, exit, Gone, Opened
    <3>2. CASE stop BY <1>t, <3>2 DEF stop, Opened, TaskRecords
    <3>3. CASE UNCHANGED task BY <3>3 DEF Opened
    <3> QED BY <1>3, <3>1, <3>2, <3>3 DEF hand_off, backoff_ends, start
  <2>2. \A a \in Aips : is_terminal_success(store[a])' => is_terminal_success(store[a])
    <3>1. CASE \E a \in Aips : backoff_ends(a)
      BY <1>t, <3>1 DEF backoff_ends, StoreRecords, is_terminal_success
    <3>2. CASE UNCHANGED store BY <3>2 DEF is_terminal_success
    <3> QED BY <1>3, <3>1, <3>2 DEF hand_off, stop, crash, exit, Gone, start
  <2>3. Kept BY <1>3, WorldKept
  <2> QED BY <2>1, <2>2, <2>3, FreshKept
<1>4. ASSUME NEW p \in Staff, Request(p) \/ Handle(p) PROVE FreshInv'
  <2>1. \A r \in Rows : Opened(r)' => Opened(r)
    <3>1. CASE \E r \in Rows : stop_aip_copy(p, r)
      <4>1. PICK r \in Rows : stop_aip_copy(p, r) BY <3>1
      <4>2. PICK b : task' = [task EXCEPT ![r].aborted = b] BY <4>1 DEF stop_aip_copy
      <4> QED BY <1>t, <4>2 DEF Opened, TaskRecords
    <3>2. CASE UNCHANGED task BY <3>2 DEF Opened
    <3> QED BY <1>4, <3>1, <3>2
       DEF Request, Handle, backfill_start, cancel_backfill, dismiss_aip_row, aip_retry,
           stop_store, stop_park, dismiss_write, retry_source, retry_requeue,
           backfill_candidates, backfill_insert
  <2>2. \A a \in Aips : is_terminal_success(store[a])' => is_terminal_success(store[a])
    <3>1. CASE stop_store(p) \/ \E a \in Aips, dc \in BOOLEAN : aip_retry(p, a, dc)
      BY <1>t, <3>1 DEF stop_store, aip_retry, upsert_by_uuid, NoStoreRow,
         is_terminal_success
    <3>2. CASE retry_source(p)
      BY <1>t, <3>2 DEF retry_source, StoreRecords, is_terminal_success
    <3>3. CASE UNCHANGED store BY <3>3 DEF is_terminal_success
    <3> QED BY <1>4, <3>1, <3>2, <3>3
       DEF Request, Handle, backfill_start, cancel_backfill, stop_aip_copy,
           dismiss_aip_row, stop_park, dismiss_write, retry_requeue,
           backfill_candidates, backfill_insert
  <2> QED BY <1>4, <2>1, <2>2, StaffStepTypes, FreshKept
<1>5. CASE UNCHANGED vars \/ \E p \in Staff : request_failed(p)
  BY <1>5 DEF request_failed, vars, queueVars, FreshInv, Opened, is_terminal_success
<1> QED BY <1>1, <1>2, <1>3, <1>4, <1>5 DEF Next

LEMMA CreditFacts ==
    ASSUME TypeInv, Kept, NEW a \in Aips
    PROVE  /\ Credit(a) \in {0, 1} /\ Credit(a)' \in {0, 1}
           /\ \A r \in Rows : sip[r] = a => Present(r) /\ sip'[r] = a
           /\ \A r \in Rows : sip[r] = a /\ Owing(r)' => Credit(a)' = 1
           /\ (\A r \in Rows : sip[r] = a => ~Owing(r)) => Credit(a) = 0
<1>1. \A r \in Rows : sip[r] = a => Present(r) /\ sip'[r] = a
  BY DEF TypeInv, QueueTypes, Kept
<1> QED BY <1>1 DEF Credit

LEMMA NextLeftType == ASSUME TypeInv', NEW a \in Aips PROVE Left(a)' \in Int
<1>1. store'[a].attempts \in Nat BY DEF TypeInv, StoreTypes, StoreRecords
<1>2. After(store'[a].attempts) \in Nat BY <1>1, AfterFacts
<1>3. After(store[a].attempts)' = After(store'[a].attempts) BY DEF After, Longest
<1> QED BY <1>2, <1>3 DEF Left

LEMMA NextGrantedType == ASSUME TypeInv', NEW a PROVE Granted(a)' \in Int
<1>1. Longest * (1 + faults' + ops') \in Int /\ Ending' \in Int
      /\ (Longest - 1) * Cardinality(Stoppers(a)') \in Int
  BY LongestFacts, NextCountFacts DEF TypeInv, BoundTypes, Ending
<1> QED BY <1>1, NextCountFacts DEF Granted, Longest

\* A quiet step: what a stage owed is owed on, or its row is at rest, or the step
\* is itself worth a budget.
LEMMA BudgetQuiet ==
    ASSUME TypeInv, TypeInv', Kept, BudgetInv, Settling, \A p \in Staff : Answering(p),
           Ending' <= Ending, NEW f \in {0, 1}, faults' + ops' = faults + ops + f,
           UNCHANGED calls, \A a \in Aips : Left(a)' <= Left(a),
           f = 1 \/ \A r \in Rows : Owing(r) => Owing(r)' \/ ~Awake(r)',
           \A r \in Rows : task'[r].pc = "record"
               => task[r].pc = "record" /\ task'[r].next = task[r].next
    PROVE  BudgetInv'
<1>1. ASSUME NEW a \in Aips PROVE Balanced(a)
  <2>t. /\ Left(a) \in Int /\ Granted(a) \in Int /\ Left(a)' \in Int /\ Granted(a)' \in Int
        /\ Credit(a) \in {0, 1} /\ Credit(a)' \in {0, 1} /\ Left(a)' <= Left(a)
    BY LeftFacts, GrantedType, NextLeftType, NextGrantedType, CreditFacts
  <2>f. Longest \in Nat /\ Longest >= 2 BY LongestFacts
  <2>g. /\ Granted(a)' >= Granted(a) + Longest * f
        /\ \A r \in Rows : sip[r] = a /\ Awake(r) /\ ~Awake(r)'
               => Granted(a)' >= Granted(a) + Longest * f + 1
    BY GrantKept
  <2>1. Granted(a)' >= Granted(a) BY <2>t, <2>f, <2>g
  <2>2. Granted(a) + Credit(a) <= Granted(a)' + Credit(a)'
    <3>1. CASE f = 1 BY <2>t, <2>f, <2>g, <3>1
    <3>2. CASE Credit(a) = 0 BY <2>t, <2>1, <3>2
    <3>3. CASE f = 0 /\ Credit(a) = 1
      <4>1. PICK r \in Rows : sip[r] = a /\ Owing(r) BY <3>3 DEF Credit
      <4>2. Awake(r) BY <4>1 DEF Awake, Owing
      <4>3. CASE Owing(r)'
        <5>1. Credit(a)' = 1 BY <4>1, <4>3, CreditFacts
        <5> QED BY <2>t, <2>1, <3>3, <5>1
      <4>4. CASE ~Awake(r)'
        <5>1. Granted(a)' >= Granted(a) + Longest * f + 1 BY <2>g, <4>1, <4>2, <4>4
        <5> QED BY <2>t, <2>f, <3>3, <5>1
      <4> QED BY <3>3, <4>1, <4>3, <4>4
    <3> QED BY <2>t, <3>1, <3>2, <3>3
  <2> QED BY <2>t, <2>1, <2>2 DEF Balanced
<1> QED BY <1>1, BudgetBalanced

LEMMA SameLeft ==
    UNCHANGED store => \A a \in Aips : Left(a)' = Left(a)
BY DEF Left, is_terminal_success, After, Longest

LEMMA ClaimBudget ==
    ASSUME TypeInv, CopyInv, BatchInv, BudgetInv, Tick \/ claim_failed PROVE BudgetInv'
<1> SUFFICES ASSUME Stage6Serial PROVE BudgetInv' BY DEF BudgetInv
<1>k. TypeInv' /\ Kept BY ClaimStepTypes
<1>c. claim \in ClaimRecords /\ IdleClaim.batch = {} /\ IdleClaim.claimed = {}
  BY IdleTyped DEF TypeInv, ClaimTypes
<1>1. /\ UNCHANGED <<queueVars, store, phase, staff, calls>>
      /\ UNCHANGED task \/ \E claimed : /\ Dispatch(claimed)
                                        /\ claimed \subseteq claim.batch \cup claim.claimed
                                        /\ claim.pc \notin {"idle", "snap"}
  BY AdmittedTypes DEF Tick, tick_count, tick_snapshot, claim_resume, admit_resume,
     claim_pending, claim_filter, admit_pending, claim_failed, ClaimFrame, worldVars
<1>2. PICK f \in {0, 1} : faults' + ops' = faults + ops + f
  <2>1. faults \in Nat /\ ops \in Nat BY DEF TypeInv, BoundTypes
  <2>2. UNCHANGED boundVars \/ (faults' = faults + 1 /\ UNCHANGED ops)
        \/ UNCHANGED <<faults, ops>>
    BY DEF Tick, tick_count, tick_snapshot, claim_resume, admit_resume, claim_pending,
       claim_filter, admit_pending, claim_failed
  <2> QED BY <2>1, <2>2 DEF boundVars
<1>3. \A c \in claim'.batch \cup claim'.claimed :
          \/ c \in claim.batch \cup claim.claimed
          \/ \E r \in Rows : c.row = r /\ ~is_complete[r] /\ state[r] \in STAGE6_STATES
  <2>1. CASE claim_resume
    <3>1. claim'.batch = {CopyOf(r) : r \in Resumable} /\ claim'.claimed = claim.claimed
      BY <1>c, <2>1 DEF claim_resume, ClaimRecords
    <3>2. Resumable \subseteq OpenIn("AIP_STORE_IN_PROGRESS") BY NewestSubset DEF Resumable
    <3> QED BY <3>1, <3>2 DEF OpenIn, CopyOf, STAGE6_STATES
  <2>2. CASE claim_pending
    <3> DEFINE rows == NewestRows(OpenIn("AIP_STORE_PENDING"), ScanWindow)
    <3>1. rows \subseteq OpenIn("AIP_STORE_PENDING") BY NewestSubset
    <3> HIDE DEF rows
    <3>2. claim'.batch \subseteq {CopyOf(r) : r \in rows} /\ claim'.claimed \subseteq claim.claimed
      BY <1>c, <2>2 DEF claim_pending, Dispatch, ClaimRecords, rows
    <3> QED BY <3>1, <3>2 DEF OpenIn, CopyOf, STAGE6_STATES
  <2>3. CASE claim_filter
    <3>1. claim'.batch \subseteq claim.batch /\ claim'.claimed = claim.claimed
      BY <1>c, <2>3 DEF claim_filter, ClaimRecords
    <3> QED BY <3>1
  <2>4. CASE tick_count \/ tick_snapshot \/ claim_failed
    <3>1. claim'.batch \subseteq claim.batch /\ claim'.claimed \subseteq claim.claimed
      BY <1>c, <2>4 DEF tick_count, tick_snapshot, claim_failed, ClaimRecords, IdleClaim
    <3> QED BY <3>1
  <2>5. CASE admit_resume \/ admit_pending
    <3>1. claim'.batch = {} /\ claim'.claimed \subseteq Admitted \cup claim.claimed
      BY <1>c, <2>5 DEF admit_resume, admit_pending, Dispatch, ClaimRecords
    <3> QED BY <3>1, AdmittedTypes
  <2> QED BY <2>1, <2>2, <2>3, <2>4, <2>5 DEF Tick
<1>4. Settling
  <2> SUFFICES ASSUME NEW r \in Rows, Awake(r)' PROVE Awake(r) BY DEF Settling
  <2>1. CASE \E c \in claim'.batch \cup claim'.claimed : c.row = r
    BY <1>3, <2>1 DEF Awake
  <2>2. CASE task'[r].pc # "idle"
    BY <1>1, <2>2 DEF Dispatch, Awake
  <2>3. CASE ~is_complete'[r] /\ state'[r] \in STAGE6_STATES \cup {"COMPLETE"}
    BY <1>1, <2>3 DEF queueVars, Awake
  <2> QED BY <2>1, <2>2, <2>3 DEF Awake
<1>5. \A r \in Rows : Owing(r) => Owing(r)'
  <2>1. CASE UNCHANGED task BY <2>1 DEF Owing, Longest
  <2>2. CASE claim.pc \notin {"idle", "snap"} BY <2>2 DEF CopyInv, Owing, Running
  <2> QED BY <1>1, <2>1, <2>2
<1>6. \A r \in Rows : task'[r].pc = "record"
          => task[r].pc = "record" /\ task'[r].next = task[r].next
  BY <1>1 DEF Dispatch, IdleTask
<1>7. Ending' <= Ending /\ \A p \in Staff : Answering(p) BY <1>1 DEF Ending, Answering
<1>8. \A a \in Aips : Left(a)' <= Left(a) BY <1>1, SameLeft, LeftFacts
<1> QED BY <1>k, <1>1, <1>2, <1>4, <1>5, <1>6, <1>7, <1>8, BudgetQuiet

LEMMA WorldBudget ==
    ASSUME TypeInv, BudgetInv,
           \/ \E r \in Rows : hand_off(r)
           \/ \E a \in Aips : backoff_ends(a)
           \/ stop \/ crash \/ exit \/ start
    PROVE  BudgetInv'
<1>k. TypeInv' /\ Kept BY WorldStepTypes, WorldKept
<1>t. /\ task \in [Rows -> TaskRecords] /\ store \in [Aips -> StoreRecords]
      /\ state \in [Rows -> RowStates] /\ is_complete \in [Rows -> BOOLEAN]
      /\ faults \in Nat /\ ops \in Nat /\ IdleClaim.batch = {} /\ IdleClaim.claimed = {}
  BY IdleTyped DEF TypeInv, TaskTypes, StoreTypes, QueueTypes, BoundTypes
<1>c. UNCHANGED calls
  BY DEF hand_off, backoff_ends, stop, crash, exit, Gone, start, worldVars
<1>l. \A a \in Aips : Left(a)' <= Left(a)
  <2>1. CASE \E a \in Aips : backoff_ends(a)
    <3>1. \A a \in Aips : /\ store'[a].status = store[a].status
                          /\ store'[a].attempts = store[a].attempts
      BY <1>t, <2>1 DEF backoff_ends, StoreRecords
    <3>2. \A a \in Aips : Left(a)' = Left(a)
      BY <3>1 DEF Left, is_terminal_success, After, Longest
    <3> QED BY <3>2, LeftFacts
  <2>2. CASE UNCHANGED store BY <2>2, SameLeft, LeftFacts
  <2> QED BY <2>1, <2>2 DEF hand_off, stop, crash, exit, Gone, start
<1>s. Settling
  <2>1. CASE \E r \in Rows : hand_off(r)
    BY <1>t, <2>1 DEF hand_off, update_queue, Settling, Awake, STAGE6_STATES
  <2>2. CASE stop
    <3>1. \A r \in Rows : task'[r].pc = task[r].pc BY <1>t, <2>2 DEF stop, TaskRecords
    <3> QED BY <2>2, <3>1 DEF stop, queueVars, Settling, Awake
  <2>3. CASE crash \/ exit
    BY <1>t, <2>3, IdleTyped DEF crash, exit, Gone, queueVars, Settling, Awake
  <2>4. CASE (\E a \in Aips : backoff_ends(a)) \/ start
    BY <1>t, <2>4 DEF backoff_ends, start, queueVars, Settling, Awake
  <2> QED BY <2>1, <2>2, <2>3, <2>4
<1>a. \A p \in Staff : Answering(p)
  BY IdleTyped DEF hand_off, backoff_ends, stop, crash, exit, Gone, start, Answering
<1>r. \A r \in Rows : task'[r].pc = "record"
          => task[r].pc = "record" /\ task'[r].next = task[r].next
  <2>1. CASE stop BY <1>t, <2>1 DEF stop, TaskRecords
  <2>2. CASE crash \/ exit BY <2>2, IdleTyped DEF crash, exit, Gone
  <2> QED BY <2>1, <2>2 DEF hand_off, backoff_ends, start
<1>1. CASE (\E r \in Rows : hand_off(r)) \/ (\E a \in Aips : backoff_ends(a)) \/ start
  <2>1. UNCHANGED <<task, faults, ops>> /\ Ending' <= Ending
    <3>1. UNCHANGED <<task, faults, ops>>
          /\ (UNCHANGED phase \/ (phase = "down" /\ phase' = "up"))
      BY <1>1 DEF hand_off, backoff_ends, start, boundVars
    <3> QED BY <3>1 DEF Ending
  <2>2. \A r \in Rows : Owing(r) => Owing(r)' BY <2>1 DEF Owing, Longest
  <2>3. faults' + ops' = faults + ops + 0 BY <1>t, <2>1
  <2> QED BY <1>k, <1>c, <1>l, <1>s, <1>a, <1>r, <2>1, <2>2, <2>3, BudgetQuiet
<1>2. CASE crash
  <2>1. faults' + ops' = faults + ops + 1 /\ Ending' <= Ending
    BY <1>t, <1>2 DEF crash, Gone, Ending
  <2> QED BY <1>k, <1>c, <1>l, <1>s, <1>a, <1>r, <2>1, BudgetQuiet
<1>3. CASE stop \/ exit
  <2>1. ASSUME NEW a \in Aips PROVE Balanced(a)
    <3>t. /\ Left(a) \in Int /\ Granted(a) \in Int /\ Left(a)' \in Int /\ Granted(a)' \in Int
          /\ Credit(a) \in {0, 1} /\ Credit(a)' \in {0, 1} /\ Left(a)' <= Left(a)
      BY <1>k, <1>l, LeftFacts, GrantedType, NextLeftType, NextGrantedType, CreditFacts
    <3>f. Longest \in Nat /\ Longest >= 2 BY LongestFacts
    <3>n. /\ Cardinality(Rested(a)) \in Nat /\ Cardinality(Requeuers(a)) \in Nat
          /\ Cardinality(Stoppers(a)) \in Nat /\ (Longest - 1) * 0 = 0
          /\ Longest * 0 = 0 /\ Longest * 1 = Longest
      BY <3>f, CountFacts
    <3>1. /\ Cardinality(Rested(a)') >= Cardinality(Rested(a)) + 0
          /\ Cardinality(Requeuers(a)') <= Cardinality(Requeuers(a)) + 0
          /\ Cardinality(Stoppers(a)') <= Cardinality(Stoppers(a)) + 0
      BY <1>k, <1>s, <1>a, <3>n, RestedGrow, RequestsEnd
    <3>2. Granted(a)' >= Granted(a) + 1
      <4>1. CASE stop
        <5>1. faults' + ops' = faults + ops + 1 /\ Ending' <= Ending + 1
          BY <1>t, <4>1 DEF stop, Ending
        <5>2. Granted(a)' >= Granted(a) + Longest * 1 + 0 - 0 - (Longest - 1) * 0 - 1
          BY <1>k, <3>1, <5>1, GrantChange
        <5> QED BY <3>t, <3>f, <3>n, <5>2
      <4>2. CASE exit
        <5>1. faults' + ops' = faults + ops + 0 /\ Ending' <= Ending + (-1)
          BY <1>t, <4>2 DEF exit, Gone, Ending
        <5>2. Granted(a)' >= Granted(a) + Longest * 0 + 0 - 0 - (Longest - 1) * 0 - (-1)
          BY <1>k, <3>1, <5>1, GrantChange
        <5> QED BY <3>t, <3>f, <3>n, <5>2
      <4> QED BY <1>3, <4>1, <4>2
    <3> QED BY <1>c, <3>t, <3>2 DEF Balanced
  <2> QED BY <1>k, <1>r, <2>1, BudgetBalanced
<1> QED BY <1>1, <1>2, <1>3

\* A staff request's own part of the account.
LEMMA StaffFrameBudget ==
    ASSUME TypeInv, NEW p \in Staff, Request(p) \/ Handle(p)
    PROVE  /\ UNCHANGED <<phase, claim, calls, faults>> /\ Ending' <= Ending
           /\ \A q \in Staff \ {p} : staff'[q] = staff[q]
<1>1. UNCHANGED <<phase, claim, calls, faults>>
  BY DEF Request, Handle, StaffFrame, backfill_start, cancel_backfill, stop_aip_copy,
     dismiss_aip_row, aip_retry, stop_store, stop_park, dismiss_write, retry_source,
     retry_requeue, backfill_candidates, backfill_insert
<1>2. \A q \in Staff \ {p} : staff'[q] = staff[q]
  <2>1. staff \in [Staff -> StaffRecords] BY DEF TypeInv, StaffTypes
  <2> QED BY <2>1 DEF Request, Handle, Begin, Answer, Proceed, backfill_start,
         cancel_backfill, stop_aip_copy, dismiss_aip_row, aip_retry, stop_store,
         stop_park, dismiss_write, retry_source, retry_requeue, backfill_candidates,
         backfill_insert
<1> QED BY <1>1, <1>2 DEF Ending

\* Most requests move no task, leave the store rows' status and attempts alone,
\* and end as they began.
LEMMA QuietRequest ==
    ASSUME TypeInv, BudgetInv, NEW p \in Staff,
           \/ \E r \in Rows : dismiss_aip_row(p, r)
           \/ backfill_start(p) \/ cancel_backfill(p) \/ stop_park(p) \/ dismiss_write(p)
           \/ retry_source(p) \/ backfill_candidates(p) \/ backfill_insert(p)
           \/ request_failed(p)
    PROVE  BudgetInv'
<1>t. /\ store \in [Aips -> StoreRecords] /\ staff \in [Staff -> StaffRecords]
      /\ staff[p] \in StaffRecords
      /\ state \in [Rows -> RowStates] /\ is_complete \in [Rows -> BOOLEAN]
      /\ faults \in Nat /\ ops \in Nat
  BY DEF TypeInv, StaffTypes, StoreTypes, QueueTypes, BoundTypes
<1>k. TypeInv' /\ Kept
  <2>1. CASE request_failed(p)
    BY <2>1, FailedTypes, SameKept DEF request_failed, TypeInv
  <2>2. CASE ~request_failed(p) BY <2>2, StaffStepTypes DEF Request, Handle
  <2> QED BY <2>1, <2>2
<1>u. UNCHANGED <<task, claim, calls, phase>> /\ Ending' <= Ending
  <2>1. UNCHANGED <<task, claim, calls, phase>>
    BY DEF StaffFrame, dismiss_aip_row, backfill_start, cancel_backfill, stop_park,
       dismiss_write, retry_source, backfill_candidates, backfill_insert, request_failed,
       worldVars
  <2> QED BY <2>1 DEF Ending
<1>o. \A r \in Rows : Owing(r) => Owing(r)' BY <1>u DEF Owing, Longest
<1>f. PICK f \in {0, 1} : faults' + ops' = faults + ops + f
  <2>1. \/ faults' = faults /\ ops' = ops
        \/ faults' = faults + 1 /\ ops' = ops
        \/ faults' = faults /\ ops' = ops + 1
    BY DEF StaffFrame, Begin, Answer, Proceed, dismiss_aip_row, backfill_start,
       cancel_backfill, stop_park, dismiss_write, retry_source, backfill_candidates,
       backfill_insert, request_failed
  <2> QED BY <1>t, <2>1
<1>l. \A a \in Aips : Left(a)' <= Left(a)
  <2>1. \A a \in Aips : /\ store'[a].status = store[a].status
                        /\ store'[a].attempts = store[a].attempts
    <3>1. CASE retry_source(p) BY <1>t, <3>1 DEF retry_source, StoreRecords
    <3>2. CASE UNCHANGED store BY <3>2
    <3> QED BY <3>1, <3>2
       DEF dismiss_aip_row, backfill_start, cancel_backfill, stop_park, dismiss_write,
           backfill_candidates, backfill_insert, request_failed
  <2>2. \A a \in Aips : Left(a)' = Left(a)
    BY <2>1 DEF Left, is_terminal_success, After, Longest
  <2> QED BY <2>2, LeftFacts
<1>a. \A q \in Staff : Answering(q)
  <2>1. \A q \in Staff \ {p} : staff'[q] = staff[q]
    <3>1. CASE request_failed(p) BY <1>t, <3>1 DEF request_failed
    <3>2. CASE ~request_failed(p) BY <3>2, StaffFrameBudget DEF Request, Handle
    <3> QED BY <3>1, <3>2
  <2>2. Answering(p)
    <3>1. CASE request_failed(p)
      BY <1>t, <3>1, IdleTyped DEF request_failed, Answering, StaffRecords
    <3>2. CASE retry_source(p)
      BY <1>t, <3>2 DEF retry_source, Proceed, Answering, StaffRecords
    <3>3. CASE \/ \E r \in Rows : dismiss_aip_row(p, r)
               \/ backfill_start(p) \/ cancel_backfill(p)
      BY <1>t, <3>3 DEF dismiss_aip_row, backfill_start, cancel_backfill, Begin,
         Answering
    <3>4. CASE stop_park(p) \/ dismiss_write(p) \/ backfill_insert(p)
      BY <1>t, <3>4, IdleTyped
         DEF stop_park, dismiss_write, backfill_insert, Answer, Answering
    <3>5. CASE backfill_candidates(p)
      BY <1>t, <3>5, IdleTyped DEF backfill_candidates, Answering, StaffRecords
    <3> QED BY <3>1, <3>2, <3>3, <3>4, <3>5
  <2> QED BY <2>1, <2>2 DEF Answering
<1>s. Settling
  <2>1. CASE stop_park(p) \/ dismiss_write(p)
    <3>1. staff[p].row \in Rows
      BY <1>t, <2>1 DEF stop_park, dismiss_write, TypeInv, StaffTypes, StaffRecords
    <3> QED BY <1>t, <1>u, <2>1, <3>1 DEF stop_park, dismiss_write, update_queue, Settling, Awake,
         STAGE6_STATES
  <2>2. CASE cancel_backfill(p)
    BY <1>t, <1>u, <2>2 DEF cancel_backfill, Settling, Awake, STAGE6_STATES
  <2>3. CASE backfill_insert(p)
    BY <1>t, <1>u, <2>3 DEF backfill_insert, Settling, Awake, Present
  <2>4. CASE UNCHANGED <<state, is_complete>> BY <1>u, <2>4 DEF Settling, Awake
  <2> QED BY <2>1, <2>2, <2>3, <2>4
     DEF dismiss_aip_row, backfill_start, retry_source, backfill_candidates,
         request_failed, queueVars
<1> QED BY <1>k, <1>u, <1>o, <1>f, <1>l, <1>a, <1>s, BudgetQuiet

\* A stop sets aside the budget a copied AIP would need again; the copy it aborts
\* is not counted.
LEMMA StopBudget ==
    ASSUME TypeInv, BudgetInv, NEW p \in Staff, NEW r \in Rows, stop_aip_copy(p, r)
    PROVE  BudgetInv'
<1>k. TypeInv' /\ Kept BY StaffStepTypes DEF Request
<1>t. task \in [Rows -> TaskRecords] /\ staff \in [Staff -> StaffRecords]
      /\ faults \in Nat /\ ops \in Nat
  BY DEF TypeInv, TaskTypes, StaffTypes, BoundTypes
<1>b. PICK b : task' = [task EXCEPT ![r].aborted = b] BY DEF stop_aip_copy
<1>m. \A q \in Rows : task'[q].pc = task[q].pc /\ task'[q].next = task[q].next
  BY <1>t, <1>b DEF TaskRecords
<1>u. /\ UNCHANGED <<queueVars, store, claim, calls, phase>>
      /\ faults' + ops' = faults + ops + 1
      /\ staff' = [staff EXCEPT ![p] = [pc |-> "stop_store", row |-> r, aips |-> {}]]
  BY <1>t DEF stop_aip_copy, StaffFrame, Begin
<1>e. Ending' <= Ending + 0 BY <1>u DEF Ending
<1>s. Settling BY <1>m, <1>u DEF queueVars, Settling, Awake
<1>1. ASSUME NEW a \in Aips PROVE Balanced(a)
  <2>t. /\ Left(a) \in Int /\ Granted(a) \in Int /\ Left(a)' = Left(a) /\ Granted(a)' \in Int
        /\ Credit(a) \in {0, 1} /\ Credit(a)' \in {0, 1}
    BY <1>k, <1>u, SameLeft, LeftFacts, GrantedType, NextGrantedType, CreditFacts
  <2>f. Longest \in Nat /\ Longest >= 2 BY LongestFacts
  <2>n. /\ Cardinality(Rested(a)) \in Nat /\ Cardinality(Requeuers(a)) \in Nat
        /\ Cardinality(Stoppers(a)) \in Nat
        /\ (Longest - 1) * 1 = Longest - 1 /\ Longest * 1 = Longest
    BY <2>f, CountFacts
  <2>1. Cardinality(Rested(a)') >= Cardinality(Rested(a)) + 0
    BY <1>k, <1>s, <2>n, RestedGrow
  <2>2. Cardinality(Requeuers(a)') <= Cardinality(Requeuers(a)) + 0
    <3>1. Requeuers(a)' \subseteq Requeuers(a) BY <1>t, <1>u DEF Requeuers
    <3> QED BY <2>n, <3>1, CountFacts, CardGrows
  <2>3. Cardinality(Stoppers(a)') <= Cardinality(Stoppers(a)) + 1
    <3>1. Stoppers(a)' \subseteq Stoppers(a) \cup {p}
      <4>1. \A q \in Staff \ {p} : staff'[q] = staff[q] BY <1>t, <1>u
      <4>2. \A q \in Staff \ {p} : q \in Stoppers(a)' => q \in Stoppers(a)
        BY <1>k, <4>1, StoppersMove
      <4> QED BY <4>2 DEF Stoppers
    <3> QED BY <3>1, CountFacts, NextCountFacts, CardButOne
  <2>4. Granted(a)' >= Granted(a) + Longest * 1 + 0 - 0 - (Longest - 1) * 1 - 0
    BY <1>k, <1>u, <1>e, <2>1, <2>2, <2>3, GrantChange
  <2>5. Granted(a)' >= Granted(a) + 1 BY <2>t, <2>f, <2>n, <2>4
  <2> QED BY <1>u, <2>t, <2>5 DEF Balanced
<1> QED BY <1>k, <1>m, <1>1, BudgetBalanced

\* Marking the copy failed reopens a copied AIP, from what was set aside.
LEMMA StopStoreBudget ==
    ASSUME TypeInv, BudgetInv, NEW p \in Staff, stop_store(p) PROVE BudgetInv'
<1>k. TypeInv' /\ Kept BY StaffStepTypes DEF Handle
<1>t. staff \in [Staff -> StaffRecords] /\ store \in [Aips -> StoreRecords]
      /\ faults \in Nat /\ ops \in Nat
  BY DEF TypeInv, StoreTypes, StaffTypes, BoundTypes
<1>u. /\ UNCHANGED <<queueVars, task, claim, calls, phase>>
      /\ faults' + ops' = faults + ops + 0
      /\ staff' = [staff EXCEPT ![p].pc = "stop_park"]
      /\ staff[p].pc = "stop_store"
  BY <1>t DEF stop_store, StaffFrame, Proceed
<1>e. Ending' <= Ending + 0 BY <1>u DEF Ending
<1>s. Settling BY <1>u DEF queueVars, Settling, Awake
<1>p. /\ staff'[p].pc = "stop_park" /\ \A q \in Staff \ {p} : staff'[q] = staff[q]
  BY <1>t, <1>u DEF StaffRecords
<1>x. staff[p].row \in Rows /\ sip[staff[p].row] \in Aips
  BY <1>u DEF TypeInv, StaffTypes, StaffRecords, QueueTypes
<1>y. PICK x \in Aips : x = sip[staff[p].row] BY <1>x
<1>z. store' = [store EXCEPT ![x] = [NoStoreRow EXCEPT !.status = "INGEST_COPY_FAILED",
                                               !.attempts = store[x].attempts]]
  BY <1>y DEF stop_store, upsert_by_uuid
<1>1. ASSUME NEW a \in Aips PROVE Balanced(a)
  <2>t. /\ Left(a) \in Int /\ Granted(a) \in Int /\ Left(a)' \in Int /\ Granted(a)' \in Int
        /\ Credit(a) \in Int /\ Credit(a)' = Credit(a)
    <3>1. Credit(a)' = Credit(a) BY <1>u DEF Credit, Owing, queueVars, Longest
    <3> QED BY <1>k, <3>1, LeftFacts, GrantedType, NextLeftType, NextGrantedType, CreditFacts
  <2>f. Longest \in Nat /\ Longest >= 2 BY LongestFacts
  <2>n. /\ Cardinality(Rested(a)) \in Nat /\ Cardinality(Requeuers(a)) \in Nat
        /\ Cardinality(Stoppers(a)) \in Nat /\ Cardinality(Stoppers(a)') \in Nat
        /\ (Longest - 1) * 0 = 0 /\ (Longest - 1) * (-1) = 1 - Longest /\ Longest * 0 = 0
    BY <2>f, CountFacts, NextCountFacts
  <2>1. Cardinality(Rested(a)') >= Cardinality(Rested(a)) + 0
    BY <1>k, <1>s, <2>n, RestedGrow
  <2>2. Cardinality(Requeuers(a)') <= Cardinality(Requeuers(a)) + 0
    <3>1. Requeuers(a)' \subseteq Requeuers(a) BY <1>p DEF Requeuers
    <3> QED BY <2>n, <3>1, CountFacts, CardGrows
  <2>3. Stoppers(a)' \subseteq Stoppers(a) \ {p}
    <3>1. \A q \in Staff \ {p} : q \in Stoppers(a)' => q \in Stoppers(a)
      BY <1>k, <1>p, StoppersMove
    <3> QED BY <1>p, <3>1 DEF Stoppers
  <2>4. CASE a # x
    <3>1. Left(a)' = Left(a) BY <1>t, <1>z, <2>4 DEF Left, is_terminal_success, After, Longest
    <3>2. Cardinality(Stoppers(a)') <= Cardinality(Stoppers(a)) + 0
      BY <2>n, <2>3, CountFacts, CardGrows
    <3>3. Granted(a)' >= Granted(a) + Longest * 0 + 0 - 0 - (Longest - 1) * 0 - 0
      BY <1>k, <1>u, <1>e, <2>1, <2>2, <3>2, GrantChange
    <3>4. Granted(a)' >= Granted(a) BY <2>t, <2>n, <3>3
    <3> QED BY <1>u, <2>t, <3>1, <3>4 DEF Balanced
  <2>5. CASE a = x
    <3>1. Left(a)' <= Left(a) + (Longest - 1)
      <4>1. store'[a].attempts = store[a].attempts /\ store'[a].status = "INGEST_COPY_FAILED"
        BY <1>t, <1>z, <2>5 DEF NoStoreRow
      <4>2. store[a].attempts \in Nat BY <1>t DEF StoreRecords
      <4>3. Left(a)' = After(store[a].attempts)
        BY <4>1 DEF Left, is_terminal_success, After, Longest
      <4>4. After(store[a].attempts) <= Longest /\ After(store[a].attempts) \in Nat
        BY <4>2, AfterFacts
      <4>5. 1 <= Left(a) BY LeftFacts
      <4> QED BY <2>t, <2>f, <4>3, <4>4, <4>5
    <3>2. Cardinality(Stoppers(a)') <= Cardinality(Stoppers(a)) + (-1)
      <4>1. p \in Stoppers(a) BY <1>u, <1>y, <2>5 DEF Stoppers
      <4>2. Stoppers(a)' \subseteq Stoppers(a) /\ Stoppers(a)' # Stoppers(a)
        BY <2>3, <4>1
      <4>3. Cardinality(Stoppers(a)') + 1 <= Cardinality(Stoppers(a))
        BY <4>2, CountFacts, CardGrows
      <4> QED BY <2>n, <4>3
    <3>3. Granted(a)' >= Granted(a) + Longest * 0 + 0 - 0 - (Longest - 1) * (-1) - 0
      BY <1>k, <1>u, <1>e, <2>1, <2>2, <3>2, GrantChange
    <3>4. Granted(a)' >= Granted(a) + (Longest - 1) BY <2>t, <2>f, <2>n, <3>3
    <3> QED BY <1>u, <2>t, <2>f, <3>1, <3>4 DEF Balanced
  <2> QED BY <2>4, <2>5
<1> QED BY <1>k, <1>u, <1>1, BudgetBalanced

\* A retry's grant is the new budget and the row it will put back.
LEMMA RetryBudget ==
    ASSUME TypeInv, BudgetInv, NEW p \in Staff, NEW x \in Aips, NEW dc \in BOOLEAN,
           aip_retry(p, x, dc)
    PROVE  BudgetInv'
<1>k. TypeInv' /\ Kept BY StaffStepTypes DEF Request
<1>t. staff \in [Staff -> StaffRecords] /\ store \in [Aips -> StoreRecords]
      /\ faults \in Nat /\ ops \in Nat
  BY DEF TypeInv, StoreTypes, StaffTypes, BoundTypes
<1>u. /\ UNCHANGED <<queueVars, task, claim, calls, phase>>
      /\ faults' + ops' = faults + ops + 1
      /\ staff' = [staff EXCEPT ![p] = [pc |-> IF dc THEN "source" ELSE "requeue",
                                        row |-> 0, aips |-> {x}]]
      /\ store' = [store EXCEPT ![x] = [NoStoreRow EXCEPT !.status = "INITIAL"]]
  BY <1>t DEF aip_retry, StaffFrame, Begin, upsert_by_uuid
<1>e. Ending' <= Ending + 0 BY <1>u DEF Ending
<1>s. Settling BY <1>u DEF queueVars, Settling, Awake
<1>p. /\ staff'[p].pc \in {"source", "requeue"} /\ staff'[p].aips = {x}
      /\ \A q \in Staff \ {p} : staff'[q] = staff[q]
  BY <1>t, <1>u
<1>1. ASSUME NEW a \in Aips PROVE Balanced(a)
  <2>t. /\ Left(a) \in Int /\ Granted(a) \in Int /\ Left(a)' \in Int /\ Granted(a)' \in Int
        /\ Credit(a) \in Int /\ Credit(a)' = Credit(a)
    <3>1. Credit(a)' = Credit(a) BY <1>u DEF Credit, Owing, queueVars, Longest
    <3> QED BY <1>k, <3>1, LeftFacts, GrantedType, NextLeftType, NextGrantedType, CreditFacts
  <2>f. Longest \in Nat /\ Longest >= 2 BY LongestFacts
  <2>n. /\ Cardinality(Rested(a)) \in Nat /\ Cardinality(Requeuers(a)) \in Nat
        /\ Cardinality(Stoppers(a)) \in Nat
        /\ (Longest - 1) * 0 = 0 /\ Longest * 1 = Longest
    BY <2>f, CountFacts
  <2>1. Cardinality(Rested(a)') >= Cardinality(Rested(a)) + 0
    BY <1>k, <1>s, <2>n, RestedGrow
  <2>3. Cardinality(Stoppers(a)') <= Cardinality(Stoppers(a)) + 0
    <3>1. \A q \in Staff \ {p} : q \in Stoppers(a)' => q \in Stoppers(a)
      BY <1>k, <1>p, StoppersMove
    <3>2. Stoppers(a)' \subseteq Stoppers(a) BY <1>p, <3>1 DEF Stoppers
    <3> QED BY <2>n, <3>2, CountFacts, CardGrows
  <2>2. Cardinality(Requeuers(a)') <= Cardinality(Requeuers(a)) + 1
    <3>1. Requeuers(a)' \subseteq Requeuers(a) \cup {p} BY <1>p DEF Requeuers
    <3> QED BY <3>1, CountFacts, NextCountFacts, CardButOne
  <2>4. Granted(a)' >= Granted(a) + Longest * 1 + 0 - 1 - (Longest - 1) * 0 - 0
    BY <1>k, <1>u, <1>e, <2>1, <2>2, <2>3, GrantChange
  <2>5. Granted(a)' >= Granted(a) + (Longest - 1) BY <2>t, <2>f, <2>n, <2>4
  <2>6. Left(a)' <= Left(a) + (Longest - 1)
    <3>1. CASE a = x
      <4>1. store'[a].attempts = 0 /\ store'[a].status = "INITIAL"
        BY <1>t, <1>u, <3>1 DEF NoStoreRow
      <4>2. Left(a)' = After(0)
        BY <4>1 DEF Left, is_terminal_success, After, Longest
      <4>3. After(0) \in Nat /\ After(0) <= Longest BY AfterFacts
      <4>4. 1 <= Left(a) BY LeftFacts
      <4> QED BY <2>t, <2>f, <4>2, <4>3, <4>4
    <3>2. CASE a # x
      <4>1. Left(a)' = Left(a) BY <1>t, <1>u, <3>2 DEF Left, is_terminal_success, After, Longest
      <4> QED BY <2>t, <2>f, <4>1
    <3> QED BY <3>1, <3>2
  <2> QED BY <1>u, <2>t, <2>f, <2>5, <2>6 DEF Balanced
<1> QED BY <1>k, <1>u, <1>1, BudgetBalanced

\* The row a retry puts back is the one its grant has set aside.
LEMMA RequeueBudget ==
    ASSUME TypeInv, BudgetInv, NEW p \in Staff, retry_requeue(p) PROVE BudgetInv'
<1>k. TypeInv' /\ Kept BY StaffStepTypes DEF Handle
<1>t. staff \in [Staff -> StaffRecords] /\ faults \in Nat /\ ops \in Nat
      /\ state \in [Rows -> RowStates] /\ is_complete \in [Rows -> BOOLEAN]
  BY DEF TypeInv, QueueTypes, StaffTypes, BoundTypes
<1>r. PICK r \in Rows : sip[r] \in staff[p].aips /\ update_queue(r, "AIP_STORE_PENDING", FALSE)
  BY NewestSubset DEF retry_requeue
<1>u. /\ UNCHANGED <<store, task, claim, calls, phase, sip>>
      /\ faults' + ops' = faults + ops + 0
      /\ staff[p].pc = "requeue" /\ staff' = [staff EXCEPT ![p] = IdleStaff]
  BY <1>t, <1>r DEF retry_requeue, StaffFrame, Answer, update_queue
<1>e. Ending' <= Ending + 0 BY <1>u DEF Ending
<1>p. staff'[p].pc = "idle" /\ \A q \in Staff \ {p} : staff'[q] = staff[q]
  BY <1>t, <1>u, IdleTyped
<1>w. \A q \in Rows \ {r} : Awake(q)' => Awake(q)
  BY <1>t, <1>r, <1>u DEF update_queue, Awake
<1>1. ASSUME NEW a \in Aips PROVE Balanced(a)
  <2>t. /\ Left(a)' = Left(a) /\ Left(a) \in Int /\ Granted(a) \in Int /\ Granted(a)' \in Int
        /\ Credit(a) \in Int /\ Credit(a)' = Credit(a)
    <3>1. Credit(a)' = Credit(a) BY <1>u DEF Credit, Owing, Longest
    <3> QED BY <1>k, <1>u, <3>1, SameLeft, LeftFacts, GrantedType, NextGrantedType,
            CreditFacts
  <2>f. Longest \in Nat /\ Longest >= 2 BY LongestFacts
  <2>n. /\ Cardinality(Rested(a)) \in Nat /\ Cardinality(Requeuers(a)) \in Nat
        /\ Cardinality(Stoppers(a)) \in Nat /\ Cardinality(Rested(a)') \in Nat
        /\ Cardinality(Requeuers(a)') \in Nat
        /\ (Longest - 1) * 0 = 0 /\ Longest * 0 = 0
    BY <2>f, CountFacts, NextCountFacts
  <2>3. Cardinality(Stoppers(a)') <= Cardinality(Stoppers(a)) + 0
    <3>1. \A q \in Staff \ {p} : q \in Stoppers(a)' => q \in Stoppers(a)
      BY <1>k, <1>p, StoppersMove
    <3>2. Stoppers(a)' \subseteq Stoppers(a) BY <1>p, <3>1 DEF Stoppers
    <3> QED BY <2>n, <3>2, CountFacts, CardGrows
  <2>2. Requeuers(a)' \subseteq Requeuers(a) \ {p} BY <1>p DEF Requeuers
  <2>4. Granted(a)' >= Granted(a)
    <3>1. CASE sip[r] = a
      <4>1. Rested(a) \subseteq Rested(a)' \cup {r} BY <1>u, <1>w DEF Rested
      <4>2. Cardinality(Rested(a)') >= Cardinality(Rested(a)) + (-1)
        <5>1. Cardinality(Rested(a)) <= Cardinality(Rested(a)') + 1
          BY <4>1, CountFacts, NextCountFacts, CardButOne
        <5> QED BY <2>n, <5>1
      <4>3. Cardinality(Requeuers(a)') <= Cardinality(Requeuers(a)) + (-1)
        <5>1. p \in Requeuers(a) BY <1>r, <1>u, <3>1 DEF Requeuers
        <5>2. Requeuers(a)' \subseteq Requeuers(a) /\ Requeuers(a)' # Requeuers(a)
          BY <2>2, <5>1
        <5>3. Cardinality(Requeuers(a)') + 1 <= Cardinality(Requeuers(a))
          BY <5>2, CountFacts, CardGrows
        <5> QED BY <2>n, <5>3
      <4>4. Granted(a)' >= Granted(a) + Longest * 0 + (-1) - (-1) - (Longest - 1) * 0 - 0
        BY <1>k, <1>u, <1>e, <2>3, <4>2, <4>3, GrantChange
      <4> QED BY <2>t, <2>n, <4>4
    <3>2. CASE sip[r] # a
      <4>1. Rested(a) \subseteq Rested(a)' BY <1>u, <1>w, <3>2 DEF Rested
      <4>2. Cardinality(Rested(a)') >= Cardinality(Rested(a)) + 0
        BY <2>n, <4>1, NextCountFacts, CardGrows
      <4>3. Cardinality(Requeuers(a)') <= Cardinality(Requeuers(a)) + 0
        <5>1. Requeuers(a)' \subseteq Requeuers(a) BY <2>2
        <5> QED BY <2>n, <5>1, CountFacts, CardGrows
      <4>4. Granted(a)' >= Granted(a) + Longest * 0 + 0 - 0 - (Longest - 1) * 0 - 0
        BY <1>k, <1>u, <1>e, <2>3, <4>2, <4>3, GrantChange
      <4> QED BY <2>t, <2>n, <4>4
    <3> QED BY <3>1, <3>2
  <2> QED BY <1>u, <2>t, <2>4 DEF Balanced
<1> QED BY <1>k, <1>u, <1>1, BudgetBalanced

\* Under the gate a stage steps alone, while no claim holds its row.
StageAlone(r) ==
    /\ TypeInv' /\ Kept /\ Settling /\ \A p \in Staff : Answering(p)
    /\ Running(r) /\ sip[r] \in Aips
    /\ Ending' <= Ending /\ UNCHANGED ops
    /\ \A q \in Rows \ {r} : /\ ~Running(q) /\ ~Owing(q)
                             /\ task'[q] = task[q] /\ task[q].pc = "idle"
    /\ claim' = claim /\ claim.batch = {} /\ claim.claimed = {}

LEMMA StageFacts ==
    ASSUME TypeInv, CopyInv, BatchInv, Stage6Serial, NEW r \in Rows,
           Stage(r) \/ stage_threw(r)
    PROVE  StageAlone(r)
<1>t. task \in [Rows -> TaskRecords] BY DEF TypeInv, TaskTypes
<1>1. Running(r) BY StageRuns
<1>2. UNCHANGED <<phase, claim, staff, ops>>
  BY DEF Stage, stage_threw, StageFrame, lookup, drain, already_copied, skip_orphan,
     mark_in_progress, copy_call, copy_aborted, copy_succeeds, copy_fails, store_copied,
     complete, record_failure, park
<1>3. \E d : task' = [task EXCEPT ![r] = d]
  <2>1. CASE lookup(r) BY <1>t, <2>1 DEF lookup, Goto, Return
  <2>2. CASE copy_fails(r) BY <1>t, <2>2 DEF copy_fails
  <2>3. CASE ~lookup(r) /\ ~copy_fails(r)
    BY <1>t, <2>3 DEF Goto, Return, Stage, stage_threw, drain, already_copied,
       skip_orphan, mark_in_progress, copy_call, copy_aborted, copy_succeeds,
       store_copied, complete, record_failure, park
  <2> QED BY <2>1, <2>2, <2>3
<1>4. \A q \in Rows \ {r} : /\ ~Running(q) /\ ~Owing(q)
                            /\ task'[q] = task[q] /\ task[q].pc = "idle"
  BY <1>t, <1>1, <1>3 DEF CopyInv, Running, Owing
<1>5. \A q \in Rows \ {r} : state'[q] = state[q] /\ is_complete'[q] = is_complete[q]
  <2>1. CASE UNCHANGED queueVars BY <2>1 DEF queueVars
  <2>2. ASSUME NEW st, NEW done, update_queue(r, st, done)
        PROVE  \A q \in Rows \ {r} : state'[q] = state[q] /\ is_complete'[q] = is_complete[q]
    BY <2>2 DEF update_queue, TypeInv, QueueTypes
  <2> QED BY <2>1, <2>2
     DEF Stage, stage_threw, lookup, drain, already_copied, skip_orphan,
         mark_in_progress, copy_call, copy_aborted, copy_succeeds, copy_fails,
         store_copied, complete, record_failure, park
<1>6. Settling
  <2> SUFFICES ASSUME NEW q \in Rows, Awake(q)' PROVE Awake(q) BY DEF Settling
  <2>1. CASE q = r BY <1>1, <2>1 DEF Awake, Running
  <2>2. CASE q # r BY <1>2, <1>4, <1>5, <2>2 DEF Awake
  <2> QED BY <2>1, <2>2
<1>7. claim.batch = {} /\ claim.claimed = {} BY <1>1 DEF CopyInv, BatchInv
<1>8. Ending' <= Ending /\ \A p \in Staff : Answering(p) BY <1>2 DEF Ending, Answering
<1>9. sip[r] \in Aips BY <1>1 DEF TypeInv, TaskTypes, QueueTypes, Running
<1>10. TypeInv' /\ Kept BY StageTypes
<1> QED BY <1>1, <1>2, <1>4, <1>6, <1>7, <1>8, <1>9, <1>10 DEF StageAlone

\* The steps that make no call and record no failure.
LEMMA QuietStage ==
    ASSUME TypeInv, CopyInv, BatchInv, BudgetInv, Stage6Serial, NEW r \in Rows,
           \/ lookup(r) \/ drain(r) \/ already_copied(r) \/ skip_orphan(r)
           \/ mark_in_progress(r) \/ (copy_call(r) /\ task[r].aborted)
           \/ copy_aborted(r) \/ copy_succeeds(r) \/ store_copied(r) \/ complete(r)
           \/ park(r) \/ stage_threw(r)
    PROVE  BudgetInv'
<1>a. StageAlone(r) BY StageFacts DEF Stage
<1>t. /\ task \in [Rows -> TaskRecords] /\ task[r] \in TaskRecords
      /\ store \in [Aips -> StoreRecords] /\ store[sip[r]] \in StoreRecords
      /\ state \in [Rows -> RowStates] /\ is_complete \in [Rows -> BOOLEAN]
      /\ faults \in Nat /\ ops \in Nat
  BY <1>a DEF StageAlone, TypeInv, TaskTypes, StoreTypes, QueueTypes, BoundTypes
<1>c. UNCHANGED calls
  BY DEF lookup, drain, already_copied, skip_orphan, mark_in_progress, copy_call,
     copy_aborted, copy_succeeds, store_copied, complete, park, stage_threw, worldVars
<1>f. PICK f \in {0, 1} : /\ faults' + ops' = faults + ops + f
                          /\ stage_threw(r) => f = 1
  <2>1. \/ faults' = faults /\ ~stage_threw(r)
        \/ faults' = faults + 1
    BY <1>t DEF lookup, drain, already_copied, skip_orphan, mark_in_progress, copy_call,
       copy_aborted, copy_succeeds, store_copied, complete, park, stage_threw
  <2> QED BY <1>a, <1>t, <2>1 DEF StageAlone
<1>r. task'[r].pc # "record"
  <2>1. CASE lookup(r)
    BY <1>t, <2>1, IdleTyped DEF lookup, Goto, Return, TaskRecords
  <2>2. CASE ~lookup(r)
    <3>1. \/ Return(r)
          \/ Goto(r, "call") \/ Goto(r, "wait") \/ Goto(r, "store") \/ Goto(r, "complete")
      BY <2>2 DEF drain, already_copied, skip_orphan, mark_in_progress, copy_call,
         copy_aborted, copy_succeeds, store_copied, complete, park, stage_threw
    <3>2. CASE Return(r) BY <1>t, <3>2, IdleTyped DEF Return
    <3>3. CASE Goto(r, "call") BY <1>t, <3>3 DEF Goto, TaskRecords
    <3>4. CASE Goto(r, "wait") BY <1>t, <3>4 DEF Goto, TaskRecords
    <3>5. CASE Goto(r, "store") BY <1>t, <3>5 DEF Goto, TaskRecords
    <3>6. CASE Goto(r, "complete") BY <1>t, <3>6 DEF Goto, TaskRecords
    <3> QED BY <3>1, <3>2, <3>3, <3>4, <3>5, <3>6
  <2> QED BY <2>1, <2>2
<1>1. \A q \in Rows : task'[q].pc = "record"
          => task[q].pc = "record" /\ task'[q].next = task[q].next
  BY <1>a, <1>r DEF StageAlone
<1>2. \A a \in Aips : Left(a)' <= Left(a)
  <2>1. CASE store_copied(r)
    <3> SUFFICES ASSUME NEW a \in Aips PROVE Left(a)' <= Left(a) OBVIOUS
    <3>1. PICK x \in Aips : x = sip[r] BY <1>a DEF StageAlone
    <3>2. store' = [store EXCEPT ![x] = [NoStoreRow EXCEPT !.status = "INGEST_COPIED_OK"]]
      BY <2>1, <3>1 DEF store_copied, upsert_by_uuid
    <3>3. CASE a = x
      <4>1. store'[a].status = "INGEST_COPIED_OK" BY <1>t, <3>2, <3>3 DEF NoStoreRow
      <4>2. Left(a)' = 1 BY <4>1 DEF Left, is_terminal_success
      <4> QED BY <4>2, LeftFacts
    <3>4. CASE a # x
      <4>1. Left(a)' = Left(a)
        BY <1>t, <3>2, <3>4 DEF Left, is_terminal_success, After, Longest
      <4> QED BY <4>1, LeftFacts
    <3> QED BY <3>3, <3>4
  <2>2. CASE ~store_copied(r)
    <3>1. UNCHANGED store
      BY <2>2 DEF lookup, drain, already_copied, skip_orphan, mark_in_progress,
         copy_call, copy_aborted, copy_succeeds, complete, park, stage_threw
    <3> QED BY <3>1, SameLeft, LeftFacts
  <2> QED BY <2>1, <2>2
<1>3. f = 1 \/ (Owing(r) => Owing(r)' \/ ~Awake(r)')
  <2>1. CASE stage_threw(r) BY <1>f, <2>1
  <2>2. CASE \/ lookup(r) \/ drain(r) \/ already_copied(r) \/ skip_orphan(r)
             \/ mark_in_progress(r) \/ (copy_call(r) /\ task[r].aborted)
             \/ copy_aborted(r)
    BY <2>2 DEF lookup, drain, already_copied, skip_orphan, mark_in_progress,
       copy_call, copy_aborted, At, Owing
  <2>3. CASE copy_succeeds(r) \/ store_copied(r)
    <3>1. task'[r].pc \in {"store", "complete"}
      BY <1>t, <2>3 DEF copy_succeeds, store_copied, Goto, TaskRecords
    <3> QED BY <3>1 DEF Owing
  <2>4. CASE complete(r)
    <3>1. task'[r].pc = "idle" /\ state'[r] = "AIP_STORE_COMPLETE"
      BY <1>t, <2>4, IdleTyped DEF complete, Return, update_queue
    <3> QED BY <1>a, <3>1 DEF StageAlone, Awake, STAGE6_STATES
  <2>5. CASE park(r)
    <3>1. CASE task[r].next >= Longest
      <4>1. Verdict(task[r]) # "retry"
        <5>1. task[r].next \in Nat BY <1>t DEF TaskRecords
        <5>2. task[r].next >= NotFoundMax /\ task[r].next >= MaxAttempts
          BY <3>1, <5>1, LongestFacts
        <5> QED BY <5>2 DEF Verdict
      <4>2. task'[r].pc = "idle" /\ state'[r] = "AIP_STORE_FAILED"
        BY <1>t, <2>5, <4>1, IdleTyped DEF park, Return, update_queue, ParkState
      <4> QED BY <1>a, <4>2 DEF StageAlone, Awake, STAGE6_STATES
    <3>2. CASE ~(task[r].next >= Longest) BY <2>5, <3>2 DEF park, At, Owing
    <3> QED BY <3>1, <3>2
  <2> QED BY <2>1, <2>2, <2>3, <2>4, <2>5
<1>4. f = 1 \/ \A q \in Rows : Owing(q) => Owing(q)' \/ ~Awake(q)'
  BY <1>a, <1>3 DEF StageAlone
<1> QED BY <1>a, <1>c, <1>f, <1>1, <1>2, <1>4, BudgetQuiet DEF StageAlone

\* What the account of every AIP looks like after a stage's step.
LEMMA StageAccount ==
    ASSUME TypeInv, NEW r \in Rows, StageAlone(r), NEW f \in {0, 1},
           faults' + ops' = faults + ops + f, NEW a \in Aips
    PROVE  /\ Granted(a)' >= Granted(a) + (IF f = 1 THEN Longest ELSE 0)
           /\ Left(a) \in Int /\ Granted(a) \in Int /\ Left(a)' \in Int /\ Granted(a)' \in Int
           /\ Credit(a) \in {0, 1} /\ Credit(a)' \in {0, 1} /\ calls[a] \in Int
           /\ sip[r] # a \/ ~Owing(r) => Credit(a) = 0
           /\ sip[r] = a /\ Owing(r)' => Credit(a)' = 1
<1>a. TypeInv' /\ Kept BY DEF StageAlone
<1>1. Granted(a)' >= Granted(a) + Longest * f BY GrantKept DEF StageAlone
<1>2. Longest \in Nat /\ Longest * 1 = Longest /\ Longest * 0 = 0 BY LongestFacts
<1>3. /\ Left(a) \in Int /\ Granted(a) \in Int /\ Left(a)' \in Int /\ Granted(a)' \in Int
      /\ Credit(a) \in {0, 1} /\ Credit(a)' \in {0, 1} /\ calls[a] \in Int
  BY <1>a, LeftFacts, GrantedType, NextLeftType, NextGrantedType, CreditFacts
     DEF TypeInv, WorldTypes
<1>4. sip[r] # a \/ ~Owing(r) => Credit(a) = 0 BY DEF StageAlone, Credit
<1>5. sip[r] = a /\ Owing(r)' => Credit(a)' = 1 BY <1>a, CreditFacts
<1>6. Granted(a)' >= Granted(a) + (IF f = 1 THEN Longest ELSE 0) BY <1>1, <1>2, <1>3
<1> QED BY <1>3, <1>4, <1>5, <1>6

LEMMA CallBudget ==
    ASSUME TypeInv, CopyInv, BatchInv, BudgetInv, Stage6Serial, NEW r \in Rows,
           copy_call(r), ~task[r].aborted
    PROVE  BudgetInv'
<1>a. StageAlone(r) BY StageFacts DEF Stage
<1>t. task \in [Rows -> TaskRecords] /\ task[r] \in TaskRecords /\ faults \in Nat /\ ops \in Nat
      /\ calls \in [Aips -> Nat]
  BY DEF TypeInv, TaskTypes, BoundTypes, WorldTypes
<1>x. PICK x \in Aips : x = sip[r] BY <1>a DEF StageAlone
<1>1. /\ calls' = [calls EXCEPT ![x] = @ + 1] /\ UNCHANGED store /\ ~Owing(r)
      /\ task'[r].pc = "wait" /\ ~task'[r].aborted
      /\ faults' + ops' = faults + ops + 0
  BY <1>a, <1>t, <1>x DEF copy_call, Goto, At, Owing, StageAlone, TaskRecords
<1>2. ASSUME NEW a \in Aips PROVE (calls[a] + Left(a) <= Granted(a) + Credit(a))'
  <2>1. calls[a] + Left(a) <= Granted(a) + Credit(a) BY DEF BudgetInv
  <2>2. /\ Granted(a)' >= Granted(a) + 0
        /\ Left(a) \in Int /\ Granted(a) \in Int /\ Granted(a)' \in Int /\ calls[a] \in Int
        /\ Credit(a)' \in {0, 1} /\ Credit(a) = 0 /\ Left(a)' = Left(a)
    BY <1>a, <1>1, StageAccount, SameLeft
  <2>3. CASE a = x
    <3>1. Owing(r)' BY <1>1 DEF Owing
    <3>2. Credit(a)' = 1 BY <1>a, <1>1, <1>x, <2>3, <3>1, StageAccount
    <3>3. calls'[a] = calls[a] + 1 BY <1>t, <1>1, <2>3
    <3> QED BY <2>1, <2>2, <3>2, <3>3
  <2>4. CASE a # x
    <3>1. calls'[a] = calls[a] BY <1>t, <1>1, <2>4
    <3> QED BY <2>1, <2>2, <3>1
  <2> QED BY <2>3, <2>4
<1>3. \A q \in Rows : task'[q].pc # "record" BY <1>a, <1>1 DEF StageAlone
<1> QED BY <1>2, <1>3 DEF BudgetInv

LEMMA FailBudget ==
    ASSUME TypeInv, CopyInv, BatchInv, FreshInv, BudgetInv, Stage6Serial, NEW r \in Rows,
           copy_fails(r)
    PROVE  BudgetInv'
<1>a. StageAlone(r) BY StageFacts DEF Stage
<1>x. PICK x \in Aips : x = sip[r] BY <1>a DEF StageAlone
<1>t. /\ task \in [Rows -> TaskRecords] /\ faults \in Nat /\ ops \in Nat
      /\ store[x].attempts \in Nat /\ Longest \in Nat /\ Longest >= 2
      /\ sip'[r] = x
  BY <1>a, <1>x, LongestFacts, CreditFacts
     DEF TypeInv, TaskTypes, StoreTypes, BoundTypes, StoreRecords, StageAlone
<1>1. /\ UNCHANGED <<store, calls>> /\ task'[r].pc = "record"
      /\ \E f \in {0, 1} : /\ faults' + ops' = faults + ops + f
                           /\ task'[r].next = IF f = 0 THEN store[x].attempts + 1 ELSE 1
  BY <1>a, <1>t, <1>x DEF copy_fails, StageAlone, TaskRecords
<1>2. PICK f \in {0, 1} : /\ faults' + ops' = faults + ops + f
                          /\ task'[r].next = IF f = 0 THEN store[x].attempts + 1 ELSE 1
  BY <1>1
<1>o. Owing(r) /\ Owing(r)' BY <1>1 DEF copy_fails, At, Owing
<1>3. ASSUME NEW a \in Aips PROVE (calls[a] + Left(a) <= Granted(a) + Credit(a))'
  <2>1. calls[a] + Left(a) <= Granted(a) + Credit(a) BY DEF BudgetInv
  <2>2. /\ Granted(a)' >= Granted(a) + (IF f = 1 THEN Longest ELSE 0)
        /\ Left(a) \in Int /\ Granted(a) \in Int /\ Granted(a)' \in Int /\ calls[a] \in Int
        /\ Credit(a) \in {0, 1} /\ Credit(a)' \in {0, 1} /\ Left(a)' = Left(a)
    BY <1>a, <1>1, <1>2, StageAccount, SameLeft
  <2>3. Credit(a) <= Credit(a)'
    <3>1. CASE sip[r] = a
      <4>1. Credit(a)' = 1 BY <1>a, <1>2, <1>o, <3>1, StageAccount
      <4> QED BY <2>2, <4>1
    <3>2. CASE sip[r] # a
      <4>1. Credit(a) = 0 BY <1>a, <1>2, <3>2, StageAccount
      <4> QED BY <2>2, <4>1
    <3> QED BY <3>1, <3>2
  <2>4. calls'[a] = calls[a] BY <1>1
  <2> QED BY <1>t, <2>1, <2>2, <2>3, <2>4
<1>4. ASSUME NEW q \in Rows, task'[q].pc = "record"
      PROVE  (calls[sip[q]] + After(task[q].next)
                <= Granted(sip[q]) + Overrun(task[q].next))'
  <2>0. q = r BY <1>a, <1>4 DEF StageAlone
  <2>1. PICK n \in Nat : n = IF f = 0 THEN store[x].attempts + 1 ELSE 1 BY <1>t
  <2>2. calls[x] + Left(x) <= Granted(x) + Credit(x) BY DEF BudgetInv
  <2>3. /\ Granted(x)' >= Granted(x) + (IF f = 1 THEN Longest ELSE 0)
        /\ Left(x) \in Int /\ Granted(x) \in Int /\ Granted(x)' \in Int /\ calls[x] \in Int
        /\ Credit(x) \in {0, 1}
    BY <1>a, <1>2, StageAccount
  <2>4. Left(x) = After(store[x].attempts)
    BY <1>x DEF FreshInv, Opened, copy_fails, At, Left
  <2>5. calls[x] + After(n) <= Granted(x)' + Overrun(n)
    <3>0. /\ After(n) \in Nat /\ 1 <= After(n) /\ After(n) <= Longest
          /\ n < Longest => After(n) = Longest - n
          /\ n >= Longest => After(n) = 1 /\ Overrun(n) = 1
          /\ Overrun(n) \in {0, 1}
      BY AfterFacts DEF Overrun
    <3>1. CASE f = 0
      <4> DEFINE k == store[x].attempts
      <4>1. k \in Nat /\ n = k + 1 BY <1>t, <2>1, <3>1
      <4> HIDE DEF k
      <4>2. After(k) \in Nat /\ 1 <= After(k) /\ (k < Longest => After(k) = Longest - k)
        BY <4>1, AfterFacts
      <4>3. Left(x) = After(k) BY <2>4 DEF k
      <4>4. CASE n < Longest
        <5>1. After(n) = Longest - n /\ After(k) = Longest - k BY <1>t, <3>0, <4>1, <4>2, <4>4
        <5> QED BY <1>t, <2>2, <2>3, <3>0, <3>1, <4>1, <4>3, <5>1
      <4>5. CASE n >= Longest
        <5>1. After(n) = 1 /\ Overrun(n) = 1 BY <3>0, <4>5
        <5> QED BY <2>2, <2>3, <3>1, <4>2, <4>3, <5>1
      <4> QED BY <1>t, <4>1, <4>4, <4>5
    <3>2. CASE f = 1
      <4>1. n = 1 /\ After(n) = Longest - 1 BY <1>t, <2>1, <3>0, <3>2
      <4>2. 1 <= Left(x) BY LeftFacts
      <4> QED BY <1>t, <2>2, <2>3, <3>0, <3>2, <4>1, <4>2
    <3> QED BY <3>1, <3>2
  <2>6. After(n)' = After(n) /\ Overrun(n)' = Overrun(n) BY DEF After, Overrun, Longest
  <2>7. sip'[q] = x /\ task'[q].next = n /\ calls'[x] = calls[x]
    BY <1>t, <1>1, <1>2, <2>0, <2>1
  <2> QED BY <2>5, <2>6, <2>7
<1> QED BY <1>3, <1>4 DEF BudgetInv

LEMMA RecordBudget ==
    ASSUME TypeInv, CopyInv, BatchInv, BudgetInv, Stage6Serial, NEW r \in Rows,
           record_failure(r)
    PROVE  BudgetInv'
<1>a. StageAlone(r) BY StageFacts DEF Stage
<1>x. PICK x \in Aips : x = sip[r] BY <1>a DEF StageAlone
<1>t. /\ task \in [Rows -> TaskRecords] /\ faults \in Nat /\ ops \in Nat
      /\ store \in [Aips -> StoreRecords] /\ task[r].next \in Nat
  BY DEF TypeInv, TaskTypes, TaskRecords, StoreTypes, BoundTypes
<1>1. /\ UNCHANGED calls /\ task[r].pc = "record" /\ task'[r].pc = "park"
      /\ task'[r].next = task[r].next
  BY <1>t DEF record_failure, Goto, At, worldVars, TaskRecords
<1>2. \A q \in Rows : task'[q].pc # "record" BY <1>a, <1>1 DEF StageAlone
<1>3. CASE faults' = faults + 1 /\ UNCHANGED store
  <2>1. faults' + ops' = faults + ops + 1 BY <1>a, <1>t, <1>3 DEF StageAlone
  <2>2. \A a \in Aips : Left(a)' <= Left(a) BY <1>3, SameLeft, LeftFacts
  <2> QED BY <1>a, <1>1, <1>2, <2>1, <2>2, BudgetQuiet DEF StageAlone
<1>4. CASE upsert_by_uuid(sip[r], FailurePatch(task[r])) /\ UNCHANGED faults
  <2>0. faults' + ops' = faults + ops + 0 BY <1>a, <1>t, <1>4 DEF StageAlone
  <2>1. PICK n \in Nat : n = task[r].next BY <1>t
  <2>2. store' = [store EXCEPT ![x] = FailurePatch(task[r])]
    BY <1>x, <1>4 DEF upsert_by_uuid
  <2>3. FailurePatch(task[r]).attempts = n
        /\ FailurePatch(task[r]).status \in {"AM_NOT_FOUND", "INGEST_COPY_FAILED"}
    BY <2>1 DEF FailurePatch
  <2>4. ASSUME NEW a \in Aips PROVE (calls[a] + Left(a) <= Granted(a) + Credit(a))'
    <3>1. /\ Granted(a)' >= Granted(a) + 0
          /\ Left(a) \in Int /\ Granted(a) \in Int /\ Granted(a)' \in Int /\ calls[a] \in Int
          /\ Credit(a) \in {0, 1} /\ Credit(a)' \in {0, 1} /\ Left(a)' \in Int
      BY <1>a, <2>0, StageAccount
    <3>2. calls'[a] = calls[a] BY <1>1
    <3>3. CASE a = x
      <4>1. store'[a].attempts = n /\ store'[a].status # "INGEST_COPIED_OK"
        BY <1>t, <2>2, <2>3, <3>3
      <4>2. Left(a)' = After(n)
        BY <4>1 DEF Left, is_terminal_success, After, Longest
      <4>3. calls[a] + After(n) <= Granted(a) + Overrun(n)
        BY <1>1, <1>x, <2>1, <3>3 DEF BudgetInv
      <4>4. Overrun(n) <= Credit(a)'
        <5>1. CASE n >= Longest
          <6>1. Owing(r)' BY <1>1, <2>1, <5>1 DEF Owing, Longest
          <6>2. Credit(a)' = 1 BY <1>a, <1>x, <2>0, <3>3, <6>1, StageAccount
          <6> QED BY <6>2 DEF Overrun
        <5>2. CASE ~(n >= Longest) BY <3>1, <5>2 DEF Overrun
        <5> QED BY <5>1, <5>2
      <4>5. After(n) \in Nat /\ Overrun(n) \in Nat BY AfterFacts DEF Overrun
      <4> QED BY <3>1, <3>2, <4>2, <4>3, <4>4, <4>5
    <3>4. CASE a # x
      <4>1. store'[a] = store[a] BY <1>t, <2>2, <3>4
      <4>2. Left(a)' = Left(a) BY <4>1 DEF Left, is_terminal_success, After, Longest
      <4>3. Credit(a) = 0 BY <1>a, <1>x, <2>0, <3>4, StageAccount
      <4>4. calls[a] + Left(a) <= Granted(a) + Credit(a) BY DEF BudgetInv
      <4> QED BY <3>1, <3>2, <4>2, <4>3, <4>4
    <3> QED BY <3>3, <3>4
  <2> QED BY <1>2, <2>4 DEF BudgetInv
<1> QED BY <1>3, <1>4 DEF record_failure

LEMMA NextBudget ==
    ASSUME TypeInv, CopyInv, BatchInv, FreshInv, BudgetInv, [Next]_vars
    PROVE  BudgetInv'
<1> SUFFICES ASSUME Stage6Serial PROVE BudgetInv' BY DEF BudgetInv
<1>1. ASSUME NEW r \in Rows, Stage(r) \/ stage_threw(r) PROVE BudgetInv'
  BY <1>1, QuietStage, CallBudget, FailBudget, RecordBudget DEF Stage
<1>2. ASSUME NEW p \in Staff, Request(p) \/ Handle(p) \/ request_failed(p)
      PROVE  BudgetInv'
  BY <1>2, QuietRequest, StopBudget, StopStoreBudget, RetryBudget, RequeueBudget
     DEF Request, Handle
<1>3. CASE UNCHANGED vars
  BY <1>3 DEF vars, queueVars, worldVars, boundVars, BudgetInv, Granted, Left, After,
     Credit, Owing, Overrun, Longest, Rested, Awake, Requeuers, Stoppers, Ending,
     is_terminal_success
<1> QED BY <1>1, <1>2, <1>3, ClaimBudget, WorldBudget DEF Next

\* Under the gate the retry budget bounds the copy calls made for an AIP, whatever
\* rows stand for it, through shutdowns, crashes, failed reads and writes, retries
\* and stops (aip_store.js, _record_failure).
THEOREM BudgetHolds == Spec => []BudgetKept
<1> DEFINE Inv == TypeInv /\ CopyInv /\ BatchInv /\ FreshInv /\ BudgetInv
<1>1. Init => Inv
  <2> SUFFICES ASSUME Init PROVE Inv OBVIOUS
  <2>1. TypeInv BY InitTypes
  <2>2. \A r \in Rows : ~Running(r) /\ ~Opened(r) /\ task[r].pc # "record" /\ ~Owing(r)
    BY IdleTyped DEF Init, Running, Opened, Owing
  <2>3. CopyInv /\ BatchInv /\ FreshInv
    BY <2>2, IdleTyped DEF Init, CopyInv, BatchInv, FreshInv
  <2>4. ASSUME NEW a \in Aips PROVE calls[a] + Left(a) <= Granted(a) + Credit(a)
    <3>1. Requeuers(a) = {} /\ Stoppers(a) = {}
      BY IdleTyped DEF Init, Requeuers, Stoppers
    <3>2. Cardinality(Requeuers(a)) = 0 /\ Cardinality(Stoppers(a)) = 0
      BY <3>1, FS_EmptySet
    <3>3. Longest \in Nat /\ Longest * 1 = Longest /\ (Longest - 1) * 0 = 0 BY LongestFacts
    <3>4. Ending = 0 /\ calls[a] = 0 /\ 1 + faults + ops = 1 BY DEF Init, Ending
    <3>5. Credit(a) = 0 BY <2>2 DEF Credit
    <3>6. Granted(a) = Longest + Cardinality(Rested(a))
      BY <3>2, <3>3, <3>4, CountFacts DEF Granted
    <3>7. Left(a) \in Nat /\ Left(a) <= Longest BY <2>1, LeftFacts
    <3> QED BY <3>3, <3>4, <3>5, <3>6, <3>7, CountFacts
  <2> QED BY <2>1, <2>2, <2>3, <2>4 DEF BudgetInv
<1>2. Inv /\ [Next]_vars => Inv' BY NextTypes, NextOne, NextBatch, NextFresh, NextBudget
<1>3. Inv => BudgetKept
  <2> SUFFICES ASSUME Inv, Stage6Serial, NEW a \in Aips
               PROVE  calls[a] < Longest * (1 + faults + ops)
                                   + Cardinality({r \in Rows : sip[r] = a})
    BY DEF BudgetKept
  <2> DEFINE S == {r \in Rows : sip[r] = a}
             g == Longest * (1 + faults + ops)
  <2>1. calls[a] + Left(a) <= Granted(a) + Credit(a) BY DEF BudgetInv
  <2>2. IsFiniteSet(S) /\ Cardinality(S) \in Nat
    <3>1. S \subseteq Rows OBVIOUS
    <3>2. IsFiniteSet(S) BY <3>1, StaffFinite, FS_Subset
    <3> QED BY <3>2, FS_CardinalityType
  <2>3. Rested(a) \subseteq S /\ Cardinality(Rested(a)) \in Nat
    BY CountFacts DEF Rested
  <2>4. /\ Cardinality(Rested(a)) <= Cardinality(S)
        /\ Rested(a) # S => Cardinality(Rested(a)) + 1 <= Cardinality(S)
    BY <2>2, <2>3, CardGrows
  <2>5. Credit(a) = 1 => Rested(a) # S
    <3> SUFFICES ASSUME Credit(a) = 1 PROVE Rested(a) # S OBVIOUS
    <3>1. PICK r \in Rows : sip[r] = a /\ Owing(r) BY DEF Credit
    <3>2. Awake(r) BY <3>1 DEF Awake, Owing
    <3> QED BY <3>1, <3>2 DEF Rested
  <2>6. Granted(a) <= g + Cardinality(Rested(a))
    <3>1. /\ Longest \in Nat /\ Longest >= 2 /\ Cardinality(Requeuers(a)) \in Nat
          /\ Cardinality(Stoppers(a)) \in Nat
      BY LongestFacts, CountFacts
    <3> DEFINE m == (Longest - 1) * Cardinality(Stoppers(a))
    <3>2. m \in Nat BY <3>1
    <3>3. g \in Int /\ Ending \in {0, 1} BY <3>1 DEF TypeInv, BoundTypes, Ending
    <3>4. Granted(a) = g + Cardinality(Rested(a)) - Cardinality(Requeuers(a)) - m - Ending
      BY DEF Granted
    <3> HIDE DEF g, m
    <3> QED BY <2>3, <3>1, <3>2, <3>3, <3>4
  <2>7. g \in Int /\ Granted(a) \in Int /\ Left(a) \in Nat /\ 1 <= Left(a)
        /\ Credit(a) \in {0, 1} /\ calls[a] \in Nat
    BY LongestFacts, GrantedType, LeftFacts DEF TypeInv, BoundTypes, WorldTypes, Credit
  <2> HIDE DEF g, S
  <2>8. CASE Credit(a) = 1
    <3>1. Cardinality(Rested(a)) + 1 <= Cardinality(S) BY <2>4, <2>5, <2>8
    <3>2. calls[a] < g + Cardinality(S) BY <2>1, <2>2, <2>3, <2>6, <2>7, <2>8, <3>1
    <3> QED BY <3>2 DEF g, S
  <2>9. CASE Credit(a) = 0
    <3>2. calls[a] < g + Cardinality(S) BY <2>1, <2>2, <2>3, <2>4, <2>6, <2>7, <2>9
    <3> QED BY <3>2 DEF g, S
  <2> QED BY <2>7, <2>8, <2>9
<1> QED BY <1>1, <1>2, <1>3, PTL DEF Spec
=============================================================================
