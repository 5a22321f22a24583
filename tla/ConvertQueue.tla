---------------------------- MODULE ConvertQueue ----------------------------
(***************************************************************************)
(* The image conversion queue (src/convert/): a serial worker posts one    *)
(* file per tick to the convert service, which acknowledges before it      *)
(* converts; the next tick looks whether the derivative has landed.  The   *)
(* service names a derivative after the file's basename, so two rows may   *)
(* stand for one image.                                                    *)
(***************************************************************************)
EXTENDS Naturals, FiniteSets

CONSTANTS
    NumRows,       \* rows that may be enqueued
    MaxAttempts,   \* CONVERT_MAX_ATTEMPTS
    MaxChecks,     \* CONVERT_VERIFY_MAX_CHECKS
    MaxRestarts,   \* stops and crashes (bound of the model)
    MaxFaults      \* failed database writes (bound of the model)

ASSUME ConvertAssumption ==
    /\ NumRows \in Nat /\ MaxAttempts \in Nat \ {0} /\ MaxChecks \in Nat \ {0}
    /\ MaxRestarts \in Nat /\ MaxFaults \in Nat

VARIABLES
    queue,      \* row -> its status and attempts in tbl_convert_queue
    image,      \* derivative name -> what GET /image finds
    converting, \* rows whose conversion the service has accepted and not done
    worker,     \* the tick's step, its row and the claimed copy's attempts
    awaiting,   \* the row whose derivative the next tick looks for, or 0
    checks,     \* how often it has been looked for
    verifying,  \* CONVERT_VERIFY_ENABLED, read once
    derivative_name, \* row -> the derivative that its file becomes
    posts,      \* row -> requests that may have reached the service
    unchecked,  \* rows marked complete without their derivative being seen
    forgotten,  \* rows in progress that nothing in the process refers to
    restarts, faults

settings == <<verifying, derivative_name>>
vars == <<queue, image, converting, worker, awaiting, checks, settings, posts,
          unchecked, forgotten, restarts, faults>>

Rows == 1..NumRows
Images == Rows   \* a derivative is named for the first row that has it
None == 0
STATUS == {"absent", "PENDING", "IN_PROGRESS", "COMPLETE", "FAILED"}
Resting == [step |-> "idle", row |-> None, attempts |-> 0, aborted |-> FALSE]
Down == [Resting EXCEPT !.step = "down"]

(* The parts of a compound object are rows of their own; files that share a *)
(* basename share a derivative.                                             *)
expand_row == {name \in [Rows -> Images] : \A r \in Rows : name[r] <= r}

Init ==
    /\ queue = [r \in Rows |-> [status |-> "absent", attempts |-> 0]]
    /\ image = [x \in Images |-> "missing"]
    /\ converting = {} /\ worker = Resting /\ awaiting = None /\ checks = 0
    /\ verifying \in BOOLEAN
    /\ derivative_name \in expand_row
    /\ posts = [r \in Rows |-> 0]
    /\ unchecked = {} /\ forgotten = {} /\ restarts = 0 /\ faults = 0

-----------------------------------------------------------------------------
(* A batch is inserted in one transaction, by staff or by stage 5. *)
enqueue(S) ==
    /\ S # {} /\ \A r \in S : queue[r].status = "absent"
    /\ queue' = [r \in Rows |-> IF r \in S THEN [queue[r] EXCEPT !.status = "PENDING"] ELSE queue[r]]
    /\ UNCHANGED <<image, converting, worker, awaiting, checks, settings, posts, unchecked,
                   forgotten, restarts, faults>>

Goes(step) == worker' = [worker EXCEPT !.step = step]
Ends == worker' = Resting

tick_once ==
    /\ worker.step = "idle"
    /\ Goes(IF awaiting # None THEN "verify" ELSE "claim")
    /\ UNCHANGED <<queue, image, converting, awaiting, checks, settings, posts, unchecked,
                   forgotten, restarts, faults>>

(* Fresh work before retries. *)
Pending == {r \in Rows : queue[r].status = "PENDING"}
Before(p, q) == \/ queue[p].attempts < queue[q].attempts
                \/ queue[p].attempts = queue[q].attempts /\ p < q
claim_one ==
    /\ worker.step = "claim"
    /\ IF Pending = {} THEN Ends /\ UNCHANGED queue
       ELSE \E r \in Pending :
              /\ \A q \in Pending \ {r} : Before(r, q)
              /\ queue' = [queue EXCEPT ![r].status = "IN_PROGRESS"]
              /\ worker' = [step |-> "post", row |-> r, attempts |-> queue[r].attempts, aborted |-> FALSE]
    /\ UNCHANGED <<image, converting, awaiting, checks, settings, posts, unchecked, forgotten,
                   restarts, faults>>

(* A failure spends an attempt of the claimed copy. *)
Failed(attempts) ==
    [status |-> IF attempts + 1 >= MaxAttempts THEN "FAILED" ELSE "PENDING",
     attempts |-> attempts + 1]
mark_failed(r, attempts) == queue' = [queue EXCEPT ![r] = Failed(attempts)]
mark_complete(r) == queue' = [queue EXCEPT ![r].status = "COMPLETE"]
Released_mutant(row) == row
Released(row) == [row EXCEPT !.status = "PENDING"]
release(r) == queue' = [queue EXCEPT ![r] = Released(queue[r])]

(* A settling write that fails leaves the row in progress. *)
Lost(r) ==
    /\ faults < MaxFaults /\ faults' = faults + 1
    /\ forgotten' = forgotten \cup {r}
    /\ UNCHANGED queue
Written(write) == write /\ UNCHANGED <<forgotten, faults>>

-----------------------------------------------------------------------------
(* The POST is answered, refused or lost; or stop() aborts it.  A request   *)
(* that got no answer may have been accepted.                               *)
Sent == posts' = [posts EXCEPT ![worker.row] = @ + 1]
Accepted == converting' = converting \cup {worker.row}

(* The acknowledged row takes the one place there is for a row under        *)
(* verification, whether or not the last one was settled.                   *)
Awaits(r) ==
    /\ awaiting' = r /\ checks' = 0
    /\ forgotten' = forgotten \cup ({awaiting} \ {None})

post_acknowledged ==
    /\ worker.step = "post" /\ ~worker.aborted
    /\ Sent /\ Accepted /\ Ends
    /\ IF verifying
       THEN Awaits(worker.row) /\ UNCHANGED <<queue, unchecked, faults>>
       ELSE /\ Written(mark_complete(worker.row)) \/ Lost(worker.row)
            /\ unchecked' = unchecked \cup {worker.row}
            /\ UNCHANGED <<awaiting, checks>>
    /\ UNCHANGED <<image, settings, restarts>>

post_refused ==
    /\ worker.step = "post" /\ ~worker.aborted
    /\ Sent
    /\ Accepted \/ UNCHANGED converting
    /\ Ends
    /\ Written(mark_failed(worker.row, worker.attempts)) \/ Lost(worker.row)
    /\ UNCHANGED <<image, awaiting, checks, settings, unchecked, restarts>>

post_aborted ==
    /\ worker.step = "post" /\ worker.aborted
    /\ Sent
    /\ Accepted \/ UNCHANGED converting
    /\ Goes("stopping")
    /\ Written(release(worker.row)) \/ Lost(worker.row)
    /\ UNCHANGED <<image, awaiting, checks, settings, unchecked, restarts>>

(* The service converts in the background; it can run out of space.         *)
convert(r) ==
    /\ r \in converting
    /\ converting' = converting \ {r}
    /\ \E result \in {"ok", "empty", image[derivative_name[r]]} :
         image' = [image EXCEPT ![derivative_name[r]] = result]
    /\ UNCHANGED <<queue, worker, awaiting, checks, settings, posts, unchecked, forgotten,
                   restarts, faults>>

-----------------------------------------------------------------------------
(* Verification of the awaited row.  A retryable verdict keeps it awaited   *)
(* until the checks are used up; the tick then goes on to claim.            *)
AttemptsOf(r) == queue[r].attempts
After == IF worker.aborted THEN Goes("stopping") ELSE Goes("claim")
Settles(write) ==
    /\ After /\ awaiting' = None /\ UNCHANGED checks
    /\ write \/ Lost(awaiting)

Landed_mutant(r) == image[derivative_name[r]] # "missing"
Landed(r) == image[derivative_name[r]] = "ok"
verify_ok ==
    /\ worker.step = "verify" /\ Landed(awaiting)
    /\ Settles(Written(mark_complete(awaiting)))
    /\ UNCHANGED <<image, converting, settings, posts, unchecked, restarts>>

verify_empty ==
    /\ worker.step = "verify" /\ image[derivative_name[awaiting]] = "empty"
    /\ Settles(Written(mark_failed(awaiting, AttemptsOf(awaiting))))
    /\ UNCHANGED <<image, converting, settings, posts, unchecked, restarts>>

(* An older service, or an answer that says nothing about the file: the row *)
(* is complete without being checked.                                       *)
verify_unavailable ==
    /\ worker.step = "verify"
    /\ Settles(Written(mark_complete(awaiting)))
    /\ unchecked' = unchecked \cup {awaiting}
    /\ UNCHANGED <<image, converting, settings, posts, restarts>>

verify_again(missing) ==
    /\ worker.step = "verify"
    /\ missing => image[derivative_name[awaiting]] = "missing"
    /\ IF checks + 1 >= MaxChecks
       THEN Settles(Written(mark_failed(awaiting, AttemptsOf(awaiting))))
       ELSE /\ checks' = checks + 1 /\ After
            /\ UNCHANGED <<queue, awaiting, forgotten, faults>>
    /\ UNCHANGED <<image, converting, settings, posts, unchecked, restarts>>

-----------------------------------------------------------------------------
(* stop() aborts the request in flight, waits for the tick and releases the *)
(* awaited row.                                                             *)
stop ==
    /\ worker.step \in {"idle", "claim", "post", "verify"} /\ ~worker.aborted
    /\ restarts < MaxRestarts /\ restarts' = restarts + 1
    /\ worker' = IF worker.step \in {"idle", "claim"}
                 THEN [worker EXCEPT !.step = "stopping"]
                 ELSE [worker EXCEPT !.aborted = TRUE]
    /\ UNCHANGED <<queue, image, converting, awaiting, checks, settings, posts, unchecked,
                   forgotten, faults>>

stopped ==
    /\ worker.step = "stopping"
    /\ IF awaiting = None THEN UNCHANGED <<queue, forgotten, faults>>
       ELSE Written(release(awaiting)) \/ Lost(awaiting)
    /\ awaiting' = None /\ checks' = 0 /\ worker' = Down
    /\ UNCHANGED <<image, converting, settings, posts, unchecked, restarts>>

crash ==
    /\ worker.step # "down"
    /\ restarts < MaxRestarts /\ restarts' = restarts + 1
    /\ worker' = Down /\ awaiting' = None /\ checks' = 0
    /\ UNCHANGED <<queue, image, converting, settings, posts, unchecked, forgotten, faults>>

Orphans_mutant == {}
Orphans == {r \in Rows : queue[r].status = "IN_PROGRESS"}
reset_orphaned == queue' = [r \in Rows |-> IF r \in Orphans THEN Released(queue[r]) ELSE queue[r]]

start ==
    /\ worker.step = "down"
    /\ worker' = Resting
    /\ \/ reset_orphaned /\ forgotten' = {} /\ UNCHANGED faults
       \/ /\ faults < MaxFaults /\ faults' = faults + 1
          /\ forgotten' = forgotten \cup Orphans
          /\ UNCHANGED queue
    /\ UNCHANGED <<image, converting, awaiting, checks, settings, posts, unchecked, restarts>>

-----------------------------------------------------------------------------
Verify == verify_ok \/ verify_empty \/ verify_unavailable \/ \E m \in BOOLEAN : verify_again(m)
Post == post_acknowledged \/ post_refused \/ post_aborted
Worker == tick_once \/ claim_one \/ Post \/ Verify \/ stopped \/ start

Next ==
    \/ Worker
    \/ \E S \in SUBSET Rows : enqueue(S)
    \/ \E r \in Rows : convert(r)
    \/ stop \/ crash

Spec == Init /\ [][Next]_vars

(* The timer fires and every request ends, by its timeout if need be; the   *)
(* process is started again.  Nothing is assumed of the service.            *)
FairSpec == Spec /\ WF_vars(Worker)

-----------------------------------------------------------------------------
TypeOK ==
    /\ queue \in [Rows -> [status : STATUS, attempts : 0..MaxAttempts]]
    /\ image \in [Images -> {"missing", "empty", "ok"}]
    /\ converting \subseteq Rows /\ awaiting \in {None} \cup Rows /\ checks \in 0..MaxChecks - 1
    /\ worker.row \in {None} \cup Rows
    /\ awaiting # None => queue[awaiting].status = "IN_PROGRESS"

(* A row in progress is in the worker's hands, or the process is down, or   *)
(* it was forgotten in one of the ways that the definitions above name: so  *)
(* the queue is never blocked by a row it waits for                         *)
(* (tick_once, src/convert/worker.js:159).                                  *)
Tended == {awaiting, worker.row} \cup forgotten
InProgressIsTended ==
    worker.step # "down" => \A r \in Rows : queue[r].status = "IN_PROGRESS" => r \in Tended

(* The service is asked at most MaxAttempts times for a row, and once more  *)
(* for every restart: what a shutdown or a crash cuts costs no attempt      *)
(* (release, src/convert/model.js:324; mark_failed, :297).                  *)
PostsAreBudgeted == \A r \in Rows : posts[r] <= MaxAttempts + restarts
QueueInv == TypeOK /\ InProgressIsTended /\ PostsAreBudgeted

(* A row reported complete after a check has an image; where it is empty    *)
(* the service has been asked for the same image by another row, or again   *)
(* (verify_awaiting, src/convert/worker.js:68).                             *)
CompleteHasImage ==
    \A r \in Rows :
        queue[r].status = "COMPLETE" /\ r \notin unchecked =>
            LET x == image[derivative_name[r]] IN
            \/ x = "ok"
            \/ /\ x = "empty"
               /\ \/ posts[r] > 1
                  \/ \E q \in Rows \ {r} : derivative_name[q] = derivative_name[r] /\ posts[q] > 0

(* Every row that is enqueued is converted, fails or is forgotten, whatever *)
(* the service answers and however often the process restarts.              *)
RowsSettle ==
    \A r \in Rows :
        (queue[r].status = "PENDING") ~>
            (queue[r].status \in {"COMPLETE", "FAILED"} \/ r \in forgotten)
=============================================================================
