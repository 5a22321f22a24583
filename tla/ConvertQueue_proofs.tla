------------------------ MODULE ConvertQueue_proofs ------------------------
(***************************************************************************)
(* Proofs about ConvertQueue, for any number of rows, any naming of their  *)
(* derivatives, any budgets, and any number of stops, crashes and failed   *)
(* writes: its types, and the invariants of its run.                       *)
(***************************************************************************)
EXTENDS ConvertQueue, TLAPS

-----------------------------------------------------------------------------
(* The invariant *)

Steps == {"idle", "claim", "post", "verify", "stopping", "down"}
QueueRecords == [status : STATUS, attempts : 0..MaxAttempts]
WorkerRecords == [step : Steps, row : {None} \cup Rows, attempts : Nat, aborted : BOOLEAN]

\* A row that has not failed has an attempt left.
QueueTypes ==
    /\ queue \in [Rows -> QueueRecords]
    /\ \A r \in Rows : queue[r].status # "FAILED" => queue[r].attempts < MaxAttempts
WorldTypes ==
    /\ image \in [Images -> {"missing", "empty", "ok"}]
    /\ converting \subseteq Rows /\ posts \in [Rows -> Nat]
    /\ derivative_name \in [Rows -> Images]
WorkerTypes ==
    /\ worker \in WorkerRecords /\ awaiting \in {None} \cup Rows
    /\ checks \in 0..MaxChecks - 1
    /\ restarts \in Nat /\ faults \in Nat

\* What the worker holds: the row it posts is another than the one it awaits,
\* and its copy of the attempts is the row's.
Hands ==
    /\ worker.step = "post" =>
         /\ worker.row \in Rows /\ worker.row # awaiting
         /\ queue[worker.row].status = "IN_PROGRESS"
         /\ worker.attempts = queue[worker.row].attempts
    /\ worker.step \in {"idle", "claim", "verify"} => worker.row = None
    /\ worker.step = "verify" => awaiting # None
    /\ worker.step = "down" => awaiting = None
    /\ awaiting # None => queue[awaiting].status = "IN_PROGRESS"

TypeInv == QueueTypes /\ WorldTypes /\ WorkerTypes /\ Hands

\* A row in progress may have been posted once without an attempt being spent
\* on it yet; a complete row was.  Once the process is on its way down the
\* restart has been counted, and stands for that post.
Posting(r) == worker.step = "post" /\ worker.row = r
Closing == worker.step \in {"stopping", "down"} \/ worker.aborted
Spent(r) == queue[r].attempts + restarts
RowBudget(r) ==
    /\ posts[r] <= Spent(r) + 1
    /\ queue[r].status \notin {"IN_PROGRESS", "COMPLETE"} => posts[r] <= Spent(r)
    /\ queue[r].status = "IN_PROGRESS" /\ (Closing \/ Posting(r)) => posts[r] <= Spent(r)
    /\ Posting(r) /\ worker.aborted => posts[r] + 1 <= Spent(r)
Budget == \A r \in Rows : RowBudget(r)

\* An image comes of a post; while a row's only post is being converted, and no
\* other row of its name was posted, there is none.
SoleClaim(r) ==
    /\ posts[r] <= 1
    /\ \A q \in Rows \ {r} : derivative_name[q] = derivative_name[r] => posts[q] = 0
Seen(r) == queue[r].status = "COMPLETE" /\ r \notin unchecked
Converted(r) ==
    /\ posts[r] > 0 /\ image[derivative_name[r]] # "missing"
    /\ SoleClaim(r) => image[derivative_name[r]] = "ok"
Pictures ==
    /\ \A r \in converting : posts[r] > 0
    /\ \A x \in Images : image[x] # "missing" =>
          \E q \in Rows : derivative_name[q] = x /\ posts[q] > 0
    /\ \A r \in converting : SoleClaim(r) => image[derivative_name[r]] = "missing"
    /\ \A r \in Rows : Seen(r) => Converted(r)
    /\ awaiting # None => posts[awaiting] > 0

-----------------------------------------------------------------------------
(* Writes *)

LEMMA NoneIsNoRow == None \notin Rows
  BY ConvertAssumption DEF None, Rows

(* A row written whole keeps the types of the queue, if the record does.    *)
LEMMA RowWritten ==
  ASSUME QueueTypes, NEW r \in Rows, NEW rec \in QueueRecords,
         rec.status # "FAILED" => rec.attempts < MaxAttempts,
         queue' = [queue EXCEPT ![r] = rec]
  PROVE  /\ QueueTypes' /\ queue'[r] = rec
         /\ \A q \in Rows \ {r} : queue'[q] = queue[q]
  BY DEF QueueTypes

(* What the settling writes make of a row in progress (model.js: a failure  *)
(* spends the attempt of the copy, the others spend none).                  *)
LEMMA CompleteWritten ==
  ASSUME QueueTypes, NEW r \in Rows, queue[r].status = "IN_PROGRESS", mark_complete(r)
  PROVE  /\ QueueTypes' /\ \A q \in Rows \ {r} : queue'[q] = queue[q]
         /\ queue'[r].status = "COMPLETE" /\ queue'[r].attempts = queue[r].attempts
  <1> DEFINE rec == [queue[r] EXCEPT !.status = "COMPLETE"]
  <1>1. rec \in QueueRecords /\ rec.status = "COMPLETE" /\ rec.attempts = queue[r].attempts
    BY DEF QueueTypes, QueueRecords, STATUS
  <1>2. queue' = [queue EXCEPT ![r] = rec]  BY DEF mark_complete
  <1>3. rec.attempts < MaxAttempts  BY <1>1 DEF QueueTypes
  <1> QED  BY <1>1, <1>2, <1>3, RowWritten

LEMMA ReleaseWritten ==
  ASSUME QueueTypes, NEW r \in Rows, queue[r].status = "IN_PROGRESS", release(r)
  PROVE  /\ QueueTypes' /\ \A q \in Rows \ {r} : queue'[q] = queue[q]
         /\ queue'[r].status = "PENDING" /\ queue'[r].attempts = queue[r].attempts
  <1> DEFINE rec == Released(queue[r])
  <1>1. rec \in QueueRecords /\ rec.status = "PENDING" /\ rec.attempts = queue[r].attempts
    BY DEF QueueTypes, QueueRecords, STATUS, Released
  <1>2. queue' = [queue EXCEPT ![r] = rec]  BY DEF release
  <1>3. rec.attempts < MaxAttempts  BY <1>1 DEF QueueTypes
  <1> HIDE DEF rec
  <1> QED  BY <1>1, <1>2, <1>3, RowWritten

LEMMA FailureWritten ==
  ASSUME QueueTypes, NEW r \in Rows, queue[r].status = "IN_PROGRESS",
         mark_failed(r, queue[r].attempts)
  PROVE  /\ QueueTypes' /\ \A q \in Rows \ {r} : queue'[q] = queue[q]
         /\ queue'[r].status \in {"PENDING", "FAILED"}
         /\ queue'[r].attempts = queue[r].attempts + 1
  <1> DEFINE rec == Failed(queue[r].attempts)
  <1>0. queue[r].attempts \in Nat /\ queue[r].attempts < MaxAttempts
    BY DEF QueueTypes, QueueRecords
  <1>1. /\ rec \in QueueRecords /\ rec.status \in {"PENDING", "FAILED"}
        /\ rec.attempts = queue[r].attempts + 1
        /\ rec.status # "FAILED" => rec.attempts < MaxAttempts
    BY <1>0, ConvertAssumption DEF QueueRecords, STATUS, Failed
  <1>2. queue' = [queue EXCEPT ![r] = rec]  BY DEF mark_failed
  <1> HIDE DEF rec
  <1> QED  BY <1>1, <1>2, RowWritten

(* A settling write, or its loss: the other rows stay as they are, and the  *)
(* row has left its progress or is forgotten.                               *)
Settling(r) ==
    \/ Written(mark_complete(r)) \/ Written(mark_failed(r, queue[r].attempts))
    \/ Written(release(r)) \/ Lost(r)

LEMMA Settled ==
  ASSUME QueueTypes, faults \in Nat, NEW r \in Rows, queue[r].status = "IN_PROGRESS", Settling(r)
  PROVE  /\ QueueTypes' /\ faults' \in Nat
         /\ \A q \in Rows \ {r} : queue'[q] = queue[q]
         /\ forgotten \subseteq forgotten'
         /\ queue'[r].status = "IN_PROGRESS" => r \in forgotten'
         /\ queue'[r].status # "absent"
  <1>1. CASE Written(mark_complete(r))
    BY <1>1, CompleteWritten DEF Written
  <1>2. CASE Written(mark_failed(r, queue[r].attempts))
    BY <1>2, FailureWritten DEF Written
  <1>3. CASE Written(release(r))
    BY <1>3, ReleaseWritten DEF Written
  <1>4. CASE Lost(r)
    BY <1>4 DEF Lost, QueueTypes
  <1> QED  BY <1>1, <1>2, <1>3, <1>4 DEF Settling

-----------------------------------------------------------------------------
(* Types *)

LEMMA TypeInit == Init => TypeInv
  <1> SUFFICES ASSUME Init PROVE TypeInv
    OBVIOUS
  <1>1. QueueTypes
    BY ConvertAssumption DEF Init, QueueTypes, QueueRecords, STATUS
  <1>2. WorldTypes
    BY DEF Init, WorldTypes, Images, expand_row
  <1>3. WorkerTypes /\ Hands
    BY ConvertAssumption DEF Init, WorkerTypes, Hands, WorkerRecords, Steps, Resting, None
  <1> QED  BY <1>1, <1>2, <1>3 DEF TypeInv

LEMMA EnqueueTypes ==
  ASSUME TypeInv, NEW S \in SUBSET Rows, enqueue(S)
  PROVE  TypeInv'
  <1>1. QueueTypes'
    BY DEF TypeInv, QueueTypes, QueueRecords, STATUS, enqueue
  <1>2. WorldTypes' /\ WorkerTypes'
    BY DEF TypeInv, WorldTypes, WorkerTypes, enqueue, settings
  <1>3. \A r \in Rows : queue[r].status = "IN_PROGRESS" => queue'[r] = queue[r]
    BY DEF enqueue
  <1>4. Hands'
    BY <1>3 DEF TypeInv, Hands, WorkerTypes, enqueue, None
  <1> QED  BY <1>1, <1>2, <1>4 DEF TypeInv

LEMMA TickTypes == ASSUME TypeInv, tick_once PROVE TypeInv'
  BY DEF TypeInv, QueueTypes, WorldTypes, WorkerTypes, WorkerRecords, Steps, Hands, tick_once,
         Goes, settings

LEMMA ClaimTypes == ASSUME TypeInv, claim_one PROVE TypeInv'
  <1>1. CASE Pending = {}
    <2>1. worker' = Resting /\ UNCHANGED queue  BY <1>1 DEF claim_one, Ends
    <2>2. UNCHANGED <<image, converting, awaiting, checks, settings, posts, restarts, faults>>
      BY DEF claim_one
    <2> QED  BY <2>1, <2>2 DEF TypeInv, QueueTypes, WorldTypes, WorkerTypes, WorkerRecords,
                               Steps, Hands, Resting, None, settings
  <1>2. CASE Pending # {}
    <2>1. PICK r \in Pending :
            /\ queue' = [queue EXCEPT ![r].status = "IN_PROGRESS"]
            /\ worker' = [step |-> "post", row |-> r, attempts |-> queue[r].attempts,
                          aborted |-> FALSE]
      BY <1>2 DEF claim_one
    <2>2. r \in Rows /\ queue[r].status = "PENDING" /\ r # awaiting /\ r # None
      BY NoneIsNoRow DEF Pending, TypeInv, Hands
    <2> DEFINE rec == [queue[r] EXCEPT !.status = "IN_PROGRESS"]
    <2>3. rec \in QueueRecords /\ rec.status = "IN_PROGRESS" /\ rec.attempts = queue[r].attempts
          /\ rec.attempts < MaxAttempts /\ rec.attempts \in Nat
      BY <2>2 DEF TypeInv, QueueTypes, QueueRecords, STATUS
    <2>4. QueueTypes' /\ queue'[r] = rec /\ \A q \in Rows \ {r} : queue'[q] = queue[q]
      BY <2>1, <2>2, <2>3, RowWritten DEF TypeInv
    <2>5. WorldTypes' /\ WorkerTypes'
      BY <2>1, <2>2, <2>3 DEF TypeInv, WorldTypes, WorkerTypes, WorkerRecords, Steps, claim_one,
                              settings
    <2> HIDE DEF rec
    <2>6. Hands'
      BY <2>1, <2>2, <2>3, <2>4 DEF TypeInv, WorkerTypes, Hands, claim_one, None
    <2> QED  BY <2>4, <2>5, <2>6 DEF TypeInv
  <1> QED  BY <1>1, <1>2

\* What the worker does with its row: it is in progress before and another
\* than the awaited one, and the worker comes to rest or goes to stop.
LEMMA AcknowledgedTypes == ASSUME TypeInv, post_acknowledged PROVE TypeInv'
  <1> DEFINE r == worker.row
  <1>1. /\ r \in Rows /\ r # awaiting /\ queue[r].status = "IN_PROGRESS" /\ worker' = Resting
        /\ r # None
    BY NoneIsNoRow DEF post_acknowledged, TypeInv, Hands, Ends
  <1>2. WorldTypes'
    BY <1>1 DEF TypeInv, WorldTypes, post_acknowledged, Sent, Accepted, settings
  <1>3. CASE verifying
    <2>1. UNCHANGED <<queue, faults, restarts>> /\ awaiting' = r /\ checks' = 0
      BY <1>3 DEF post_acknowledged, Awaits
    <2>2. QueueTypes'  BY <2>1 DEF TypeInv, QueueTypes
    <2> HIDE DEF r
    <2>3. WorkerTypes' /\ Hands'
      BY <1>1, <2>1, ConvertAssumption
         DEF TypeInv, WorkerTypes, WorkerRecords, Steps, Resting, Hands, None
    <2> QED  BY <1>2, <2>2, <2>3 DEF TypeInv
  <1>4. CASE ~verifying
    <2>1. Settling(r) /\ UNCHANGED <<awaiting, checks, restarts>>
      BY <1>4 DEF post_acknowledged, Settling
    <2> HIDE DEF r
    <2>2. QueueTypes' /\ faults' \in Nat /\ \A q \in Rows \ {r} : queue'[q] = queue[q]
      BY <1>1, <2>1, Settled DEF TypeInv, WorkerTypes
    <2>3. WorkerTypes' /\ Hands'
      BY <1>1, <2>1, <2>2 DEF TypeInv, WorkerTypes, WorkerRecords, Steps, Resting, Hands, None
    <2> QED  BY <1>2, <2>2, <2>3 DEF TypeInv
  <1> QED  BY <1>3, <1>4

LEMMA RefusedTypes == ASSUME TypeInv, post_refused PROVE TypeInv'
  <1> DEFINE r == worker.row
  <1>1. /\ r \in Rows /\ r # awaiting /\ queue[r].status = "IN_PROGRESS" /\ worker' = Resting
        /\ r # None /\ worker.attempts = queue[r].attempts
    BY NoneIsNoRow DEF post_refused, TypeInv, Hands, Ends
  <1>2. WorldTypes'
    BY <1>1 DEF TypeInv, WorldTypes, post_refused, Sent, Accepted, settings
  <1>3. Settling(r) /\ UNCHANGED <<awaiting, checks, restarts>>
    BY <1>1 DEF post_refused, Settling
  <1> HIDE DEF r
  <1>4. QueueTypes' /\ faults' \in Nat /\ \A q \in Rows \ {r} : queue'[q] = queue[q]
    BY <1>1, <1>3, Settled DEF TypeInv, WorkerTypes
  <1>5. WorkerTypes' /\ Hands'
    BY <1>1, <1>3, <1>4 DEF TypeInv, WorkerTypes, WorkerRecords, Steps, Resting, Hands, None
  <1> QED  BY <1>2, <1>4, <1>5 DEF TypeInv

LEMMA AbortedTypes == ASSUME TypeInv, post_aborted PROVE TypeInv'
  <1> DEFINE r == worker.row
  <1>1. /\ r \in Rows /\ r # awaiting /\ queue[r].status = "IN_PROGRESS"
        /\ worker' = [worker EXCEPT !.step = "stopping"] /\ r # None
    BY NoneIsNoRow DEF post_aborted, TypeInv, Hands, Goes
  <1>2. WorldTypes'
    BY <1>1 DEF TypeInv, WorldTypes, post_aborted, Sent, Accepted, settings
  <1>3. Settling(r) /\ UNCHANGED <<awaiting, checks, restarts>>
    BY DEF post_aborted, Settling
  <1> HIDE DEF r
  <1>4. QueueTypes' /\ faults' \in Nat /\ \A q \in Rows \ {r} : queue'[q] = queue[q]
    BY <1>1, <1>3, Settled DEF TypeInv, WorkerTypes
  <1>5. WorkerTypes' /\ Hands'
    BY <1>1, <1>3, <1>4 DEF TypeInv, WorkerTypes, WorkerRecords, Steps, Hands, None
  <1> QED  BY <1>2, <1>4, <1>5 DEF TypeInv

LEMMA ConvertTypes == ASSUME TypeInv, NEW r \in Rows, convert(r) PROVE TypeInv'
  <1>1. WorldTypes'
    BY DEF TypeInv, WorldTypes, convert, settings
  <1>2. QueueTypes' /\ WorkerTypes' /\ Hands'
    BY DEF TypeInv, QueueTypes, WorkerTypes, Hands, convert
  <1> QED  BY <1>1, <1>2 DEF TypeInv

(* The verdict on the awaited row is written or lost, and nothing is        *)
(* awaited any more; or the row is looked for again.                        *)
Verdict ==
    /\ worker.step = "verify" /\ After /\ awaiting' = None /\ UNCHANGED checks
    /\ Settling(awaiting)
    /\ UNCHANGED <<image, converting, settings, posts, restarts>>
Again ==
    /\ worker.step = "verify" /\ After /\ checks + 1 < MaxChecks /\ checks' = checks + 1
    /\ UNCHANGED <<queue, awaiting, forgotten, faults, image, converting, settings, posts,
                   unchecked, restarts>>

LEMMA VerifySteps == ASSUME TypeInv, Verify PROVE Verdict \/ Again
  <1>1. CASE verify_ok
    BY <1>1 DEF verify_ok, Settles, Settling, Verdict
  <1>2. CASE verify_empty
    BY <1>2 DEF verify_empty, Settles, Settling, Verdict, AttemptsOf
  <1>3. CASE verify_unavailable
    BY <1>3 DEF verify_unavailable, Settles, Settling, Verdict
  <1>4. ASSUME NEW m \in BOOLEAN, verify_again(m) PROVE Verdict \/ Again
    <2>1. CASE checks + 1 >= MaxChecks
      BY <1>4, <2>1 DEF verify_again, Settles, Settling, Verdict, AttemptsOf
    <2>2. CASE ~(checks + 1 >= MaxChecks)
      <3>1. checks + 1 < MaxChecks
        BY <2>2, ConvertAssumption DEF TypeInv, WorkerTypes
      <3> QED  BY <1>4, <2>2, <3>1 DEF verify_again, Again
    <2> QED  BY <2>1, <2>2
  <1> QED  BY <1>1, <1>2, <1>3, <1>4 DEF Verify

LEMMA VerifyTypes == ASSUME TypeInv, Verify PROVE TypeInv'
  <1>1. worker.step = "verify" => awaiting \in Rows /\ queue[awaiting].status = "IN_PROGRESS"
    BY DEF TypeInv, Hands, WorkerTypes
  <1>2. CASE Verdict
    <2>1. QueueTypes' /\ faults' \in Nat
      BY <1>1, <1>2, Settled DEF Verdict, TypeInv, WorkerTypes
    <2>2. WorldTypes'
      BY <1>2 DEF Verdict, TypeInv, WorldTypes, settings
    <2>3. WorkerTypes' /\ Hands'
      BY <1>2, <2>1 DEF Verdict, After, Goes, TypeInv, WorkerTypes, WorkerRecords, Steps, Hands, None
    <2> QED  BY <2>1, <2>2, <2>3 DEF TypeInv
  <1>3. CASE Again
    <2>1. QueueTypes' /\ WorldTypes'
      BY <1>3 DEF Again, TypeInv, QueueTypes, WorldTypes, settings
    <2>2. WorkerTypes' /\ Hands'
      BY <1>3, ConvertAssumption
         DEF Again, After, Goes, TypeInv, WorkerTypes, WorkerRecords, Steps, Hands, None
    <2> QED  BY <2>1, <2>2 DEF TypeInv
  <1> QED  BY <1>2, <1>3, VerifySteps

LEMMA StopTypes == ASSUME TypeInv, stop PROVE TypeInv'
  <1>1. QueueTypes' /\ WorldTypes'
    BY DEF stop, TypeInv, QueueTypes, WorldTypes, settings
  <1>2. CASE worker.step \in {"idle", "claim"}
    <2>1. worker' = [worker EXCEPT !.step = "stopping"]  BY <1>2 DEF stop
    <2>2. WorkerTypes'
      BY <2>1 DEF stop, TypeInv, WorkerTypes, WorkerRecords, Steps
    <2>3. Hands'
      BY <2>1 DEF stop, TypeInv, WorkerTypes, WorkerRecords, Hands
    <2> QED  BY <1>1, <2>2, <2>3 DEF TypeInv
  <1>3. CASE worker.step \in {"post", "verify"}
    <2>1. worker' = [worker EXCEPT !.aborted = TRUE]  BY <1>3 DEF stop
    <2>2. /\ worker' \in WorkerRecords /\ worker'.step = worker.step
          /\ worker'.row = worker.row /\ worker'.attempts = worker.attempts
      BY <2>1 DEF TypeInv, WorkerTypes, WorkerRecords
    <2>3. WorkerTypes'
      BY <2>2 DEF stop, TypeInv, WorkerTypes
    <2>4. Hands'
      BY <2>2 DEF stop, TypeInv, Hands
    <2> QED  BY <1>1, <2>3, <2>4 DEF TypeInv
  <1> QED  BY <1>2, <1>3 DEF stop

LEMMA DownRecord == /\ Down \in WorkerRecords /\ Down.step = "down" /\ Down.row = None
                    /\ ~Down.aborted
  BY DEF Down, Resting, WorkerRecords, Steps, None

LEMMA StoppedTypes == ASSUME TypeInv, stopped PROVE TypeInv'
  <1>1. WorldTypes'
    BY DEF stopped, TypeInv, WorldTypes, settings
  <1>2. QueueTypes' /\ faults' \in Nat
    <2>1. CASE awaiting = None
      BY <2>1 DEF stopped, TypeInv, QueueTypes, WorkerTypes
    <2>2. CASE awaiting # None
      BY <2>2, Settled DEF stopped, Settling, TypeInv, WorkerTypes, Hands
    <2> QED  BY <2>1, <2>2
  <1>3. WorkerTypes' /\ Hands'
    <2>1. worker' = Down /\ awaiting' = None /\ checks' = 0 /\ UNCHANGED restarts
      BY DEF stopped
    <2>2. WorkerTypes'
      BY <1>2, <2>1, DownRecord, ConvertAssumption DEF TypeInv, WorkerTypes
    <2> QED  BY <2>1, <2>2, DownRecord DEF Hands
  <1> QED  BY <1>1, <1>2, <1>3 DEF TypeInv

LEMMA CrashTypes == ASSUME TypeInv, crash PROVE TypeInv'
  <1>1. QueueTypes' /\ WorldTypes'
    BY DEF crash, TypeInv, QueueTypes, WorldTypes, settings
  <1>2. WorkerTypes' /\ Hands'
    <2>1. worker' = Down /\ awaiting' = None /\ checks' = 0 /\ UNCHANGED faults
          /\ restarts' = restarts + 1
      BY DEF crash
    <2>2. WorkerTypes'
      BY <2>1, DownRecord, ConvertAssumption DEF TypeInv, WorkerTypes
    <2> QED  BY <2>1, <2>2, DownRecord DEF Hands
  <1> QED  BY <1>1, <1>2 DEF TypeInv

LEMMA StartTypes == ASSUME TypeInv, start PROVE TypeInv'
  <1>1. QueueTypes'
    BY DEF start, reset_orphaned, Released, Orphans, TypeInv, QueueTypes, QueueRecords, STATUS
  <1>2. WorldTypes'
    BY DEF start, TypeInv, WorldTypes, settings
  <1>3. WorkerTypes' /\ Hands'
    BY DEF start, reset_orphaned, TypeInv, WorkerTypes, WorkerRecords, Steps, Hands, Resting, None
  <1> QED  BY <1>1, <1>2, <1>3 DEF TypeInv

LEMMA TypeStep == TypeInv /\ [Next]_vars => TypeInv'
  <1> SUFFICES ASSUME TypeInv, [Next]_vars PROVE TypeInv'
    OBVIOUS
  <1>1. CASE UNCHANGED vars
    BY <1>1 DEF vars, settings, TypeInv, QueueTypes, WorldTypes, WorkerTypes, Hands
  <1>2. CASE Worker
    BY <1>2, TickTypes, ClaimTypes, AcknowledgedTypes, RefusedTypes, AbortedTypes, VerifyTypes,
       StoppedTypes, StartTypes DEF Worker, Post
  <1> QED
    BY <1>1, <1>2, EnqueueTypes, ConvertTypes, StopTypes, CrashTypes DEF Next

(* Every reachable state satisfies the types and what the worker may hold.  *)
THEOREM Typed == Spec => []TypeInv
  BY TypeInit, TypeStep, PTL DEF Spec

(* Every variable keeps its type (ConvertQueue, TypeOK).                    *)
THEOREM TypeCorrect == Spec => []TypeOK
  <1>1. TypeInv => TypeOK
    BY DEF TypeInv, QueueTypes, QueueRecords, WorldTypes, WorkerTypes, WorkerRecords, Hands, TypeOK
  <1> QED  BY <1>1, Typed, PTL

-----------------------------------------------------------------------------
(* No row is left in progress unattended *)

LEMMA TendedInit == Init => InProgressIsTended
  BY DEF Init, InProgressIsTended

\* The worker's row is settled as it lets go of it, and the awaited one as the
\* place is emptied; a row that loses its place to another is forgotten.
LEMMA PostTended ==
  ASSUME TypeInv, InProgressIsTended, Post
  PROVE  InProgressIsTended'
  <1> DEFINE r == worker.row
  <1>0. /\ r \in Rows /\ queue[r].status = "IN_PROGRESS" /\ worker.attempts = queue[r].attempts
        /\ worker.step # "down"
    BY DEF Post, post_acknowledged, post_refused, post_aborted, TypeInv, Hands
  <1>1. CASE post_acknowledged /\ verifying
    <2>1. /\ UNCHANGED queue /\ awaiting' = r
          /\ forgotten' = forgotten \cup ({awaiting} \ {None})
      BY <1>1 DEF post_acknowledged, Awaits
    <2>2. \A q \in Rows : q # None  BY NoneIsNoRow
    <2> QED  BY <1>0, <2>1, <2>2 DEF InProgressIsTended, Tended
  <1>2. CASE Settling(r) /\ UNCHANGED awaiting
    <2>1. /\ \A q \in Rows \ {r} : queue'[q] = queue[q]
          /\ forgotten \subseteq forgotten'
          /\ queue'[r].status = "IN_PROGRESS" => r \in forgotten'
      BY <1>0, <1>2, Settled DEF TypeInv, WorkerTypes
    <2> QED  BY <1>0, <1>2, <2>1 DEF InProgressIsTended, Tended
  <1> QED  BY <1>0, <1>1, <1>2 DEF Post, post_acknowledged, post_refused, post_aborted, Settling

LEMMA VerifyTended ==
  ASSUME TypeInv, InProgressIsTended, Verify
  PROVE  InProgressIsTended'
  <1>1. CASE Verdict
    <2>0. /\ awaiting \in Rows /\ queue[awaiting].status = "IN_PROGRESS"
          /\ worker.step # "down" /\ worker.row = None
      BY <1>1 DEF Verdict, TypeInv, Hands, WorkerTypes
    <2>1. /\ \A q \in Rows \ {awaiting} : queue'[q] = queue[q]
          /\ forgotten \subseteq forgotten'
          /\ queue'[awaiting].status = "IN_PROGRESS" => awaiting \in forgotten'
      BY <1>1, <2>0, Settled DEF Verdict, TypeInv, WorkerTypes
    <2> QED  BY <2>0, <2>1, NoneIsNoRow DEF InProgressIsTended, Tended
  <1>2. CASE Again
    <2>1. worker'.row = worker.row /\ worker.step # "down"
      BY <1>2 DEF Again, After, Goes, TypeInv, WorkerTypes, WorkerRecords
    <2>2. UNCHANGED <<queue, awaiting, forgotten>>  BY <1>2 DEF Again
    <2> QED  BY <2>1, <2>2 DEF InProgressIsTended, Tended
  <1> QED  BY <1>1, <1>2, VerifySteps

LEMMA StartTended ==
  ASSUME TypeInv, start
  PROVE  InProgressIsTended'
  <1>1. CASE reset_orphaned
    BY <1>1 DEF reset_orphaned, Orphans, Released, InProgressIsTended, TypeInv, QueueTypes,
                QueueRecords
  <1>2. CASE forgotten' = forgotten \cup Orphans /\ UNCHANGED queue
    BY <1>2 DEF Orphans, InProgressIsTended, Tended
  <1> QED  BY <1>1, <1>2 DEF start

LEMMA TendedStep == TypeInv /\ InProgressIsTended /\ [Next]_vars => InProgressIsTended'
  <1> SUFFICES ASSUME TypeInv, InProgressIsTended, [Next]_vars PROVE InProgressIsTended'
    OBVIOUS
  <1>1. CASE UNCHANGED vars
    BY <1>1 DEF vars, InProgressIsTended, Tended
  <1>2. CASE tick_once
    BY <1>2 DEF tick_once, Goes, TypeInv, WorkerTypes, WorkerRecords, InProgressIsTended, Tended
  <1>3. CASE claim_one
    <2>1. CASE Pending = {}
      BY <1>3, <2>1, NoneIsNoRow
         DEF claim_one, Ends, Resting, TypeInv, Hands, InProgressIsTended, Tended
    <2>2. CASE Pending # {}
      <3>1. PICK r \in Pending :
              queue' = [queue EXCEPT ![r].status = "IN_PROGRESS"] /\ worker'.row = r
        BY <1>3, <2>2 DEF claim_one
      <3>2. r \in Rows /\ worker.row = None /\ worker.step # "down"
            /\ UNCHANGED <<awaiting, forgotten>>
        BY <1>3 DEF claim_one, Pending, TypeInv, Hands
      <3>3. \A q \in Rows \ {r} : queue'[q] = queue[q]
        BY <3>1, <3>2 DEF TypeInv, QueueTypes
      <3> QED  BY <3>1, <3>2, <3>3, NoneIsNoRow DEF InProgressIsTended, Tended
    <2> QED  BY <2>1, <2>2
  <1>4. CASE stopped \/ crash
    BY <1>4, DownRecord DEF stopped, crash, InProgressIsTended
  <1>5. ASSUME NEW S \in SUBSET Rows, enqueue(S) PROVE InProgressIsTended'
    BY <1>5 DEF enqueue, TypeInv, QueueTypes, QueueRecords, InProgressIsTended, Tended
  <1>6. ASSUME NEW r \in Rows, convert(r) PROVE InProgressIsTended'
    BY <1>6 DEF convert, InProgressIsTended, Tended
  <1>7. CASE stop
    <2>1. worker'.row = worker.row /\ worker.step # "down" /\ UNCHANGED <<queue, awaiting, forgotten>>
      BY <1>7 DEF stop, TypeInv, WorkerTypes, WorkerRecords
    <2> QED  BY <2>1 DEF InProgressIsTended, Tended
  <1> QED
    BY <1>1, <1>2, <1>3, <1>4, <1>5, <1>6, <1>7, PostTended, VerifyTended, StartTended
       DEF Next, Worker

-----------------------------------------------------------------------------
(* The service is asked within the budget *)

LEMMA BudgetInit == Init => Budget
  BY DEF Init, Budget, RowBudget, Spent, Posting, Closing, Resting, None, Rows

LEMMA Numbers ==
  ASSUME TypeInv, NEW r \in Rows
  PROVE  posts[r] \in Nat /\ queue[r].attempts \in Nat /\ restarts \in Nat /\ Spent(r) \in Nat
  BY DEF TypeInv, QueueTypes, QueueRecords, WorldTypes, WorkerTypes, Spent

\* A row that a step leaves alone keeps its budget, when the worker neither
\* takes it up nor goes down in that step.
LEMMA LeftAlone ==
  ASSUME TypeInv, NEW r \in Rows, RowBudget(r),
         queue'[r] = queue[r], posts'[r] = posts[r], UNCHANGED restarts,
         Posting(r)' => Posting(r) /\ worker'.aborted = worker.aborted, Closing' => Closing
  PROVE  RowBudget(r)'
  BY DEF RowBudget, Spent

\* A stop or a crash counts a restart, which stands for the post it cuts.
LEMMA GoesDown ==
  ASSUME TypeInv, Budget, stop \/ crash
  PROVE  Budget'
  <1> SUFFICES ASSUME NEW r \in Rows PROVE RowBudget(r)'
    BY DEF Budget
  <1>1. /\ RowBudget(r) /\ queue'[r] = queue[r] /\ posts'[r] = posts[r]
        /\ restarts' = restarts + 1
    BY DEF Budget, stop, crash
  <1>2. Spent(r)' = Spent(r) + 1
    BY <1>1, Numbers DEF Spent
  <1>3. posts'[r] <= Spent(r)'
    BY <1>1, <1>2, Numbers DEF RowBudget
  <1>4. Posting(r)' /\ worker'.aborted => posts'[r] + 1 <= Spent(r)'
    <2>1. CASE stop
      <3>1. Posting(r)' => Posting(r) /\ queue[r].status = "IN_PROGRESS"
        BY <2>1 DEF stop, Posting, TypeInv, WorkerTypes, WorkerRecords, Hands
      <3> QED  BY <3>1, <1>1, <1>2, Numbers DEF RowBudget
    <2>2. CASE crash
      BY <2>2, DownRecord DEF crash, Posting
    <2> QED  BY <2>1, <2>2
  <1>5. posts'[r] <= Spent(r)' + 1
    BY <1>1, <1>2, <1>3, Numbers
  <1> QED  BY <1>3, <1>4, <1>5 DEF RowBudget

\* A post spends an attempt, or is still to be paid for by the verdict on it.
LEMMA PostBudget ==
  ASSUME TypeInv, Budget, Post
  PROVE  Budget'
  <1>r. PICK r \in Rows : r = worker.row
    BY DEF Post, post_acknowledged, post_refused, post_aborted, TypeInv, Hands
  <1>0. /\ queue[r].status = "IN_PROGRESS" /\ worker.attempts = queue[r].attempts
        /\ Posting(r) /\ RowBudget(r) /\ posts' = [posts EXCEPT ![r] = @ + 1] /\ UNCHANGED restarts
    BY <1>r DEF Post, post_acknowledged, post_refused, post_aborted, TypeInv, Hands, Budget, Posting,
                Sent
  <1>1. posts'[r] = posts[r] + 1 /\ \A q \in Rows \ {r} : posts'[q] = posts[q]
    BY <1>0 DEF TypeInv, WorldTypes
  <1>2. \A q \in Rows : ~Posting(q)' /\ (Closing' => Closing)
    BY NoneIsNoRow DEF Post, post_acknowledged, post_refused, post_aborted, Ends, Goes, Resting,
       TypeInv, WorkerTypes, WorkerRecords, Posting, Closing
  <1>3. Closing' => worker.aborted
    BY DEF Post, post_acknowledged, post_refused, post_aborted, Ends, Resting, Closing
  <1>4. UNCHANGED queue \/ Settling(r)
    BY <1>r, <1>0 DEF Post, post_acknowledged, post_refused, post_aborted, Settling
  <1>5. \A q \in Rows \ {r} : queue'[q] = queue[q]
    BY <1>0, <1>4, Settled DEF TypeInv, WorkerTypes
  <1>6. ASSUME NEW q \in Rows \ {r} PROVE RowBudget(q)'
    BY <1>0, <1>1, <1>2, <1>5, <1>6, LeftAlone DEF Budget
  <1>7. RowBudget(r)'
    <2>1. posts[r] <= Spent(r) /\ (worker.aborted => posts[r] + 1 <= Spent(r))
      BY <1>0 DEF RowBudget
    <2>2. CASE UNCHANGED queue
      <3>1. Spent(r)' = Spent(r)  BY <1>0, <2>2 DEF Spent
      <3> QED  BY <1>0, <1>1, <1>2, <1>3, <2>1, <2>2, <3>1, Numbers DEF RowBudget
    <2>3. CASE mark_complete(r)
      <3>1. queue'[r].status = "COMPLETE" /\ Spent(r)' = Spent(r)
        BY <1>0, <2>3, CompleteWritten DEF TypeInv, Spent
      <3> QED  BY <1>0, <1>1, <1>2, <2>1, <3>1, Numbers DEF RowBudget
    <2>4. CASE mark_failed(r, queue[r].attempts)
      <3>1. queue'[r].status \in {"PENDING", "FAILED"} /\ Spent(r)' = Spent(r) + 1
        BY <1>0, <2>4, FailureWritten, Numbers DEF TypeInv, Spent
      <3> QED  BY <1>0, <1>1, <1>2, <2>1, <3>1, Numbers DEF RowBudget
    <2>5. CASE worker.aborted /\ release(r)
      <3>1. queue'[r].status = "PENDING" /\ Spent(r)' = Spent(r)
        BY <1>0, <2>5, ReleaseWritten DEF TypeInv, Spent
      <3> QED  BY <1>0, <1>1, <1>2, <2>1, <2>5, <3>1, Numbers DEF RowBudget
    <2> QED
      BY <1>r, <1>0, <2>2, <2>3, <2>4, <2>5
         DEF Post, post_acknowledged, post_refused, post_aborted, Written, Lost
  <1> QED  BY <1>6, <1>7 DEF Budget

LEMMA VerifyBudget ==
  ASSUME TypeInv, Budget, Verify
  PROVE  Budget'
  <1>r. PICK r \in Rows : r = awaiting
    BY VerifySteps DEF Verdict, Again, TypeInv, Hands, WorkerTypes
  <1>0. /\ queue[r].status = "IN_PROGRESS" /\ RowBudget(r)
        /\ UNCHANGED <<posts, restarts>>
    BY <1>r, VerifySteps DEF Verdict, Again, TypeInv, Hands, WorkerTypes, Budget
  <1>1. \A q \in Rows : ~Posting(q)' /\ (Closing' => Closing)
    BY VerifySteps DEF Verdict, Again, After, Goes, TypeInv, WorkerTypes, WorkerRecords,
                       Posting, Closing
  <1>2. UNCHANGED queue \/ Written(mark_complete(r)) \/ Written(mark_failed(r, queue[r].attempts))
    BY <1>r DEF Verify, verify_ok, verify_empty, verify_unavailable, verify_again, Settles, Lost,
                AttemptsOf
  <1>3. \A q \in Rows \ {r} : queue'[q] = queue[q]
    BY <1>0, <1>2, Settled DEF TypeInv, WorkerTypes, Settling
  <1>4. ASSUME NEW q \in Rows, queue'[q] = queue[q] PROVE RowBudget(q)'
    BY <1>0, <1>1, <1>4, LeftAlone DEF Budget
  <1>5. RowBudget(r)'
    <2>1. CASE mark_complete(r)
      <3>1. queue'[r].status = "COMPLETE" /\ Spent(r)' = Spent(r)
        BY <1>0, <2>1, CompleteWritten DEF TypeInv, Spent
      <3> QED  BY <1>0, <1>1, <3>1, Numbers DEF RowBudget
    <2>2. CASE mark_failed(r, queue[r].attempts)
      <3>1. queue'[r].status \in {"PENDING", "FAILED"} /\ Spent(r)' = Spent(r) + 1
        BY <1>0, <2>2, FailureWritten, Numbers DEF TypeInv, Spent
      <3> QED  BY <1>0, <1>1, <3>1, Numbers DEF RowBudget
    <2> QED  BY <1>0, <1>2, <1>4, <2>1, <2>2 DEF Written
  <1> QED  BY <1>3, <1>4, <1>5 DEF Budget

\* A claim finds the row within its budget; a release is of a row that a
\* restart has been counted for.
LEMMA ClaimBudget == ASSUME TypeInv, Budget, claim_one PROVE Budget'
  <1>1. CASE Pending = {}
    <2>1. worker' = Resting /\ UNCHANGED <<queue, posts, restarts>>
      BY <1>1 DEF claim_one, Ends
    <2>2. \A q \in Rows : ~Posting(q)' /\ ~Closing'
      BY <2>1 DEF Resting, Posting, Closing
    <2> QED  BY <2>1, <2>2, LeftAlone DEF Budget
  <1>2. CASE Pending # {}
    <2>1. PICK r \in Pending :
            /\ queue' = [queue EXCEPT ![r].status = "IN_PROGRESS"]
            /\ worker' = [step |-> "post", row |-> r, attempts |-> queue[r].attempts,
                          aborted |-> FALSE]
      BY <1>2 DEF claim_one
    <2>2. r \in Rows /\ queue[r].status = "PENDING" /\ UNCHANGED <<posts, restarts>>
      BY DEF Pending, claim_one
    <2>3. /\ \A q \in Rows \ {r} : queue'[q] = queue[q]
          /\ queue'[r].attempts = queue[r].attempts
      BY <2>1, <2>2 DEF TypeInv, QueueTypes, QueueRecords
    <2>4. ~Closing' /\ \A q \in Rows \ {r} : ~Posting(q)'
      BY <2>1 DEF Closing, Posting
    <2>5. ASSUME NEW q \in Rows \ {r} PROVE RowBudget(q)'
      BY <2>2, <2>3, <2>4, <2>5, LeftAlone DEF Budget
    <2>6. RowBudget(r)'
      <3>1. Spent(r)' = Spent(r) /\ posts'[r] <= Spent(r)
        BY <2>2, <2>3 DEF Spent, Budget, RowBudget
      <3> QED  BY <2>1, <2>2, <3>1, Numbers DEF RowBudget
    <2> QED  BY <2>5, <2>6 DEF Budget
  <1> QED  BY <1>1, <1>2

LEMMA StoppedBudget == ASSUME TypeInv, Budget, stopped PROVE Budget'
  <1>0. /\ worker.step = "stopping" /\ UNCHANGED <<posts, restarts>> /\ Closing
        /\ \A q \in Rows : ~Posting(q)'
    BY DownRecord DEF stopped, Closing, Posting
  <1>1. ASSUME NEW q \in Rows, queue'[q] = queue[q] PROVE RowBudget(q)'
    BY <1>0, <1>1, LeftAlone DEF Budget
  <1>2. CASE UNCHANGED queue
    BY <1>1, <1>2 DEF Budget
  <1>3. CASE awaiting # None /\ release(awaiting)
    <2>1. PICK r \in Rows : r = awaiting
      BY <1>3 DEF TypeInv, WorkerTypes
    <2>2. queue[r].status = "IN_PROGRESS" /\ release(r)
      BY <1>3, <2>1 DEF TypeInv, Hands
    <2>3. /\ \A q \in Rows \ {r} : queue'[q] = queue[q]
          /\ queue'[r].status = "PENDING" /\ Spent(r)' = Spent(r)
      BY <1>0, <2>2, ReleaseWritten DEF TypeInv, Spent
    <2>4. RowBudget(r)'
      BY <1>0, <2>2, <2>3, Numbers DEF Budget, RowBudget
    <2> QED  BY <1>1, <2>3, <2>4 DEF Budget
  <1> QED  BY <1>2, <1>3 DEF stopped, Written, Lost

LEMMA StartBudget == ASSUME TypeInv, Budget, start PROVE Budget'
  <1>0. /\ worker.step = "down" /\ UNCHANGED <<posts, restarts>> /\ Closing
        /\ ~Closing' /\ \A q \in Rows : ~Posting(q)'
    BY DEF start, Closing, Posting, Resting
  <1> SUFFICES ASSUME NEW q \in Rows PROVE RowBudget(q)'
    BY DEF Budget
  <1>1. CASE queue'[q] = queue[q]
    BY <1>0, <1>1, LeftAlone DEF Budget
  <1>2. CASE queue[q].status = "IN_PROGRESS" /\ queue'[q] = Released(queue[q])
    <2>1. queue'[q].status = "PENDING" /\ Spent(q)' = Spent(q)
      BY <1>0, <1>2 DEF Released, TypeInv, QueueTypes, QueueRecords, Spent
    <2> QED  BY <1>0, <1>2, <2>1, Numbers DEF Budget, RowBudget
  <1> QED  BY <1>1, <1>2 DEF start, reset_orphaned, Orphans

LEMMA BudgetStep == TypeInv /\ Budget /\ [Next]_vars => Budget'
  <1> SUFFICES ASSUME TypeInv, Budget, [Next]_vars PROVE Budget'
    OBVIOUS
  <1>1. CASE UNCHANGED vars
    BY <1>1, LeftAlone DEF vars, Budget, Posting, Closing
  <1>2. CASE tick_once
    <2>1. /\ UNCHANGED <<queue, posts, restarts>> /\ (Closing' => Closing)
          /\ \A q \in Rows : ~Posting(q)'
      BY <1>2 DEF tick_once, Goes, TypeInv, WorkerTypes, WorkerRecords, Posting, Closing
    <2> QED  BY <2>1, LeftAlone DEF Budget
  <1>3. ASSUME NEW S \in SUBSET Rows, enqueue(S) PROVE Budget'
    <2> SUFFICES ASSUME NEW q \in Rows PROVE RowBudget(q)'
      BY DEF Budget
    <2>1. UNCHANGED <<worker, posts, restarts>>  BY <1>3 DEF enqueue
    <2>2. CASE queue'[q] = queue[q]
      BY <2>1, <2>2, LeftAlone DEF Budget, Posting, Closing
    <2>3. CASE queue[q].status = "absent" /\ queue'[q] = [queue[q] EXCEPT !.status = "PENDING"]
      <3>1. queue'[q].status = "PENDING" /\ Spent(q)' = Spent(q) /\ ~Posting(q)
        BY <2>1, <2>3 DEF TypeInv, QueueTypes, QueueRecords, Spent, Posting, Hands
      <3> QED  BY <2>1, <2>3, <3>1, Numbers DEF Budget, RowBudget, Posting
    <2> QED  BY <1>3, <2>2, <2>3 DEF enqueue
  <1>4. ASSUME NEW r \in Rows, convert(r) PROVE Budget'
    BY <1>4, LeftAlone DEF convert, Budget, Posting, Closing
  <1> QED
    BY <1>1, <1>2, <1>3, <1>4, GoesDown, PostBudget, VerifyBudget, ClaimBudget, StoppedBudget,
       StartBudget DEF Next, Worker

(* While the process runs, a row in progress is attended or known to be     *)
(* forgotten; the service is asked for a row at most once for each attempt  *)
(* and each restart (ConvertQueue, QueueInv).                               *)
THEOREM QueueTended == Spec => []QueueInv
  <1> DEFINE IInv == TypeInv /\ InProgressIsTended /\ Budget
  <1>1. Init => IInv
    BY TypeInit, TendedInit, BudgetInit
  <1>2. IInv /\ [Next]_vars => IInv'
    BY TypeStep, TendedStep, BudgetStep
  <1>3. IInv => PostsAreBudgeted
    <2> SUFFICES ASSUME IInv, NEW r \in Rows PROVE posts[r] <= MaxAttempts + restarts
      BY DEF PostsAreBudgeted
    <2>1. queue[r].status # "FAILED" => queue[r].attempts + 1 <= MaxAttempts
      BY Numbers, ConvertAssumption DEF TypeInv, QueueTypes
    <2>2. queue[r].status = "FAILED" => posts[r] <= Spent(r) /\ queue[r].attempts <= MaxAttempts
      BY DEF Budget, RowBudget, TypeInv, QueueTypes, QueueRecords
    <2> QED  BY <2>1, <2>2, Numbers, ConvertAssumption DEF Budget, RowBudget, Spent
  <1>4. Spec => []IInv
    BY <1>1, <1>2, PTL DEF Spec
  <1>5. IInv => InProgressIsTended /\ PostsAreBudgeted
    BY <1>3
  <1> QED  BY <1>4, <1>5, TypeCorrect, PTL DEF QueueInv

-----------------------------------------------------------------------------
(* A row reported complete has its image *)

LEMMA PicturesInit == Init => Pictures
  BY DEF Init, Pictures, Seen, Images

\* Steps that neither post, convert nor see an image.
LEMMA PicturesKept ==
  ASSUME TypeInv, Pictures, UNCHANGED <<image, converting, posts, derivative_name>>,
         awaiting' \in {None, awaiting}, \A r \in Rows : Seen(r)' => Seen(r)
  PROVE  Pictures'
  <1>1. \A r \in Rows : (SoleClaim(r)' <=> SoleClaim(r)) /\ (Converted(r)' <=> Converted(r))
    BY DEF SoleClaim, Converted
  <1> QED  BY <1>1 DEF Pictures, TypeInv, WorldTypes

\* The first post of a row that is alone with its name finds no image.
LEMMA PostPictures ==
  ASSUME TypeInv, Pictures, Post
  PROVE  Pictures'
  <1>r. PICK r \in Rows : r = worker.row
    BY DEF Post, post_acknowledged, post_refused, post_aborted, TypeInv, Hands
  <1>0. /\ queue[r].status = "IN_PROGRESS" /\ posts' = [posts EXCEPT ![r] = @ + 1]
        /\ converting' \in {converting, converting \cup {r}}
        /\ UNCHANGED <<image, derivative_name>> /\ awaiting' \in {awaiting, r}
    BY <1>r DEF Post, post_acknowledged, post_refused, post_aborted, TypeInv, Hands, Sent, Accepted,
                Awaits, settings
  <1>1. /\ posts'[r] = posts[r] + 1 /\ posts[r] \in Nat
        /\ \A q \in Rows \ {r} : posts'[q] = posts[q] /\ posts[q] \in Nat
    BY <1>0 DEF TypeInv, WorldTypes
  <1>2. \A q \in Rows \ {r} : SoleClaim(q)' => SoleClaim(q) /\ derivative_name[q] # derivative_name[r]
    BY <1>0, <1>1 DEF SoleClaim
  <1>3. SoleClaim(r)' => \A q \in Rows : derivative_name[q] = derivative_name[r] => posts[q] = 0
    BY <1>0, <1>1 DEF SoleClaim
  <1>4. SoleClaim(r)' => image[derivative_name[r]] = "missing"
    BY <1>1, <1>3 DEF Pictures, TypeInv, WorldTypes
  <1>5. \A q \in Rows : Seen(q)' => Seen(q) /\ q # r
    <2>1. UNCHANGED queue \/ Settling(r)
      BY <1>r DEF Post, post_acknowledged, post_refused, post_aborted, Settling, TypeInv, Hands
    <2>2. \A q \in Rows \ {r} : queue'[q] = queue[q]
      BY <1>0, <2>1, Settled DEF TypeInv, WorkerTypes
    <2>3. unchecked \subseteq unchecked'
      BY DEF Post, post_acknowledged, post_refused, post_aborted
    <2>4. queue'[r].status = "COMPLETE" => r \in unchecked'
      <3>1. CASE mark_complete(r) /\ post_acknowledged /\ ~verifying
        BY <1>r, <3>1 DEF post_acknowledged
      <3>2. CASE UNCHANGED queue
        BY <1>0, <3>2
      <3>3. CASE mark_failed(r, queue[r].attempts)
        BY <1>0, <3>3, FailureWritten DEF TypeInv
      <3>4. CASE release(r)
        BY <1>0, <3>4, ReleaseWritten DEF TypeInv
      <3> QED
        BY <1>r, <3>1, <3>2, <3>3, <3>4
           DEF Post, post_acknowledged, post_refused, post_aborted, Written, Lost, TypeInv, Hands
    <2> QED  BY <2>2, <2>3, <2>4 DEF Seen
  <1>6. ASSUME NEW q \in Rows, Seen(q)' PROVE Converted(q)'
    <2>1. Converted(q) /\ q # r  BY <1>5, <1>6 DEF Pictures
    <2> QED  BY <2>1, <1>0, <1>1, <1>2 DEF Converted
  <1>7. ASSUME NEW q \in converting' PROVE posts'[q] > 0 /\ (SoleClaim(q)' => image'[derivative_name'[q]] = "missing")
    <2>1. CASE q = r
      BY <1>0, <1>1, <1>4, <2>1
    <2>2. CASE q # r
      BY <1>0, <1>1, <1>2, <1>7, <2>2 DEF Pictures, TypeInv, WorldTypes
    <2> QED  BY <2>1, <2>2
  <1>8. ASSUME NEW x \in Images, image'[x] # "missing"
        PROVE  \E q \in Rows : derivative_name'[q] = x /\ posts'[q] > 0
    <2>1. PICK q \in Rows : derivative_name[q] = x /\ posts[q] > 0
      BY <1>0, <1>8 DEF Pictures
    <2>2. posts'[q] > 0  BY <1>1, <2>1
    <2> QED  BY <1>0, <2>1, <2>2
  <1>9. awaiting' # None => posts'[awaiting'] > 0
    BY <1>0, <1>1 DEF Pictures, TypeInv, WorkerTypes
  <1> QED  BY <1>6, <1>7, <1>8, <1>9 DEF Pictures

\* An image that a second conversion of its name replaces has a second claim.
LEMMA ConvertPictures ==
  ASSUME TypeInv, Pictures, NEW r \in Rows, convert(r)
  PROVE  Pictures'
  <1> DEFINE x == derivative_name[r]
  <1>0. /\ r \in converting /\ posts[r] > 0 /\ converting' = converting \ {r} /\ x \in Images
        /\ UNCHANGED <<queue, awaiting, posts, derivative_name, unchecked>>
    BY DEF convert, Pictures, settings, TypeInv, WorldTypes
  <1>1. /\ \A y \in Images \ {x} : image'[y] = image[y]
        /\ image[x] # "missing" => image'[x] # "missing"
    BY DEF convert, TypeInv, WorldTypes
  <1> HIDE DEF x
  <1>2. \A q \in Rows : SoleClaim(q)' = SoleClaim(q)
    BY <1>0 DEF SoleClaim
  <1>3. ASSUME NEW q \in Rows \ {r}, SoleClaim(q) PROVE derivative_name[q] # x
    BY <1>0, <1>3 DEF SoleClaim, x
  <1>4. ASSUME NEW q \in converting' PROVE posts'[q] > 0 /\ (SoleClaim(q)' => image'[derivative_name'[q]] = "missing")
    BY <1>0, <1>1, <1>2, <1>3, <1>4 DEF Pictures, TypeInv, WorldTypes
  <1>5. ASSUME NEW y \in Images, image'[y] # "missing"
        PROVE  \E q \in Rows : derivative_name'[q] = y /\ posts'[q] > 0
    <2>1. CASE y = x
      BY <1>0, <2>1 DEF x
    <2>2. CASE y # x
      BY <1>0, <1>1, <1>5, <2>2 DEF Pictures
    <2> QED  BY <2>1, <2>2
  <1>6. ASSUME NEW q \in Rows, Seen(q)' PROVE Converted(q)'
    <2>1. Converted(q)  BY <1>0, <1>6 DEF Pictures, Seen
    <2>2. derivative_name[q] \in Images  BY DEF TypeInv, WorldTypes
    <2>3. CASE q = r
      <3>1. ~SoleClaim(r)
        BY <1>0, <2>1, <2>3 DEF Converted, Pictures
      <3> QED  BY <1>0, <1>1, <1>2, <2>1, <2>3, <3>1 DEF Converted, x
    <2>4. CASE q # r
      BY <1>0, <1>1, <1>2, <1>3, <2>1, <2>2, <2>4 DEF Converted
    <2> QED  BY <2>3, <2>4
  <1>7. awaiting' # None => posts'[awaiting'] > 0
    BY <1>0 DEF Pictures
  <1> QED  BY <1>4, <1>5, <1>6, <1>7 DEF Pictures

LEMMA VerifyPictures ==
  ASSUME TypeInv, Pictures, Verify
  PROVE  Pictures'
  <1>r. PICK r \in Rows : r = awaiting
    BY VerifySteps DEF Verdict, Again, TypeInv, Hands, WorkerTypes
  <1>0. /\ queue[r].status = "IN_PROGRESS" /\ posts[r] > 0
        /\ awaiting' \in {None, awaiting} /\ UNCHANGED <<image, converting, posts, derivative_name>>
    BY <1>r, VerifySteps, NoneIsNoRow DEF Verdict, Again, TypeInv, Hands, Pictures, settings
  <1>1. UNCHANGED queue \/ Written(mark_complete(r)) \/ Written(mark_failed(r, queue[r].attempts))
    BY <1>r DEF Verify, verify_ok, verify_empty, verify_unavailable, verify_again, Settles, Lost,
                AttemptsOf
  <1>2. \A q \in Rows \ {r} : queue'[q] = queue[q]
    BY <1>0, <1>1, Settled DEF TypeInv, WorkerTypes, Settling
  <1>3. unchecked \subseteq unchecked'
    BY DEF Verify, verify_ok, verify_empty, verify_unavailable, verify_again
  <1>4. \A q \in Rows \ {r} : Seen(q)' => Seen(q)
    BY <1>2, <1>3 DEF Seen
  <1>5. Seen(r)' => Landed(r)
    <2>1. CASE verify_ok
      BY <1>r, <2>1 DEF verify_ok
    <2>2. CASE UNCHANGED queue
      BY <1>0, <2>2 DEF Seen
    <2>3. CASE mark_failed(r, queue[r].attempts)
      BY <1>0, <2>3, FailureWritten DEF TypeInv, Seen
    <2>4. CASE verify_unavailable
      BY <1>r, <2>4 DEF verify_unavailable, Seen
    <2> QED
      BY <1>r, <2>1, <2>2, <2>3, <2>4
         DEF Verify, verify_empty, verify_again, Settles, Written, Lost, AttemptsOf
  <1>6. \A q \in Rows : (SoleClaim(q)' <=> SoleClaim(q)) /\ (Converted(q)' <=> Converted(q))
    BY <1>0 DEF SoleClaim, Converted
  <1>7. Landed(r) => Converted(r)
    BY <1>0 DEF Landed, Converted
  <1>8. \A q \in Rows : Seen(q)' => Converted(q)'
    BY <1>4, <1>5, <1>6, <1>7 DEF Pictures
  <1> QED  BY <1>0, <1>6, <1>8 DEF Pictures, TypeInv, WorldTypes

\* A release, an orphan sweep or a claim completes no row.
LEMMA OtherPictures ==
  ASSUME TypeInv, Pictures, tick_once \/ claim_one \/ stopped \/ start \/ stop \/ crash
  PROVE  Pictures'
  <1>1. /\ UNCHANGED <<image, converting, posts, derivative_name, unchecked>>
        /\ awaiting' \in {None, awaiting}
    BY DEF tick_once, claim_one, stopped, start, stop, crash, settings
  <1>2. \A r \in Rows : queue'[r] = queue[r] \/ queue'[r].status \in {"PENDING", "IN_PROGRESS"}
    <2>1. CASE tick_once \/ stop \/ crash
      BY <2>1 DEF tick_once, stop, crash
    <2>2. CASE claim_one
      BY <2>2 DEF claim_one, Pending, TypeInv, QueueTypes, QueueRecords
    <2>3. CASE stopped
      BY <2>3 DEF stopped, Written, Lost, release, Released, TypeInv, QueueTypes, QueueRecords
    <2>4. CASE start
      BY <2>4 DEF start, reset_orphaned, Released, TypeInv, QueueTypes, QueueRecords
    <2> QED  BY <2>1, <2>2, <2>3, <2>4
  <1>3. \A r \in Rows : Seen(r)' => Seen(r)
    BY <1>1, <1>2 DEF Seen
  <1> QED  BY <1>1, <1>3, PicturesKept

LEMMA PicturesStep == TypeInv /\ Pictures /\ [Next]_vars => Pictures'
  <1> SUFFICES ASSUME TypeInv, Pictures, [Next]_vars PROVE Pictures'
    OBVIOUS
  <1>1. CASE UNCHANGED vars
    BY <1>1, PicturesKept DEF vars, settings, Seen
  <1>2. ASSUME NEW S \in SUBSET Rows, enqueue(S) PROVE Pictures'
    <2>1. \A r \in Rows : queue'[r] = queue[r] \/ queue'[r].status = "PENDING"
      BY <1>2 DEF enqueue, TypeInv, QueueTypes, QueueRecords
    <2> QED  BY <1>2, <2>1, PicturesKept DEF enqueue, settings, Seen
  <1> QED
    BY <1>1, <1>2, PostPictures, VerifyPictures, ConvertPictures, OtherPictures DEF Next, Worker

(* A row reported complete after a check has an image, and one that is      *)
(* empty has another claim on it (ConvertQueue, CompleteHasImage).          *)
THEOREM CompleteIsConverted == Spec => []CompleteHasImage
  <1> DEFINE IInv == TypeInv /\ Pictures
  <1>1. Init => IInv
    BY TypeInit, PicturesInit
  <1>2. IInv /\ [Next]_vars => IInv'
    BY TypeStep, PicturesStep
  <1>3. IInv => CompleteHasImage
    <2> SUFFICES ASSUME IInv, NEW r \in Rows, Seen(r)
                 PROVE  LET x == image[derivative_name[r]] IN
                        \/ x = "ok"
                        \/ /\ x = "empty"
                           /\ \/ posts[r] > 1
                              \/ \E q \in Rows \ {r} :
                                    derivative_name[q] = derivative_name[r] /\ posts[q] > 0
      BY DEF CompleteHasImage, Seen
    <2>1. Converted(r) /\ image[derivative_name[r]] \in {"missing", "empty", "ok"}
      BY DEF Pictures, TypeInv, WorldTypes
    <2>2. ~SoleClaim(r) => \/ posts[r] > 1
                          \/ \E q \in Rows \ {r} :
                                derivative_name[q] = derivative_name[r] /\ posts[q] > 0
      BY DEF SoleClaim, TypeInv, WorldTypes
    <2> QED  BY <2>1, <2>2 DEF Converted
  <1> QED  BY <1>1, <1>2, <1>3, PTL DEF Spec

=============================================================================
