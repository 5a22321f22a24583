--------------------------- MODULE SearchIndex ----------------------------
(***************************************************************************)
(* The Elasticsearch indexer (src/indexer/) on top of the repository: a    *)
(* tick claims dirty rows by clearing is_updated, writes them in one bulk  *)
(* call and records each item's result.  setInterval starts a tick whether *)
(* or not the last one has returned.  The index is a document per pid: the *)
(* version and the parent of the row it was built from.                    *)
(***************************************************************************)
EXTENDS Repository

CONSTANTS
    NumTicks,    \* ticks that may overlap; 0: the indexer is disabled
    BatchSize,   \* INDEXER_CONCURRENCY
    MaxAttempts, \* INDEXER_MAX_ATTEMPTS
    Rebuilds     \* TRUE: an administrator may drop and rebuild the index

ASSUME IndexAssumption ==
    /\ NumTicks \in Nat /\ BatchSize \in Nat \ {0}
    /\ MaxAttempts \in Nat \ {0} /\ Rebuilds \in BOOLEAN

VARIABLES
    es,       \* pid -> its document, or NoDoc
    present,  \* the index exists
    ensured,  \* the worker has seen it exist since it started
    cooldown, \* the backoff after a failed ensure_index
    ticks,    \* tick -> its step and the rows it has claimed
    admin,    \* the step of rebuild_index
    rejected, \* pid -> rejections of its items since its attempts were reset
    dropped,  \* pids whose claim a crash or a failed write has lost
    doubled,  \* pids that two ticks have held at once
    lost      \* the index was deleted and the rows are not yet reset

indexVars == <<es, present, ensured, cooldown, ticks, admin, rejected, dropped, doubled, lost>>
vars == <<repoVars, indexVars>>

Ticks == 1..NumTicks
NoDoc == [ver |-> 0, parent |-> Root, here |-> FALSE]
Doc(r) == [ver |-> r.ver, parent |-> r.parent, here |-> TRUE]
Eligible(r) == r.published /\ r.active

(* What the index should hold for a row: index it or delete it. *)
build_op(r) == IF Eligible(r) THEN Doc(r) ELSE NoDoc

IdleTick == [step |-> "idle", ops |-> <<>>, failed |-> {}]

IndexInit ==
    /\ es = [p \in Pids |-> build_op(rows[p])]
    /\ present = TRUE /\ ensured = FALSE /\ cooldown = FALSE
    /\ ticks = [t \in Ticks |-> IdleTick]
    /\ admin = "idle"
    /\ rejected = [p \in Pids |-> 0]
    /\ dropped = {} /\ doubled = {} /\ lost = FALSE

Init == RepositoryInit /\ IndexInit

-----------------------------------------------------------------------------
(* The first ticks make sure the index exists; one attempt at a time, with  *)
(* a cooldown after a failure.                                              *)
Step(t, step) == ticks' = [ticks EXCEPT ![t].step = step]
Ensuring == \E t \in Ticks : ticks[t].step = "ensure"

tick(t) ==
    /\ ticks[t].step = "idle"
    /\ IF ensured THEN Step(t, "claim")
       ELSE ~Ensuring /\ ~cooldown /\ Step(t, "ensure")
    /\ ensured => \E p \in Pids : rows[p].updated
    /\ UNCHANGED <<repoVars, es, present, ensured, cooldown, admin, rejected, dropped, doubled, lost>>

ensure_index(t) ==
    /\ ticks[t].step = "ensure"
    /\ \/ /\ present' = TRUE /\ ensured' = TRUE /\ Step(t, "claim")
          /\ UNCHANGED <<cooldown, faults>>
       \/ /\ faults < MaxFaults /\ faults' = faults + 1
          /\ cooldown' = TRUE /\ Step(t, "idle")
          /\ UNCHANGED <<present, ensured>>
    /\ UNCHANGED <<rows, staff, aipAsked, crossed, byObject, ops,
                   es, admin, rejected, dropped, doubled, lost>>

CooldownEnds ==
    /\ cooldown /\ cooldown' = FALSE
    /\ UNCHANGED <<repoVars, es, present, ensured, ticks, admin, rejected, dropped, doubled, lost>>

(* Up to BatchSize dirty rows, oldest first; is_updated is cleared with the *)
(* claim, in one transaction.                                               *)
DirtyRows_mutant == {p \in Pids : rows[p].updated /\ Eligible(rows[p])}
DirtyRows == {p \in Pids : rows[p].updated}
Older(p) == {q \in DirtyRows : q < p}
Candidates == {p \in DirtyRows : Cardinality(Older(p)) < BatchSize}
Held(t) == DOMAIN ticks[t].ops
HeldByOther(t) == UNION {Held(u) : u \in Ticks \ {t}}

claim_dirty(t) ==
    /\ ticks[t].step = "claim"
    /\ IF Candidates = {} THEN Step(t, "idle")
       ELSE ticks' = [ticks EXCEPT ![t] =
              [step |-> "bulk", failed |-> {},
               ops |-> [p \in Candidates |-> build_op(rows[p])]]]
    /\ rows' = [p \in Pids |->
         IF p \in Candidates THEN [rows[p] EXCEPT !.updated = FALSE] ELSE rows[p]]
    /\ doubled' = doubled \cup (Candidates \cap HeldByOther(t))
    /\ dropped' = dropped \ Candidates
    /\ UNCHANGED <<staff, aipAsked, crossed, byObject, ops, faults,
                   es, present, ensured, cooldown, admin, rejected, lost>>

(* The bulk call: items are independent, so some may be rejected; or the    *)
(* call throws, whether or not it arrived.  An absent index is created by   *)
(* the write.                                                               *)
Writes_es(t, S) ==
    es' = [p \in Pids |-> IF p \in S THEN ticks[t].ops[p] ELSE es[p]]
Rejections(t) == IF faults < MaxFaults THEN SUBSET Held(t) ELSE {{}}

bulk_write(t) ==
    /\ ticks[t].step = "bulk"
    /\ \/ \E bad \in Rejections(t) :
            /\ Writes_es(t, Held(t) \ bad)
            /\ rejected' = [p \in Pids |-> IF p \in bad THEN rejected[p] + 1 ELSE rejected[p]]
            /\ faults' = IF bad = {} THEN faults ELSE faults + 1
            /\ ticks' = [ticks EXCEPT ![t].step = "mark", ![t].failed = bad]
       \/ /\ faults < MaxFaults /\ faults' = faults + 1
          /\ \E arrived \in {Held(t), {}} : Writes_es(t, arrived)
          /\ Step(t, "requeue")
          /\ UNCHANGED rejected
    /\ present' = TRUE
    /\ UNCHANGED <<rows, staff, aipAsked, crossed, byObject, ops,
                   ensured, cooldown, admin, dropped, doubled, lost>>

(* The rows of a call that threw are blameless: no attempt is counted. *)
Requeued_mutant(r) == [r EXCEPT !.updated = r.attempts + 1 < MaxAttempts,
                                !.attempts = @ + 1, !.error = r.attempts + 1 >= MaxAttempts]
Requeued(r) == [r EXCEPT !.updated = TRUE]

requeue_bulk(t) ==
    /\ ticks[t].step = "requeue"
    /\ \/ /\ rows' = [p \in Pids |->
               IF p \in Held(t) THEN Requeued(rows[p]) ELSE rows[p]]
          /\ UNCHANGED <<dropped, faults>>
       \/ /\ faults < MaxFaults /\ faults' = faults + 1
          /\ dropped' = dropped \cup Held(t)
          /\ UNCHANGED rows
    /\ ticks' = [ticks EXCEPT ![t] = IdleTick]
    /\ UNCHANGED <<staff, aipAsked, crossed, byObject, ops,
                   es, present, ensured, cooldown, admin, rejected, doubled, lost>>

(* A rejected item is tried again, until its attempts are used up: then it  *)
(* is parked with its error.                                                *)
Cleared(r) == [r EXCEPT !.attempts = 0, !.error = FALSE]
record_failure(r) ==
    LET n == r.attempts + 1 IN
    IF n >= MaxAttempts
    THEN [r EXCEPT !.attempts = n, !.updated = FALSE, !.error = TRUE]
    ELSE [r EXCEPT !.attempts = n, !.updated = TRUE]
mark_written_mutant(doc, r) == [Cleared(r) EXCEPT !.indexed = doc.here, !.updated = FALSE]
mark_written(doc, r) == [Cleared(r) EXCEPT !.indexed = doc.here]

mark_results(t) ==
    /\ ticks[t].step = "mark"
    /\ LET failed == ticks[t].failed
           written == Held(t) \ failed
       IN \E lose \in IF failed # {} /\ faults < MaxFaults THEN BOOLEAN ELSE {FALSE} :
            /\ rows' = [p \in Pids |->
                 IF p \in written THEN mark_written(ticks[t].ops[p], rows[p])
                 ELSE IF p \in failed /\ ~lose THEN record_failure(rows[p])
                 ELSE rows[p]]
            /\ rejected' = [p \in Pids |-> IF p \in written THEN 0 ELSE rejected[p]]
            /\ dropped' = IF lose THEN dropped \cup failed ELSE dropped
            /\ faults' = IF lose THEN faults + 1 ELSE faults
    /\ ticks' = [ticks EXCEPT ![t] = IdleTick]
    /\ UNCHANGED <<staff, aipAsked, crossed, byObject, ops,
                   es, present, ensured, cooldown, admin, doubled, lost>>

(* The process dies, or stop() gives up waiting; start() finds no ticks.    *)
restart ==
    /\ cut
    /\ ticks' = [t \in Ticks |-> IdleTick]
    /\ dropped' = dropped \cup UNION {Held(t) : t \in Ticks}
    /\ ensured' = FALSE /\ cooldown' = FALSE /\ admin' = "idle"
    /\ UNCHANGED <<es, present, rejected, doubled, lost>>

-----------------------------------------------------------------------------
(* The administrator's actions. *)
Unrecorded(p) == Cardinality({t \in Ticks : ticks[t].step = "mark" /\ p \in ticks[t].failed})
Retried(S) ==
    /\ rows' = [p \in Pids |-> IF p \in S THEN Dirty(Cleared(rows[p])) ELSE rows[p]]
    /\ rejected' = [p \in Pids |-> IF p \in S THEN Unrecorded(p) ELSE rejected[p]]
AdminAsks ==
    /\ Rebuilds /\ ops < MaxOps /\ ops' = ops + 1
    /\ UNCHANGED <<staff, aipAsked, crossed, byObject, faults>>
EligibleRows == {p \in Pids : Eligible(rows[p])}

mark_dirty_all == Retried(EligibleRows)
mark_dirty_collection(c) == Retried({p \in EligibleRows : rows[p].parent = c})
mark_dirty_pid(p) == Exists(p) /\ Retried({p})
requeue_dead_lettered == Retried({p \in Pids : rows[p].error})

mark_dirty ==
    /\ AdminAsks
    /\ \/ mark_dirty_all
       \/ \E p \in Pids : mark_dirty_collection(p) \/ mark_dirty_pid(p)
       \/ requeue_dead_lettered
    /\ UNCHANGED <<es, present, ensured, cooldown, ticks, admin, dropped, doubled, lost>>

delete_index ==
    /\ admin = "idle"
    /\ AdminAsks
    /\ es' = [p \in Pids |-> NoDoc]
    /\ present' = FALSE /\ lost' = TRUE /\ admin' = "ensure"
    /\ UNCHANGED <<rows, ensured, cooldown, ticks, rejected, dropped, doubled>>

rebuild_ensure ==
    /\ admin = "ensure"
    /\ \/ present' = TRUE /\ admin' = "reset" /\ UNCHANGED faults
       \/ /\ faults < MaxFaults /\ faults' = faults + 1
          /\ admin' = "idle" /\ UNCHANGED present
    /\ UNCHANGED <<rows, staff, aipAsked, crossed, byObject, ops,
                   es, ensured, cooldown, ticks, rejected, dropped, doubled, lost>>

reset_all_index_state ==
    /\ admin = "reset"
    /\ rows' = [p \in Pids |-> IF p \in EligibleRows
                               THEN [Dirty(Cleared(rows[p])) EXCEPT !.indexed = FALSE]
                               ELSE rows[p]]
    /\ rejected' = [p \in Pids |-> IF p \in EligibleRows THEN Unrecorded(p) ELSE rejected[p]]
    /\ admin' = "idle" /\ lost' = FALSE
    /\ UNCHANGED <<staff, aipAsked, crossed, byObject, ops, faults,
                   es, present, ensured, cooldown, ticks, dropped, doubled>>

-----------------------------------------------------------------------------
Repository_steps == (\E s \in Staff : Checks(s) \/ Writes(s)) /\ UNCHANGED indexVars
Work(t) == ensure_index(t) \/ claim_dirty(t) \/ bulk_write(t) \/ requeue_bulk(t) \/ mark_results(t)
Next ==
    \/ Repository_steps
    \/ \E t \in Ticks : tick(t) \/ Work(t)
    \/ CooldownEnds \/ restart
    \/ mark_dirty \/ delete_index \/ rebuild_ensure \/ reset_all_index_state

Spec == Init /\ [][Next]_vars

(* The interval keeps firing while the process runs, a call that was made   *)
(* returns and the clock runs; staff and faults come and go as they like.   *)
FairSpec ==
    /\ Spec
    /\ WF_vars(CooldownEnds)
    /\ WF_vars(rebuild_ensure \/ reset_all_index_state)
    /\ \A s \in Staff : WF_vars(Writes(s) /\ UNCHANGED indexVars)
    /\ \A t \in Ticks : WF_vars(tick(t)) /\ WF_vars(Work(t))

-----------------------------------------------------------------------------
TypeOK ==
    /\ rows \in [Pids -> [kind : {"none", "collection", "object"}, parent : {Root} \cup Pids,
                          uri : {NoUri} \cup Uris, published : BOOLEAN, active : BOOLEAN,
                          updated : BOOLEAN, indexed : BOOLEAN, attempts : Nat,
                          error : BOOLEAN, ver : Nat]]
    /\ \A t \in Ticks : Held(t) \subseteq Pids /\ ticks[t].failed \subseteq Held(t)
    /\ \A p \in Pids : es[p].here => present
    /\ aipAsked \subseteq Pids

(* The index tells the truth: a row that is not dirty, not in a tick's      *)
(* hands and not parked has exactly its document, with the flag that says   *)
(* so, or none.  Excepted are the rows whose claim was lost with the        *)
(* process or a failed write, those two overlapping ticks have held, and    *)
(* all of them between delete_index and the reset (claim_dirty,             *)
(* src/indexer/model.js:65; process_batch, src/indexer/worker.js:71).       *)
Settled(p) ==
    /\ Exists(p) /\ ~rows[p].updated /\ ~rows[p].error
    /\ \A t \in Ticks : p \notin Held(t)
Truthful(p) == es[p] = build_op(rows[p]) /\ rows[p].indexed = es[p].here
Excepted(p) == lost \/ p \in dropped \/ p \in doubled
InSync ==
    /\ TypeOK
    /\ \A p \in Pids : Settled(p) /\ ~Excepted(p) => Truthful(p)

(* An outage does not park rows: index_error is set only on a row whose     *)
(* items Elasticsearch rejected MaxAttempts times since its attempts were   *)
(* last reset (src/indexer/worker.js:63).                                   *)
OnlyPoisonIsParked ==
    \A p \in Pids : rows[p].error => rejected[p] >= MaxAttempts \/ p \in doubled

(* Whatever staff, outages, restarts and rebuilds do, every row comes to    *)
(* rest: in sync, parked with its error, or in one of the excepted cases    *)
(* (tick, src/indexer/worker.js:159).                                       *)
Converges ==
    \A p \in Pids : []<>(~Exists(p) \/ rows[p].error \/ Excepted(p)
                         \/ (Settled(p) /\ Truthful(p)))

=============================================================================
