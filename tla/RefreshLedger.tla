---------------------------- MODULE RefreshLedger ----------------------------
(***************************************************************************)
(* What a system-wide metadata refresh promises, without rows, cursors and *)
(* ticks (metadata/batches.js): a batch is started over the objects past a *)
(* point, takes them in any portions, and may report itself completed only *)
(* when it has taken every one of them.  A batch that is being cancelled   *)
(* ends cancelled.                                                         *)
(***************************************************************************)
CONSTANTS Objects, Batches

VARIABLES
    phase,   \* of each batch
    due,     \* the objects it was started over
    taken    \* the objects queued for it

vars == <<phase, due, taken>>

Init ==
    /\ phase = [b \in Batches |-> "none"]
    /\ due = [b \in Batches |-> {}]
    /\ taken = [b \in Batches |-> {}]

StartBatch(b) ==
    /\ phase[b] = "none"
    /\ \E objs \in SUBSET Objects : due' = [due EXCEPT ![b] = objs]
    /\ phase' = [phase EXCEPT ![b] = "running"]
    /\ UNCHANGED taken

\* A late portion may follow a cancel.
Take(b) ==
    /\ phase[b] # "none"
    /\ \E objs \in SUBSET due[b] : taken' = [taken EXCEPT ![b] = @ \cup objs]
    /\ UNCHANGED <<phase, due>>

Complete(b) ==
    /\ phase[b] = "running" /\ taken[b] = due[b]
    /\ phase' = [phase EXCEPT ![b] = "completed"]
    /\ UNCHANGED <<due, taken>>

\* The request may have seen a batch that completes before it acts.
RequestCancel(b) ==
    /\ phase[b] \in {"running", "completed"}
    /\ phase' = [phase EXCEPT ![b] = "cancelling"]
    /\ UNCHANGED <<due, taken>>

Cancel(b) ==
    /\ phase[b] = "cancelling"
    /\ phase' = [phase EXCEPT ![b] = "cancelled"]
    /\ UNCHANGED <<due, taken>>

Next == \E b \in Batches :
            StartBatch(b) \/ Take(b) \/ Complete(b) \/ RequestCancel(b) \/ Cancel(b)

Spec == Init /\ [][Next]_vars
=============================================================================
