-------------------------- MODULE MCDisplayRecord --------------------------
(***************************************************************************)
(* The instance of DisplayRecord that TLC checks.                          *)
(***************************************************************************)
EXTENDS DisplayRecord, TLC

Interchangeable == Permutations(Refreshers)
=============================================================================
