---------------------------- MODULE MCWorkspace ----------------------------
(***************************************************************************)
(* Two collection folders that both hold a package of one name, with its   *)
(* media file in the second only; the first has another package besides.   *)
(***************************************************************************)
EXTENDS Workspace, TLC

CONSTANTS f1, f2, p1, p2, x1, x2, s1, s2

TwoFolders ==
    {[folder |-> f1, package |-> p1, files |-> {}],
     [folder |-> f1, package |-> p2, files |-> {x2}],
     [folder |-> f2, package |-> p1, files |-> {x1}]}

Alike == Permutations({s1, s2})
=============================================================================
