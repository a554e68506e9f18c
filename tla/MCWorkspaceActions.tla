------------------------ MODULE MCWorkspaceActions ------------------------
(* Two runs that share a file: one names its two files, and one of them    *)
(* twice; the other's file was chosen by the search.                       *)
EXTENDS WorkspaceActions, TLC

CONSTANTS f1, f2

MCRunFiles == <<<<f1, f2, f2>>, <<f2>>>>

MCInitial == (f1 :> Absent) @@ (f2 :> Original)
=============================================================================
