---------------------------- MODULE MCElhamScan ----------------------------
(* ElhamScan on a small tree: the values the configurations refer to. *)
EXTENDS ElhamScan, TLC

CONSTANTS r1, r2, f1, f2, d1, d2

\* Two files in szBase, a directory with a file, and a directory in that one
\* with a file.
MCParent == (r1 :> Root) @@ (d1 :> Root) @@ (r2 :> Root) @@ (f1 :> d1) @@ (d2 :> d1) @@ (f2 :> d2)
=============================================================================
