---------------------------- MODULE MCElhamState ----------------------------
(* ElhamState on a fresh set of filesystems of 100 files and 100 blocks     *)
(* each.  The logical files, the meta files, the data blocks and the        *)
(* history blocks move through their edges; the other triggers stand still. *)
(* The data filesystem may be resized to 100 or 200 files and blocks.       *)
EXTENDS ElhamState

MCLimit == [t \in Trigger |-> CASE t = "dirs" -> 7 [] t = "meta.blocks" -> 2
                                [] OTHER -> 100]

Still == [t \in Trigger |-> IF t = "dirs" THEN 1 ELSE 0]

Edges == {0, 1, 50, 95, 99, 100}

MCSize == [t \in DiskTrigger |-> MCLimit[t]]

M(c, sz) == [curr |-> c, size |-> sz]

Usual ==
  {M([Still EXCEPT !["files"] = f, !["meta.files"] = m,
                   !["data.blocks"] = b, !["history.blocks"] = h], MCSize) :
     f \in Edges, m \in {0, 50, 95}, b \in Edges, h \in {50, 99}}

Resized ==
  {M([Still EXCEPT !["files"] = 50, !["data.files"] = d],
     [MCSize EXCEPT !["data.files"] = f, !["data.blocks"] = b]) :
     d \in {0, 99}, f \in {100, 200}, b \in {100, 200}}

MCMeasurements == Usual \cup Resized

\* The defaults of -lock and of no option, and those of -hammer: no option
\* changes a weight, since the names of the -wt options are not understood.
MCSupplied == {W(20, 20, 20, 20, 20), W(10, 30, 30, 20, 10)}
=============================================================================
