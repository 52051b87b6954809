--------------------------- MODULE MCElhamOptions ---------------------------
(* ElhamOptions with words of six bits, rolls of four, sizes of 2 to 8 for a *)
(* block and of 2 to 31 for a file.                                          *)
EXTENDS ElhamOptions

D(size, width, a) ==
  [number |-> [o \in Number |->
                 CASE o = "minfsize" -> 2 [] o = "maxfsize" -> 31 [] o = "minbsize" -> 2
                   [] o = "maxbsize" -> 8 [] o = "blockSize" -> size [] o = "width" -> width
                   [] OTHER -> 0],
   rollBlocks |-> TRUE, scan |-> "scRandom", wait |-> "weRandom", actions |-> a]

MCDefault == D(4, 9, W(20, 20, 20, 20, 20))
MCLock    == D(3, 2, W(20, 20, 20, 20, 20))
MCHammer  == D(5, 9, W(10, 30, 30, 20, 10))

\* Zero, the limits and their neighbours; files that are constant in size; a
\* size near the end of a word; the general default, said aloud.
MCValues ==
  [o \in Number |->
     CASE o = "minfsize"  -> {0, 4, 58}
       [] o = "maxfsize"  -> {4, 63}
       [] o = "minbsize"  -> {1, 4}
       [] o = "maxbsize"  -> {3, 40}
       [] o = "blockSize" -> {4, 7}
       [] o = "width"     -> {9}
       [] OTHER -> {}]
=============================================================================
