---------------------------- MODULE ElhamOptions ----------------------------
(***************************************************************************)
(* How a process comes by its settings, and what create makes of them.     *)
(*                                                                         *)
(* processArgs collects the options, in any order, in dsSupplied, a copy   *)
(* of the general defaults; then it takes the defaults of -lock or of      *)
(* -hammer, if one was given, lays over them whatever in dsSupplied is not *)
(* the general default, and lets -scan change the weights.                 *)
(* verifyControlStruct checks the sizes.  Every create then rolls a block  *)
(* size and a file size between the limits.                                *)
(*                                                                         *)
(* The paths are known only by whether they are directories.  None of the  *)
(* options -wt* is understood: they are looked for below a comparison with *)
(* "-wt" that none of them passes.                                         *)
(***************************************************************************)
EXTENDS Integers

CONSTANTS Word,      \* 2^64: where a number of type uint8 wraps
          RollWord,  \* 2^32: where a roll of the dice ends
          MinSize,   \* MINFSIZE and MINBSIZE
          MaxBlock,  \* MAXBLOCKSIZE
          MaxFile,   \* MAXFSIZE
          Default, Lock, Hammer,  \* dsDefault, dsLock, dsHammer
          Values,    \* Number -> the values in question
          None       \* no value

Number == {"minfsize", "maxfsize", "minbsize", "maxbsize", "blockSize", "seed",
           "flips", "width", "depth", "acton", "files", "iters"}

Words == 0 .. Word - 1
Wrap(n) == n % Word

Scan == {"scRead", "scWrite", "scRandom"}
Wait == {"weAlways", "weNever", "weRandom"}

Weights == [create : 0 .. 100, read : 0 .. 100, write : 0 .. 100,
            delete : 0 .. 100, unlink : 0 .. 100]

W(c, r, w, d, u) ==
  [create |-> c, read |-> r, write |-> w, delete |-> d, unlink |-> u]

Sum(a) == a.create + a.read + a.write + a.delete + a.unlink

Settings == [number : [Number -> Words], rollBlocks : BOOLEAN,
             scan : Scan, wait : Wait, actions : Weights]

ASSUME WordAssumption ==
  /\ Word \in Nat \ {0} /\ RollWord \in 1 .. Word
  /\ MinSize \in Words \ {0} /\ MaxBlock \in Words /\ MaxFile \in Words

ASSUME DefaultsAssumption ==
  \A s \in {Default, Lock, Hammer} : s \in Settings /\ Sum(s.actions) = 100

ASSUME ValuesAssumption == Values \in [Number -> SUBSET Words] /\ None \notin Words

VARIABLES
  supplied,  \* dsSupplied
  mode,      \* defaultTo
  scanSet,   \* bScanSet
  last,      \* history variable: the value an option was last given
  ds,        \* what the process works with
  pc,
  why,       \* why the process refused to start
  blockSize, fileSize, blocks   \* of the dfcb create made last

argVars  == <<supplied, mode, scanSet, last>>
sizeVars == <<blockSize, fileSize, blocks>>
vars == <<argVars, ds, pc, why, sizeVars>>

TypeOK ==
  /\ supplied \in Settings /\ ds \in Settings
  /\ mode \in {"deDefault", "deLock", "deHammer"}
  /\ scanSet \in BOOLEAN
  /\ last \in [Number -> Words \cup {None}]
  /\ pc \in {"args", "verify", "ready", "refused", "left", "trapped"}
  /\ why \in {"none", "usage", "mode", "scan", "weights", "base", "sizes"}
  /\ blockSize \in Words /\ fileSize \in Words /\ blocks \in Words

Init ==
  /\ supplied = Default /\ ds = Default
  /\ mode = "deDefault" /\ scanSet = FALSE
  /\ last = [o \in Number |-> None]
  /\ pc = "args" /\ why = "none"
  /\ blockSize = 0 /\ fileSize = 0 /\ blocks = 0

Refuse(reason) == pc' = "refused" /\ why' = reason

(***************************************************************************)
(* processArgs, the arguments.                                             *)
(***************************************************************************)
GiveNumber(o, v) ==
  /\ pc = "args"
  /\ supplied' = [supplied EXCEPT !.number[o] = v,
                                  !.rollBlocks = IF o = "blockSize" THEN FALSE ELSE @]
  /\ last' = [last EXCEPT ![o] = v]
  /\ UNCHANGED <<mode, scanSet, ds, pc, why, sizeVars>>

\* -blocksize random
GiveRandom ==
  /\ pc = "args"
  /\ supplied' = [supplied EXCEPT !.rollBlocks = TRUE]
  /\ UNCHANGED <<mode, scanSet, last, ds, pc, why, sizeVars>>

GiveWait(w) ==
  /\ pc = "args"
  /\ supplied' = [supplied EXCEPT !.wait = w]
  /\ UNCHANGED <<mode, scanSet, last, ds, pc, why, sizeVars>>

GiveScan(s) ==
  /\ pc = "args"
  /\ IF scanSet THEN Refuse("scan") /\ UNCHANGED <<supplied, scanSet>>
     ELSE /\ supplied' = [supplied EXCEPT !.scan = s] /\ scanSet' = TRUE
          /\ UNCHANGED <<pc, why>>
  /\ UNCHANGED <<mode, last, ds, sizeVars>>

DefaultsOf(m) ==
  CASE m = "deDefault" -> supplied [] m = "deLock" -> Lock [] m = "deHammer" -> Hammer

\* Mutant of GiveMode: the defaults are taken at once, over the options so far.
GiveModeAtOnce(m) ==
  /\ pc = "args"
  /\ IF mode # "deDefault" THEN Refuse("mode") /\ UNCHANGED <<mode, supplied>>
     ELSE mode' = m /\ supplied' = DefaultsOf(m) /\ UNCHANGED <<pc, why>>
  /\ UNCHANGED <<scanSet, last, ds, sizeVars>>

\* -lock, -hammer
GiveMode(m) ==
  /\ pc = "args"
  /\ IF mode # "deDefault" THEN Refuse("mode") /\ UNCHANGED mode
     ELSE mode' = m /\ UNCHANGED <<pc, why>>
  /\ UNCHANGED <<supplied, scanSet, last, ds, sizeVars>>

\* An argument that is not understood, as -wtread, or a value that is missing.
Misunderstood ==
  /\ pc = "args"
  /\ Refuse("usage")
  /\ UNCHANGED <<argVars, ds, sizeVars>>

\* -help, -version
Leave ==
  /\ pc = "args"
  /\ pc' = "left"
  /\ UNCHANGED <<argVars, ds, why, sizeVars>>

(***************************************************************************)
(* processArgs, the settings.                                              *)
(***************************************************************************)
\* TAKE_IF_CHANGED
Take(given, default, base) == IF given # default THEN given ELSE base

Laid ==
  LET base == DefaultsOf(mode)
  IN  [number |-> [o \in Number |-> Take(supplied.number[o], Default.number[o], base.number[o])],
       rollBlocks |-> Take(supplied.rollBlocks, Default.rollBlocks, base.rollBlocks),
       scan |-> Take(supplied.scan, Default.scan, base.scan),
       wait |-> Take(supplied.wait, Default.wait, base.wait),
       actions |-> [t \in DOMAIN base.actions |->
                      Take(supplied.actions[t], Default.actions[t], base.actions[t])]]

\* Mutant of Scanned: the weight of read stays where it is, too.
ScannedTwice(s) ==
  LET a == s.actions
  IN  CASE s.scan = "scRead"   -> W(0, 100, 0, 0, 0)
        [] s.scan = "scWrite"  -> W(a.create, a.read, a.write + a.read, a.delete, a.unlink)
        [] s.scan = "scRandom" -> a

Scanned(s) ==
  LET a == s.actions
  IN  CASE s.scan = "scRead"   -> W(0, 100, 0, 0, 0)
        [] s.scan = "scWrite"  -> W(a.create, 0, a.write + a.read, a.delete, a.unlink)
        [] s.scan = "scRandom" -> a

\* The defaults, what was supplied, -scan, and verifyActionWeightsOf.
Settle ==
  /\ pc = "args"
  /\ ds' = [Laid EXCEPT !.actions = Scanned(Laid)]
  /\ IF Sum(Scanned(Laid)) # 100 THEN Refuse("weights") ELSE pc' = "verify" /\ UNCHANGED why
  /\ UNCHANGED <<argVars, sizeVars>>

(***************************************************************************)
(* verifyControlStruct.                                                    *)
(***************************************************************************)
FixedFits(n) ==
  /\ n["blockSize"] <= MaxBlock /\ n["blockSize"] >= MinSize
  /\ n["blockSize"] >= n["minfsize"] /\ n["blockSize"] <= n["maxfsize"]

\* Mutant of RollFits: the two limits of the block size are not compared.
RollFitsUnordered(n) ==
  /\ n["maxbsize"] <= MaxBlock /\ n["minbsize"] >= MinSize
  /\ n["minbsize"] <= n["minfsize"] /\ n["minbsize"] <= n["maxfsize"]

RollFits(n) ==
  /\ n["maxbsize"] <= MaxBlock /\ n["minbsize"] >= MinSize
  /\ n["minbsize"] <= n["maxbsize"]
  /\ n["minbsize"] <= n["minfsize"] /\ n["minbsize"] <= n["maxfsize"]

\* That no file is larger than MaxFile is asked of the block size.
Acceptable(s) ==
  LET n == s.number
  IN  /\ IF s.rollBlocks THEN RollFits(n) ELSE FixedFits(n)
      /\ n["maxbsize"] <= MaxFile
      /\ n["minfsize"] >= MinSize
      /\ n["minfsize"] <= n["maxfsize"]

\* verifyBase asks first whether the three paths are directories.
VerifyControlStruct ==
  /\ pc = "verify"
  /\ \/ Refuse("base")
     \/ ~Acceptable(ds) /\ Refuse("sizes")
     \/ Acceptable(ds) /\ pc' = "ready" /\ UNCHANGED why
  /\ UNCHANGED <<argVars, ds, sizeVars>>

(***************************************************************************)
(* actionCreate, the sizes of a file.                                      *)
(***************************************************************************)
\* ROLL_RANGE(lo, hi): the remainder of a roll, unless it is divided by zero.
Rolls(lo, hi) == {Wrap(lo + (r % Wrap(hi - lo))) : r \in 0 .. RollWord - 1}

Traps(n) == \/ ds.rollBlocks /\ Wrap(n["maxbsize"] - n["minbsize"]) = 0
            \/ Wrap(n["maxfsize"] - n["minfsize"]) = 0

BlockSizes(n) == IF ds.rollBlocks THEN Rolls(n["minbsize"], n["maxbsize"]) ELSE {n["blockSize"]}

\* Mutant of Align: a product of any size.
AlignUnbounded(rolled, size) ==
  IF rolled % size = 0 THEN blocks' = rolled \div size /\ fileSize' = rolled
  ELSE blocks' = rolled \div size + 1 /\ fileSize' = (rolled \div size + 1) * size

\* Mutant of Align: a block more, but the size of the file is left.
AlignBlocksOnly(rolled, size) ==
  IF rolled % size = 0 THEN blocks' = rolled \div size /\ fileSize' = rolled
  ELSE blocks' = rolled \div size + 1 /\ fileSize' = rolled

\* "Align such that we have an integer number of blocks."
Align(rolled, size) ==
  IF rolled % size = 0 THEN blocks' = rolled \div size /\ fileSize' = rolled
  ELSE blocks' = rolled \div size + 1 /\ fileSize' = Wrap((rolled \div size + 1) * size)

Create ==
  /\ pc = "ready"
  /\ LET n == ds.number
     IN  IF Traps(n) THEN pc' = "trapped" /\ UNCHANGED sizeVars
         ELSE /\ blockSize' \in BlockSizes(n)
              /\ \E rolled \in Rolls(n["minfsize"], n["maxfsize"]) : Align(rolled, blockSize')
              /\ UNCHANGED pc
  /\ UNCHANGED <<argVars, ds, why>>

Next ==
  \/ \E o \in Number : \E v \in Values[o] : GiveNumber(o, v)
  \/ GiveRandom
  \/ \E w \in Wait : GiveWait(w)
  \/ \E s \in Scan : GiveScan(s)
  \/ \E m \in {"deLock", "deHammer"} : GiveMode(m)
  \/ Misunderstood \/ Leave
  \/ Settle \/ VerifyControlStruct \/ Create

Spec == Init /\ [][Next]_vars

(***************************************************************************)
(* Correctness.                                                            *)
(***************************************************************************)
\* Limits between which there is nothing to roll.
EqualLimits == \/ ds.number["minfsize"] = ds.number["maxfsize"]
               \/ ds.rollBlocks /\ ds.number["minbsize"] = ds.number["maxbsize"]

\* The checks of verifyControlStruct are not enough for what create divides by:
\* they let equal limits through, and the first create of such a process traps
\* in ROLL_RANGE.  Nothing else traps, and whoever makes a file has different
\* limits and makes it of a block or more, of a size the buffers are made for,
\* between the limits the user set.
CreatesSoundFiles ==
  /\ pc = "trapped" => EqualLimits
  /\ pc = "ready" /\ blockSize # 0 =>
       /\ ~EqualLimits
       /\ blocks >= 1
       /\ blockSize \in MinSize .. MaxBlock
       /\ ds.rollBlocks => blockSize >= ds.number["minbsize"] /\ blockSize < ds.number["maxbsize"]

\* A file has the size the user asked for, to less than a block, unless the size
\* of the last block would carry it past what a word holds.  (-maxfsize is no
\* maximum: a file is rounded up beyond it.)
FileNearLimits ==
  pc = "ready" /\ blockSize # 0 /\ ds.number["maxfsize"] + blockSize < Word =>
    /\ fileSize = blocks * blockSize
    /\ fileSize >= ds.number["minfsize"]
    /\ fileSize < ds.number["maxfsize"] + blockSize

\* Wherever -lock or -hammer stands among the arguments, the value a number was
\* last given is in force, unless it is the general default: "the default values
\* can be overridden on the command line" is true of all other values.
OverridesUnlessDefault ==
  pc \in {"verify", "ready"} =>
    \A o \in Number :
      last[o] # None /\ ds.number[o] # last[o] =>
        mode # "deDefault" /\ last[o] = Default.number[o]

\* No arguments make verifyActionWeightsOf end the process: the weights are those
\* of the mode, which sum to 100, and -scan moves weight without losing any.
WeightsNeverRefused == why # "weights"
=============================================================================
