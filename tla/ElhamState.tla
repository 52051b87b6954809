----------------------------- MODULE ElhamState -----------------------------
(***************************************************************************)
(* How one ElHam process decides what to do next (state.c and the dice of  *)
(* decideOnAction).  Before every action the process measures eight        *)
(* quantities, its TRIGGERS, puts each one in one of seven states between  *)
(* Empty and Full, and, when a state has changed, redistributes the five   *)
(* action weights; then it rolls a hundred-sided die against the weights.  *)
(* A filesystem may have been resized when it is measured again.           *)
(***************************************************************************)
EXTENDS Integers

CONSTANTS Limit,         \* Trigger -> max.limit, what statfs or the options gave
          Measurements,  \* what the measurements may return together: what is in
                         \*   use (curr), and f_files and f_blocks (size)
          Shaky,         \* DiskFiles of the filesystems whose statfs may fail
          Supplied,      \* the action weights the options may give
          Scans          \* the -scan options under consideration

Trigger == {"dirs", "files", "meta.files", "meta.blocks", "data.files",
            "data.blocks", "history.files", "history.blocks"}

\* What statfs says of a filesystem.
DiskFiles == {"meta.files", "data.files", "history.files"}
BlocksOf == [t \in DiskFiles |-> CASE t = "meta.files" -> "meta.blocks"
                                   [] t = "data.files" -> "data.blocks"
                                   [] t = "history.files" -> "history.blocks"]
DiskTrigger == DiskFiles \cup {BlocksOf[t] : t \in DiskFiles}

\* The triggers of filesystems whose statfs fails.
Silences == {S \cup {BlocksOf[t] : t \in S} : S \in SUBSET Shaky}

Weights == [create : 0 .. 100, read : 0 .. 100, write : 0 .. 100,
            delete : 0 .. 100, unlink : 0 .. 100]

W(c, r, w, d, u) ==
  [create |-> c, read |-> r, write |-> w, delete |-> d, unlink |-> u]

Sum(a) == a.create + a.read + a.write + a.delete + a.unlink

ASSUME MeasuresAssumption ==
  /\ Shaky \subseteq DiskFiles
  /\ Limit \in [Trigger -> Nat]
  /\ Measurements \subseteq [curr : [Trigger -> Nat], size : [DiskTrigger -> Nat]]

ASSUME SuppliedAssumption ==
  /\ Supplied \subseteq Weights
  /\ \A a \in Supplied : Sum(a) = 100

ASSUME ScansAssumption == Scans \subseteq {"scRead", "scWrite", "scRandom"}

VARIABLES
  curr,      \* what was last measured
  limit,     \* max.limit of every trigger
  edges,     \* the limit that min.soft .. max.hard were computed from
  size,      \* history variable: the sizes of the filesystems, as last measured
  state,     \* state[0] of every trigger; the older entries are never read
  scan,      \* -scan
  ds,        \* the weights the process was started with
  actions,   \* the weights in force
  take,      \* takeAction: the last action chosen
  phase      \* "measure" or "decide" in the loop of main; "ended"

sizeVars == <<curr, limit, edges, size>>
vars == <<sizeVars, state, scan, ds, actions, take, phase>>

(***************************************************************************)
(* The states, in the order of StateEnum.                                  *)
(***************************************************************************)
stEmpty     == 0
stSoftEmpty == 1
stHardEmpty == 2
stNormal    == 3
stSoftFull  == 4
stHardFull  == 5
stFull      == 6
States      == stEmpty .. stFull

\* initLimitsOf, for a trigger with limit n: a double product assigned to an
\* integer.
MinLimit(t)   == IF t = "dirs" THEN 1 ELSE 0
MinHard(t, n) == MinLimit(t) + n \div 100
MinSoft(t, n) == MinLimit(t) + (5 * n) \div 100
MaxSoft(n)    == (95 * n) \div 100
MaxHard(n)    == (99 * n) \div 100

\* Mutant of StateOf: the hard edge of the minimum is asked before the soft one.
StateOfHardFirst(t, n, c) ==
  IF c = MaxHard(n) THEN stFull
  ELSE IF c >= MaxHard(n) THEN stHardFull
  ELSE IF c >= MaxSoft(n) THEN stSoftFull
  ELSE IF c = MinLimit(t) THEN stEmpty
  ELSE IF c <= MinHard(t, n) THEN stHardEmpty
  ELSE IF c <= MinSoft(t, n) THEN stSoftEmpty
  ELSE stNormal

\* Mutant of StateOf: the edge of the maximum is not strict.
StateOfFullEarly(t, n, c) ==
  IF c >= MaxHard(n) - 1 THEN stFull
  ELSE IF c >= MaxSoft(n) THEN stSoftFull
  ELSE IF c = MinLimit(t) THEN stEmpty
  ELSE IF c <= MinSoft(t, n) THEN stSoftEmpty
  ELSE stNormal

\* stateChangeOf asks its questions in this order.
StateOf(t, n, c) ==
  IF c = MaxHard(n) THEN stFull
  ELSE IF c >= MaxHard(n) THEN stHardFull
  ELSE IF c >= MaxSoft(n) THEN stSoftFull
  ELSE IF c = MinLimit(t) THEN stEmpty
  ELSE IF c <= MinSoft(t, n) THEN stSoftEmpty
  ELSE IF c <= MinHard(t, n) THEN stHardEmpty
  ELSE stNormal

(***************************************************************************)
(* The weight tables of transitStates, applied to the weights the process  *)
(* was started with.                                                       *)
(***************************************************************************)
\* Mutant of Part: the division by ten is missing.
PartUndivided(x, tenths) == x * tenths

Part(x, tenths) == (x * tenths) \div 10

\* Some of the weight of create goes to unlink, or of unlink to create.
FewerCreates(a, x) == W(a.create - x, a.read, a.write, a.delete, a.unlink + x)
MoreCreates(a, x)  == W(a.create + x, a.read, a.write, a.delete, a.unlink - x)

CreateOnly == W(100, 0, 0, 0, 0)
UnlinkOnly == W(0, 0, 0, 0, 100)
ReadOnly   == W(0, 100, 0, 0, 0)

FilesRow(s, a) ==
  CASE s = stNormal    -> a
    [] s = stEmpty     -> CreateOnly
    [] s = stHardEmpty -> MoreCreates(a, a.unlink)
    [] s = stSoftEmpty -> MoreCreates(a, Part(a.unlink, 6))
    [] s = stFull      -> FewerCreates(a, a.create)
    [] s = stHardFull  -> FewerCreates(a, Part(a.create, 8))
    [] s = stSoftFull  -> FewerCreates(a, Part(a.create, 6))

MoveToWrite(a, x) == W(a.create, a.read, a.write + x, a.delete - x, a.unlink)
NoWrites(a)       == W(a.create, a.read, 0, a.delete, a.unlink + a.write)

\* Mutant of BlocksRow: a table row forgets to pass the weight of write on.
BlocksRowDropsWrite(s, a) ==
  CASE s = stNormal    -> a
    [] s = stEmpty     -> CreateOnly
    [] s = stHardEmpty -> W(a.create + a.unlink, 0, a.write + a.delete + a.read, 0, 0)
    [] s = stSoftEmpty -> MoveToWrite(MoreCreates(a, Part(a.unlink, 6)), Part(a.delete, 6))
    [] s = stFull      -> UnlinkOnly
    [] s = stHardFull  -> [FewerCreates(a, Part(a.create, 8)) EXCEPT !.write = 0]
    [] s = stSoftFull  -> NoWrites(FewerCreates(a, Part(a.create, 6)))

BlocksRow(s, a) ==
  CASE s = stNormal    -> a
    [] s = stEmpty     -> CreateOnly
    [] s = stHardEmpty -> W(a.create + a.unlink, 0, a.write + a.delete + a.read, 0, 0)
    [] s = stSoftEmpty -> MoveToWrite(MoreCreates(a, Part(a.unlink, 6)), Part(a.delete, 6))
    [] s = stFull      -> UnlinkOnly
    [] s = stHardFull  -> NoWrites(FewerCreates(a, Part(a.create, 8)))
    [] s = stSoftFull  -> NoWrites(FewerCreates(a, Part(a.create, 6)))

\* "Whichever is worst drives the state."
Worse(p, q) == IF p > q THEN p ELSE q
WorstFiles(st) ==
  Worse(st["files"], Worse(st["data.files"], Worse(st["meta.files"], st["history.files"])))
WorstBlocks(st) == Worse(st["meta.blocks"], st["data.blocks"])

FileTriggers  == {"files", "data.files", "meta.files", "history.files"}
BlockTriggers == {"meta.blocks", "data.blocks"}

\* Mutant of NewWeights: only the logical file count is asked for a rotation.
NewWeightsOfFilesOnly(st) ==
  IF scan = "scRead" THEN ReadOnly
  ELSE IF \E t \in BlockTriggers : st[t] # state[t] THEN BlocksRow(WorstBlocks(st), ds)
  ELSE IF st["files"] # state["files"] THEN FilesRow(WorstFiles(st), ds)
  ELSE actions

\* The weights after the states have become st.  A table is consulted only when
\* one of its triggers has rotated; the blocks come last and overwrite.
NewWeights(st) ==
  IF scan = "scRead" THEN ReadOnly
  ELSE IF \E t \in BlockTriggers : st[t] # state[t] THEN BlocksRow(WorstBlocks(st), ds)
  ELSE IF \E t \in FileTriggers : st[t] # state[t] THEN FilesRow(WorstFiles(st), ds)
  ELSE actions

HistoryBecomesFull(st) ==
  st["history.blocks"] # state["history.blocks"] /\ st["history.blocks"] = stFull

\* The program's own checks: the eh_ASSERT of a write scanner, and
\* verifyActionWeightsOf.
Refused(a) == (scan = "scWrite" /\ a.read # 0) \/ Sum(a) # 100

(***************************************************************************)
(* The process.                                                            *)
(***************************************************************************)
\* processArgs: what the -scan option does to the weights it was given.
Scanner(s, a) ==
  CASE s = "scRead"   -> ReadOnly
    [] s = "scWrite"  -> W(a.create, 0, a.write + a.read, a.delete, a.unlink)
    [] s = "scRandom" -> a

\* currFileSystem: a new number of blocks is stored in the limit of the files.
\* What it finds of the triggers in silent it does not learn: their statfs failed.
NewLimits(sz, silent) ==
  [t \in Trigger |->
     IF t \in DiskFiles \ silent
     THEN IF sz[BlocksOf[t]] # limit[BlocksOf[t]] THEN sz[BlocksOf[t]] ELSE sz[t]
     ELSE limit[t]]

\* Mutant of NewEdges: the edges of the files are computed last.
NewEdgesLate(sz, silent) ==
  [t \in Trigger |->
     IF t \in DiskFiles \ silent THEN NewLimits(sz, silent)[t] ELSE edges[t]]

\* currFileSystem: the edges are computed when the size is not the limit, those
\* of the files before their limit is overwritten, those of the blocks from the
\* limit they have.
NewEdges(sz, silent) ==
  [t \in Trigger |->
     IF t \notin DiskTrigger \ silent THEN edges[t]
     ELSE IF sz[t] = limit[t] THEN edges[t]
     ELSE IF t \in DiskFiles THEN sz[t] ELSE limit[t]]

Init ==
  /\ curr = [t \in Trigger |-> 0]
  /\ limit = Limit /\ edges = Limit /\ size = [t \in DiskTrigger |-> Limit[t]]
  /\ state = [t \in Trigger |-> stNormal]
  /\ scan \in Scans
  /\ \E a \in Supplied : ds = Scanner(scan, a)
  /\ actions = ds
  /\ take = "none"
  /\ phase = "measure"

\* getDirEntriesOf and currFileSystem return whatever is there by now, then
\* transitStates runs to its end.  A read scanner that finds no file goes back
\* to the directory scan instead.
TransitStates ==
  /\ phase = "measure"
  /\ \E m \in Measurements, silent \in Silences :
       /\ curr' = [t \in Trigger |-> IF t \in silent THEN curr[t] ELSE m.curr[t]]
       /\ size' = [t \in DiskTrigger |-> IF t \in silent THEN size[t] ELSE m.size[t]]
       /\ limit' = NewLimits(size', silent) /\ edges' = NewEdges(size', silent)
  /\ scan = "scRead" => curr'["files"] > 0
  /\ state' = [t \in Trigger |-> StateOf(t, edges'[t], curr'[t])]
  /\ actions' = NewWeights(state')
  /\ phase' = IF HistoryBecomesFull(state') \/ Refused(actions') THEN "ended" ELSE "decide"
  /\ UNCHANGED <<scan, ds, take>>

\* Mutant of Chosen: the comparisons are not strict.
ChosenInclusive(roll, a) ==
  IF roll <= a.read THEN "read"
  ELSE IF roll <= a.read + a.create THEN "create"
  ELSE IF roll <= a.read + a.create + a.write THEN "write"
  ELSE IF roll <= a.read + a.create + a.write + a.delete THEN "delete"
  ELSE IF roll <= Sum(a) THEN "unlink"
  ELSE "none"

\* decideOnAction: cumulative weights in the order read, create, write, delete,
\* unlink.  A roll beyond their sum would end the process.
Chosen(roll, a) ==
  IF roll < a.read THEN "read"
  ELSE IF roll < a.read + a.create THEN "create"
  ELSE IF roll < a.read + a.create + a.write THEN "write"
  ELSE IF roll < a.read + a.create + a.write + a.delete THEN "delete"
  ELSE IF roll < Sum(a) THEN "unlink"
  ELSE "none"

DecideOnAction ==
  /\ phase = "decide"
  /\ \E roll \in 0 .. 99 :
       /\ take' = Chosen(roll, actions)
       /\ phase' = IF Chosen(roll, actions) = "none" THEN "ended" ELSE "measure"
  /\ UNCHANGED <<sizeVars, state, scan, ds, actions>>

Next == TransitStates \/ DecideOnAction

Spec == Init /\ [][Next]_vars

(***************************************************************************)
(* Correctness.                                                            *)
(***************************************************************************)
Takes == {"none", "read", "create", "write", "delete", "unlink"}

TypeOK ==
  /\ curr \in [Trigger -> Nat]
  /\ limit \in [Trigger -> Nat] /\ edges \in [Trigger -> Nat]
  /\ size \in [DiskTrigger -> Nat]
  /\ state \in [Trigger -> States]
  /\ scan \in Scans
  /\ ds \in Weights
  /\ actions \in Weights
  /\ take \in Takes
  /\ phase \in {"measure", "decide", "ended"}

\* Of all the ways transitStates and decideOnAction have to end the process
\* (a table row whose weights do not sum to 100, a write scanner left with a
\* weight for read, a roll no action answers to) none is ever met: only a
\* history filesystem that has just become Full ends it.
OnlyFullHistoryEnds == phase = "ended" => state["history.blocks"] = stFull

\* The weights in force are always a row some table has for a state that holds
\* now: they never outlive the state they were computed for, although they are
\* recomputed only when a trigger rotates and two tables write to them.
WeightsAreCurrent ==
  scan # "scRead" =>
    actions \in {FilesRow(WorstFiles(state), ds), BlocksRow(WorstBlocks(state), ds)}

\* An action whose weight is zero is never taken; so a read scanner only reads
\* and a write scanner never does, whatever happens to the filesystems.
TakenHasWeight ==
  phase = "measure" /\ take # "none" =>
    /\ actions[take] > 0
    /\ scan = "scRead" => take = "read"
    /\ scan = "scWrite" => take # "read"

\* Contrary to the manual, which says that ElHam tracks a hard limit (1%) for the
\* minimum and "is more likely to create files when the limit is below the hard
\* minimum" (doc/elham.html:603-607): stateChangeOf asks for the soft edge
\* first, the hard edge lies on or below it, and so HardEmpty, which has a row
\* in both tables and a rank above SoftEmpty, is never entered.  Between 0 and
\* 1% a process keeps the weights it has up to 5%: less than two thirds of the
\* weight of unlink go to create, not all of it.
NeverHardEmpty == \A t \in Trigger : state[t] # stHardEmpty

\* A trigger that counts from zero, has room for two and holds nothing is never
\* in one of the full states.  (With room for one, 99% of it is nothing, and
\* the empty tree is Full: create is off from the start.)
EmptyIsNeverFull ==
  \A t \in Trigger \ {"dirs"} :
    curr[t] = 0 /\ edges[t] >= 2 => state[t] < stSoftFull

\* The edges of the files follow a filesystem that is resized, although another
\* number is left in their limit; they miss one that has as many files now as it
\* had blocks before.
FileEdgesFollow ==
  [][\A t \in DiskFiles :
       edges[t] = size[t] => edges'[t] = size'[t] \/ size'[t] = size[BlocksOf[t]]]_vars

\* transitStates: "Now apply the physical blocks constraints."  While the worst
\* of the block triggers is Full nothing but unlink has a weight.
BlocksConstrain ==
  WorstBlocks(state) = stFull /\ scan # "scRead" => actions = UnlinkOnly
=============================================================================
