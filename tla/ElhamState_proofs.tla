-------------------------- MODULE ElhamState_proofs --------------------------
(***************************************************************************)
(* Theorems about ElhamState, for every limit of the filesystems, every    *)
(* sequence of measurements and every set of weights that sum to 100.      *)
(*                                                                         *)
(* What makes the weights safe is that no row of a table creates or        *)
(* destroys weight: every row moves parts of the weights the process was   *)
(* started with, or is one of the constant rows.  The inductive invariant  *)
(* Conserved states this of the weights in force.                          *)
(***************************************************************************)
EXTENDS ElhamState, TLAPS

\* A balanced set of weights: each a percentage, all of them together 100.
Balanced(a) == a \in Weights /\ Sum(a) = 100

\* Both sets of weights are balanced, and those in force keep the promise the
\* -scan option made for those the process was started with.
Conserved ==
  /\ Balanced(ds) /\ Balanced(actions)
  /\ scan = "scRead" => actions = ReadOnly
  /\ scan = "scWrite" => ds.read = 0 /\ actions.read = 0

Inv == TypeOK /\ Conserved

(***************************************************************************)
(* The operators.                                                          *)
(***************************************************************************)

\* A weight never loses more than itself to a part of it.
LEMMA PartBound ==
  ASSUME NEW x \in Nat
  PROVE  /\ Part(x, 6) \in Nat /\ Part(x, 6) <= x
         /\ Part(x, 8) \in Nat /\ Part(x, 8) <= x
BY DEF Part

\* A balanced set of weights, written out.
LEMMA BalancedW ==
  ASSUME NEW c, NEW r, NEW w, NEW d, NEW u,
         c \in Nat, r \in Nat, w \in Nat, d \in Nat, u \in Nat,
         c + r + w + d + u = 100
  PROVE  Balanced(W(c, r, w, d, u)) /\ W(c, r, w, d, u).read = r
<1>1. c \in 0 .. 100 /\ r \in 0 .. 100 /\ w \in 0 .. 100 /\ d \in 0 .. 100 /\ u \in 0 .. 100
  OBVIOUS
<1>2. W(c, r, w, d, u) \in Weights
  BY <1>1 DEF W, Weights
<1> QED
  BY <1>2 DEF Balanced, Sum, W

\* Four moves of weight keep a balanced set of weights balanced, and leave the
\* weight of read alone.
LEMMA MovesKeepBalance ==
  ASSUME NEW a \in Weights, Sum(a) = 100, NEW x \in Nat
  PROVE  /\ x <= a.create =>
              Balanced(FewerCreates(a, x)) /\ FewerCreates(a, x).read = a.read
         /\ x <= a.unlink =>
              Balanced(MoreCreates(a, x)) /\ MoreCreates(a, x).read = a.read
         /\ x <= a.delete =>
              Balanced(MoveToWrite(a, x)) /\ MoveToWrite(a, x).read = a.read
         /\ Balanced(NoWrites(a)) /\ NoWrites(a).read = a.read
<1>1. /\ a.create \in Nat /\ a.read \in Nat /\ a.write \in Nat
      /\ a.delete \in Nat /\ a.unlink \in Nat
      /\ a.create + a.read + a.write + a.delete + a.unlink = 100
  BY DEF Sum, Weights
<1>2. ASSUME x <= a.create
      PROVE  Balanced(FewerCreates(a, x)) /\ FewerCreates(a, x).read = a.read
  <2> DEFINE less == a.create - x
             more == a.unlink + x
  <2>1. less \in Nat /\ more \in Nat /\ less + a.read + a.write + a.delete + more = 100
    BY <1>1, <1>2
  <2>2. FewerCreates(a, x) = W(less, a.read, a.write, a.delete, more)
    BY DEF FewerCreates
  <2> HIDE DEF less, more
  <2> QED
    BY <1>1, <2>1, <2>2, BalancedW
<1>3. ASSUME x <= a.unlink
      PROVE  Balanced(MoreCreates(a, x)) /\ MoreCreates(a, x).read = a.read
  <2> DEFINE less == a.unlink - x
             more == a.create + x
  <2>1. less \in Nat /\ more \in Nat /\ more + a.read + a.write + a.delete + less = 100
    BY <1>1, <1>3
  <2>2. MoreCreates(a, x) = W(more, a.read, a.write, a.delete, less)
    BY DEF MoreCreates
  <2> HIDE DEF less, more
  <2> QED
    BY <1>1, <2>1, <2>2, BalancedW
<1>4. ASSUME x <= a.delete
      PROVE  Balanced(MoveToWrite(a, x)) /\ MoveToWrite(a, x).read = a.read
  <2> DEFINE less == a.delete - x
             more == a.write + x
  <2>1. less \in Nat /\ more \in Nat /\ a.create + a.read + more + less + a.unlink = 100
    BY <1>1, <1>4
  <2>2. MoveToWrite(a, x) = W(a.create, a.read, more, less, a.unlink)
    BY DEF MoveToWrite
  <2> HIDE DEF less, more
  <2> QED
    BY <1>1, <2>1, <2>2, BalancedW
<1>5. Balanced(NoWrites(a)) /\ NoWrites(a).read = a.read
  <2> DEFINE more == a.unlink + a.write
  <2>1. more \in Nat /\ a.create + a.read + 0 + a.delete + more = 100
    BY <1>1
  <2>2. NoWrites(a) = W(a.create, a.read, 0, a.delete, more)
    BY DEF NoWrites
  <2> HIDE DEF more
  <2> QED
    BY <1>1, <2>1, <2>2, BalancedW
<1> QED
  BY <1>2, <1>3, <1>4, <1>5

\* The constant rows are balanced.
LEMMA ConstantRows ==
  /\ Balanced(CreateOnly) /\ CreateOnly.read = 0
  /\ Balanced(UnlinkOnly) /\ UnlinkOnly.read = 0
  /\ Balanced(ReadOnly)
BY DEF Balanced, Weights, Sum, CreateOnly, UnlinkOnly, ReadOnly, W

\* The rows of the two tables, one fact per row.
LEMMA FilesRows ==
  ASSUME NEW s \in States, NEW a
  PROVE  /\ s = stNormal    => FilesRow(s, a) = a
         /\ s = stEmpty     => FilesRow(s, a) = CreateOnly
         /\ s = stHardEmpty => FilesRow(s, a) = MoreCreates(a, a.unlink)
         /\ s = stSoftEmpty => FilesRow(s, a) = MoreCreates(a, Part(a.unlink, 6))
         /\ s = stFull      => FilesRow(s, a) = FewerCreates(a, a.create)
         /\ s = stHardFull  => FilesRow(s, a) = FewerCreates(a, Part(a.create, 8))
         /\ s = stSoftFull  => FilesRow(s, a) = FewerCreates(a, Part(a.create, 6))
<1>1. ASSUME s = stNormal PROVE FilesRow(s, a) = a
  BY <1>1
     DEF FilesRow, stNormal, stEmpty, stHardEmpty, stSoftEmpty, stFull,
         stHardFull, stSoftFull
<1>2. ASSUME s = stEmpty PROVE FilesRow(s, a) = CreateOnly
  BY <1>2
     DEF FilesRow, stNormal, stEmpty, stHardEmpty, stSoftEmpty, stFull,
         stHardFull, stSoftFull
<1>3. ASSUME s = stHardEmpty PROVE FilesRow(s, a) = MoreCreates(a, a.unlink)
  BY <1>3
     DEF FilesRow, stNormal, stEmpty, stHardEmpty, stSoftEmpty, stFull,
         stHardFull, stSoftFull
<1>4. ASSUME s = stSoftEmpty PROVE FilesRow(s, a) = MoreCreates(a, Part(a.unlink, 6))
  BY <1>4
     DEF FilesRow, stNormal, stEmpty, stHardEmpty, stSoftEmpty, stFull,
         stHardFull, stSoftFull
<1>5. ASSUME s = stFull PROVE FilesRow(s, a) = FewerCreates(a, a.create)
  BY <1>5
     DEF FilesRow, stNormal, stEmpty, stHardEmpty, stSoftEmpty, stFull,
         stHardFull, stSoftFull
<1>6. ASSUME s = stHardFull PROVE FilesRow(s, a) = FewerCreates(a, Part(a.create, 8))
  BY <1>6
     DEF FilesRow, stNormal, stEmpty, stHardEmpty, stSoftEmpty, stFull,
         stHardFull, stSoftFull
<1>7. ASSUME s = stSoftFull PROVE FilesRow(s, a) = FewerCreates(a, Part(a.create, 6))
  BY <1>7
     DEF FilesRow, stNormal, stEmpty, stHardEmpty, stSoftEmpty, stFull,
         stHardFull, stSoftFull
<1> QED
  BY <1>1, <1>2, <1>3, <1>4, <1>5, <1>6, <1>7

\* The same of the table of the physical blocks.
LEMMA BlocksRows ==
  ASSUME NEW s \in States, NEW a
  PROVE  /\ s = stNormal    => BlocksRow(s, a) = a
         /\ s = stEmpty     => BlocksRow(s, a) = CreateOnly
         /\ s = stHardEmpty =>
              BlocksRow(s, a) = W(a.create + a.unlink, 0, a.write + a.delete + a.read, 0, 0)
         /\ s = stSoftEmpty =>
              BlocksRow(s, a) = MoveToWrite(MoreCreates(a, Part(a.unlink, 6)), Part(a.delete, 6))
         /\ s = stFull      => BlocksRow(s, a) = UnlinkOnly
         /\ s = stHardFull  =>
              BlocksRow(s, a) = NoWrites(FewerCreates(a, Part(a.create, 8)))
         /\ s = stSoftFull  =>
              BlocksRow(s, a) = NoWrites(FewerCreates(a, Part(a.create, 6)))
<1>1. ASSUME s = stNormal PROVE BlocksRow(s, a) = a
  BY <1>1
     DEF BlocksRow, stNormal, stEmpty, stHardEmpty, stSoftEmpty, stFull,
         stHardFull, stSoftFull
<1>2. ASSUME s = stEmpty PROVE BlocksRow(s, a) = CreateOnly
  BY <1>2
     DEF BlocksRow, stNormal, stEmpty, stHardEmpty, stSoftEmpty, stFull,
         stHardFull, stSoftFull
<1>3. ASSUME s = stHardEmpty
      PROVE  BlocksRow(s, a) = W(a.create + a.unlink, 0, a.write + a.delete + a.read, 0, 0)
  BY <1>3
     DEF BlocksRow, stNormal, stEmpty, stHardEmpty, stSoftEmpty, stFull,
         stHardFull, stSoftFull
<1>4. ASSUME s = stSoftEmpty
      PROVE  BlocksRow(s, a) = MoveToWrite(MoreCreates(a, Part(a.unlink, 6)), Part(a.delete, 6))
  BY <1>4
     DEF BlocksRow, stNormal, stEmpty, stHardEmpty, stSoftEmpty, stFull,
         stHardFull, stSoftFull
<1>5. ASSUME s = stFull PROVE BlocksRow(s, a) = UnlinkOnly
  BY <1>5
     DEF BlocksRow, stNormal, stEmpty, stHardEmpty, stSoftEmpty, stFull,
         stHardFull, stSoftFull
<1>6. ASSUME s = stHardFull
      PROVE  BlocksRow(s, a) = NoWrites(FewerCreates(a, Part(a.create, 8)))
  BY <1>6
     DEF BlocksRow, stNormal, stEmpty, stHardEmpty, stSoftEmpty, stFull,
         stHardFull, stSoftFull
<1>7. ASSUME s = stSoftFull
      PROVE  BlocksRow(s, a) = NoWrites(FewerCreates(a, Part(a.create, 6)))
  BY <1>7
     DEF BlocksRow, stNormal, stEmpty, stHardEmpty, stSoftEmpty, stFull,
         stHardFull, stSoftFull
<1> QED
  BY <1>1, <1>2, <1>3, <1>4, <1>5, <1>6, <1>7

\* There are seven states.
LEMMA AllStates ==
  ASSUME NEW s \in States
  PROVE  s \in {stNormal, stEmpty, stHardEmpty, stSoftEmpty, stFull, stHardFull, stSoftFull}
BY DEF States, stNormal, stEmpty, stHardEmpty, stSoftEmpty, stFull, stHardFull, stSoftFull

\* Every row of the files table is balanced, and gives read a weight only if
\* it had one.
LEMMA FilesRowBalanced ==
  ASSUME NEW s \in States, NEW a, Balanced(a)
  PROVE  Balanced(FilesRow(s, a)) /\ FilesRow(s, a).read \in {0, a.read}
<1> a \in Weights /\ Sum(a) = 100 /\ a.create \in Nat /\ a.unlink \in Nat
  BY DEF Balanced, Weights
<1>1. CASE s = stNormal
  BY <1>1, FilesRows
<1>2. CASE s = stEmpty
  BY <1>2, FilesRows, ConstantRows
<1>3. CASE s = stHardEmpty
  BY <1>3, FilesRows, MovesKeepBalance
<1>4. CASE s = stSoftEmpty
  BY <1>4, FilesRows, PartBound, MovesKeepBalance
<1>5. CASE s = stFull
  BY <1>5, FilesRows, MovesKeepBalance
<1>6. CASE s = stHardFull
  BY <1>6, FilesRows, PartBound, MovesKeepBalance
<1>7. CASE s = stSoftFull
  BY <1>7, FilesRows, PartBound, MovesKeepBalance
<1> QED
  BY <1>1, <1>2, <1>3, <1>4, <1>5, <1>6, <1>7, AllStates

\* Every row of the blocks table is, too.
LEMMA BlocksRowBalanced ==
  ASSUME NEW s \in States, NEW a, Balanced(a)
  PROVE  Balanced(BlocksRow(s, a)) /\ BlocksRow(s, a).read \in {0, a.read}
<1> /\ a \in Weights /\ Sum(a) = 100
    /\ a.create \in Nat /\ a.read \in Nat /\ a.write \in Nat
    /\ a.delete \in Nat /\ a.unlink \in Nat
  BY DEF Balanced, Weights
<1>1. CASE s = stNormal
  BY <1>1, BlocksRows
<1>2. CASE s = stEmpty
  BY <1>2, BlocksRows, ConstantRows
<1>3. CASE s = stHardEmpty
  BY <1>3, BlocksRows, BalancedW DEF Sum
<1>4. CASE s = stSoftEmpty
  <2> DEFINE m == MoreCreates(a, Part(a.unlink, 6))
  <2>1. Balanced(m) /\ m.read = a.read
    BY PartBound, MovesKeepBalance
  <2>2. m.delete = a.delete
    BY DEF MoreCreates, W
  <2>3. BlocksRow(s, a) = MoveToWrite(m, Part(a.delete, 6))
    BY <1>4, BlocksRows
  <2> HIDE DEF m
  <2>4. m \in Weights /\ Sum(m) = 100
    BY <2>1 DEF Balanced
  <2> QED
    BY <2>1, <2>2, <2>3, <2>4, PartBound, MovesKeepBalance
<1>5. CASE s = stFull
  BY <1>5, BlocksRows, ConstantRows
<1>6. ASSUME NEW x \in Nat, x <= a.create
      PROVE  /\ Balanced(NoWrites(FewerCreates(a, x)))
             /\ NoWrites(FewerCreates(a, x)).read = a.read
  <2> DEFINE m == FewerCreates(a, x)
  <2>1. Balanced(m) /\ m.read = a.read
    BY <1>6, MovesKeepBalance
  <2> HIDE DEF m
  <2>2. m \in Weights /\ Sum(m) = 100
    BY <2>1 DEF Balanced
  <2>3. Balanced(NoWrites(m)) /\ NoWrites(m).read = a.read
    BY <2>1, <2>2, MovesKeepBalance
  <2> QED
    BY <2>3 DEF m
<1>7. CASE s = stHardFull
  BY <1>6, <1>7, BlocksRows, PartBound
<1>8. CASE s = stSoftFull
  BY <1>6, <1>8, BlocksRows, PartBound
<1> QED
  BY <1>1, <1>2, <1>3, <1>4, <1>5, <1>7, <1>8, AllStates

\* The state of a trigger is one of the seven, is never HardEmpty, and is below
\* the full ones for a trigger that counts from zero and holds nothing.
LEMMA StateOfRange ==
  ASSUME NEW t \in Trigger, NEW n \in Nat, NEW c \in Nat
  PROVE  /\ StateOf(t, n, c) \in States
         /\ StateOf(t, n, c) # stHardEmpty
         /\ t # "dirs" /\ c = 0 /\ n >= 2 => StateOf(t, n, c) < stSoftFull
BY DEF StateOf, MaxHard, MaxSoft, MinHard, MinSoft, MinLimit, States, stEmpty,
       stSoftEmpty, stHardEmpty, stNormal, stSoftFull, stHardFull, stFull

\* The new limits and edges are sizes.
LEMMA SizesAreLimits ==
  ASSUME limit \in [Trigger -> Nat], edges \in [Trigger -> Nat],
         NEW sz \in [DiskTrigger -> Nat], NEW silent
  PROVE  /\ NewLimits(sz, silent) \in [Trigger -> Nat]
         /\ NewEdges(sz, silent) \in [Trigger -> Nat]
         /\ \A t \in DiskFiles : t \in Trigger /\ t \in DiskTrigger /\ BlocksOf[t] \in DiskTrigger
<1>1. \A t \in DiskFiles : t \in Trigger /\ t \in DiskTrigger /\ BlocksOf[t] \in DiskTrigger
  BY DEF DiskFiles, DiskTrigger, Trigger
<1>2. NewLimits(sz, silent) \in [Trigger -> Nat]
  BY <1>1 DEF NewLimits
<1>3. NewEdges(sz, silent) \in [Trigger -> Nat]
  BY DEF NewEdges
<1> QED
  BY <1>1, <1>2, <1>3

\* The worst of several states is one of the seven.
LEMMA WorstAreStates ==
  ASSUME NEW st \in [Trigger -> States]
  PROVE  WorstFiles(st) \in States /\ WorstBlocks(st) \in States
BY DEF WorstFiles, WorstBlocks, Worse, Trigger

\* What the -scan option does to balanced weights leaves them balanced.
LEMMA ScannerBalanced ==
  ASSUME NEW s \in Scans, NEW a \in Supplied
  PROVE  /\ Balanced(Scanner(s, a))
         /\ s = "scRead" => Scanner(s, a) = ReadOnly
         /\ s = "scWrite" => Scanner(s, a).read = 0
<1>1. /\ a \in Weights
      /\ a.create \in Nat /\ a.read \in Nat /\ a.write \in Nat
      /\ a.delete \in Nat /\ a.unlink \in Nat
      /\ a.create + a.read + a.write + a.delete + a.unlink = 100
  BY SuppliedAssumption DEF Sum, Weights
<1>2. ASSUME s = "scRead" PROVE Scanner(s, a) = ReadOnly
  BY <1>2 DEF Scanner
<1>3. ASSUME s = "scWrite"
      PROVE  Scanner(s, a) = W(a.create, 0, a.write + a.read, a.delete, a.unlink)
  BY <1>3 DEF Scanner
<1>4. ASSUME s = "scRandom" PROVE Scanner(s, a) = a
  BY <1>4 DEF Scanner
<1>5. Balanced(W(a.create, 0, a.write + a.read, a.delete, a.unlink))
      /\ W(a.create, 0, a.write + a.read, a.delete, a.unlink).read = 0
  <2> DEFINE more == a.write + a.read
  <2>1. more \in Nat /\ a.create + 0 + more + a.delete + a.unlink = 100
    BY <1>1
  <2> HIDE DEF more
  <2>2. Balanced(W(a.create, 0, more, a.delete, a.unlink))
        /\ W(a.create, 0, more, a.delete, a.unlink).read = 0
    BY <1>1, <2>1, BalancedW
  <2> QED
    BY <2>2 DEF more
<1>6. Balanced(a)
  BY <1>1, SuppliedAssumption DEF Balanced
<1> QED
  BY <1>2, <1>3, <1>4, <1>5, <1>6, ConstantRows, ScansAssumption

(***************************************************************************)
(* The invariant.                                                          *)
(***************************************************************************)

\* The process starts with the weights processArgs has verified, in force.
LEMMA InitInv == Init => Inv
<1> SUFFICES ASSUME Init PROVE Inv
  OBVIOUS
<1>1. PICK a \in Supplied : ds = Scanner(scan, a)
  BY DEF Init
<1>2. Conserved
  BY <1>1, ScannerBalanced DEF Init, Conserved
<1>3. TypeOK
  <2>1. limit \in [Trigger -> Nat] /\ edges \in [Trigger -> Nat]
    BY MeasuresAssumption DEF Init
  <2>2. size \in [DiskTrigger -> Nat]
    <3>1. \A t \in DiskTrigger : t \in Trigger
      BY DEF DiskTrigger, DiskFiles, BlocksOf, Trigger
    <3> QED
      BY <3>1, MeasuresAssumption DEF Init
  <2> QED
    BY <1>2, <2>1, <2>2
       DEF Init, Conserved, Balanced, TypeOK, Takes, States, stNormal, stEmpty, stFull
<1> QED
  BY <1>2, <1>3 DEF Inv

\* Whatever was measured, the weights transitStates leaves are balanced and keep
\* the promise of the -scan option: it never refuses its own work.
LEMMA TransitKeepsConserved ==
  ASSUME Inv, TransitStates
  PROVE  /\ Conserved' /\ ~Refused(actions')
         /\ curr' \in [Trigger -> Nat] /\ state' \in [Trigger -> States]
         /\ limit' \in [Trigger -> Nat] /\ edges' \in [Trigger -> Nat]
         /\ size' \in [DiskTrigger -> Nat]
<1>m. PICK m \in Measurements, silent \in Silences :
        /\ curr' = [t \in Trigger |-> IF t \in silent THEN curr[t] ELSE m.curr[t]]
        /\ size' = [t \in DiskTrigger |-> IF t \in silent THEN size[t] ELSE m.size[t]]
        /\ limit' = NewLimits(size', silent) /\ edges' = NewEdges(size', silent)
  BY DEF TransitStates
<1>1. curr' \in [Trigger -> Nat] /\ size' \in [DiskTrigger -> Nat]
  BY <1>m, MeasuresAssumption DEF Inv, TypeOK
<1>e. limit' \in [Trigger -> Nat] /\ edges' \in [Trigger -> Nat]
  BY <1>m, <1>1, SizesAreLimits DEF Inv, TypeOK
<1>2. state' \in [Trigger -> States]
  <2>1. state' = [t \in Trigger |-> StateOf(t, edges'[t], curr'[t])]
    BY DEF TransitStates
  <2> QED
    BY <1>1, <1>e, <2>1, StateOfRange
<1>3. WorstFiles(state') \in States /\ WorstBlocks(state') \in States
  BY <1>2, WorstAreStates
<1>4. Balanced(FilesRow(WorstFiles(state'), ds))
      /\ FilesRow(WorstFiles(state'), ds).read \in {0, ds.read}
  BY <1>3, FilesRowBalanced DEF Inv, Conserved
<1>5. Balanced(BlocksRow(WorstBlocks(state'), ds))
      /\ BlocksRow(WorstBlocks(state'), ds).read \in {0, ds.read}
  BY <1>3, BlocksRowBalanced DEF Inv, Conserved
<1>6. actions' \in {ReadOnly, BlocksRow(WorstBlocks(state'), ds),
                    FilesRow(WorstFiles(state'), ds), actions}
      /\ (actions' = ReadOnly \/ scan # "scRead")
      /\ (scan = "scRead" => actions' = ReadOnly)
  BY DEF TransitStates, NewWeights
<1>7. scan' = scan /\ ds' = ds
  BY DEF TransitStates
<1>8. Balanced(actions') /\ (scan = "scWrite" => actions'.read = 0)
  <2>1. CASE scan = "scRead"
    BY <1>6, <2>1, ConstantRows
  <2>2. CASE scan # "scRead"
    <3>1. actions' \in {BlocksRow(WorstBlocks(state'), ds),
                        FilesRow(WorstFiles(state'), ds), actions}
      BY <2>2 DEF TransitStates, NewWeights
    <3> QED
      BY <3>1, <1>4, <1>5 DEF Inv, Conserved
  <2> QED
    BY <2>1, <2>2
<1>9. Conserved'
  BY <1>6, <1>7, <1>8 DEF Inv, Conserved
<1>10. ~Refused(actions')
  BY <1>8 DEF Refused, Balanced
<1> QED
  BY <1>1, <1>e, <1>2, <1>9, <1>10

\* A roll below the sum of the weights falls to an action with a weight.
LEMMA ChosenHasWeight ==
  ASSUME NEW a, Balanced(a), NEW roll \in 0 .. 99
  PROVE  /\ Chosen(roll, a) \in Takes \ {"none"}
         /\ a[Chosen(roll, a)] > 0
<1>1. /\ a.create \in Nat /\ a.read \in Nat /\ a.write \in Nat
      /\ a.delete \in Nat /\ a.unlink \in Nat
      /\ a.create + a.read + a.write + a.delete + a.unlink = 100
  BY DEF Sum, Weights, Balanced
<1>2. CASE roll < a.read
  BY <1>1, <1>2 DEF Chosen, Takes
<1>3. CASE roll >= a.read /\ roll < a.read + a.create
  BY <1>1, <1>3 DEF Chosen, Takes
<1>4. CASE roll >= a.read + a.create /\ roll < a.read + a.create + a.write
  BY <1>1, <1>4 DEF Chosen, Takes
<1>5. CASE /\ roll >= a.read + a.create + a.write
           /\ roll < a.read + a.create + a.write + a.delete
  BY <1>1, <1>5 DEF Chosen, Takes
<1>6. CASE roll >= a.read + a.create + a.write + a.delete
  BY <1>1, <1>6 DEF Chosen, Takes, Sum
<1> QED
  BY <1>1, <1>2, <1>3, <1>4, <1>5, <1>6

\* Neither a transition of the states nor a roll of the die breaks it.
LEMMA NextInv == Inv /\ [Next]_vars => Inv'
<1> SUFFICES ASSUME Inv, [Next]_vars PROVE Inv'
  OBVIOUS
<1>1. CASE TransitStates
  <2>1. /\ Conserved'
        /\ curr' \in [Trigger -> Nat] /\ state' \in [Trigger -> States]
        /\ limit' \in [Trigger -> Nat] /\ edges' \in [Trigger -> Nat]
        /\ size' \in [DiskTrigger -> Nat]
    BY <1>1, TransitKeepsConserved
  <2>2. ds' \in Weights /\ actions' \in Weights
    BY <2>1 DEF Conserved, Balanced
  <2>3. scan' \in Scans /\ take' \in Takes /\ phase' \in {"measure", "decide", "ended"}
    BY <1>1 DEF Inv, TypeOK, TransitStates
  <2> QED
    BY <2>1, <2>2, <2>3 DEF Inv, TypeOK
<1>2. CASE DecideOnAction
  <2>1. PICK roll \in 0 .. 99 :
          /\ take' = Chosen(roll, actions)
          /\ phase' = IF Chosen(roll, actions) = "none" THEN "ended" ELSE "measure"
    BY <1>2 DEF DecideOnAction
  <2>2. take' \in Takes
    BY <2>1, ChosenHasWeight DEF Inv, Conserved
  <2>3. phase' \in {"measure", "decide", "ended"}
    BY <2>1
  <2>4. UNCHANGED <<sizeVars, state, scan, ds, actions>>
    BY <1>2 DEF DecideOnAction
  <2> QED
    BY <2>2, <2>3, <2>4 DEF Inv, TypeOK, Conserved, sizeVars
<1>3. CASE UNCHANGED vars
  BY <1>3 DEF Inv, TypeOK, Conserved, vars, sizeVars
<1> QED
  BY <1>1, <1>2, <1>3 DEF Next

\* The types of the variables, and the conservation of weight.
THEOREM InvHolds == Spec => []Inv
BY InitInv, NextInv, PTL DEF Spec

\* Every state is one of StateEnum, and the weights transitStates puts in force
\* are percentages, whatever statfs returns.
THEOREM TypeCorrect == Spec => []TypeOK
<1>1. Inv => TypeOK
  BY DEF Inv
<1> QED
  BY <1>1, InvHolds, PTL

(***************************************************************************)
(* The properties.                                                         *)
(***************************************************************************)

\* Neither a table row whose weights fail verifyActionWeightsOf, nor a write
\* scanner left with a weight for read, nor a roll no action answers to ever
\* ends the process (transitStates, decideOnAction): a Full history
\* filesystem is the only thing that does.
THEOREM OnlyFullHistoryEndsHolds == Spec => []OnlyFullHistoryEnds
<1>1. Init => OnlyFullHistoryEnds
  BY DEF Init, OnlyFullHistoryEnds
<1>2. Inv /\ OnlyFullHistoryEnds /\ [Next]_vars => OnlyFullHistoryEnds'
  <2> SUFFICES ASSUME Inv, OnlyFullHistoryEnds, [Next]_vars
               PROVE  OnlyFullHistoryEnds'
    OBVIOUS
  <2>1. CASE TransitStates
    <3>1. ~Refused(actions')
      BY <2>1, TransitKeepsConserved
    <3>2. phase' = "ended" => HistoryBecomesFull(state')
      BY <2>1, <3>1 DEF TransitStates
    <3> QED
      BY <3>2 DEF HistoryBecomesFull, OnlyFullHistoryEnds
  <2>2. CASE DecideOnAction
    <3>1. PICK roll \in 0 .. 99 :
            phase' = IF Chosen(roll, actions) = "none" THEN "ended" ELSE "measure"
      BY <2>2 DEF DecideOnAction
    <3>2. Chosen(roll, actions) # "none"
      BY ChosenHasWeight DEF Inv, Conserved
    <3> QED
      BY <3>1, <3>2 DEF OnlyFullHistoryEnds
  <2>3. CASE UNCHANGED vars
    BY <2>3 DEF OnlyFullHistoryEnds, vars
  <2> QED
    BY <2>1, <2>2, <2>3 DEF Next
<1> QED
  BY <1>1, <1>2, InvHolds, PTL DEF Spec

\* The weights in force are the row of a table for the present states, although
\* transitStates recomputes them only when a trigger rotates.
THEOREM WeightsAreCurrentHolds == Spec => []WeightsAreCurrent
<1>1. Init => WeightsAreCurrent
  <2> SUFFICES ASSUME Init PROVE FilesRow(WorstFiles(state), ds) = actions
    BY DEF WeightsAreCurrent
  <2>1. WorstFiles(state) = stNormal
    BY DEF Init, WorstFiles, Worse, Trigger
  <2>2. FilesRow(stNormal, ds) = ds
    BY FilesRows DEF States, stNormal, stEmpty, stFull
  <2> QED
    BY <2>1, <2>2 DEF Init
<1>2. WeightsAreCurrent /\ [Next]_vars => WeightsAreCurrent'
  <2> SUFFICES ASSUME WeightsAreCurrent, [Next]_vars PROVE WeightsAreCurrent'
    OBVIOUS
  <2>1. CASE TransitStates
    <3> SUFFICES ASSUME scan # "scRead"
                 PROVE  actions' \in {FilesRow(WorstFiles(state'), ds),
                                      BlocksRow(WorstBlocks(state'), ds)}
      BY <2>1 DEF TransitStates, WeightsAreCurrent
    <3>1. actions' = NewWeights(state')
      BY <2>1 DEF TransitStates
    <3>2. CASE \E t \in BlockTriggers : state'[t] # state[t]
      BY <3>1, <3>2 DEF NewWeights
    <3>3. CASE /\ ~\E t \in BlockTriggers : state'[t] # state[t]
               /\ \E t \in FileTriggers : state'[t] # state[t]
      BY <3>1, <3>3 DEF NewWeights
    <3>4. CASE /\ ~\E t \in BlockTriggers : state'[t] # state[t]
               /\ ~\E t \in FileTriggers : state'[t] # state[t]
      <4>1. actions' = actions
        BY <3>1, <3>4 DEF NewWeights
      <4>2. WorstBlocks(state') = WorstBlocks(state)
        BY <3>4 DEF WorstBlocks, BlockTriggers
      <4>3. WorstFiles(state') = WorstFiles(state)
        BY <3>4 DEF WorstFiles, FileTriggers
      <4> QED
        BY <4>1, <4>2, <4>3 DEF WeightsAreCurrent
    <3> QED
      BY <3>2, <3>3, <3>4
  <2>2. CASE DecideOnAction
    BY <2>2 DEF DecideOnAction, WeightsAreCurrent
  <2>3. CASE UNCHANGED vars
    BY <2>3 DEF WeightsAreCurrent, vars
  <2> QED
    BY <2>1, <2>2, <2>3 DEF Next
<1> QED
  BY <1>1, <1>2, PTL DEF Spec

\* The dice never choose an action whose weight is zero, so a read scanner only
\* reads and a write scanner never does.
THEOREM TakenHasWeightHolds == Spec => []TakenHasWeight
<1>1. Init => TakenHasWeight
  BY DEF Init, TakenHasWeight
<1>2. Inv /\ TakenHasWeight /\ [Next]_vars => TakenHasWeight'
  <2> SUFFICES ASSUME Inv, TakenHasWeight, [Next]_vars PROVE TakenHasWeight'
    OBVIOUS
  <2>1. CASE TransitStates
    BY <2>1 DEF TransitStates, TakenHasWeight
  <2>2. CASE DecideOnAction
    <3>1. PICK roll \in 0 .. 99 : take' = Chosen(roll, actions)
      BY <2>2 DEF DecideOnAction
    <3>2. scan' = scan /\ actions' = actions
      BY <2>2 DEF DecideOnAction
    <3>3. Chosen(roll, actions) \in Takes \ {"none"} /\ actions[take'] > 0
      BY <3>1, ChosenHasWeight DEF Inv, Conserved
    <3>4. scan = "scRead" => take' = "read"
      BY <3>1, <3>3 DEF Inv, Conserved, ReadOnly, W, Takes
    <3>5. scan = "scWrite" => take' # "read"
      BY <3>3 DEF Inv, Conserved
    <3> QED
      BY <3>2, <3>3, <3>4, <3>5 DEF TakenHasWeight
  <2>3. CASE UNCHANGED vars
    BY <2>3 DEF TakenHasWeight, vars
  <2> QED
    BY <2>1, <2>2, <2>3 DEF Next
<1> QED
  BY <1>1, <1>2, InvHolds, PTL DEF Spec

\* The manual's hard minimum (doc/elham.html:603-607) is never in force, at any
\* limit: stateChangeOf asks for the soft edge first, the hard edge lies on or
\* below it, and HardEmpty is not entered.
THEOREM NeverHardEmptyHolds == Spec => []NeverHardEmpty
<1>1. Init => NeverHardEmpty
  BY DEF Init, NeverHardEmpty, stNormal, stHardEmpty
<1>2. Inv /\ NeverHardEmpty /\ [Next]_vars => NeverHardEmpty'
  <2> SUFFICES ASSUME Inv, NeverHardEmpty, [Next]_vars PROVE NeverHardEmpty'
    OBVIOUS
  <2>1. CASE TransitStates
    <3>1. curr' \in [Trigger -> Nat] /\ edges' \in [Trigger -> Nat]
          /\ state' = [t \in Trigger |-> StateOf(t, edges'[t], curr'[t])]
      BY <2>1, TransitKeepsConserved DEF TransitStates
    <3> QED
      BY <3>1, StateOfRange DEF NeverHardEmpty
  <2>2. CASE DecideOnAction
    BY <2>2 DEF DecideOnAction, NeverHardEmpty
  <2>3. CASE UNCHANGED vars
    BY <2>3 DEF NeverHardEmpty, vars
  <2> QED
    BY <2>1, <2>2, <2>3 DEF Next
<1> QED
  BY <1>1, <1>2, InvHolds, PTL DEF Spec

\* The edges of every limit of two or more keep an empty filesystem out of the
\* full states (initLimitsOf, stateChangeOf).
THEOREM EmptyIsNeverFullHolds == Spec => []EmptyIsNeverFull
<1>1. Init => EmptyIsNeverFull
  BY DEF Init, EmptyIsNeverFull, stNormal, stSoftFull
<1>2. Inv /\ EmptyIsNeverFull /\ [Next]_vars => EmptyIsNeverFull'
  <2> SUFFICES ASSUME Inv, EmptyIsNeverFull, [Next]_vars PROVE EmptyIsNeverFull'
    OBVIOUS
  <2>1. CASE TransitStates
    <3>1. curr' \in [Trigger -> Nat] /\ edges' \in [Trigger -> Nat]
          /\ state' = [t \in Trigger |-> StateOf(t, edges'[t], curr'[t])]
      BY <2>1, TransitKeepsConserved DEF TransitStates
    <3> QED
      BY <3>1, StateOfRange DEF EmptyIsNeverFull
  <2>2. CASE DecideOnAction
    BY <2>2 DEF DecideOnAction, sizeVars, EmptyIsNeverFull
  <2>3. CASE UNCHANGED vars
    BY <2>3 DEF EmptyIsNeverFull, sizeVars, vars
  <2> QED
    BY <2>1, <2>2, <2>3 DEF Next
<1> QED
  BY <1>1, <1>2, InvHolds, PTL DEF Spec

\* The edges of the files follow every resize but one to the number of blocks
\* there were (currFileSystem).
THEOREM FileEdgesFollowHolds == Spec => FileEdgesFollow
<1> DEFINE LimitIsSize == \A t \in DiskFiles : limit[t] \in {size[t], size[BlocksOf[t]]}
           Follow == \A t \in DiskFiles :
                       edges[t] = size[t] => edges'[t] = size'[t] \/ size'[t] = size[BlocksOf[t]]
<1>1. Init => LimitIsSize
  BY DEF Init, DiskTrigger
<1>2. Inv /\ LimitIsSize /\ [Next]_vars => LimitIsSize' /\ (Follow \/ UNCHANGED vars)
  <2> SUFFICES ASSUME Inv, LimitIsSize, [Next]_vars
               PROVE  LimitIsSize' /\ (Follow \/ UNCHANGED vars)
    OBVIOUS
  <2>1. CASE TransitStates
    <3> SUFFICES ASSUME NEW t \in DiskFiles
                 PROVE  /\ limit'[t] \in {size'[t], size'[BlocksOf[t]]}
                        /\ edges[t] = size[t] =>
                              edges'[t] = size'[t] \/ size'[t] = size[BlocksOf[t]]
      OBVIOUS
    <3>1. t \in Trigger /\ t \in DiskTrigger
      BY DEF DiskFiles, DiskTrigger, Trigger
    <3>2. BlocksOf[t] \in DiskTrigger
      BY DEF DiskTrigger
    <3>3. PICK m \in Measurements, silent \in Silences :
            /\ size' = [d \in DiskTrigger |-> IF d \in silent THEN size[d] ELSE m.size[d]]
            /\ limit' = NewLimits(size', silent) /\ edges' = NewEdges(size', silent)
      BY <2>1 DEF TransitStates
    <3>4. CASE t \in silent
      <4>a. PICK S \in SUBSET Shaky : silent = S \cup {BlocksOf[d] : d \in S}
        BY <3>3 DEF Silences
      <4>b. \A d \in S : d \in DiskFiles /\ BlocksOf[d] # t
        BY MeasuresAssumption DEF DiskFiles, BlocksOf
      <4>1. BlocksOf[t] \in silent
        BY <3>4, <4>a, <4>b
      <4>2. size'[t] = size[t] /\ size'[BlocksOf[t]] = size[BlocksOf[t]]
        BY <3>1, <3>2, <3>3, <3>4, <4>1
      <4>3. limit'[t] = limit[t] /\ edges'[t] = edges[t]
        BY <3>1, <3>3, <3>4 DEF NewLimits, NewEdges
      <4> QED
        BY <4>2, <4>3
    <3>5. CASE t \notin silent
      <4>1. limit'[t] \in {size'[t], size'[BlocksOf[t]]}
        BY <3>1, <3>3, <3>5 DEF NewLimits
      <4>2. edges'[t] = IF size'[t] = limit[t] THEN edges[t] ELSE size'[t]
        BY <3>1, <3>3, <3>5 DEF NewEdges
      <4> QED
        BY <4>1, <4>2
    <3> QED
      BY <3>4, <3>5
  <2>2. CASE DecideOnAction
    BY <2>2 DEF DecideOnAction, sizeVars
  <2>3. CASE UNCHANGED vars
    BY <2>3 DEF vars, sizeVars
  <2> QED
    BY <2>1, <2>2, <2>3 DEF Next
<1>3. (Follow \/ UNCHANGED vars) => [Follow]_vars
  OBVIOUS
<1>4. Spec => [][Follow]_vars
  BY <1>1, <1>2, <1>3, InvHolds, PTL DEF Spec
<1> QED
  BY <1>4 DEF FileEdgesFollow
=============================================================================
