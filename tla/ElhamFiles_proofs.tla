--------------------------- MODULE ElhamFiles_proofs ---------------------------
(***************************************************************************)
(* Theorems about ElhamFiles that hold for any number of processes, names, *)
(* inodes and blocks, whatever actions are in use and whatever the         *)
(* environment does: types, locks, and the absence of waiting cycles.      *)
(*                                                                         *)
(* The inductive invariant Inv.  TypeOK is not inductive on its own: the   *)
(* steps index the disk by the descriptors of a process, so it takes       *)
(* Located, which says what a process has open at each place.  That a lock *)
(* always has a holder who will release it (NoLeakedLock) says nothing of  *)
(* whether the user of a file has its lock; MetaHeld does, and mutual      *)
(* exclusion on meta files follows from it.                                *)
(***************************************************************************)
EXTENDS ElhamFiles, TLAPS

\* Places where a process has no data file open, and those where it uses the
\* meta file it has locked.
Choosing == {"idle", "exited", "probeData", "probeMeta", "openData",
             "openHistory", "writeHistory"}
UsePlaces == MetaLockPlaces \ {"closeMeta"}

\* What a process at each place has open and has chosen.
Located ==
  \A i \in Instance :
    /\ pc[i] \in Choosing => dfd[i] = None
    /\ pc[i] \in Choosing \cup {"lockData", "openMeta", "closeData"} => mfd[i] = None
    /\ pc[i] \in {"lockData", "openMeta", "lockMeta"} \cup (UsePlaces \ {"unlinkMeta"}) =>
         dfd[i] # None
    /\ pc[i] \in {"lockMeta"} \cup UsePlaces => mfd[i] # None
    /\ pc[i] \notin {"idle", "exited"} => name[i] # None /\ act[i] # None
    /\ pc[i] \in {"writeControl", "writeAgain", "writeRecord"} => stamp[i] # None

\* Whoever is past lockMeta has the meta file locked until it closes it.
MetaHeld == \A i \in Instance : UsesMeta(i) => mlock[mfd[i]] = i

\* A creator never gets further in its meta file than one slot for every block.
SlotBehind ==
  \A i \in Instance :
    /\ pc[i] = "writeControl" => slot[i] <= blk[i]
    /\ pc[i] \in {"writeAgain", "writeRecord"} => slot[i] <= blk[i] + 1

Inv == TypeOK /\ Located /\ SlotBehind /\ NoLeakedLock /\ MetaHeld

(***************************************************************************)
(* Types.                                                                  *)
(***************************************************************************)

\* The tree is empty and every process is in its idle loop.
LEMMA InitInv == Init => Inv
BY BoundsAssumption, ValuesAssumption
   DEF Init, Inv, TypeOK, DiskType, LockType, PlanType, FdType, BlockType, LogType,
       Located, SlotBehind, NoLeakedLock, MetaHeld, UsesMeta, MetaLockPlaces, UsePlaces,
       Choosing, Places, Reasons, NoHeader, NoRecord, NoControl, Controls, Block, Hole, Bad,
       Junk

\* Process i has a name and an action, and what it is about to use open.
LEMMA InUse ==
  ASSUME Inv, NEW i \in Instance
  PROVE  /\ pc[i] \notin {"idle", "exited"} => name[i] \in Name /\ act[i] \in AllOps
         /\ pc[i] \in {"lockData", "openMeta", "lockMeta"} \cup (UsePlaces \ {"unlinkMeta"}) =>
              dfd[i] \in Inode
         /\ pc[i] \in {"lockMeta"} \cup UsePlaces => mfd[i] \in Inode
         /\ pc[i] \in {"writeControl", "writeAgain", "writeRecord"} => stamp[i] \in Stamp
BY DEF Inv, TypeOK, PlanType, FdType, BlockType, Located

\* The end of a process.
LEMMA ExitType ==
  ASSUME TypeOK, NEW i \in Instance, NEW r \in Reasons, Exit(i, r)
  PROVE  LockType' /\ PlanType' /\ FdType' /\ BlockType' /\ LogType'
<1> DiskType /\ LockType /\ PlanType /\ FdType /\ BlockType /\ LogType
  BY DEF TypeOK
<1>1. LockType'
  BY DEF Exit, LockType
<1>2. PlanType'
  BY BoundsAssumption DEF Exit, PlanType, Goto, Places
<1>3. FdType'
  BY DEF Exit, FdType
<1>4. BlockType'
  BY BoundsAssumption DEF Exit, BlockType, Block
<1>5. LogType'
  BY DEF Exit, LogType
<1> QED
  BY <1>1, <1>2, <1>3, <1>4, <1>5

LEMMA JunkType == Junk \in Controls
BY BoundsAssumption DEF Junk, Controls, Block

\* What an alarm makes of a meta block is a meta block.
LEMMA OverwrittenType ==
  ASSUME NEW i, NEW s, NEW c \in Controls
  PROVE  Overwritten(i, s, c) \in Controls
<1>1. FrontLost(c) \in Controls
  BY DEF FrontLost, Controls
<1>2. [c EXCEPT !.corrupt = TRUE] \in Controls
  BY DEF Controls
<1> QED
  BY <1>1, <1>2, JunkType DEF Overwritten

\* What close and unlink leave of the records of a file nobody refers to.
LEMMA SweepDataType ==
  ASSUME DiskType, SweepData
  PROVE  record' \in [Inode -> [Block -> Stamp \cup {Hole, Bad}]]
BY DEF DiskType, SweepData, NoRecord

\* ... and of the header and the blocks of a meta file.
LEMMA SweepMetaType ==
  ASSUME DiskType, SweepMeta
  PROVE  /\ header' \in [Inode -> [blocks : 0 .. MaxBlocks, corrupt : BOOLEAN]]
         /\ control' \in [Inode -> [Block -> Controls]]
<1>1. header' \in [Inode -> [blocks : 0 .. MaxBlocks, corrupt : BOOLEAN]]
  BY BoundsAssumption DEF DiskType, SweepMeta, NoHeader
<1>2. NoControl \in [Block -> Controls]
  BY JunkType DEF NoControl
<1>3. control' \in [Inode -> [Block -> Controls]]
  BY <1>2 DEF DiskType, SweepMeta
<1> QED
  BY <1>1, <1>3

\* The dice choose among the five actions.
LEMMA OpsOfOne == \A i \in Instance : Ops[i] \subseteq AllOps
BY SwitchesAssumption

\* decideOnAction and the name loop of actionCreate.
LEMMA ChooseType ==
  ASSUME Inv, NEW i \in Instance,
         ChooseCreate(i) \/ ChooseExisting(i) \/ ProbeData(i) \/ ProbeMeta(i)
  PROVE  TypeOK'
<1> DiskType /\ LockType /\ PlanType /\ FdType /\ BlockType /\ LogType
  BY DEF Inv, TypeOK
<1>1. CASE ChooseCreate(i)
  <2>1. PlanType'
    BY <1>1, BoundsAssumption DEF ChooseCreate, PlanType, Goto, Places, AllOps
  <2> QED
    BY <1>1, <2>1 DEF ChooseCreate, TypeOK, DiskType, LockType, FdType, BlockType, LogType,
       diskVars, lockVars, fdVars, blockVars
<1>2. CASE ChooseExisting(i)
  <2>1. PlanType'
    BY <1>2, OpsOfOne DEF ChooseExisting, PlanType, Goto, Places
  <2> QED
    BY <1>2, <2>1 DEF ChooseExisting, TypeOK, DiskType, LockType, FdType, BlockType, LogType,
       diskVars, lockVars, fdVars, blockVars
<1>3. CASE ProbeData(i)
  <2>1. PlanType'
    BY <1>3, BoundsAssumption DEF ProbeData, RetryOrGiveUp, PlanType, Goto, Places
  <2> QED
    BY <1>3, <2>1 DEF ProbeData, TypeOK, DiskType, LockType, FdType, BlockType, LogType,
       diskVars, lockVars, fdVars, blockVars
<1>4. CASE ProbeMeta(i)
  <2>1. PlanType'
    BY <1>4, BoundsAssumption DEF ProbeMeta, RetryOrGiveUp, PlanType, Goto, Places
  <2> QED
    BY <1>4, <2>1 DEF ProbeMeta, TypeOK, DiskType, LockType, FdType, BlockType, LogType,
       diskVars, lockVars, fdVars, blockVars
<1> QED
  BY <1>1, <1>2, <1>3, <1>4

\* eh_OpenFile on the data file and on the meta file.
LEMMA OpenType ==
  ASSUME Inv, NEW i \in Instance,
         \/ OpenData(i) \/ LockData(i) \/ LoseData(i)
         \/ OpenMeta(i) \/ LockMeta(i) \/ LoseMeta(i)
  PROVE  TypeOK'
<1> DiskType /\ LockType /\ PlanType /\ FdType /\ BlockType /\ LogType
  BY DEF Inv, TypeOK
<1> USE DEF Goto
<1>1. CASE OpenData(i)
  <2>1. name[i] \in Name
    BY <1>1, InUse DEF OpenData
  <2>2. dlink' \in [Name -> Inode \cup {None}]
    BY <1>1, <2>1 DEF OpenData, FreeData, DiskType
  <2>3. FdType'
    BY <1>1, <2>1 DEF OpenData, FreeData, DiskType, FdType
  <2>4. pc' \in [Instance -> Places]
    BY <1>1 DEF OpenData, PlanType, Places
  <2> QED
    BY <1>1, <2>2, <2>3, <2>4 DEF OpenData, TypeOK, DiskType, LockType, PlanType,
       BlockType, LogType, diskVars, lockVars, planVars, blockVars
<1>2. CASE LockData(i)
  <2>1. dfd[i] \in Inode
    BY <1>2, InUse DEF LockData
  <2>2. LockType'
    BY <1>2, <2>1 DEF LockData, LockType
  <2>3. pc' \in [Instance -> Places]
    BY <1>2 DEF LockData, PlanType, Places
  <2> QED
    BY <1>2, <2>2, <2>3 DEF LockData, TypeOK, DiskType, LockType, PlanType, FdType,
       BlockType, LogType, diskVars, lockVars, planVars, fdVars, blockVars
<1>3. CASE LoseData(i)
  <2>1. DiskType'
    BY <1>3, SweepDataType DEF LoseData, DiskType
  <2>2. CASE Exit(i, "openFailures")
    BY <2>1, <2>2, ExitType DEF Inv, TypeOK, Reasons
  <2>3. CASE ~Exit(i, "openFailures")
    <3>1. /\ dfd' = [dfd EXCEPT ![i] = None] /\ pc' = [pc EXCEPT ![i] = "closeMeta"]
          /\ UNCHANGED <<lockVars, mfd, planVars, blockVars, dfcb, hq, why>>
      BY <1>3, <2>3 DEF LoseData
    <3>2. PlanType' /\ FdType'
      BY <3>1 DEF PlanType, FdType, planVars, Places
    <3> QED
      BY <2>1, <3>1, <3>2 DEF TypeOK, LockType, BlockType, LogType, lockVars, blockVars
  <2> QED
    BY <2>2, <2>3
<1>4. CASE OpenMeta(i)
  <2>1. name[i] \in Name
    BY <1>4, InUse DEF OpenMeta
  <2>2. mlink' \in [Name -> Inode \cup {None}]
    BY <1>4, <2>1 DEF OpenMeta, FreeMeta, DiskType
  <2>3. FdType'
    BY <1>4, <2>1 DEF OpenMeta, FreeMeta, DiskType, FdType
  <2>4. pc' \in [Instance -> Places]
    BY <1>4 DEF OpenMeta, PlanType, Places
  <2> QED
    BY <1>4, <2>2, <2>3, <2>4 DEF OpenMeta, TypeOK, DiskType, LockType, PlanType,
       BlockType, LogType, diskVars, lockVars, planVars, blockVars
<1>5. CASE LockMeta(i)
  <2>1. mfd[i] \in Inode
    BY <1>5, InUse DEF LockMeta
  <2>2. LockType'
    BY <1>5, <2>1 DEF LockMeta, LockType
  <2>3. pc' \in [Instance -> Places]
    BY <1>5 DEF LockMeta, PlanType, Places
  <2> QED
    BY <1>5, <2>2, <2>3 DEF LockMeta, TypeOK, DiskType, LockType, PlanType, FdType,
       BlockType, LogType, diskVars, lockVars, planVars, fdVars, blockVars
<1>6. CASE LoseMeta(i)
  <2>1. DiskType'
    BY <1>6, SweepDataType, SweepMetaType DEF LoseMeta, DiskType
  <2>2. CASE Exit(i, "openFailures")
    BY <2>1, <2>2, ExitType DEF Inv, TypeOK, Reasons
  <2>3. CASE ~Exit(i, "openFailures")
    <3>1. /\ mfd' = [mfd EXCEPT ![i] = None] /\ pc' = [pc EXCEPT ![i] = "closeMeta"]
          /\ UNCHANGED <<lockVars, dfd, planVars, blockVars, dfcb, hq, why>>
      BY <1>6, <2>3 DEF LoseMeta
    <3>2. PlanType' /\ FdType'
      BY <3>1 DEF PlanType, FdType, planVars, Places
    <3> QED
      BY <2>1, <3>1, <3>2 DEF TypeOK, LockType, BlockType, LogType, lockVars, blockVars
  <2> QED
    BY <2>2, <2>3
<1> QED
  BY <1>1, <1>2, <1>3, <1>4, <1>5, <1>6

\* A history entry on its own is a sequence of entries.
LEMMA OneEntry ==
  ASSUME NEW S, NEW e \in S
  PROVE  <<e>> \in Seq(S)
OBVIOUS

\* windHistory.
LEMMA WindType ==
  ASSUME LogType, NEW i \in Instance, NEW entries \in Seq(Entries), Wind(i, entries)
  PROVE  hq' \in [Instance -> Seq(Entries)]
<1>1. hq[i] \o entries \in Seq(Entries)
  BY DEF LogType
<1> QED
  BY <1>1 DEF Wind, LogType

\* Changing one block of one inode.
LEMMA PutBlock ==
  ASSUME NEW V, NEW f \in [Inode -> [Block -> V]],
         NEW x \in Inode, NEW b \in Block, NEW v \in V
  PROVE  /\ [f EXCEPT ![x][b] = v] \in [Inode -> [Block -> V]]
         /\ [f EXCEPT ![x][b] = v][x][b] = v
         /\ \A y \in Inode, c \in Block :
              y # x \/ c # b => [f EXCEPT ![x][b] = v][y][c] = f[y][c]
BY Zenon

\* The writing part of actionCreate.
LEMMA WriteType ==
  ASSUME Inv, NEW i \in Instance,
         WriteHeader(i) \/ WriteControl(i) \/ WriteAgain(i) \/ WriteRecord(i)
  PROVE  TypeOK'
<1> DiskType /\ LockType /\ PlanType /\ FdType /\ BlockType /\ LogType
  BY DEF Inv, TypeOK
<1> USE DEF Goto
<1>1. mfd[i] \in Inode /\ dfd[i] \in Inode
  BY InUse DEF WriteHeader, WriteControl, WriteAgain, WriteRecord, UsePlaces, MetaLockPlaces
<1>2. ASSUME NEW s \in Block, NEW c \in Controls, PutControl(i, s, c)
      PROVE  /\ control' \in [Inode -> [Block -> Controls]]
             /\ slot' \in [Instance -> 0 .. MaxBlocks]
  <2>1. [control EXCEPT ![mfd[i]][s] = c] \in [Inode -> [Block -> Controls]]
    BY <1>1, PutBlock DEF DiskType
  <2>2. s + 1 \in 0 .. MaxBlocks
    BY BoundsAssumption DEF Block
  <2> QED
    BY <1>2, <2>1, <2>2 DEF PutControl, BlockType
<1>3. ASSUME NextBlock(i)
      PROVE  pc' \in [Instance -> Places] /\ blk' \in [Instance -> Block]
  <2>1. header[mfd[i]].blocks \in 0 .. MaxBlocks
    BY <1>1 DEF DiskType
  <2>2. pc' \in [Instance -> Places]
    BY <1>3 DEF NextBlock, PlanType, Places
  <2>3. CASE blk[i] + 1 < header[mfd[i]].blocks
    <3>1. blk' = [blk EXCEPT ![i] = @ + 1]
      BY <1>3, <2>3 DEF NextBlock
    <3>2. blk[i] \in Block
      BY DEF BlockType
    <3>3. blk[i] + 1 \in Block
      BY <2>1, <2>3, <3>2, BoundsAssumption DEF Block
    <3> QED
      BY <2>2, <3>1, <3>3 DEF BlockType
  <2>4. CASE ~(blk[i] + 1 < header[mfd[i]].blocks)
    BY <1>3, <2>2, <2>4 DEF NextBlock, BlockType
  <2> QED
    BY <2>3, <2>4
<1>4. CASE WriteHeader(i)
  <2>1. PICK blocks \in 1 .. MaxBlocks, g \in FreshStamps :
          /\ header' = [header EXCEPT ![mfd[i]] = [blocks |-> blocks, corrupt |-> dfcb[i]]]
          /\ stamp' = [stamp EXCEPT ![i] = g]
          /\ \E S \in Shuffles(blocks) : picks' = [picks EXCEPT ![i] = S]
    BY <1>4 DEF WriteHeader
  <2>2. header' \in [Inode -> [blocks : 0 .. MaxBlocks, corrupt : BOOLEAN]]
    BY <1>1, <2>1, BoundsAssumption DEF DiskType, LogType
  <2>3. stamp' \in [Instance -> Stamp \cup {None}]
    BY <2>1 DEF FreshStamps, BlockType
  <2>4. picks' \in [Instance -> SUBSET Block]
    BY <2>1, BoundsAssumption DEF Shuffles, BlockType, Block
  <2>5. blk' \in [Instance -> Block] /\ slot' \in [Instance -> 0 .. MaxBlocks]
    BY <1>4, BoundsAssumption DEF WriteHeader, BlockType, Block
  <2>6. pc' \in [Instance -> Places]
    BY <1>4 DEF WriteHeader, PlanType, Places
  <2>7. hq' \in [Instance -> Seq(Entries)]
    <3>1. Entry("aeCreate", 0, FALSE) \in Entries
      BY BoundsAssumption DEF Entry, Entries, AllOps, Block
    <3>2. <<Entry("aeCreate", 0, FALSE)>> \in Seq(Entries)
      BY <3>1, OneEntry
    <3> QED
      BY <1>4, <3>2, WindType DEF WriteHeader
  <2> QED
    BY <1>4, <2>2, <2>3, <2>4, <2>5, <2>6, <2>7 DEF WriteHeader, TypeOK, DiskType, LockType,
       PlanType, FdType, BlockType, LogType, lockVars, planVars, fdVars
<1>5. CASE WriteControl(i)
  <2>1. stamp[i] \in Stamp /\ blk[i] \in Block /\ slot[i] \in Block
    BY <1>5, InUse, BoundsAssumption DEF WriteControl, BlockType, Inv, SlotBehind, Block
  <2>2. Described(i) \in Controls
    BY <2>1 DEF Described, Controls
  <2>3. control' \in [Inode -> [Block -> Controls]] /\ slot' \in [Instance -> 0 .. MaxBlocks]
    BY <1>2, <1>5, <2>1, <2>2, JunkType DEF WriteControl
  <2>4. CASE blk[i] \in picks[i]
    BY <1>5, <2>3, <2>4 DEF WriteControl, TypeOK, DiskType, LockType, PlanType, FdType,
       BlockType, LogType, lockVars, planVars, fdVars, Places
  <2>5. CASE blk[i] \notin picks[i]
    <3>1. pc' \in [Instance -> Places] /\ blk' \in [Instance -> Block]
      BY <1>3, <1>5, <2>5 DEF WriteControl
    <3> QED
      BY <1>5, <2>3, <3>1 DEF WriteControl, TypeOK, DiskType, LockType, PlanType, FdType,
         BlockType, LogType, lockVars, planVars, fdVars
  <2> QED
    BY <2>4, <2>5
<1>7. CASE WriteAgain(i)
  <2>1. stamp[i] \in Stamp /\ blk[i] \in Block /\ 0 \in Block
    BY <1>7, InUse, BoundsAssumption DEF WriteAgain, BlockType, Block
  <2>2. Described(i) \in Controls
    BY <2>1 DEF Described, Controls
  <2>3. control' \in [Inode -> [Block -> Controls]] /\ slot' \in [Instance -> 0 .. MaxBlocks]
    BY <1>2, <1>7, <2>1, <2>2 DEF WriteAgain
  <2>4. hq' \in [Instance -> Seq(Entries)]
    <3>1. Entry("aeCreate", -1, FALSE) \in Entries
      BY DEF Entry, Entries, AllOps
    <3>2. <<Entry("aeCreate", -1, FALSE)>> \in Seq(Entries)
      BY <3>1, OneEntry
    <3> QED
      BY <1>7, <3>2, WindType DEF WriteAgain
  <2>5. pc' \in [Instance -> Places]
    BY <1>7 DEF WriteAgain, PlanType, Places
  <2> QED
    BY <1>7, <2>3, <2>4, <2>5 DEF WriteAgain, TypeOK, DiskType, LockType, PlanType, FdType,
       BlockType, LogType, lockVars, planVars, fdVars
<1>6. CASE WriteRecord(i)
  <2>1. stamp[i] \in Stamp
    BY <1>6, InUse DEF WriteRecord
  <2>2. record' \in [Inode -> [Block -> Stamp \cup {Hole, Bad}]]
    <3>1. blk[i] \in Block
      BY DEF BlockType
    <3>2. \A v \in Stamp \cup {Hole, Bad} :
            [record EXCEPT ![dfd[i]][blk[i]] = v]
              \in [Inode -> [Block -> Stamp \cup {Hole, Bad}]]
      BY <1>1, <3>1, PutBlock DEF DiskType
    <3>3. CASE record' = record
      BY <3>3 DEF DiskType
    <3>4. CASE record' = [record EXCEPT ![dfd[i]][blk[i]] = stamp[i]]
      BY <2>1, <3>2, <3>4
    <3> QED
      BY <1>6, <3>3, <3>4 DEF WriteRecord
  <2>3. pc' \in [Instance -> Places] /\ blk' \in [Instance -> Block]
    BY <1>3, <1>6 DEF WriteRecord
  <2> QED
    BY <1>6, <2>2, <2>3 DEF WriteRecord, TypeOK, DiskType, LockType, PlanType, FdType,
       BlockType, LogType, lockVars, planVars, fdVars
<1> QED
  BY <1>4, <1>5, <1>6, <1>7

\* The header, verifyTheRecord and its alarm.
LEMMA VerifyType ==
  ASSUME Inv, NEW i \in Instance, ReadHeader(i) \/ Verify(i) \/ MarkCorrupt(i)
  PROVE  TypeOK'
<1> DiskType /\ LockType /\ PlanType /\ FdType /\ BlockType /\ LogType
  BY DEF Inv, TypeOK
<1> USE DEF Goto
<1>1. mfd[i] \in Inode
  BY InUse DEF ReadHeader, Verify, MarkCorrupt, UsePlaces, MetaLockPlaces
<1>2. CASE ReadHeader(i)
  <2>1. header[mfd[i]].blocks \in 0 .. MaxBlocks /\ header[mfd[i]].corrupt \in BOOLEAN
    BY <1>1 DEF DiskType
  <2>2. dfcb' \in [Instance -> BOOLEAN]
    BY <1>2, <2>1 DEF ReadHeader, LogType
  <2>3. picks' \in [Instance -> SUBSET Block]
    <3>1. 0 .. header[mfd[i]].blocks - 1 \subseteq Block
      BY <2>1, BoundsAssumption DEF Block
    <3> QED
      BY <1>2, <3>1 DEF ReadHeader, Shuffles, BlockType
  <2>4. pc' \in [Instance -> Places]
    BY <1>2 DEF ReadHeader, PlanType, Places
  <2> QED
    BY <1>2, <2>2, <2>3, <2>4 DEF ReadHeader, TypeOK, DiskType, LockType, PlanType, FdType,
       BlockType, LogType, diskVars, lockVars, planVars, fdVars
<1>3. CASE Verify(i)
  <2>1. PICK b \in picks[i] :
          /\ blk' = [blk EXCEPT ![i] = b]
          /\ picks' = [picks EXCEPT ![i] = @ \ {b}]
          /\ hq' = hq \/ Wind(i, <<Entry("aeRead", b, control[mfd[i]][b].corrupt)>>)
          /\ \/ pc' = [pc EXCEPT ![i] = IF LeavesLoop(i, b) THEN AfterLoop(i) ELSE "verify"]
             \/ pc' = [pc EXCEPT ![i] = "markCorrupt"]
    BY <1>3 DEF Verify
  <2>2. b \in Block
    BY DEF BlockType
  <2>3. blk' \in [Instance -> Block] /\ picks' \in [Instance -> SUBSET Block]
    BY <2>1, <2>2 DEF BlockType
  <2>4. hq' \in [Instance -> Seq(Entries)]
    <3> DEFINE e == Entry("aeRead", b, control[mfd[i]][b].corrupt)
    <3>0. control[mfd[i]][b].corrupt \in BOOLEAN
      BY <1>1, <2>2 DEF DiskType, Controls
    <3>1. e \in Entries
      BY <2>2, <3>0 DEF Entry, Entries, AllOps
    <3>2. <<e>> \in Seq(Entries)
      BY <3>1, OneEntry
    <3> QED
      BY <2>1, <3>2, WindType DEF LogType
  <2>5. pc' \in [Instance -> Places]
    BY <2>1 DEF AfterLoop, PlanType, Places
  <2> QED
    BY <1>3, <2>3, <2>4, <2>5 DEF Verify, TypeOK, DiskType, LockType, PlanType, FdType,
       BlockType, LogType, diskVars, lockVars, planVars, fdVars
<1>4. CASE MarkCorrupt(i)
  <2>1. LockType' /\ PlanType' /\ FdType' /\ BlockType' /\ LogType'
    BY <1>4, ExitType DEF MarkCorrupt, Inv, TypeOK, Reasons
  <2>2. control' \in [Inode -> [Block -> Controls]]
    <3>1. \A x \in Inode, s \in Block : Overwritten(i, s, control[x][s]) \in Controls
      BY OverwrittenType DEF DiskType
    <3>2. NoControl \in [Block -> Controls]
      BY JunkType DEF NoControl
    <3> QED
      BY <1>4, <3>1, <3>2 DEF MarkCorrupt, DiskType
  <2>3. header' \in [Inode -> [blocks : 0 .. MaxBlocks, corrupt : BOOLEAN]]
    BY <1>4, BoundsAssumption DEF MarkCorrupt, NoHeader, DiskType
  <2> QED
    BY <1>4, <2>1, <2>2, <2>3, SweepDataType DEF MarkCorrupt, TypeOK, DiskType
<1> QED
  BY <1>2, <1>3, <1>4

\* The removals of actionUnlink.
LEMMA UnlinkType ==
  ASSUME Inv, NEW i \in Instance, UnlinkData(i) \/ UnlinkMeta(i)
  PROVE  TypeOK'
<1> DiskType /\ LockType /\ PlanType /\ FdType /\ BlockType /\ LogType
  BY DEF Inv, TypeOK
<1> USE DEF Goto
<1>1. name[i] \in Name
  BY InUse DEF UnlinkData, UnlinkMeta
<1>2. CASE UnlinkData(i)
  <2>1. dlink' \in [Name -> Inode \cup {None}] /\ FdType'
    BY <1>1, <1>2 DEF UnlinkData, DiskType, FdType
  <2>2. LockType'
    BY <1>2 DEF UnlinkData, LockType
  <2>3. pc' \in [Instance -> Places]
    BY <1>2 DEF UnlinkData, PlanType, Places
  <2> QED
    BY <1>2, <2>1, <2>2, <2>3, SweepDataType DEF UnlinkData, TypeOK, DiskType, PlanType,
       BlockType, LogType, planVars, blockVars
<1>3. CASE UnlinkMeta(i)
  <2>1. mlink' \in [Name -> Inode \cup {None}] /\ FdType'
    BY <1>1, <1>3 DEF UnlinkMeta, DiskType, FdType
  <2>2. LockType'
    BY <1>3 DEF UnlinkMeta, LockType
  <2>3. pc' \in [Instance -> Places]
    BY <1>3 DEF UnlinkMeta, PlanType, Places
  <2> QED
    BY <1>3, <2>1, <2>2, <2>3, SweepMetaType DEF UnlinkMeta, TypeOK, DiskType, PlanType,
       BlockType, LogType, planVars, blockVars
<1> QED
  BY <1>2, <1>3

\* decideOnAction's clean-up and unwindHistory.
LEMMA CloseType ==
  ASSUME Inv, NEW i \in Instance,
         \/ CloseMeta(i) \/ CloseData(i)
         \/ OpenHistory(i) \/ LoseHistory(i) \/ WriteHistory(i)
  PROVE  TypeOK'
<1> DiskType /\ LockType /\ PlanType /\ FdType /\ BlockType /\ LogType
  BY DEF Inv, TypeOK
<1> USE DEF Goto
<1>1. CASE CloseMeta(i)
  <2>1. LockType' /\ FdType'
    BY <1>1 DEF CloseMeta, Unlocked, LockType, FdType
  <2>2. pc' \in [Instance -> Places]
    BY <1>1 DEF CloseMeta, PlanType, Places
  <2> QED
    BY <1>1, <2>1, <2>2, SweepMetaType DEF CloseMeta, TypeOK, DiskType, PlanType,
       BlockType, LogType, planVars, blockVars
<1>2. CASE CloseData(i)
  <2>1. LockType' /\ FdType'
    BY <1>2 DEF CloseData, Unlocked, LockType, FdType
  <2>2. BlockType'
    BY <1>2, BoundsAssumption DEF CloseData, BlockType, Block
  <2>3. PlanType'
    <3>1. CASE hq[i] = <<>> /\ pc' = [pc EXCEPT ![i] = "idle"] /\ Forget(i)
      BY <3>1, BoundsAssumption DEF Forget, PlanType, Places
    <3>2. CASE pc' = [pc EXCEPT ![i] = "openHistory"] /\ UNCHANGED planVars
      BY <3>2 DEF planVars, PlanType, Places
    <3> QED
      BY <1>2, <3>1, <3>2 DEF CloseData
  <2> QED
    BY <1>2, <2>1, <2>2, <2>3, SweepDataType DEF CloseData, TypeOK, DiskType, LogType
<1>3. CASE OpenHistory(i)
  <2>1. LockType'
    BY <1>3 DEF OpenHistory, LockType
  <2>2. pc' \in [Instance -> Places]
    BY <1>3 DEF OpenHistory, PlanType, Places
  <2> QED
    BY <1>3, <2>1, <2>2 DEF OpenHistory, TypeOK, DiskType, PlanType, FdType,
       BlockType, LogType, diskVars, planVars, fdVars, blockVars
<1>4. CASE LoseHistory(i)
  BY <1>4, ExitType DEF LoseHistory, Inv, TypeOK, Reasons, DiskType, diskVars
<1>5. CASE WriteHistory(i)
  <2>1. LockType'
    BY <1>5 DEF WriteHistory, LockType
  <2>2. LogType'
    <3>1. <<>> \in Seq(Entries)
      OBVIOUS
    <3> QED
      BY <1>5, <3>1 DEF WriteHistory, LogType
  <2>3. PlanType'
    BY <1>5, BoundsAssumption DEF WriteHistory, Forget, PlanType, Places
  <2> QED
    BY <1>5, <2>1, <2>2, <2>3 DEF WriteHistory, TypeOK, DiskType, FdType, BlockType,
       diskVars, fdVars, blockVars
<1> QED
  BY <1>1, <1>2, <1>3, <1>4, <1>5

\* Kills, restarts and damage.
LEMMA EnvironmentType ==
  ASSUME Inv
  PROVE  /\ \A i \in Instance : Crash(i) \/ Restart(i) => TypeOK'
         /\ \A x \in Inode, b \in Block : Rot(x, b) => TypeOK'
<1> DiskType /\ LockType /\ PlanType /\ FdType /\ BlockType /\ LogType
  BY DEF Inv, TypeOK
<1>1. ASSUME NEW i \in Instance, Crash(i) PROVE TypeOK'
  BY <1>1, ExitType, SweepDataType, SweepMetaType DEF Crash, Inv, TypeOK, Reasons, DiskType
<1>2. ASSUME NEW i \in Instance, Restart(i) PROVE TypeOK'
  <2>1. pc' \in [Instance -> Places] /\ why' \in [Instance -> Reasons]
    BY <1>2 DEF Restart, Goto, PlanType, LogType, Places, Reasons
  <2> QED
    BY <1>2, <2>1 DEF Restart, TypeOK, DiskType, LockType, PlanType, FdType, BlockType,
       LogType, diskVars, lockVars, planVars, fdVars, blockVars
<1>3. ASSUME NEW x \in Inode, NEW b \in Block, Rot(x, b) PROVE TypeOK'
  <2>1. record' \in [Inode -> [Block -> Stamp \cup {Hole, Bad}]]
    BY <1>3 DEF Rot, DiskType
  <2> QED
    BY <1>3, <2>1 DEF Rot, TypeOK, DiskType, LockType, PlanType, FdType, BlockType,
       LogType, lockVars, procVars, planVars, fdVars, blockVars
<1> QED
  BY <1>1, <1>2, <1>3

(***************************************************************************)
(* Places and locks.                                                       *)
(***************************************************************************)

\* What a process has open and has chosen follows from where it is.
LEMMA LocatedStep ==
  ASSUME Inv, NEW i \in Instance,
         Step(i) \/ ChooseCreate(i) \/ ChooseExisting(i) \/ Crash(i) \/ Restart(i)
  PROVE  Located'
<1> PlanType /\ FdType /\ BlockType /\ LockType /\ Located
  BY DEF Inv, TypeOK
<1> USE DEF Goto, Located, PlanType, FdType, BlockType, Choosing, UsePlaces, MetaLockPlaces,
           lockVars, planVars, fdVars, blockVars
<1>1. CASE ChooseCreate(i)
  BY <1>1, ValuesAssumption DEF ChooseCreate, AllOps
<1>2. CASE ChooseExisting(i)
  <2>1. PICK op \in AllOps, n \in Name :
          /\ act' = [act EXCEPT ![i] = op] /\ name' = [name EXCEPT ![i] = n]
    BY <1>2, OpsOfOne DEF ChooseExisting
  <2>2. /\ op # None /\ n # None /\ pc[i] = "idle"
        /\ pc' = [pc EXCEPT ![i] = "openData"]
        /\ dfd' = dfd /\ mfd' = mfd /\ stamp' = stamp
    BY <1>2, ValuesAssumption DEF ChooseExisting
  <2> QED
    BY <2>1, <2>2
<1>3. CASE ProbeData(i)
  BY <1>3, ValuesAssumption DEF ProbeData, RetryOrGiveUp
<1>4. CASE ProbeMeta(i)
  BY <1>4, ValuesAssumption DEF ProbeMeta, RetryOrGiveUp
<1>5. CASE OpenData(i)
  BY <1>5, ValuesAssumption DEF OpenData, FreeData
<1>6. CASE LockData(i)
  BY <1>6 DEF LockData
<1>7. CASE LoseData(i)
  BY <1>7 DEF LoseData, Exit
<1>8. CASE OpenMeta(i)
  BY <1>8, ValuesAssumption DEF OpenMeta, FreeMeta
<1>9. CASE LockMeta(i)
  BY <1>9 DEF LockMeta
<1>10. CASE LoseMeta(i)
  BY <1>10 DEF LoseMeta, Exit
<1>11. CASE WriteHeader(i)
  <2>1. PICK g \in Stamp : stamp' = [stamp EXCEPT ![i] = g]
    BY <1>11 DEF WriteHeader, FreshStamps
  <2>2. g # None
    BY ValuesAssumption
  <2>3. /\ pc[i] = "writeHeader" /\ pc' = [pc EXCEPT ![i] = "writeControl"]
        /\ dfd' = dfd /\ mfd' = mfd /\ act' = act /\ name' = name
    BY <1>11 DEF WriteHeader
  <2> QED
    BY <2>1, <2>2, <2>3
<1>12. CASE WriteControl(i)
  BY <1>12 DEF WriteControl, NextBlock
<1>13. CASE WriteRecord(i)
  BY <1>13 DEF WriteRecord, NextBlock
<1>26. CASE WriteAgain(i)
  BY <1>26 DEF WriteAgain
<1>14. CASE ReadHeader(i)
  BY <1>14 DEF ReadHeader
<1>15. CASE Verify(i)
  BY <1>15 DEF Verify, AfterLoop
<1>16. CASE MarkCorrupt(i)
  BY <1>16 DEF MarkCorrupt, Exit
<1>17. CASE UnlinkData(i)
  BY <1>17 DEF UnlinkData
<1>18. CASE UnlinkMeta(i)
  BY <1>18 DEF UnlinkMeta
<1>19. CASE CloseMeta(i)
  BY <1>19 DEF CloseMeta, Unlocked
<1>20. CASE CloseData(i)
  BY <1>20 DEF CloseData, Forget, Unlocked
<1>21. CASE OpenHistory(i)
  BY <1>21 DEF OpenHistory
<1>22. CASE LoseHistory(i)
  BY <1>22 DEF LoseHistory, Exit
<1>23. CASE WriteHistory(i)
  BY <1>23 DEF WriteHistory, Forget
<1>24. CASE Crash(i)
  BY <1>24 DEF Crash, Exit
<1>25. CASE Restart(i)
  BY <1>25 DEF Restart
<1> QED
  BY <1>1, <1>2, <1>3, <1>4, <1>5, <1>6, <1>7, <1>8, <1>9, <1>10, <1>11, <1>12, <1>13,
       <1>14, <1>15, <1>16, <1>17, <1>18, <1>19, <1>20, <1>21, <1>22, <1>23, <1>24,
       <1>25, <1>26 DEF Step

\* Slots are written block by block, and again from the first one.
LEMMA SlotBehindStep ==
  ASSUME Inv, NEW i \in Instance,
         Step(i) \/ ChooseCreate(i) \/ ChooseExisting(i) \/ Crash(i) \/ Restart(i)
  PROVE  SlotBehind'
<1> PlanType /\ BlockType /\ SlotBehind
  BY DEF Inv, TypeOK
<1> USE DEF Goto, SlotBehind, PlanType, BlockType, blockVars
<1>1. ASSUME \A j \in Instance \ {i} :
               pc'[j] = pc[j] /\ slot'[j] = slot[j] /\ blk'[j] = blk[j],
             pc'[i] \notin {"writeControl", "writeAgain", "writeRecord"}
      PROVE  SlotBehind'
  BY <1>1
<1>2. CASE \/ ChooseCreate(i) \/ ChooseExisting(i) \/ ProbeData(i) \/ ProbeMeta(i)
           \/ OpenData(i) \/ LockData(i) \/ OpenMeta(i) \/ LockMeta(i)
  BY <1>1, <1>2 DEF ChooseCreate, ChooseExisting, ProbeData, ProbeMeta, RetryOrGiveUp,
     OpenData, LockData, OpenMeta, LockMeta
<1>3. CASE LoseData(i) \/ LoseMeta(i) \/ LoseHistory(i) \/ MarkCorrupt(i) \/ Crash(i)
  BY <1>1, <1>3 DEF LoseData, LoseMeta, LoseHistory, MarkCorrupt, Crash, Exit
<1>4. CASE WriteHeader(i)
  BY <1>4, BoundsAssumption DEF WriteHeader, Block
<1>5. CASE WriteControl(i)
  <2>1. slot[i] <= blk[i] /\ slot' = [slot EXCEPT ![i] = slot[i] + 1]
        /\ slot[i] \in Nat /\ blk[i] \in Nat /\ blk[i] \in Block
    BY <1>5, BoundsAssumption DEF WriteControl, PutControl, Block
  <2>2. CASE blk[i] \in picks[i]
    BY <1>5, <2>1, <2>2 DEF WriteControl
  <2>3. CASE blk[i] \notin picks[i]
    <3>1. NextBlock(i)
      BY <1>5, <2>3 DEF WriteControl
    <3> QED
      BY <2>1, <3>1 DEF NextBlock
  <2> QED
    BY <2>2, <2>3
<1>6. CASE WriteAgain(i)
  BY <1>6, BoundsAssumption DEF WriteAgain, PutControl, Block
<1>7. CASE WriteRecord(i)
  BY <1>7, BoundsAssumption DEF WriteRecord, NextBlock, Block
<1>9. CASE ReadHeader(i)
  <2>1. /\ blk' = blk /\ slot' = slot
        /\ \E p \in {"closeMeta", "verify"} : pc' = [pc EXCEPT ![i] = p]
    BY <1>9 DEF ReadHeader
  <2> QED
    BY <1>1, <2>1
<1>10. CASE Verify(i)
  <2>1. /\ slot' = slot /\ \A j \in Instance \ {i} : blk'[j] = blk[j]
        /\ \E p \in {"closeMeta", "unlinkData", "verify", "markCorrupt"} :
              pc' = [pc EXCEPT ![i] = p]
    BY <1>10 DEF Verify, AfterLoop
  <2> QED
    BY <1>1, <2>1
<1>8. CASE \/ UnlinkData(i) \/ UnlinkMeta(i) \/ CloseMeta(i)
           \/ CloseData(i) \/ OpenHistory(i) \/ WriteHistory(i) \/ Restart(i)
  BY <1>1, <1>8 DEF UnlinkData, UnlinkMeta, CloseMeta,
     CloseData, OpenHistory, WriteHistory, Restart
<1> QED
  BY <1>2, <1>3, <1>4, <1>5, <1>6, <1>7, <1>8, <1>9, <1>10 DEF Step

\* A lock moves only with the descriptor it was taken on, and a descriptor is
\* closed only together with its lock.
LEMMA NoLeakedLockStep ==
  ASSUME Inv, NEW i \in Instance,
         Step(i) \/ ChooseCreate(i) \/ ChooseExisting(i) \/ Crash(i) \/ Restart(i)
  PROVE  NoLeakedLock'
<1> PlanType /\ FdType /\ LockType /\ Located /\ NoLeakedLock
  BY DEF Inv, TypeOK
<1> USE DEF Goto, NoLeakedLock, Located, LockType, PlanType, FdType, DataLockPlaces,
           MetaLockPlaces, Choosing, UsePlaces, lockVars, planVars, fdVars
<1>1. CASE ChooseCreate(i)
  BY <1>1, ValuesAssumption DEF ChooseCreate, AllOps
<1>2. CASE ChooseExisting(i)
  BY <1>2, ValuesAssumption, SwitchesAssumption DEF ChooseExisting
<1>3. CASE ProbeData(i)
  BY <1>3, ValuesAssumption DEF ProbeData, RetryOrGiveUp
<1>4. CASE ProbeMeta(i)
  BY <1>4, ValuesAssumption DEF ProbeMeta, RetryOrGiveUp
<1>5. CASE OpenData(i)
  BY <1>5, ValuesAssumption DEF OpenData, FreeData
<1>6. CASE LockData(i)
  BY <1>6 DEF LockData
<1>7. CASE LoseData(i)
  <2>1. CASE Exit(i, "openFailures")
    BY <2>1 DEF Exit
  <2>2. CASE ~Exit(i, "openFailures")
    <3>1. /\ pc' = [pc EXCEPT ![i] = "closeMeta"] /\ dfd' = [dfd EXCEPT ![i] = None]
          /\ pc[i] = "lockData"
          /\ dlock' = dlock /\ mlock' = mlock /\ hlock' = hlock
          /\ mfd' = mfd /\ name' = name
      BY <1>7, <2>2 DEF LoseData
    <3> QED
      BY <3>1
  <2> QED
    BY <2>1, <2>2
<1>8. CASE OpenMeta(i)
  BY <1>8, ValuesAssumption DEF OpenMeta, FreeMeta
<1>9. CASE LockMeta(i)
  BY <1>9 DEF LockMeta
<1>10. CASE LoseMeta(i)
  <2>1. CASE Exit(i, "openFailures")
    BY <2>1 DEF Exit
  <2>2. CASE ~Exit(i, "openFailures")
    <3>1. /\ pc' = [pc EXCEPT ![i] = "closeMeta"] /\ mfd' = [mfd EXCEPT ![i] = None]
          /\ pc[i] = "lockMeta"
          /\ dlock' = dlock /\ mlock' = mlock /\ hlock' = hlock
          /\ dfd' = dfd /\ name' = name
      BY <1>10, <2>2 DEF LoseMeta
    <3> QED
      BY <3>1
  <2> QED
    BY <2>1, <2>2
<1>11. CASE WriteHeader(i)
  BY <1>11, ValuesAssumption DEF WriteHeader, FreshStamps
<1>12. CASE WriteControl(i)
  BY <1>12 DEF WriteControl, NextBlock
<1>13. CASE WriteRecord(i)
  BY <1>13 DEF WriteRecord, NextBlock
<1>26. CASE WriteAgain(i)
  BY <1>26 DEF WriteAgain
<1>14. CASE ReadHeader(i)
  <2>1. /\ pc[i] = "readHeader"
        /\ \E p \in {"closeMeta", "verify"} : pc' = [pc EXCEPT ![i] = p]
        /\ dlock' = dlock /\ mlock' = mlock /\ hlock' = hlock
        /\ dfd' = dfd /\ mfd' = mfd /\ name' = name
    BY <1>14 DEF ReadHeader
  <2> QED
    BY <2>1
<1>15. CASE Verify(i)
  BY <1>15 DEF Verify, AfterLoop
<1>16. CASE MarkCorrupt(i)
  BY <1>16 DEF MarkCorrupt, Exit
<1>17. CASE UnlinkData(i)
  BY <1>17 DEF UnlinkData
<1>18. CASE UnlinkMeta(i)
  BY <1>18 DEF UnlinkMeta
<1>19. CASE CloseMeta(i)
  <2>1. /\ pc[i] = "closeMeta" /\ pc' = [pc EXCEPT ![i] = "closeData"]
        /\ mfd' = [mfd EXCEPT ![i] = None] /\ dfd' = dfd /\ name' = name
        /\ dlock' = dlock /\ hlock' = hlock /\ mlock' = Unlocked(mlock, mfd[i], i)
    BY <1>19 DEF CloseMeta
  <2>2. ASSUME NEW x \in Inode, mlock'[x] # None
        PROVE  mlock[x] = mlock'[x] /\ mlock[x] # i
    BY <2>1, <2>2, ValuesAssumption DEF Unlocked
  <2>3. \A x \in Inode : mlock'[x] # None =>
          mfd'[mlock'[x]] = x /\ pc'[mlock'[x]] \in MetaLockPlaces
    BY <2>1, <2>2
  <2>4. \A x \in Inode : dlock'[x] # None =>
          dfd'[dlock'[x]] = x /\ pc'[dlock'[x]] \in DataLockPlaces
    BY <2>1
  <2> QED
    BY <2>1, <2>3, <2>4
<1>20. CASE CloseData(i)
  <2>1. /\ pc[i] = "closeData" /\ dfd' = [dfd EXCEPT ![i] = None] /\ mfd' = mfd
        /\ dlock' = Unlocked(dlock, dfd[i], i) /\ mlock' = mlock /\ hlock' = hlock
        /\ \A j \in Instance \ {i} : pc'[j] = pc[j] /\ name'[j] = name[j]
    BY <1>20 DEF CloseData, Forget
  <2>2. ASSUME NEW x \in Inode, dlock'[x] # None
        PROVE  dlock[x] = dlock'[x] /\ dlock[x] # i
    BY <2>1, <2>2, ValuesAssumption DEF Unlocked
  <2>3. \A x \in Inode : dlock'[x] # None =>
          dfd'[dlock'[x]] = x /\ pc'[dlock'[x]] \in DataLockPlaces
    BY <2>1, <2>2
  <2>4. \A x \in Inode : mlock[x] # i
    BY <2>1, ValuesAssumption
  <2>5. \A n \in Name : hlock[n] # i
    BY <2>1, ValuesAssumption
  <2> QED
    BY <2>1, <2>3, <2>4, <2>5
<1>21. CASE OpenHistory(i)
  BY <1>21 DEF OpenHistory
<1>22. CASE LoseHistory(i)
  BY <1>22 DEF LoseHistory, Exit
<1>23. CASE WriteHistory(i)
  BY <1>23 DEF WriteHistory, Forget
<1>24. CASE Crash(i)
  BY <1>24 DEF Crash, Exit
<1>25. CASE Restart(i)
  BY <1>25 DEF Restart
<1> QED
  BY <1>1, <1>2, <1>3, <1>4, <1>5, <1>6, <1>7, <1>8, <1>9, <1>10, <1>11, <1>12, <1>13,
       <1>14, <1>15, <1>16, <1>17, <1>18, <1>19, <1>20, <1>21, <1>22, <1>23, <1>24,
       <1>25, <1>26 DEF Step

\* Nobody takes away the lock of a process that uses a meta file.
LEMMA MetaHeldStep ==
  ASSUME Inv, NEW i \in Instance,
         Step(i) \/ ChooseCreate(i) \/ ChooseExisting(i) \/ Crash(i) \/ Restart(i)
  PROVE  MetaHeld'
<1> PlanType /\ FdType /\ LockType /\ Located /\ NoLeakedLock /\ MetaHeld
  BY DEF Inv, TypeOK
<1> USE DEF Goto, MetaHeld, UsesMeta, NoLeakedLock, Located, LockType, PlanType, FdType,
           DataLockPlaces, MetaLockPlaces, Choosing, UsePlaces, lockVars, planVars, fdVars
<1>1. CASE ChooseCreate(i)
  BY <1>1, ValuesAssumption DEF ChooseCreate, AllOps
<1>2. CASE ChooseExisting(i)
  BY <1>2, ValuesAssumption, SwitchesAssumption DEF ChooseExisting
<1>3. CASE ProbeData(i)
  BY <1>3, ValuesAssumption DEF ProbeData, RetryOrGiveUp
<1>4. CASE ProbeMeta(i)
  BY <1>4, ValuesAssumption DEF ProbeMeta, RetryOrGiveUp
<1>5. CASE OpenData(i)
  BY <1>5, ValuesAssumption DEF OpenData, FreeData
<1>6. CASE LockData(i)
  BY <1>6 DEF LockData
<1>7. CASE LoseData(i)
  <2>1. CASE Exit(i, "openFailures")
    BY <2>1 DEF Exit
  <2>2. CASE ~Exit(i, "openFailures")
    <3>1. /\ pc' = [pc EXCEPT ![i] = "closeMeta"] /\ mlock' = mlock /\ mfd' = mfd
          /\ pc[i] = "lockData"
      BY <1>7, <2>2 DEF LoseData
    <3> QED
      BY <3>1
  <2> QED
    BY <2>1, <2>2
<1>8. CASE OpenMeta(i)
  BY <1>8, ValuesAssumption DEF OpenMeta, FreeMeta
<1>9. CASE LockMeta(i)
  <2>1. mlock' = [mlock EXCEPT ![mfd[i]] = i] /\ mlock[mfd[i]] = None /\ mfd[i] \in Inode
        /\ mfd' = mfd /\ pc[i] = "lockMeta" /\ \A j \in Instance \ {i} : pc'[j] = pc[j]
    BY <1>9 DEF LockMeta
  <2>2. ASSUME NEW j \in Instance, UsesMeta(j)', j # i
        PROVE  mlock'[mfd'[j]] = j
    <3>1. UsesMeta(j) /\ mlock[mfd[j]] = j
      BY <2>1, <2>2
    <3>2. mfd[j] \in Inode /\ mfd[j] # mfd[i]
      BY <2>1, <3>1, ValuesAssumption
    <3> QED
      BY <2>1, <3>1, <3>2
  <2> QED
    BY <2>1, <2>2
<1>10. CASE LoseMeta(i)
  <2>1. CASE Exit(i, "openFailures")
    BY <2>1 DEF Exit
  <2>2. CASE ~Exit(i, "openFailures")
    <3>1. /\ pc' = [pc EXCEPT ![i] = "closeMeta"] /\ mfd' = [mfd EXCEPT ![i] = None]
          /\ pc[i] = "lockMeta"
          /\ dlock' = dlock /\ mlock' = mlock /\ hlock' = hlock
          /\ dfd' = dfd /\ name' = name
      BY <1>10, <2>2 DEF LoseMeta
    <3> QED
      BY <3>1
  <2> QED
    BY <2>1, <2>2
<1>11. CASE WriteHeader(i)
  BY <1>11, ValuesAssumption DEF WriteHeader, FreshStamps
<1>12. CASE WriteControl(i)
  BY <1>12 DEF WriteControl, NextBlock
<1>13. CASE WriteRecord(i)
  BY <1>13 DEF WriteRecord, NextBlock
<1>26. CASE WriteAgain(i)
  BY <1>26 DEF WriteAgain
<1>14. CASE ReadHeader(i)
  <2>1. /\ pc[i] = "readHeader"
        /\ \E p \in {"closeMeta", "verify"} : pc' = [pc EXCEPT ![i] = p]
        /\ dlock' = dlock /\ mlock' = mlock /\ hlock' = hlock
        /\ dfd' = dfd /\ mfd' = mfd /\ name' = name
    BY <1>14 DEF ReadHeader
  <2> QED
    BY <2>1
<1>15. CASE Verify(i)
  BY <1>15 DEF Verify, AfterLoop
<1>16. CASE MarkCorrupt(i)
  BY <1>16 DEF MarkCorrupt, Exit
<1>17. CASE UnlinkData(i)
  BY <1>17 DEF UnlinkData
<1>18. CASE UnlinkMeta(i)
  BY <1>18 DEF UnlinkMeta
<1>19. CASE CloseMeta(i)
  BY <1>19 DEF CloseMeta, Unlocked
<1>20. CASE CloseData(i)
  BY <1>20 DEF CloseData, Forget, Unlocked
<1>21. CASE OpenHistory(i)
  BY <1>21 DEF OpenHistory
<1>22. CASE LoseHistory(i)
  BY <1>22 DEF LoseHistory, Exit
<1>23. CASE WriteHistory(i)
  BY <1>23 DEF WriteHistory, Forget
<1>24. CASE Crash(i)
  BY <1>24 DEF Crash, Exit
<1>25. CASE Restart(i)
  BY <1>25 DEF Restart
<1> QED
  BY <1>1, <1>2, <1>3, <1>4, <1>5, <1>6, <1>7, <1>8, <1>9, <1>10, <1>11, <1>12, <1>13,
       <1>14, <1>15, <1>16, <1>17, <1>18, <1>19, <1>20, <1>21, <1>22, <1>23, <1>24,
       <1>25, <1>26 DEF Step

\* Damage to a record moves no process and no lock.
LEMMA RotStep ==
  ASSUME Inv, NEW x \in Inode, NEW b \in Block, Rot(x, b)
  PROVE  Located' /\ SlotBehind' /\ NoLeakedLock' /\ MetaHeld'
BY DEF Rot, Inv, Located, SlotBehind, NoLeakedLock, MetaHeld, UsesMeta, lockVars, procVars, planVars,
       fdVars, blockVars

\* Every step preserves the invariant.
LEMMA NextInv == Inv /\ [Next]_vars => Inv'
<1> SUFFICES ASSUME Inv, [Next]_vars PROVE Inv'
  OBVIOUS
<1>1. ASSUME NEW i \in Instance,
             Step(i) \/ ChooseCreate(i) \/ ChooseExisting(i) \/ Crash(i) \/ Restart(i)
      PROVE  Inv'
  <2>1. TypeOK'
    BY <1>1, ChooseType, OpenType, WriteType, VerifyType, UnlinkType, CloseType,
       EnvironmentType DEF Step
  <2> QED
    BY <1>1, <2>1, LocatedStep, SlotBehindStep, NoLeakedLockStep, MetaHeldStep DEF Inv
<1>2. ASSUME NEW x \in Inode, NEW b \in Block, Rot(x, b) PROVE Inv'
  BY <1>2, EnvironmentType, RotStep DEF Inv
<1>3. CASE UNCHANGED vars
  BY <1>3 DEF Inv, TypeOK, DiskType, LockType, PlanType, FdType, BlockType, LogType, Located,
     SlotBehind, NoLeakedLock, MetaHeld, UsesMeta, vars, diskVars, lockVars, procVars, planVars,
     fdVars, blockVars
<1> QED
  BY <1>1, <1>2, <1>3 DEF Next

\* The invariant holds of every reachable state.
THEOREM InvHolds == Spec => []Inv
BY InitInv, NextInv, PTL DEF Spec

(***************************************************************************)
(* The properties every tree of files has, whatever the faults and the     *)
(* actions in use.                                                         *)
(***************************************************************************)

\* The variables keep their types: no step opens a file that is not there, goes
\* beyond the last block of a file, or counts past the last name of a create.
THEOREM TypeCorrect == Spec => []TypeOK
<1>1. Inv => TypeOK
  BY DEF Inv
<1> QED
  BY <1>1, InvHolds, PTL

\* Every return path of the actions, and every way a process can end, gives
\* back what it had locked (decideOnAction's clean-up, eh_CloseFile).
THEOREM NoLeakedLockHolds == Spec => []NoLeakedLock
<1>1. Inv => NoLeakedLock
  BY DEF Inv
<1> QED
  BY <1>1, InvHolds, PTL

\* The writer of a meta file is alone with that file, for any number of
\* processes, although data is opened without a lock by most of them.
THEOREM MetaExclusiveHolds == Spec => []MetaExclusive
<1>1. Inv => MetaExclusive
  <2> SUFFICES ASSUME Inv, NEW i \in Instance, NEW j \in Instance,
                      i # j, WritesMeta(i), UsesMeta(j)
               PROVE  mfd[i] # mfd[j]
    BY DEF MetaExclusive
  <2>1. UsesMeta(i)
    BY DEF WritesMeta, UsesMeta, MetaLockPlaces
  <2>2. mlock[mfd[i]] = i /\ mlock[mfd[j]] = j
    BY <2>1 DEF Inv, MetaHeld
  <2> QED
    BY <2>2
<1> QED
  BY <1>1, InvHolds, PTL

\* No set of processes, however large, waits on itself.  A process that waits
\* for a lock waits for one that is at lockMeta or past it; one at lockMeta
\* waits for one that is past it, and that one waits for nobody.
THEOREM NoWaitCycleHolds == Spec => []NoWaitCycle
<1>1. ASSUME Inv, NEW i \in Instance, NEW j \in Instance, WaitsFor(i, j)
      PROVE  \A k \in Instance : WaitsFor(j, k) =>
               \A l \in Instance : ~WaitsFor(k, l)
  <2> SUFFICES ASSUME NEW k \in Instance, WaitsFor(j, k)
               PROVE  \A l \in Instance : ~WaitsFor(k, l)
    OBVIOUS
  <2>1. /\ j # None /\ k # None
        /\ NoLeakedLock
    BY <1>1, ValuesAssumption DEF Inv
  <2>2. pc[j] \in DataLockPlaces \cup MetaLockPlaces \cup {"writeHistory"}
    BY <1>1, <2>1, InUse DEF WaitsFor, NoLeakedLock
  <2>3. pc[j] = "lockMeta" /\ mlock[mfd[j]] = k
    BY <2>2 DEF WaitsFor, DataLockPlaces, MetaLockPlaces
  <2>4. mfd[j] \in Inode
    BY <2>3, <1>1, InUse
  <2>5. pc[k] \in MetaLockPlaces
    BY <2>1, <2>3, <2>4 DEF NoLeakedLock
  <2> QED
    BY <2>5 DEF WaitsFor, MetaLockPlaces
<1>2. Inv => NoWaitCycle
  <2> SUFFICES ASSUME Inv, NEW S \in (SUBSET Instance) \ {{}},
                      \A i \in S : \E j \in S : WaitsFor(i, j)
               PROVE  FALSE
    BY DEF NoWaitCycle
  <2> S # {} /\ S \subseteq Instance
    OBVIOUS
  <2>1. PICK i : i \in S
    OBVIOUS
  <2>2. PICK j \in S : WaitsFor(i, j)
    BY <2>1
  <2>3. PICK k \in S : WaitsFor(j, k)
    BY <2>2
  <2>4. PICK l \in S : WaitsFor(k, l)
    BY <2>3
  <2> QED
    BY <1>1, <2>1, <2>2, <2>3, <2>4
<1> QED
  BY <1>2, InvHolds, PTL
==============================================================================
