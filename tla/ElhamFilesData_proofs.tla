------------------------- MODULE ElhamFilesData_proofs -------------------------
(***************************************************************************)
(* Meta blocks and data records of a tree that one process adds to.        *)
(*                                                                         *)
(* Readers open the data file without a lock, in the middle of a creation  *)
(* if they like.  What keeps a reader from seeing a record and a meta      *)
(* block that part is the lock on the meta file alone.  The argument: a    *)
(* name once linked keeps its two inodes, so processes that have the same  *)
(* data inode open have the same meta inode open (OpenIsLinked,            *)
(* OneNameEach) and exclude each other by its lock; a creation starts from *)
(* an empty meta file, so the Active blocks it finds there are its own     *)
(* (CreatesFresh), also those its misplaced second writes leave behind; so *)
(* the only moment when a meta block and its record differ is while their  *)
(* one writer is between the two (AllDescribed), or else the record was    *)
(* damaged and the alarm about it went over a part of the meta file: an    *)
(* alarm only turns meta blocks into junk or makes them astray (MarkKept), *)
(* and it stands for damage that stays (AlarmMeansDamage).                 *)
(*                                                                         *)
(* Unlink breaks the first premise, a second creating process the next     *)
(* one, a kill or a full filesystem the last.  Of a process on its own the *)
(* part that concerns alarms survives unlinks and kills; that argument is  *)
(* another one and stands at the end.                                      *)
(***************************************************************************)
EXTENDS ElhamFiles_proofs, ElhamFilesLost_proofs

\* The tree is only added to, and by one process: nobody unlinks, is killed, or
\* meets a full filesystem.
Gentle ==
  /\ \A i \in Instance : "aeUnlink" \notin Ops[i]
  /\ \A i, j \in Instance : "aeCreate" \in Ops[i] /\ "aeCreate" \in Ops[j] => i = j
  /\ Faults \subseteq {"rot"}

NothingUnlinked ==
  \A i \in Instance : act[i] # "aeUnlink" /\ pc[i] \notin {"unlinkData", "unlinkMeta"}

Naming  == {"openData", "lockData", "openMeta"}
Opening == {"lockMeta", "writeHeader"}
Writing == {"writeControl", "writeAgain", "writeRecord"}

\* Whoever creates is the one process that may.
OneCreator ==
  \A i \in Instance :
    /\ act[i] = "aeCreate" => "aeCreate" \in Ops[i]
    /\ pc[i] \in {"probeData", "probeMeta", "writeHeader"} \cup Writing => act[i] = "aeCreate"

\* An open descriptor refers to what the name refers to.
OpenIsLinked ==
  \A i \in Instance :
    /\ dfd[i] # None => dlink[name[i]] = dfd[i]
    /\ mfd[i] # None => mlink[name[i]] = mfd[i] /\ dfd[i] # None

\* No inode has two names.
OneNameEach ==
  \A n, m \in Name :
    /\ dlink[n] # None /\ dlink[n] = dlink[m] => n = m
    /\ mlink[n] # None /\ mlink[n] = mlink[m] => n = m

DataBeforeMeta == \A n \in Name : mlink[n] # None => dlink[n] # None

UnlinkedIsBlank ==
  \A x \in Inode : (\A n \in Name : mlink[n] # x) => control[x] = NoControl

\* A creation makes its meta file, and every Active block in it is its own.
CreatesFresh ==
  \A i \in Instance : act[i] = "aeCreate" =>
    /\ pc[i] \in Naming => mlink[name[i]] = None
    /\ pc[i] \in Opening => \A s \in Block : control[mfd[i]][s].stamp = None
    /\ pc[i] \in Writing => \A s \in Block :
         LET c == control[mfd[i]][s]
         IN  c.stamp = None \/ (c.stamp = stamp[i] /\ c.block # Astray)

\* Process i has written meta block c, the record it describes comes next.
Pending(i, x, c) == pc[i] \in {"writeAgain", "writeRecord"} /\ mfd[i] = x /\ Described(i) = c

\* An Active meta block describes its record, or its record is about to be written.
AllDescribed ==
  \A n \in Name, s \in Block :
    LET c == control[mlink[n]][s]
    IN  dlink[n] # None /\ mlink[n] # None /\ c.stamp # None =>
          \/ Describes(c, dlink[n])
          \/ \E i \in Instance : Pending(i, mlink[n], c)

Shape == /\ NothingUnlinked /\ OneCreator /\ OpenIsLinked /\ OneNameEach
         /\ DataBeforeMeta /\ UnlinkedIsBlank
DataInv == Inv /\ Gentle /\ Shape /\ CreatesFresh /\ AllDescribed /\ NoFalseAlarm

\* No process chooses an unlink, so none is ever about to make one.
LEMMA NothingUnlinkedStep ==
  ASSUME DataInv, NEW i \in Instance,
         Step(i) \/ ChooseCreate(i) \/ ChooseExisting(i) \/ Crash(i) \/ Restart(i)
  PROVE  NothingUnlinked'
<1> /\ Inv /\ DiskType /\ LockType /\ PlanType /\ FdType /\ BlockType
    /\ Located /\ NoLeakedLock /\ MetaHeld /\ Gentle
    /\ NothingUnlinked /\ OneCreator /\ OpenIsLinked /\ OneNameEach
    /\ DataBeforeMeta /\ UnlinkedIsBlank
  BY DEF DataInv, Shape, Inv, TypeOK
<1> USE DEF Goto, NothingUnlinked, PlanType, planVars
<1>1. CASE ChooseCreate(i)
  BY <1>1 DEF ChooseCreate
<1>2. CASE ChooseExisting(i)
  BY <1>2, OpsOfOne DEF ChooseExisting, Gentle
<1>3. CASE ProbeData(i)
  BY <1>3, ValuesAssumption DEF ProbeData, RetryOrGiveUp
<1>4. CASE ProbeMeta(i)
  BY <1>4, ValuesAssumption DEF ProbeMeta, RetryOrGiveUp
<1>5. CASE OpenData(i)
  BY <1>5, ValuesAssumption DEF OpenData, FreeData
<1>6. CASE LockData(i)
  BY <1>6 DEF LockData
<1>7. CASE LoseData(i)
  BY <1>7, ValuesAssumption DEF LoseData, Exit, AllOps
<1>8. CASE OpenMeta(i)
  BY <1>8, ValuesAssumption DEF OpenMeta, FreeMeta
<1>9. CASE LockMeta(i)
  BY <1>9 DEF LockMeta
<1>10. CASE LoseMeta(i)
  BY <1>10, ValuesAssumption DEF LoseMeta, Exit, AllOps
<1>11. CASE WriteHeader(i)
  BY <1>11, ValuesAssumption DEF WriteHeader, FreshStamps
<1>12. CASE WriteControl(i)
  BY <1>12 DEF WriteControl, NextBlock
<1>13. CASE WriteRecord(i)
  BY <1>13 DEF WriteRecord, NextBlock
<1>26. CASE WriteAgain(i)
  BY <1>26 DEF WriteAgain
<1>14. CASE ReadHeader(i)
  BY <1>14 DEF ReadHeader
<1>15. CASE Verify(i)
  BY <1>15 DEF Verify, AfterLoop
<1>16. CASE MarkCorrupt(i)
  BY <1>16, ValuesAssumption DEF MarkCorrupt, Exit, AllOps
<1>17. CASE UnlinkData(i)
  BY <1>17 DEF NothingUnlinked, UnlinkData
<1>18. CASE UnlinkMeta(i)
  BY <1>18 DEF NothingUnlinked, UnlinkMeta
<1>19. CASE CloseMeta(i)
  BY <1>19 DEF CloseMeta, Unlocked
<1>20. CASE CloseData(i)
  BY <1>20, ValuesAssumption DEF CloseData, Forget, AllOps
<1>21. CASE OpenHistory(i)
  BY <1>21 DEF OpenHistory
<1>22. CASE LoseHistory(i)
  BY <1>22, ValuesAssumption DEF LoseHistory, Exit, AllOps
<1>23. CASE WriteHistory(i)
  BY <1>23, ValuesAssumption DEF WriteHistory, Forget, AllOps
<1>24. CASE Crash(i)
  BY <1>24 DEF Gentle, Crash
<1>25. CASE Restart(i)
  BY <1>25 DEF Restart
<1> QED
  BY <1>1, <1>2, <1>3, <1>4, <1>5, <1>6, <1>7, <1>8, <1>9, <1>10, <1>11, <1>12, <1>13,
       <1>14, <1>15, <1>16, <1>17, <1>18, <1>19, <1>20, <1>21, <1>22, <1>23, <1>24,
       <1>25, <1>26 DEF Step

\* A process that creates was allowed to, and only a create probes and writes.
LEMMA OneCreatorStep ==
  ASSUME DataInv, NEW i \in Instance,
         Step(i) \/ ChooseCreate(i) \/ ChooseExisting(i) \/ Crash(i) \/ Restart(i)
  PROVE  OneCreator'
<1> PlanType /\ OneCreator
  BY DEF DataInv, Shape, Inv, TypeOK
<1> USE DEF Goto, OneCreator, Writing, PlanType, planVars
<1>1. ASSUME \A j \in Instance \ {i} : pc'[j] = pc[j] /\ act'[j] = act[j],
             act'[i] \in {act[i], None},
             pc'[i] \notin {"probeData", "probeMeta", "writeHeader"} \cup Writing
      PROVE  OneCreator'
  BY <1>1, ValuesAssumption DEF AllOps
<1>2. CASE ChooseCreate(i)
  BY <1>2 DEF ChooseCreate
<1>3. CASE ChooseExisting(i)
  <2>1. PICK op \in AllOps \ {"aeCreate"} : act' = [act EXCEPT ![i] = op]
    BY <1>3, OpsOfOne DEF ChooseExisting
  <2>2. pc' = [pc EXCEPT ![i] = "openData"]
    BY <1>3 DEF ChooseExisting
  <2> QED
    BY <2>1, <2>2
<1>4. CASE ProbeData(i) \/ ProbeMeta(i)
  BY <1>4 DEF ProbeData, ProbeMeta, RetryOrGiveUp
<1>5. CASE LockMeta(i) \/ WriteHeader(i)
  BY <1>5 DEF LockMeta, WriteHeader
<1>6. CASE WriteControl(i) \/ WriteAgain(i) \/ WriteRecord(i)
  BY <1>6 DEF WriteControl, WriteAgain, WriteRecord, NextBlock
<1>7. CASE OpenData(i) \/ LockData(i) \/ OpenMeta(i)
  BY <1>1, <1>7 DEF OpenData, LockData, OpenMeta
<1>8. CASE LoseData(i) \/ LoseMeta(i) \/ LoseHistory(i) \/ MarkCorrupt(i) \/ Crash(i)
  BY <1>1, <1>8 DEF LoseData, LoseMeta, LoseHistory, MarkCorrupt, Crash, Exit
<1>9. CASE ReadHeader(i)
  <2>1. /\ act' = act
        /\ \E p \in {"closeMeta", "verify"} : pc' = [pc EXCEPT ![i] = p]
    BY <1>9 DEF ReadHeader
  <2> QED
    BY <1>1, <2>1
<1>10. CASE Verify(i)
  <2>1. /\ act' = act
        /\ \E p \in {"closeMeta", "unlinkData", "verify", "markCorrupt"} :
              pc' = [pc EXCEPT ![i] = p]
    BY <1>10 DEF Verify, AfterLoop
  <2> QED
    BY <1>1, <2>1
<1>11. CASE UnlinkData(i) \/ UnlinkMeta(i) \/ CloseMeta(i) \/ OpenHistory(i) \/ Restart(i)
  BY <1>1, <1>11 DEF UnlinkData, UnlinkMeta, CloseMeta, OpenHistory, Restart
<1>12. CASE CloseData(i) \/ WriteHistory(i)
  BY <1>1, <1>12 DEF CloseData, WriteHistory, Forget
<1> QED
  BY <1>2, <1>3, <1>4, <1>5, <1>6, <1>7, <1>8, <1>9, <1>10, <1>11, <1>12 DEF Step

\* A descriptor is opened by name, and names keep their inodes.
LEMMA OpenIsLinkedStep ==
  ASSUME DataInv, NEW i \in Instance,
         Step(i) \/ ChooseCreate(i) \/ ChooseExisting(i) \/ Crash(i) \/ Restart(i)
  PROVE  OpenIsLinked'
<1> /\ Inv /\ DiskType /\ LockType /\ PlanType /\ FdType /\ BlockType
    /\ Located /\ NoLeakedLock /\ MetaHeld /\ Gentle
    /\ NothingUnlinked /\ OneCreator /\ OpenIsLinked /\ OneNameEach
    /\ DataBeforeMeta /\ UnlinkedIsBlank
  BY DEF DataInv, Shape, Inv, TypeOK
<1> USE DEF Goto, OpenIsLinked, Located, Choosing, UsePlaces, MetaLockPlaces, DiskType,
           PlanType, FdType, diskVars, planVars, fdVars
<1>1. CASE ChooseCreate(i)
  BY <1>1, ValuesAssumption DEF ChooseCreate, AllOps
<1>2. CASE ChooseExisting(i)
  BY <1>2, ValuesAssumption, OpsOfOne DEF ChooseExisting
<1>3. CASE ProbeData(i)
  BY <1>3, ValuesAssumption DEF ProbeData, RetryOrGiveUp
<1>4. CASE ProbeMeta(i)
  BY <1>4, ValuesAssumption DEF ProbeMeta, RetryOrGiveUp
<1>5. CASE OpenData(i)
  BY <1>5, ValuesAssumption DEF OpenData, FreeData
<1>6. CASE LockData(i)
  BY <1>6 DEF LockData
<1>7. CASE LoseData(i)
  <2>1. CASE Exit(i, "openFailures")
    BY <1>7, <2>1 DEF LoseData, Exit
  <2>2. CASE ~Exit(i, "openFailures")
    <3>1. /\ pc[i] = "lockData" /\ dfd' = [dfd EXCEPT ![i] = None] /\ mfd' = mfd
          /\ dlink' = dlink /\ mlink' = mlink /\ name' = name
      BY <1>7, <2>2 DEF LoseData
    <3> QED
      BY <3>1
  <2> QED
    BY <2>1, <2>2
<1>8. CASE OpenMeta(i)
  <2>1. /\ name[i] \in Name /\ dfd[i] # None
        /\ dlink' = dlink /\ dfd' = dfd /\ name' = name /\ pc[i] = "openMeta"
        /\ \A j \in Instance \ {i} : mfd'[j] = mfd[j]
    BY <1>8, InUse DEF OpenMeta
  <2>2. \A n \in Name : mlink[n] # None => mlink'[n] = mlink[n]
    BY <1>8, <2>1 DEF OpenMeta
  <2>3. mfd'[i] # None => mlink'[name[i]] = mfd'[i]
    BY <1>8, <2>1 DEF OpenMeta
  <2>4. \A j \in Instance : mfd[j] # None => name[j] \in Name
    BY InUse
  <2> QED
    BY <2>1, <2>2, <2>3, <2>4
<1>9. CASE LockMeta(i)
  BY <1>9 DEF LockMeta
<1>10. CASE LoseMeta(i)
  BY <1>10 DEF LoseMeta, Exit
<1>11. CASE WriteHeader(i)
  BY <1>11, ValuesAssumption DEF WriteHeader, FreshStamps
<1>12. CASE WriteControl(i)
  BY <1>12 DEF WriteControl, NextBlock
<1>13. CASE WriteRecord(i)
  BY <1>13 DEF WriteRecord, NextBlock
<1>26. CASE WriteAgain(i)
  BY <1>26 DEF WriteAgain
<1>14. CASE ReadHeader(i)
  BY <1>14 DEF ReadHeader
<1>15. CASE Verify(i)
  BY <1>15 DEF Verify, AfterLoop
<1>16. CASE MarkCorrupt(i)
  BY <1>16 DEF MarkCorrupt, Exit
<1>17. CASE UnlinkData(i)
  BY <1>17 DEF NothingUnlinked, UnlinkData
<1>18. CASE UnlinkMeta(i)
  BY <1>18 DEF NothingUnlinked, UnlinkMeta
<1>19. CASE CloseMeta(i)
  BY <1>19 DEF CloseMeta, Unlocked
<1>20. CASE CloseData(i)
  BY <1>20 DEF CloseData, Forget, Unlocked
<1>21. CASE OpenHistory(i)
  BY <1>21 DEF OpenHistory
<1>22. CASE LoseHistory(i)
  BY <1>22 DEF LoseHistory, Exit
<1>23. CASE WriteHistory(i)
  BY <1>23 DEF WriteHistory, Forget
<1>24. CASE Crash(i)
  BY <1>24 DEF Gentle, Crash
<1>25. CASE Restart(i)
  BY <1>25 DEF Restart
<1> QED
  BY <1>1, <1>2, <1>3, <1>4, <1>5, <1>6, <1>7, <1>8, <1>9, <1>10, <1>11, <1>12, <1>13,
       <1>14, <1>15, <1>16, <1>17, <1>18, <1>19, <1>20, <1>21, <1>22, <1>23, <1>24,
       <1>25, <1>26 DEF Step

\* A new name gets an inode nobody else refers to.
LEMMA OneNameEachStep ==
  ASSUME DataInv, NEW i \in Instance,
         Step(i) \/ ChooseCreate(i) \/ ChooseExisting(i) \/ Crash(i) \/ Restart(i)
  PROVE  OneNameEach'
<1> /\ Inv /\ DiskType /\ LockType /\ PlanType /\ FdType /\ BlockType
    /\ Located /\ NoLeakedLock /\ MetaHeld /\ Gentle
    /\ NothingUnlinked /\ OneCreator /\ OpenIsLinked /\ OneNameEach
    /\ DataBeforeMeta /\ UnlinkedIsBlank
  BY DEF DataInv, Shape, Inv, TypeOK
<1> USE DEF OneNameEach, DiskType, diskVars
<1>1. CASE ChooseCreate(i)
  BY <1>1 DEF ChooseCreate
<1>2. CASE ChooseExisting(i)
  BY <1>2 DEF ChooseExisting
<1>3. CASE ProbeData(i)
  BY <1>3 DEF ProbeData
<1>4. CASE ProbeMeta(i)
  BY <1>4 DEF ProbeMeta
<1>5. CASE OpenData(i)
  BY <1>5, ValuesAssumption DEF OpenData, FreeData
<1>6. CASE LockData(i)
  BY <1>6 DEF LockData
<1>7. CASE LoseData(i)
  BY <1>7 DEF LoseData
<1>8. CASE OpenMeta(i)
  BY <1>8, ValuesAssumption DEF OpenMeta, FreeMeta
<1>9. CASE LockMeta(i)
  BY <1>9 DEF LockMeta
<1>10. CASE LoseMeta(i)
  BY <1>10 DEF LoseMeta
<1>11. CASE WriteHeader(i)
  BY <1>11 DEF WriteHeader
<1>12. CASE WriteControl(i)
  BY <1>12 DEF WriteControl
<1>13. CASE WriteRecord(i)
  BY <1>13 DEF WriteRecord
<1>26. CASE WriteAgain(i)
  BY <1>26 DEF WriteAgain
<1>14. CASE ReadHeader(i)
  BY <1>14 DEF ReadHeader
<1>15. CASE Verify(i)
  BY <1>15 DEF Verify
<1>16. CASE MarkCorrupt(i)
  BY <1>16 DEF MarkCorrupt
<1>17. CASE UnlinkData(i)
  BY <1>17 DEF NothingUnlinked, UnlinkData
<1>18. CASE UnlinkMeta(i)
  BY <1>18 DEF NothingUnlinked, UnlinkMeta
<1>19. CASE CloseMeta(i)
  BY <1>19 DEF CloseMeta
<1>20. CASE CloseData(i)
  BY <1>20 DEF CloseData
<1>21. CASE OpenHistory(i)
  BY <1>21 DEF OpenHistory
<1>22. CASE LoseHistory(i)
  BY <1>22 DEF LoseHistory
<1>23. CASE WriteHistory(i)
  BY <1>23 DEF WriteHistory
<1>24. CASE Crash(i)
  BY <1>24 DEF Gentle, Crash
<1>25. CASE Restart(i)
  BY <1>25 DEF Restart
<1> QED
  BY <1>1, <1>2, <1>3, <1>4, <1>5, <1>6, <1>7, <1>8, <1>9, <1>10, <1>11, <1>12, <1>13,
       <1>14, <1>15, <1>16, <1>17, <1>18, <1>19, <1>20, <1>21, <1>22, <1>23, <1>24,
       <1>25, <1>26 DEF Step

\* A create opens the data file before the meta file.
LEMMA DataBeforeMetaStep ==
  ASSUME DataInv, NEW i \in Instance,
         Step(i) \/ ChooseCreate(i) \/ ChooseExisting(i) \/ Crash(i) \/ Restart(i)
  PROVE  DataBeforeMeta'
<1> /\ Inv /\ DiskType /\ LockType /\ PlanType /\ FdType /\ BlockType
    /\ Located /\ NoLeakedLock /\ MetaHeld /\ Gentle
    /\ NothingUnlinked /\ OneCreator /\ OpenIsLinked /\ OneNameEach
    /\ DataBeforeMeta /\ UnlinkedIsBlank
  BY DEF DataInv, Shape, Inv, TypeOK
<1> USE DEF DataBeforeMeta, DiskType, OpenIsLinked, PlanType, diskVars
<1>1. CASE ChooseCreate(i)
  BY <1>1 DEF ChooseCreate
<1>2. CASE ChooseExisting(i)
  BY <1>2 DEF ChooseExisting
<1>3. CASE ProbeData(i)
  BY <1>3 DEF ProbeData
<1>4. CASE ProbeMeta(i)
  BY <1>4 DEF ProbeMeta
<1>5. CASE OpenData(i)
  BY <1>5, ValuesAssumption DEF OpenData, FreeData
<1>6. CASE LockData(i)
  BY <1>6 DEF LockData
<1>7. CASE LoseData(i)
  BY <1>7 DEF LoseData
<1>8. CASE OpenMeta(i)
  BY <1>8, ValuesAssumption DEF OpenMeta, Located
<1>9. CASE LockMeta(i)
  BY <1>9 DEF LockMeta
<1>10. CASE LoseMeta(i)
  BY <1>10 DEF LoseMeta
<1>11. CASE WriteHeader(i)
  BY <1>11 DEF WriteHeader
<1>12. CASE WriteControl(i)
  BY <1>12 DEF WriteControl
<1>13. CASE WriteRecord(i)
  BY <1>13 DEF WriteRecord
<1>26. CASE WriteAgain(i)
  BY <1>26 DEF WriteAgain
<1>14. CASE ReadHeader(i)
  BY <1>14 DEF ReadHeader
<1>15. CASE Verify(i)
  BY <1>15 DEF Verify
<1>16. CASE MarkCorrupt(i)
  BY <1>16 DEF MarkCorrupt
<1>17. CASE UnlinkData(i)
  BY <1>17 DEF NothingUnlinked, UnlinkData
<1>18. CASE UnlinkMeta(i)
  BY <1>18 DEF NothingUnlinked, UnlinkMeta
<1>19. CASE CloseMeta(i)
  BY <1>19 DEF CloseMeta
<1>20. CASE CloseData(i)
  BY <1>20 DEF CloseData
<1>21. CASE OpenHistory(i)
  BY <1>21 DEF OpenHistory
<1>22. CASE LoseHistory(i)
  BY <1>22 DEF LoseHistory
<1>23. CASE WriteHistory(i)
  BY <1>23 DEF WriteHistory
<1>24. CASE Crash(i)
  BY <1>24 DEF Gentle, Crash
<1>25. CASE Restart(i)
  BY <1>25 DEF Restart
<1> QED
  BY <1>1, <1>2, <1>3, <1>4, <1>5, <1>6, <1>7, <1>8, <1>9, <1>10, <1>11, <1>12, <1>13,
       <1>14, <1>15, <1>16, <1>17, <1>18, <1>19, <1>20, <1>21, <1>22, <1>23, <1>24,
       <1>25, <1>26 DEF Step

\* What open(O_CREAT) gives a new meta file holds no Active block.
LEMMA UnlinkedIsBlankStep ==
  ASSUME DataInv, NEW i \in Instance,
         Step(i) \/ ChooseCreate(i) \/ ChooseExisting(i) \/ Crash(i) \/ Restart(i)
  PROVE  UnlinkedIsBlank'
<1> /\ Inv /\ DiskType /\ LockType /\ PlanType /\ FdType /\ BlockType
    /\ Located /\ NoLeakedLock /\ MetaHeld /\ Gentle
    /\ NothingUnlinked /\ OneCreator /\ OpenIsLinked /\ OneNameEach
    /\ DataBeforeMeta /\ UnlinkedIsBlank
  BY DEF DataInv, Shape, Inv, TypeOK
<1> USE DEF UnlinkedIsBlank, DiskType, diskVars
<1>1. CASE ChooseCreate(i)
  BY <1>1 DEF ChooseCreate
<1>2. CASE ChooseExisting(i)
  BY <1>2 DEF ChooseExisting
<1>3. CASE ProbeData(i)
  BY <1>3 DEF ProbeData
<1>4. CASE ProbeMeta(i)
  BY <1>4 DEF ProbeMeta
<1>5. CASE OpenData(i)
  BY <1>5 DEF OpenData
<1>6. CASE LockData(i)
  BY <1>6 DEF LockData
<1>7. CASE LoseData(i)
  BY <1>7 DEF LoseData
<1>8. CASE OpenMeta(i)
  <2>1. control' = control /\ \A n \in Name : mlink[n] # None => mlink'[n] = mlink[n]
    BY <1>8, InUse DEF OpenMeta
  <2> QED
    BY <2>1, ValuesAssumption
<1>9. CASE LockMeta(i)
  BY <1>9 DEF LockMeta
<1>10. CASE LoseMeta(i)
  BY <1>10 DEF LoseMeta, SweepMeta
<1>11. CASE WriteHeader(i)
  BY <1>11 DEF WriteHeader
<1>12. CASE WriteControl(i)
  <2>1. mfd[i] \in Inode /\ name[i] \in Name /\ mlink[name[i]] = mfd[i] /\ mlink' = mlink
    BY <1>12, ValuesAssumption
       DEF WriteControl, OpenIsLinked, Located, UsePlaces, MetaLockPlaces, PlanType, FdType
  <2>2. \A y \in Inode : y # mfd[i] => control'[y] = control[y]
    BY <1>12, <2>1 DEF WriteControl, PutControl
  <2> QED
    BY <2>1, <2>2
<1>13. CASE WriteRecord(i)
  BY <1>13 DEF WriteRecord
<1>26. CASE WriteAgain(i)
  <2>1. mfd[i] \in Inode /\ name[i] \in Name /\ mlink[name[i]] = mfd[i] /\ mlink' = mlink
    BY <1>26, ValuesAssumption
       DEF WriteAgain, OpenIsLinked, Located, UsePlaces, MetaLockPlaces, PlanType, FdType
  <2>2. \A y \in Inode : y # mfd[i] => control'[y] = control[y]
    BY <1>26, <2>1 DEF WriteAgain, PutControl
  <2> QED
    BY <2>1, <2>2
<1>14. CASE ReadHeader(i)
  BY <1>14 DEF ReadHeader
<1>15. CASE Verify(i)
  BY <1>15 DEF Verify
<1>16. CASE MarkCorrupt(i)
  <2>1. mfd[i] \in Inode /\ name[i] \in Name /\ mlink[name[i]] = mfd[i]
    BY <1>16, ValuesAssumption
       DEF MarkCorrupt, OpenIsLinked, Located, UsePlaces, MetaLockPlaces, PlanType, FdType
  <2>2. ASSUME NEW y \in Inode, y # mfd[i], control[y] = NoControl
        PROVE  control'[y] = NoControl
    BY <1>16, <2>2 DEF MarkCorrupt, NoControl
  <2>3. mlink' = mlink
    BY <1>16 DEF MarkCorrupt
  <2> QED
    BY <2>1, <2>2, <2>3
<1>17. CASE UnlinkData(i)
  BY <1>17 DEF NothingUnlinked, UnlinkData
<1>18. CASE UnlinkMeta(i)
  BY <1>18 DEF NothingUnlinked, UnlinkMeta
<1>19. CASE CloseMeta(i)
  BY <1>19 DEF CloseMeta, SweepMeta
<1>20. CASE CloseData(i)
  BY <1>20 DEF CloseData
<1>21. CASE OpenHistory(i)
  BY <1>21 DEF OpenHistory
<1>22. CASE LoseHistory(i)
  BY <1>22 DEF LoseHistory
<1>23. CASE WriteHistory(i)
  BY <1>23 DEF WriteHistory
<1>24. CASE Crash(i)
  BY <1>24 DEF Gentle, Crash
<1>25. CASE Restart(i)
  BY <1>25 DEF Restart
<1> QED
  BY <1>1, <1>2, <1>3, <1>4, <1>5, <1>6, <1>7, <1>8, <1>9, <1>10, <1>11, <1>12, <1>13,
       <1>14, <1>15, <1>16, <1>17, <1>18, <1>19, <1>20, <1>21, <1>22, <1>23, <1>24,
       <1>25, <1>26 DEF Step

\* A linked file is not swept away.
LEMMA SweepSpares ==
  ASSUME DiskType
  PROVE  /\ SweepData => \A n \in Name, b \in Block :
              dlink'[n] \in Inode => record'[dlink'[n]][b] = record[dlink'[n]][b]
         /\ SweepMeta => \A n \in Name, b \in Block :
              mlink'[n] \in Inode => control'[mlink'[n]][b] = control[mlink'[n]][b]
BY DEF SweepData, SweepMeta, DataGone, MetaGone

\* A process moves nothing of another one.
LEMMA OthersKept ==
  ASSUME Inv, NEW i \in Instance, NEW j \in Instance \ {i},
         Step(i) \/ ChooseCreate(i) \/ ChooseExisting(i) \/ Crash(i) \/ Restart(i)
  PROVE  /\ pc'[j] = pc[j] /\ act'[j] = act[j] /\ name'[j] = name[j]
         /\ dfd'[j] = dfd[j] /\ mfd'[j] = mfd[j]
         /\ stamp'[j] = stamp[j] /\ blk'[j] = blk[j]
<1> PlanType /\ FdType /\ BlockType
  BY DEF Inv, TypeOK
<1> USE DEF Goto, PlanType, FdType, BlockType, planVars, fdVars, blockVars
<1>1. CASE ChooseCreate(i) \/ ChooseExisting(i) \/ ProbeData(i) \/ ProbeMeta(i)
  BY <1>1 DEF ChooseCreate, ChooseExisting, ProbeData, ProbeMeta, RetryOrGiveUp
<1>2. CASE OpenData(i) \/ LockData(i) \/ OpenMeta(i) \/ LockMeta(i)
  BY <1>2 DEF OpenData, LockData, OpenMeta, LockMeta
<1>3. CASE LoseData(i)
  BY <1>3 DEF LoseData, Exit
<1>4. CASE LoseMeta(i)
  BY <1>4 DEF LoseMeta, Exit
<1>5. CASE LoseHistory(i) \/ MarkCorrupt(i) \/ Crash(i)
  BY <1>5 DEF LoseHistory, MarkCorrupt, Crash, Exit
<1>6. CASE WriteHeader(i) \/ WriteControl(i) \/ WriteAgain(i) \/ WriteRecord(i)
  BY <1>6 DEF WriteHeader, WriteControl, WriteAgain, WriteRecord, NextBlock
<1>7. CASE ReadHeader(i) \/ Verify(i)
  BY <1>7 DEF ReadHeader, Verify
<1>8. CASE UnlinkData(i) \/ UnlinkMeta(i) \/ CloseMeta(i) \/ CloseData(i)
  BY <1>8 DEF UnlinkData, UnlinkMeta, CloseMeta, CloseData, Forget
<1>9. CASE OpenHistory(i) \/ WriteHistory(i) \/ Restart(i)
  BY <1>9 DEF OpenHistory, WriteHistory, Forget, Restart
<1> QED
  BY <1>1, <1>2, <1>3, <1>4, <1>5, <1>6, <1>7, <1>8, <1>9 DEF Step

\* The alarm of process i turns meta blocks of the file it has open into junk or
\* makes them astray, and touches no other file.
LEMMA MarkKept ==
  ASSUME DiskType, NEW i \in Instance, MarkCorrupt(i), NEW x \in Inode
  PROVE  /\ x # mfd[i] => control'[x] \in {control[x], NoControl}
         /\ \A s \in Block :
              \/ control'[x][s].stamp = None
              \/ control'[x][s] = control[x][s]
              \/ /\ x = mfd[i] /\ control'[x][s].stamp = control[x][s].stamp
                 /\ control'[x][s].block \in {control[x][s].block, Astray}
<1>1. control'[x] = IF MetaGone(x) THEN NoControl
                    ELSE IF x = mfd[i]
                         THEN [s \in Block |-> Overwritten(i, s, control[x][s])]
                         ELSE control[x]
  BY DEF MarkCorrupt
<1>2. ASSUME NEW s \in Block, NEW c \in Controls, NEW d, d = Overwritten(i, s, c)
      PROVE  \/ d.stamp = None
             \/ d.stamp = c.stamp /\ d.block \in {c.block, Astray}
  BY <1>2 DEF Overwritten, FrontLost, Junk, Controls
<1>3. \A s \in Block : control[x][s] \in Controls
  BY DEF DiskType
<1>4. \A s \in Block : NoControl[s].stamp = None
  BY DEF NoControl, Junk
<1> QED
  BY <1>1, <1>2, <1>3, <1>4

\* An alarm stands for damage.
LEMMA AlarmMeansDamage ==
  ASSUME Inv, NoFalseAlarm, NEW i \in Instance, pc[i] = "markCorrupt"
  PROVE  Damaged(dfd[i])
<1>1. mfd[i] \in Inode /\ blk[i] \in Block /\ DiskType
  BY InUse DEF UsePlaces, MetaLockPlaces, Inv, TypeOK, BlockType
<1>2. control[mfd[i]][blk[i]].block \in Block \cup {Astray}
  BY <1>1 DEF DiskType, Controls
<1> QED
  BY <1>2, BoundsAssumption DEF NoFalseAlarm, Genuine, RecordOf, Damaged, Astray

\* Outside of a creation meta blocks only turn into junk or, by an alarm, go
\* astray, and the records of a data file that has a name stay as they are.
LEMMA DiskKept ==
  ASSUME DataInv, NEW i \in Instance,
         Step(i) \/ ChooseCreate(i) \/ ChooseExisting(i) \/ Crash(i) \/ Restart(i),
         pc[i] \notin Writing
  PROVE  /\ \A x \in Inode, s \in Block :
              \/ control'[x][s] = control[x][s]
              \/ control'[x][s].stamp = None
              \/ /\ MarkCorrupt(i) /\ x = mfd[i]
                 /\ control'[x][s].stamp = control[x][s].stamp
                 /\ control'[x][s].block \in {control[x][s].block, Astray}
         /\ \A n \in Name, b \in Block :
              dlink'[n] \in Inode => record'[dlink'[n]][b] = record[dlink'[n]][b]
<1> DiskType /\ NothingUnlinked /\ Gentle
  BY DEF DataInv, Shape, Inv, TypeOK
<1> USE DEF DiskType, diskVars, Writing
<1>1. CASE \/ ChooseCreate(i) \/ ChooseExisting(i) \/ ProbeData(i) \/ ProbeMeta(i)
           \/ OpenData(i) \/ LockData(i) \/ OpenMeta(i) \/ LockMeta(i) \/ WriteHeader(i)
           \/ ReadHeader(i) \/ Verify(i) \/ OpenHistory(i) \/ LoseHistory(i) \/ WriteHistory(i)
           \/ Restart(i)
  <2>1. control' = control /\ record' = record
    BY <1>1 DEF ChooseCreate, ChooseExisting, ProbeData, ProbeMeta, OpenData, LockData,
       OpenMeta, LockMeta, WriteHeader, ReadHeader, Verify, OpenHistory, LoseHistory,
       WriteHistory, Restart
  <2> QED
    BY <2>1
<1>2. CASE LoseData(i) \/ CloseData(i)
  <2>1. control' = control /\ SweepData
    BY <1>2 DEF LoseData, CloseData
  <2> QED
    BY <2>1, SweepSpares
<1>3. CASE LoseMeta(i)
  BY <1>3, SweepSpares DEF LoseMeta, SweepMeta, NoControl, Junk
<1>4. CASE CloseMeta(i)
  BY <1>4 DEF CloseMeta, SweepMeta, NoControl, Junk
<1>5. CASE MarkCorrupt(i)
  <2>1. SweepData
    BY <1>5 DEF MarkCorrupt
  <2> QED
    BY <1>5, <2>1, SweepSpares, MarkKept
<1> QED
  BY <1>1, <1>2, <1>3, <1>4, <1>5
     DEF Step, Gentle, Crash, UnlinkData, UnlinkMeta, NothingUnlinked, WriteControl,
         WriteAgain, WriteRecord

\* Two processes that have the same meta file open past its lock are one.
LEMMA OneUser ==
  ASSUME Inv, NEW i \in Instance, NEW j \in Instance,
         UsesMeta(i), UsesMeta(j), mfd[i] = mfd[j]
  PROVE  i = j
BY DEF Inv, MetaHeld

\* The record that comes next is the one the meta blocks just written describe.
StillPending(i) == pc'[i] \in {"writeAgain", "writeRecord"} /\ blk'[i] = blk[i]

\* What the creator writes goes into the file it has locked, as a junk block or
\* as one that describes the record to be written next.
LEMMA WritingStep ==
  ASSUME DataInv, NEW i \in Instance,
         Step(i) \/ ChooseCreate(i) \/ ChooseExisting(i) \/ Crash(i) \/ Restart(i),
         pc[i] \in Writing
  PROVE  /\ mfd[i] \in Inode /\ dfd[i] \in Inode /\ name[i] \in Name
         /\ dlink[name[i]] = dfd[i] /\ mlink[name[i]] = mfd[i]
         /\ stamp[i] \in Stamp /\ blk[i] \in Block
         /\ UNCHANGED <<dlink, mlink, act, name, dfd, mfd, stamp>>
         /\ \A x \in Inode \ {mfd[i]} : control'[x] = control[x]
         /\ \A s \in Block :
              \/ control'[mfd[i]][s] \in {control[mfd[i]][s], Junk}
              \/ control'[mfd[i]][s] = Described(i) /\ StillPending(i)
         /\ \A x \in Inode, b \in Block : x # dfd[i] \/ b # blk[i] =>
              record'[x][b] = record[x][b]
         /\ IF pc[i] = "writeRecord" THEN record'[dfd[i]][blk[i]] = stamp[i]
            ELSE record' = record /\ (pc[i] = "writeAgain" => StillPending(i))
         /\ pc'[i] \in Writing \cup {"closeMeta"}
<1> /\ Inv /\ DiskType /\ PlanType /\ FdType /\ BlockType /\ Gentle /\ OpenIsLinked
    /\ SlotBehind
  BY DEF DataInv, Shape, Inv, TypeOK
<1>1. /\ mfd[i] \in Inode /\ dfd[i] \in Inode /\ name[i] \in Name
      /\ stamp[i] \in Stamp /\ blk[i] \in Block
  BY InUse DEF Writing, UsePlaces, MetaLockPlaces, BlockType
<1>2. dlink[name[i]] = dfd[i] /\ mlink[name[i]] = mfd[i]
  BY <1>1, ValuesAssumption DEF OpenIsLinked
<1>3. ASSUME NEW s \in Block, NEW c, PutControl(i, s, c)
      PROVE  /\ \A x \in Inode \ {mfd[i]} : control'[x] = control[x]
             /\ \A t \in Block \ {s} : control'[mfd[i]][t] = control[mfd[i]][t]
             /\ control'[mfd[i]][s] = c
  BY <1>1, <1>3 DEF PutControl, DiskType
<1> USE DEF Goto, PlanType, FdType, BlockType, planVars, fdVars, Writing, StillPending
<1>4. CASE WriteControl(i)
  <2>1. slot[i] \in Block
    BY <1>1, <1>4, BoundsAssumption DEF WriteControl, SlotBehind, Block
  <2>2. /\ UNCHANGED <<dlink, mlink, act, name, dfd, mfd, stamp, record>>
        /\ pc[i] = "writeControl"
    BY <1>4 DEF WriteControl
  <2>3. CASE blk[i] \in picks[i]
    <3>1. /\ PutControl(i, slot[i], Described(i))
          /\ pc' = [pc EXCEPT ![i] = "writeAgain"] /\ blk' = blk
      BY <1>4, <2>3 DEF WriteControl
    <3> QED
      BY <1>1, <1>2, <1>3, <2>1, <2>2, <3>1
  <2>4. CASE blk[i] \notin picks[i]
    <3>1. PutControl(i, slot[i], Junk) /\ NextBlock(i)
      BY <1>4, <2>4 DEF WriteControl
    <3>2. pc'[i] \in Writing \cup {"closeMeta"}
      BY <3>1 DEF NextBlock
    <3>3. /\ \A x \in Inode \ {mfd[i]} : control'[x] = control[x]
          /\ \A s \in Block : control'[mfd[i]][s] = control[mfd[i]][s]
               \/ control'[mfd[i]][s] = Junk
      BY <1>3, <2>1, <3>1
    <3> HIDE DEF PlanType, FdType, BlockType, StillPending
    <3> QED
      BY <1>1, <1>2, <2>2, <3>2, <3>3
  <2> QED
    BY <2>3, <2>4
<1>5. CASE WriteAgain(i)
  <2>1. /\ UNCHANGED <<dlink, mlink, act, name, dfd, mfd, stamp, record, blk>>
        /\ pc[i] = "writeAgain" /\ pc' = [pc EXCEPT ![i] = "writeRecord"]
        /\ PutControl(i, 0, Described(i)) /\ 0 \in Block
    BY <1>5, BoundsAssumption DEF WriteAgain, Block
  <2> QED
    BY <1>1, <1>2, <1>3, <2>1
<1>6. CASE WriteRecord(i)
  <2>1. /\ UNCHANGED <<dlink, mlink, act, name, dfd, mfd, stamp, control>>
        /\ pc[i] = "writeRecord"
        /\ record' = [record EXCEPT ![dfd[i]][blk[i]] = stamp[i]] /\ NextBlock(i)
    BY <1>6 DEF WriteRecord, Gentle
  <2>2. pc'[i] \in Writing \cup {"closeMeta"}
    BY <2>1 DEF NextBlock
  <2>3. /\ \A x \in Inode, b \in Block : x # dfd[i] \/ b # blk[i] =>
             record'[x][b] = record[x][b]
        /\ record'[dfd[i]][blk[i]] = stamp[i]
    BY <1>1, <2>1 DEF DiskType
  <2>4. /\ \A x \in Inode \ {mfd[i]} : control'[x] = control[x]
        /\ \A s \in Block : control'[mfd[i]][s] = control[mfd[i]][s]
    BY <2>1
  <2> HIDE DEF PlanType, FdType, BlockType, StillPending
  <2> QED
    BY <1>1, <1>2, <2>1, <2>2, <2>3, <2>4
<1> QED
  BY <1>4, <1>5, <1>6
     DEF Step, ChooseCreate, ChooseExisting, ProbeData, ProbeMeta, OpenData, LockData, LoseData,
         OpenMeta, LockMeta, LoseMeta, WriteHeader, ReadHeader, Verify, MarkCorrupt,
         UnlinkData, UnlinkMeta, CloseMeta, CloseData, OpenHistory, LoseHistory, WriteHistory,
         Crash, Restart, Gentle

\* A name keeps its inodes, and only a creation gives it new ones.
LEMMA LinksKept ==
  ASSUME DataInv, NEW i \in Instance,
         Step(i) \/ ChooseCreate(i) \/ ChooseExisting(i) \/ Crash(i) \/ Restart(i)
  PROVE  /\ \A n \in Name : dlink[n] # None => dlink'[n] = dlink[n]
         /\ \A n \in Name : mlink[n] # None => mlink'[n] = mlink[n]
         /\ \A n \in Name : mlink'[n] # mlink[n] =>
              act[i] = "aeCreate" /\ mlink'[n] \in FreeMeta
<1> Inv /\ DiskType /\ NothingUnlinked /\ Gentle
  BY DEF DataInv, Shape, Inv, TypeOK
<1> USE DEF DiskType, diskVars
<1>1. CASE OpenData(i)
  BY <1>1, InUse DEF OpenData
<1>2. CASE OpenMeta(i)
  BY <1>2, InUse DEF OpenMeta
<1>3. CASE ~OpenData(i) /\ ~OpenMeta(i)
  <2>1. dlink' = dlink /\ mlink' = mlink
    BY <1>3 DEF Step, ChooseCreate, ChooseExisting, ProbeData, ProbeMeta, LockData, LoseData,
       LockMeta, LoseMeta, WriteHeader, WriteControl, WriteAgain, WriteRecord, ReadHeader,
       Verify, MarkCorrupt, UnlinkData, UnlinkMeta, CloseMeta, CloseData, OpenHistory,
       LoseHistory, WriteHistory, Crash, Restart, NothingUnlinked, Gentle
  <2> QED
    BY <2>1
<1> QED
  BY <1>1, <1>2, <1>3

\* A file a process has locked is not written by another one.
LEMMA UsedMetaKept ==
  ASSUME DataInv, NEW i \in Instance, NEW j \in Instance \ {i}, UsesMeta(j),
         Step(i) \/ ChooseCreate(i) \/ ChooseExisting(i) \/ Crash(i) \/ Restart(i)
  PROVE  control'[mfd[j]] = control[mfd[j]]
<1> /\ Inv /\ DiskType /\ PlanType /\ Gentle /\ NothingUnlinked
  BY DEF DataInv, Shape, Inv, TypeOK
<1>1. mfd[j] \in Inode /\ mfd'[j] = mfd[j] /\ mfd[j] \in Inode
  BY InUse, OthersKept DEF UsesMeta, UsePlaces
<1>2. CASE pc[i] \in Writing
  <2>1. mfd[i] # mfd[j]
    BY <1>2, OneUser DEF UsesMeta, MetaLockPlaces, Writing
  <2> QED
    BY <1>1, <1>2, <2>1, WritingStep
<1>3. CASE MarkCorrupt(i)
  <2>1. mfd[i] # mfd[j]
    BY <1>3, OneUser DEF MarkCorrupt, UsesMeta, MetaLockPlaces
  <2>2. ~MetaGone(mfd[j])
    BY <1>1 DEF MetaGone
  <2> QED
    BY <1>1, <1>3, <2>1, <2>2 DEF MarkCorrupt
<1>4. CASE SweepMeta
  BY <1>1, <1>4 DEF SweepMeta, MetaGone
<1>5. CASE control' = control
  BY <1>5
<1> QED
  BY <1>2, <1>3, <1>4, <1>5
     DEF Step, ChooseCreate, ChooseExisting, ProbeData, ProbeMeta, OpenData, LockData, LoseData,
         OpenMeta, LockMeta, LoseMeta, WriteHeader, WriteControl, WriteAgain, WriteRecord,
         ReadHeader, Verify, UnlinkData, UnlinkMeta, CloseMeta, CloseData, OpenHistory,
         LoseHistory, WriteHistory, Crash, Restart, Gentle, NothingUnlinked, diskVars, Writing

\* Nobody else reaches the meta file of a creation, and it was empty at first.
LEMMA CreatesFreshStep ==
  ASSUME DataInv, NEW i \in Instance,
         Step(i) \/ ChooseCreate(i) \/ ChooseExisting(i) \/ Crash(i) \/ Restart(i)
  PROVE  CreatesFresh'
<1> /\ Inv /\ DiskType /\ PlanType /\ FdType /\ BlockType /\ Located
    /\ Gentle /\ OneCreator /\ UnlinkedIsBlank /\ CreatesFresh
  BY DEF DataInv, Shape, Inv, TypeOK
<1> DEFINE Fresh(j) ==
      /\ pc[j] \in Naming => mlink[name[j]] = None
      /\ pc[j] \in Opening => \A s \in Block : control[mfd[j]][s].stamp = None
      /\ pc[j] \in Writing => \A s \in Block :
           LET c == control[mfd[j]][s]
           IN  c.stamp = None \/ (c.stamp = stamp[j] /\ c.block # Astray)
<1>1. ASSUME NEW j \in Instance \ {i}, act'[j] = "aeCreate"
      PROVE  Fresh(j)'
  <2>1. /\ pc'[j] = pc[j] /\ act'[j] = act[j] /\ name'[j] = name[j]
        /\ mfd'[j] = mfd[j] /\ stamp'[j] = stamp[j]
    BY OthersKept DEF DataInv
  <2>2. act[i] # "aeCreate"
    BY <1>1, <2>1 DEF OneCreator, Gentle
  <2>3. pc[i] \notin Writing
    BY <2>2 DEF OneCreator
  <2>4. name[j] \in Name \cup {None} /\ mfd[j] \in Inode \cup {None}
    BY DEF PlanType, FdType
  <2>5. pc[j] \in Naming => name[j] \in Name
    BY InUse DEF Naming
  <2>6. pc[j] \in Opening \cup Writing => mfd[j] \in Inode
    BY InUse DEF Opening, Writing, UsePlaces, MetaLockPlaces
  <2>7. pc[j] \in Naming => mlink'[name[j]] = mlink[name[j]]
    BY <2>2, <2>5, LinksKept
  <2>8. pc[j] \in Opening => \A s \in Block :
          control'[mfd[j]][s].stamp \in {control[mfd[j]][s].stamp, None}
    BY <2>3, <2>6, DiskKept
  <2>10. pc[j] \in Writing => control'[mfd[j]] = control[mfd[j]]
    <3>1. j \in Instance \ {i} /\ (pc[j] \in Writing => UsesMeta(j))
      BY DEF Writing, UsesMeta, MetaLockPlaces
    <3> QED
      BY <3>1, UsedMetaKept
  <2>9. Fresh(j)
    BY <1>1, <2>1 DEF CreatesFresh
  <2> QED
    BY <2>1, <2>7, <2>8, <2>9, <2>10
<1>2. ASSUME act'[i] = "aeCreate"
      PROVE  Fresh(i)'
  <2>1. pc[i] \in Writing => Fresh(i)'
    <3> SUFFICES ASSUME pc[i] \in Writing PROVE Fresh(i)'
      OBVIOUS
    <3> DEFINE Own(c) == c.stamp = None \/ (c.stamp = stamp[i] /\ c.block # Astray)
    <3>1. \A s \in Block : Own(control[mfd[i]][s])
      BY <1>2, WritingStep DEF CreatesFresh
    <3>2. /\ mfd' = mfd /\ stamp' = stamp
          /\ \A s \in Block : Own(control'[mfd[i]][s])
      <4>0. blk[i] \in Block
        BY WritingStep
      <4>1. Own(Junk) /\ Own(Described(i))
        BY <4>0, BoundsAssumption DEF Junk, Described, Astray, Block
      <4> HIDE DEF Own
      <4> QED
        BY <3>1, <4>1, WritingStep
    <3> QED
      BY <3>2, WritingStep DEF Writing, Naming, Opening
  <2> SUFFICES ASSUME pc[i] \notin Writing PROVE Fresh(i)'
    BY <2>1
  <2> USE DEF Goto, PlanType, FdType, BlockType, planVars, fdVars, Naming, Opening, Writing
  <2>2. CASE pc'[i] \in Naming
    <3>1. CASE ChooseExisting(i)
      BY <1>2, <3>1, OpsOfOne DEF ChooseExisting
    <3>2. CASE ProbeMeta(i)
      BY <2>2, <3>2, ValuesAssumption DEF ProbeMeta, RetryOrGiveUp, diskVars
    <3>3. CASE OpenData(i) \/ LockData(i)
      BY <1>2, <2>2, <3>3, ValuesAssumption DEF OpenData, LockData, CreatesFresh, diskVars
    <3> QED
      BY <2>2, <3>1, <3>2, <3>3
         DEF Step, ChooseCreate, ProbeData, RetryOrGiveUp, LoseData, OpenMeta, LockMeta,
             LoseMeta, WriteHeader, WriteControl, WriteAgain, WriteRecord, ReadHeader, Verify,
             AfterLoop, MarkCorrupt, UnlinkData, UnlinkMeta, CloseMeta, CloseData, OpenHistory,
             LoseHistory, WriteHistory, Crash, Restart, Exit
  <2>3. CASE pc'[i] \in Opening
    <3>1. CASE OpenMeta(i)
      <4>1. /\ pc[i] = "openMeta" /\ act[i] = "aeCreate" /\ control' = control
        BY <1>2, <3>1 DEF OpenMeta
      <4>2. mlink[name[i]] = None
        BY <4>1 DEF CreatesFresh
      <4>3. mfd'[i] \in FreeMeta
        BY <2>3, <3>1, <4>1, <4>2 DEF OpenMeta
      <4>4. \A s \in Block : control'[mfd'[i]][s].stamp = None
        BY <4>1, <4>3 DEF FreeMeta, UnlinkedIsBlank, NoControl, Junk
      <4> QED
        BY <2>3, <4>4
    <3>2. CASE LockMeta(i)
      BY <1>2, <2>3, <3>2 DEF LockMeta, CreatesFresh, diskVars
    <3> QED
      BY <2>3, <3>1, <3>2
         DEF Step, ChooseCreate, ChooseExisting, ProbeData, ProbeMeta, RetryOrGiveUp, OpenData,
             LockData, LoseData,
             LoseMeta, WriteHeader, WriteControl, WriteAgain, WriteRecord, ReadHeader, Verify,
             AfterLoop, MarkCorrupt, UnlinkData, UnlinkMeta, CloseMeta, CloseData, OpenHistory,
             LoseHistory, WriteHistory, Crash, Restart, Exit
  <2>4. CASE pc'[i] \in Writing
    <3>1. CASE WriteHeader(i)
      BY <1>2, <2>4, <3>1 DEF WriteHeader, CreatesFresh
    <3> QED
      BY <2>4, <3>1
         DEF Step, ChooseCreate, ChooseExisting, ProbeData, ProbeMeta, RetryOrGiveUp, OpenData,
             LockData, LoseData, OpenMeta, LockMeta,
             LoseMeta, WriteControl, WriteAgain, WriteRecord, ReadHeader, Verify,
             AfterLoop, MarkCorrupt, UnlinkData, UnlinkMeta, CloseMeta, CloseData, OpenHistory,
             LoseHistory, WriteHistory, Crash, Restart, Exit
  <2> QED
    BY <2>2, <2>3, <2>4
<1> QED
  BY <1>1, <1>2 DEF CreatesFresh

\* Where a meta block and its record part, the writer of the record is on its way.
LEMMA AllDescribedStep ==
  ASSUME DataInv, NEW i \in Instance,
         Step(i) \/ ChooseCreate(i) \/ ChooseExisting(i) \/ Crash(i) \/ Restart(i)
  PROVE  AllDescribed'
<1> /\ Inv /\ DiskType /\ DiskType' /\ OneNameEach /\ DataBeforeMeta /\ UnlinkedIsBlank
    /\ AllDescribed /\ CreatesFresh /\ OneCreator /\ OpenIsLinked /\ NoFalseAlarm
  <2>1. Inv'
    BY NextInv DEF Next, DataInv
  <2> QED
    BY <2>1 DEF DataInv, Shape, Inv, TypeOK
<1> SUFFICES ASSUME NEW n \in Name, NEW s \in Block,
                    (dlink[n] # None)', (mlink[n] # None)',
                    (control[mlink[n]][s].stamp # None)'
             PROVE  \/ Describes(control[mlink[n]][s], dlink[n])'
                    \/ \E j \in Instance : Pending(j, mlink[n], control[mlink[n]][s])'
  BY DEF AllDescribed
<1>0. ASSUME NEW x, x = mlink'[n], NEW z, z = dlink'[n], NEW c, c = control'[x][s]
      PROVE  /\ Describes(c, z)' => Describes(control[mlink[n]][s], dlink[n])'
             /\ \A j \in Instance :
                  Pending(j, x, c)' => Pending(j, mlink[n], control[mlink[n]][s])'
  <2>1. Describes(c, z)' => Describes(control[mlink[n]][s], dlink[n])'
    BY <1>0 DEF Describes, Damaged
  <2>2. \A j \in Instance :
          Pending(j, x, c)' => Pending(j, mlink[n], control[mlink[n]][s])'
    BY <1>0 DEF Pending
  <2> QED
    BY <2>1, <2>2
<1> SUFFICES ASSUME NEW x, x = mlink'[n], NEW z, z = dlink'[n],
                    NEW c, c = control'[x][s], z # None, x # None, c.stamp # None
             PROVE  \/ Describes(c, z)'
                    \/ \E j \in Instance : Pending(j, x, c)'
  BY <1>0
<1>1. /\ x \in Inode /\ dlink'[n] \in Inode
      /\ c \in Controls /\ (c.block \in Block \/ c.block = Astray)
  <2>1. x \in Inode /\ dlink'[n] \in Inode
    BY DEF DiskType
  <2>2. c \in Controls
    BY <2>1 DEF DiskType
  <2> QED
    BY <2>1, <2>2 DEF Controls
<1>2. ASSUME NEW j \in Instance \ {i}, Pending(j, x, c) PROVE Pending(j, x, c)'
  BY <1>2, OthersKept DEF Pending, Described
<1>3. CASE pc[i] \notin Writing
  <2> DEFINE d == control[x][s]
  <2>1. /\ d.stamp = c.stamp
        /\ c # d => MarkCorrupt(i) /\ x = mfd[i] /\ c.block \in {d.block, Astray}
    BY <1>1, <1>3, DiskKept
  <2>2. mlink[n] = x
    <3>1. ASSUME x \in FreeMeta PROVE FALSE
      BY <2>1, <3>1 DEF FreeMeta, UnlinkedIsBlank, NoControl, Junk
    <3> QED
      BY <3>1, LinksKept
  <2>3. dlink[n] = dlink'[n] /\ dlink[n] # None /\ mlink[n] # None
    BY <2>2, LinksKept DEF DataBeforeMeta
  <2>4. \A b \in Block : record'[dlink[n]][b] = record[dlink[n]][b]
    BY <1>1, <1>3, <2>3, DiskKept
  <2>5. Describes(d, dlink[n]) \/ \E j \in Instance : Pending(j, x, d)
    BY <2>1, <2>2, <2>3 DEF AllDescribed
  <2>6. Describes(c, dlink[n]) => Describes(c, z)'
    BY <1>1, <2>3, <2>4 DEF Describes, Damaged
  <2>7. CASE c # d
    <3>1. MarkCorrupt(i) /\ pc[i] = "markCorrupt" /\ x = mfd[i]
      BY <2>1, <2>7 DEF MarkCorrupt
    <3>2. n = name[i] /\ dfd[i] = dlink[n]
      BY <1>1, <2>2, <3>1, InUse, ValuesAssumption
         DEF OpenIsLinked, OneNameEach, UsePlaces, MetaLockPlaces
    <3>3. CASE c.block = Astray
      BY <2>6, <3>1, <3>2, <3>3, AlarmMeansDamage DEF Describes
    <3>4. CASE c.block = d.block
      <4>1. \A j \in Instance : ~Pending(j, x, d)
        BY <3>1, OneUser DEF Pending, UsesMeta, MetaLockPlaces
      <4>2. Describes(c, dlink[n])
        BY <2>1, <2>5, <3>4, <4>1 DEF Describes
      <4> QED
        BY <2>6, <4>2
    <3> QED
      BY <2>1, <2>7, <3>3, <3>4
  <2>8. CASE c = d /\ \E j \in Instance : Pending(j, x, c)
    <3>1. PICK j \in Instance : Pending(j, x, c)
      BY <2>8
    <3>2. j # i
      BY <1>3, <3>1 DEF Pending, Writing
    <3>3. Pending(j, x, c)'
      BY <1>2, <3>1, <3>2
    <3> QED
      BY <3>3
  <2> QED
    BY <2>5, <2>6, <2>7, <2>8
<1>4. CASE pc[i] \in Writing
  <2>1. /\ mfd[i] \in Inode /\ dfd[i] \in Inode /\ name[i] \in Name
        /\ dlink[name[i]] = dfd[i] /\ mlink[name[i]] = mfd[i]
        /\ dlink' = dlink /\ mlink' = mlink /\ mfd' = mfd /\ stamp' = stamp
        /\ mlink[n] = x
    BY <1>4, WritingStep
  <2>2. CASE control[x][s] # c
    <3>1. x = mfd[i] /\ c = Described(i) /\ StillPending(i)
      BY <1>1, <1>4, <2>1, <2>2, WritingStep DEF Junk
    <3>2. Pending(i, x, c)'
      BY <2>1, <3>1 DEF Pending, Described, StillPending
    <3> QED
      BY <3>2
  <2>3. CASE control[x][s] = c
    <3>1. Describes(c, dlink[n]) \/ \E j \in Instance : Pending(j, x, c)
      BY <2>1, <2>3 DEF AllDescribed
    <3>4. CASE c.block = Astray
      <4>1. \A j \in Instance : ~Pending(j, x, c)
        <5>1. \A j \in Instance : blk[j] # Astray
          BY BoundsAssumption DEF Inv, TypeOK, BlockType, Block, Astray
        <5> QED
          BY <3>4, <5>1 DEF Pending, Described
      <4>2. dlink[n] # dfd[i]
        <5>1. SUFFICES ASSUME n = name[i] PROVE FALSE
          BY <1>1, <2>1 DEF OneNameEach
        <5>2. act[i] = "aeCreate"
          BY <1>4 DEF OneCreator
        <5> QED
          BY <1>4, <2>1, <2>3, <3>4, <5>1, <5>2 DEF CreatesFresh
      <4>3. \A b \in Block : record'[dlink'[n]][b] = record[dlink[n]][b]
        BY <1>1, <1>4, <2>1, <4>2, WritingStep
      <4> QED
        BY <2>1, <3>1, <3>4, <4>1, <4>3 DEF Describes, Damaged
    <3> SUFFICES ASSUME c.block \in Block
                 PROVE  \/ Describes(c, z)'
                        \/ \E j \in Instance : Pending(j, x, c)'
      BY <1>1, <3>4
    <3>5. c.block # Astray
      BY BoundsAssumption DEF Block, Astray
    <3>2. CASE dlink[n] = dfd[i] /\ c.block = blk[i] /\ pc[i] = "writeRecord"
      <4>1. n = name[i]
        BY <1>1, <2>1, <3>2 DEF OneNameEach
      <4>2. act[i] = "aeCreate"
        BY <1>4 DEF OneCreator
      <4>3. c.stamp = stamp[i]
        BY <1>4, <2>1, <2>3, <4>1, <4>2 DEF CreatesFresh
      <4>4. record'[dlink'[n]][c.block] = stamp[i]
        BY <1>4, <2>1, <3>2, WritingStep
      <4> QED
        BY <3>5, <4>3, <4>4 DEF Describes
    <3>3. CASE ~(dlink[n] = dfd[i] /\ c.block = blk[i] /\ pc[i] = "writeRecord")
      <4>1. record'[dlink'[n]][c.block] = record[dlink[n]][c.block]
        BY <1>1, <1>4, <2>1, <3>3, WritingStep
      <4>2. CASE \E j \in Instance : Pending(j, x, c)
        <5>1. PICK j \in Instance : Pending(j, x, c)
          BY <4>2
        <5>2. CASE j # i
          <6>1. Pending(j, x, c)'
            BY <1>2, <5>1, <5>2
          <6> QED
            BY <6>1
        <5>3. CASE j = i
          <6>1. n = name[i] /\ Described(i) = c /\ pc[i] \in {"writeAgain", "writeRecord"}
            BY <1>1, <2>1, <5>1, <5>3 DEF Pending, OneNameEach
          <6>2. pc[i] = "writeAgain"
            BY <2>1, <3>3, <6>1 DEF Described
          <6>3. StillPending(i)
            BY <1>4, <6>2, WritingStep
          <6>4. Pending(i, x, c)'
            BY <2>1, <5>1, <5>3, <6>3 DEF Pending, Described, StillPending
          <6> QED
            BY <6>4
        <5> QED
          BY <5>2, <5>3
      <4> QED
        BY <3>1, <3>5, <4>1, <4>2 DEF Describes
    <3> QED
      BY <3>2, <3>3
  <2> QED
    BY <2>2, <2>3
<1> QED
  BY <1>3, <1>4

\* The alarm is raised only over a damaged record, and stays true until the exit.
LEMMA NoFalseAlarmStep ==
  ASSUME DataInv, NEW i \in Instance,
         Step(i) \/ ChooseCreate(i) \/ ChooseExisting(i) \/ Crash(i) \/ Restart(i)
  PROVE  NoFalseAlarm'
<1> /\ Inv /\ DiskType /\ PlanType /\ FdType /\ OpenIsLinked /\ OneNameEach
    /\ AllDescribed /\ NoFalseAlarm
  BY DEF DataInv, Shape, Inv, TypeOK
<1>1. ASSUME NEW j \in Instance, j # i, pc'[j] = "markCorrupt"
      PROVE  Genuine(j)'
  <2>1. /\ pc[j] = "markCorrupt"
        /\ dfd'[j] = dfd[j] /\ mfd'[j] = mfd[j] /\ blk'[j] = blk[j]
    BY <1>1, OthersKept
  <2>2. /\ mfd[j] \in Inode /\ dfd[j] \in Inode /\ name[j] \in Name /\ blk[j] \in Block
        /\ mlink[name[j]] = mfd[j] /\ dlink[name[j]] = dfd[j]
    BY <2>1, InUse, ValuesAssumption
       DEF OpenIsLinked, UsePlaces, MetaLockPlaces, Inv, TypeOK, BlockType
  <2>3. control[mfd[j]][blk[j]].block \in Block \cup {Astray}
    BY <2>2 DEF DiskType, Controls
  <2>4. Genuine(j)
    BY <2>1 DEF NoFalseAlarm
  <2>5. control'[mfd[j]] = control[mfd[j]]
    <3>1. UsesMeta(j) /\ j \in Instance \ {i}
      BY <1>1, <2>1 DEF UsesMeta, MetaLockPlaces
    <3> QED
      BY <2>2, <3>1, UsedMetaKept
  <2>6. \A b \in Block : record'[dfd[j]][b] = record[dfd[j]][b]
    <3>1. CASE pc[i] \notin Writing
      <4>1. dlink'[name[j]] = dfd[j]
        BY <2>2, LinksKept, ValuesAssumption
      <4> QED
        BY <2>2, <3>1, <4>1, DiskKept
    <3>2. CASE pc[i] \in Writing
      <4>1. mfd[i] # mfd[j]
        BY <1>1, <2>1, <3>2, OneUser DEF UsesMeta, MetaLockPlaces, Writing
      <4>2. dfd[i] # dfd[j]
        BY <2>2, <3>2, <4>1, WritingStep, ValuesAssumption DEF OneNameEach
      <4> QED
        BY <2>2, <3>2, <4>2, WritingStep
    <3> QED
      BY <3>1, <3>2
  <2> QED
    BY <2>1, <2>3, <2>4, <2>5, <2>6 DEF Genuine, RecordOf, Damaged
<1>2. ASSUME pc'[i] = "markCorrupt"
      PROVE  Genuine(i)'
  <2>1. Verify(i)
    BY <1>2 DEF Step, ChooseCreate, ChooseExisting, ProbeData, ProbeMeta, RetryOrGiveUp,
             OpenData, LockData, LoseData, OpenMeta, LockMeta,
             LoseMeta, WriteHeader, WriteControl, WriteAgain, WriteRecord, NextBlock,
             ReadHeader, MarkCorrupt, UnlinkData, UnlinkMeta, CloseMeta, CloseData,
             OpenHistory, LoseHistory, WriteHistory, Crash, Restart, Exit, Goto, PlanType
  <2>2. PICK b \in picks[i] : /\ blk' = [blk EXCEPT ![i] = b]
                              /\ Compared(i, b) /\ ~Matches(i, b)
    BY <1>2, <2>1 DEF Verify, AfterLoop, Goto, PlanType
  <2>3. pc[i] = "verify" /\ record' = record /\ control' = control /\ dfd' = dfd /\ mfd' = mfd
    BY <2>1 DEF Verify, diskVars, fdVars
  <2>4. /\ mfd[i] \in Inode /\ dfd[i] \in Inode /\ name[i] \in Name /\ b \in Block
        /\ mlink[name[i]] = mfd[i] /\ dlink[name[i]] = dfd[i]
    BY <2>3, InUse, ValuesAssumption
       DEF OpenIsLinked, UsePlaces, MetaLockPlaces, Inv, TypeOK, BlockType
  <2>5. \A j \in Instance : \A c : ~Pending(j, mfd[i], c)
    BY <2>3, OneUser DEF Pending, UsesMeta, MetaLockPlaces
  <2>6. control[mfd[i]][b].stamp # None
    BY <2>2 DEF Compared
  <2>7. Describes(control[mfd[i]][b], dfd[i])
    BY <2>4, <2>5, <2>6, ValuesAssumption DEF AllDescribed
  <2>8. blk'[i] = b
    BY <2>2 DEF Inv, TypeOK, BlockType
  <2> QED
    BY <2>2, <2>3, <2>7, <2>8 DEF Genuine, Describes, Matches, RecordOf, Damaged
<1> QED
  BY <1>1, <1>2 DEF NoFalseAlarm

\* Damage touches one record, and turns it into Bad.
LEMMA RotData ==
  ASSUME DataInv, NEW x \in Inode, NEW b \in Block, Rot(x, b)
  PROVE  Shape' /\ CreatesFresh' /\ AllDescribed' /\ NoFalseAlarm'
<1> /\ Inv /\ DiskType /\ FdType /\ BlockType
    /\ Shape /\ CreatesFresh /\ AllDescribed /\ NoFalseAlarm
  BY DEF DataInv, Inv, TypeOK
<1>1. /\ record' = [record EXCEPT ![x][b] = Bad] /\ record[x][b] \in Stamp
      /\ UNCHANGED <<dlink, mlink, header, control, act, name, pc, dfd, mfd, stamp, blk>>
  BY DEF Rot, procVars, planVars, fdVars, blockVars
<1>2. \A y \in Inode, c \in Block : record'[y][c] \in {record[y][c], Bad}
  BY <1>1 DEF DiskType
<1>3. Shape' /\ CreatesFresh'
  BY <1>1 DEF Shape, NothingUnlinked, OneCreator, OpenIsLinked, OneNameEach, DataBeforeMeta,
              UnlinkedIsBlank, CreatesFresh
<1>4. AllDescribed'
  <2> SUFFICES ASSUME NEW n \in Name, NEW s \in Block, NEW c, c = control[mlink[n]][s],
                      dlink[n] # None, mlink[n] # None, c.stamp # None
               PROVE  \/ Describes(c, dlink[n])'
                      \/ \E j \in Instance : Pending(j, mlink[n], c)
    BY <1>1 DEF AllDescribed, Pending, Described, Describes, Damaged
  <2>1. dlink[n] \in Inode /\ mlink[n] \in Inode
    BY DEF DiskType
  <2>2. c.block \in Block \cup {Astray}
    BY <2>1 DEF DiskType, Controls
  <2>3. Describes(c, dlink[n]) => Describes(c, dlink[n])'
    BY <1>1, <1>2, <2>1, <2>2 DEF Describes, Damaged
  <2> QED
    BY <2>3 DEF AllDescribed
<1>5. NoFalseAlarm'
  <2> SUFFICES ASSUME NEW i \in Instance, pc[i] = "markCorrupt"
               PROVE  Genuine(i)'
    BY <1>1 DEF NoFalseAlarm
  <2>1. dfd[i] \in Inode /\ mfd[i] \in Inode /\ blk[i] \in Block
    BY InUse DEF UsePlaces, MetaLockPlaces, BlockType
  <2>2. control[mfd[i]][blk[i]].block \in Block \cup {Astray}
    BY <2>1 DEF DiskType, Controls
  <2>3. Genuine(i)
    BY DEF NoFalseAlarm
  <2> QED
    BY <1>1, <1>2, <2>1, <2>2, <2>3 DEF Genuine, RecordOf, Damaged
<1> QED
  BY <1>3, <1>4, <1>5

\* The empty tree.
LEMMA InitData == Init /\ Gentle => DataInv
<1> SUFFICES ASSUME Init, Gentle PROVE DataInv
  OBVIOUS
<1>1. Inv
  BY InitInv
<1>2. Shape
  BY ValuesAssumption DEF Init, AllOps, Shape, NothingUnlinked, OneCreator, OpenIsLinked,
     OneNameEach, DataBeforeMeta, UnlinkedIsBlank, Writing
<1>3. CreatesFresh /\ AllDescribed /\ NoFalseAlarm
  BY ValuesAssumption DEF Init, CreatesFresh, AllDescribed, NoFalseAlarm, AllOps
<1> QED
  BY <1>1, <1>2, <1>3 DEF DataInv

\* Every step preserves the invariant.
LEMMA NextData == DataInv /\ [Next]_vars => DataInv'
<1> SUFFICES ASSUME DataInv, [Next]_vars PROVE DataInv'
  OBVIOUS
<1>1. Inv' /\ Gentle
  BY NextInv DEF DataInv
<1>2. ASSUME NEW i \in Instance,
             Step(i) \/ ChooseCreate(i) \/ ChooseExisting(i) \/ Crash(i) \/ Restart(i)
      PROVE  DataInv'
  BY <1>1, <1>2, NothingUnlinkedStep, OneCreatorStep, OpenIsLinkedStep, OneNameEachStep,
     DataBeforeMetaStep, UnlinkedIsBlankStep, CreatesFreshStep, AllDescribedStep,
     NoFalseAlarmStep
     DEF DataInv, Shape, Gentle
<1>3. ASSUME NEW x \in Inode, NEW b \in Block, Rot(x, b) PROVE DataInv'
  BY <1>1, <1>3, RotData DEF DataInv, Gentle
<1>4. CASE UNCHANGED vars
  BY <1>1, <1>4 DEF DataInv, Gentle, Shape, NothingUnlinked, OneCreator, OpenIsLinked,
     OneNameEach, DataBeforeMeta, UnlinkedIsBlank, CreatesFresh, AllDescribed, Pending,
     Described, Describes, Damaged, NoFalseAlarm, Genuine, RecordOf,
     vars, diskVars, lockVars, procVars, planVars, fdVars, blockVars
<1> QED
  BY <1>2, <1>3, <1>4 DEF Next

\* The invariant holds of every reachable state of a tree one process adds to.
THEOREM DataInvHolds == Gentle /\ Spec => []DataInv
BY InitData, NextData, PTL DEF Spec

\* On a tree one process adds to, verifyTheRecord raises no alarm about a data
\* file the storage has kept, and the first alarm about a file is over the record
\* that was damaged: for any number of readers, writers and deleters, names and
\* blocks, and in any interleaving of theirs with the creates.  (A later alarm
\* may be over another record of that file: see MarkCorrupt.)
THEOREM NoFalseAlarmHolds == Gentle /\ Spec => []NoFalseAlarm
<1>1. DataInv => NoFalseAlarm
  BY DEF DataInv
<1> QED
  BY <1>1, DataInvHolds, PTL

\* On the same tree every Active meta block describes its record whenever
\* nobody is at work on the file (actionCreate, generateTheRecord), in whichever
\* slot it has ended up; one that describes no record is what an alarm left in
\* the meta file of a damaged file (verifyTheRecord).
THEOREM MetaDescribesDataHolds == Gentle /\ Spec => []MetaDescribesData
<1>1. DataInv => MetaDescribesData
  <2> SUFFICES ASSUME DataInv, NEW n \in Name, NEW s \in Block,
                      NEW c, c = control[mlink[n]][s],
                      dlink[n] # None, mlink[n] # None, ~Busy(n), c.stamp # None
               PROVE  Describes(c, dlink[n])
    BY DEF MetaDescribesData
  <2>1. ASSUME NEW i \in Instance, Pending(i, mlink[n], c) PROVE FALSE
    <3>1. Inv /\ OpenIsLinked /\ OneNameEach
      BY DEF DataInv, Shape
    <3>2. name[i] \in Name
      BY <2>1, <3>1, InUse DEF Pending
    <3>3. mlink[name[i]] = mlink[n]
      BY <2>1, <3>1 DEF Pending, OpenIsLinked
    <3>4. name[i] = n
      BY <3>1, <3>2, <3>3 DEF OneNameEach
    <3> QED
      BY <3>4 DEF Busy
  <2> QED
    BY <2>1 DEF DataInv, AllDescribed
<1> QED
  BY <1>1, DataInvHolds, PTL

(***************************************************************************)
(* One process on its own, which unlinks too and is killed and started     *)
(* again.  Nobody else can come between its calls, but it finds what a     *)
(* kill has left of its own earlier actions.  Half a file it turns away    *)
(* from.  A whole one may end in the middle of its creation, after a meta  *)
(* block and before the record: since records are written in order,        *)
(* nothing follows where that record would be (InOrder), the read of it    *)
(* ends short (DescribedOrCut) and nothing is compared.                    *)
(***************************************************************************)
Alone == (\E p : Instance = {p}) /\ Faults \subseteq {"crash", "rot"}

\* What is open is what the name refers to.
OpenIsNamed ==
  \A i \in Instance : /\ dfd[i] # None => dlink[name[i]] = dfd[i]
                      /\ mfd[i] # None => mlink[name[i]] = mfd[i]

\* A file without a name keeps nothing.
GoneIsBlank ==
  \A x \in Inode : /\ (\A n \in Name : dlink[n] # x) => record[x] = NoRecord
                   /\ (\A n \in Name : mlink[n] # x) => control[x] = NoControl

\* A creation starts from two files that are not there.
StartsBlank ==
  \A i \in Instance : act[i] = "aeCreate" =>
    /\ pc[i] \in {"probeMeta", "openData"} => dlink[name[i]] = None
    /\ pc[i] \in Naming => mlink[name[i]] = None
    /\ pc[i] \in {"lockData", "openMeta"} \cup Opening => record[dfd[i]] = NoRecord
    /\ pc[i] \in Opening => control[mfd[i]] = NoControl

\* Below block k every Active meta block of a creation has its record; from there
\* on there is no record, and one meta block at most that waits for its own.
WrittenUpTo(i, k) ==
  /\ \A b \in Block : b >= k => record[dfd[i]][b] = Hole
  /\ \A s \in Block :
       LET c == control[mfd[i]][s]
       IN  c.stamp # None =>
             \/ c.block \in 0 .. k - 1 /\ record[dfd[i]][c.block] \in {c.stamp, Bad}
             \/ c.block = k /\ c.stamp = stamp[i] /\ pc[i] # "writeControl"
InOrder == \A i \in Instance : pc[i] \in Writing => WrittenUpTo(i, blk[i])

\* An Active meta block describes its record, or the data file ends before it.
DescribedOrCut ==
  \A n \in Name, s \in Block :
    LET c == control[mlink[n]][s]
    IN  dlink[n] # None /\ mlink[n] # None /\ c.stamp # None =>
          Describes(c, dlink[n]) \/ PastEnd(dlink[n], c.block)

OnDisk == OneNameEach /\ GoneIsBlank /\ DescribedOrCut
InHand == OpenIsNamed /\ StartsBlank /\ InOrder

AloneInv == Alone /\ Inv /\ Roles /\ OnDisk /\ InHand /\ NoFalseAlarm

\* A step that takes nothing from the files that have a name but meta blocks.
LEMMA OnDiskKept ==
  ASSUME DiskType, OnDisk, UNCHANGED <<dlink, mlink>>,
         \A x \in Inode : /\ record[x] = NoRecord => record'[x] = NoRecord
                          /\ control[x] = NoControl => control'[x] = NoControl
                          /\ \A s \in Block : control'[x][s] \in {control[x][s], Junk},
         \A n \in Name : dlink[n] # None => record'[dlink[n]] = record[dlink[n]]
  PROVE  OnDisk'
<1>1. OneNameEach' /\ GoneIsBlank'
  BY DEF OnDisk, OneNameEach, GoneIsBlank
<1>2. DescribedOrCut'
  <2> SUFFICES ASSUME NEW n \in Name, NEW s \in Block, NEW c, c = control'[mlink[n]][s],
                      dlink[n] # None, mlink[n] # None, c.stamp # None
               PROVE  Describes(c, dlink[n])' \/ PastEnd(dlink[n], c.block)'
    BY DEF DescribedOrCut, PastEnd, Describes, Damaged
  <2>1. mlink[n] \in Inode
    BY DEF DiskType
  <2>2. c = control[mlink[n]][s]
    BY <2>1 DEF Junk
  <2> QED
    BY <2>2 DEF OnDisk, DescribedOrCut, PastEnd, Describes, Damaged
<1> QED
  BY <1>1, <1>2 DEF OnDisk

\* What is closed, or left as it is, disturbs nothing the process relies on.
LEMMA InHandKept ==
  ASSUME OpenIsNamed, NEW p, Instance = {p}, UNCHANGED <<dlink, mlink>>,
         dfd'[p] \in {dfd[p], None}, mfd'[p] \in {mfd[p], None},
         name'[p] = name[p] \/ (dfd'[p] = None /\ mfd'[p] = None),
         act'[p] # "aeCreate" \/ pc'[p] \notin {"probeMeta"} \cup Naming \cup Opening,
         pc'[p] \notin Writing
  PROVE  InHand'
BY DEF InHand, OpenIsNamed, StartsBlank, InOrder, Naming, Opening

\* What a sweep does to the files.
LEMMA SweepsAlone ==
  ASSUME DiskType, OnDisk, UNCHANGED <<dlink, mlink>>,
         record' = record \/ SweepData, control' = control \/ SweepMeta
  PROVE  OnDisk'
<1>1. ASSUME NEW x \in Inode
      PROVE  /\ record[x] = NoRecord => record'[x] = NoRecord
             /\ control[x] = NoControl => control'[x] = NoControl
             /\ \A s \in Block : control'[x][s] \in {control[x][s], Junk}
  BY DEF SweepData, SweepMeta, NoControl
<1>2. \A n \in Name : dlink[n] # None => record'[dlink[n]] = record[dlink[n]]
  BY DEF SweepData, DataGone, DiskType
<1> QED
  BY <1>1, <1>2, OnDiskKept

\* A step that touches no pair of files with blocks to read.
LEMMA DescribedKept ==
  ASSUME DescribedOrCut,
         \A n \in Name : dlink'[n] # None /\ mlink'[n] # None =>
           \/ \A s \in Block : control'[mlink'[n]][s].stamp = None
           \/ /\ dlink[n] # None /\ record'[dlink'[n]] = record[dlink[n]]
              /\ mlink[n] # None /\ control'[mlink'[n]] = control[mlink[n]]
  PROVE  DescribedOrCut'
<1> SUFFICES ASSUME NEW n \in Name, NEW s \in Block, NEW c, c = control'[mlink'[n]][s],
                    NEW z, z = dlink'[n], z # None, mlink'[n] # None, c.stamp # None
             PROVE  Describes(c, z)' \/ PastEnd(z, c.block)'
  BY DEF DescribedOrCut, PastEnd, Describes, Damaged
<1>1. /\ dlink[n] # None /\ record'[dlink'[n]] = record[dlink[n]]
      /\ mlink[n] # None /\ control'[mlink'[n]] = control[mlink[n]]
  OBVIOUS
<1>2. Describes(c, dlink[n]) \/ PastEnd(dlink[n], c.block)
  BY <1>1 DEF DescribedOrCut
<1> QED
  BY <1>1, <1>2 DEF PastEnd, Describes, Damaged

\* The choice of an action and of a name, and the reading of a file.
LEMMA QuietAlone ==
  ASSUME AloneInv, NEW p, Instance = {p},
         \/ ChooseCreate(p) \/ ChooseExisting(p) \/ ProbeData(p) \/ ProbeMeta(p)
         \/ LockData(p) \/ LockMeta(p) \/ ReadHeader(p) \/ Verify(p)
         \/ OpenHistory(p) \/ WriteHistory(p) \/ Restart(p)
  PROVE  OnDisk' /\ InHand'
<1> /\ p \in Instance /\ DiskType /\ PlanType /\ FdType /\ BlockType /\ Located /\ Roles
    /\ OnDisk /\ InHand /\ OpenIsNamed /\ StartsBlank
  BY DEF AloneInv, Inv, TypeOK, InHand
<1>1. UNCHANGED diskVars
  BY DEF ChooseCreate, ChooseExisting, ProbeData, ProbeMeta, LockData, LockMeta, ReadHeader,
         Verify, OpenHistory, WriteHistory, Restart
<1>2. OnDisk'
  BY <1>1, SweepsAlone DEF diskVars
<1> USE DEF Goto, PlanType, FdType, diskVars, fdVars, planVars, Naming, Opening, Writing
<1>3. CASE ChooseCreate(p) \/ ChooseExisting(p)
  <2>1. dfd[p] = None /\ mfd[p] = None /\ dfd' = dfd /\ mfd' = mfd
    BY <1>3 DEF ChooseCreate, ChooseExisting, Located, Choosing
  <2>2. \/ pc'[p] = "probeData"
        \/ pc'[p] = "openData" /\ act'[p] # "aeCreate"
    BY <1>3, OpsOfOne DEF ChooseCreate, ChooseExisting
  <2> QED
    BY <1>1, <1>2, <2>1, <2>2, InHandKept
<1>4. CASE ProbeData(p) \/ ProbeMeta(p)
  <2>1. dfd[p] = None /\ mfd[p] = None /\ dfd' = dfd /\ mfd' = mfd
    BY <1>4 DEF ProbeData, ProbeMeta, Located, Choosing
  <2>2. CASE pc'[p] \in {"probeData", "closeMeta"}
    BY <1>1, <1>2, <2>1, <2>2, InHandKept
  <2>3. CASE pc'[p] \notin {"probeData", "closeMeta"}
    <3>1. /\ act[p] = "aeCreate" /\ act' = act /\ name' = name
          /\ \/ pc'[p] = "probeMeta" /\ dlink[name[p]] = None
             \/ pc'[p] = "openData" /\ dlink[name[p]] = None /\ mlink[name[p]] = None
      BY <1>4, <2>3 DEF ProbeData, ProbeMeta, RetryOrGiveUp, Roles, CreatePlaces, StartsBlank
    <3> QED
      BY <1>1, <1>2, <2>1, <3>1 DEF InHand, OpenIsNamed, StartsBlank, InOrder
  <2> QED
    BY <2>2, <2>3
<1>5. CASE LockData(p) \/ LockMeta(p)
  <2>1. /\ UNCHANGED <<act, name, dfd, mfd>>
        /\ \/ pc[p] = "lockData" /\ pc'[p] = "openMeta"
           \/ /\ pc[p] = "lockMeta" /\ pc'[p] \in {"writeHeader", "readHeader"}
              /\ pc'[p] = "writeHeader" => act[p] = "aeCreate"
    BY <1>5 DEF LockData, LockMeta
  <2> QED
    BY <1>1, <1>2, <2>1 DEF InHand, OpenIsNamed, StartsBlank, InOrder
<1>6. CASE ReadHeader(p) \/ Verify(p)
  <2>1. UNCHANGED <<act, name, dfd, mfd>>
    BY <1>6 DEF ReadHeader, Verify
  <2>2. pc'[p] \in {"closeMeta", "verify", "markCorrupt", "unlinkData"}
    BY <1>6 DEF ReadHeader, Verify, AfterLoop
  <2> QED
    BY <1>1, <1>2, <2>1, <2>2, InHandKept
<1>7. CASE OpenHistory(p) \/ WriteHistory(p) \/ Restart(p)
  <2>1. dfd[p] = None /\ mfd[p] = None /\ dfd' = dfd /\ mfd' = mfd
    BY <1>7 DEF OpenHistory, WriteHistory, Restart, Located, Choosing
  <2>2. pc'[p] \in {"writeHistory", "idle"}
    BY <1>7 DEF OpenHistory, WriteHistory, Restart
  <2> QED
    BY <1>1, <1>2, <2>1, <2>2, InHandKept
<1> QED
  BY <1>3, <1>4, <1>5, <1>6, <1>7

\* A creation opens two files that hold nothing.
LEMMA OpenAlone ==
  ASSUME AloneInv, NEW p, Instance = {p}, OpenData(p) \/ OpenMeta(p)
  PROVE  OnDisk' /\ InHand'
<1> /\ p \in Instance /\ DiskType /\ PlanType /\ FdType /\ Located
    /\ OneNameEach /\ GoneIsBlank /\ DescribedOrCut
    /\ OnDisk /\ OpenIsNamed /\ StartsBlank
  BY DEF AloneInv, Inv, TypeOK, InHand, OnDisk
<1> USE DEF Goto, PlanType, FdType, DiskType, fdVars, planVars, Naming, Opening, Writing
<1>1. name[p] \in Name /\ UNCHANGED <<record, control, act, name>>
  BY InUse DEF OpenData, OpenMeta, AloneInv
<1>2. CASE OpenData(p)
  <2>1. mfd[p] = None /\ mfd' = mfd /\ mlink' = mlink /\ pc[p] = "openData"
    BY <1>2 DEF OpenData, Located, Choosing
  <2>2. CASE act[p] = "aeCreate"
    <3>1. mlink[name[p]] = None /\ dlink[name[p]] = None
      BY <2>1, <2>2 DEF StartsBlank
    <3>2. PICK x \in FreeData : /\ dlink' = [dlink EXCEPT ![name[p]] = x]
                                /\ dfd' = [dfd EXCEPT ![p] = x]
      BY <1>2, <2>2, <3>1 DEF OpenData
    <3>3. /\ x \in Inode /\ x # None /\ \A n \in Name : dlink[n] # x
          /\ record[x] = NoRecord
      BY <3>2, ValuesAssumption DEF FreeData, GoneIsBlank
    <3>4. dlink'[name[p]] = x /\ \A n \in Name : n # name[p] => dlink'[n] = dlink[n]
      BY <1>1, <3>2
    <3>5. OneNameEach' /\ GoneIsBlank'
      <4>1. OneNameEach'
        <5>1. \A n, m \in Name : dlink'[n] # None /\ dlink'[n] = dlink'[m] => n = m
          BY <3>3, <3>4 DEF OneNameEach
        <5> QED
          BY <2>1, <5>1 DEF OneNameEach
      <4>2. \A n \in Name : dlink'[n] = dlink[n] \/ dlink[n] = None
        BY <3>1, <3>4
      <4>3. GoneIsBlank'
        BY <1>1, <2>1, <4>2, ValuesAssumption DEF GoneIsBlank
      <4> QED
        BY <4>1, <4>3
    <3>6. DescribedOrCut'
      BY <1>1, <2>1, <3>1, <3>4, DescribedKept
    <3>7. pc'[p] = "lockData" /\ dfd'[p] = x
      BY <1>2, <2>2, <3>1, <3>2 DEF OpenData
    <3>8. InHand'
      BY <1>1, <2>1, <3>1, <3>3, <3>4, <3>7 DEF InHand, OpenIsNamed, StartsBlank, InOrder
    <3> QED
      BY <3>5, <3>6, <3>8 DEF OnDisk
  <2>3. CASE act[p] # "aeCreate"
    <3>1. /\ dlink' = dlink /\ pc'[p] \notin Writing
          /\ dfd'[p] \in {dfd[p], dlink[name[p]]} /\ dfd[p] = None
      BY <1>2, <2>3 DEF OpenData, Located, Choosing
    <3>2. OnDisk'
      BY <1>1, <2>1, <3>1, SweepsAlone
    <3>3. InHand'
      BY <1>1, <2>1, <2>3, <3>1 DEF InHand, OpenIsNamed, StartsBlank, InOrder
    <3> QED
      BY <3>2, <3>3
  <2> QED
    BY <2>2, <2>3
<1>3. CASE OpenMeta(p)
  <2>1. mfd[p] = None /\ dfd' = dfd /\ dlink' = dlink /\ pc[p] = "openMeta"
    BY <1>3 DEF OpenMeta, Located, Choosing
  <2>2. CASE act[p] = "aeCreate"
    <3>1. mlink[name[p]] = None /\ record[dfd[p]] = NoRecord
      BY <2>1, <2>2 DEF StartsBlank
    <3>2. PICK x \in FreeMeta : /\ mlink' = [mlink EXCEPT ![name[p]] = x]
                                /\ mfd' = [mfd EXCEPT ![p] = x]
      BY <1>3, <2>2, <3>1 DEF OpenMeta
    <3>3. /\ x \in Inode /\ x # None /\ \A n \in Name : mlink[n] # x
          /\ control[x] = NoControl
      BY <3>2, ValuesAssumption DEF FreeMeta, GoneIsBlank
    <3>4. mlink'[name[p]] = x /\ \A n \in Name : n # name[p] => mlink'[n] = mlink[n]
      BY <1>1, <3>2
    <3>5. OneNameEach' /\ GoneIsBlank'
      <4>1. OneNameEach'
        <5>1. \A n, m \in Name : mlink'[n] # None /\ mlink'[n] = mlink'[m] => n = m
          BY <3>3, <3>4 DEF OneNameEach
        <5> QED
          BY <2>1, <5>1 DEF OneNameEach
      <4>2. \A n \in Name : mlink'[n] = mlink[n] \/ mlink[n] = None
        BY <3>1, <3>4
      <4>3. GoneIsBlank'
        BY <1>1, <2>1, <4>2, ValuesAssumption DEF GoneIsBlank
      <4> QED
        BY <4>1, <4>3
    <3>6. \A s \in Block : control[x][s].stamp = None
      BY <3>3 DEF NoControl, Junk
    <3>7. DescribedOrCut'
      <4>1. ASSUME NEW n \in Name, mlink'[n] # None
            PROVE  \/ \A s \in Block : control'[mlink'[n]][s].stamp = None
                   \/ mlink[n] # None /\ control'[mlink'[n]] = control[mlink[n]]
        BY <1>1, <3>4, <3>6, <4>1
      <4> QED
        BY <1>1, <2>1, <4>1, DescribedKept
    <3>8. pc'[p] = "lockMeta" /\ mfd'[p] = x
      BY <1>3, <2>2, <3>1, <3>2 DEF OpenMeta
    <3>9. InHand'
      BY <1>1, <2>1, <3>1, <3>3, <3>4, <3>8 DEF InHand, OpenIsNamed, StartsBlank, InOrder
    <3> QED
      BY <3>5, <3>7, <3>9 DEF OnDisk
  <2>3. CASE act[p] # "aeCreate"
    <3>1. /\ mlink' = mlink /\ pc'[p] \notin Writing
          /\ mfd'[p] \in {mfd[p], mlink[name[p]]}
      BY <1>3, <2>3 DEF OpenMeta
    <3>2. OnDisk'
      BY <1>1, <2>1, <3>1, SweepsAlone
    <3>3. InHand'
      BY <1>1, <2>1, <2>3, <3>1 DEF InHand, OpenIsNamed, StartsBlank, InOrder
    <3> QED
      BY <3>2, <3>3
  <2> QED
    BY <2>2, <2>3
<1> QED
  BY <1>2, <1>3

\* What an alarm leads astray lies beside the damage it is about.
LEMMA MarkAlone ==
  ASSUME AloneInv, NEW p \in Instance, MarkCorrupt(p)
  PROVE  OnDisk'
<1> /\ Inv /\ NoFalseAlarm /\ DiskType /\ OneNameEach /\ GoneIsBlank /\ DescribedOrCut
    /\ OpenIsNamed
  BY DEF AloneInv, Inv, TypeOK, InHand, OnDisk
<1>1. /\ UNCHANGED <<dlink, mlink>> /\ SweepData /\ pc[p] = "markCorrupt"
  BY DEF MarkCorrupt
<1>2. /\ name[p] \in Name /\ mfd[p] \in Inode
      /\ mlink[name[p]] = mfd[p] /\ dlink[name[p]] = dfd[p]
  BY <1>1, InUse, ValuesAssumption DEF OpenIsNamed, UsePlaces, MetaLockPlaces
<1>3. /\ \A x \in Inode : record[x] = NoRecord => record'[x] = NoRecord
      /\ \A n \in Name : dlink[n] # None => record'[dlink[n]] = record[dlink[n]]
  BY <1>1 DEF SweepData, DataGone, DiskType
<1>4. GoneIsBlank'
  <2> SUFFICES ASSUME NEW x \in Inode
               PROVE  /\ (\A n \in Name : dlink[n] # x) => record'[x] = NoRecord
                      /\ (\A n \in Name : mlink[n] # x) => control'[x] = NoControl
    BY <1>1 DEF GoneIsBlank
  <2>1. x # mfd[p] => control'[x] \in {control[x], NoControl}
    BY MarkKept
  <2> QED
    BY <1>2, <1>3, <2>1 DEF GoneIsBlank
<1>5. DescribedOrCut'
  <2> SUFFICES ASSUME NEW n \in Name, NEW s \in Block, NEW c, c = control'[mlink[n]][s],
                      dlink[n] # None, mlink[n] # None, c.stamp # None
               PROVE  Describes(c, dlink[n])' \/ PastEnd(dlink[n], c.block)'
    BY <1>1 DEF DescribedOrCut, PastEnd, Describes, Damaged
  <2> DEFINE d == control[mlink[n]][s]
  <2>1. \/ c = d
        \/ mlink[n] = mfd[p] /\ c.stamp = d.stamp /\ c.block \in {d.block, Astray}
    <3>1. mlink[n] \in Inode
      BY DEF DiskType
    <3> QED
      BY <3>1, MarkKept
  <2>2. /\ Describes(c, dlink[n]) => Describes(c, dlink[n])'
        /\ PastEnd(dlink[n], c.block) => PastEnd(dlink[n], c.block)'
    BY <1>1, <1>3 DEF Describes, Damaged, PastEnd
  <2>3. Describes(d, dlink[n]) \/ PastEnd(dlink[n], d.block)
    BY <2>1 DEF DescribedOrCut
  <2>4. CASE c.block = d.block /\ c.stamp = d.stamp
    BY <2>2, <2>3, <2>4 DEF Describes
  <2>5. CASE c.block = Astray /\ mlink[n] = mfd[p]
    <3>1. n = name[p] /\ dlink[n] = dfd[p]
      BY <1>2, <2>5 DEF OneNameEach
    <3> QED
      BY <1>1, <2>2, <2>5, <3>1, AlarmMeansDamage DEF Describes
  <2> QED
    BY <2>1, <2>4, <2>5
<1> QED
  BY <1>1, <1>4, <1>5 DEF OnDisk, OneNameEach

\* What is closed stays as it is; a file that is removed is closed before the
\* name can be given again.
LEMMA CloseAlone ==
  ASSUME AloneInv, NEW p, Instance = {p},
         CloseMeta(p) \/ CloseData(p) \/ Crash(p) \/ MarkCorrupt(p)
  PROVE  OnDisk' /\ InHand'
<1> /\ p \in Instance /\ DiskType /\ PlanType /\ FdType /\ Located
    /\ OnDisk /\ OpenIsNamed
  BY DEF AloneInv, Inv, TypeOK, InHand
<1>1. UNCHANGED <<dlink, mlink>>
  BY DEF CloseMeta, CloseData, Crash, MarkCorrupt
<1>2. OnDisk'
  <2>1. CASE MarkCorrupt(p)
    BY <2>1, MarkAlone
  <2>2. CASE CloseMeta(p) \/ CloseData(p) \/ Crash(p)
    <3>1. (record' = record \/ SweepData) /\ (control' = control \/ SweepMeta)
      BY <2>2 DEF CloseMeta, CloseData, Crash
    <3> QED
      BY <1>1, <3>1, SweepsAlone
  <2> QED
    BY <2>1, <2>2
<1>3. /\ dfd'[p] \in {dfd[p], None} /\ mfd'[p] \in {mfd[p], None}
      /\ name'[p] = name[p] \/ (dfd'[p] = None /\ mfd'[p] = None)
      /\ pc'[p] \in {"closeData", "idle", "openHistory", "exited"}
  <2>1. CASE CloseMeta(p)
    BY <2>1 DEF CloseMeta, Goto, planVars, PlanType, FdType
  <2>2. CASE CloseData(p)
    BY <2>2 DEF CloseData, Goto, PlanType, FdType, Located
  <2>3. CASE Crash(p) \/ MarkCorrupt(p)
    BY <2>3 DEF Crash, MarkCorrupt, Exit, Goto, PlanType, FdType
  <2> QED
    BY <2>1, <2>2, <2>3
<1>4. InHand'
  BY <1>1, <1>3, InHandKept DEF Naming, Opening, Writing
<1> QED
  BY <1>2, <1>4

\* The only process to have a file open is the one that removes it.
LEMMA UnlinkAlone ==
  ASSUME AloneInv, NEW p, Instance = {p}, UnlinkData(p) \/ UnlinkMeta(p)
  PROVE  OnDisk' /\ InHand'
<1> /\ p \in Instance /\ DiskType /\ PlanType /\ FdType /\ Located /\ Roles
    /\ OneNameEach /\ GoneIsBlank /\ DescribedOrCut /\ OpenIsNamed
  BY DEF AloneInv, Inv, TypeOK, InHand, OnDisk
<1> USE DEF Goto, PlanType, FdType, DiskType, planVars
<1>1. /\ name[p] \in Name /\ act[p] = "aeUnlink" /\ UNCHANGED <<act, name>>
      /\ pc'[p] \in {"unlinkMeta", "closeMeta"}
  BY InUse DEF UnlinkData, UnlinkMeta, AloneInv, Roles
<1>2. CASE UnlinkData(p)
  <2>1. /\ dlink' = [dlink EXCEPT ![name[p]] = None] /\ dfd'[p] = None
        /\ UNCHANGED <<mlink, control, mfd>> /\ SweepData
    BY <1>2 DEF UnlinkData
  <2>2. dlink'[name[p]] = None /\ \A n \in Name : n # name[p] => dlink'[n] = dlink[n]
    BY <1>1, <2>1
  <2>3. /\ \A x \in Inode : (\A n \in Name : dlink'[n] # x) => record'[x] = NoRecord
        /\ \A n \in Name : dlink'[n] # None => record'[dlink'[n]] = record[dlink'[n]]
    BY <1>1, <2>1, <2>2, ValuesAssumption DEF SweepData, DataGone
  <2>4. OneNameEach' /\ GoneIsBlank'
    BY <2>1, <2>2, <2>3 DEF OneNameEach, GoneIsBlank
  <2>5. DescribedOrCut'
    BY <2>1, <2>2, <2>3, DescribedKept
  <2>6. InHand'
    BY <1>1, <2>1 DEF InHand, OpenIsNamed, StartsBlank, InOrder, Naming, Opening, Writing
  <2> QED
    BY <2>4, <2>5, <2>6 DEF OnDisk
<1>3. CASE UnlinkMeta(p)
  <2>1. /\ mlink' = [mlink EXCEPT ![name[p]] = None] /\ mfd'[p] = None
        /\ UNCHANGED <<dlink, record, dfd>> /\ SweepMeta
    BY <1>3 DEF UnlinkMeta
  <2>2. mlink'[name[p]] = None /\ \A n \in Name : n # name[p] => mlink'[n] = mlink[n]
    BY <1>1, <2>1
  <2>3. /\ \A x \in Inode : (\A n \in Name : mlink'[n] # x) => control'[x] = NoControl
        /\ \A n \in Name : mlink'[n] # None => control'[mlink'[n]] = control[mlink'[n]]
    BY <1>1, <2>1, <2>2, ValuesAssumption DEF SweepMeta, MetaGone
  <2>4. OneNameEach' /\ GoneIsBlank'
    BY <2>1, <2>2, <2>3 DEF OneNameEach, GoneIsBlank
  <2>5. DescribedOrCut'
    BY <2>1, <2>2, <2>3, DescribedKept
  <2>6. InHand'
    BY <1>1, <2>1 DEF InHand, OpenIsNamed, StartsBlank, InOrder, Naming, Opening, Writing
  <2> QED
    BY <2>4, <2>5, <2>6 DEF OnDisk
<1> QED
  BY <1>2, <1>3

\* A creation writes its own two files only.
LEMMA WritesOwn ==
  ASSUME DiskType, OnDisk, UNCHANGED <<dlink, mlink>>,
         NEW n \in Name, NEW x \in Inode, NEW y \in Inode, dlink[n] = x, mlink[n] = y,
         \A z \in Inode : z # x => record'[z] = record[z],
         \A z \in Inode : z # y => control'[z] = control[z],
         \A c : \A s \in Block : c = control'[y][s] /\ c.stamp # None =>
           Describes(c, x)' \/ PastEnd(x, c.block)'
  PROVE  OnDisk'
<1> OneNameEach /\ GoneIsBlank /\ DescribedOrCut
  BY DEF OnDisk
<1>1. OneNameEach' /\ GoneIsBlank'
  BY DEF OneNameEach, GoneIsBlank
<1>2. DescribedOrCut'
  <2> SUFFICES ASSUME NEW m \in Name, NEW s \in Block, NEW c, c = control'[mlink[m]][s],
                      dlink[m] # None, mlink[m] # None, c.stamp # None
               PROVE  Describes(c, dlink[m])' \/ PastEnd(dlink[m], c.block)'
    BY DEF DescribedOrCut, PastEnd, Describes, Damaged
  <2>1. CASE m = n
    <3>1. Describes(c, x)' \/ PastEnd(x, c.block)'
      BY <2>1
    <3> QED
      BY <2>1, <3>1 DEF PastEnd, Describes, Damaged
  <2>2. CASE m # n
    <3>1. dlink[m] # x /\ mlink[m] # y
      BY <2>2 DEF OneNameEach
    <3>2. record'[dlink[m]] = record[dlink[m]] /\ control'[mlink[m]] = control[mlink[m]]
      BY <3>1 DEF DiskType
    <3>3. Describes(c, dlink[m]) \/ PastEnd(dlink[m], c.block)
      BY <3>2 DEF DescribedOrCut
    <3> QED
      BY <3>2, <3>3 DEF PastEnd, Describes, Damaged
  <2> QED
    BY <2>1, <2>2
<1> QED
  BY <1>1, <1>2 DEF OnDisk

\* Before its first block a creation has written nothing.
LEMMA HeaderAlone ==
  ASSUME AloneInv, NEW p, Instance = {p}, WriteHeader(p)
  PROVE  OnDisk' /\ InHand'
<1> /\ p \in Instance /\ DiskType /\ PlanType /\ BlockType /\ Roles
    /\ OnDisk /\ OpenIsNamed /\ StartsBlank
  BY DEF AloneInv, Inv, TypeOK, InHand
<1>1. /\ UNCHANGED <<dlink, mlink, record, control, act, name, dfd, mfd>>
      /\ pc[p] = "writeHeader" /\ pc'[p] = "writeControl" /\ blk'[p] = 0
  BY DEF WriteHeader, Goto, planVars, fdVars, PlanType, BlockType
<1>2. OnDisk'
  BY <1>1, SweepsAlone
<1>3. record[dfd[p]] = NoRecord /\ control[mfd[p]] = NoControl
  BY <1>1 DEF StartsBlank, Roles, CreatePlaces, Opening
<1>4. WrittenUpTo(p, 0)'
  BY <1>1, <1>3 DEF WrittenUpTo, NoRecord, NoControl, Junk
<1>5. InHand'
  BY <1>1, <1>4 DEF InHand, OpenIsNamed, StartsBlank, InOrder, Naming, Opening
<1> QED
  BY <1>2, <1>5

\* Block by block: the meta block once or twice, then the record.
LEMMA WriteAlone ==
  ASSUME AloneInv, NEW p, Instance = {p}, WriteControl(p) \/ WriteAgain(p) \/ WriteRecord(p)
  PROVE  OnDisk' /\ InHand'
<1> /\ p \in Instance /\ DiskType /\ PlanType /\ FdType /\ BlockType /\ SlotBehind
    /\ OnDisk /\ OpenIsNamed /\ InOrder /\ Alone
  BY DEF AloneInv, Inv, TypeOK, InHand
<1>0. PICK x, y, k : x = dfd[p] /\ y = mfd[p] /\ k = blk[p]
  OBVIOUS
<1>1. /\ UNCHANGED <<dlink, mlink, act, name, dfd, mfd, stamp>>
      /\ pc[p] \in Writing /\ k \in Nat /\ k \in Block
      /\ x \in Inode /\ y \in Inode /\ name[p] \in Name
      /\ dlink[name[p]] = x /\ mlink[name[p]] = y /\ stamp[p] \in Stamp
  BY <1>0, InUse, ValuesAssumption, BoundsAssumption
     DEF WriteControl, WriteAgain, WriteRecord, planVars, fdVars, Writing, AloneInv,
         OpenIsNamed, UsePlaces, MetaLockPlaces, BlockType, Block
<1>2. WrittenUpTo(p, k)
  BY <1>0, <1>1 DEF InOrder
<1>3. /\ \A z \in Inode : z # x => record'[z] = record[z]
      /\ \A z \in Inode : z # y => control'[z] = control[z]
  BY <1>0, <1>1 DEF WriteControl, WriteAgain, WriteRecord, PutControl, DiskType
<1>4. \E j \in Nat : WrittenUpTo(p, j)' /\ pc'[p] \notin {"probeMeta"} \cup Naming \cup Opening
                      /\ (pc'[p] \in Writing => blk'[p] = j)
  <2>1. CASE WriteControl(p) /\ k \in picks[p]
    <3>1. slot[p] \in Block
      BY <1>0, <2>1, BoundsAssumption DEF WriteControl, SlotBehind, BlockType, Block
    <3>2. /\ control'[y] = [control[y] EXCEPT ![slot[p]] = Described(p)]
          /\ UNCHANGED <<record, blk>> /\ pc[p] = "writeControl" /\ pc'[p] = "writeAgain"
      BY <1>0, <1>1, <2>1 DEF WriteControl, PutControl, DiskType, PlanType, Goto
    <3>3. WrittenUpTo(p, k)'
      BY <1>0, <1>1, <1>2, <3>1, <3>2 DEF WrittenUpTo, Described, DiskType
    <3> QED
      BY <1>0, <1>1, <3>2, <3>3 DEF Naming, Opening
  <2>2. CASE WriteControl(p) /\ k \notin picks[p]
    <3>1. slot[p] \in Block
      BY <1>0, <2>2, BoundsAssumption DEF WriteControl, SlotBehind, BlockType, Block
    <3>2. /\ control'[y] = [control[y] EXCEPT ![slot[p]] = Junk]
          /\ UNCHANGED record /\ pc[p] = "writeControl" /\ NextBlock(p)
      BY <1>0, <1>1, <2>2 DEF WriteControl, PutControl, DiskType
    <3>3. WrittenUpTo(p, k + 1)'
      <4>1. \A s \in Block : \/ control'[y][s].stamp = None
                              \/ control'[y][s] = control[y][s]
        BY <1>1, <3>1, <3>2 DEF Junk, DiskType
      <4>2. \A b \in 0 .. k - 1 : b \in Block
        BY <1>1, BoundsAssumption DEF Block
      <4> QED
        BY <1>0, <1>1, <1>2, <3>2, <4>1, <4>2 DEF WrittenUpTo, Block
    <3>4. \/ pc'[p] = "writeControl" /\ blk'[p] = k + 1
          \/ pc'[p] = "closeMeta"
      BY <1>0, <3>2 DEF NextBlock, Goto, PlanType, BlockType
    <3> QED
      BY <1>0, <1>1, <3>3, <3>4 DEF Naming, Opening, Writing
  <2>3. CASE WriteAgain(p)
    <3>1. /\ control'[y] = [control[y] EXCEPT ![0] = Described(p)]
          /\ UNCHANGED <<record, blk>> /\ pc'[p] = "writeRecord"
      BY <1>0, <1>1, <2>3 DEF WriteAgain, PutControl, DiskType, PlanType, Goto
    <3>2. WrittenUpTo(p, k)'
      BY <1>0, <1>1, <1>2, <3>1 DEF WrittenUpTo, Described, DiskType
    <3> QED
      BY <1>0, <1>1, <3>1, <3>2 DEF Naming, Opening
  <2>4. CASE WriteRecord(p)
    <3>1. /\ record'[x] = [record[x] EXCEPT ![k] = stamp[p]]
          /\ UNCHANGED control /\ NextBlock(p)
      BY <1>0, <1>1, <2>4 DEF WriteRecord, DiskType, Alone
    <3>2. \A b \in Block : record'[x][b] = IF b = k THEN stamp[p] ELSE record[x][b]
      BY <1>0, <1>1, <3>1 DEF DiskType
    <3>3. \A b \in 0 .. k - 1 : b \in Block
      BY <1>1, BoundsAssumption DEF Block
    <3>4. WrittenUpTo(p, k + 1)'
      BY <1>0, <1>1, <1>2, <3>1, <3>2, <3>3 DEF WrittenUpTo, Block
    <3>5. \/ pc'[p] = "writeControl" /\ blk'[p] = k + 1
          \/ pc'[p] = "closeMeta"
      BY <1>0, <3>1 DEF NextBlock, Goto, PlanType, BlockType
    <3> QED
      BY <1>0, <1>1, <3>4, <3>5 DEF Naming, Opening, Writing
  <2> QED
    BY <2>1, <2>2, <2>3, <2>4
<1>5. PICK j \in Nat : /\ WrittenUpTo(p, j)'
                       /\ pc'[p] \notin {"probeMeta"} \cup Naming \cup Opening
                       /\ pc'[p] \in Writing => blk'[p] = j
  BY <1>4
<1>6. \A c : \A s \in Block : c = control'[y][s] /\ c.stamp # None =>
        Describes(c, x)' \/ PastEnd(x, c.block)'
  <2> SUFFICES ASSUME NEW s \in Block, NEW c, c = control'[y][s], c.stamp # None
               PROVE  Describes(c, x)' \/ PastEnd(x, c.block)'
    OBVIOUS
  <2>1. /\ \A b \in Block : b >= j => record'[x][b] = Hole
        /\ \/ c.block \in 0 .. j - 1 /\ record'[x][c.block] \in {c.stamp, Bad}
           \/ c.block = j
    BY <1>0, <1>1, <1>5 DEF WrittenUpTo
  <2> QED
    BY <2>1 DEF PastEnd, Describes, Astray
<1>7. OnDisk'
  BY <1>1, <1>3, <1>6, WritesOwn
<1>8. InHand'
  BY <1>0, <1>1, <1>5 DEF InHand, OpenIsNamed, StartsBlank, InOrder, Naming, Opening
<1> QED
  BY <1>7, <1>8

\* Nobody holds a lock the process waits for.
LEMMA NoneToWaitFor ==
  ASSUME AloneInv, NEW p, Instance = {p}
  PROVE  ~LoseData(p) /\ ~LoseMeta(p) /\ ~LoseHistory(p)
<1> /\ p \in Instance /\ LockType /\ NoLeakedLock
  BY DEF AloneInv, Inv, TypeOK
<1>1. ~LoseData(p)
  <2> SUFFICES ASSUME LoseData(p) PROVE FALSE
    OBVIOUS
  <2>1. dfd[p] \in Inode /\ pc[p] = "lockData" /\ dlock[dfd[p]] = p
    BY InUse DEF LoseData, AloneInv, LockType
  <2> QED
    BY <2>1, ValuesAssumption DEF NoLeakedLock, DataLockPlaces, MetaLockPlaces
<1>2. ~LoseMeta(p)
  <2> SUFFICES ASSUME LoseMeta(p) PROVE FALSE
    OBVIOUS
  <2>1. mfd[p] \in Inode /\ pc[p] = "lockMeta" /\ mlock[mfd[p]] = p
    BY InUse DEF LoseMeta, AloneInv, LockType
  <2> QED
    BY <2>1, ValuesAssumption DEF NoLeakedLock, MetaLockPlaces
<1>3. ~LoseHistory(p)
  <2> SUFFICES ASSUME LoseHistory(p) PROVE FALSE
    OBVIOUS
  <2>1. name[p] \in Name /\ pc[p] = "openHistory" /\ hlock[name[p]] = p
    BY InUse DEF LoseHistory, AloneInv, LockType
  <2> QED
    BY <2>1, ValuesAssumption DEF NoLeakedLock
<1> QED
  BY <1>1, <1>2, <1>3

\* A record is compared when it lies within its file, so it is the one the meta
\* block describes, or damaged.
LEMMA NoAlarmAlone ==
  ASSUME AloneInv, NEW p, Instance = {p}, Act(p)
  PROVE  NoFalseAlarm'
<1> /\ p \in Instance /\ PlanType /\ BlockType /\ OpenIsNamed /\ DescribedOrCut
  BY DEF AloneInv, Inv, TypeOK, InHand, OnDisk
<1> SUFFICES ASSUME pc'[p] = "markCorrupt" PROVE Genuine(p)'
  BY DEF NoFalseAlarm
<1>1. Verify(p)
  BY DEF Act, Step, ChooseCreate, ChooseExisting, ProbeData, ProbeMeta, RetryOrGiveUp,
         OpenData, LockData, LoseData, OpenMeta, LockMeta,
         LoseMeta, WriteHeader, WriteControl, WriteAgain, WriteRecord, NextBlock,
         ReadHeader, MarkCorrupt, UnlinkData, UnlinkMeta, CloseMeta, CloseData,
         OpenHistory, LoseHistory, WriteHistory, Crash, Restart, Exit, Goto, PlanType
<1>2. PICK b \in picks[p] : /\ blk' = [blk EXCEPT ![p] = b]
                            /\ Compared(p, b) /\ ~Matches(p, b)
  BY <1>1 DEF Verify, AfterLoop, Goto, PlanType
<1>3. /\ pc[p] = "verify" /\ UNCHANGED <<record, control, dfd, mfd>>
      /\ b \in Block /\ blk'[p] = b
  BY <1>1, <1>2 DEF Verify, diskVars, fdVars, BlockType
<1>4. /\ name[p] \in Name /\ mlink[name[p]] = mfd[p] /\ dlink[name[p]] = dfd[p]
      /\ mfd[p] # None /\ dfd[p] # None
  BY <1>3, InUse, ValuesAssumption DEF AloneInv, OpenIsNamed, UsePlaces, MetaLockPlaces
<1> DEFINE c == control[mfd[p]][b]
<1>5. Describes(c, dfd[p]) \/ PastEnd(dfd[p], c.block)
  BY <1>2, <1>3, <1>4 DEF DescribedOrCut, Compared
<1>6. ~PastEnd(dfd[p], c.block)
  BY <1>2 DEF Compared, PastEnd, Astray, Block
<1> QED
  BY <1>2, <1>3, <1>5, <1>6 DEF Genuine, Describes, Matches, RecordOf, Damaged

\* Damage turns one record into Bad, and leaves the files as long as they are.
LEMMA RotAlone ==
  ASSUME AloneInv, NEW x \in Inode, NEW b \in Block, Rot(x, b)
  PROVE  OnDisk' /\ InHand' /\ Roles' /\ NoFalseAlarm'
<1> /\ Inv /\ DiskType /\ FdType /\ BlockType /\ Roles /\ NoFalseAlarm
    /\ OneNameEach /\ GoneIsBlank /\ DescribedOrCut /\ OpenIsNamed /\ StartsBlank /\ InOrder
  BY DEF AloneInv, Inv, TypeOK, InHand, OnDisk
<1>1. /\ record' = [record EXCEPT ![x][b] = Bad] /\ record[x][b] \in Stamp
      /\ UNCHANGED <<dlink, mlink, control, pc, act, name, dfd, mfd, stamp, blk>>
  BY DEF Rot, procVars, planVars, fdVars, blockVars
<1>2. \A y \in Inode, c \in Block : /\ record'[y][c] \in {record[y][c], Bad}
                                    /\ record[y][c] = Hole => record'[y][c] = Hole
  BY <1>1, ValuesAssumption DEF DiskType
<1>3. \A y \in Inode : record[y] = NoRecord => record'[y] = NoRecord
  BY <1>1, ValuesAssumption DEF DiskType, NoRecord
<1>4. OneNameEach' /\ GoneIsBlank' /\ OpenIsNamed' /\ Roles'
  BY <1>1, <1>3 DEF OneNameEach, GoneIsBlank, OpenIsNamed, Roles
<1>5. StartsBlank'
  <2>1. \A i \in Instance : pc[i] \in {"lockData", "openMeta"} \cup Opening => dfd[i] \in Inode
    BY InUse DEF Opening, UsePlaces, MetaLockPlaces
  <2> QED
    BY <1>1, <1>3, <2>1 DEF StartsBlank
<1>6. DescribedOrCut'
  <2> SUFFICES ASSUME NEW n \in Name, NEW s \in Block, NEW c, c = control[mlink[n]][s],
                      dlink[n] # None, mlink[n] # None, c.stamp # None
               PROVE  Describes(c, dlink[n])' \/ PastEnd(dlink[n], c.block)'
    BY <1>1 DEF DescribedOrCut, PastEnd, Describes, Damaged
  <2>1. dlink[n] \in Inode /\ mlink[n] \in Inode
    BY DEF DiskType
  <2>2. c.block \in Block \cup {Astray}
    BY <2>1 DEF DiskType, Controls
  <2>3. Describes(c, dlink[n]) \/ PastEnd(dlink[n], c.block)
    BY DEF DescribedOrCut
  <2>4. Describes(c, dlink[n]) => Describes(c, dlink[n])'
    BY <1>1, <1>2, <2>1, <2>2 DEF Describes, Damaged
  <2>5. PastEnd(dlink[n], c.block) => PastEnd(dlink[n], c.block)'
    BY <1>1, <1>2, <2>1 DEF PastEnd
  <2> QED
    BY <2>3, <2>4, <2>5
<1>7. InOrder'
  <2> SUFFICES ASSUME NEW i \in Instance, pc[i] \in Writing
               PROVE  WrittenUpTo(i, blk[i])'
    BY <1>1 DEF InOrder
  <2>1. dfd[i] \in Inode /\ mfd[i] \in Inode
    BY InUse DEF Writing, UsePlaces, MetaLockPlaces
  <2>2. /\ \A s \in Block : control[mfd[i]][s].block \in Block \cup {Astray}
        /\ \A b1 \in 0 .. blk[i] - 1 : b1 \in Block
    BY <2>1, BoundsAssumption DEF DiskType, Controls, BlockType, Block
  <2>3. WrittenUpTo(i, blk[i])
    BY DEF InOrder
  <2> QED
    BY <1>1, <1>2, <2>1, <2>2, <2>3 DEF WrittenUpTo
<1>8. NoFalseAlarm'
  <2> SUFFICES ASSUME NEW i \in Instance, pc[i] = "markCorrupt"
               PROVE  Genuine(i)'
    BY <1>1 DEF NoFalseAlarm
  <2>1. dfd[i] \in Inode /\ mfd[i] \in Inode /\ blk[i] \in Block
    BY InUse DEF UsePlaces, MetaLockPlaces, BlockType
  <2>2. control[mfd[i]][blk[i]].block \in Block \cup {Astray}
    BY <2>1 DEF DiskType, Controls
  <2>3. Genuine(i)
    BY DEF NoFalseAlarm
  <2> QED
    BY <1>1, <1>2, <2>1, <2>2, <2>3 DEF Genuine, RecordOf, Damaged
<1> QED
  BY <1>4, <1>5, <1>6, <1>7, <1>8 DEF OnDisk, InHand

\* The empty tree.
LEMMA InitAlone == Init /\ Alone => AloneInv
<1> SUFFICES ASSUME Init, Alone PROVE AloneInv
  OBVIOUS
<1>1. Inv
  BY InitInv
<1>2. Roles /\ InHand
  BY ValuesAssumption DEF Init, Roles, CreatePlaces, InHand, OpenIsNamed, StartsBlank, InOrder,
     Writing, AllOps
<1>3. OnDisk /\ NoFalseAlarm
  BY DEF Init, OnDisk, OneNameEach, GoneIsBlank, DescribedOrCut, NoFalseAlarm
<1> QED
  BY <1>1, <1>2, <1>3 DEF AloneInv

\* Every step preserves the invariant.
LEMMA NextAlone == AloneInv /\ [Next]_vars => AloneInv'
<1> SUFFICES ASSUME AloneInv, [Next]_vars PROVE AloneInv'
  OBVIOUS
<1>1. Inv /\ Inv' /\ Alone /\ Alone'
  BY NextInv DEF AloneInv, Alone
<1>2. ASSUME NEW p \in Instance, Act(p) PROVE AloneInv'
  <2>1. Instance = {p}
    BY <1>1, <1>2 DEF Alone
  <2>2. OnDisk' /\ InHand'
    BY <1>2, <2>1, NoneToWaitFor, QuietAlone, OpenAlone, CloseAlone, UnlinkAlone, HeaderAlone,
       WriteAlone DEF Act, Step
  <2>3. Roles' /\ NoFalseAlarm'
    BY <1>1, <1>2, <2>1, RolesStep, NoAlarmAlone DEF AloneInv
  <2> QED
    BY <1>1, <2>2, <2>3 DEF AloneInv
<1>3. ASSUME NEW x \in Inode, NEW b \in Block, Rot(x, b) PROVE AloneInv'
  BY <1>1, <1>3, RotAlone DEF AloneInv
<1>4. CASE UNCHANGED vars
  <2>1. Roles' /\ InHand'
    BY <1>4 DEF AloneInv, Roles, InHand, OpenIsNamed, StartsBlank, InOrder, WrittenUpTo,
       vars, diskVars, procVars, planVars, fdVars, blockVars
  <2>2. OnDisk' /\ NoFalseAlarm'
    BY <1>4 DEF AloneInv, OnDisk, OneNameEach, GoneIsBlank, DescribedOrCut, PastEnd,
       Describes, Damaged, NoFalseAlarm, Genuine, RecordOf, vars, diskVars, procVars, planVars, fdVars, blockVars
  <2> QED
    BY <1>1, <2>1, <2>2 DEF AloneInv
<1> QED
  BY <1>2, <1>3, <1>4 DEF Next, Act

\* One process on its own, which also unlinks and may be killed at any call, raises
\* no alarm about a data file the storage has kept (verifyTheRecord), whatever
\* its earlier actions have left behind, the marks of genuine alarms included.
THEOREM NoFalseAlarmAloneHolds == Alone /\ Spec => []NoFalseAlarm
<1>1. Alone /\ Spec => []AloneInv
  BY InitAlone, NextAlone, PTL DEF Spec
<1>2. AloneInv => NoFalseAlarm
  BY DEF AloneInv
<1> QED
  BY <1>1, <1>2, PTL
================================================================================
