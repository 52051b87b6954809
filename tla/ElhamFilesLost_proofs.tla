-------------------------- MODULE ElhamFilesLost_proofs --------------------------
(***************************************************************************)
(* Half a file stays half a file, for any number of processes, names and   *)
(* blocks, with kills, full disks and unlinks by everybody.                *)
(*                                                                         *)
(* A step of process i keeps Lost(n) if it leaves n's links alone, gives   *)
(* no header to a file that has none, and does not put i past the checks   *)
(* that turn it away from n.  All three rest on what Lost(n) says of the   *)
(* processes: whoever would change a link or a header of n is Underway.    *)
(* For a header that is only so if a meta file that is open under a name   *)
(* is never linked under another (OneName), although names are removed     *)
(* while files are open; and for the links, if the places of create and    *)
(* of unlink are reached by these actions only (Roles).                    *)
(***************************************************************************)
EXTENDS ElhamFiles_proofs

\* The places only a create reaches, and those only an unlink reaches.
CreatePlaces == {"probeData", "probeMeta", "writeHeader", "writeControl", "writeAgain",
                 "writeRecord"}
Roles ==
  \A i \in Instance :
    /\ pc[i] \in CreatePlaces => act[i] = "aeCreate"
    /\ pc[i] \in {"unlinkData", "unlinkMeta"} => act[i] = "aeUnlink"

\* A meta file goes by one name, also when it is open and no longer linked.
OneName ==
  /\ \A n, m \in Name : mlink[n] # None /\ mlink[n] = mlink[m] => n = m
  /\ \A j \in Instance, n \in Name : mfd[j] # None /\ mlink[n] = mfd[j] => name[j] = n
  /\ \A j, k \in Instance : mfd[j] # None /\ mfd[j] = mfd[k] => name[j] = name[k]

NameInv == Inv /\ Roles /\ OneName

Act(i) == Step(i) \/ ChooseCreate(i) \/ ChooseExisting(i) \/ Crash(i) \/ Restart(i)

\* The places are reached by the actions they belong to.
LEMMA RolesStep ==
  ASSUME Inv, Roles, NEW i \in Instance, Act(i)
  PROVE  Roles'
<1> PlanType /\ Roles
  BY DEF Inv, TypeOK
<1> USE DEF Goto, Roles, PlanType, CreatePlaces, lockVars, planVars
<1>1. CASE ChooseCreate(i) \/ ChooseExisting(i)
  BY <1>1 DEF ChooseCreate, ChooseExisting
<1>2. CASE ProbeData(i) \/ ProbeMeta(i)
  BY <1>2 DEF ProbeData, ProbeMeta, RetryOrGiveUp
<1>3. CASE OpenData(i) \/ LockData(i) \/ OpenMeta(i) \/ LockMeta(i)
  BY <1>3 DEF OpenData, LockData, OpenMeta, LockMeta
<1>4. CASE LoseData(i) \/ LoseMeta(i) \/ LoseHistory(i) \/ MarkCorrupt(i) \/ Crash(i)
  BY <1>4 DEF LoseData, LoseMeta, LoseHistory, MarkCorrupt, Crash, Exit
<1>5. CASE WriteHeader(i) \/ WriteControl(i) \/ WriteAgain(i) \/ WriteRecord(i)
  BY <1>5 DEF WriteHeader, WriteControl, WriteAgain, WriteRecord, NextBlock
<1>6. CASE ReadHeader(i)
  BY <1>6 DEF ReadHeader
<1>7. CASE Verify(i)
  <2>1. /\ act' = act
        /\ \/ pc' = [pc EXCEPT ![i] = "verify"]
           \/ pc' = [pc EXCEPT ![i] = AfterLoop(i)]
           \/ pc' = [pc EXCEPT ![i] = "markCorrupt"]
    BY <1>7 DEF Verify
  <2> QED
    BY <2>1 DEF AfterLoop
<1>8. CASE UnlinkData(i) \/ UnlinkMeta(i) \/ CloseMeta(i)
  BY <1>8 DEF UnlinkData, UnlinkMeta, CloseMeta
<1>9. CASE CloseData(i) \/ OpenHistory(i) \/ WriteHistory(i) \/ Restart(i)
  BY <1>9 DEF CloseData, OpenHistory, WriteHistory, Restart, Forget
<1> QED
  BY <1>1, <1>2, <1>3, <1>4, <1>5, <1>6, <1>7, <1>8, <1>9 DEF Act, Step

\* A process that closes its meta file, or keeps it and its name, disturbs no
\* name; nor does one that has none open and takes another name.
LEMMA OneNameKept ==
  ASSUME OneName, NEW i \in Instance,
         mlink' = mlink,
         \A j \in Instance \ {i} : mfd'[j] = mfd[j] /\ name'[j] = name[j],
         mfd'[i] = None \/ (mfd'[i] = mfd[i] /\ name'[i] = name[i])
  PROVE  OneName'
BY DEF OneName

LEMMA OneNameKeptClosed ==
  ASSUME OneName, NEW i \in Instance,
         mlink' = mlink, mfd' = mfd, mfd[i] = None,
         \A j \in Instance \ {i} : name'[j] = name[j]
  PROVE  OneName'
BY DEF OneName

\* Opening a meta file takes the inode of the name, or one nobody has; and an
\* inode that lost its name gets another only when everybody has closed it.
LEMMA OneNameStep ==
  ASSUME Inv, OneName, NEW i \in Instance, Act(i)
  PROVE  OneName'
<1> PlanType /\ FdType /\ Located
  BY DEF Inv, TypeOK
<1> USE DEF Goto, PlanType, FdType, lockVars, planVars, fdVars, diskVars
<1>1. CASE ChooseCreate(i) \/ ChooseExisting(i)
  <2>1. mfd[i] = None
    BY <1>1 DEF Located, Choosing, ChooseCreate, ChooseExisting
  <2>2. /\ mlink' = mlink /\ mfd' = mfd
        /\ \A j \in Instance \ {i} : name'[j] = name[j]
    BY <1>1 DEF ChooseCreate, ChooseExisting
  <2> QED
    BY <2>1, <2>2, OneNameKeptClosed
<1>2. CASE ProbeData(i) \/ ProbeMeta(i)
  <2>1. mfd[i] = None
    BY <1>2 DEF Located, Choosing, ProbeData, ProbeMeta
  <2>2. /\ mlink' = mlink /\ mfd' = mfd
        /\ \A j \in Instance \ {i} : name'[j] = name[j]
    BY <1>2 DEF ProbeData, ProbeMeta, RetryOrGiveUp
  <2> QED
    BY <2>1, <2>2, OneNameKeptClosed
<1>3. CASE OpenData(i) \/ LockData(i) \/ LockMeta(i)
  BY <1>3, OneNameKept DEF OpenData, LockData, LockMeta
<1>4. CASE LoseData(i) \/ LoseMeta(i) \/ LoseHistory(i) \/ MarkCorrupt(i) \/ Crash(i)
  <2>1. mlink' = mlink
    BY <1>4 DEF LoseData, LoseMeta, LoseHistory, MarkCorrupt, Crash
  <2>2. /\ \A j \in Instance \ {i} : mfd'[j] = mfd[j] /\ name'[j] = name[j]
        /\ mfd'[i] = None \/ (mfd'[i] = mfd[i] /\ name'[i] = name[i])
    <3>1. CASE LoseData(i)
      BY <3>1 DEF LoseData, Exit
    <3>2. CASE LoseMeta(i)
      BY <3>2 DEF LoseMeta, Exit
    <3>3. CASE LoseHistory(i) \/ MarkCorrupt(i) \/ Crash(i)
      BY <3>3 DEF LoseHistory, MarkCorrupt, Crash, Exit
    <3> QED
      BY <1>4, <3>1, <3>2, <3>3
  <2> QED
    BY <2>1, <2>2, OneNameKept
<1>5. CASE WriteHeader(i) \/ WriteControl(i) \/ WriteAgain(i) \/ WriteRecord(i)
  BY <1>5, OneNameKept DEF WriteHeader, WriteControl, WriteAgain, WriteRecord
<1>6. CASE ReadHeader(i) \/ Verify(i) \/ UnlinkData(i) \/ CloseMeta(i)
  BY <1>6, OneNameKept DEF ReadHeader, Verify, UnlinkData, CloseMeta
<1>7. CASE CloseData(i) \/ OpenHistory(i) \/ WriteHistory(i)
  <2>1. mfd[i] = None /\ mfd' = mfd /\ mlink' = mlink
    BY <1>7 DEF Located, Choosing, CloseData, OpenHistory, WriteHistory
  <2>2. \A j \in Instance \ {i} : name'[j] = name[j]
    BY <1>7 DEF CloseData, OpenHistory, WriteHistory, Forget
  <2> QED
    BY <2>1, <2>2, OneNameKeptClosed
<1>8. CASE Restart(i)
  BY <1>8, OneNameKept DEF Restart
<1>9. CASE OpenMeta(i)
  <2>1. name' = name /\ name[i] \in Name /\ mlink \in [Name -> Inode \cup {None}]
    BY <1>9, InUse DEF OpenMeta, Inv, TypeOK, DiskType
  <2>2. CASE mlink' = mlink /\ mfd' = [mfd EXCEPT ![i] = mlink[name[i]]]
    BY <2>1, <2>2 DEF OneName
  <2>3. CASE mlink' = mlink /\ mfd' = mfd
    BY <2>1, <2>3, OneNameKept
  <2>4. ASSUME NEW x \in FreeMeta,
               mlink' = [mlink EXCEPT ![name[i]] = x], mfd' = [mfd EXCEPT ![i] = x]
        PROVE  OneName'
    BY <2>1, <2>4 DEF OneName, FreeMeta
  <2> QED
    BY <1>9, <2>2, <2>3, <2>4 DEF OpenMeta
<1>10. CASE UnlinkMeta(i)
  <2>1. /\ mlink' = [mlink EXCEPT ![name[i]] = None] /\ mfd' = [mfd EXCEPT ![i] = None]
        /\ name' = name /\ mlink \in [Name -> Inode \cup {None}]
    BY <1>10 DEF UnlinkMeta, Inv, TypeOK, DiskType
  <2> QED
    BY <2>1 DEF OneName
<1> QED
  BY <1>1, <1>2, <1>3, <1>4, <1>5, <1>6, <1>7, <1>8, <1>9, <1>10 DEF Act, Step

(***************************************************************************)
(* What a step does to half a file.                                        *)
(***************************************************************************)

\* The links of a half are left alone: whoever would link it is Underway.
LEMMA LinksStay ==
  ASSUME NameInv, NEW i \in Instance, Act(i), NEW n \in Name, Lost(n)
  PROVE  dlink'[n] = dlink[n] /\ mlink'[n] = mlink[n]
<1> /\ dlink \in [Name -> Inode \cup {None}] /\ mlink \in [Name -> Inode \cup {None}]
    /\ PlanType /\ ~Underway(i, n) /\ Roles
  BY DEF NameInv, Inv, TypeOK, DiskType, Lost
<1>1. CASE OpenData(i)
  <2>1. mlink' = mlink /\ name[i] \in Name
    BY <1>1, InUse DEF OpenData, NameInv
  <2>2. name[i] # n \/ act[i] # "aeCreate"
    BY <1>1 DEF OpenData, Underway
  <2> QED
    BY <1>1, <2>1, <2>2 DEF OpenData
<1>2. CASE OpenMeta(i)
  <2>1. dlink' = dlink /\ name[i] \in Name
    BY <1>2, InUse DEF OpenMeta, NameInv
  <2>2. name[i] # n \/ act[i] # "aeCreate"
    BY <1>2 DEF OpenMeta, Underway
  <2> QED
    BY <1>2, <2>1, <2>2 DEF OpenMeta
<1>3. CASE UnlinkData(i) \/ UnlinkMeta(i)
  <2>1. act[i] = "aeUnlink" /\ name[i] # n
    BY <1>3 DEF Roles, Underway, UnlinkData, UnlinkMeta
  <2> QED
    BY <1>3, <2>1 DEF UnlinkData, UnlinkMeta
<1>4. CASE UNCHANGED <<dlink, mlink>>
  BY <1>4
<1>5. \/ OpenData(i) \/ OpenMeta(i) \/ UnlinkData(i) \/ UnlinkMeta(i)
      \/ UNCHANGED <<dlink, mlink>>
  BY DEF Act, Step, diskVars, ChooseCreate, ChooseExisting, ProbeData, ProbeMeta, LockData,
     LoseData, LockMeta, LoseMeta, WriteHeader, WriteControl, WriteAgain, WriteRecord,
     ReadHeader, Verify, MarkCorrupt, CloseMeta, CloseData, OpenHistory, LoseHistory,
     WriteHistory, Crash, Restart
<1> QED
  BY <1>1, <1>2, <1>3, <1>4, <1>5

\* Only a create at the header of its meta file gives a file a header.
LEMMA HeadersStay ==
  ASSUME NameInv, NEW i \in Instance, Act(i), NEW x \in Inode, header[x].blocks = 0
  PROVE  header'[x].blocks = 0 \/ (pc[i] = "writeHeader" /\ mfd[i] = x)
<1> header \in [Inode -> [blocks : 0 .. MaxBlocks, corrupt : BOOLEAN]]
  BY DEF NameInv, Inv, TypeOK, DiskType
<1>1. CASE WriteHeader(i)
  BY <1>1 DEF WriteHeader
<1>2. CASE SweepMeta \/ MarkCorrupt(i)
  BY <1>2 DEF SweepMeta, MarkCorrupt, NoHeader
<1>3. CASE header' = header
  BY <1>3
<1>4. WriteHeader(i) \/ MarkCorrupt(i) \/ SweepMeta \/ header' = header
  BY DEF Act, Step, diskVars, ChooseCreate, ChooseExisting, ProbeData, ProbeMeta, OpenData,
     LockData, LoseData, OpenMeta, LockMeta, LoseMeta, WriteControl, WriteAgain, WriteRecord,
     ReadHeader, Verify, UnlinkData, UnlinkMeta, CloseMeta, CloseData, OpenHistory,
     LoseHistory, WriteHistory, Crash, Restart
<1> QED
  BY <1>1, <1>2, <1>3, <1>4

\* The process that takes the step does not get past the checks: create meets a
\* half, unlink finds no meta file, or one without a header.
LEMMA StaysAway ==
  ASSUME NameInv, NEW i \in Instance, Act(i), NEW n \in Name, Lost(n)
  PROVE  ~Underway(i, n)'
<1> SUFFICES ASSUME name'[i] = n PROVE ~Underway(i, n)'
  BY DEF Underway
<1> /\ PlanType /\ FdType /\ Located /\ ~Underway(i, n) /\ Roles /\ n # None
  BY ValuesAssumption DEF NameInv, Inv, TypeOK, Lost
<1>l. dlink'[n] = dlink[n] /\ mlink'[n] = mlink[n]
  BY LinksStay
<1> USE DEF Goto, PlanType, FdType, lockVars, planVars, fdVars, diskVars, CreatePlaces
<1>1. CASE ChooseCreate(i) \/ ChooseExisting(i)
  <2>1. pc'[i] \in {"probeData", "openData"} /\ mfd'[i] = None /\ dfd'[i] = None
        /\ (act'[i] = "aeCreate" => pc'[i] = "probeData")
    BY <1>1 DEF Located, Choosing, ChooseCreate, ChooseExisting
  <2> QED
    BY <2>1 DEF Underway
<1>2. CASE ProbeData(i)
  <2>1. act'[i] = "aeCreate"
    BY <1>2 DEF ProbeData, Roles
  <2>2. \/ pc'[i] \in {"probeData", "closeMeta"}
        \/ pc'[i] = "probeMeta" /\ name[i] = n /\ dlink[n] = None
    BY <1>2 DEF ProbeData, RetryOrGiveUp
  <2> QED
    BY <1>l, <2>1, <2>2 DEF Underway, Lost
<1>3. CASE ProbeMeta(i)
  <2>1. act[i] = "aeCreate" /\ act'[i] = "aeCreate"
    BY <1>3 DEF ProbeMeta, Roles
  <2>2. pc'[i] \in {"probeData", "closeMeta"} \/ (name[i] = n /\ mlink[n] = None)
    BY <1>3 DEF ProbeMeta, RetryOrGiveUp
  <2>3. pc'[i] \in {"probeData", "closeMeta"}
    BY <1>3, <2>1, <2>2 DEF Underway, ProbeMeta
  <2> QED
    BY <2>1, <2>3 DEF Underway
<1>4. CASE OpenData(i)
  <2>1. name[i] = n /\ act' = act /\ pc[i] = "openData" /\ mfd' = mfd
    BY <1>4 DEF OpenData
  <2>2. act[i] # "aeCreate" /\ mfd[i] = None /\ dfd[i] = None
    BY <2>1 DEF Underway, Located, Choosing
  <2>3. pc'[i] \in {"lockData", "openMeta", "closeMeta"} /\ (dlink[n] # None \/ dfd'[i] = None)
    BY <1>4, <2>1, <2>2 DEF OpenData
  <2> QED
    BY <1>l, <2>1, <2>2, <2>3 DEF Underway
<1>5. CASE LockData(i)
  <2>1. /\ name[i] = n /\ act' = act /\ pc[i] = "lockData" /\ mfd' = mfd /\ dfd' = dfd
        /\ pc'[i] = "openMeta"
    BY <1>5 DEF LockData
  <2>2. act[i] # "aeCreate" /\ mfd[i] = None
    BY <2>1 DEF Underway, Located
  <2> QED
    BY <1>l, <2>1, <2>2 DEF Underway
<1>6. CASE LoseData(i)
  <2>1. CASE Exit(i, "openFailures")
    BY <2>1 DEF Exit
  <2>2. CASE ~Exit(i, "openFailures")
    <3>1. /\ pc[i] = "lockData" /\ pc'[i] = "closeMeta" /\ dfd'[i] = None /\ mfd' = mfd
      BY <1>6, <2>2 DEF LoseData
    <3>2. mfd[i] = None
      BY <3>1 DEF Located
    <3> QED
      BY <3>1, <3>2 DEF Underway
  <2> QED
    BY <2>1, <2>2
<1>7. CASE OpenMeta(i)
  <2>1. name[i] = n /\ act' = act /\ pc[i] = "openMeta" /\ dfd' = dfd /\ header' = header
    BY <1>7 DEF OpenMeta
  <2>2. act[i] # "aeCreate" /\ mfd[i] = None /\ dfd[i] # None
    BY <2>1 DEF Underway, Located
  <2>3. pc'[i] \in {"lockMeta", "closeMeta"} /\ mfd'[i] \in {None, mlink[n]}
    BY <1>7, <2>1, <2>2 DEF OpenMeta
  <2>4. act[i] = "aeUnlink" => dlink[n] # None
    BY <2>1, <2>2 DEF Underway
  <2>5. act[i] = "aeUnlink" /\ mlink[n] # None => header[mlink[n]].blocks = 0
    BY <2>4 DEF Lost
  <2> QED
    BY <1>l, <2>1, <2>2, <2>3, <2>4, <2>5 DEF Underway
<1>8. CASE LockMeta(i)
  <2>1. /\ name[i] = n /\ act' = act /\ pc[i] = "lockMeta" /\ mfd' = mfd /\ dfd' = dfd
        /\ header' = header
    BY <1>8 DEF LockMeta
  <2>2. act[i] # "aeCreate"
    BY <2>1 DEF Underway
  <2>3. pc'[i] = "readHeader"
    BY <1>8, <2>2 DEF LockMeta
  <2> QED
    BY <1>l, <2>1, <2>2, <2>3 DEF Underway
<1>9. CASE LoseMeta(i)
  <2>1. CASE Exit(i, "openFailures")
    BY <2>1 DEF Exit
  <2>2. CASE ~Exit(i, "openFailures")
    <3>1. /\ pc'[i] = "closeMeta" /\ mfd'[i] = None /\ dfd' = dfd /\ name' = name /\ act' = act
      BY <1>9, <2>2 DEF LoseMeta
    <3> QED
      BY <1>l, <3>1 DEF Underway
  <2> QED
    BY <2>1, <2>2
<1>10. CASE WriteHeader(i) \/ WriteControl(i) \/ WriteAgain(i) \/ WriteRecord(i)
  <2>1. name' = name /\ act[i] = "aeCreate"
    BY <1>10 DEF Roles, WriteHeader, WriteControl, WriteAgain, WriteRecord
  <2> QED
    BY <1>10, <2>1 DEF Underway, WriteHeader, WriteControl, WriteAgain, WriteRecord
<1>11. CASE ReadHeader(i)
  <2>1. name' = name /\ act' = act /\ mfd' = mfd /\ dfd' = dfd /\ header' = header
    BY <1>11 DEF ReadHeader
  <2>2. pc[i] = "readHeader" /\ mfd[i] # None
    BY <1>11 DEF ReadHeader, Located, UsePlaces, MetaLockPlaces
  <2>3. \/ pc'[i] = "closeMeta"
        \/ pc'[i] = "verify" /\ header[mfd[i]].blocks > 0
    BY <1>11 DEF ReadHeader
  <2> QED
    BY <1>l, <2>1, <2>2, <2>3 DEF Underway
<1>12. CASE Verify(i)
  <2>1. name' = name /\ act' = act /\ mfd' = mfd /\ dfd' = dfd /\ pc[i] = "verify"
    BY <1>12 DEF Verify
  <2>2. act[i] # "aeUnlink"
    BY <2>1 DEF Underway
  <2>3. pc'[i] \in {"verify", "closeMeta", "markCorrupt"}
    BY <1>12, <2>2 DEF Verify, AfterLoop
  <2> QED
    BY <2>1, <2>2, <2>3 DEF Underway
<1>13. CASE LoseHistory(i) \/ MarkCorrupt(i) \/ Crash(i)
  BY <1>13 DEF LoseHistory, MarkCorrupt, Crash, Exit
<1>14. CASE UnlinkData(i) \/ UnlinkMeta(i)
  <2>1. name' = name /\ act[i] = "aeUnlink" /\ pc[i] \in {"unlinkData", "unlinkMeta"}
    BY <1>14 DEF Roles, UnlinkData, UnlinkMeta
  <2> QED
    BY <2>1 DEF Underway
<1>15. CASE CloseMeta(i)
  <2>1. /\ pc'[i] = "closeData" /\ mfd'[i] = None /\ dfd' = dfd /\ name' = name /\ act' = act
    BY <1>15 DEF CloseMeta
  <2> QED
    BY <1>l, <2>1 DEF Underway
<1>16. CASE CloseData(i)
  <2>1. /\ pc'[i] \in {"idle", "openHistory"} /\ mfd' = mfd /\ dfd'[i] = None
        /\ pc[i] = "closeData"
    BY <1>16 DEF CloseData
  <2>2. mfd[i] = None
    BY <2>1 DEF Located
  <2> QED
    BY <2>1, <2>2 DEF Underway
<1>17. CASE OpenHistory(i) \/ WriteHistory(i) \/ Restart(i)
  <2>1. /\ pc'[i] \in {"idle", "writeHistory"} /\ mfd' = mfd /\ dfd' = dfd
        /\ pc[i] \in {"openHistory", "writeHistory", "exited"}
    BY <1>17 DEF OpenHistory, WriteHistory, Restart
  <2>2. mfd[i] = None /\ dfd[i] = None
    BY <2>1 DEF Located, Choosing
  <2> QED
    BY <2>1, <2>2 DEF Underway
<1> QED
  BY <1>1, <1>2, <1>3, <1>4, <1>5, <1>6, <1>7, <1>8, <1>9, <1>10, <1>11, <1>12, <1>13,
     <1>14, <1>15, <1>16, <1>17 DEF Act, Step

\* A step of process i moves no other one.
LEMMA OthersStay ==
  ASSUME NameInv, NEW i \in Instance, Act(i), NEW j \in Instance, j # i
  PROVE  /\ pc'[j] = pc[j] /\ act'[j] = act[j] /\ name'[j] = name[j]
         /\ mfd'[j] = mfd[j] /\ dfd'[j] = dfd[j]
<1> PlanType /\ FdType
  BY DEF NameInv, Inv, TypeOK
<1> USE DEF Goto, PlanType, FdType, lockVars, planVars, fdVars
<1>1. CASE ChooseCreate(i) \/ ChooseExisting(i) \/ ProbeData(i) \/ ProbeMeta(i)
  BY <1>1 DEF ChooseCreate, ChooseExisting, ProbeData, ProbeMeta, RetryOrGiveUp
<1>2. CASE OpenData(i) \/ LockData(i) \/ OpenMeta(i) \/ LockMeta(i)
  BY <1>2 DEF OpenData, LockData, OpenMeta, LockMeta
<1>3. CASE LoseData(i)
  BY <1>3 DEF LoseData, Exit
<1>4. CASE LoseMeta(i)
  BY <1>4 DEF LoseMeta, Exit
<1>5. CASE LoseHistory(i) \/ MarkCorrupt(i) \/ Crash(i)
  BY <1>5 DEF LoseHistory, MarkCorrupt, Crash, Exit
<1>6. CASE WriteHeader(i)
  BY <1>6 DEF WriteHeader
<1>7. CASE WriteControl(i) \/ WriteAgain(i) \/ WriteRecord(i)
  BY <1>7 DEF WriteControl, WriteAgain, WriteRecord, NextBlock
<1>8. CASE ReadHeader(i) \/ UnlinkData(i) \/ UnlinkMeta(i) \/ CloseMeta(i)
  BY <1>8 DEF ReadHeader, UnlinkData, UnlinkMeta, CloseMeta
<1>9. CASE Verify(i)
  BY <1>9 DEF Verify
<1>10. CASE CloseData(i) \/ OpenHistory(i) \/ WriteHistory(i) \/ Restart(i)
  BY <1>10 DEF CloseData, OpenHistory, WriteHistory, Restart, Forget
<1> QED
  BY <1>1, <1>2, <1>3, <1>4, <1>5, <1>6, <1>7, <1>8, <1>9, <1>10 DEF Act, Step

\* A file whose header somebody writes is under way under every name it goes by.
LEMMA NoNewHeader ==
  ASSUME NameInv, NEW i \in Instance, Act(i), NEW n \in Name, Lost(n),
         NEW x \in Inode, header[x].blocks = 0,
         mlink[n] = x \/ \E j \in Instance : mfd[j] = x /\ name[j] = n
  PROVE  header'[x].blocks = 0
<1> SUFFICES ASSUME pc[i] = "writeHeader", mfd[i] = x PROVE FALSE
  BY HeadersStay
<1>1. name[i] = n
  BY ValuesAssumption DEF NameInv, OneName
<1>2. act[i] = "aeCreate"
  BY DEF NameInv, Roles, CreatePlaces
<1> QED
  BY <1>1, <1>2 DEF Lost, Underway

LEMMA LostStays ==
  ASSUME NameInv, NEW i \in Instance, Act(i), NEW n \in Name, Lost(n)
  PROVE  Lost(n)'
<1>1. dlink'[n] = dlink[n] /\ mlink'[n] = mlink[n]
  BY LinksStay
<1>2. /\ mlink[n] \in Inode \cup {None} /\ \A j \in Instance : mfd[j] \in Inode \cup {None}
      /\ \A x \in Inode : header[x].blocks \in Nat
  BY BoundsAssumption DEF NameInv, Inv, TypeOK, DiskType, FdType
<1>3. ASSUME mlink[n] # None, header[mlink[n]].blocks = 0
      PROVE  header'[mlink[n]].blocks = 0
  BY <1>2, <1>3, NoNewHeader
<1>4. ASSUME NEW j \in Instance PROVE ~Underway(j, n)'
  <2>1. CASE j = i
    BY <2>1, StaysAway
  <2>2. CASE j # i
    <3>1. /\ pc'[j] = pc[j] /\ act'[j] = act[j] /\ name'[j] = name[j]
          /\ mfd'[j] = mfd[j] /\ dfd'[j] = dfd[j]
      BY <2>2, OthersStay
    <3>2. ~Underway(j, n)
      BY DEF Lost
    <3>3. ASSUME name[j] = n, mfd[j] # None, header[mfd[j]].blocks = 0
          PROVE  ~(header'[mfd[j]].blocks > 0)
      <4>1. header'[mfd[j]].blocks = 0
        BY <1>2, <3>3, NoNewHeader
      <4> QED
        BY <4>1
    <3>4. mfd[j] # None /\ ~(header[mfd[j]].blocks > 0) => header[mfd[j]].blocks = 0
      BY <1>2
    <3> QED
      BY <1>1, <3>1, <3>2, <3>3, <3>4 DEF Underway
  <2> QED
    BY <2>1, <2>2
<1> QED
  BY <1>1, <1>3, <1>4 DEF Lost

(***************************************************************************)
(* The theorem.                                                            *)
(***************************************************************************)
LEMMA NameInvHolds == Spec => []NameInv
<1>1. Init => NameInv
  <2>1. Init => Roles /\ OneName
    BY DEF Init, Roles, OneName, CreatePlaces
  <2> QED
    BY <2>1, InitInv DEF NameInv
<1>2. NameInv /\ [Next]_vars => NameInv'
  <2> SUFFICES ASSUME NameInv, [Next]_vars PROVE NameInv'
    OBVIOUS
  <2>1. Inv'
    BY NextInv DEF NameInv
  <2>2. ASSUME NEW i \in Instance, Act(i) PROVE Roles' /\ OneName'
    BY <2>2, RolesStep, OneNameStep DEF NameInv
  <2>3. ASSUME UNCHANGED <<mlink, pc, act, name, mfd>> PROVE Roles' /\ OneName'
    <3>1. Roles'
      BY <2>3 DEF NameInv, Roles
    <3>2. OneName'
      BY <2>3 DEF NameInv, OneName
    <3> QED
      BY <3>1, <3>2
  <2>4. \/ \E i \in Instance : Act(i)
        \/ UNCHANGED <<mlink, pc, act, name, mfd>>
    BY DEF Next, Act, Rot, vars, diskVars, procVars, planVars, fdVars
  <2> QED
    BY <2>1, <2>2, <2>3, <2>4 DEF NameInv
<1> QED
  BY <1>1, <1>2, PTL DEF Spec

\* A name that has lost one half of its file, or the header of its meta file,
\* is out of the test for good: no interleaving of creates, reads and unlinks,
\* no kill and no restart gives it back, so the tree only ever loses names
\* (actionCreate's "Assume a race condition and reject this one", the returns
\* of actionUnlink).
THEOREM LostForeverHolds == Spec => LostForever
<1>1. NameInv /\ [Next]_vars => [\A n \in Name : Lost(n) => Lost(n)']_vars
  <2> SUFFICES ASSUME NameInv, Next, NEW n \in Name, Lost(n) PROVE Lost(n)'
    OBVIOUS
  <2>1. CASE \E i \in Instance : Act(i)
    BY <2>1, LostStays
  <2>2. CASE \E x \in Inode, b \in Block : Rot(x, b)
    BY <2>2 DEF Rot, Lost, Underway, procVars, planVars, fdVars
  <2> QED
    BY <2>1, <2>2 DEF Next, Act
<1> QED
  BY <1>1, NameInvHolds, PTL DEF Spec, LostForever
=============================================================================
