----------------------------- MODULE ElhamFiles -----------------------------
(***************************************************************************)
(* Several ElHam processes at work on one tree of test files.              *)
(*                                                                         *)
(* A logical file is a NAME: the same relative path under the data, the    *)
(* meta and the history base.  A process repeats one of five actions on a  *)
(* name, chosen by weighted dice (actions.c, decideOnAction).  Processes   *)
(* share nothing but the filesystems: directory entries, file contents and *)
(* POSIX whole-file locks.  An action here is a run of calls that another  *)
(* process can see only as a whole: a step starts or ends wherever the     *)
(* code opens, locks, unlocks, removes or writes a file.                   *)
(*                                                                         *)
(* Contents.  A STAMP stands for the random seeds of one creation of a     *)
(* file: the meta block of an Active block holds the seed and the offset   *)
(* of a data record, the record holds the bytes that seed generates, so    *)
(* "the record matches its meta block" is equality of stamps.  A meta      *)
(* block whose inUse is not Active (never written, Virgin, or overwritten  *)
(* by other bytes) makes a reader compare nothing and is Junk.  Meta       *)
(* blocks stand in SLOTS behind the header; which block the one in a slot  *)
(* describes (its offset) is part of what it holds.  One that was half     *)
(* overwritten may stay Active with an offset that is ASTRAY.  The blocks  *)
(* of all creations have one size, as with -blocksize N.                   *)
(***************************************************************************)
EXTENDS Integers, Sequences, FiniteSets

CONSTANTS Instance,   \* the ElHam processes
          Name,       \* relative paths, "dir/dir/file.flh"
          Inode,      \* file identities, in the data and in the meta filesystem
          Stamp,      \* families of seeds
          None,       \* no instance, no inode, no name
          MaxBlocks,  \* the largest number of blocks a creation can roll
          ActOn,      \* -acton: how many blocks an action picks
          MaxTries,   \* MAX(files.min.hard, 60): names a create tries
          Ops,        \* Instance -> the actions whose weight is not zero
          Faults      \* what the environment may do, a subset of AllFaults

AllOps    == {"aeRead", "aeCreate", "aeWrite", "aeDelete", "aeUnlink"}
AllFaults == {"crash", "fullDisk", "rot"}
Block     == 0 .. MaxBlocks - 1

Astray == -1     \* the offset of no record of the file
Junk == [stamp |-> None, block |-> 0, corrupt |-> FALSE]  \* a meta block that is not Active
Hole == "hole"   \* a data record nobody wrote
Bad  == "bad"    \* a data record the storage has damaged

ASSUME ValuesAssumption ==
  /\ None \notin Instance \cup Inode \cup Name \cup Stamp
  /\ None \notin AllOps
  /\ {Hole, Bad} \cap Stamp = {}

ASSUME BoundsAssumption ==
  /\ MaxBlocks \in Nat \ {0}
  /\ ActOn \in Nat \ {0}
  /\ MaxTries \in Nat \ {0}

ASSUME SwitchesAssumption ==
  /\ Ops \in [Instance -> SUBSET AllOps]
  /\ Faults \subseteq AllFaults

VARIABLES
  dlink,    \* data directory: Name -> the inode the name refers to
  mlink,    \* meta directory
  record,   \* contents of a data inode, block by block
  header,   \* DataFileControlBlock of a meta inode; blocks = 0: none written
  control,  \* BlockStructs of a meta inode, slot by slot
  dlock,    \* who holds the whole-file lock of a data inode
  mlock,    \* ... of a meta inode
  hlock,    \* ... of a name's history file, which is never removed
  pc,       \* where a process is; the names are those of the calls it is about to make
  act,      \* takeAction
  name,     \* szFile: the name it acts on
  tries,    \* j of actionCreate: names tried so far
  dfd,      \* data.fd: the data inode it has open
  mfd,      \* meta.fd
  stamp,    \* the seeds it rolled for this creation
  picks,    \* blocks it will act on: the first ActOn of "shuffled"
  blk,      \* the slot hitThisBlock is, or the block j of actionCreate
  slot,     \* the slot the offset of a creator's meta file is at
  dfcb,     \* dfcb.corrupt, which outlives the action
  hq,       \* history queue, oldest first
  why       \* why the process ended

diskVars  == <<dlink, mlink, record, header, control>>
lockVars  == <<dlock, mlock, hlock>>
fdVars    == <<dfd, mfd>>
planVars  == <<act, name, tries>>
blockVars == <<stamp, picks, blk, slot>>
procVars  == <<pc, planVars, fdVars, blockVars, dfcb, hq, why>>
vars      == <<diskVars, lockVars, procVars>>

Places == {"idle", "probeData", "probeMeta", "openData", "lockData", "openMeta",
           "lockMeta", "writeHeader", "writeControl", "writeAgain", "writeRecord",
           "readHeader", "verify", "markCorrupt", "unlinkData", "unlinkMeta",
           "closeMeta", "closeData", "openHistory", "writeHistory", "exited"}
Reasons == {"none", "corrupt", "history", "openFailures", "crash"}

NoHeader == [blocks |-> 0, corrupt |-> FALSE]
NoRecord == [b \in Block |-> Hole]
NoControl == [b \in Block |-> Junk]
Controls == [stamp : Stamp \cup {None}, block : Block \cup {Astray}, corrupt : BOOLEAN]

\* The entries of a create have -1 for a block: it leaves hitThisBlock alone.
Entries == [action : AllOps, block : Block \cup {-1}, corrupt : BOOLEAN]

DiskType ==
  /\ dlink \in [Name -> Inode \cup {None}]
  /\ mlink \in [Name -> Inode \cup {None}]
  /\ record \in [Inode -> [Block -> Stamp \cup {Hole, Bad}]]
  /\ header \in [Inode -> [blocks : 0 .. MaxBlocks, corrupt : BOOLEAN]]
  /\ control \in [Inode -> [Block -> Controls]]

LockType ==
  /\ dlock \in [Inode -> Instance \cup {None}]
  /\ mlock \in [Inode -> Instance \cup {None}]
  /\ hlock \in [Name -> Instance \cup {None}]

PlanType ==
  /\ pc \in [Instance -> Places]
  /\ act \in [Instance -> AllOps \cup {None}]
  /\ name \in [Instance -> Name \cup {None}]
  /\ tries \in [Instance -> 0 .. MaxTries]

FdType ==
  /\ dfd \in [Instance -> Inode \cup {None}]
  /\ mfd \in [Instance -> Inode \cup {None}]

BlockType ==
  /\ stamp \in [Instance -> Stamp \cup {None}]
  /\ picks \in [Instance -> SUBSET Block]
  /\ blk \in [Instance -> Block]
  /\ slot \in [Instance -> 0 .. MaxBlocks]

LogType ==
  /\ dfcb \in [Instance -> BOOLEAN]
  /\ hq \in [Instance -> Seq(Entries)]
  /\ why \in [Instance -> Reasons]

TypeOK == DiskType /\ LockType /\ PlanType /\ FdType /\ BlockType /\ LogType

Init ==
  /\ dlink = [n \in Name |-> None] /\ mlink = [n \in Name |-> None]
  /\ record = [x \in Inode |-> NoRecord]
  /\ header = [x \in Inode |-> NoHeader]
  /\ control = [x \in Inode |-> NoControl]
  /\ dlock = [x \in Inode |-> None] /\ mlock = [x \in Inode |-> None]
  /\ hlock = [n \in Name |-> None]
  /\ pc = [i \in Instance |-> "idle"]
  /\ act = [i \in Instance |-> None]
  /\ name = [i \in Instance |-> None]
  /\ tries = [i \in Instance |-> 0]
  /\ dfd = [i \in Instance |-> None] /\ mfd = [i \in Instance |-> None]
  /\ stamp = [i \in Instance |-> None]
  /\ picks = [i \in Instance |-> {}]
  /\ blk = [i \in Instance |-> 0] /\ slot = [i \in Instance |-> 0]
  /\ dfcb = [i \in Instance |-> FALSE]
  /\ hq = [i \in Instance |-> <<>>]
  /\ why = [i \in Instance |-> "none"]

(***************************************************************************)
(* Helpers.                                                                *)
(***************************************************************************)
Goto(i, place) == pc' = [pc EXCEPT ![i] = place]

\* A file without a name and without an open descriptor is gone: what the
\* inode held is gone with it.  Evaluated after the links and descriptors changed.
DataGone(x) == (\A n \in Name : dlink'[n] # x) /\ (\A j \in Instance : dfd'[j] # x)
MetaGone(x) == (\A n \in Name : mlink'[n] # x) /\ (\A j \in Instance : mfd'[j] # x)

SweepData ==
  record' = [x \in Inode |-> IF DataGone(x) THEN NoRecord ELSE record[x]]
SweepMeta ==
  /\ header' = [x \in Inode |-> IF MetaGone(x) THEN NoHeader ELSE header[x]]
  /\ control' = [x \in Inode |-> IF MetaGone(x) THEN NoControl ELSE control[x]]

\* What open(O_CREAT) on a free name allocates.
FreeData == {x \in Inode : (\A n \in Name : dlink[n] # x) /\ (\A j \in Instance : dfd[j] # x)}
FreeMeta == {x \in Inode : (\A n \in Name : mlink[n] # x) /\ (\A j \in Instance : mfd[j] # x)}

\* Seeds are rolled anew for every creation; two creations do not roll the same.
FreshStamps ==
  {g \in Stamp : /\ \A x \in Inode, b \in Block : record[x][b] # g /\ control[x][b].stamp # g
                 /\ \A j \in Instance : stamp[j] # g}

\* The first ActOn entries of a random permutation of the file's blocks.
Shuffles(blocks) ==
  {S \in SUBSET (0 .. blocks - 1) :
     Cardinality(S) = IF blocks < ActOn THEN blocks ELSE ActOn}

\* The entries the directory scan found: a process picks only among these,
\* and opens its pick later.
Listed(n) == dlink[n] # None

\* A read of block b ends short when nothing was written at or after it.
PastEnd(x, b) == \A c \in Block : c >= b => record[x][c] = Hole

LocksData(op) == op \in {"aeCreate", "aeUnlink"}

\* Process i is gone: its descriptors are closed and its locks released.
Exit(i, reason) ==
  /\ Goto(i, "exited")
  /\ why' = [why EXCEPT ![i] = reason]
  /\ dfd' = [dfd EXCEPT ![i] = None]
  /\ mfd' = [mfd EXCEPT ![i] = None]
  /\ dlock' = [x \in Inode |-> IF dlock[x] = i THEN None ELSE dlock[x]]
  /\ mlock' = [x \in Inode |-> IF mlock[x] = i THEN None ELSE mlock[x]]
  /\ hlock' = [n \in Name |-> IF hlock[n] = i THEN None ELSE hlock[n]]
  /\ act' = [act EXCEPT ![i] = None]
  /\ name' = [name EXCEPT ![i] = None]
  /\ tries' = [tries EXCEPT ![i] = 0]
  /\ stamp' = [stamp EXCEPT ![i] = None]
  /\ picks' = [picks EXCEPT ![i] = {}]
  /\ blk' = [blk EXCEPT ![i] = 0]
  /\ slot' = [slot EXCEPT ![i] = 0]
  /\ dfcb' = [dfcb EXCEPT ![i] = FALSE]
  /\ hq' = [hq EXCEPT ![i] = <<>>]

(***************************************************************************)
(* decideOnAction: the dice choose an action whose weight is not zero.     *)
(* A create rolls a name; the others take a name of the scanned list.      *)
(***************************************************************************)
ChooseCreate(i) ==
  /\ pc[i] = "idle" /\ "aeCreate" \in Ops[i]
  /\ \E n \in Name : name' = [name EXCEPT ![i] = n]
  /\ act' = [act EXCEPT ![i] = "aeCreate"]
  /\ tries' = [tries EXCEPT ![i] = 1]
  /\ Goto(i, "probeData")
  /\ UNCHANGED <<diskVars, lockVars, fdVars, blockVars, dfcb, hq, why>>

ChooseExisting(i) ==
  /\ pc[i] = "idle"
  /\ \E op \in Ops[i] \ {"aeCreate"}, n \in Name :
       /\ Listed(n)
       /\ act' = [act EXCEPT ![i] = op]
       /\ name' = [name EXCEPT ![i] = n]
  /\ Goto(i, "openData")
  /\ UNCHANGED <<diskVars, lockVars, fdVars, tries, blockVars, dfcb, hq, why>>

(***************************************************************************)
(* actionCreate, choosing the name: isFile(data), then isFile(meta); a     *)
(* name that has either is rejected and another one rolled, up to MaxTries *)
(* times.                                                                  *)
(***************************************************************************)
\* Mutant of RetryOrGiveUp: the loop variable is not advanced.
RetryForever(i) ==
  \/ /\ tries[i] < MaxTries
     /\ \E n \in Name : name' = [name EXCEPT ![i] = n]
     /\ Goto(i, "probeData")
     /\ UNCHANGED tries
  \/ /\ tries[i] = MaxTries
     /\ Goto(i, "closeMeta")
     /\ UNCHANGED <<name, tries>>

RetryOrGiveUp(i) ==
  \/ /\ tries[i] < MaxTries
     /\ \E n \in Name : name' = [name EXCEPT ![i] = n]
     /\ tries' = [tries EXCEPT ![i] = @ + 1]
     /\ Goto(i, "probeData")
  \/ /\ tries[i] = MaxTries
     /\ Goto(i, "closeMeta")
     /\ UNCHANGED <<name, tries>>

\* Mutant of ProbeData: isFile(data) is not asked.
ProbeDataBlindly(i) ==
  /\ pc[i] = "probeData"
  /\ Goto(i, "probeMeta")
  /\ UNCHANGED <<diskVars, lockVars, fdVars, planVars, blockVars, dfcb, hq, why>>

ProbeData(i) ==
  /\ pc[i] = "probeData"
  /\ IF dlink[name[i]] # None
     THEN RetryOrGiveUp(i)
     ELSE Goto(i, "probeMeta") /\ UNCHANGED <<name, tries>>
  /\ UNCHANGED <<diskVars, lockVars, fdVars, act, blockVars, dfcb, hq, why>>

ProbeMeta(i) ==
  /\ pc[i] = "probeMeta"
  /\ IF mlink[name[i]] # None
     THEN RetryOrGiveUp(i)
     ELSE Goto(i, "openData") /\ UNCHANGED <<name, tries>>
  /\ UNCHANGED <<diskVars, lockVars, fdVars, act, blockVars, dfcb, hq, why>>

(***************************************************************************)
(* eh_OpenFile(&pcs->data).  A create opens with O_CREAT and without       *)
(* O_EXCL; read, write and delete take no lock on the data file (smNone),  *)
(* create and unlink lock it whole (smAll).  A failed open returns false.  *)
(***************************************************************************)
OpenData(i) ==
  /\ pc[i] = "openData"
  /\ \/ /\ dlink[name[i]] # None
        /\ dfd' = [dfd EXCEPT ![i] = dlink[name[i]]]
        /\ Goto(i, IF LocksData(act[i]) THEN "lockData" ELSE "openMeta")
        /\ UNCHANGED dlink
     \/ /\ dlink[name[i]] = None /\ act[i] = "aeCreate"
        /\ \E x \in FreeData :
             /\ x = CHOOSE y \in FreeData : TRUE
             /\ dlink' = [dlink EXCEPT ![name[i]] = x]
             /\ dfd' = [dfd EXCEPT ![i] = x]
        /\ Goto(i, "lockData")
     \/ /\ dlink[name[i]] = None /\ act[i] # "aeCreate"
        /\ Goto(i, "closeMeta")
        /\ UNCHANGED <<dlink, dfd>>
  /\ UNCHANGED <<mlink, record, header, control, lockVars, mfd, planVars,
                 blockVars, dfcb, hq, why>>

LockData(i) ==
  /\ pc[i] = "lockData" /\ dlock[dfd[i]] = None
  /\ dlock' = [dlock EXCEPT ![dfd[i]] = i]
  /\ Goto(i, "openMeta")
  /\ UNCHANGED <<diskVars, mlock, hlock, planVars, fdVars, blockVars, dfcb, hq, why>>

\* eh_CreateLock gave up: at once if the bWait die says so, else after a poll
\* or more.  eh_OpenFile closes the file again.  A create counts consecutive
\* failures and ends the process at the sixty-first (the count is not kept
\* here: a failure may be the last one allowed).
LoseData(i) ==
  /\ pc[i] = "lockData" /\ dlock[dfd[i]] # None
  /\ UNCHANGED dlink
  /\ \/ /\ dfd' = [dfd EXCEPT ![i] = None]
        /\ Goto(i, "closeMeta")
        /\ UNCHANGED <<lockVars, mfd, planVars, blockVars, dfcb, hq, why>>
     \/ act[i] = "aeCreate" /\ Exit(i, "openFailures")
  /\ SweepData
  /\ UNCHANGED <<mlink, header, control>>

OpenMeta(i) ==
  /\ pc[i] = "openMeta"
  /\ \/ /\ mlink[name[i]] # None
        /\ mfd' = [mfd EXCEPT ![i] = mlink[name[i]]]
        /\ Goto(i, "lockMeta")
        /\ UNCHANGED mlink
     \/ /\ mlink[name[i]] = None /\ act[i] = "aeCreate"
        /\ \E x \in FreeMeta :
             /\ x = CHOOSE y \in FreeMeta : TRUE
             /\ mlink' = [mlink EXCEPT ![name[i]] = x]
             /\ mfd' = [mfd EXCEPT ![i] = x]
        /\ Goto(i, "lockMeta")
     \/ /\ mlink[name[i]] = None /\ act[i] # "aeCreate"
        /\ Goto(i, "closeMeta")
        /\ UNCHANGED <<mlink, mfd>>
  /\ UNCHANGED <<dlink, record, header, control, lockVars, dfd, planVars,
                 blockVars, dfcb, hq, why>>

\* Mutant of LockMeta: read, write and delete open the meta file with smNone too.
LockMetaToWriteOnly(i) ==
  /\ pc[i] = "lockMeta"
  /\ \/ /\ LocksData(act[i]) /\ mlock[mfd[i]] = None
        /\ mlock' = [mlock EXCEPT ![mfd[i]] = i]
     \/ ~LocksData(act[i]) /\ UNCHANGED mlock
  /\ Goto(i, IF act[i] = "aeCreate" THEN "writeHeader" ELSE "readHeader")
  /\ UNCHANGED <<diskVars, dlock, hlock, planVars, fdVars, blockVars, dfcb, hq, why>>

\* Mutant of LockMeta: a reader locks its data file too, but after the meta file.
LockMetaThenData(i) ==
  /\ pc[i] = "lockMeta" /\ mlock[mfd[i]] = None
  /\ mlock' = [mlock EXCEPT ![mfd[i]] = i]
  /\ Goto(i, IF act[i] = "aeCreate" THEN "writeHeader"
             ELSE IF act[i] = "aeUnlink" THEN "readHeader" ELSE "lockData")
  /\ UNCHANGED <<diskVars, dlock, hlock, planVars, fdVars, blockVars, dfcb, hq, why>>

LockMeta(i) ==
  /\ pc[i] = "lockMeta" /\ mlock[mfd[i]] = None
  /\ mlock' = [mlock EXCEPT ![mfd[i]] = i]
  /\ Goto(i, IF act[i] = "aeCreate" THEN "writeHeader" ELSE "readHeader")
  /\ UNCHANGED <<diskVars, dlock, hlock, planVars, fdVars, blockVars, dfcb, hq, why>>

LoseMeta(i) ==
  /\ pc[i] = "lockMeta" /\ mlock[mfd[i]] # None
  /\ UNCHANGED <<dlink, mlink>>
  /\ \/ /\ mfd' = [mfd EXCEPT ![i] = None]
        /\ Goto(i, "closeMeta")
        /\ UNCHANGED <<lockVars, dfd, planVars, blockVars, dfcb, hq, why>>
     \/ act[i] = "aeCreate" /\ Exit(i, "openFailures")
  /\ SweepData /\ SweepMeta

(***************************************************************************)
(* actionCreate, writing: the DataFileControlBlock with however many       *)
(* blocks the dice gave and the corrupt flag left over in dfcb, one        *)
(* history entry for the create, then block by block the meta block and,   *)
(* when the block is one of the picks, its data record.                    *)
(***************************************************************************)
Wind(i, entries) == hq' = [hq EXCEPT ![i] = @ \o entries]
Entry(op, b, c) == [action |-> op, block |-> b, corrupt |-> c]

WriteHeader(i) ==
  /\ pc[i] = "writeHeader"
  /\ \E blocks \in 1 .. MaxBlocks, g \in FreshStamps :
       /\ g = CHOOSE h \in FreshStamps : TRUE
       /\ header' = [header EXCEPT ![mfd[i]] = [blocks |-> blocks, corrupt |-> dfcb[i]]]
       /\ stamp' = [stamp EXCEPT ![i] = g]
       /\ \E S \in Shuffles(blocks) : picks' = [picks EXCEPT ![i] = S]
  /\ blk' = [blk EXCEPT ![i] = 0]
  /\ slot' = [slot EXCEPT ![i] = 0]
  /\ Wind(i, <<Entry("aeCreate", 0, FALSE)>>)
  /\ Goto(i, "writeControl")
  /\ UNCHANGED <<dlink, mlink, record, control, lockVars, planVars, fdVars, dfcb, why>>

\* Mutant of NextBlock: the bound of the loop is off by one.
NextBlockInclusive(i) ==
  IF blk[i] + 1 <= header[mfd[i]].blocks
  THEN blk' = [blk EXCEPT ![i] = @ + 1] /\ Goto(i, "writeControl")
  ELSE Goto(i, "closeMeta") /\ UNCHANGED blk

NextBlock(i) ==
  IF blk[i] + 1 < header[mfd[i]].blocks
  THEN blk' = [blk EXCEPT ![i] = @ + 1] /\ Goto(i, "writeControl")
  ELSE Goto(i, "closeMeta") /\ UNCHANGED blk

\* writeBlock of c, which the next one will follow.
PutControl(i, s, c) ==
  /\ control' = [control EXCEPT ![mfd[i]][s] = c]
  /\ slot' = [slot EXCEPT ![i] = s + 1]

Described(i) == [stamp |-> stamp[i], block |-> blk[i], corrupt |-> FALSE]

\* Mutant of WriteControl: inUse is not reset to Virgin after an Active block.
WriteControlNoReset(i) ==
  /\ pc[i] = "writeControl"
  /\ IF \E c \in picks[i] : c <= blk[i]
     THEN PutControl(i, slot[i], Described(i))
     ELSE PutControl(i, slot[i], Junk)
  /\ IF blk[i] \in picks[i]
     THEN Goto(i, "writeAgain") /\ UNCHANGED blk
     ELSE NextBlock(i)
  /\ UNCHANGED <<dlink, mlink, record, header, lockVars, planVars, fdVars,
                 stamp, picks, dfcb, hq, why>>

WriteControl(i) ==
  /\ pc[i] = "writeControl"
  /\ IF blk[i] \in picks[i]
     THEN /\ PutControl(i, slot[i], Described(i))
          /\ Goto(i, "writeAgain")
          /\ UNCHANGED blk
     ELSE /\ PutControl(i, slot[i], Junk)
          /\ NextBlock(i)
  /\ UNCHANGED <<dlink, mlink, record, header, lockVars, planVars, fdVars,
                 stamp, picks, dfcb, hq, why>>

\* generateTheRecord seeks to hitThisBlock, which a create leaves at -1: one
\* slot before the first lies before the start of the file, lseek fails, nobody
\* looks, and the meta block is written where the seek before that one went, to
\* the first slot.
WriteAgain(i) ==
  /\ pc[i] = "writeAgain"
  /\ PutControl(i, 0, Described(i))
  /\ Wind(i, <<Entry("aeCreate", -1, FALSE)>>)
  /\ Goto(i, "writeRecord")
  /\ UNCHANGED <<dlink, mlink, record, header, lockVars, planVars, fdVars,
                 stamp, picks, blk, dfcb, why>>

\* The result of the write of the record is ignored: on a full data filesystem
\* nothing is written and the creation goes on.
WriteRecord(i) ==
  /\ pc[i] = "writeRecord"
  /\ \/ record' = [record EXCEPT ![dfd[i]][blk[i]] = stamp[i]]
     \/ "fullDisk" \in Faults /\ UNCHANGED record
  /\ NextBlock(i)
  /\ UNCHANGED <<dlink, mlink, header, control, lockVars, planVars, fdVars,
                 stamp, picks, slot, dfcb, hq, why>>

(***************************************************************************)
(* actionRead, actionModify and actionUnlink: the header.  A short read    *)
(* returns false, after readDFCB has copied an uninitialized buffer over   *)
(* dfcb.  Unlink visits the blocks in order, the others visit a shuffle.   *)
(***************************************************************************)
ReadHeader(i) ==
  /\ pc[i] = "readHeader"
  /\ \/ /\ header[mfd[i]].blocks = 0
        /\ \E c \in BOOLEAN : dfcb' = [dfcb EXCEPT ![i] = c]
        /\ Goto(i, "closeMeta")
        /\ UNCHANGED picks
     \/ /\ header[mfd[i]].blocks > 0
        /\ dfcb' = [dfcb EXCEPT ![i] = header[mfd[i]].corrupt]
        /\ \E S \in IF act[i] = "aeUnlink" THEN {0 .. header[mfd[i]].blocks - 1}
                    ELSE Shuffles(header[mfd[i]].blocks) :
             picks' = [picks EXCEPT ![i] = S]
        /\ Goto(i, "verify")
  /\ UNCHANGED <<diskVars, lockVars, planVars, fdVars, stamp, blk, slot, hq, why>>

(***************************************************************************)
(* verifyTheRecord(b).  The meta block in slot b is read, then the record  *)
(* it describes; the meta block is written back with new times, and the    *)
(* record compared.  The result is FALSE whenever it returns: junk, a      *)
(* short read, and a match all give FALSE, a mismatch ends the process.    *)
(* So read goes on to its next pick, while write, delete and unlink leave  *)
(* their loop after one block, and the generateTheRecord of actionModify   *)
(* is never reached.                                                       *)
(***************************************************************************)
\* The record the meta block in slot b describes.
RecordOf(i, b) == record[dfd[i]][control[mfd[i]][b].block]

\* What makes it return early: junk, or a record that comes out short.
Unread(i, b) ==
  LET c == control[mfd[i]][b]
  IN  c.stamp = None \/ c.block = Astray \/ PastEnd(dfd[i], c.block)

\* Mutant of Compared: the length readRecord returns is not looked at.
ComparedAtAnyLength(i, b) == control[mfd[i]][b].stamp # None

\* What it compares: a record read in full.  readRecord says that a seek failed
\* and reads on where the file happens to be, so an offset that is astray (many
\* filesystems refuse one so large) may be followed by a full read if there is
\* anything to read, or else by a short one.
Compared(i, b) ==
  LET c == control[mfd[i]][b]
  IN  c.stamp # None /\ ~PastEnd(dfd[i], IF c.block = Astray THEN 0 ELSE c.block)

\* The flips of a meta block that is astray are overwritten with its offset, so
\* what it generates is no record.
Matches(i, b) ==
  LET c == control[mfd[i]][b]
  IN  c.block # Astray /\ RecordOf(i, b) = c.stamp

AfterLoop(i) == IF act[i] = "aeUnlink" THEN "unlinkData" ELSE "closeMeta"

LeavesLoop(i, b) == act[i] # "aeRead" \/ picks[i] = {b}

VisitOrder(i, b) == act[i] = "aeUnlink" => \A c \in picks[i] : b <= c

Verify(i) ==
  /\ pc[i] = "verify"
  /\ \E b \in picks[i] :
       /\ VisitOrder(i, b)
       /\ blk' = [blk EXCEPT ![i] = b]
       /\ picks' = [picks EXCEPT ![i] = @ \ {b}]
       /\ \/ /\ Unread(i, b)
             /\ Goto(i, IF LeavesLoop(i, b) THEN AfterLoop(i) ELSE "verify")
             /\ UNCHANGED hq
          \/ /\ Compared(i, b)
             /\ Wind(i, <<Entry("aeRead", b, control[mfd[i]][b].corrupt)>>)
             /\ Goto(i, IF ~Matches(i, b) THEN "markCorrupt"
                        ELSE IF LeavesLoop(i, b) THEN AfterLoop(i) ELSE "verify")
  /\ UNCHANGED <<diskVars, lockVars, planVars, fdVars, stamp, slot, dfcb, why>>

\* verifyTheRecord after a mismatch: dfcb and the meta block get corrupt = TRUE
\* and are written unless they had it.  The seek before writeDFCB is to
\* sizeof(DataFileControlBlock), so the header goes over the front of slot 0,
\* and the meta block written next lands a header's size late: over all but the
\* front of slot blk, whose inUse byte is then a byte of a time, and over the
\* front of the slot after it.  The front holds the offset and the flips, and
\* neither the seed, inUse nor corrupt.  If dfcb had the flag the header is not
\* written and the meta block lands in place.
FrontLost(c) == IF c.stamp = None THEN c ELSE [c EXCEPT !.block = Astray]

Overwritten(i, s, c) ==
  LET again == control[mfd[i]][blk[i]].corrupt
  IN  IF dfcb[i]
      THEN IF s = blk[i] THEN [c EXCEPT !.corrupt = TRUE] ELSE c
      ELSE IF s = blk[i] /\ ~again THEN Junk
      ELSE IF s = 0 \/ (s = blk[i] + 1 /\ ~again) THEN FrontLost(c)
      ELSE c

\* exit(1) follows: the history queue is not written.
MarkCorrupt(i) ==
  /\ pc[i] = "markCorrupt"
  /\ Exit(i, "corrupt")
  /\ UNCHANGED <<dlink, mlink>>
  /\ control' = [x \in Inode |->
                   IF MetaGone(x) THEN NoControl
                   ELSE IF x = mfd[i] THEN [s \in Block |-> Overwritten(i, s, control[x][s])]
                   ELSE control[x]]
  /\ header' = [x \in Inode |-> IF MetaGone(x) THEN NoHeader ELSE header[x]]
  /\ SweepData

(***************************************************************************)
(* actionUnlink removes by name whatever the name refers to now.           *)
(***************************************************************************)
UnlinkData(i) ==
  /\ pc[i] = "unlinkData"
  /\ dlink' = [dlink EXCEPT ![name[i]] = None]
  /\ dlock' = [dlock EXCEPT ![dfd[i]] = None]
  /\ dfd' = [dfd EXCEPT ![i] = None]
  /\ SweepData
  /\ Goto(i, "unlinkMeta")
  /\ UNCHANGED <<mlink, header, control, mlock, hlock, mfd, planVars, blockVars,
                 dfcb, hq, why>>

UnlinkMeta(i) ==
  /\ pc[i] = "unlinkMeta"
  /\ mlink' = [mlink EXCEPT ![name[i]] = None]
  /\ mlock' = [mlock EXCEPT ![mfd[i]] = None]
  /\ mfd' = [mfd EXCEPT ![i] = None]
  /\ SweepMeta
  /\ Goto(i, "closeMeta")
  /\ UNCHANGED <<dlink, record, dlock, hlock, dfd, planVars, blockVars, dfcb, hq, why>>

(***************************************************************************)
(* The end of decideOnAction, which every return of an action reaches:     *)
(* close meta, close data (each unlocks what it had locked), and only then *)
(* open, lock, write and close the history file.                           *)
(***************************************************************************)
Unlocked(lock, x, i) == IF x = None THEN lock
                        ELSE [lock EXCEPT ![x] = IF @ = i THEN None ELSE @]

\* Mutant of CloseMeta: the lock is left behind.
CloseMetaLeaks(i) ==
  /\ pc[i] = "closeMeta"
  /\ mfd' = [mfd EXCEPT ![i] = None]
  /\ UNCHANGED mlink
  /\ SweepMeta
  /\ Goto(i, "closeData")
  /\ UNCHANGED <<dlink, record, lockVars, dfd, planVars, blockVars, dfcb, hq, why>>

CloseMeta(i) ==
  /\ pc[i] = "closeMeta"
  /\ mlock' = Unlocked(mlock, mfd[i], i)
  /\ mfd' = [mfd EXCEPT ![i] = None]
  /\ UNCHANGED mlink
  /\ SweepMeta
  /\ Goto(i, "closeData")
  /\ UNCHANGED <<dlink, record, dlock, hlock, dfd, planVars, blockVars, dfcb, hq, why>>

Forget(i) ==
  /\ act' = [act EXCEPT ![i] = None]
  /\ name' = [name EXCEPT ![i] = None]
  /\ tries' = [tries EXCEPT ![i] = 0]

CloseData(i) ==
  /\ pc[i] = "closeData"
  /\ dlock' = Unlocked(dlock, dfd[i], i)
  /\ dfd' = [dfd EXCEPT ![i] = None]
  /\ UNCHANGED dlink
  /\ SweepData
  /\ stamp' = [stamp EXCEPT ![i] = None]
  /\ picks' = [picks EXCEPT ![i] = {}]
  /\ blk' = [blk EXCEPT ![i] = 0]
  /\ slot' = [slot EXCEPT ![i] = 0]
  /\ \/ hq[i] = <<>> /\ Goto(i, "idle") /\ Forget(i)
     \/ hq[i] # <<>> /\ Goto(i, "openHistory") /\ UNCHANGED planVars
  /\ UNCHANGED <<mlink, header, control, mlock, hlock, mfd, dfcb, hq, why>>

OpenHistory(i) ==
  /\ pc[i] = "openHistory" /\ hlock[name[i]] = None
  /\ hlock' = [hlock EXCEPT ![name[i]] = i]
  /\ Goto(i, "writeHistory")
  /\ UNCHANGED <<diskVars, dlock, mlock, planVars, fdVars, blockVars, dfcb, hq, why>>

\* The first failure to lock the history file ends the process: the test is
\* !(iOpenFailures++ % 60).
LoseHistory(i) ==
  /\ pc[i] = "openHistory" /\ hlock[name[i]] # None
  /\ Exit(i, "history")
  /\ UNCHANGED diskVars

WriteHistory(i) ==
  /\ pc[i] = "writeHistory"
  /\ hlock' = [hlock EXCEPT ![name[i]] = None]
  /\ hq' = [hq EXCEPT ![i] = <<>>]
  /\ Goto(i, "idle") /\ Forget(i)
  /\ UNCHANGED <<diskVars, dlock, mlock, fdVars, blockVars, dfcb, why>>

(***************************************************************************)
(* The environment: a process is killed, a process that ended is started   *)
(* again on the same tree, the storage damages a record.                   *)
(***************************************************************************)
Crash(i) ==
  /\ "crash" \in Faults /\ pc[i] \notin {"idle", "exited"}
  /\ Exit(i, "crash")
  /\ UNCHANGED <<dlink, mlink>>
  /\ SweepData /\ SweepMeta

Restart(i) ==
  /\ pc[i] = "exited"
  /\ Goto(i, "idle")
  /\ why' = [why EXCEPT ![i] = "none"]
  /\ UNCHANGED <<diskVars, lockVars, planVars, fdVars, blockVars, dfcb, hq>>

Rot(x, b) ==
  /\ "rot" \in Faults /\ record[x][b] \in Stamp
  /\ record' = [record EXCEPT ![x][b] = Bad]
  /\ UNCHANGED <<dlink, mlink, header, control, lockVars, procVars>>

\* What process i does of its own accord once it has chosen an action.
Step(i) ==
  \/ ProbeData(i) \/ ProbeMeta(i)
  \/ OpenData(i) \/ LockData(i) \/ LoseData(i)
  \/ OpenMeta(i) \/ LockMeta(i) \/ LoseMeta(i)
  \/ WriteHeader(i) \/ WriteControl(i) \/ WriteAgain(i) \/ WriteRecord(i)
  \/ ReadHeader(i) \/ Verify(i) \/ MarkCorrupt(i)
  \/ UnlinkData(i) \/ UnlinkMeta(i)
  \/ CloseMeta(i) \/ CloseData(i)
  \/ OpenHistory(i) \/ LoseHistory(i) \/ WriteHistory(i)

Next ==
  \/ \E i \in Instance : Step(i) \/ ChooseCreate(i) \/ ChooseExisting(i)
                          \/ Crash(i) \/ Restart(i)
  \/ \E x \in Inode, b \in Block : Rot(x, b)

Spec == Init /\ [][Next]_vars

\* The operating system runs every process, and a process that polls for a
\* lock gives up sooner or later: each poll after the first rolls above 90
\* with one chance in ten.
FairSpec == Spec /\ \A i \in Instance : WF_vars(Step(i))

(***************************************************************************)
(* Correctness.                                                            *)
(***************************************************************************)

\* Storage has damaged a record of the data file.
Damaged(x) == \E b \in Block : record[x][b] = Bad

\* The record it is raised over is damaged, or the meta block is one that an earlier
\* alarm about the same data file has left behind.
Genuine(i) == IF control[mfd[i]][blk[i]].block = Astray THEN Damaged(dfd[i])
              ELSE RecordOf(i, blk[i]) = Bad

\* verifyTheRecord raises the alarm (and ends the process) only over a record
\* that the storage has damaged, or over one of a data file in which it has: the
\* first alarm of a file is about the damaged record itself, but what that alarm
\* leaves in the meta file may be compared with a sound one (MarkCorrupt).  It
\* holds of a tree nobody unlinks from and one process adds to, on a data
\* filesystem that does not fill up and with processes that are not killed:
\* whoever reads then meets data and meta of the same creation, whatever the
\* interleaving.  It also holds of one process on its own, unlinks, kills and
\* restarts included.  It does not hold of two processes that create: the second
\* of two racing creations writes over the first, and what WriteAgain displaces
\* leaves slots of the first one behind.
NoFalseAlarm == \A i \in Instance : pc[i] = "markCorrupt" => Genuine(i)

Busy(n) == \E i \in Instance : name[i] = n

\* Meta block c describes a record that data file x holds, or held until it was
\* damaged; only beside a damaged record may it describe none at all.
Describes(c, x) == IF c.block = Astray THEN Damaged(x)
                   ELSE record[x][c.block] \in {c.stamp, Bad}

\* "Corresponding metadata blocks describing each data block" (elham.html):
\* whenever no process is at work on a name, every Active meta block of its
\* meta file describes the record its data file holds, up to storage damage and
\* to what the alarm about that damage did to the meta file (MarkCorrupt).
MetaDescribesData ==
  \A n \in Name :
    dlink[n] # None /\ mlink[n] # None /\ ~Busy(n) =>
      \A b \in Block :
        LET c == control[mlink[n]][b]
        IN  b < header[mlink[n]].blocks /\ c.stamp # None => Describes(c, dlink[n])

WaitsFor(i, j) ==
  \/ pc[i] = "lockData" /\ dlock[dfd[i]] = j
  \/ pc[i] = "lockMeta" /\ mlock[mfd[i]] = j
  \/ pc[i] = "openHistory" /\ hlock[name[i]] = j

\* No set of processes waits on itself.  Data is locked before meta, and both
\* are released before the history file is locked, so the timeout of
\* eh_CreateLock ("give up in case of a dead lock") never has a deadlock to
\* break, even when unlink and create pass each other on a recycled name.
NoWaitCycle ==
  \A S \in (SUBSET Instance) \ {{}} :
    \E i \in S : \A j \in S : ~WaitsFor(i, j)

MetaLockPlaces == {"writeHeader", "writeControl", "writeAgain", "writeRecord",
                   "readHeader", "verify", "markCorrupt", "unlinkData", "unlinkMeta", "closeMeta"}
DataLockPlaces == (MetaLockPlaces \ {"unlinkMeta"})
                    \cup {"openMeta", "lockMeta", "closeData"}

\* Every lock has a holder that has that very file open and is at a place from
\* which it goes on to release it: no return path leaks a lock, and no lock
\* stays on a file whose holder has moved on to another one.
NoLeakedLock ==
  /\ \A x \in Inode : dlock[x] # None =>
       dfd[dlock[x]] = x /\ pc[dlock[x]] \in DataLockPlaces
  /\ \A x \in Inode : mlock[x] # None =>
       mfd[mlock[x]] = x /\ pc[mlock[x]] \in MetaLockPlaces
  /\ \A n \in Name : hlock[n] # None =>
       name[hlock[n]] = n /\ pc[hlock[n]] = "writeHistory"

WritesMeta(i) == pc[i] \in {"writeHeader", "writeControl", "writeAgain", "writeRecord",
                            "markCorrupt"}
UsesMeta(i) == pc[i] \in MetaLockPlaces \ {"closeMeta"}

\* While one process writes the header or the blocks of a meta file, no other
\* one reads, writes or removes that file: the locks of the two exclude each
\* other on the inode, also when the name has been given to another inode.
MetaExclusive ==
  \A i, j \in Instance :
    i # j /\ WritesMeta(i) /\ UsesMeta(j) => mfd[i] # mfd[j]

\* Process i is past the checks that would turn it away from name n.
Underway(i, n) ==
  /\ name[i] = n
  /\ \/ /\ act[i] = "aeCreate"
        /\ \/ pc[i] = "probeMeta" /\ mlink[n] = None
           \/ pc[i] \in {"openData", "lockData", "openMeta", "lockMeta",
                         "writeHeader", "writeControl", "writeAgain", "writeRecord"}
     \/ /\ act[i] = "aeUnlink"
        /\ \/ pc[i] \in {"verify", "unlinkData", "unlinkMeta"}
           \/ mfd[i] # None /\ header[mfd[i]].blocks > 0
           \/ dfd[i] # None /\ dlink[n] = None   \* about to open what meta is left

\* Half a file: meta without data, or data whose meta has no header or is not
\* there; and nobody on the way to change that.
Lost(n) ==
  /\ \/ dlink[n] = None /\ mlink[n] # None
     \/ dlink[n] # None /\ mlink[n] = None
     \/ dlink[n] # None /\ mlink[n] # None /\ header[mlink[n]].blocks = 0
  /\ \A i \in Instance : ~Underway(i, n)

\* Half a file stays half a file: create turns away from either half ("Assume a
\* race condition and reject this one"), unlink returns on the missing meta or
\* on the short read of its header before it removes anything.  No later
\* action, interleaving, crash or restart brings the name back into the test.
LostForever == [][\A n \in Name : Lost(n) => Lost(n)']_vars

\* An action that was begun ends, in the idle loop or with the process: the
\* name-rolling loop, the lock polling and the block loops all come to an end.
ActionEnds ==
  \A i \in Instance : pc[i] \notin {"idle", "exited"} ~> pc[i] \in {"idle", "exited"}
=============================================================================
