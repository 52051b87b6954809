# ElHam in TLA+

ElHam tests filesystems. It builds a tree of files whose contents it can
predict, works on it from as many processes and machines as one cares to start,
and reports a file whose contents are not what they should be. This directory
holds a model of ElHam itself: the question is not whether the filesystem under
test is sound but whether ElHam, run on a sound filesystem, says so, and
whether several ElHams can share a tree without misleading each other.

Source references are to `src/` (the C files are in `src/src/`, the manual is
`src/doc/elham.html`).

## 1. Inventory of the system

| Component | Source | State | Operations |
|---|---|---|---|
| Actions on files | `actions.c`, `io.c` | `ControlStruct`: `takeAction`, `szFile`, `dfcb`, `bs`, `rs`, `shuffled`, `hitThisBlock`; on disk a data file (records) and a meta file (one `DataFileControlBlock`, then one `BlockStruct` per block) | `actionCreate`, `actionRead`, `actionModify` (write and delete), `actionUnlink`, `verifyTheRecord`, `generateTheRecord` |
| Whole-file locks | `glue.c` | `FileStruct`: `fd`, `shareMode`, `bWait`, `bFullLocked`, `iOpenFailures`; the kernel's POSIX locks | `eh_OpenFile`, `eh_CreateLock`, `eh_ReleaseLock`, `eh_CloseFile` |
| History | `actions.c`, `io.c` | the queue `hq`/`hqTail`, a history file per name that is never removed | `windHistory`, `unwindHistory` |
| States and weights | `state.c` | eight `TriggerStruct`s (`curr`, `state[]`, `bRotate`, limits), `ds.actions`, `actions` | `stateChangeOf`, `transitStates` |
| Dice | `actions.c` | the weights in force | `decideOnAction` |
| Size of the filesystems | `state.c` | `max.limit` and edges of six triggers | `initFileSystem`, `currFileSystem`, `initLimitsOf` |
| Tree of names | `state.c` | `grades[]` of files and directories | `initializeState`, `buildPathStackOf` |
| Directory scan | `dirent.c`, `list.c` | a list of lists, `uSumFiles`, `uSumDirs` | `getDirEntriesOf`, `findActiveFile`, `destroyList` |
| Main loop | `elham.c` | the iteration count, `iTooManyNonDirs`, `iTooManyNonFiles` | `main` |
| Options | `elham.c`, `io.c` | supplied values, three sets of defaults | `processArgs`, `verifyControlStruct` |
| Block data | `mt.c`, `endy.c` | two Mersenne twisters | `genrand_*`, `byteSwapData` |
| Byte-range locks | `glue.c` | `bLocked` | `eh_LockFileStruct` (no caller) |
| Retries | `glue.c` | - | `eh_Read`, `eh_Write`, `eh_Rmdir` |
| Dump tools | `datadump.c`, `metadump.c`, `histdump.c` | - | print one file |

How they interact. One process is sequential: `main` scans the data tree,
`transitStates` measures the filesystems and settles the weights,
`decideOnAction` rolls an action, runs it, closes what is open and appends to
the history. There are no threads, callbacks or messages. Processes share
nothing but the filesystems: directory entries, file contents and POSIX locks.
All the concurrency of the system is therefore in the order of their system
calls.

What is hard:

* Two directories (data and meta) are changed one after the other; tests,
  opens and removals go by name, locks and contents by inode.
* Read, write and delete take no lock on the data file; the meta lock stands
  for both.
* A process may be killed, ends itself on several paths (a mismatch, lost locks),
  and is started again on the tree as it is.
* Waiting for locks is polling with a random end.
* The weights are recomputed only when some trigger changes state, by two
  tables that write the same variables; a weight lost on the way ends the
  process.
* The tree is scanned directory by directory while others create and unlink in
  it; the list, its counts and the pick have to agree all the same.
* A create knows the name of a file from its number alone, by arithmetic on 64
  bits over tables of sums.
* Options arrive in any order and are laid over defaults that may be chosen
  after them.

What makes each component correct: no alarm without damage, meta and data of
one creation together, no lock leaked and no waiting in circles, actions that
end, half-made files that stay out of the way (actions, locks); a history that
takes each action once and in one piece (history); weights that always sum to
100, belong to the current states, and are never disobeyed (states, dice); edges
that follow the size of the filesystem (size); a bijection between numbers and
paths of bounded depth (tree); a scan that misses nothing that stays, counts what
it lists and can pick all of it (scan, main loop); settings that are the user's
and that create can work with (options).

`PROJECT.json` lists every hazard with its line and the properties on it.

## 2. Modules

| Module | Models | Runs |
|---|---|---|
| `ElhamFiles` | several processes running the five actions on shared names | files_* |
| `ElhamHistory` | several processes appending to one history file | history_* |
| `HistoryLog` | what that file promises, abstractly | (refined by `ElhamHistory`) |
| `ElhamState` | one process's measurements, states, weights and dice | state_* |
| `ElhamScan` | one process's turns on a tree that others change | scan_tree |
| `ElhamTree` | the complete tree: numbers to paths | tree_paths |
| `ElhamOptions` | arguments to settings to sizes of files | options_sizes |

`MC...` are the instances for TLC, `..._proofs` the theorems. `ElhamFilesData_proofs`
continues `ElhamFiles_proofs` for a tree that one process adds to, `ElhamFilesLost_proofs`
for half a file among unlinks and kills.

How they fit together. A process is `ElhamOptions` once, then `ElhamScan`'s turns;
inside a turn, `ElhamState` settles the weights and rolls an action, `ElhamTree`
gives a create its name, `ElhamFiles` is what the action does among other
processes, `ElhamHistory` how it is recorded. Each module leaves what the others
determine as free as they do, or freer:

* `ElhamFiles` takes any action of `Ops` next, which covers every sequence of
  weights; picks any listed name, which `PicksCover` justifies (and a name
  listed when the action is chosen may be gone when it is opened); rolls any
  name for a create, which `LimitCountsTree` and `PathSpellsNumber` justify; and
  creates files of one block or more, which is `CreatesSoundFiles`.
* `ElhamState` takes any supplied weights that sum to 100 (`WeightsNeverRefused`:
  `processArgs` lets no others through) and any measurement, so also the stale
  counts `ElhamScan` finds.
* `ElhamHistory` does not exclude two processes acting on the same file, since
  after an unlink and a create the meta locks of the two are on two inodes.

### ElhamFiles

State. `dlink`, `mlink` are the directories, `record`, `header`, `control` the
contents of inodes, `dlock`, `mlock`, `hlock` the locks; per process `pc` names
the call it is about to make, `act` is `takeAction`, `name` is `szFile`, `dfd`
and `mfd` the open descriptors, `picks` the not yet visited part of `shuffled`,
`blk` is `hitThisBlock` (or the `j` of a create), `slot` the offset of a
creator's meta file, `dfcb` the one field of the header that outlives an action,
`hq` the history queue.

Contents are abstracted to what a verification can tell apart. A *stamp* stands
for the seeds of one creation; a record generated from a seed and a meta block
holding it carry the same stamp. A meta block also says which record it
describes: meta blocks stand in slots, and not always in their own. `Junk` is any
meta block that is not Active (Virgin, unwritten, or with its `inUse` overwritten),
which a reader does not compare; one that is Active but has lost its offset is
`Astray`. `Hole` is a record never written, `Bad` one the storage has damaged. Two creations never
roll the same seed, and all have blocks of the same size (as with
`-blocksize N`).

Steps. A step runs from one call another process can observe to the next. The
correspondence:

| Step | Code |
|---|---|
| `ChooseCreate`, `ChooseExisting` | the dice, the rolled name, `findActiveFile` on the scan of this turn |
| `ProbeData`, `ProbeMeta`, `RetryOrGiveUp` | the name loop of `actionCreate` |
| `OpenData`, `LockData`, `LoseData` | `eh_OpenFile(&pcs->data)`: open, whole-file lock (create and unlink only), and giving up |
| `OpenMeta`, `LockMeta`, `LoseMeta` | the same for meta, which every action locks |
| `WriteHeader`, `WriteControl`, `NextBlock` | the rest of `actionCreate`: the header, one meta block per block |
| `WriteAgain`, `WriteRecord` | `generateTheRecord`, which a create calls for each picked block: the meta block once more, then the record |
| `ReadHeader`, `Verify`, `MarkCorrupt` | the read, modify and unlink actions with `verifyTheRecord` |
| `UnlinkData`, `UnlinkMeta` | the end of `actionUnlink` |
| `CloseMeta`, `CloseData` | the tail of `decideOnAction` |
| `OpenHistory`, `LoseHistory`, `WriteHistory` | `unwindHistory` (in detail: `ElhamHistory`) |
| `Crash`, `Restart`, `Rot` | the environment |

`WriteAgain` is where the meta file's layout matters. `hitThisBlock` is -1 during a
create. Seeking to one block before the first fails (the header is shorter than a
block), so the second write of a picked block goes to where the seek before it
went, slot 0, and the next meta block follows there. A creation with one picked
block thus shifts its later blocks; what describes what is still true, because
every meta block holds its own offset. It stops being true when another
creation's slots are left behind (`files_two_creates`).

`eh_CreateLock` probes with `F_GETLK` and then sets with `F_SETLK`; a lock taken
between the two makes the second call fail, so the pair is one atomic attempt.
`Verify` reads the meta block, reads the record, writes the meta block back with
new times and compares: one step, because the meta lock covers the meta file,
the write-back changes nothing a comparison looks at, and of all that others can
do to the data file meanwhile only a creator's write matters, which needs the
same meta lock as long as the name keeps its inodes. When the name has been
given new inodes the reader's data inode may be written by a creator between its
two reads; that outcome is the one of a `Verify` wholly before or after the
write, since the meta block does not change in between.

`verifyTheRecord` returns false on every return; the model follows the code, so
write and delete verify their first pick and stop, and unlink stops after block
0 and removes the file. `PastEnd` is the short read of a sparse file's end.

`MarkCorrupt` follows the byte positions of the misplaced seek. The header (48
bytes) goes over the front of slot 0; the meta block written behind it lands 48
bytes late, over all of slot `blk` but its front and over the front of the slot
after it. (If the process's `dfcb` already has the flag the header is not written
and the block lands in its place, `Overwritten`.) A slot that loses its front
(`FrontLost`) loses offset, flips and pattern and keeps seed, `inUse` and `corrupt`:
if it was Active it still is, and is `Astray`. The slot `blk` loses its `inUse`, to a
byte of a time, and becomes `Junk`. (With 64-bit times, a block has 136 bytes,
its seed at 128, its `inUse` at 132; with 32-bit times the same fields are lost.)
What is read for an `Astray` block depends on the filesystem: the offset is the
signature of a header, or a time, and either lies beyond the end (a short read)
or is refused by `lseek`, which `readRecord` only prints before it reads on at the
current position. `Unread` and `Compared` therefore overlap for it. A comparison
fails (`Matches`), since the overwritten flips generate other data. The counts of failed creates (`iOpenFailures > 60`) are not
kept: a create that loses a lock either returns or ends the process.

### ElhamHistory and HistoryLog

Per process: `action` (numbered as they begin), `hq`, the length of its queue,
`tried`, the `iRetries` of the `eh_Write` it is in. `file` is what each write left:
action, entry, and whether the entry is torn. `CloseFiles` is the end of
`decideOnAction` before `unwindHistory`; `OpenHistory` and `LoseHistory` its
opening with `smAll` and `O_APPEND`; `WriteWhole`, `WriteToFull`,
`WriteInterrupted` one `writeHistory` with the outcomes `eh_Write` has; and
`CloseHistory` the end. `Exit` drops the queue, on a mismatch (`FindCorruption`),
a lost lock or a kill.

`HistoryLog` has one variable, the log, and one action: append what is left of
one action's queue, youngest entry first, once per action. The refinement maps
the log to the file as far as it was when its present holder locked it
(`Settled`), so that the entries become part of the log when the lock is
released, by `CloseHistory` or by the death of the holder; every other step
stutters.

### ElhamState

`curr` is a measurement, `limit` the `max.limit` of each trigger, `edges` the
limit from which its soft and hard edges were computed (the two differ after a
resize), `size` what statfs said last, `state` the newest state of each trigger,
`scan` and `ds` the options, `actions` the weights in force, `take` the last
action. `TransitStates` is one call of `transitStates` (three `currFileSystem`,
all eight state changes, both tables, the history check, the scanner and
`verifyActionWeightsOf`); `DecideOnAction` rolls the die. A filesystem whose
statfs fails (`Shaky`) keeps what was known. `StateOf` keeps the order of the
comparisons of `stateChangeOf`. The limits are products of a double (0.01, 0.05,
0.95, 0.99) and an integer assigned to an integer, the shares products with 0.6
and 0.8; in the model they are integer divisions, which give the same numbers
for every weight and for limits up to at least two million. Beyond 2^53 a double
no longer holds every integer and the edges move by a few units, which no
property depends on.

### ElhamScan

`list`, `sumFiles`, `sumDirs` are the lists of lists with their counts, `path` the
recursion of `getDirEntriesOf`, `seen` and `opened` what `readdir` has returned
and may still return, `nonDirs` and `nonFiles` the counters of `main`. A step is one
`readdir` (`ReadFile`, `ReadDir` with the `opendir` that follows), one return
(`EndDir`), or the end of the scan (`EndScan`), so that others may create
(`OthersMake`) and unlink (`OthersUnlink`) between any two. POSIX lets `readdir`
return or skip an entry that was added or removed since `opendir`; the model
allows both. `Found` is `findDirEntryOf` with its counter passed along, `DestroyList`
keeps the counts of the base as the code does. `steady` and `broken` are history
variables of the properties.

### ElhamTree

`dirs` and `files` are the two `grades` tables, filled by `Grade`; `Roll` is the roll
of `actionCreate` with the file half of `buildPathStackOf`, `Enter` one call of its
directory half, `Arrive` and `Lose` its returns. All of it in words (`Word`, 2^64
in the code). `value` and `place` read the names of the path back as the digits of
a number; `wrapped` remembers that a table entry did not fit.

### ElhamOptions

`supplied` is `dsSupplied`, `mode` is `defaultTo`, `ds` the settings that result.
One action per kind of option, `Settle` for the end of `processArgs`,
`VerifyControlStruct`, and `Create` for the roll of a block size and a file size
with the alignment that follows. The `-wt` options are looked for below a
comparison none of them passes, so they are among what is `Misunderstood`.

## 3. Runs

Passing:

| Run | Instance | States | Checks |
|---|---|---|---|
| `files_shared` | 2 processes, one of which creates; 1 name, up to 3 blocks, 2 picked, 2 tries; all actions but unlink; damage | 263,215 | `TypeOK`, `NoFalseAlarm`, `MetaDescribesData`, under fairness `ActionEnds` |
| `files_unlink` | 2 processes, 1 name, 1 block; create, read, unlink; kills, full disk | 629,594 | `NoWaitCycle`, `NoLeakedLock`, `MetaExclusive`, `LostForever` |
| `files_alone` | 1 process, 2 names, 2 blocks both picked; all actions; kills, damage | 442,796 | `NoFalseAlarm` |
| `history_log` | 2 processes, 3 actions of up to 2 entries, 1 retry; all faults | 99,203 | `TypeOK`, `InOnePiece`, the refinement `ImplementsLog`, under fairness `UnwindEnds` |
| `state_weights` | 4 triggers through all their edges, resizes, failing statfs, 2 sets of weights, 3 scans | 23,746 | `TypeOK`, `OnlyFullHistoryEnds`, `WeightsAreCurrent`, `TakenHasWeight`, `NeverHardEmpty`, `EmptyIsNeverFull`, `FileEdgesFollow` |
| `scan_tree` | 4 files in 3 levels, 2 changes by others in each scan, failing `opendir`, patience 1 | 518,706 | `TypeOK`, `CountsOfList`, `PicksCover`, `SeesWhatLasts`, `OnlyBrokenScanLeavesList` |
| `tree_paths` | 12 shapes, words of 8 bits, every number | 2,843 | `TypeOK`, `LimitCountsTree`, `PathSpellsNumber`, `PathWithinDepth`, `LostOnlyIfWrapped` |
| `options_sizes` | words of 6 bits; limits, neighbours, defaults; any order of options | 349,272 | `TypeOK`, `CreatesSoundFiles`, `FileNearLimits`, `OverridesUnlessDefault`, `WeightsNeverRefused` |

Expected violations, each a disagreement between a comment or the manual and
the code (section 6): `files_stale_pair`, `files_two_creates`,
`history_complete`, `state_blocks`.

Bounds, and why they are enough.

* `ElhamFiles`. With one name the processes cannot avoid each other. Three blocks
  with two picks give a Virgin block before, between and after Active ones, and
  slots displaced by one and by two. Two tries give a create that rolls again and
  one that gives up. `files_shared` has one creating process because two racing
  creations break `NoFalseAlarm` (`files_two_creates`); two processes are the
  least for a name that is recycled while it is in use (`files_unlink`). Three
  inodes are enough: one linked, one more held open by each process; no creation
  ever finds the six stamps, nor an open the inodes, used up. No counter is
  capped by a guard the code does not have (`MaxTries` stands for
  `MAX(files.min.hard, 60)`).
* `ElhamHistory`. Three actions: one before, one between and one after another
  process's; two entries have an order. `MaxActions` and `MaxEntries` cap numbering
  and queue; `Retries` is `GLUE_RETRIES`.
* `ElhamState`. `Edges` has a value in each of the six reachable states.
  `MCMeasurements` lets four triggers move at once and resizes the data
  filesystem to the four combinations of 100 and 200 files and blocks.
* `ElhamScan`. A file in the base, in a directory, and in a directory in that
  one is the least tree on which counts pass two levels. `MaxChanges` caps what
  others do during one scan (between scans they do as they like), `Patience` is
  the code's 60.
* `ElhamTree`. The shapes include chains, no width, no depth, no files, `-lock`'s
  own, and ways of not fitting a word; they are listed in the module.
* `ElhamOptions`. `MCValues` has for every size a value below, at or above each limit
  it is compared with.

Symmetry over processes is used in `files_unlink`, `files_stale_pair` and
`history_complete`, where only safety is checked.

Deadlock is checked in all runs of `ElhamFiles`: a process that ends may be
started again, so nothing stops. The other models may stop: the process ends
(`state_*`, `scan_tree`, `options_sizes`), the actions are used up
(`history_log`), the path is found (`tree_paths`).

Fairness. `FairSpec` of `ElhamFiles` is weak fairness of each process's own steps,
that of `ElhamHistory` of its steps in `unwindHistory`: the operating system runs
every process, and a poller gives up with probability one since each poll after
the first ends the wait with one chance in ten (`ROLL_D100 > 90`). Choosing the
next action, kills, restarts, damage and interruptions are not fair: an interrupted
write is one of the outcomes of a step that is. Strong fairness of taking a lock
would not be justified, and is not needed: `ActionEnds` and `UnwindEnds` hold
because the poller may lose.

## 4. Properties

Of `ElhamFiles`:

* `NoFalseAlarm` - a process that is about to report corruption looks at a record
  the storage has damaged or, if the meta block is `Astray`, at a file in which it
  has damaged one. So the first alarm about a file is over the damaged record
  itself, a file the storage kept is never reported, and a sound record is
  reported only in the wake of a genuine alarm about its own file. Checked for several processes without unlink and with
  one creator, and for one process with unlinks, kills and restarts.
* `MetaDescribesData` - a quiet name's Active meta blocks describe its records,
  in whatever slots they are; an `Astray` one, which describes nothing, is found
  only beside a damaged record.
* `NoWaitCycle` - no set of processes waits on itself, so polling never has a
  deadlock to break.
* `NoLeakedLock` - each lock is on the very file its holder has open, at a place
  from which it is released.
* `MetaExclusive` - the writer of a meta inode is its only user.
* `LostForever` - half a file never comes back: the step property that says what
  the code's "Assume a race condition and reject this one" amounts to.
* `ActionEnds` - liveness of the name loop, the lock loop and the block loops.

Of `ElhamHistory`: `InOnePiece` (also between the writes and after a kill),
`ImplementsLog`, `UnwindEnds`.

Of `ElhamState`: `OnlyFullHistoryEnds`, `WeightsAreCurrent`, `TakenHasWeight`,
`NeverHardEmpty` (contrary to the manual: section 6, 13), `EmptyIsNeverFull`,
`FileEdgesFollow`.

Of `ElhamScan`: `CountsOfList` (for a base that is not empty: the counts of an
emptied list are stale, section 6), `PicksCover`, `SeesWhatLasts`,
`OnlyBrokenScanLeavesList`.

Of `ElhamTree`: `LimitCountsTree`, `PathSpellsNumber` (so two numbers never have
the same path), `PathWithinDepth`, `LostOnlyIfWrapped`. All but the last one
presuppose that the number of files fits a word, which the defaults of `-hammer`
(width 10240, depth 6) do not.

Of `ElhamOptions`: `CreatesSoundFiles` (settings that are accepted either have equal
limits, and then the first create divides by zero, or make files of sound sizes;
section 6, 10), `FileNearLimits`, `OverridesUnlessDefault`, `WeightsNeverRefused`.

Every property of a passing run has a mutant of the code's own definitions that
breaks it (a lock not taken, a lock order reversed, `inUse` not reset, a loop
bound off by one, a row that drops a weight, counts not added up, ...); they
stand in the modules directly before the definition they alter.

## 5. Proofs

Assumptions: only those named in the modules (`None` and special contents are not
among the other constants, nor among the entries of a list, bounds are positive,
the supplied weights sum to 100, no directory lies below itself, sizes are words). Sets of processes, names,
inodes and directories need not be finite unless the module says so.

**ElhamFiles_proofs**, for every set of processes, names and inodes, every `Ops`
and `Faults`. The invariant `Inv` is `TypeOK /\ Located /\ SlotBehind /\
NoLeakedLock /\ MetaHeld`. `TypeOK` alone is not inductive: steps index the disk by
descriptors, so `Located` says what is open at each place, and `SlotBehind` that a
creator's offset never passes its block, so that it stays in the file.
`NoLeakedLock` speaks from the lock to its holder, `MetaHeld` from the user to
its lock; together they give mutual exclusion. Theorems: `TypeCorrect`,
`NoLeakedLockHolds`, `MetaExclusiveHolds`, `NoWaitCycleHolds`. The last one follows
from a ranking that needs no induction: one who waits at `lockData` waits for
someone at `lockMeta` or later, who waits for someone past it, who waits for
nobody, so that a nonempty set closed under waiting would have a member that
does not wait.

**ElhamFilesData_proofs** assumes `Gentle`: no unlink among the actions, at most
one process that creates, no fault but damage. `DataInv` adds that descriptors
refer to what names refer to, that no inode has two names, that meta is never
linked before data, that an unlinked meta inode is blank, that a creator writes
into a file without records and with a stamp nobody else has, and that every
meta block describes its record unless its writer stands between the two writes
(`AllDescribed`, `Pending`), or is `Astray` in a damaged file: an alarm turns meta
blocks into `Junk` or makes them `Astray` and does nothing else to them
(`MarkKept`), and is itself over damage, which no step repairs. Theorems: `DataInvHolds`, `NoFalseAlarmHolds`,
`MetaDescribesDataHolds`. `Gentle` is not a convenience: `files_stale_pair` and
`files_two_creates` are the counterexamples with unlink and with two creators, and
a full disk or a kill leaves a described record unwritten.

A second part assumes `Alone`: one process, with any actions, that is killed at any
call and restarted, and damage. `AllDescribed` is false there (a kill may leave a
meta block without its record, or a name without one of its files), so
`AloneInv` takes another way. What a kill leaves is never gone on with: create
starts from two names that are not there (`StartsBlank`), on inodes that hold
nothing since nobody else can have them open (`GoneIsBlank`). Within a creation
the records are written in order, and up to the block at hand every Active slot
has its record (`InOrder`; the slots themselves are not in order because of the
displaced second write). So where a creation was cut short, nothing follows
the record that is missing, its read ends short, and nothing is compared
(`DescribedOrCut`; an `Astray` block needs a damaged file here as well, and it
starts with blank inodes like all others). On a full disk a record is missing in the middle, which is why
`Alone` leaves it out. TLC checked the conjuncts on the instance of `files_alone`
before the proof. Theorem: `NoFalseAlarmAloneHolds`.

**ElhamFilesLost_proofs**, again for every `Ops` and `Faults`: `LostForeverHolds`.
Besides `Inv` it takes `OneName` (a meta inode goes by one name, also while it is
open and no longer linked: an inode is reused only when everybody has closed it)
and `Roles` (the places of create and unlink are reached by these actions only).
A step that would link a half again, give it a header or remove what is left is
taken by a process that `Lost` says is not there (`LinksStay`, `NoNewHeader`), and
no process gets there (`StaysAway`).

**ElhamHistory_proofs.** The invariant says that the lock holder alone is writing
(`Held`), that actions are numbered once (`Numbered`, `Fresh`), and that what a
writer has put so far is a descending tail of the file that stays above what is
left in its queue (`Pending`). Theorems: `TypeCorrect`, `InOnePieceHolds`, and
`Implements`: initial states map to the empty log, every step to `Record` or a
stutter.

**ElhamState_proofs**, for all limits, measurements, resizes, supplied weights and
scans. `Conserved` states that `ds` and `actions` sum to 100 and keep the promise
of `-scan`; one lemma per kind of row shows that it moves weight without creating
any. Theorems: `TypeCorrect`, `OnlyFullHistoryEndsHolds`, `WeightsAreCurrentHolds`,
`TakenHasWeightHolds`, `NeverHardEmptyHolds`, `EmptyIsNeverFullHolds`,
`FileEdgesFollowHolds` (from: a limit is always the number of files or of blocks
last measured).

**ElhamScan_proofs**, for every tree. Theorems: `TypeCorrect`,
`OnlyBrokenScanLeavesListHolds`, `SeesWhatLastsHolds`, `CountsOfListHolds`,
`PicksCoverHolds`.
`SeesWhatLasts` needs to know that the directories being read form a path, that
what is steady in the base and seen is listed, and that a listed directory outside
the path has been read to its end. `CountsOfList` is not inductive either: in the
middle of the recursion the counts are spread over the directories on the path.
The invariant says that along the path they add up to the entries of all the
lists (`Tallied`). A directory that is left hands its count to the one above, which
keeps the sum because it was entered from a list that is not empty (`Entered`:
appending to an empty list starts its counts anew) and because no directory is
listed, hence read, twice (`Once`).

`PicksCoverHolds` says that every pick of `findDirEntryOf` is right. The answer of
its recursion `Walk` would take an induction over the tree, which the provers do not
do, so the induction is made where the tree is: over the steps of the scan that
builds it. The invariant `HasChart` says that for every place of a list there is a
sequence of the files from there on, in the order the walk meets them, below a
directory as soon as its scan is left. `Totals` (what `Tallied` is to the sums)
says that each count is the length of the sequence at the head of its list, and
that the files in these sequences are the ones listed. `Sited` (a name is listed in its own directory)
and `Nested` (a directory on the path is the last entry of the one above) tell
which sequences an append can change. `WalkAnswers` and `FoundAnswer` then read the
pick off the sequence: it is the n-th file, or the walk goes on behind the
sequence with the rest of n. That `Walk` has a value at all, and only this one,
follows from the length of what is still to walk, with the library's well-founded
order on Nat.

**ElhamTree_proofs**, for every width, depth, number of files and word. The
invariant relates the tables to each other (a level's directories are the ones
before plus `u`; each level's parents are one level up), and the names found so
far to the number still looked for: `value + place * toFind` is what was asked.
`Counted` compares the table with the complete tree itself: the paths of at most
k + 1 names are the empty one and one for each shorter path and each last
name, so their number obeys the rule by which `dirs` is computed.
Theorems: `TypeCorrect`, `LimitCountsTreeHolds`, `PathSpellsNumberHolds`,
`PathWithinDepthHolds`, `LostOnlyIfWrappedHolds`.

**ElhamOptions_proofs**, for all defaults, values and limits. Theorems:
`TypeCorrect`, `WeightsNeverRefusedHolds`, `OverridesUnlessDefaultHolds`,
`CreatesSoundFilesHolds`, `FileNearLimitsHolds`.

Only model-checked: `ActionEnds` and `UnwindEnds` (liveness under fairness is
outside the proof system's reach). All
invariants and step properties of the passing runs are theorems, `NoFalseAlarm` and
`MetaDescribesData` under the conditions `Gentle` and `Alone` (section 6 has the runs
that violate them otherwise).

## 6. Disagreements between the code and what is said of it

Shown by a run:

1. *A pair of files of different creations* (`files_stale_pair`). create tests
   two names and opens them later; unlink removes two names one after the
   other. Interleaved, a name is left with meta and data that do not belong
   together, and the next reader reports a corruption the storage did not cause.
2. *Two creations of one name* (`files_two_creates`). The second one truncates
   nothing, writes its meta blocks to the slots its own displaced seeks lead to,
   and leaves slots of the first one that describe overwritten records.
3. *An action without history* (`history_complete`). A process that finds
   corruption calls exit before the queue is written, so the entry about the
   corruption is never recorded; one that meets a locked history file ends at the
   first failure, under the comment "Really want to wait".
4. *Full blocks* (`state_blocks`). A file trigger that rotates while the data
   blocks stay Full brings create and write back.

Met while modelling, and built into the models as the code has them:

5. *The corrupt mark.* The header of a corrupt file is written one header late,
   over block 0, and the block marked another header late; the header proper stays
   clean. Nor does any action look at the flag (`MarkCorrupt`). Block 0 and the
   one after the marked block stay Active with an offset that is no record's. Where
   `lseek` refuses it, which `readRecord` ignores, the next reader compares a
   sound record with a meta block that describes nothing, and reports it: after one
   genuine alarm a file may be reported for records the storage has kept.
6. *Write and delete.* `verifyTheRecord` never returns true, so `actionModify`
   never generates a block (`LeavesLoop`).
7. *Stale counts.* After the last file of the tree is gone the counts of the scan
   before stay in force; a reader goes on instead of waiting for files
   (`DestroyList`, `Count`).
8. *The -wt options* are never understood, and command lines of the manual with
   them, or with `-minfsize 0`, are refused.
9. *Overriding defaults.* After `-lock` or `-hammer` a value equal to the general
   default is not taken; `-wait` is taken and never used (`glue.c:246` rolls
   instead).
10. *-maxfsize* is no maximum. Equal to `-minfsize` (or `-maxbsize` to `-minbsize`,
    with a rolled block size) it passes `verifyControlStruct` and is a division by
    zero at the first create (`Traps`, `CreatesSoundFiles`).
11. *The number of directories* is not width^depth - 1 but the sum of
    width^k, and does not fit 64 bits with `-hammer`.
12. *Resized filesystems.* The edges of the blocks never follow (`NewEdges`); those
    of the files do, although their limit is overwritten.
13. *The hard minimum.* The manual (`elham.html:603-607`) says that ElHam tracks a
    soft and a hard limit for the minimum and is more likely to create below the
    hard one. `stateChangeOf` asks for the soft edge first (`state.c:145`), so
    HardEmpty is never entered and its rows are never in force: below 1% the
    weights are those of SoftEmpty, which move six tenths of unlink's weight to
    create instead of all of it (`NeverHardEmpty`, proved for every limit).

## 7. Not modelled, and why

Third-party arithmetic (`mt.c`), byte swapping (its own inverse), the printing of
structures, the dump tools (no state), byte-range locks (no caller), the Windows
half of `glue.c`, `-doc` output.

`generateTheRecord` for a write or a delete is never reached (6. above). Torn
writes of a meta block or a record are left out of `ElhamFiles`, which keeps no
bytes; a kill falls between writes there, and inside one only in `ElhamHistory`.
A division by zero (`Traps`) ends the process, as on machines where it raises a
signal. The flips of an `Astray` block count numbers to be drawn before its record
is read; in the slot after a marked one they are a pid, on little-endian hosts
in the upper half of 64 bits, so that this read takes hours or days with the meta
file locked. It ends, and in the model it takes no time. An offset of a creation
is always one the filesystem can seek to: files larger than the filesystem can
hold are left out.
Creations with blocks of different sizes under one name are left out too: they
take two racing creations, which are at odds already with equal sizes.

In `ElhamScan`, names without the suffixes `.flh` and `.dlh` are left out, and so is
the window between `readdir` and the `stat` of `isDir`: a file removed in it is
listed all the same, as if it had been removed after, and a directory is never
removed. A `readdir` that fails looks like the end of the directory to the code;
the model has no failing `readdir`, so `SeesWhatLasts` speaks of those that do not
fail. A create that gives up may have made directories on the way: to the list
that is the same as another process making them.

In `ElhamTree`, for some shapes that do not fit a word (width 9, depth 4 in words
of 8 bits) the walk comes back to a directory it has been to and never ends, until
the stack does. The run leaves them out: the names would grow without end. The
theorems cover them (they speak of trees that fit).

## 8. What could come next

A byte-level layout of the meta file
that `WriteAgain` and `MarkCorrupt` refine, with blocks of several sizes; `eh_Read`
with its retries in `ElhamFiles`.
