---------------------------- MODULE ElhamHistory ----------------------------
(***************************************************************************)
(* The history of one logical file, as several processes write it.         *)
(*                                                                         *)
(* An action winds an entry on the process's own queue for each thing it   *)
(* does.  decideOnAction closes, and so unlocks, meta and data, and only   *)
(* then opens the history file with O_APPEND, locks it whole, writes the   *)
(* queue from its tail to its head and closes the file.  eh_Write retries  *)
(* an interrupted write and hands every other failure to callers that look *)
(* away.                                                                   *)
(*                                                                         *)
(* Actions are numbered as they begin, entries as they are wound.  Several *)
(* processes may be at their actions at a time: the lock on the meta file, *)
(* which ElhamFiles has, is on an inode, and after an unlink and a create  *)
(* the same name has another one.                                          *)
(***************************************************************************)
EXTENDS Integers, Sequences

CONSTANTS Instance,    \* the ElHam processes
          None,        \* no instance
          MaxActions,  \* bound: actions performed on the file
          MaxEntries,  \* bound: entries one action winds
          Retries,     \* GLUE_RETRIES
          Faults       \* what the environment may do, a subset of AllFaults

AllFaults == {"crash", "corrupt", "interrupt", "fullHistory"}

Action == 1 .. MaxActions
Entry  == 1 .. MaxEntries

ASSUME InstanceAssumption == None \notin Instance

ASSUME BoundsAssumption ==
  /\ MaxActions \in Nat \ {0}
  /\ MaxEntries \in Nat \ {0}
  /\ Retries \in Nat

ASSUME FaultsAssumption == Faults \subseteq AllFaults

VARIABLES
  file,    \* the history file: what each write left in it, in file order
  begun,   \* the number of actions begun so far
  hlock,   \* who has the history file locked
  pc,      \* where a process is
  action,  \* the number of the action a process is at, or was at last
  hq,      \* length of its queue: entries 1 .. hq are wound and not yet freed
  tried,   \* iRetries of the eh_Write it is in
  why,     \* how it ended
  settled  \* history variable: the length of the file when it was last locked

ctlVars == <<begun, action, why>>
vars    == <<file, hlock, pc, hq, tried, settled, ctlVars>>

Places  == {"idle", "acting", "openHistory", "writing", "exited"}
Reasons == {"none", "corrupt", "history", "crash"}

Records == [action : Action, entry : Entry, torn : BOOLEAN]

TypeOK ==
  /\ file \in Seq(Records)
  /\ begun \in 0 .. MaxActions
  /\ hlock \in Instance \cup {None}
  /\ pc \in [Instance -> Places]
  /\ action \in [Instance -> 0 .. MaxActions]
  /\ hq \in [Instance -> 0 .. MaxEntries]
  /\ tried \in [Instance -> 0 .. Retries]
  /\ why \in [Instance -> Reasons]
  /\ settled \in Nat

Init ==
  /\ file = <<>> /\ begun = 0
  /\ hlock = None
  /\ pc = [i \in Instance |-> "idle"]
  /\ action = [i \in Instance |-> 0]
  /\ hq = [i \in Instance |-> 0]
  /\ tried = [i \in Instance |-> 0]
  /\ why = [i \in Instance |-> "none"]
  /\ settled = 0

Goto(i, place) == pc' = [pc EXCEPT ![i] = place]

\* Process i is gone: locks released, queue lost.
Exit(i, reason) ==
  /\ Goto(i, "exited")
  /\ why' = [why EXCEPT ![i] = reason]
  /\ hlock' = IF hlock = i THEN None ELSE hlock
  /\ hq' = [hq EXCEPT ![i] = 0]
  /\ tried' = [tried EXCEPT ![i] = 0]
  /\ UNCHANGED <<file, begun, action, settled>>

(***************************************************************************)
(* The action: any of the five.                                            *)
(***************************************************************************)
Begin(i) ==
  /\ pc[i] = "idle" /\ begun < MaxActions
  /\ begun' = begun + 1
  /\ action' = [action EXCEPT ![i] = begun + 1]
  /\ Goto(i, "acting")
  /\ UNCHANGED <<file, hlock, hq, tried, why, settled>>

WindHistory(i) ==
  /\ pc[i] = "acting" /\ hq[i] < MaxEntries
  /\ hq' = [hq EXCEPT ![i] = @ + 1]
  /\ UNCHANGED <<file, hlock, pc, tried, settled, ctlVars>>

\* verifyTheRecord finds a damaged record: it has wound the entry of the read,
\* marks the meta file and calls exit.
FindCorruption(i) ==
  /\ "corrupt" \in Faults /\ pc[i] = "acting" /\ hq[i] > 0
  /\ Exit(i, "corrupt")

\* The end of decideOnAction up to unwindHistory, which returns at once when
\* nothing was wound.
CloseFiles(i) ==
  /\ pc[i] = "acting"
  /\ Goto(i, IF hq[i] = 0 THEN "idle" ELSE "openHistory")
  /\ UNCHANGED <<file, begun, hlock, action, hq, tried, why, settled>>

(***************************************************************************)
(* unwindHistory.                                                          *)
(***************************************************************************)
\* Mutant of OpenHistory: the file is opened with smNone.
OpenHistoryUnlocked(i) ==
  /\ pc[i] = "openHistory"
  /\ hlock' = i
  /\ settled' = Len(file)
  /\ Goto(i, "writing")
  /\ UNCHANGED <<file, hq, tried, ctlVars>>

OpenHistory(i) ==
  /\ pc[i] = "openHistory" /\ hlock = None
  /\ hlock' = i
  /\ settled' = Len(file)
  /\ Goto(i, "writing")
  /\ UNCHANGED <<file, hq, tried, ctlVars>>

\* The first failure to lock the file is fatal: !(iOpenFailures++ % 60).
LoseHistory(i) ==
  /\ pc[i] = "openHistory" /\ hlock # None
  /\ Exit(i, "history")

\* One entry is done with, written or not: p = prev, free(p).
NextEntry(i) ==
  /\ hq' = [hq EXCEPT ![i] = @ - 1]
  /\ tried' = [tried EXCEPT ![i] = 0]

\* Mutant of Put: the file is not opened with O_APPEND, so a process that got
\* to the file later writes where its own offset is, at the start.
PutAtOffset(i, torn) ==
  file' = [k \in 1 .. Len(file) + 1 |->
             IF k = 1 THEN [action |-> action[i], entry |-> hq[i], torn |-> torn]
             ELSE file[k - 1]]

\* O_APPEND: the entry at the tail of the queue goes to the end of the file.
Put(i, torn) ==
  file' = Append(file, [action |-> action[i], entry |-> hq[i], torn |-> torn])

WriteWhole(i) ==
  /\ pc[i] = "writing" /\ hq[i] > 0
  /\ Put(i, FALSE)
  /\ NextEntry(i)
  /\ UNCHANGED <<hlock, pc, settled, ctlVars>>

\* A volume without room takes nothing (ENOSPC, EDQUOT) or, as a short count,
\* the beginning of the entry.  unwindHistory looks at neither.
WriteToFull(i) ==
  /\ "fullHistory" \in Faults /\ pc[i] = "writing" /\ hq[i] > 0
  /\ UNCHANGED file \/ Put(i, TRUE)
  /\ NextEntry(i)
  /\ UNCHANGED <<hlock, pc, settled, ctlVars>>

\* Mutant of WriteInterrupted: one try too many.
WriteInterruptedOnceMore(i) ==
  /\ "interrupt" \in Faults /\ pc[i] = "writing" /\ hq[i] > 0
  /\ \/ tried[i] <= Retries /\ tried' = [tried EXCEPT ![i] = @ + 1] /\ UNCHANGED hq
     \/ tried[i] > Retries /\ NextEntry(i)
  /\ UNCHANGED <<file, hlock, pc, settled, ctlVars>>

\* Mutant of WriteInterrupted: the tries are not counted.
WriteInterruptedForever(i) ==
  /\ "interrupt" \in Faults /\ pc[i] = "writing" /\ hq[i] > 0
  /\ \/ tried' = [tried EXCEPT ![i] = 1 - @] /\ UNCHANGED hq
     \/ tried[i] = Retries /\ NextEntry(i)
  /\ UNCHANGED <<file, hlock, pc, settled, ctlVars>>

\* EAGAIN, EINTR, ENOLINK: eh_Write goes back to where it was and tries again,
\* GLUE_RETRIES times; then the entry is dropped like any other failure.
WriteInterrupted(i) ==
  /\ "interrupt" \in Faults /\ pc[i] = "writing" /\ hq[i] > 0
  /\ \/ tried[i] < Retries /\ tried' = [tried EXCEPT ![i] = @ + 1] /\ UNCHANGED hq
     \/ tried[i] = Retries /\ NextEntry(i)
  /\ UNCHANGED <<file, hlock, pc, settled, ctlVars>>

CloseHistory(i) ==
  /\ pc[i] = "writing" /\ hq[i] = 0
  /\ hlock' = None
  /\ Goto(i, "idle")
  /\ UNCHANGED <<file, hq, tried, settled, ctlVars>>

(***************************************************************************)
(* The environment.                                                        *)
(***************************************************************************)
Crash(i) ==
  /\ "crash" \in Faults /\ pc[i] \notin {"idle", "exited"}
  /\ Exit(i, "crash")

Restart(i) ==
  /\ pc[i] = "exited"
  /\ Goto(i, "idle")
  /\ why' = [why EXCEPT ![i] = "none"]
  /\ UNCHANGED <<file, begun, hlock, action, hq, tried, settled>>

\* unwindHistory runs to its end without looking at anybody else.
Unwind(i) == OpenHistory(i) \/ LoseHistory(i) \/ WriteWhole(i) \/ WriteToFull(i)
               \/ WriteInterrupted(i) \/ CloseHistory(i)

Next ==
  \E i \in Instance :
    \/ Begin(i) \/ WindHistory(i) \/ FindCorruption(i) \/ CloseFiles(i)
    \/ OpenHistory(i) \/ LoseHistory(i) \/ WriteWhole(i) \/ WriteToFull(i)
    \/ WriteInterrupted(i) \/ CloseHistory(i)
    \/ Crash(i) \/ Restart(i)

Spec == Init /\ [][Next]_vars

\* The operating system runs every process.
FairSpec == Spec /\ \A i \in Instance : WF_vars(Unwind(i))

(***************************************************************************)
(* Correctness.                                                            *)
(***************************************************************************)

\* The file as far as it was when the process that has it locked now came to
\* it: what that process writes counts when it lets go of the lock.
Settled ==
  [k \in 1 .. (IF hlock = None THEN Len(file) ELSE settled) |->
     [action |-> file[k].action, entry |-> file[k].entry]]

Log == INSTANCE HistoryLog WITH log <- Settled

\* Whatever is killed, interrupted or out of space, the history file is a log
\* to which every action is appended at most once, in one step and in one
\* piece, by what is left of its entries in reverse order; nothing that was
\* recorded is lost or moved.
ImplementsLog == Log!Spec

\* Also while it is being written, by its holder or by nobody after a kill, the
\* file holds the entries of one action side by side and in reverse order.
InOnePiece ==
  \A j, k \in DOMAIN file :
    j < k /\ file[j].action = file[k].action =>
      /\ \A m \in j .. k : file[m].action = file[j].action
      /\ file[k].entry < file[j].entry

\* The queue of an action is written, dropped write by write or lost with the
\* process: the retries of eh_Write and the wait for the lock come to an end.
UnwindEnds ==
  \A i \in Instance : pc[i] = "openHistory" ~> pc[i] \in {"idle", "exited"}

(***************************************************************************)
(* What the documentation promises.                                        *)
(***************************************************************************)
Recorded(a) == \E k \in DOMAIN file : file[k].action = a

\* elham.html: "For each action that we perform on a block (or the file), we
\* record that information in the history file."  A process that ended of its
\* own accord has recorded the action it ended in.
LastActionRecorded ==
  \A i \in Instance : why[i] \in {"corrupt", "history"} => Recorded(action[i])
=============================================================================
