------------------------ MODULE ElhamHistory_proofs ------------------------
(***************************************************************************)
(* Theorems about ElhamHistory, for any number of processes, actions and   *)
(* entries, any number of retries and every combination of faults: types,  *)
(* the order of the file, and that the file implements HistoryLog.         *)
(*                                                                         *)
(* The inductive invariant.  InOnePiece is lost when an entry is put after *)
(* those of another action, and nothing in it forbids that: it takes       *)
(* Pending, which says that everything past settled belongs to the holder of  *)
(* the lock and is younger than what the holder still has, and Fresh,      *)
(* which says that an action is not in the file before its turn.  Fresh in *)
(* turn rests on Numbered: no two processes are at the same action.        *)
(***************************************************************************)
EXTENDS ElhamHistory, SequenceTheorems, TLAPS

FileType == file \in Seq(Records) /\ settled \in Nat
LockType == /\ begun \in 0 .. MaxActions
            /\ hlock \in Instance \cup {None}
ProcType == /\ pc \in [Instance -> Places]
            /\ action \in [Instance -> 0 .. MaxActions]
            /\ hq \in [Instance -> 0 .. MaxEntries]
            /\ tried \in [Instance -> 0 .. Retries]
            /\ why \in [Instance -> Reasons]

\* The lock is held by the process that has the file open.
Held == \A i \in Instance : pc[i] = "writing" <=> hlock = i

\* The actions of the processes have different numbers, all of them given out.
Numbered ==
  \A i \in Instance :
    /\ action[i] <= begun
    /\ pc[i] \in {"acting", "openHistory", "writing"} => action[i] > 0
    /\ \A j \in Instance : i # j /\ action[i] > 0 => action[i] # action[j]

\* A number stands in the file only once it is given out, and, until the
\* process comes to write, not even then.
Fresh ==
  /\ \A k \in DOMAIN file : file[k].action <= begun
  /\ \A i \in Instance :
       pc[i] \in {"acting", "openHistory"} => \A k \in DOMAIN file : file[k].action # action[i]

\* What stands past settled is the beginning of the holder's queue.
Pending ==
  /\ settled <= Len(file)
  /\ \A i \in Instance : hlock = i =>
       /\ \A k \in 1 .. settled : file[k].action # action[i]
       /\ \A k \in settled + 1 .. Len(file) :
            file[k].action = action[i] /\ file[k].entry > hq[i]
       /\ Len(file) - settled + hq[i] <= MaxEntries

Inv == /\ FileType /\ LockType /\ ProcType
       /\ Held /\ Numbered /\ Fresh /\ Pending /\ InOnePiece

LEMMA InitInv == Init => Inv
BY BoundsAssumption, InstanceAssumption
   DEF Init, Inv, FileType, LockType, ProcType, Held, Numbered, Fresh, Pending, InOnePiece,
       Places, Reasons, Records

\* What a record consists of.
LEMMA RecordsOfFile ==
  ASSUME FileType
  PROVE  /\ Len(file) \in Nat /\ DOMAIN file = 1 .. Len(file)
         /\ \A k \in 1 .. Len(file) : file[k].action \in Int /\ file[k].entry \in Int
<1>1. Len(file) \in Nat /\ DOMAIN file = 1 .. Len(file)
  BY DEF FileType
<1>2. ASSUME NEW k \in 1 .. Len(file)
      PROVE  file[k].action \in Int /\ file[k].entry \in Int
  <2>1. file[k] \in Records
    BY <1>2, ElementOfSeq DEF FileType
  <2> QED
    BY <2>1, BoundsAssumption DEF Records, Action, Entry
<1> QED
  BY <1>1, <1>2

\* What a put leaves of the file.
LEMMA PutFile ==
  ASSUME FileType, LockType, ProcType, NEW i \in Instance, NEW torn \in BOOLEAN,
         action[i] > 0, hq[i] > 0, Put(i, torn)
  PROVE  /\ file' \in Seq(Records)
         /\ Len(file') = Len(file) + 1
         /\ \A k \in 1 .. Len(file) : file'[k] = file[k]
         /\ file'[Len(file) + 1] = [action |-> action[i], entry |-> hq[i], torn |-> torn]
<1> DEFINE r == [action |-> action[i], entry |-> hq[i], torn |-> torn]
<1>1. action[i] \in Action /\ hq[i] \in Entry
  BY BoundsAssumption DEF LockType, ProcType, Action, Entry
<1>2. r \in Records
  BY <1>1 DEF Records
<1>3. file' = Append(file, r)
  BY DEF Put
<1> HIDE DEF r
<1>4. file' \in Seq(Records) /\ Len(file') = Len(file) + 1
      /\ (\A k \in 1 .. Len(file) : file'[k] = file[k]) /\ file'[Len(file) + 1] = r
  BY <1>2, <1>3 DEF FileType
<1> QED
  BY <1>4 DEF r

\* One entry is put: the tail grows by an entry of the holder.
LEMMA PutInv ==
  ASSUME Inv, NEW i \in Instance, NEW torn \in BOOLEAN,
         pc[i] = "writing", hq[i] > 0, Put(i, torn), NextEntry(i),
         UNCHANGED <<hlock, pc, settled, ctlVars>>
  PROVE  Inv'
<1> USE DEF Inv
<1>0. hlock = i /\ action[i] > 0 /\ Len(file) \in Nat /\ hq[i] \in Nat /\ settled \in Nat
  BY DEF Held, Numbered, FileType, ProcType
<1>1. /\ file' \in Seq(Records)
      /\ Len(file') = Len(file) + 1
      /\ \A k \in 1 .. Len(file) : file'[k] = file[k]
      /\ file'[Len(file) + 1] = [action |-> action[i], entry |-> hq[i], torn |-> torn]
  BY <1>0, PutFile
<1>2. /\ hq' = [hq EXCEPT ![i] = @ - 1] /\ tried' = [tried EXCEPT ![i] = 0]
      /\ hlock' = hlock /\ pc' = pc /\ settled' = settled /\ begun' = begun
      /\ action' = action /\ why' = why
  BY DEF NextEntry, ctlVars
<1>3. FileType' /\ LockType' /\ ProcType'
  BY <1>0, <1>1, <1>2, BoundsAssumption DEF FileType, LockType, ProcType
<1>4. Held' /\ Numbered'
  BY <1>2 DEF Held, Numbered
<1>5. DOMAIN file = 1 .. Len(file) /\ DOMAIN file' = 1 .. Len(file) + 1
  BY <1>1 DEF FileType
<1>9. \A k \in 1 .. Len(file) : file[k].entry \in Int
  BY RecordsOfFile
<1>6. Fresh'
  <2>1. \A k \in DOMAIN file' : file'[k].action <= begun'
    <3> TAKE k \in DOMAIN file'
    <3>1. CASE k \in DOMAIN file
      BY <3>1, <1>1, <1>2, <1>5 DEF Fresh
    <3>2. CASE k = Len(file) + 1
      BY <3>2, <1>1, <1>2 DEF Numbered
    <3> QED
      BY <3>1, <3>2, <1>0, <1>5
  <2>2. ASSUME NEW j \in Instance, pc'[j] \in {"acting", "openHistory"}, NEW k \in DOMAIN file'
        PROVE  file'[k].action # action'[j]
    <3>1. CASE k \in DOMAIN file
      BY <2>2, <3>1, <1>1, <1>2, <1>5 DEF Fresh
    <3>2. CASE k = Len(file) + 1
      <4>1. i # j
        BY <2>2, <1>2
      <4> QED
        BY <4>1, <3>2, <1>0, <1>1, <1>2 DEF Numbered
    <3> QED
      BY <2>2, <3>1, <3>2, <1>0, <1>5
  <2> QED
    BY <2>1, <2>2 DEF Fresh
<1>7. Pending'
  <2>1. hq'[i] = hq[i] - 1
    BY <1>2 DEF ProcType
  <2>2. settled' <= Len(file')
    BY <1>0, <1>1, <1>2 DEF Pending
  <2>3. \A k \in 1 .. settled : file'[k].action # action[i]
    BY <1>0, <1>1 DEF Pending
  <2>4. ASSUME NEW k \in settled + 1 .. Len(file) + 1
        PROVE  file'[k].action = action[i] /\ file'[k].entry > hq[i] - 1
    <3>1. CASE k = Len(file) + 1
      BY <3>1, <1>0, <1>1
    <3>2. CASE k \in settled + 1 .. Len(file)
      <4>1. file'[k] = file[k]
        BY <3>2, <1>0, <1>1
      <4>2. file[k].entry \in Int
        BY <3>2, <1>0, <1>9
      <4> QED
        BY <3>2, <4>1, <4>2, <1>0 DEF Pending
    <3> QED
      BY <3>1, <3>2, <1>0
  <2>5. Len(file') - settled + hq[i] - 1 <= MaxEntries
    BY <1>0, <1>1, BoundsAssumption DEF Pending
  <2> QED
    BY <2>1, <2>2, <2>3, <2>4, <2>5, <1>0, <1>1, <1>2 DEF Pending
<1>8. InOnePiece'
  <2> SUFFICES ASSUME NEW j \in DOMAIN file', NEW k \in DOMAIN file',
                      j < k, file'[j].action = file'[k].action
               PROVE  /\ \A m \in j .. k : file'[m].action = file'[j].action
                      /\ file'[k].entry < file'[j].entry
    BY DEF InOnePiece
  <2>1. j \in 1 .. Len(file) /\ file'[j] = file[j] /\ k \in 1 .. Len(file) + 1
    BY <1>0, <1>1, <1>5
  <2>2. CASE k \in 1 .. Len(file)
    <3>1. file'[k] = file[k] /\ \A m \in j .. k : m \in 1 .. Len(file) /\ file'[m] = file[m]
      BY <2>1, <2>2, <1>0, <1>1
    <3> QED
      BY <3>1, <2>1, <2>2, <1>5 DEF InOnePiece
  <2>3. CASE k = Len(file) + 1
    <3>1. file[j].action = action[i] /\ j > settled
      BY <2>1, <2>3, <1>0, <1>1 DEF Pending
    <3>2. file[j].entry > hq[i] /\ file[j].entry \in Int
      BY <3>1, <2>1, <1>0, <1>9 DEF Pending
    <3>3. ASSUME NEW m \in j .. k
          PROVE  file'[m].action = action[i]
      <4>1. CASE m = Len(file) + 1
        BY <4>1, <1>1
      <4>2. CASE m \in settled + 1 .. Len(file)
        BY <4>2, <1>0, <1>1 DEF Pending
      <4> QED
        BY <4>1, <4>2, <3>1, <2>1, <2>3, <1>0
    <3> QED
      BY <3>1, <3>2, <3>3, <2>1, <2>3, <1>0, <1>1
  <2> QED
    BY <2>1, <2>2, <2>3, <1>0
<1> QED
  BY <1>3, <1>4, <1>6, <1>7, <1>8

\* A process ends, whatever the reason: its locks and its queue go with it.
LEMMA ExitInv ==
  ASSUME Inv, NEW i \in Instance, NEW r \in Reasons, Exit(i, r)
  PROVE  Inv'
<1> USE DEF Inv
<1>1. /\ pc' = [pc EXCEPT ![i] = "exited"] /\ why' = [why EXCEPT ![i] = r]
      /\ hq' = [hq EXCEPT ![i] = 0] /\ tried' = [tried EXCEPT ![i] = 0]
      /\ hlock' = (IF hlock = i THEN None ELSE hlock)
      /\ file' = file /\ begun' = begun /\ action' = action /\ settled' = settled
  BY DEF Exit, Goto
<1>2. FileType' /\ LockType' /\ ProcType'
  BY <1>1, BoundsAssumption DEF FileType, LockType, ProcType, Places
<1>3. Held'
  BY <1>1, InstanceAssumption DEF Held, ProcType
<1>4. Numbered' /\ Fresh' /\ InOnePiece'
  BY <1>1 DEF Numbered, Fresh, InOnePiece, ProcType
<1>5. Pending'
  <2> SUFFICES ASSUME NEW j \in Instance, hlock' = j
               PROVE  hlock = j /\ j # i
    BY <1>1 DEF Pending, ProcType
  <2> QED
    BY <1>1, InstanceAssumption
<1> QED
  BY <1>2, <1>3, <1>4, <1>5

\* The action itself: it gets the next number and winds its queue.
LEMMA ActInv ==
  ASSUME Inv, NEW i \in Instance, Begin(i) \/ WindHistory(i) \/ CloseFiles(i) \/ Restart(i)
  PROVE  Inv'
<1> USE DEF Inv, Goto
<1>1. CASE Begin(i)
  <2>1. FileType' /\ LockType' /\ ProcType'
    BY <1>1, BoundsAssumption DEF Begin, FileType, LockType, ProcType, Places
  <2>2. Held'
    BY <1>1, InstanceAssumption DEF Begin, Held, ProcType
  <2>3. begun \in Nat /\ begun' = begun + 1 /\ action' = [action EXCEPT ![i] = begun + 1]
    BY <1>1, BoundsAssumption DEF Begin, LockType
  <2>4. \A j \in Instance : action[j] \in Nat /\ action[j] <= begun
    BY BoundsAssumption DEF ProcType, Numbered
  <2>5. Numbered'
    <3>1. \A j \in Instance : action'[j] = IF j = i THEN begun + 1 ELSE action[j]
      BY <2>3 DEF ProcType
    <3>2. \A j \in Instance : pc'[j] = IF j = i THEN "acting" ELSE pc[j]
      BY <1>1 DEF Begin, ProcType
    <3> QED
      BY <3>1, <3>2, <2>3, <2>4 DEF Numbered
  <2>6. Fresh'
    <3>1. file' = file /\ \A k \in DOMAIN file : file[k].action \in Int
      BY <1>1, RecordsOfFile DEF Begin
    <3>2. \A j \in Instance : action'[j] = IF j = i THEN begun + 1 ELSE action[j]
      BY <2>3 DEF ProcType
    <3>3. \A j \in Instance : j # i => pc'[j] = pc[j]
      BY <1>1 DEF Begin, ProcType
    <3>4. \A k \in DOMAIN file : file[k].action <= begun /\ file[k].action # begun + 1
      BY <3>1, <2>3 DEF Fresh
    <3> QED
      BY <3>1, <3>2, <3>3, <3>4, <2>3 DEF Fresh
  <2>7. Pending'
    <3>1. \A j \in Instance : hlock = j => j # i
      BY <1>1 DEF Begin, Held
    <3> QED
      BY <1>1, <3>1, <2>3 DEF Begin, Pending, ProcType
  <2>8. InOnePiece'
    BY <1>1 DEF Begin, InOnePiece
  <2> QED
    BY <2>1, <2>2, <2>5, <2>6, <2>7, <2>8
<1>2. CASE WindHistory(i)
  <2>1. FileType' /\ LockType' /\ ProcType'
    BY <1>2, BoundsAssumption DEF WindHistory, ctlVars, FileType, LockType, ProcType
  <2>2. Held' /\ Numbered' /\ Fresh' /\ InOnePiece'
    BY <1>2 DEF WindHistory, ctlVars, Held, Numbered, Fresh, InOnePiece
  <2>3. Pending'
    <3>1. \A j \in Instance : hlock = j => j # i
      BY <1>2 DEF WindHistory, Held
    <3> QED
      BY <1>2, <3>1 DEF WindHistory, ctlVars, Pending, ProcType
  <2> QED
    BY <2>1, <2>2, <2>3
<1>3. CASE CloseFiles(i)
  <2>1. FileType' /\ LockType' /\ ProcType'
    BY <1>3 DEF CloseFiles, FileType, LockType, ProcType, Places
  <2>2. Held'
    BY <1>3, InstanceAssumption DEF CloseFiles, Held, ProcType
  <2>3. Numbered' /\ Fresh' /\ InOnePiece' /\ Pending'
    BY <1>3 DEF CloseFiles, Numbered, Fresh, InOnePiece, Pending, ProcType
  <2> QED
    BY <2>1, <2>2, <2>3
<1>4. CASE Restart(i)
  <2>1. FileType' /\ LockType' /\ ProcType'
    BY <1>4 DEF Restart, FileType, LockType, ProcType, Places, Reasons
  <2>2. Held'
    BY <1>4 DEF Restart, Held, ProcType
  <2>3. Numbered' /\ Fresh' /\ InOnePiece' /\ Pending'
    BY <1>4 DEF Restart, Numbered, Fresh, InOnePiece, Pending, ProcType
  <2> QED
    BY <2>1, <2>2, <2>3
<1> QED
  BY <1>1, <1>2, <1>3, <1>4

\* unwindHistory as far as it writes nothing.
LEMMA UnwindInv ==
  ASSUME Inv, NEW i \in Instance,
         \/ OpenHistory(i) \/ CloseHistory(i) \/ WriteInterrupted(i)
         \/ WriteToFull(i) /\ UNCHANGED file
  PROVE  Inv'
<1> USE DEF Inv, Goto
<1>1. CASE OpenHistory(i)
  <2>1. /\ pc[i] = "openHistory" /\ hlock = None /\ hlock' = i /\ settled' = Len(file)
        /\ pc' = [pc EXCEPT ![i] = "writing"] /\ file' = file /\ hq' = hq
        /\ tried' = tried /\ begun' = begun /\ action' = action /\ why' = why
    BY <1>1 DEF OpenHistory, ctlVars
  <2>2. Len(file) \in Nat /\ DOMAIN file = 1 .. Len(file)
    BY RecordsOfFile
  <2>3. FileType' /\ LockType' /\ ProcType'
    BY <2>1, <2>2 DEF FileType, LockType, ProcType, Places
  <2>4. Held'
    BY <2>1, InstanceAssumption DEF Held, ProcType
  <2>5. Numbered' /\ Fresh' /\ InOnePiece'
    BY <2>1 DEF Numbered, Fresh, InOnePiece, ProcType
  <2>6. Pending'
    <3>1. \A k \in 1 .. Len(file) : file[k].action # action[i]
      BY <2>1, <2>2 DEF Fresh
    <3>2. hq[i] \in Nat /\ hq[i] <= MaxEntries
      BY BoundsAssumption DEF ProcType
    <3> QED
      BY <2>1, <2>2, <3>1, <3>2, BoundsAssumption DEF Pending
  <2> QED
    BY <2>3, <2>4, <2>5, <2>6
<1>2. CASE CloseHistory(i)
  <2>1. FileType' /\ LockType' /\ ProcType'
    BY <1>2 DEF CloseHistory, ctlVars, FileType, LockType, ProcType, Places
  <2>2. Held'
    BY <1>2, InstanceAssumption DEF CloseHistory, ctlVars, Held, ProcType
  <2>3. Numbered' /\ Fresh' /\ InOnePiece' /\ Pending'
    BY <1>2, InstanceAssumption
       DEF CloseHistory, ctlVars, Numbered, Fresh, InOnePiece, Pending, ProcType
  <2> QED
    BY <2>1, <2>2, <2>3
<1>3. ASSUME UNCHANGED <<file, hlock, pc, settled, ctlVars>>, pc[i] = "writing", hq[i] > 0,
             NextEntry(i) \/ UNCHANGED hq, tried' \in [Instance -> 0 .. Retries]
      PROVE  Inv'
  <2>1. /\ file' = file /\ hlock' = hlock /\ pc' = pc /\ settled' = settled
        /\ begun' = begun /\ action' = action /\ why' = why
    BY <1>3 DEF ctlVars
  <2>2. hq' \in [Instance -> 0 .. MaxEntries]
        /\ \A j \in Instance : hq'[j] <= hq[j] /\ hq[j] \in Nat /\ hq'[j] \in Nat
    BY <1>3, BoundsAssumption DEF NextEntry, ProcType
  <2>3. FileType' /\ LockType' /\ ProcType'
    BY <1>3, <2>1, <2>2 DEF FileType, LockType, ProcType
  <2>4. Held' /\ Numbered' /\ Fresh' /\ InOnePiece'
    BY <2>1 DEF Held, Numbered, Fresh, InOnePiece
  <2>5. Pending'
    <3>1. Len(file) \in Nat /\ settled \in Nat /\ \A k \in 1 .. Len(file) : file[k].entry \in Int
      BY RecordsOfFile DEF FileType
    <3>2. ASSUME NEW j \in Instance, hlock = j
          PROVE  /\ \A k \in settled + 1 .. Len(file) : file[k].entry > hq'[j]
                 /\ Len(file) - settled + hq'[j] <= MaxEntries
      <4>1. hq'[j] <= hq[j] /\ hq[j] \in Nat /\ hq'[j] \in Nat
        BY <2>2
      <4>2. \A k \in settled + 1 .. Len(file) :
              file[k].entry \in Int /\ file[k].entry > hq[j]
        BY <3>1, <3>2 DEF Pending
      <4>3. Len(file) - settled + hq[j] <= MaxEntries
        BY <3>2 DEF Pending
      <4> QED
        BY <4>1, <4>2, <4>3, <3>1, BoundsAssumption
    <3> QED
      BY <2>1, <3>2 DEF Pending
  <2> QED
    BY <2>3, <2>4, <2>5
<1>4. CASE WriteInterrupted(i)
  <2>1. tried' \in [Instance -> 0 .. Retries]
    BY <1>4, BoundsAssumption DEF WriteInterrupted, NextEntry, ProcType
  <2> QED
    BY <1>3, <1>4, <2>1 DEF WriteInterrupted
<1>5. CASE WriteToFull(i) /\ UNCHANGED file
  <2>1. tried' \in [Instance -> 0 .. Retries]
    BY <1>5, BoundsAssumption DEF WriteToFull, NextEntry, ProcType
  <2> QED
    BY <1>3, <1>5, <2>1 DEF WriteToFull
<1> QED
  BY <1>1, <1>2, <1>4, <1>5

LEMMA StepInv == Inv /\ [Next]_vars => Inv'
<1> SUFFICES ASSUME Inv, [Next]_vars PROVE Inv'
  OBVIOUS
<1>1. CASE UNCHANGED vars
  BY <1>1 DEF vars, ctlVars, Inv, FileType, LockType, ProcType, Held, Numbered, Fresh,
     Pending, InOnePiece
<1>2. ASSUME NEW i \in Instance, Begin(i) \/ WindHistory(i) \/ CloseFiles(i) \/ Restart(i)
      PROVE  Inv'
  BY <1>2, ActInv
<1>3. ASSUME NEW i \in Instance, FindCorruption(i) \/ LoseHistory(i) \/ Crash(i)
      PROVE  Inv'
  BY <1>3, ExitInv DEF FindCorruption, LoseHistory, Crash, Reasons
<1>4. ASSUME NEW i \in Instance, OpenHistory(i) \/ CloseHistory(i) \/ WriteInterrupted(i)
      PROVE  Inv'
  BY <1>4, UnwindInv
<1>5. ASSUME NEW i \in Instance, WriteWhole(i)
      PROVE  Inv'
  BY <1>5, PutInv DEF WriteWhole
<1>6. ASSUME NEW i \in Instance, WriteToFull(i)
      PROVE  Inv'
  <2>1. CASE UNCHANGED file
    BY <1>6, <2>1, UnwindInv
  <2>2. CASE Put(i, TRUE)
    BY <1>6, <2>2, PutInv DEF WriteToFull
  <2> QED
    BY <1>6, <2>1, <2>2 DEF WriteToFull
<1> QED
  BY <1>1, <1>2, <1>3, <1>4, <1>5, <1>6 DEF Next

LEMMA InvHolds == Spec => []Inv
BY InitInv, StepInv, PTL DEF Spec

\* Every variable keeps its type: no write is tried more than Retries times
\* after the first, and no queue or number leaves its range.
THEOREM TypeCorrect == Spec => []TypeOK
<1>1. Inv => TypeOK
  BY DEF Inv, TypeOK, FileType, LockType, ProcType
<1> QED
  BY <1>1, InvHolds, PTL

\* At every moment the entries of one action stand side by side in the history
\* file, the youngest first, whoever writes or has been killed while writing.
THEOREM InOnePieceHolds == Spec => []InOnePiece
<1>1. Inv => InOnePiece
  BY DEF Inv
<1> QED
  BY <1>1, InvHolds, PTL

(***************************************************************************)
(* The history file implements HistoryLog.  A process that comes to the    *)
(* file settles what it finds, which changes nothing of Settled; its puts  *)
(* go past the settled part; when the lock is let go, by close or by the   *)
(* end of the process, all it has put becomes settled in one step.         *)
(***************************************************************************)
Extent == IF hlock = None THEN Len(file) ELSE settled

LEMMA ExtentType == Inv => Extent \in Nat /\ Extent <= Len(file)
BY RecordsOfFile DEF Inv, Pending, FileType, Extent

\* A step that neither moves the extent nor touches the file up to it.
LEMMA SettledKept ==
  ASSUME Extent' = Extent, \A k \in 1 .. Extent : file'[k] = file[k]
  PROVE  Settled' = Settled
BY DEF Settled, Extent

\* The lock is let go: everything the holder has put is recorded.
LEMMA Release ==
  ASSUME Inv, NEW i \in Instance, hlock = i, hlock' = None, file' = file
  PROVE  [Log!Next]_Settled
<1> DEFINE n == Len(file) - settled
           kept == [k \in 1 .. n |-> file[settled + k].entry]
           new  == [k \in DOMAIN kept |-> [action |-> action[i], entry |-> kept[k]]]
<1>1. /\ Len(file) \in Nat /\ settled \in Nat /\ n \in Nat /\ n <= MaxEntries
      /\ hlock # None /\ action[i] \in Action
      /\ settled <= Len(file)
  <2>1. Len(file) \in Nat /\ settled \in Nat
    BY RecordsOfFile DEF Inv, FileType
  <2>2. hq[i] \in Nat /\ action[i] \in 1 .. MaxActions
    BY BoundsAssumption DEF Inv, ProcType, Held, Numbered
  <2> QED
    BY <2>1, <2>2, BoundsAssumption, InstanceAssumption DEF Inv, Pending, Action
<1>2. /\ \A k \in 1 .. settled : file[k].action # action[i]
      /\ \A k \in settled + 1 .. Len(file) : file[k].action = action[i]
  BY DEF Inv, Pending
<1>3. \A k \in 1 .. Len(file) : /\ file[k] \in Records
                                /\ file[k].action \in Action /\ file[k].entry \in Entry
  <2> SUFFICES ASSUME NEW k \in 1 .. Len(file) PROVE file[k] \in Records
    BY DEF Records
  <2> QED
    BY ElementOfSeq DEF Inv, FileType
<1>4. Settled = [k \in 1 .. settled |-> [action |-> file[k].action, entry |-> file[k].entry]]
  BY <1>1 DEF Settled
<1>5. Settled' = [k \in 1 .. Len(file) |-> [action |-> file[k].action, entry |-> file[k].entry]]
  BY DEF Settled
<1>6. CASE n = 0
  <2>1. settled = Len(file)
    BY <1>1, <1>6
  <2> QED
    BY <2>1, <1>4, <1>5
<1>7. CASE n > 0
  <2>1. n \in Log!Entry
    BY <1>1, <1>7, BoundsAssumption DEF Log!Entry
  <2>2. kept \in [1 .. n -> Log!Entry]
    BY <1>1, <1>3 DEF Log!Entry, Entry
  <2>3. \A k \in DOMAIN Settled : Settled[k].action # action[i]
    BY <1>2, <1>4
  <2>4. Log!Descending(kept)
    <3> SUFFICES ASSUME NEW j \in 1 .. n, NEW k \in 1 .. n, j < k
                 PROVE  kept[k] < kept[j]
      BY DEF Log!Descending
    <3>1. /\ settled + j \in DOMAIN file /\ settled + k \in DOMAIN file
          /\ settled + j < settled + k
          /\ file[settled + j].action = file[settled + k].action
      BY <1>1, <1>2, RecordsOfFile DEF Inv
    <3> QED
      BY <3>1 DEF Inv, InOnePiece
  <2>5. Settled' = Settled \o new
    <3>1. Settled \in Seq(Log!Records) /\ Len(Settled) = settled
      BY <1>1, <1>3, <1>4 DEF Log!Records, Log!Entry, Entry
    <3>2. new = [k \in 1 .. n |-> [action |-> action[i], entry |-> kept[k]]]
      OBVIOUS
    <3>3. new \in Seq(Log!Records) /\ Len(new) = n
      <4>1. \A k \in 1 .. n : kept[k] \in Log!Entry
        BY <2>2
      <4> HIDE DEF kept, n, new
      <4>2. \A k \in 1 .. n : [action |-> action[i], entry |-> kept[k]] \in Log!Records
        BY <1>1, <4>1 DEF Log!Records
      <4>3. new \in [1 .. n -> Log!Records]
        BY <3>2, <4>2
      <4> QED
        BY <4>3, <1>1
    <3>4. Settled' \in Seq(Log!Records) /\ Len(Settled') = Len(file)
      BY <1>1, <1>3, <1>5 DEF Log!Records, Log!Entry, Entry
    <3>5. /\ Settled \o new \in Seq(Log!Records)
          /\ Len(Settled \o new) = settled + n
          /\ \A k \in 1 .. settled + n :
               (Settled \o new)[k] = IF k <= settled THEN Settled[k] ELSE new[k - settled]
      <4> HIDE DEF new, n
      <4> QED
        BY <3>1, <3>3, ConcatProperties
    <3>6. settled + n = Len(file)
      BY <1>1
    <3>7. ASSUME NEW k \in 1 .. Len(file)
          PROVE  (Settled \o new)[k] = Settled'[k]
      <4>0. k \in Nat
        OBVIOUS
      <4>1. CASE k <= settled
        BY <4>1, <3>5, <3>6, <1>1, <1>4, <1>5
      <4>2. CASE k > settled
        <5>1. k - settled \in 1 .. n /\ settled + (k - settled) = k
              /\ k \in settled + 1 .. Len(file)
          BY <4>2, <1>1
        <5>2. new[k - settled] = [action |-> action[i], entry |-> file[k].entry]
          BY <5>1, <3>2
        <5>3. (Settled \o new)[k] = new[k - settled]
          BY <4>2, <3>5, <3>6, <1>1
        <5> QED
          BY <5>1, <5>2, <5>3, <1>2, <1>5
      <4>3. k <= settled \/ k > settled
        BY <4>0, <1>1
      <4> QED
        BY <4>1, <4>2, <4>3
    <3> HIDE DEF new, n
    <3> QED
      BY <3>4, <3>5, <3>6, <3>7, SeqEqual
  <2> HIDE DEF kept, n
  <2> QED
    BY <1>1, <2>1, <2>2, <2>3, <2>4, <2>5 DEF Log!Next, Log!Record
<1> QED
  BY <1>1, <1>6, <1>7

LEMMA StepLog == Inv /\ [Next]_vars => [Log!Next]_Settled
<1> SUFFICES ASSUME Inv, [Next]_vars PROVE [Log!Next]_Settled
  OBVIOUS
<1>0. Extent \in Nat /\ Extent <= Len(file) /\ Len(file) \in Nat
  BY ExtentType, RecordsOfFile DEF Inv
<1>1. ASSUME file' = file, hlock' = hlock, settled' = settled
      PROVE  Settled' = Settled
  BY <1>1, SettledKept DEF Extent
<1>2. ASSUME NEW i \in Instance, NEW r \in Reasons, Exit(i, r)
      PROVE  [Log!Next]_Settled
  BY <1>1, <1>2, Release DEF Exit
<1>3. ASSUME NEW i \in Instance, OpenHistory(i)
      PROVE  Settled' = Settled
  <2>1. hlock = None /\ hlock' # None /\ settled' = Len(file) /\ file' = file
    BY <1>3, InstanceAssumption DEF OpenHistory
  <2> QED
    BY <2>1, SettledKept DEF Extent
<1>4. ASSUME NEW i \in Instance, NEW torn \in BOOLEAN, pc[i] = "writing", hq[i] > 0,
             Put(i, torn), hlock' = hlock, settled' = settled
      PROVE  Settled' = Settled
  <2>1. action[i] > 0 /\ hlock = i /\ hlock # None
    BY <1>4, InstanceAssumption DEF Inv, Held, Numbered
  <2>2. \A k \in 1 .. Len(file) : file'[k] = file[k]
    BY <1>4, <2>1, PutFile DEF Inv
  <2>3. Extent' = Extent
    BY <1>4, <2>1 DEF Extent
  <2> QED
    BY <2>2, <2>3, <1>0, SettledKept
<1>5. ASSUME NEW i \in Instance, CloseHistory(i)
      PROVE  [Log!Next]_Settled
  <2>1. hlock = i
    BY <1>5 DEF CloseHistory, Inv, Held
  <2> QED
    BY <1>5, <2>1, Release DEF CloseHistory
<1>6. CASE UNCHANGED vars
  BY <1>1, <1>6 DEF vars
<1>7. ASSUME NEW i \in Instance, \/ Begin(i) \/ WindHistory(i) \/ CloseFiles(i) \/ Restart(i)
                                 \/ WriteInterrupted(i)
      PROVE  Settled' = Settled
  BY <1>1, <1>7 DEF Begin, WindHistory, CloseFiles, Restart, WriteInterrupted
<1>8. ASSUME NEW i \in Instance, FindCorruption(i) \/ LoseHistory(i) \/ Crash(i)
      PROVE  [Log!Next]_Settled
  BY <1>2, <1>8 DEF FindCorruption, LoseHistory, Crash, Reasons
<1>9. ASSUME NEW i \in Instance, WriteWhole(i) \/ WriteToFull(i)
      PROVE  Settled' = Settled
  BY <1>1, <1>4, <1>9 DEF WriteWhole, WriteToFull
<1> QED
  BY <1>3, <1>5, <1>6, <1>7, <1>8, <1>9 DEF Next

\* The history file is a log of whole actions: every step of the processes is a
\* step of HistoryLog or changes nothing of what is settled.
THEOREM Implements == Spec => ImplementsLog
<1>1. Init => Log!Init
  BY DEF Init, Log!Init, Settled
<1>2. Inv /\ [Next]_vars => [Log!Next]_Settled
  BY StepLog
<1> QED
  BY <1>1, <1>2, InvHolds, PTL DEF Spec, ImplementsLog, Log!Spec
=============================================================================
