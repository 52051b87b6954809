----------------------------- MODULE ElhamScan -----------------------------
(***************************************************************************)
(* One process's turns: main scans the data tree into a list of lists,     *)
(* rolls an action, picks a file from the list, destroys the list and      *)
(* starts again.  Meanwhile other processes create and unlink files and    *)
(* make directories; no ElHam removes a directory.                         *)
(*                                                                         *)
(* getDirEntriesOf calls itself for every directory readdir returns, so    *)
(* the directories it is in form a path.  A step is one readdir, with the  *)
(* opendir that follows it when the entry is a directory.  The list of a   *)
(* directory hangs on its entry in the list of its parent, and since a     *)
(* directory is never removed it has one entry: lists are indexed by       *)
(* directory.  Names without the suffixes flh and dlh are left out.        *)
(***************************************************************************)
EXTENDS Integers, Sequences, FiniteSets

CONSTANTS File, Dir,   \* the names of the complete tree, szBase excepted
          Root,        \* szBase
          None, Fatal, \* no place in a list; the end of the process
          Parent,      \* the directory a name is in
          Scans,       \* the -scan options in question
          Faults,      \* {"opendir"} if directories may fail to open
          Patience,    \* 60: how many scans in a row may come to nothing
          MaxChanges   \* bound: changes others make to the tree during one scan

Node  == File \cup Dir
Heads == Dir \cup {Root}

ASSUME NamesAssumption ==
  /\ File \cap Dir = {} /\ Root \notin Node /\ None \notin Node \cup {Root}
  /\ Parent \in [Node -> Heads]
  /\ None \notin Heads \X Nat

\* No name lies below itself.
ASSUME TreeAssumption ==
  \A S \in SUBSET Node : S # {} => \E n \in S : Parent[n] \notin S

ASSUME BoundsAssumption == Patience \in Nat /\ MaxChanges \in Nat

ASSUME OptionsAssumption == Scans \subseteq {"random", "read", "write"}

VARIABLES
  exists,    \* the names in the tree
  changes,   \* changes made by others since the scan began
  list,      \* pdsHead: the entries found in each directory, in order
  sumFiles,  \* uSumFiles of each list: the files below the directory
  sumDirs,   \* uSumDirs
  path,      \* the directories getDirEntriesOf is in, outermost first
  seen,      \* what readdir has returned of a directory since opendir
  opened,    \* what the tree was at opendir
  steady,    \* history variable: what has been in the tree ever since opendir
  scan,      \* ds.scan
  pc,
  nonDirs,   \* iTooManyNonDirs
  nonFiles,  \* iTooManyNonFiles
  why,       \* how the process ended
  broken     \* history variable: a directory below szBase could not be opened

treeVars == <<exists, changes>>
headVars == <<list, sumFiles, sumDirs>>
readVars == <<path, seen, opened, steady>>
mainVars == <<scan, nonDirs, nonFiles, why, broken>>
vars == <<treeVars, headVars, readVars, pc, mainVars>>

TreeType == exists \in SUBSET Node /\ changes \in 0 .. MaxChanges
HeadType == /\ list \in [Heads -> Seq(Node)]
            /\ sumFiles \in [Heads -> Nat] /\ sumDirs \in [Heads -> Nat]
ReadType == /\ path \in Seq(Heads)
            /\ seen \in [Heads -> SUBSET Node]
            /\ opened \in [Heads -> SUBSET Node]
            /\ steady \in [Heads -> SUBSET Node]
MainType == /\ scan \in Scans
            /\ pc \in {"top", "scanning", "decide", "exited"}
            /\ nonDirs \in 0 .. Patience + 1
            /\ nonFiles \in 0 .. Patience + 1
            /\ why \in {"none", "iters", "listFull", "noDirs", "noFiles"}
            /\ broken \in BOOLEAN
TypeOK == TreeType /\ HeadType /\ ReadType /\ MainType

Nothing == [d \in Heads |-> {}]

Init ==
  /\ exists = {} /\ changes = 0
  /\ list = [d \in Heads |-> <<>>]
  /\ sumFiles = [d \in Heads |-> 0] /\ sumDirs = [d \in Heads |-> 0]
  /\ path = <<>> /\ seen = Nothing /\ opened = Nothing /\ steady = Nothing
  /\ scan \in Scans
  /\ pc = "top" /\ nonDirs = 0 /\ nonFiles = 0 /\ why = "none" /\ broken = FALSE

Here == path[Len(path)]

\* The directories above a name: those in every branch that has its parent.
Branches == {D \in SUBSET Dir : \A d \in D : Parent[d] \in D \cup {Root}}

Ancestors(n) == {d \in Dir : \A D \in Branches : Parent[n] \in D \cup {Root} => d \in D}

Exit(reason) == pc' = "exited" /\ why' = reason

\* Mutant of ScanFails: one failure too many is borne.
ScanFailsOnceMore ==
  /\ IF nonDirs > Patience + 1 THEN Exit("noDirs") /\ UNCHANGED nonDirs
     ELSE pc' = "top" /\ nonDirs' = nonDirs + 1 /\ UNCHANGED why
  /\ path' = <<>> /\ seen' = Nothing /\ opened' = Nothing /\ steady' = Nothing
  /\ changes' = 0

\* main after a scan that returned false: iTooManyNonDirs++ > 60.
ScanFails ==
  /\ IF nonDirs > Patience THEN Exit("noDirs") /\ UNCHANGED nonDirs
     ELSE pc' = "top" /\ nonDirs' = nonDirs + 1 /\ UNCHANGED why
  /\ path' = <<>> /\ seen' = Nothing /\ opened' = Nothing /\ steady' = Nothing
  /\ changes' = 0

\* opendir on d: the reading of d begins, in the directories of outer.
Open(d, outer, newSeen) ==
  /\ path' = Append(outer, d)
  /\ seen' = [newSeen EXCEPT ![d] = {}]
  /\ opened' = [opened EXCEPT ![d] = exists]
  /\ steady' = [steady EXCEPT ![d] = exists]

(***************************************************************************)
(* The turn.                                                               *)
(***************************************************************************)
\* The turns of -iters are used up, which may be so at any turn.
Finish ==
  /\ pc = "top"
  /\ Exit("iters")
  /\ UNCHANGED <<treeVars, headVars, readVars, scan, nonDirs, nonFiles, broken>>

StartScan ==
  /\ pc = "top"
  /\ IF list[Root] # <<>>
     THEN Exit("listFull") /\ UNCHANGED <<readVars, changes, nonDirs>>
     ELSE \/ Open(Root, <<>>, seen) /\ pc' = "scanning" /\ UNCHANGED <<changes, why, nonDirs>>
          \/ "opendir" \in Faults /\ ScanFails
  /\ UNCHANGED <<exists, headVars, scan, nonFiles, broken>>

\* appendElement: an empty list starts its counts anew.
Count(sum, d, k) == (IF list[d] = <<>> THEN 0 ELSE sum[d]) + k

\* readdir may return a name the directory had at opendir or has now; it does
\* not return a name twice, unless it was removed and created in between.
Returned(n) ==
  /\ pc = "scanning" /\ Parent[n] = Here
  /\ n \in (exists \cup opened[Here]) \ seen[Here]

ReadFile(f) ==
  /\ Returned(f)
  /\ list' = [list EXCEPT ![Here] = Append(@, f)]
  /\ sumFiles' = [sumFiles EXCEPT ![Here] = Count(sumFiles, Here, 1)]
  /\ sumDirs' = [sumDirs EXCEPT ![Here] = Count(sumDirs, Here, 0)]
  /\ seen' = [seen EXCEPT ![Here] = @ \cup {f}]
  /\ UNCHANGED <<treeVars, path, opened, steady, pc, mainVars>>

\* Mutant of ReadDir: a directory that cannot be opened is passed over.
ReadDirOrSkip(d) ==
  /\ Returned(d)
  /\ list' = [list EXCEPT ![Here] = Append(@, d), ![d] = <<>>]
  /\ sumFiles' = [sumFiles EXCEPT ![Here] = Count(sumFiles, Here, 0), ![d] = 0]
  /\ sumDirs' = [sumDirs EXCEPT ![Here] = Count(sumDirs, Here, 1), ![d] = 0]
  /\ \/ Open(d, path, [seen EXCEPT ![Here] = @ \cup {d}])
     \/ /\ "opendir" \in Faults
        /\ seen' = [seen EXCEPT ![Here] = @ \cup {d}]
        /\ UNCHANGED <<path, opened, steady>>
  /\ UNCHANGED <<treeVars, pc, mainVars>>

\* A directory is listed with a new, empty list of its own and read at once.
\* When it cannot be opened all the calls return false, with the lists as they
\* are.
ReadDir(d) ==
  /\ Returned(d)
  /\ list' = [list EXCEPT ![Here] = Append(@, d), ![d] = <<>>]
  /\ sumFiles' = [sumFiles EXCEPT ![Here] = Count(sumFiles, Here, 0), ![d] = 0]
  /\ sumDirs' = [sumDirs EXCEPT ![Here] = Count(sumDirs, Here, 1), ![d] = 0]
  /\ \/ /\ Open(d, path, [seen EXCEPT ![Here] = @ \cup {d}])
        /\ UNCHANGED <<changes, pc, nonDirs, why, broken>>
     \/ "opendir" \in Faults /\ ScanFails /\ broken' = TRUE
  /\ UNCHANGED <<exists, scan, nonFiles>>

\* readdir has no more to return: all that was there all the time is seen.
Exhausted ==
  /\ pc = "scanning"
  /\ {n \in steady[Here] : Parent[n] = Here} \subseteq seen[Here]

\* closedir, and the return to the directory above.
Closed ==
  /\ path' = SubSeq(path, 1, Len(path) - 1)
  /\ seen' = [seen EXCEPT ![Here] = {}]
  /\ opened' = [opened EXCEPT ![Here] = {}]
  /\ steady' = [steady EXCEPT ![Here] = {}]

\* Mutant of EndDir: the counts of the directory are not added to its parent's.
EndDirUncounted ==
  /\ Exhausted /\ Len(path) > 1
  /\ Closed
  /\ UNCHANGED <<treeVars, headVars, pc, mainVars>>

EndDir ==
  /\ Exhausted /\ Len(path) > 1
  /\ LET up == path[Len(path) - 1]
     IN  /\ sumFiles' = [sumFiles EXCEPT ![up] = @ + sumFiles[Here]]
         /\ sumDirs' = [sumDirs EXCEPT ![up] = @ + sumDirs[Here]]
  /\ Closed
  /\ UNCHANGED <<treeVars, list, pc, mainVars>>

\* destroyList: the lists go, the counts of szBase stay.
DestroyList ==
  /\ list' = [d \in Heads |-> <<>>]
  /\ sumFiles' = [d \in Heads |-> IF d = Root THEN sumFiles[Root] ELSE 0]
  /\ sumDirs' = [d \in Heads |-> IF d = Root THEN sumDirs[Root] ELSE 0]
  /\ path' = <<>> /\ seen' = Nothing /\ opened' = Nothing /\ steady' = Nothing

\* Mutant of NothingToRead: the list is kept for the next turn.
NothingToReadKeeps ==
  /\ IF nonFiles > Patience THEN Exit("noFiles") /\ UNCHANGED nonFiles
     ELSE pc' = "top" /\ nonFiles' = nonFiles + 1 /\ UNCHANGED why
  /\ UNCHANGED <<headVars, readVars>>

\* A reader without files: iTooManyNonFiles++ > 60.
NothingToRead ==
  IF nonFiles > Patience
  THEN Exit("noFiles") /\ UNCHANGED <<nonFiles, headVars, readVars>>
  ELSE pc' = "top" /\ nonFiles' = nonFiles + 1 /\ UNCHANGED why /\ DestroyList

EndScan ==
  /\ Exhausted /\ Len(path) = 1
  /\ nonDirs' = 0
  /\ IF sumFiles[Root] = 0 /\ scan = "read" THEN NothingToRead
     ELSE /\ pc' = "decide" /\ nonFiles' = 0
          /\ path' = <<>> /\ seen' = Nothing /\ opened' = Nothing
          /\ UNCHANGED <<why, headVars, steady>>
  /\ changes' = 0
  /\ UNCHANGED <<exists, scan, broken>>

(***************************************************************************)
(* The action.                                                             *)
(***************************************************************************)
\* The places of all lists that hold a name of S.
Places(S) == UNION {{<<d, k>> : k \in {j \in DOMAIN list[d] : list[d][j] \in S}} : d \in Heads}

\* findDirEntryOf: the file number toFind, depth first, as a place in a list;
\* Fatal where the code finds its count out of bounds.
Found(toFind) ==
  LET Walk[call \in Heads \X (Nat \ {0}) \X Nat] ==
        LET d == call[1]
            k == call[2]
            curr == call[3]
            n == list[d][k]
            rest(c) == Walk[<<d, k + 1, c>>]
        IN  IF k > Len(list[d]) THEN [at |-> None, curr |-> curr]
            ELSE IF curr > toFind THEN [at |-> Fatal, curr |-> curr]
            ELSE IF n \in File
            THEN IF curr = toFind THEN [at |-> <<d, k>>, curr |-> curr] ELSE rest(curr + 1)
            ELSE LET sub == Walk[<<n, 1, curr>>]
                 IN  IF sub.at # None THEN sub ELSE rest(sub.curr)
  IN  Walk[<<Root, 1, 0>>].at

\* Mutant of Rolls: one too many.
RollsInclusive == 0 .. sumFiles[Root]

\* findActiveFile: the numbers it may roll.
Rolls == 0 .. (IF sumFiles[Root] = 0 THEN 0 ELSE sumFiles[Root] - 1)

EndTurn == pc' = "top" /\ DestroyList /\ UNCHANGED <<changes, mainVars>>

\* create makes the directories it needs and then the file, or gives up.
ActCreate(f) ==
  /\ pc = "decide" /\ scan # "read" /\ f \notin exists
  /\ exists' = exists \cup {f} \cup Ancestors(f)
  /\ EndTurn

\* The other actions take a file from the list.  The roll may have found none,
\* the file may be gone, the action may leave it where it is.
ActOnPick ==
  /\ pc = "decide"
  /\ \E toFind \in Rolls :
       \/ UNCHANGED exists
       \/ /\ scan # "read"
          /\ \E f \in File : Found(toFind) \in Places({f}) /\ exists' = exists \ {f}
  /\ EndTurn

(***************************************************************************)
(* The other processes.                                                    *)
(***************************************************************************)
\* The bound is on what happens during a scan.
Changed ==
  IF pc = "scanning" THEN changes < MaxChanges /\ changes' = changes + 1
  ELSE pc # "exited" /\ UNCHANGED changes

OthersMake(n) ==
  /\ n \notin exists /\ Parent[n] \in exists \cup {Root}
  /\ exists' = exists \cup {n}
  /\ Changed
  /\ UNCHANGED <<headVars, readVars, pc, mainVars>>

OthersUnlink(f) ==
  /\ f \in exists
  /\ exists' = exists \ {f}
  /\ Changed
  /\ steady' = [d \in Heads |-> steady[d] \ {f}]
  /\ seen' = [d \in Heads |-> seen[d] \ {f}]
  /\ opened' = [d \in Heads |-> opened[d] \ (seen[d] \cap {f})]
  /\ UNCHANGED <<headVars, path, pc, mainVars>>

Scan == \/ \E f \in File : ReadFile(f)
        \/ \E d \in Dir : ReadDir(d)
        \/ EndDir \/ EndScan

Next ==
  \/ StartScan \/ Scan \/ ActOnPick \/ Finish
  \/ \E f \in File : ActCreate(f) \/ OthersUnlink(f)
  \/ \E n \in Node : OthersMake(n)

Spec == Init /\ [][Next]_vars

(***************************************************************************)
(* Correctness.                                                            *)
(***************************************************************************)
Listed(d) == {list[d][k] : k \in DOMAIN list[d]}

\* The counts main measures and findActiveFile rolls with are those of the
\* entries found at any depth, whatever was created and removed meanwhile, as
\* long as szBase itself is not empty.
CountsOfList ==
  pc = "decide" /\ list[Root] # <<>> =>
    /\ sumFiles[Root] = Cardinality(Places(File))
    /\ sumDirs[Root] = Cardinality(Places(Dir))

\* Every file found can be picked, and every roll picks one: findDirEntryOf
\* neither skips an entry, nor takes one twice, nor runs out of bounds.
PicksCover ==
  pc = "decide" =>
    {Found(u) : u \in Rolls} = IF Places(File) = {} THEN {None} ELSE Places(File)

\* What was in the tree during the whole scan is in the list, although
\* directories were read one after the other while the tree changed.
SeesWhatLasts == pc = "decide" => \A n \in steady[Root] : n \in Listed(Parent[n])

\* "Link list is full when it should be empty": every way through a turn
\* destroys the list, except a scan that failed below szBase.
OnlyBrokenScanLeavesList == why = "listFull" => broken
=============================================================================
