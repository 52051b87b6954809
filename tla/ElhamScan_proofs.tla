-------------------------- MODULE ElhamScan_proofs --------------------------
(***************************************************************************)
(* Theorems about ElhamScan, for every tree, every number of changes made  *)
(* during a scan and every patience: types, that only a scan that failed   *)
(* below szBase leaves its list behind, that a scan finds everything that  *)
(* stays in the tree while it runs, that it counts what it finds, and that *)
(* all it finds can be picked.                                             *)
(*                                                                         *)
(* For what it finds the invariant says what is known in the middle of the *)
(* recursion: the directories of path lead from Root down to Here, each in *)
(* the one before it (Leads); what has been seen of them is listed (Kept); *)
(* and a listed directory that is not on the path has been read to its end *)
(* (Done).  At the end of the scan Root is the only one on the path, and   *)
(* the topmost lasting name that were not listed would contradict Done.    *)
(*                                                                         *)
(* For the counts, those of the directories on the path add up to the      *)
(* places in all the lists (Tallied).  That is kept because a directory is *)
(* listed once (Once) and because one that is left was entered from a list *)
(* that is not empty (Entered).                                            *)
(*                                                                         *)
(* For the picks, the scan is shown to make a chart of the files in the    *)
(* order findDirEntryOf comes to them, with the counts as its lengths      *)
(* (HasChart); what findDirEntryOf answers can be read off the chart.      *)
(***************************************************************************)
EXTENDS ElhamScan, SequenceTheorems, FiniteSetTheorems, WellFoundedInduction, TLAPS

OnPath(d) == \E k \in 1 .. Len(path) : path[k] = d

\* The path of the recursion has no loop.
Leads ==
  pc = "scanning" =>
    /\ Len(path) > 0 /\ path[1] = Root
    /\ \A k \in 2 .. Len(path) : path[k] \in Dir /\ Parent[path[k]] = path[k - 1]
    /\ \A j, k \in 1 .. Len(path) : path[j] = path[k] => j = k
    /\ Len(path) > 1 => list[Root] # <<>>

\* Directories stay, so what is in the tree is in a directory of the tree; and
\* what lasted as long as Root is open has lasted in all the others.
InTree ==
  /\ \A n \in exists : Parent[n] \in exists \cup {Root}
  /\ pc \in {"scanning", "decide"} =>
       /\ steady[Root] \subseteq exists
       /\ \A n \in steady[Root] : Parent[n] \in steady[Root] \cup {Root}
  /\ pc = "scanning" => \A d \in Heads : OnPath(d) => steady[Root] \subseteq steady[d]

\* What readdir has returned is listed.
Kept == pc = "scanning" => \A d \in Heads : OnPath(d) => seen[d] \subseteq Listed(d)

\* A listed directory has been read to its end or is being read.
Done ==
  pc = "scanning" =>
    \A d \in Dir : d \in Listed(Parent[d]) /\ ~OnPath(d) =>
      \A n \in steady[Root] : Parent[n] = d => n \in Listed(d)

\* A turn begins with no list at all, except the one after a broken scan.
Destroyed ==
  /\ pc = "top" => IF broken THEN list[Root] # <<>> ELSE \A d \in Heads : list[d] = <<>>
  /\ pc \in {"scanning", "decide"} => ~broken
  /\ OnlyBrokenScanLeavesList

Inv == TypeOK /\ Leads /\ InTree /\ Kept /\ Done /\ Destroyed /\ SeesWhatLasts

LEMMA InitInv == Init => Inv
<1> SUFFICES ASSUME Init PROVE Inv
  OBVIOUS
<1>1. TypeOK
  <2>0. 0 \in 0 .. MaxChanges /\ 0 \in 0 .. Patience + 1
    BY BoundsAssumption
  <2>1. TreeType /\ MainType
    <3>1. TreeType
      BY <2>0 DEF Init, TreeType
    <3>2. MainType
      BY <2>0 DEF Init, MainType
    <3> QED
      BY <3>1, <3>2
  <2>2. <<>> \in Seq(Node) /\ <<>> \in Seq(Heads)
    BY EmptySeq
  <2>3. HeadType
    BY <2>2 DEF Init, HeadType
  <2>4. ReadType
    BY <2>2 DEF Init, ReadType, Nothing
  <2> QED
    BY <2>1, <2>3, <2>4 DEF TypeOK
<1>2. Leads /\ InTree /\ Kept /\ Done /\ SeesWhatLasts
  BY DEF Init, Leads, InTree, Kept, Done, SeesWhatLasts
<1>3. Destroyed
  BY DEF Init, Destroyed, OnlyBrokenScanLeavesList, Heads
<1> QED
  BY <1>1, <1>2, <1>3 DEF Inv

(***************************************************************************)
(* Types.                                                                  *)
(***************************************************************************)
\* Where the recursion is.
LEMMA HereType ==
  ASSUME ReadType, Leads, pc = "scanning"
  PROVE  /\ Len(path) \in Nat \ {0} /\ Here \in Heads
         /\ \A k \in 1 .. Len(path) : path[k] \in Heads
<1>1. Len(path) \in Nat /\ \A k \in 1 .. Len(path) : path[k] \in Heads
  BY ElementOfSeq DEF ReadType
<1>2. Len(path) > 0
  BY DEF Leads
<1> QED
  BY <1>1, <1>2 DEF Here

LEMMA ScanFailsType ==
  ASSUME TypeOK, ScanFails
  PROVE  /\ ReadType' /\ changes' \in 0 .. MaxChanges /\ nonDirs' \in 0 .. Patience + 1
         /\ pc' \in {"top", "exited"} /\ why' \in {why, "noDirs"}
<1>1. ReadType'
  BY EmptySeq DEF ScanFails, ReadType, Nothing
<1>2. nonDirs' \in 0 .. Patience + 1 /\ changes' \in 0 .. MaxChanges
  BY BoundsAssumption DEF ScanFails, TypeOK, MainType
<1>3. pc' \in {"top", "exited"} /\ why' \in {why, "noDirs"}
  BY DEF ScanFails, Exit
<1> QED
  BY <1>1, <1>2, <1>3

LEMMA OpenType ==
  ASSUME TypeOK, NEW d \in Heads, NEW outer \in Seq(Heads),
         NEW newSeen \in [Heads -> SUBSET Node], Open(d, outer, newSeen)
  PROVE  ReadType'
<1>1. Append(outer, d) \in Seq(Heads)
  OBVIOUS
<1> QED
  BY <1>1 DEF Open, TypeOK, TreeType, ReadType

LEMMA StartType == TypeOK /\ StartScan => TypeOK'
<1> SUFFICES ASSUME TypeOK, StartScan PROVE TypeOK'
  OBVIOUS
<1>1. HeadType'
  BY DEF TypeOK, HeadType, StartScan, headVars
<1>2. CASE list[Root] # <<>>
  BY <1>1, <1>2 DEF StartScan, Exit, readVars, TypeOK, TreeType, ReadType, MainType
<1>3. CASE list[Root] = <<>> /\ Open(Root, <<>>, seen) /\ UNCHANGED <<changes, why, nonDirs>>
           /\ pc' = "scanning"
  <2>1. ReadType'
    BY <1>3, OpenType, EmptySeq DEF Heads, TypeOK, ReadType
  <2> QED
    BY <1>1, <1>3, <2>1 DEF StartScan, TypeOK, TreeType, MainType
<1>4. CASE list[Root] = <<>> /\ ScanFails
  BY <1>1, <1>4, ScanFailsType DEF StartScan, TypeOK, TreeType, MainType
<1> QED
  BY <1>2, <1>3, <1>4 DEF StartScan

LEMMA ReadTypes ==
  ASSUME Inv, NEW n \in Node, (n \in File /\ ReadFile(n)) \/ (n \in Dir /\ ReadDir(n))
  PROVE  TypeOK'
<1> TypeOK /\ Leads /\ pc = "scanning"
  BY DEF Inv, ReadFile, ReadDir, Returned
<1> Here \in Heads
  BY HereType DEF TypeOK
<1>1. list[Here] \in Seq(Node) /\ sumFiles[Here] \in Nat /\ sumDirs[Here] \in Nat
  BY DEF TypeOK, HeadType
<1>2. /\ Append(list[Here], n) \in Seq(Node) /\ <<>> \in Seq(Node)
      /\ Count(sumFiles, Here, 1) \in Nat /\ Count(sumFiles, Here, 0) \in Nat
      /\ Count(sumDirs, Here, 1) \in Nat /\ Count(sumDirs, Here, 0) \in Nat
  BY <1>1 DEF Count
<1>3. CASE ReadFile(n)
  <2>1. HeadType'
    BY <1>2, <1>3 DEF ReadFile, TypeOK, HeadType
  <2>2. ReadType'
    BY <1>3 DEF ReadFile, TypeOK, ReadType
  <2> QED
    BY <1>3, <2>1, <2>2 DEF ReadFile, treeVars, mainVars, TypeOK, TreeType, MainType
<1>4. CASE ReadDir(n) /\ n \in Dir
  <2>1. n \in Heads
    BY <1>4 DEF Heads
  <2>2. HeadType'
    BY <1>2, <1>4, <2>1 DEF ReadDir, TypeOK, HeadType
  <2>3. CASE Open(n, path, [seen EXCEPT ![Here] = @ \cup {n}])
             /\ UNCHANGED <<changes, pc, nonDirs, why, broken>>
    <3>1. path \in Seq(Heads) /\ [seen EXCEPT ![Here] = @ \cup {n}] \in [Heads -> SUBSET Node]
      BY DEF TypeOK, ReadType
    <3>2. ReadType'
      BY <2>1, <2>3, <3>1, OpenType
    <3> QED
      BY <1>4, <2>2, <2>3, <3>2 DEF ReadDir, TypeOK, TreeType, MainType
  <2>4. CASE ScanFails /\ broken' = TRUE
    BY <1>4, <2>2, <2>4, ScanFailsType DEF ReadDir, TypeOK, TreeType, MainType
  <2> QED
    BY <1>4, <2>3, <2>4 DEF ReadDir
<1> QED
  BY <1>3, <1>4

LEMMA DestroyType == TypeOK /\ DestroyList => HeadType' /\ ReadType'
BY EmptySeq DEF DestroyList, TypeOK, HeadType, ReadType, Nothing, Heads

\* The sum of two counters is a counter.
LEMMA SumType == \A a, b \in Nat : a + b \in Nat
OBVIOUS

\* The end of a directory and of a scan keeps the types.
LEMMA EndType ==
  ASSUME Inv, EndDir \/ EndScan
  PROVE  TypeOK'
<1> TypeOK /\ Leads /\ pc = "scanning"
  BY DEF Inv, EndDir, EndScan, Exhausted
<1>0. Here \in Heads /\ Len(path) \in Nat \ {0} /\ path \in Seq(Heads)
      /\ \A k \in 1 .. Len(path) : path[k] \in Heads
  BY HereType DEF TypeOK, ReadType
<1>1. CASE EndDir
  <2>1. SubSeq(path, 1, Len(path) - 1) \in Seq(Heads)
    BY <1>0, SubSeqProperties
  <2>2. ReadType'
    BY <1>1, <2>1 DEF EndDir, Closed, TypeOK, ReadType
  <2>3. path[Len(path) - 1] \in Heads
    BY <1>0, <1>1 DEF EndDir
  <2>4. HeadType'
    <3> DEFINE up == path[Len(path) - 1]
    <3>0. \A h \in Heads : sumFiles[h] \in Nat /\ sumDirs[h] \in Nat
      BY DEF TypeOK, HeadType
    <3>1. sumFiles[up] + sumFiles[Here] \in Nat /\ sumDirs[up] + sumDirs[Here] \in Nat
      <4>1. /\ sumFiles[up] \in Nat /\ sumDirs[up] \in Nat
            /\ sumFiles[Here] \in Nat /\ sumDirs[Here] \in Nat
        BY <1>0, <2>3, <3>0
      <4> HIDE DEF up
      <4> QED
        BY <4>1, SumType, Zenon
    <3>2. /\ list' = list
          /\ sumFiles' = [sumFiles EXCEPT ![up] = sumFiles[up] + sumFiles[Here]]
          /\ sumDirs' = [sumDirs EXCEPT ![up] = sumDirs[up] + sumDirs[Here]]
      BY <1>1 DEF EndDir
    <3> QED
      BY <3>1, <3>2 DEF TypeOK, HeadType
  <2> QED
    BY <1>1, <2>2, <2>4 DEF EndDir, treeVars, mainVars, TypeOK, TreeType, MainType
<1>2. CASE EndScan
  <2>1. TreeType'
    BY <1>2, BoundsAssumption DEF EndScan, TypeOK, TreeType
  <2>2. CASE pc' = "decide" /\ nonFiles' = 0 /\ path' = <<>> /\ seen' = Nothing
             /\ opened' = Nothing /\ UNCHANGED <<why, headVars, steady>>
    BY <1>2, <2>1, <2>2, BoundsAssumption, EmptySeq
       DEF EndScan, headVars, Nothing, TypeOK, HeadType, ReadType, MainType
  <2>3. CASE NothingToRead
    <3>1. CASE nonFiles > Patience
      BY <1>2, <2>1, <2>3, <3>1, BoundsAssumption
         DEF NothingToRead, Exit, EndScan, headVars, readVars, TypeOK, HeadType, ReadType, MainType
    <3>2. CASE ~(nonFiles > Patience)
      <4>1. HeadType' /\ ReadType'
        BY <2>3, <3>2, DestroyType DEF NothingToRead
      <4>2. nonFiles' \in 0 .. Patience + 1
        BY <2>3, <3>2, BoundsAssumption DEF NothingToRead, TypeOK, MainType
      <4> QED
        BY <1>2, <2>1, <2>3, <3>2, <4>1, <4>2, BoundsAssumption
           DEF NothingToRead, EndScan, TypeOK, MainType
    <3> QED
      BY <3>1, <3>2
  <2> QED
    BY <1>2, <2>2, <2>3 DEF EndScan
<1> QED
  BY <1>1, <1>2

LEMMA ActType ==
  ASSUME Inv, ActOnPick \/ \E f \in File : ActCreate(f)
  PROVE  TypeOK'
<1> TypeOK
  BY DEF Inv
<1>1. HeadType' /\ ReadType'
  BY DestroyType DEF ActOnPick, ActCreate, EndTurn
<1>2. exists' \in SUBSET Node
  BY DEF ActOnPick, ActCreate, Ancestors, Node, TypeOK, TreeType
<1> QED
  BY <1>1, <1>2 DEF ActOnPick, ActCreate, EndTurn, mainVars, TypeOK, TreeType, MainType

LEMMA OthersType ==
  ASSUME Inv, \/ \E f \in File : OthersUnlink(f)
              \/ \E n \in Node : OthersMake(n)
  PROVE  TypeOK'
<1> TypeOK
  BY DEF Inv
<1>1. changes' \in 0 .. MaxChanges
  BY BoundsAssumption DEF OthersUnlink, OthersMake, Changed, TypeOK, TreeType
<1>2. exists' \in SUBSET Node
  BY DEF OthersUnlink, OthersMake, TypeOK, TreeType
<1>3. ReadType'
  BY DEF OthersUnlink, OthersMake, readVars, TypeOK, ReadType
<1> QED
  BY <1>1, <1>2, <1>3
     DEF OthersUnlink, OthersMake, headVars, mainVars, TypeOK, TreeType, HeadType, MainType

LEMMA StepType == Inv /\ [Next]_vars => TypeOK'
<1> SUFFICES ASSUME Inv, [Next]_vars PROVE TypeOK'
  OBVIOUS
<1>1. CASE StartScan
  BY <1>1, StartType DEF Inv
<1>2. CASE Scan
  <2>1. ASSUME NEW f \in File, ReadFile(f) PROVE TypeOK'
    <3>1. f \in Node
      BY DEF Node
    <3> QED
      BY <2>1, <3>1, ReadTypes
  <2>2. ASSUME NEW d \in Dir, ReadDir(d) PROVE TypeOK'
    <3>1. d \in Node
      BY DEF Node
    <3> QED
      BY <2>2, <3>1, ReadTypes
  <2> QED
    BY <1>2, <2>1, <2>2, EndType DEF Scan
<1>3. CASE ActOnPick \/ \E f \in File : ActCreate(f)
  BY <1>3, ActType
<1>4. CASE \/ \E f \in File : OthersUnlink(f)
           \/ \E n \in Node : OthersMake(n)
  BY <1>4, OthersType
<1>5. CASE Finish
  BY <1>5 DEF Finish, Exit, treeVars, headVars, readVars, Inv, TypeOK, TreeType, HeadType,
     ReadType, MainType
<1>6. CASE UNCHANGED vars
  BY <1>6 DEF vars, treeVars, headVars, readVars, mainVars, Inv, TypeOK, TreeType, HeadType,
     ReadType, MainType
<1> QED
  BY <1>1, <1>2, <1>3, <1>4, <1>5, <1>6 DEF Next

(***************************************************************************)
(* The list is left behind only by a broken scan.                          *)
(***************************************************************************)
LEMMA StepDestroyed == Inv /\ [Next]_vars => Destroyed'
<1> SUFFICES ASSUME Inv, [Next]_vars PROVE Destroyed'
  OBVIOUS
<1> Root \in Heads
  BY DEF Heads
<1>0. Destroyed /\ TypeOK /\ Leads
  BY DEF Inv
<1> USE DEF Destroyed, OnlyBrokenScanLeavesList
<1>1. CASE StartScan
  <2>1. CASE list[Root] # <<>>
    BY <1>0, <1>1, <2>1 DEF StartScan, Exit, headVars
  <2>2. CASE list[Root] = <<>>
    BY <1>0, <1>1, <2>2, ScanFailsType DEF StartScan, headVars
  <2> QED
    BY <2>1, <2>2
<1>2. ASSUME NEW n \in File, ReadFile(n)
      PROVE  Destroyed'
  BY <1>0, <1>2 DEF ReadFile, Returned, mainVars
<1>3. ASSUME NEW n \in Dir, ReadDir(n)
      PROVE  Destroyed'
  <2>1. CASE ScanFails /\ broken' = TRUE
    <3>1. list'[Root] # <<>>
      <4>1. Here \in Heads /\ Len(path) \in Nat \ {0} /\ n # Root /\ pc = "scanning"
        BY <1>0, <1>3, HereType, NamesAssumption DEF ReadDir, Returned, TypeOK, Node
      <4>2. CASE Here = Root
        <5>1. Append(list[Root], n) # <<>>
          BY <1>0, EmptySeq DEF TypeOK, HeadType, Node
        <5> QED
          BY <1>0, <1>3, <4>1, <4>2, <5>1 DEF ReadDir, TypeOK, HeadType
      <4>3. CASE Here # Root
        <5>1. Len(path) > 1
          BY <1>0, <4>1, <4>3 DEF Leads, Here
        <5> QED
          BY <1>0, <1>3, <4>1, <4>3, <5>1 DEF ReadDir, TypeOK, HeadType, Leads
      <4> QED
        BY <4>2, <4>3
    <3> QED
      BY <1>0, <1>3, <2>1, <3>1, ScanFailsType DEF ReadDir, Returned
  <2>2. CASE UNCHANGED <<changes, pc, nonDirs, why, broken>>
    BY <1>0, <1>3, <2>2 DEF ReadDir, Returned
  <2> QED
    BY <1>3, <2>1, <2>2 DEF ReadDir
<1>4. CASE EndDir
  BY <1>0, <1>4 DEF EndDir, Exhausted, mainVars
<1>5. CASE EndScan
  BY <1>0, <1>5 DEF EndScan, Exhausted, NothingToRead, Exit, DestroyList
<1>6. CASE ActOnPick \/ \E f \in File : ActCreate(f)
  BY <1>0, <1>6 DEF ActOnPick, ActCreate, EndTurn, DestroyList, mainVars
<1>7. CASE \/ \E f \in File : OthersUnlink(f)
           \/ \E n \in Node : OthersMake(n)
  BY <1>0, <1>7 DEF OthersUnlink, OthersMake, headVars, mainVars
<1>8. CASE Finish
  BY <1>0, <1>8 DEF Finish, Exit, headVars
<1>9. CASE UNCHANGED vars
  BY <1>0, <1>9 DEF vars, headVars, mainVars
<1> QED
  BY <1>1, <1>2, <1>3, <1>4, <1>5, <1>6, <1>7, <1>8, <1>9 DEF Next, Scan

(***************************************************************************)
(* The recursion.                                                          *)
(***************************************************************************)
ScanInv == Leads /\ InTree /\ Kept /\ Done /\ SeesWhatLasts

\* An entry is appended to the list of h.
LEMMA ListedAppend ==
  ASSUME HeadType, NEW h \in Heads, NEW n \in Node, NEW l, l = Append(list[h], n)
  PROVE  {l[k] : k \in DOMAIN l} = Listed(h) \cup {n}
<1>1. list[h] \in Seq(Node)
  BY DEF HeadType
<1>2. Len(list[h]) \in Nat /\ DOMAIN list[h] = 1 .. Len(list[h])
  BY <1>1
<1>3. /\ DOMAIN l = 1 .. Len(list[h]) + 1
      /\ \A k \in 1 .. Len(list[h]) : l[k] = list[h][k]
      /\ l[Len(list[h]) + 1] = n
  BY <1>1
<1>4. \A k \in DOMAIN l : k \in DOMAIN list[h] \/ k = Len(list[h]) + 1
  BY <1>2, <1>3
<1> QED
  BY <1>2, <1>3, <1>4 DEF Listed

\* The scan opens szBase: nothing is listed.
LEMMA StartInv == Inv /\ StartScan => ScanInv'
<1> SUFFICES ASSUME Inv, StartScan PROVE ScanInv'
  OBVIOUS
<1>0. Root \in Heads /\ pc = "top" /\ list' = list /\ exists' = exists
  BY DEF Heads, StartScan, headVars
<1>1. CASE list[Root] # <<>> \/ ScanFails
  <2>1. pc' \in {"top", "exited"}
    BY <1>0, <1>1, ScanFailsType DEF StartScan, Exit, Inv, ScanFails
  <2>2. exists' = exists
    BY <1>0
  <2> QED
    BY <2>1, <2>2 DEF Inv, ScanInv, Leads, InTree, Kept, Done, SeesWhatLasts
<1>2. CASE list[Root] = <<>> /\ Open(Root, <<>>, seen) /\ pc' = "scanning"
  <2>1. /\ path' = <<Root>> /\ seen'[Root] = {} /\ steady'[Root] = exists
        /\ \A d \in Heads : list[d] = <<>>
    BY <1>0, <1>2 DEF Open, Inv, TypeOK, ReadType, Destroyed
  <2>2. Len(path') = 1 /\ path'[1] = Root /\ \A k \in 1 .. Len(path') : k = 1
    BY <2>1
  <2>3. \A d \in Heads : Listed(d)' = {} /\ (OnPath(d)' <=> d = Root)
    BY <1>0, <2>1, <2>2 DEF Listed, OnPath
  <2>4. Leads'
    BY <2>2 DEF Leads
  <2>5. InTree'
    BY <1>0, <1>2, <2>1, <2>3 DEF Inv, InTree
  <2>6. Kept'
    BY <2>1, <2>3 DEF Kept
  <2>7. Done'
    BY <2>3, NamesAssumption DEF Done, Node
  <2>8. SeesWhatLasts'
    BY <1>2 DEF SeesWhatLasts
  <2> QED
    BY <2>4, <2>5, <2>6, <2>7, <2>8 DEF ScanInv
<1> QED
  BY <1>1, <1>2 DEF StartScan

LEMMA ReadFileInv ==
  ASSUME Inv, NEW f \in File, ReadFile(f)
  PROVE  ScanInv'
<1>h. PICK h \in Heads : h = Here
  BY HereType DEF ReadFile, Returned, Inv, TypeOK
<1>0. /\ pc = "scanning" /\ pc' = pc /\ exists' = exists /\ path' = path /\ steady' = steady
      /\ seen' = [seen EXCEPT ![h] = seen[h] \cup {f}]
      /\ list' = [list EXCEPT ![h] = Append(list[h], f)]
      /\ f \in Node
  BY <1>h DEF ReadFile, Returned, treeVars, Node
<1>1. list'[h] = Append(list[h], f) /\ \A d \in Heads : d # h => list'[d] = list[d]
  BY <1>0 DEF Inv, TypeOK, HeadType
<1>2. Listed(h)' = Listed(h) \cup {f}
  BY <1>0, <1>1, ListedAppend DEF Listed, Inv, TypeOK
<1>3. \A d \in Heads : Listed(d) \subseteq Listed(d)' /\ (d # h => Listed(d)' = Listed(d))
  BY <1>1, <1>2 DEF Listed
<1>4. Leads'
  <2>1. list[Root] # <<>> => list'[Root] # <<>>
    BY <1>0, <1>1, EmptySeq DEF Inv, TypeOK, HeadType, Heads
  <2> QED
    BY <1>0, <2>1 DEF Inv, Leads
<1>5. InTree'
  BY <1>0 DEF Inv, InTree, OnPath
<1>6. Kept'
  <2> SUFFICES ASSUME NEW d \in Heads, OnPath(d) PROVE seen'[d] \subseteq Listed(d)'
    BY <1>0 DEF Kept, OnPath
  <2>1. seen[d] \subseteq Listed(d)
    BY <1>0 DEF Inv, Kept
  <2>2. seen'[d] = IF d = h THEN seen[h] \cup {f} ELSE seen[d]
    BY <1>0 DEF Inv, TypeOK, ReadType
  <2> QED
    BY <1>2, <1>3, <2>1, <2>2
<1>7. Done'
  <2> SUFFICES ASSUME NEW d \in Dir, d \in Listed(Parent[d])', ~OnPath(d)',
                      NEW n \in steady[Root], Parent[n] = d
               PROVE  n \in Listed(d)'
    BY <1>0 DEF Done
  <2>1. d # f /\ Parent[d] \in Heads /\ d \in Heads
    BY NamesAssumption DEF Node, Heads
  <2>2. PICK p \in Heads : p = Parent[d]
    BY <2>1
  <2>3. d \in Listed(p)
    <3>1. d \in Listed(p)'
      BY <2>2
    <3> QED
      BY <1>2, <1>3, <2>1, <3>1
  <2>4. ~OnPath(d)
    BY <1>0 DEF OnPath
  <2>5. n \in Listed(d)
    BY <1>0, <2>2, <2>3, <2>4 DEF Inv, Done
  <2> QED
    BY <1>3, <2>1, <2>5
<1>8. SeesWhatLasts'
  BY <1>0 DEF SeesWhatLasts
<1> QED
  BY <1>4, <1>5, <1>6, <1>7, <1>8 DEF ScanInv

\* The directory found is not one the recursion is in.
LEMMA NotOnPath ==
  ASSUME Inv, pc = "scanning", NEW d \in Dir, Parent[d] = Here
  PROVE  ~OnPath(d)
<1> SUFFICES ASSUME NEW k \in 1 .. Len(path), path[k] = d PROVE FALSE
  BY DEF OnPath
<1>0. Leads /\ Len(path) \in Nat \ {0}
  BY HereType DEF Inv, TypeOK
<1>1. CASE k = 1
  BY <1>0, <1>1, NamesAssumption DEF Leads, Node
<1>2. CASE k # 1
  <2>1. k \in 2 .. Len(path) /\ k - 1 \in 1 .. Len(path) /\ Len(path) \in 1 .. Len(path)
    BY <1>0, <1>2
  <2>2. path[k - 1] = path[Len(path)]
    BY <1>0, <2>1 DEF Leads, Here
  <2>3. k - 1 = Len(path)
    BY <1>0, <2>1, <2>2 DEF Leads
  <2> QED
    BY <1>0, <2>1, <2>3
<1> QED
  BY <1>1, <1>2

\* One level deeper.
LEMMA ReadDirOpens ==
  ASSUME Inv, NEW e \in Dir, ReadDir(e), UNCHANGED pc,
         Open(e, path, [seen EXCEPT ![Here] = @ \cup {e}])
  PROVE  ScanInv'
<1>h. PICK h \in Heads : h = Here
  BY HereType DEF ReadDir, Returned, Inv, TypeOK
<1>0. /\ pc = "scanning" /\ pc' = pc /\ exists' = exists /\ path' = Append(path, e)
      /\ steady' = [steady EXCEPT ![e] = exists]
      /\ seen' = [[seen EXCEPT ![h] = seen[h] \cup {e}] EXCEPT ![e] = {}]
      /\ list' = [[list EXCEPT ![h] = Append(list[h], e)] EXCEPT ![e] = <<>>]
      /\ e \in Node /\ e \in Heads /\ e # Root /\ Parent[e] = h
  BY <1>h, NamesAssumption DEF ReadDir, Returned, Open, Node, Heads
<1>1. ~OnPath(e) /\ OnPath(h) /\ e # h
  <2>1. ~OnPath(e)
    BY <1>0, <1>h, NotOnPath
  <2>2. Len(path) \in 1 .. Len(path)
    BY <1>0, HereType DEF Inv, TypeOK
  <2> QED
    BY <1>h, <2>1, <2>2 DEF OnPath, Here
<1>2. /\ list'[h] = Append(list[h], e) /\ list'[e] = <<>>
      /\ \A d \in Heads : d \notin {e, h} => list'[d] = list[d]
  BY <1>0, <1>1 DEF Inv, TypeOK, HeadType
<1>3. Listed(h)' = Listed(h) \cup {e}
  <2>1. HeadType /\ e \in Node
    BY <1>0 DEF Inv, TypeOK
  <2>2. PICK l : l = Append(list[h], e)
    OBVIOUS
  <2>3. {l[k] : k \in DOMAIN l} = Listed(h) \cup {e}
    BY <2>1, <2>2, ListedAppend
  <2> QED
    BY <1>2, <2>2, <2>3 DEF Listed
<1>4. Listed(e)' = {} /\ \A d \in Heads : d \notin {e, h} => Listed(d)' = Listed(d)
  BY <1>2 DEF Listed
<1>5. path \in Seq(Heads) /\ Len(path) \in Nat \ {0} /\ Leads
  BY <1>0, HereType DEF Inv, TypeOK, ReadType
<1>6. /\ Len(path') = Len(path) + 1 /\ path'[Len(path) + 1] = e
      /\ \A k \in 1 .. Len(path) : path'[k] = path[k]
  BY <1>0, <1>5
<1>7. \A d : OnPath(d)' <=> OnPath(d) \/ d = e
  <2>1. \A k : k \in 1 .. Len(path') <=> k \in 1 .. Len(path) \/ k = Len(path) + 1
    BY <1>5, <1>6
  <2> QED
    BY <1>6, <2>1 DEF OnPath
<1>8. Leads'
  <2>1. Len(path') > 0 /\ path'[1] = Root
    BY <1>0, <1>5, <1>6 DEF Leads
  <2>2. \A k \in 2 .. Len(path') : path'[k] \in Dir /\ Parent[path'[k]] = path'[k - 1]
    <3> SUFFICES ASSUME NEW k \in 2 .. Len(path')
                 PROVE  path'[k] \in Dir /\ Parent[path'[k]] = path'[k - 1]
      OBVIOUS
    <3>1. CASE k = Len(path) + 1
      BY <1>0, <1>h, <1>5, <1>6, <3>1 DEF Here
    <3>2. CASE k # Len(path) + 1
      <4>1. k \in 2 .. Len(path) /\ k \in 1 .. Len(path) /\ k - 1 \in 1 .. Len(path)
        BY <1>5, <1>6, <3>2
      <4> QED
        BY <1>0, <1>5, <1>6, <4>1 DEF Leads
    <3> QED
      BY <3>1, <3>2
  <2>3. \A j, k \in 1 .. Len(path') : path'[j] = path'[k] => j = k
    <3> SUFFICES ASSUME NEW j \in 1 .. Len(path'), NEW k \in 1 .. Len(path'),
                        path'[j] = path'[k]
                 PROVE  j = k
      OBVIOUS
    <3>1. /\ j \in 1 .. Len(path) \/ j = Len(path) + 1
          /\ k \in 1 .. Len(path) \/ k = Len(path) + 1
      BY <1>5, <1>6
    <3>2. \A i \in 1 .. Len(path) : path[i] # e
      BY <1>1 DEF OnPath
    <3>3. \A i, l \in 1 .. Len(path) : path[i] = path[l] => i = l
      BY <1>0, <1>5 DEF Leads
    <3> QED
      BY <1>6, <3>1, <3>2, <3>3
  <2>4. list'[Root] # <<>>
    <3>1. CASE h = Root
      BY <1>0, <1>2, <3>1, EmptySeq DEF Inv, TypeOK, HeadType
    <3>2. CASE h # Root
      <4>1. Len(path) > 1
        BY <1>0, <1>h, <1>5, <3>2 DEF Leads, Here
      <4> QED
        BY <1>0, <1>2, <1>5, <3>2, <4>1 DEF Leads, Heads
    <3> QED
      BY <3>1, <3>2
  <2> QED
    BY <2>1, <2>2, <2>3, <2>4 DEF Leads
<1>9. steady'[Root] = steady[Root] /\ steady'[e] = exists
      /\ \A d \in Heads : d # e => steady'[d] = steady[d]
  BY <1>0 DEF Inv, TypeOK, ReadType, Heads
<1>10. InTree'
  <2>1. InTree
    BY DEF Inv
  <2>2. \A d \in Heads : OnPath(d)' => steady'[Root] \subseteq steady'[d]
    BY <1>0, <1>7, <1>9, <2>1 DEF InTree
  <2> QED
    BY <1>0, <1>9, <2>1, <2>2 DEF InTree
<1>11. Kept'
  <2> SUFFICES ASSUME NEW d \in Heads, OnPath(d)' PROVE seen'[d] \subseteq Listed(d)'
    BY <1>0 DEF Kept
  <2>1. CASE d = e
    BY <1>0, <2>1 DEF Inv, TypeOK, ReadType
  <2>2. CASE d # e
    <3>1. seen[d] \subseteq Listed(d)
      BY <1>0, <1>7, <2>2 DEF Inv, Kept
    <3>2. seen'[d] = IF d = h THEN seen[h] \cup {e} ELSE seen[d]
      BY <1>0, <2>2 DEF Inv, TypeOK, ReadType
    <3> QED
      BY <1>3, <1>4, <2>2, <3>1, <3>2
  <2> QED
    BY <2>1, <2>2
<1>12. Done'
  <2> SUFFICES ASSUME NEW d \in Dir, d \in Listed(Parent[d])', ~OnPath(d)',
                      NEW n \in steady'[Root], Parent[n] = d
               PROVE  n \in Listed(d)'
    BY <1>0 DEF Done
  <2>1. PICK p \in Heads : p = Parent[d]
    BY NamesAssumption DEF Node
  <2>2. d # e /\ ~OnPath(d) /\ d # h /\ d \in Heads /\ d \in Listed(p)'
    BY <1>1, <1>7, <2>1 DEF Heads
  <2>3. d \in Listed(p)
    BY <1>3, <1>4, <2>1, <2>2
  <2>4. n \in Listed(d)
    BY <1>0, <1>9, <2>1, <2>2, <2>3 DEF Inv, Done
  <2> QED
    BY <1>4, <2>2, <2>4
<1>13. SeesWhatLasts'
  BY <1>0 DEF SeesWhatLasts
<1> QED
  BY <1>8, <1>10, <1>11, <1>12, <1>13 DEF ScanInv

\* Outside a scan only the tree matters.
LEMMA Outside ==
  ASSUME Inv, pc' \in {"top", "exited"},
         \A n \in exists' : Parent[n] \in exists' \cup {Root}
  PROVE  ScanInv'
BY DEF ScanInv, Leads, InTree, Kept, Done, SeesWhatLasts

LEMMA ReadDirInv ==
  ASSUME Inv, NEW e \in Dir, ReadDir(e)
  PROVE  ScanInv'
<1>1. CASE ScanFails
  <2>1. pc' \in {"top", "exited"} /\ exists' = exists
    BY <1>1, ScanFailsType DEF ReadDir, Inv
  <2> QED
    BY <2>1, Outside DEF Inv, InTree
<1>2. CASE UNCHANGED pc /\ Open(e, path, [seen EXCEPT ![Here] = @ \cup {e}])
  BY <1>2, ReadDirOpens
<1> QED
  BY <1>1, <1>2 DEF ReadDir

\* One level up: the directory left has been read to its end.
LEMMA EndDirInv ==
  ASSUME Inv, EndDir
  PROVE  ScanInv'
<1>h. PICK h \in Heads : h = Here
  BY HereType DEF EndDir, Exhausted, Inv, TypeOK
<1>0. /\ pc = "scanning" /\ pc' = pc /\ exists' = exists /\ list' = list
      /\ path' = SubSeq(path, 1, Len(path) - 1)
      /\ steady' = [steady EXCEPT ![h] = {}]
      /\ seen' = [seen EXCEPT ![h] = {}]
      /\ Len(path) > 1
      /\ \A n \in steady[h] : Parent[n] = h => n \in seen[h]
  BY <1>h DEF EndDir, Exhausted, Closed, treeVars
<1>1. path \in Seq(Heads) /\ Len(path) \in Nat \ {0} /\ Leads
  BY <1>0, HereType DEF Inv, TypeOK, ReadType
<1>2. /\ path' \in Seq(Heads) /\ Len(path') = Len(path) - 1
      /\ \A k \in 1 .. Len(path) - 1 : path'[k] = path[k]
  BY <1>0, <1>1, SubSeqProperties
<1>3. 1 \in 1 .. Len(path) /\ Len(path) \in 1 .. Len(path)
  BY <1>0, <1>1
<1>4. h # Root /\ OnPath(h)
  BY <1>0, <1>1, <1>3, <1>h DEF Leads, Here, OnPath
<1>5. \A d : OnPath(d)' <=> OnPath(d) /\ d # h
  <2> TAKE d
  <2>1. ASSUME OnPath(d)' PROVE OnPath(d) /\ d # h
    <3>1. PICK k \in 1 .. Len(path') : path'[k] = d
      BY <2>1 DEF OnPath
    <3>2. k \in 1 .. Len(path) /\ k # Len(path) /\ path[k] = d
      BY <1>0, <1>1, <1>2, <3>1
    <3> QED
      BY <1>0, <1>1, <1>3, <1>h, <3>2 DEF Leads, Here, OnPath
  <2>2. ASSUME OnPath(d), d # h PROVE OnPath(d)'
    <3>1. PICK k \in 1 .. Len(path) : path[k] = d
      BY <2>2 DEF OnPath
    <3>2. k # Len(path)
      BY <1>h, <2>2, <3>1 DEF Here
    <3>3. k \in 1 .. Len(path) - 1 /\ k \in 1 .. Len(path')
      BY <1>1, <1>2, <3>2
    <3> QED
      BY <1>2, <3>1, <3>3 DEF OnPath
  <2> QED
    BY <2>1, <2>2
<1>6. /\ steady'[Root] = steady[Root]
      /\ \A d \in Heads : d # h => steady'[d] = steady[d] /\ seen'[d] = seen[d]
  BY <1>0, <1>4 DEF Inv, TypeOK, ReadType, Heads
<1>7. \A d \in Heads : Listed(d)' = Listed(d)
  BY <1>0 DEF Listed
<1>8. Leads'
  <2>1. Len(path') > 0 /\ path'[1] = Root
    BY <1>0, <1>1, <1>2 DEF Leads
  <2>2. \A k \in 2 .. Len(path') : path'[k] \in Dir /\ Parent[path'[k]] = path'[k - 1]
    <3> SUFFICES ASSUME NEW k \in 2 .. Len(path')
                 PROVE  path'[k] \in Dir /\ Parent[path'[k]] = path'[k - 1]
      OBVIOUS
    <3>1. k \in 2 .. Len(path) /\ k \in 1 .. Len(path) - 1 /\ k - 1 \in 1 .. Len(path) - 1
      BY <1>1, <1>2
    <3> QED
      BY <1>0, <1>1, <1>2, <3>1 DEF Leads
  <2>3. \A j, k \in 1 .. Len(path') : path'[j] = path'[k] => j = k
    <3>1. \A j \in 1 .. Len(path') : j \in 1 .. Len(path) /\ j \in 1 .. Len(path) - 1
      BY <1>1, <1>2
    <3> QED
      BY <1>0, <1>1, <1>2, <3>1 DEF Leads
  <2>4. list'[Root] # <<>>
    BY <1>0, <1>1 DEF Leads
  <2> QED
    BY <2>1, <2>2, <2>3, <2>4 DEF Leads
<1>9. InTree'
  <2>1. InTree
    BY DEF Inv
  <2>2. \A d \in Heads : OnPath(d)' => steady'[Root] \subseteq steady'[d]
    BY <1>0, <1>5, <1>6, <2>1 DEF InTree
  <2> QED
    BY <1>0, <1>6, <2>1, <2>2 DEF InTree
<1>10. Kept'
  BY <1>0, <1>5, <1>6, <1>7 DEF Inv, Kept
<1>11. Done'
  <2> SUFFICES ASSUME NEW d \in Dir, d \in Listed(Parent[d])', ~OnPath(d)',
                      NEW n \in steady[Root], Parent[n] = d
               PROVE  n \in Listed(d)'
    BY <1>0, <1>6 DEF Done
  <2>1. d \in Heads /\ Parent[d] \in Heads
    BY NamesAssumption DEF Node, Heads
  <2>2. n \in Listed(d)
    <3>1. CASE d = h
      BY <1>0, <1>4, <3>1, <2>1 DEF Inv, InTree, Kept
    <3>2. CASE d # h
      <4>1. ~OnPath(d) /\ d \in Listed(Parent[d])
        BY <1>0, <1>5, <3>2 DEF Listed
      <4> QED
        BY <1>0, <4>1 DEF Inv, Done
    <3> QED
      BY <3>1, <3>2
  <2> QED
    BY <1>7, <2>1, <2>2
<1>12. SeesWhatLasts'
  BY <1>0 DEF SeesWhatLasts
<1> QED
  BY <1>8, <1>9, <1>10, <1>11, <1>12 DEF ScanInv

\* The scan is over: the topmost lasting name that were not listed is in szBase
\* or in a directory that was listed and read to its end.
LEMMA EndScanInv ==
  ASSUME Inv, EndScan
  PROVE  ScanInv'
<1>0. /\ pc = "scanning" /\ exists' = exists /\ Len(path) = 1 /\ Here = Root /\ Root \in Heads
      /\ \A n \in steady[Root] : Parent[n] = Root => n \in seen[Root]
  BY DEF EndScan, Exhausted, Here, Inv, Leads, Heads
<1>1. \A d : OnPath(d) <=> d = Root
  BY <1>0 DEF OnPath, Here
<1>2. \A n \in steady[Root] : n \in Listed(Parent[n])
  <2> DEFINE S == {n \in steady[Root] : n \notin Listed(Parent[n])}
  <2> SUFFICES ASSUME S # {} PROVE FALSE
    OBVIOUS
  <2>1. S \in SUBSET Node
    BY <1>0 DEF Inv, TypeOK, ReadType
  <2>2. PICK n \in S : Parent[n] \notin S
    BY <2>1, TreeAssumption
  <2>3. CASE Parent[n] = Root
    BY <1>0, <1>1, <2>2, <2>3 DEF Inv, Kept
  <2>4. CASE Parent[n] # Root
    <3>1. PICK p : p = Parent[n]
      OBVIOUS
    <3>2. n \in Node /\ p \in Dir /\ p \in steady[Root]
      BY <1>0, <2>1, <2>2, <2>4, <3>1, NamesAssumption DEF Heads, Inv, InTree
    <3>3. p \in Listed(Parent[p])
      BY <2>2, <3>1, <3>2
    <3>4. n \in Listed(p)
      BY <1>0, <1>1, <2>2, <2>4, <3>1, <3>2, <3>3 DEF Inv, Done
    <3> QED
      BY <2>2, <3>1, <3>4
  <2> QED
    BY <2>3, <2>4
<1>3. CASE pc' = "decide" /\ UNCHANGED <<headVars, steady>>
  <2>1. SeesWhatLasts'
    BY <1>2, <1>3 DEF SeesWhatLasts, Listed, headVars
  <2>2. InTree'
    BY <1>0, <1>3 DEF Inv, InTree
  <2> QED
    BY <1>3, <2>1, <2>2 DEF ScanInv, Leads, Kept, Done
<1>4. CASE NothingToRead
  BY <1>0, <1>4, Outside DEF NothingToRead, Exit, Inv, InTree
<1> QED
  BY <1>3, <1>4 DEF EndScan

(***************************************************************************)
(* The tree changes.                                                       *)
(***************************************************************************)
\* A file is in no name's way.
LEMMA FileGone ==
  ASSUME NEW f \in File, NEW S, \A n \in S : n \in Node /\ Parent[n] \in S \cup {Root}
  PROVE  \A n \in S \ {f} : Parent[n] \in (S \ {f}) \cup {Root}
BY NamesAssumption DEF Node, Heads

LEMMA ActInv ==
  ASSUME Inv, ActOnPick \/ \E f \in File : ActCreate(f)
  PROVE  ScanInv'
<1>0. pc' = "top" /\ exists \subseteq Node /\ \A n \in exists : Parent[n] \in exists \cup {Root}
  BY DEF ActOnPick, ActCreate, EndTurn, Inv, InTree, TypeOK, TreeType
<1>1. ASSUME NEW f \in File, exists' = exists \cup {f} \cup Ancestors(f)
      PROVE  \A n \in exists' : Parent[n] \in exists' \cup {Root}
  <2>1. Parent[f] \in Ancestors(f) \cup {Root}
    BY NamesAssumption DEF Ancestors, Heads, Node
  <2>2. \A d \in Ancestors(f) : Parent[d] \in Ancestors(f) \cup {Root}
    <3> SUFFICES ASSUME NEW d \in Ancestors(f), Parent[d] # Root
                 PROVE  Parent[d] \in Ancestors(f)
      OBVIOUS
    <3>1. d \in Dir /\ Parent[d] \in Dir
      BY NamesAssumption DEF Ancestors, Heads, Node
    <3>2. ASSUME NEW D \in Branches, Parent[f] \in D \cup {Root}
          PROVE  Parent[d] \in D
      BY <3>2 DEF Ancestors, Branches
    <3> QED
      BY <3>1, <3>2 DEF Ancestors
  <2> QED
    BY <1>0, <1>1, <2>1, <2>2
<1>2. ASSUME NEW f \in File, exists' = exists \ {f}
      PROVE  \A n \in exists' : Parent[n] \in exists' \cup {Root}
  BY <1>0, <1>2, FileGone
<1>3. \A n \in exists' : Parent[n] \in exists' \cup {Root}
  <2>1. CASE ActOnPick
    BY <1>0, <1>2, <2>1 DEF ActOnPick
  <2>2. CASE \E f \in File : ActCreate(f)
    BY <1>1, <2>2 DEF ActCreate
  <2> QED
    BY <2>1, <2>2
<1> QED
  BY <1>0, <1>3, Outside

LEMMA MakeInv ==
  ASSUME Inv, NEW n \in Node, OthersMake(n)
  PROVE  ScanInv'
<1>1. /\ exists' = exists \cup {n} /\ Parent[n] \in exists \cup {Root}
      /\ pc' = pc /\ path' = path /\ list' = list /\ seen' = seen /\ steady' = steady
  BY DEF OthersMake, headVars, readVars
<1>2. Leads' /\ Kept' /\ Done' /\ SeesWhatLasts'
  BY <1>1 DEF Inv, Leads, Kept, Done, SeesWhatLasts, OnPath, Listed
<1>3. InTree'
  BY <1>1 DEF Inv, InTree, OnPath
<1> QED
  BY <1>2, <1>3 DEF ScanInv

LEMMA UnlinkInv ==
  ASSUME Inv, NEW f \in File, OthersUnlink(f)
  PROVE  ScanInv'
<1>1. /\ exists' = exists \ {f} /\ Root \in Heads
      /\ pc' = pc /\ path' = path /\ list' = list
      /\ \A d \in Heads : seen'[d] \subseteq seen[d] /\ steady'[d] = steady[d] \ {f}
  BY DEF OthersUnlink, headVars, Heads
<1>2. Leads' /\ Kept' /\ Done' /\ SeesWhatLasts'
  <2>1. \A d : Listed(d)' = Listed(d) /\ (OnPath(d)' <=> OnPath(d))
    BY <1>1 DEF Listed, OnPath
  <2>2. Leads'
    BY <1>1 DEF Inv, Leads
  <2>3. Kept'
    BY <1>1, <2>1 DEF Inv, Kept
  <2>4. Done'
    BY <1>1, <2>1 DEF Inv, Done
  <2>5. SeesWhatLasts'
    BY <1>1, <2>1 DEF Inv, SeesWhatLasts
  <2> QED
    BY <2>2, <2>3, <2>4, <2>5
<1>3. InTree'
  <2>1. \A n \in exists' : Parent[n] \in exists' \cup {Root}
    BY <1>1, FileGone DEF Inv, InTree, TypeOK, TreeType
  <2>2. CASE pc \in {"scanning", "decide"}
    <3>1. /\ steady'[Root] \subseteq exists'
          /\ \A n \in steady'[Root] : Parent[n] \in steady'[Root] \cup {Root}
      <4>1. steady[Root] \subseteq exists /\ steady[Root] \subseteq Node
        BY <1>1, <2>2 DEF Inv, InTree, TypeOK, ReadType
      <4>2. \A n \in steady[Root] : Parent[n] \in steady[Root] \cup {Root}
        BY <2>2 DEF Inv, InTree
      <4>3. \A n \in steady[Root] \ {f} : Parent[n] \in (steady[Root] \ {f}) \cup {Root}
        BY <4>1, <4>2, FileGone
      <4> QED
        BY <1>1, <4>1, <4>3
    <3>2. pc = "scanning" => \A d \in Heads : OnPath(d)' => steady'[Root] \subseteq steady'[d]
      BY <1>1 DEF Inv, InTree, OnPath
    <3> QED
      BY <1>1, <2>1, <3>1, <3>2 DEF InTree
  <2>3. CASE pc \notin {"scanning", "decide"}
    BY <1>1, <2>1, <2>3 DEF InTree
  <2> QED
    BY <2>2, <2>3
<1> QED
  BY <1>2, <1>3 DEF ScanInv

LEMMA StepInv == Inv /\ [Next]_vars => Inv'
<1> SUFFICES ASSUME Inv, [Next]_vars PROVE Inv'
  OBVIOUS
<1>1. TypeOK' /\ Destroyed'
  BY StepType, StepDestroyed
<1>2. ScanInv'
  <2>1. CASE Scan
    BY <2>1, ReadFileInv, ReadDirInv, EndDirInv, EndScanInv DEF Scan
  <2>2. CASE Finish
    BY <2>2, Outside DEF Finish, Exit, treeVars, Inv, InTree
  <2>3. CASE \/ ActOnPick
             \/ \E f \in File : ActCreate(f) \/ OthersUnlink(f)
             \/ \E n \in Node : OthersMake(n)
    BY <2>3, ActInv, UnlinkInv, MakeInv
  <2>4. CASE UNCHANGED vars
    BY <2>4 DEF vars, treeVars, headVars, readVars, mainVars, Inv, ScanInv, Leads, InTree, Kept,
       Done, SeesWhatLasts, OnPath, Listed
  <2> QED
    BY <2>1, <2>2, <2>3, <2>4, StartInv DEF Next
<1> QED
  BY <1>1, <1>2 DEF Inv, ScanInv

LEMMA Invariance == Spec => []Inv
<1> QED
  BY InitInv, StepInv, PTL DEF Spec

(***************************************************************************)
(* The counts.  In the middle of the recursion they are spread: what a     *)
(* directory of the path has counted is added to the one above it only     *)
(* when its reading ends.  So the counts along the path add up to the      *)
(* entries of all the lists.                                               *)
(***************************************************************************)
Lists  == [Heads -> Seq(Node)]
Counts == [Heads -> Nat]

\* What appendElement takes the counts to be: none for an empty list.
Live(l, sum) == [d \in Heads |-> IF l[d] = <<>> THEN 0 ELSE sum[d]]

PlacesIn(l, S) == UNION {{<<d, k>> : k \in {j \in DOMAIN l[d] : l[d][j] \in S}} : d \in Heads}

\* The numbers s has along p add up to total: tot holds the partial sums.
AddUp(s, p, total) ==
  \E tot \in [0 .. Len(p) -> Nat] :
    /\ tot[0] = 0 /\ tot[Len(p)] = total
    /\ \A k \in 1 .. Len(p) : tot[k] = tot[k - 1] + s[p[k]]

\* An entry n is appended to the list of h.
Grows(l, m, h, n) == m[h] = Append(l[h], n) /\ \A d \in Heads : d # h => m[d] = l[d]

Tally(l, sum, p, S) ==
  IsFiniteSet(PlacesIn(l, S)) /\ AddUp(Live(l, sum), p, Cardinality(PlacesIn(l, S)))

\* A directory that has one below it on the path has that one in its list, and
\* one that has nothing in its list counts nothing; only szBase may still have
\* the counts of an earlier scan.
Entered ==
  /\ \A k \in 1 .. Len(path) - 1 : list[path[k]] # <<>>
  /\ \A k \in 2 .. Len(path) : list[path[k]] = <<>> => sumFiles[path[k]] = 0 /\ sumDirs[path[k]] = 0

\* A directory that is not listed has no list and is not being read, and one that
\* is listed where the recursion is has been returned by readdir.
Once ==
  \A d \in Dir : /\ list[d] # <<>> \/ OnPath(d) => d \in Listed(Parent[d])
                 /\ d \in Listed(Parent[d]) /\ OnPath(Parent[d]) => d \in seen[Parent[d]]

Tallied == Tally(list, sumFiles, path, File) /\ Tally(list, sumDirs, path, Dir)

Counted == (pc = "scanning" => Entered /\ Once /\ Tallied) /\ CountsOfList

\* One directory alone.
LEMMA AddUpOne ==
  ASSUME NEW s \in Counts, NEW h \in Heads
  PROVE  AddUp(s, <<h>>, s[h])
<1> USE DEF Lists, Counts
<1> DEFINE tot == [k \in 0 .. 1 |-> IF k = 0 THEN 0 ELSE s[h]]
<1>1. tot \in [0 .. Len(<<h>>) -> Nat] /\ tot[0] = 0 /\ tot[Len(<<h>>)] = s[h]
  OBVIOUS
<1>2. \A k \in 1 .. Len(<<h>>) : k = 1 /\ tot[k] = tot[k - 1] + s[<<h>>[k]]
  OBVIOUS
<1> QED
  BY <1>1, <1>2 DEF AddUp

LEMMA AddUpAlone ==
  ASSUME NEW s \in Counts, NEW p \in Seq(Heads), Len(p) = 1, NEW n, AddUp(s, p, n)
  PROVE  n = s[p[1]]
<1> USE DEF Lists, Counts
<1>1. PICK tot \in [0 .. 1 -> Nat] : tot[0] = 0 /\ tot[1] = n /\ tot[1] = tot[1 - 1] + s[p[1]]
  BY DEF AddUp
<1>2. 1 \in 1 .. Len(p)
  OBVIOUS
<1>3. p[1] \in Heads
  BY <1>2, ElementOfSeq
<1>4. s[p[1]] \in Nat
  BY <1>3
<1> QED
  BY <1>1, <1>4

\* The last one counts a more.
LEMMA AddUpMore ==
  ASSUME NEW s \in Counts, NEW p \in Seq(Heads), NEW l \in Nat \ {0}, l = Len(p),
         \A j, k \in 1 .. l : p[j] = p[k] => j = k, NEW n \in Nat, AddUp(s, p, n),
         NEW a \in Nat, NEW t \in Counts, t[p[l]] = s[p[l]] + a,
         \A d \in Heads : d # p[l] => t[d] = s[d]
  PROVE  AddUp(t, p, n + a)
<1> USE DEF Lists, Counts
<1>1. PICK tot \in [0 .. l -> Nat] :
        tot[0] = 0 /\ tot[l] = n /\ \A k \in 1 .. l : tot[k] = tot[k - 1] + s[p[k]]
  BY DEF AddUp
<1> DEFINE new == [k \in 0 .. l |-> IF k = l THEN n + a ELSE tot[k]]
<1>2. new \in [0 .. l -> Nat] /\ new[0] = 0 /\ new[l] = n + a
  BY <1>1
<1>3. ASSUME NEW k \in 1 .. l PROVE new[k] = new[k - 1] + t[p[k]]
  <2>1. p[k] \in Heads /\ l \in 1 .. l
    BY ElementOfSeq
  <2>2. /\ k - 1 \in 0 .. l /\ k - 1 # l /\ s[p[k]] \in Nat
        /\ tot[k - 1] \in Nat /\ tot[k] = tot[k - 1] + s[p[k]]
    <3>1. k - 1 \in 0 .. l /\ k - 1 # l
      OBVIOUS
    <3> QED
      BY <1>1, <2>1, <3>1
  <2>3. CASE k = l
    BY <1>1, <2>2, <2>3
  <2>4. CASE k # l
    <3>1. t[p[k]] = s[p[k]]
      BY <2>1, <2>4
    <3> QED
      BY <1>1, <2>2, <2>4, <3>1
  <2> QED
    BY <2>3, <2>4
<1> HIDE DEF new
<1> QED
  BY <1>2, <1>3 DEF AddUp

\* A directory that has counted nothing is entered.
LEMMA AddUpEnter ==
  ASSUME NEW s \in Counts, NEW p \in Seq(Heads), NEW l \in Nat, l = Len(p),
         NEW n \in Nat, AddUp(s, p, n), NEW e \in Heads, s[e] = 0
  PROVE  AddUp(s, Append(p, e), n)
<1> USE DEF Lists, Counts
<1>1. PICK tot \in [0 .. l -> Nat] :
        tot[0] = 0 /\ tot[l] = n /\ \A k \in 1 .. l : tot[k] = tot[k - 1] + s[p[k]]
  BY DEF AddUp
<1>2. PICK q \in Seq(Heads) : q = Append(p, e)
  BY AppendProperties
<1>3. Len(q) = l + 1 /\ q[l + 1] = e /\ \A k \in 1 .. l : q[k] = p[k]
  BY <1>2, AppendProperties
<1> DEFINE new == [k \in 0 .. l + 1 |-> IF k = l + 1 THEN n ELSE tot[k]]
<1>4. new \in [0 .. l + 1 -> Nat] /\ new[0] = 0 /\ new[l + 1] = n
  BY <1>1
<1>5. ASSUME NEW k \in 1 .. l + 1 PROVE new[k] = new[k - 1] + s[q[k]]
  <2>1. CASE k = l + 1
    BY <1>1, <1>3, <2>1
  <2>2. CASE k # l + 1
    <3>1. k \in 1 .. l /\ k - 1 \in 0 .. l /\ k - 1 # l + 1 /\ k \in 0 .. l
      BY <2>2
    <3>2. tot[k] = tot[k - 1] + s[p[k]] /\ q[k] = p[k]
      BY <1>1, <1>3, <3>1
    <3> QED
      BY <2>2, <3>1, <3>2
  <2> QED
    BY <2>1, <2>2
<1> HIDE DEF new
<1> QED
  <2>1. tot \in [0 .. l -> Nat] /\ Len(q) = l + 1
    BY <1>1, <1>3
  <2>2. AddUp(s, q, n)
    <3>1. /\ new \in [0 .. Len(q) -> Nat] /\ new[Len(q)] = n
          /\ \A k \in 1 .. Len(q) : new[k] = new[k - 1] + s[q[k]]
      BY <1>4, <1>5, <2>1
    <3> QED
      BY <1>4, <3>1 DEF AddUp
  <2> QED
    BY <1>2, <2>2

\* The last one is left and what it counted is added to the one before it.
LEMMA AddUpLeave ==
  ASSUME NEW s \in Counts, NEW p \in Seq(Heads), NEW l \in Nat \ {0}, l + 1 = Len(p),
         \A j, k \in 1 .. l + 1 : p[j] = p[k] => j = k, NEW n \in Nat, AddUp(s, p, n),
         NEW t \in Counts, t[p[l]] = s[p[l]] + s[p[l + 1]],
         \A d \in Heads : d # p[l] => t[d] = s[d]
  PROVE  AddUp(t, SubSeq(p, 1, l), n)
<1> USE DEF Lists, Counts
<1>1. PICK tot \in [0 .. l + 1 -> Nat] :
        tot[0] = 0 /\ tot[l + 1] = n /\ \A k \in 1 .. l + 1 : tot[k] = tot[k - 1] + s[p[k]]
  BY DEF AddUp
<1>2. \A k \in 1 .. l : p[k] \in Heads
  <2>1. \A k \in 1 .. l : k \in 1 .. Len(p)
    OBVIOUS
  <2> QED
    BY <2>1, ElementOfSeq
<1>3. PICK q : q = SubSeq(p, 1, l)
  OBVIOUS
<1>4. q \in Seq(Heads) /\ Len(q) = l /\ \A k \in 1 .. l : q[k] = p[k]
  <2>1. /\ q \in Seq(Heads) /\ Len(q) = IF 1 <= l THEN l - 1 + 1 ELSE 0
        /\ \A k \in 1 .. l - 1 + 1 : q[k] = p[1 + k - 1]
    BY <1>2, <1>3, SubSeqProperties, 1 \in Int, l \in Int
  <2> QED
    BY <2>1
<1> DEFINE new == [k \in 0 .. l |-> IF k = l THEN n ELSE tot[k]]
<1>5. new \in [0 .. l -> Nat] /\ new[0] = 0 /\ new[l] = n
  <2>1. \A k \in 0 .. l : k \in 0 .. l + 1 /\ tot[k] \in Nat
    <3>1. tot \in [0 .. l + 1 -> Nat]
      BY <1>1
    <3>2. \A k \in 0 .. l : k \in 0 .. l + 1
      OBVIOUS
    <3> QED
      BY <3>1, <3>2
  <2>2. 0 \in 0 .. l /\ l \in 0 .. l /\ 0 # l
    OBVIOUS
  <2> QED
    BY <1>1, <2>1, <2>2
<1>6. ASSUME NEW k \in 1 .. l PROVE new[k] = new[k - 1] + t[q[k]]
  <2>1. k \in 1 .. Len(p) /\ l \in 1 .. l + 1 /\ k \in 1 .. l + 1 /\ l + 1 \in 1 .. Len(p)
    OBVIOUS
  <2>2. p[k] \in Heads /\ p[l + 1] \in Heads
    BY <2>1, ElementOfSeq
  <2>3. /\ k - 1 \in 0 .. l /\ k - 1 # l /\ s[p[k]] \in Nat /\ s[p[l + 1]] \in Nat
        /\ tot[k - 1] \in Nat /\ tot[k] = tot[k - 1] + s[p[k]] /\ tot[k] \in Nat
        /\ q[k] = p[k]
    BY <1>1, <1>4, <2>2
  <2>4. CASE k = l
    <3>1. tot[l + 1] = tot[l] + s[p[l + 1]]
      BY <1>1
    <3>2. n = tot[k - 1] + (s[p[k]] + s[p[l + 1]])
      BY <1>1, <2>3, <2>4, <3>1
    <3> QED
      BY <2>3, <2>4, <3>2
  <2>5. CASE k # l
    <3>1. p[k] # p[l]
      BY <2>1, <2>5
    <3>2. t[p[k]] = s[p[k]]
      BY <2>2, <3>1
    <3> QED
      BY <2>3, <2>5, <3>2
  <2> QED
    BY <2>4, <2>5
<1> HIDE DEF new
<1> QED
  <2>1. Len(q) = l
    BY <1>4
  <2>2. AddUp(t, q, n)
    BY <1>5, <1>6, <2>1 DEF AddUp
  <2> QED
    BY <1>3, <2>2

\* An entry is a place more.
LEMMA PlacesEntry ==
  ASSUME NEW l \in Lists, NEW m \in Lists, NEW h \in Heads,
         NEW n \in Node, Grows(l, m, h, n), NEW S
  PROVE  /\ <<h, Len(l[h]) + 1>> \notin PlacesIn(l, S)
         /\ \A x : x \in PlacesIn(m, S) <=>
                    x \in PlacesIn(l, S) \/ (n \in S /\ x = <<h, Len(l[h]) + 1>>)
<1> USE DEF Lists, Counts
<1> m[h] = Append(l[h], n) /\ \A d \in Heads : d # h => m[d] = l[d]
  BY DEF Grows
<1>1. PICK z \in Nat : z = Len(l[h]) /\ DOMAIN l[h] = 1 .. z
  BY LenProperties
<1>2. DOMAIN m[h] = 1 .. z + 1 /\ m[h][z + 1] = n /\ \A k \in 1 .. z : m[h][k] = l[h][k]
  <2>1. Append(l[h], n) \in Seq(Node) /\ Len(Append(l[h], n)) = z + 1
    BY <1>1, AppendProperties
  <2>2. DOMAIN m[h] = 1 .. z + 1
    BY <2>1, LenProperties
  <2> QED
    BY <1>1, <2>2, AppendProperties
<1>3. \A k : k \in 1 .. z + 1 <=> (k \in 1 .. z \/ k = z + 1)
  BY <1>1
<1>4. \A x : x \in PlacesIn(l, S)
               <=> \E d \in Heads : \E k \in DOMAIN l[d] : l[d][k] \in S /\ x = <<d, k>>
  BY DEF PlacesIn
<1>5. \A x : x \in PlacesIn(m, S)
               <=> \E d \in Heads : \E k \in DOMAIN m[d] : m[d][k] \in S /\ x = <<d, k>>
  BY DEF PlacesIn
<1>6. <<h, z + 1>> \notin PlacesIn(l, S)
  <2> SUFFICES ASSUME NEW d \in Heads, NEW k \in DOMAIN l[d], <<h, z + 1>> = <<d, k>> PROVE FALSE
    BY <1>4
  <2>1. k \in 1 .. z /\ k = z + 1
    BY <1>1
  <2> QED
    BY <1>1, <2>1
<1>7. ASSUME NEW d \in Heads, NEW k \in DOMAIN m[d], m[d][k] \in S
      PROVE  <<d, k>> \in PlacesIn(l, S) \/ (n \in S /\ <<d, k>> = <<h, z + 1>>)
  <2>1. CASE d = h
    BY <1>1, <1>2, <1>3, <1>4, <1>7, <2>1
  <2>2. CASE d # h
    BY <1>4, <1>7, <2>2
  <2> QED
    BY <2>1, <2>2
<1>8. ASSUME NEW d \in Heads, NEW k \in DOMAIN l[d], l[d][k] \in S
      PROVE  <<d, k>> \in PlacesIn(m, S)
  <2>1. CASE d = h
    BY <1>1, <1>2, <1>3, <1>5, <1>8, <2>1
  <2>2. CASE d # h
    BY <1>5, <1>8, <2>2
  <2> QED
    BY <2>1, <2>2
<1>9. n \in S => <<h, z + 1>> \in PlacesIn(m, S)
  BY <1>2, <1>3, <1>5
<1>10. \A x : x \in PlacesIn(m, S) <=> x \in PlacesIn(l, S) \/ (n \in S /\ x = <<h, z + 1>>)
  BY <1>4, <1>5, <1>7, <1>8, <1>9
<1> QED
  BY <1>1, <1>6, <1>10

\* A place more to count, or none.
LEMMA PlacesAppend ==
  ASSUME NEW l \in Lists, NEW m \in Lists, NEW h \in Heads,
         NEW n \in Node, Grows(l, m, h, n),
         NEW S, NEW a \in {0, 1}, a = 1 <=> n \in S, IsFiniteSet(PlacesIn(l, S))
  PROVE  /\ IsFiniteSet(PlacesIn(m, S))
         /\ Cardinality(PlacesIn(m, S)) = Cardinality(PlacesIn(l, S)) + a
<1>1. PICK x : /\ x \notin PlacesIn(l, S)
               /\ \A y : y \in PlacesIn(m, S) <=> y \in PlacesIn(l, S) \/ (n \in S /\ y = x)
  <2>1. PICK x : x = <<h, Len(l[h]) + 1>>
    OBVIOUS
  <2>2. x \notin PlacesIn(l, S)
    BY <2>1, PlacesEntry, Zenon
  <2>3. \A y : y \in PlacesIn(m, S) <=> y \in PlacesIn(l, S) \/ (n \in S /\ y = x)
    BY <2>1, PlacesEntry
  <2> QED
    BY <2>2, <2>3
<1>2. CASE n \in S
  <2>1. PlacesIn(m, S) = PlacesIn(l, S) \cup {x}
    BY <1>1, <1>2
  <2> QED
    BY <1>1, <1>2, <2>1, FS_AddElement
<1>3. CASE n \notin S
  <2>1. PlacesIn(m, S) = PlacesIn(l, S)
    BY <1>1, <1>3
  <2>2. Cardinality(PlacesIn(l, S)) \in Nat
    BY FS_CardinalityType
  <2> QED
    BY <1>3, <2>1, <2>2
<1> QED
  BY <1>2, <1>3

LEMMA AppendSome == \A q \in Seq(Node) : \A n \in Node : Append(q, n) # <<>>
BY AppendProperties

\* appendElement: the count of the list grows with it.
LEMMA TallyAppend ==
  ASSUME NEW l \in Lists, NEW m \in Lists,
         NEW s \in Counts, NEW t \in Counts,
         NEW p \in Seq(Heads), NEW j \in Nat \ {0}, j = Len(p),
         \A i, k \in 1 .. j : p[i] = p[k] => i = k,
         NEW h \in Heads, h = p[j], NEW n \in Node, Grows(l, m, h, n),
         \A d \in Heads : d # h => l[d] = <<>> \/ t[d] = s[d],
         NEW S, NEW a \in {0, 1}, a = 1 <=> n \in S,
         t[h] = (IF l[h] = <<>> THEN 0 ELSE s[h]) + a,
         Tally(l, s, p, S)
  PROVE  Tally(m, t, p, S)
<1>1. /\ IsFiniteSet(PlacesIn(l, S)) /\ IsFiniteSet(PlacesIn(m, S))
      /\ Cardinality(PlacesIn(m, S)) = Cardinality(PlacesIn(l, S)) + a
  <2>1. IsFiniteSet(PlacesIn(l, S))
    BY DEF Tally
  <2> QED
    BY <2>1, PlacesAppend
<1>2. Cardinality(PlacesIn(l, S)) \in Nat
  BY <1>1, FS_CardinalityType
<1>3. Live(l, s) \in Counts /\ Live(m, t) \in Counts
  BY DEF Live, Lists, Counts
<1>4. m[h] # <<>>
  BY AppendSome DEF Grows, Lists
<1>5. /\ Live(m, t)[h] = Live(l, s)[h] + a
      /\ \A d \in Heads : d # h => Live(m, t)[d] = Live(l, s)[d]
  BY <1>4 DEF Live, Grows, Lists, Counts
<1>6. AddUp(Live(l, s), p, Cardinality(PlacesIn(l, S)))
  BY DEF Tally
<1>7. AddUp(Live(m, t), p, Cardinality(PlacesIn(l, S)) + a)
  <2>1. PICK u \in Counts, v \in Counts : u = Live(l, s) /\ v = Live(m, t)
    BY <1>3
  <2>2. PICK c \in Nat : c = Cardinality(PlacesIn(l, S))
    BY <1>2
  <2>3. /\ AddUp(u, p, c) /\ v[p[j]] = u[p[j]] + a
        /\ \A d \in Heads : d # p[j] => v[d] = u[d]
    BY <1>5, <1>6, <2>1, <2>2
  <2>4. AddUp(v, p, c + a)
    BY <2>3, AddUpMore
  <2> QED
    BY <2>1, <2>2, <2>4
<1> QED
  BY <1>1, <1>7 DEF Tally

\* The return from a directory: its count goes to the one above.
LEMMA TallyLeave ==
  ASSUME NEW l \in Lists, NEW s \in Counts, NEW t \in Counts,
         NEW p \in Seq(Heads), NEW j \in Nat \ {0}, j + 1 = Len(p),
         \A i, k \in 1 .. j + 1 : p[i] = p[k] => i = k,
         l[p[j]] # <<>>, l[p[j + 1]] = <<>> => s[p[j + 1]] = 0,
         t[p[j]] = s[p[j]] + s[p[j + 1]], \A d \in Heads : d # p[j] => t[d] = s[d],
         NEW S, Tally(l, s, p, S)
  PROVE  Tally(l, t, SubSeq(p, 1, j), S)
<1> USE DEF Lists, Counts
<1>1. Cardinality(PlacesIn(l, S)) \in Nat
  BY FS_CardinalityType DEF Tally
<1>2. Live(l, s) \in Counts /\ Live(l, t) \in Counts
  BY DEF Live
<1>3. p[j] \in Heads /\ p[j + 1] \in Heads
  <2>1. j \in 1 .. Len(p) /\ j + 1 \in 1 .. Len(p)
    OBVIOUS
  <2> QED
    BY <2>1, ElementOfSeq
<1>4. /\ Live(l, t)[p[j]] = Live(l, s)[p[j]] + Live(l, s)[p[j + 1]]
      /\ \A d \in Heads : d # p[j] => Live(l, t)[d] = Live(l, s)[d]
  BY <1>3 DEF Live
<1>5. AddUp(Live(l, t), SubSeq(p, 1, j), Cardinality(PlacesIn(l, S)))
  BY <1>1, <1>2, <1>4, AddUpLeave DEF Tally
<1> QED
  BY <1>5 DEF Tally

\* What the invariant says of a process in its recursion.
LEMMA Recursion ==
  ASSUME Inv, pc = "scanning"
  PROVE  \E h \in Heads, j \in Nat \ {0} :
           /\ h = Here /\ j = Len(path) /\ h = path[j] /\ OnPath(h)
           /\ list \in Lists
           /\ sumFiles \in Counts /\ sumDirs \in Counts
           /\ path \in Seq(Heads) /\ \A i, k \in 1 .. j : path[i] = path[k] => i = k
<1> USE DEF Lists, Counts
<1>1. Len(path) \in Nat \ {0} /\ Here \in Heads /\ Len(path) \in 1 .. Len(path)
  BY HereType DEF Inv, TypeOK
<1> QED
  BY <1>1 DEF Here, OnPath, Leads, Inv, TypeOK, HeadType, ReadType

LEMMA InitCounted == Init => Counted
BY DEF Init, Counted, CountsOfList

\* No count is of interest before or after the turn.
LEMMA OutsideCounted == pc' \in {"top", "exited"} => Counted'
BY DEF Counted, CountsOfList

\* szBase alone is on the path and nothing is listed.
LEMMA StartCounted == Inv /\ StartScan => Counted'
<1> USE DEF Lists, Counts
<1> SUFFICES ASSUME Inv, StartScan, Open(Root, <<>>, seen), pc' = "scanning", list[Root] = <<>>
             PROVE  Counted'
  BY OutsideCounted DEF StartScan, Exit, ScanFails
<1>1. /\ path' = <<Root>> /\ list' = list /\ sumFiles' = sumFiles /\ sumDirs' = sumDirs
      /\ \A d \in Heads : list[d] = <<>>
      /\ sumFiles \in Counts /\ sumDirs \in Counts /\ Root \in Heads
  BY DEF StartScan, Open, headVars, Inv, Destroyed, TypeOK, HeadType, Heads
<1>2. Entered'
  BY <1>1 DEF Entered
<1>3. Once'
  <2>1. \A d \in Dir : d \in Heads /\ d # Root /\ Parent[d] \in Heads
    BY NamesAssumption DEF Heads, Node
  <2>2. \A d \in Heads : Listed(d)' = {} /\ list'[d] = <<>>
    BY <1>1 DEF Listed
  <2>3. \A d : OnPath(d)' => d = Root
    BY <1>1 DEF OnPath
  <2> QED
    BY <2>1, <2>2, <2>3 DEF Once
<1>4. ASSUME NEW S, NEW s \in Counts PROVE Tally(list, s, <<Root>>, S)
  <2>1. PlacesIn(list, S) = {}
    BY <1>1 DEF PlacesIn
  <2>2. IsFiniteSet(PlacesIn(list, S)) /\ Cardinality(PlacesIn(list, S)) = 0
    BY <2>1, FS_EmptySet
  <2>3. Live(list, s) \in Counts /\ Live(list, s)[Root] = 0
    BY <1>1 DEF Live
  <2>4. AddUp(Live(list, s), <<Root>>, 0)
    BY <1>1, <2>3, AddUpOne
  <2> QED
    BY <2>2, <2>4 DEF Tally
<1>5. Tallied'
  BY <1>1, <1>4 DEF Tallied
<1> QED
  BY <1>2, <1>3, <1>5 DEF Counted, CountsOfList

LEMMA ReadFileCounted ==
  ASSUME Inv, Counted, NEW f \in File, ReadFile(f)
  PROVE  Counted'
<1> USE DEF Lists, Counts
<1>0. pc = "scanning" /\ pc' = pc /\ path' = path /\ f \in Node /\ f \notin Dir
  BY NamesAssumption DEF ReadFile, Returned, mainVars, Node
<1>1. PICK h \in Heads, j \in Nat \ {0} :
        /\ h = Here /\ j = Len(path) /\ h = path[j] /\ OnPath(h)
        /\ list \in Lists
        /\ sumFiles \in Counts /\ sumDirs \in Counts
        /\ path \in Seq(Heads) /\ \A i, k \in 1 .. j : path[i] = path[k] => i = k
  BY <1>0, Recursion
<1>2. list' \in Lists /\ sumFiles' \in Counts /\ sumDirs' \in Counts
  BY StepType DEF Next, Scan, TypeOK, HeadType
<1>3. /\ list'[h] = Append(list[h], f)
      /\ sumFiles'[h] = (IF list[h] = <<>> THEN 0 ELSE sumFiles[h]) + 1
      /\ sumDirs'[h] = (IF list[h] = <<>> THEN 0 ELSE sumDirs[h]) + 0
      /\ \A d \in Heads : d # h => list'[d] = list[d] /\ sumFiles'[d] = sumFiles[d]
                                   /\ sumDirs'[d] = sumDirs[d]
  BY <1>1 DEF ReadFile, Count
<1>4. list'[h] # <<>>
  BY <1>0, <1>1, <1>3, AppendSome
<1>5. Entered'
  <2>1. \A k \in 1 .. Len(path) : path[k] \in Heads
    BY <1>1, ElementOfSeq
  <2>2. Entered
    BY <1>0 DEF Counted
  <2>3. \A k \in 1 .. Len(path) - 1 : k \in 1 .. Len(path)
    BY <1>1
  <2>4. \A k \in 2 .. Len(path) : k \in 1 .. Len(path)
    BY <1>1
  <2> QED
    BY <1>0, <1>3, <1>4, <2>1, <2>2, <2>3, <2>4 DEF Entered
<1>6. Once'
  <2> SUFFICES ASSUME NEW d \in Dir
               PROVE  /\ list'[d] # <<>> \/ OnPath(d) => d \in Listed(Parent[d])'
                      /\ d \in Listed(Parent[d])' /\ OnPath(Parent[d]) => d \in seen'[Parent[d]]
    BY <1>0 DEF Once, OnPath
  <2>1. PICK p \in Heads : p = Parent[d]
    BY NamesAssumption DEF Node
  <2>2. Listed(h)' = Listed(h) \cup {f}
    <3>1. HeadType /\ f \in Node
      BY <1>0 DEF Inv, TypeOK
    <3>2. PICK l : l = list'[h] /\ l = Append(list[h], f)
      BY <1>3
    <3>3. {l[k] : k \in DOMAIN l} = Listed(h) \cup {f}
      BY <3>1, <3>2, ListedAppend
    <3> QED
      BY <3>2, <3>3 DEF Listed
  <2>3. d \in Listed(p)' <=> d \in Listed(p)
    <3>1. CASE p = h
      BY <1>0, <2>2, <3>1
    <3>2. CASE p # h
      BY <1>3, <3>2 DEF Listed
    <3> QED
      BY <3>1, <3>2
  <2>4. seen[p] \subseteq seen'[p]
    BY DEF ReadFile, Inv, TypeOK, ReadType
  <2>5. /\ list[d] # <<>> \/ OnPath(d) => d \in Listed(p)
        /\ d \in Listed(p) /\ OnPath(p) => d \in seen[p]
    BY <1>0, <2>1 DEF Counted, Once
  <2>6. list'[d] # <<>> => list[d] # <<>> \/ OnPath(d)
    BY <1>1, <1>3 DEF Heads
  <2> QED
    BY <2>1, <2>3, <2>4, <2>5, <2>6
<1>7. Tallied'
  <2>1. Tally(list, sumFiles, path, File) /\ Tally(list, sumDirs, path, Dir)
    BY <1>0 DEF Counted, Tallied
  <2>2. PICK l \in Lists, m \in Lists, p \in Seq(Heads) :
          l = list /\ m = list' /\ p = path
    BY <1>1, <1>2
  <2>3. /\ j = Len(p) /\ h = p[j] /\ \A i, k \in 1 .. j : p[i] = p[k] => i = k
        /\ Grows(l, m, h, f)
    BY <1>1, <1>3, <2>2 DEF Grows
  <2>4. ASSUME NEW S, NEW a \in {0, 1}, a = 1 <=> f \in S,
               NEW s \in Counts, NEW t \in Counts,
               t[h] = (IF l[h] = <<>> THEN 0 ELSE s[h]) + a,
               \A d \in Heads : d # h => t[d] = s[d], Tally(l, s, p, S)
        PROVE  Tally(m, t, p, S)
    BY <1>0, <2>3, <2>4, TallyAppend
  <2> HIDE DEF Lists, Counts
  <2>5. Tally(m, sumFiles', p, File)
    <3>1. /\ sumFiles'[h] = (IF l[h] = <<>> THEN 0 ELSE sumFiles[h]) + 1
          /\ \A d \in Heads : d # h => sumFiles'[d] = sumFiles[d]
          /\ Tally(l, sumFiles, p, File)
      BY <1>3, <2>1, <2>2
    <3> QED
      BY <1>1, <1>2, <2>4, <3>1
  <2>6. Tally(m, sumDirs', p, Dir)
    <3>1. /\ sumDirs'[h] = (IF l[h] = <<>> THEN 0 ELSE sumDirs[h]) + 0
          /\ \A d \in Heads : d # h => sumDirs'[d] = sumDirs[d]
          /\ Tally(l, sumDirs, p, Dir)
      BY <1>3, <2>1, <2>2
    <3> QED
      BY <1>0, <1>1, <1>2, <2>4, <3>1
  <2> QED
    BY <1>0, <2>2, <2>5, <2>6 DEF Tallied
<1> QED
  BY <1>0, <1>5, <1>6, <1>7 DEF Counted, CountsOfList

\* One level deeper: the directory found had no list, since it was not listed.
LEMMA ReadDirCounted ==
  ASSUME Inv, Counted, NEW e \in Dir, ReadDir(e)
  PROVE  Counted'
<1> USE DEF Lists, Counts
<1> SUFFICES ASSUME UNCHANGED pc, Open(e, path, [seen EXCEPT ![Here] = @ \cup {e}])
             PROVE  Counted'
  BY ScanFailsType, OutsideCounted DEF ReadDir, Inv
<1>0. /\ pc = "scanning" /\ pc' = pc /\ e \in Node /\ e \in Heads /\ e \notin File /\ e # Root
      /\ Entered /\ Once /\ Tallied
  BY NamesAssumption DEF ReadDir, Returned, Node, Heads, Counted
<1>1. PICK h \in Heads, j \in Nat \ {0} :
        /\ h = Here /\ j = Len(path) /\ h = path[j] /\ OnPath(h)
        /\ list \in Lists
        /\ sumFiles \in Counts /\ sumDirs \in Counts
        /\ path \in Seq(Heads) /\ \A i, k \in 1 .. j : path[i] = path[k] => i = k
  BY <1>0, Recursion
<1>2. list' \in Lists /\ sumFiles' \in Counts /\ sumDirs' \in Counts
  BY StepType DEF Next, Scan, TypeOK, HeadType
<1>3. ~OnPath(e) /\ e # h /\ Parent[e] = h /\ e \notin seen[h]
  BY <1>0, <1>1, NotOnPath DEF ReadDir, Returned
<1>4. e \notin Listed(h) /\ list[e] = <<>>
  BY <1>0, <1>1, <1>3 DEF Once
<1>5. /\ list'[h] = Append(list[h], e) /\ list'[e] = <<>>
      /\ sumFiles'[h] = (IF list[h] = <<>> THEN 0 ELSE sumFiles[h]) + 0 /\ sumFiles'[e] = 0
      /\ sumDirs'[h] = (IF list[h] = <<>> THEN 0 ELSE sumDirs[h]) + 1 /\ sumDirs'[e] = 0
      /\ \A d \in Heads : d \notin {h, e} => list'[d] = list[d] /\ sumFiles'[d] = sumFiles[d]
                                             /\ sumDirs'[d] = sumDirs[d]
  BY <1>0, <1>1, <1>3 DEF ReadDir, Count
<1>6. list'[h] # <<>> /\ \A d \in Heads : list[d] # <<>> => list'[d] # <<>>
  <2>1. list'[h] # <<>>
    <3>1. list[h] \in Seq(Node)
      BY <1>1
    <3> QED
      BY <1>0, <1>5, <3>1, AppendSome
  <2> QED
    BY <1>4, <1>5, <2>1
<1>7. /\ path' = Append(path, e) /\ Len(path') = j + 1 /\ path'[j + 1] = e
      /\ \A k \in 1 .. j : path'[k] = path[k] /\ path[k] \in Heads
  BY <1>0, <1>1, AppendProperties, ElementOfSeq DEF Open
<1>8. seen'[e] = {} /\ seen'[h] = seen[h] \cup {e}
      /\ \A d \in Heads : d \notin {h, e} => seen'[d] = seen[d]
  BY <1>0, <1>1, <1>3 DEF Open, Inv, TypeOK, ReadType
<1>9. \A d : OnPath(d)' <=> OnPath(d) \/ d = e
  <2>1. \A k : k \in 1 .. Len(path') <=> k \in 1 .. Len(path) \/ k = j + 1
    BY <1>1, <1>7
  <2> QED
    BY <1>1, <1>7, <2>1 DEF OnPath
<1>10. Entered'
  <2>1. ASSUME NEW k \in 1 .. Len(path') - 1 PROVE list'[path'[k]] # <<>>
    <3>1. k \in 1 .. j /\ path'[k] = path[k] /\ path[k] \in Heads /\ (k # j => k \in 1 .. Len(path) - 1)
      BY <1>1, <1>7
    <3> QED
      BY <1>0, <1>1, <1>6, <3>1 DEF Entered
  <2>2. ASSUME NEW k \in 2 .. Len(path'), list'[path'[k]] = <<>>
        PROVE  sumFiles'[path'[k]] = 0 /\ sumDirs'[path'[k]] = 0
    <3>1. CASE k = j + 1
      BY <1>5, <1>7, <3>1
    <3>2. CASE k # j + 1
      <4>1. k \in 1 .. j /\ k \in 2 .. Len(path) /\ path'[k] = path[k] /\ path[k] \in Heads
        BY <1>1, <1>7, <3>2
      <4>2. path[k] # e /\ path[k] # h
        BY <1>1, <1>3, <1>6, <2>2, <4>1 DEF OnPath
      <4> QED
        BY <1>0, <1>5, <2>2, <4>1, <4>2 DEF Entered
    <3> QED
      BY <3>1, <3>2
  <2> QED
    BY <2>1, <2>2 DEF Entered
<1>11. Once'
  <2> SUFFICES ASSUME NEW d \in Dir
               PROVE  /\ list'[d] # <<>> \/ OnPath(d)' => d \in Listed(Parent[d])'
                      /\ d \in Listed(Parent[d])' /\ OnPath(Parent[d])' => d \in seen'[Parent[d]]
    BY DEF Once
  <2>1. PICK p \in Heads : p = Parent[d]
    BY NamesAssumption DEF Node
  <2>2. Listed(h)' = Listed(h) \cup {e} /\ Listed(e)' = {}
    <3>1. HeadType /\ e \in Node
      BY <1>0 DEF Inv, TypeOK
    <3>2. PICK l : l = list'[h] /\ l = Append(list[h], e)
      BY <1>5
    <3>3. {l[k] : k \in DOMAIN l} = Listed(h) \cup {e}
      BY <3>1, <3>2, ListedAppend
    <3> QED
      BY <1>5, <3>2, <3>3 DEF Listed
  <2>3. Listed(e) = {} /\ \A c \in Heads : c \notin {h, e} => Listed(c)' = Listed(c)
    BY <1>4, <1>5 DEF Listed
  <2>4. /\ list[d] # <<>> \/ OnPath(d) => d \in Listed(p)
        /\ d \in Listed(p) /\ OnPath(p) => d \in seen[p]
    BY <1>0, <2>1 DEF Once
  <2>5. CASE d = e
    BY <1>1, <1>3, <1>8, <2>1, <2>2, <2>5
  <2>6. CASE d # e
    <3>1. d \in Listed(p)' <=> d \in Listed(p)
      BY <2>2, <2>3, <2>6
    <3>2. list'[d] # <<>> \/ OnPath(d)' => list[d] # <<>> \/ OnPath(d)
      BY <1>1, <1>5, <1>9, <2>6 DEF Heads
    <3>3. d \in Listed(p)' /\ OnPath(p)' => d \in seen'[p]
      BY <1>8, <1>9, <2>2, <2>4, <3>1
    <3> QED
      BY <2>1, <2>4, <3>1, <3>2, <3>3
  <2> QED
    BY <2>5, <2>6
<1>12. Tallied'
  <2>1. PICK l \in Lists, m \in Lists, p \in Seq(Heads) : l = list /\ m = list' /\ p = path
    BY <1>1, <1>2
  <2>2. /\ j = Len(p) /\ h = p[j] /\ \A i, k \in 1 .. j : p[i] = p[k] => i = k
        /\ Grows(l, m, h, e) /\ m[e] = <<>>
    BY <1>1, <1>4, <1>5, <2>1 DEF Grows
  <2>3. ASSUME NEW S, NEW a \in {0, 1}, a = 1 <=> e \in S, NEW s \in Counts, NEW t \in Counts,
               t[h] = (IF l[h] = <<>> THEN 0 ELSE s[h]) + a,
               \A d \in Heads : d # h => l[d] = <<>> \/ t[d] = s[d], Tally(l, s, p, S)
        PROVE  Tally(m, t, Append(p, e), S)
    <3>1. Tally(m, t, p, S)
      BY <1>0, <2>2, <2>3, TallyAppend
    <3>2. Cardinality(PlacesIn(m, S)) \in Nat
      BY <3>1, FS_CardinalityType DEF Tally
    <3>3. Live(m, t) \in Counts /\ Live(m, t)[e] = 0
      BY <1>0, <2>2 DEF Live
    <3>4. AddUp(Live(m, t), p, Cardinality(PlacesIn(m, S)))
      BY <3>1 DEF Tally
    <3>5. AddUp(Live(m, t), Append(p, e), Cardinality(PlacesIn(m, S)))
      BY <1>0, <2>2, <3>2, <3>3, <3>4, AddUpEnter
    <3> QED
      BY <3>1, <3>5 DEF Tally
  <2> HIDE DEF Lists, Counts
  <2>4. Tally(m, sumFiles', Append(p, e), File)
    <3>1. /\ sumFiles'[h] = (IF l[h] = <<>> THEN 0 ELSE sumFiles[h]) + 0
          /\ \A d \in Heads : d # h => l[d] = <<>> \/ sumFiles'[d] = sumFiles[d]
          /\ Tally(l, sumFiles, p, File)
      BY <1>0, <1>4, <1>5, <2>1 DEF Tallied
    <3> QED
      BY <1>0, <1>1, <1>2, <2>3, <3>1
  <2>5. Tally(m, sumDirs', Append(p, e), Dir)
    <3>1. /\ sumDirs'[h] = (IF l[h] = <<>> THEN 0 ELSE sumDirs[h]) + 1
          /\ \A d \in Heads : d # h => l[d] = <<>> \/ sumDirs'[d] = sumDirs[d]
          /\ Tally(l, sumDirs, p, Dir)
      BY <1>0, <1>4, <1>5, <2>1 DEF Tallied
    <3> QED
      BY <1>1, <1>2, <2>3, <3>1
  <2> QED
    BY <1>7, <2>1, <2>4, <2>5 DEF Tallied
<1> QED
  BY <1>0, <1>10, <1>11, <1>12 DEF Counted, CountsOfList

\* One level up, with the counts.
LEMMA EndDirCounted ==
  ASSUME Inv, Counted, EndDir
  PROVE  Counted'
<1> USE DEF Lists, Counts
<1>0. pc = "scanning" /\ pc' = pc /\ list' = list /\ Len(path) > 1 /\ Entered /\ Once /\ Tallied
  BY DEF EndDir, Exhausted, Counted, mainVars
<1>1. PICK h \in Heads, z \in Nat \ {0} :
        /\ h = Here /\ z = Len(path) /\ h = path[z] /\ OnPath(h)
        /\ list \in Lists
        /\ sumFiles \in Counts /\ sumDirs \in Counts
        /\ path \in Seq(Heads) /\ \A i, k \in 1 .. z : path[i] = path[k] => i = k
  BY <1>0, Recursion
<1>2. PICK j \in Nat \ {0} : z = j + 1 /\ j = Len(path) - 1
  <2>1. z > 1
    BY <1>0, <1>1
  <2>2. z - 1 \in Nat \ {0} /\ z = z - 1 + 1
    BY <2>1
  <2> QED
    BY <1>1, <2>2
<1>3. PICK u \in Heads : u = path[j] /\ u # h /\ list[u] # <<>>
  <2>1. j \in 1 .. Len(path) /\ j \in 1 .. Len(path) - 1 /\ z \in 1 .. z /\ j \in 1 .. z /\ j # z
    BY <1>1, <1>2
  <2> QED
    BY <1>0, <1>1, <2>1, ElementOfSeq DEF Entered
<1>4. list[h] = <<>> => sumFiles[h] = 0 /\ sumDirs[h] = 0
  <2>1. z \in 2 .. Len(path)
    BY <1>1, <1>2
  <2> QED
    BY <1>0, <1>1, <2>1 DEF Entered
<1>5. /\ sumFiles'[u] = sumFiles[u] + sumFiles[h] /\ sumDirs'[u] = sumDirs[u] + sumDirs[h]
      /\ \A d \in Heads : d # u => sumFiles'[d] = sumFiles[d] /\ sumDirs'[d] = sumDirs[d]
      /\ sumFiles' \in Counts /\ sumDirs' \in Counts
  <2>1. sumFiles' \in Counts /\ sumDirs' \in Counts
    BY StepType DEF Next, Scan, TypeOK, HeadType
  <2> QED
    BY <1>1, <1>2, <1>3, <2>1 DEF EndDir
<1>6. /\ path' = SubSeq(path, 1, j) /\ Len(path') = j
      /\ \A k \in 1 .. j : path'[k] = path[k] /\ k \in 1 .. Len(path) /\ path[k] \in Heads
  <2>1. path' = SubSeq(path, 1, j)
    BY <1>2 DEF EndDir, Closed
  <2>2. \A k \in 1 .. j : k \in 1 .. Len(path)
    BY <1>1, <1>2
  <2>3. \A k \in 1 .. j : path[k] \in Heads
    BY <1>1, <2>2, ElementOfSeq
  <2>4. Len(path') = (IF 1 <= j THEN j - 1 + 1 ELSE 0) /\ \A k \in 1 .. j - 1 + 1 : path'[k] = path[1 + k - 1]
    BY <2>1, <2>3, SubSeqProperties, 1 \in Int, j \in Int
  <2> QED
    BY <2>1, <2>2, <2>3, <2>4
<1>7. \A d : OnPath(d)' => OnPath(d) /\ d # h
  <2> SUFFICES ASSUME NEW k \in 1 .. Len(path') PROVE OnPath(path'[k]) /\ path'[k] # h
    BY DEF OnPath
  <2>1. k \in 1 .. j
    BY <1>6
  <2>2. k \in 1 .. z /\ z \in 1 .. z /\ k # z
    BY <1>2, <2>1
  <2> QED
    BY <1>1, <1>6, <2>1, <2>2 DEF OnPath
<1>8. Entered'
  <2>1. ASSUME NEW k \in 1 .. Len(path') - 1 PROVE list'[path'[k]] # <<>>
    <3>1. k \in 1 .. j /\ k \in 1 .. Len(path) - 1
      BY <1>2, <1>6
    <3> QED
      BY <1>0, <1>6, <3>1 DEF Entered
  <2>2. ASSUME NEW k \in 2 .. Len(path'), list'[path'[k]] = <<>>
        PROVE  sumFiles'[path'[k]] = 0 /\ sumDirs'[path'[k]] = 0
    <3>1. k \in 1 .. j /\ k \in 2 .. Len(path)
      BY <1>2, <1>6
    <3>2. path'[k] = path[k] /\ path[k] \in Heads /\ list[path[k]] = <<>>
      BY <1>0, <1>6, <2>2, <3>1
    <3>3. path[k] # u
      BY <1>3, <3>2
    <3>4. sumFiles[path[k]] = 0 /\ sumDirs[path[k]] = 0
      BY <1>0, <3>1, <3>2 DEF Entered
    <3> QED
      BY <1>5, <3>2, <3>3, <3>4
  <2> QED
    BY <2>1, <2>2 DEF Entered
<1>9. Once'
  <2>1. \A d \in Heads : Listed(d)' = Listed(d)
    BY <1>0 DEF Listed
  <2>2. \A d \in Heads : d # h => seen'[d] = seen[d]
    BY <1>1 DEF EndDir, Closed, Inv, TypeOK, ReadType
  <2>3. \A d \in Dir : Parent[d] \in Heads
    BY NamesAssumption DEF Node
  <2> QED
    BY <1>0, <1>7, <2>1, <2>2, <2>3 DEF Once
<1>10. Tallied'
  <2>1. PICK l \in Lists, p \in Seq(Heads) : l = list /\ p = path
    BY <1>1
  <2>2. /\ j + 1 = Len(p) /\ \A i, k \in 1 .. j + 1 : p[i] = p[k] => i = k
        /\ u = p[j] /\ h = p[j + 1] /\ l[p[j]] # <<>>
    BY <1>1, <1>2, <1>3, <2>1
  <2>3. Tally(l, sumFiles', SubSeq(p, 1, j), File)
    <3>1. /\ sumFiles'[p[j]] = sumFiles[p[j]] + sumFiles[p[j + 1]]
          /\ \A d \in Heads : d # p[j] => sumFiles'[d] = sumFiles[d]
          /\ l[p[j + 1]] = <<>> => sumFiles[p[j + 1]] = 0
          /\ Tally(l, sumFiles, p, File)
      BY <1>0, <1>4, <1>5, <2>1, <2>2 DEF Tallied
    <3> QED
      BY <1>1, <1>5, <2>2, <3>1, TallyLeave
  <2>4. Tally(l, sumDirs', SubSeq(p, 1, j), Dir)
    <3>1. /\ sumDirs'[p[j]] = sumDirs[p[j]] + sumDirs[p[j + 1]]
          /\ \A d \in Heads : d # p[j] => sumDirs'[d] = sumDirs[d]
          /\ l[p[j + 1]] = <<>> => sumDirs[p[j + 1]] = 0
          /\ Tally(l, sumDirs, p, Dir)
      BY <1>0, <1>4, <1>5, <2>1, <2>2 DEF Tallied
    <3> QED
      BY <1>1, <1>5, <2>2, <3>1, TallyLeave
  <2> QED
    BY <1>0, <1>6, <2>1, <2>3, <2>4 DEF Tallied
<1> QED
  BY <1>0, <1>8, <1>9, <1>10 DEF Counted, CountsOfList

\* The scan is over: szBase has the whole sum.
LEMMA EndScanCounted ==
  ASSUME Inv, Counted, EndScan
  PROVE  Counted'
<1> USE DEF Lists, Counts
<1>0. pc = "scanning" /\ Len(path) = 1 /\ Tallied /\ Root \in Heads
  BY DEF EndScan, Exhausted, Counted, Heads
<1>1. CASE pc' = "decide" /\ UNCHANGED headVars
  <2>1. list \in Lists /\ sumFiles \in Counts /\ sumDirs \in Counts /\ path \in Seq(Heads) /\ path[1] = Root
    BY <1>0 DEF Inv, TypeOK, HeadType, ReadType, Leads
  <2>2. ASSUME NEW S, NEW s \in Counts, Tally(list, s, path, S), list[Root] # <<>>
        PROVE  s[Root] = Cardinality(PlacesIn(list, S))
    <3>1. Live(list, s) \in Counts /\ Live(list, s)[Root] = s[Root]
      BY <1>0, <2>1, <2>2 DEF Live
    <3>2. AddUp(Live(list, s), path, Cardinality(PlacesIn(list, S)))
      BY <2>2 DEF Tally
    <3>3. Cardinality(PlacesIn(list, S)) = Live(list, s)[path[1]]
      BY <1>0, <2>1, <3>1, <3>2, AddUpAlone
    <3> QED
      BY <2>1, <3>1, <3>3
  <2>3. \A S : Places(S) = PlacesIn(list, S)
    BY DEF Places, PlacesIn
  <2>4. list[Root] # <<>> => /\ sumFiles[Root] = Cardinality(Places(File))
                             /\ sumDirs[Root] = Cardinality(Places(Dir))
    BY <1>0, <2>1, <2>2, <2>3 DEF Tallied
  <2>5. CountsOfList'
    <3>1. Places(File)' = Places(File) /\ Places(Dir)' = Places(Dir)
      BY <1>1 DEF headVars, Places
    <3> QED
      BY <1>1, <2>4, <3>1 DEF headVars, CountsOfList
  <2> QED
    BY <1>1, <2>5 DEF Counted
<1>2. CASE NothingToRead
  BY <1>2, OutsideCounted DEF NothingToRead, Exit
<1> QED
  BY <1>1, <1>2 DEF EndScan

\* The other processes touch neither the lists nor the counts, and no
\* directory goes.
LEMMA OthersCounted ==
  ASSUME Inv, Counted, \/ \E f \in File : OthersUnlink(f)
                       \/ \E n \in Node : OthersMake(n)
  PROVE  Counted'
<1>1. /\ pc' = pc /\ list' = list /\ sumFiles' = sumFiles /\ sumDirs' = sumDirs /\ path' = path
  BY DEF OthersUnlink, OthersMake, headVars, readVars
<1>2. \A d \in Heads : seen[d] \cap Dir \subseteq seen'[d]
  BY NamesAssumption DEF OthersUnlink, OthersMake, readVars, Inv, TypeOK, ReadType
<1>3. \A d \in Dir : Parent[d] \in Heads
  BY NamesAssumption DEF Node
<1>4. \A d : Listed(d)' = Listed(d) /\ (OnPath(d)' <=> OnPath(d)) /\ Places(d)' = Places(d)
  BY <1>1 DEF Listed, OnPath, Places
<1>5. Once => Once'
  BY <1>1, <1>2, <1>3, <1>4 DEF Once
<1>6. Entered => Entered'
  BY <1>1 DEF Entered
<1>7. Tallied => Tallied'
  BY <1>1 DEF Tallied
<1>8. CountsOfList'
  BY <1>1, <1>4 DEF Counted, CountsOfList
<1> QED
  BY <1>1, <1>5, <1>6, <1>7, <1>8 DEF Counted

LEMMA StepCounted == Inv /\ Counted /\ [Next]_vars => Counted'
<1> SUFFICES ASSUME Inv, Counted, [Next]_vars PROVE Counted'
  OBVIOUS
<1>1. CASE Scan
  BY <1>1, ReadFileCounted, ReadDirCounted, EndDirCounted, EndScanCounted DEF Scan
<1>2. CASE Finish \/ ActOnPick \/ \E f \in File : ActCreate(f)
  BY <1>2, OutsideCounted DEF Finish, Exit, ActOnPick, ActCreate, EndTurn
<1>3. CASE UNCHANGED vars
  <2>1. \A d : Listed(d)' = Listed(d) /\ (OnPath(d)' <=> OnPath(d)) /\ Places(d)' = Places(d)
    BY <1>3 DEF vars, headVars, readVars, Listed, OnPath, Places
  <2> QED
    BY <1>3, <2>1 DEF vars, headVars, readVars, Counted, CountsOfList, Once, Entered, Tallied
<1> QED
  BY <1>1, <1>2, <1>3, StartCounted, OthersCounted DEF Next

(***************************************************************************)
(* Charts.                                                                 *)
(*                                                                         *)
(* A chart T gives for every place of a list the places of the files from  *)
(* there to the end of that list, those of the directories met included,   *)
(* in the order findDirEntryOf comes to them.  It is made as the scan goes *)
(* on: an entry adds to the charts of its directory when it is appended,   *)
(* a directory to those of the one above it when it has been read.         *)
(***************************************************************************)
Spot == Heads \X (Nat \ {0})
Charts == [Spot -> Seq(Spot)]

\* What the entry at k of d adds; a directory that is being read, one of O, has
\* not added anything yet.
Part(l, O, T, d, k) ==
  IF l[d][k] \in File THEN <<<<d, k>>>>
  ELSE IF l[d][k] \in O THEN <<>> ELSE T[<<l[d][k], 1>>]

Chart(l, O, T) ==
  \A d \in Heads, k \in Nat \ {0} :
    T[<<d, k>>] = IF k > Len(l[d]) THEN <<>> ELSE Part(l, O, T, d, k) \o T[<<d, k + 1>>]

\* There is nothing after the end of a list.
LEMMA ChartNil ==
  ASSUME NEW l \in Lists, NEW O, NEW T \in Charts, Chart(l, O, T)
  PROVE  /\ \A d \in Heads, k \in Nat \ {0} :
              T[<<d, k>>] \in Seq(Spot) /\ (k > Len(l[d]) => T[<<d, k>>] = <<>>)
         /\ \A d \in Heads : T[<<d, 1>>] \in Seq(Spot) /\ (l[d] = <<>> => T[<<d, 1>>] = <<>>)
<1>1. \A d \in Heads, k \in Nat \ {0} : T[<<d, k>>] \in Seq(Spot)
  BY DEF Charts, Spot
<1>2. \A d \in Heads, k \in Nat \ {0} : k > Len(l[d]) => T[<<d, k>>] = <<>>
  BY DEF Chart
<1>3. 1 \in Nat \ {0} /\ 1 > Len(<<>>)
  OBVIOUS
<1> QED
  BY <1>1, <1>2, <1>3

\* A measure of the recursion: what findDirEntryOf goes on with is smaller.
Sizes == [Spot -> Nat]
Sized(l, O, M) ==
  \A d \in Heads, k \in Nat \ {0} :
    IF k > Len(l[d]) THEN M[<<d, k>>] = 0
    ELSE /\ M[<<d, k + 1>>] < M[<<d, k>>]
         /\ l[d][k] \in Dir \ O => M[<<l[d][k], 1>>] < M[<<d, k>>]

\* The lists l become m, and O becomes Q, where the last entry z of h is new or
\* a directory that has been read to its end.
Closes(l, m, O, Q, h, z) ==
  /\ \A d \in Heads : d # h => m[d] = l[d]
  /\ z = Len(m[h]) /\ Len(l[h]) \in {z - 1, z}
  /\ \A k \in 1 .. Len(l[h]) : m[h][k] = l[h][k]
  /\ \A d \in Heads, k \in Nat \ {0} :
       k <= Len(l[d]) /\ (d = h => k < z) =>
         (l[d][k] \in O <=> l[d][k] \in Q) /\ (l[d][k] \in Q \/ l[d][k] # h)
  /\ m[h][z] \in Q \/ m[h][z] # h

\* A sequence of one.
LEMMA OneSeq ==
  ASSUME NEW S, NEW x \in S
  PROVE  <<x>> \in Seq(S) /\ Len(<<x>>) = 1 /\ <<x>>[1] = x
OBVIOUS

\* The order in which sequences are put together does not matter.
LEMMA SpotConcat == \A p, t, s \in Seq(Spot) : (p \o t) \o s = p \o (t \o s)
BY ConcatAssociative

\* U has the files s more than T in every chart of h.
Longer(U, T, h, s) ==
  \A d \in Heads : U[<<d, 1>>] = IF d = h THEN T[<<d, 1>>] \o s ELSE T[<<d, 1>>]

\* The files s of the new part come at the end of all the charts of h.
LEMMA ChartCloses ==
  ASSUME NEW l \in Lists, NEW m \in Lists, NEW O, NEW Q, NEW h \in Heads, NEW z \in Nat \ {0},
         Closes(l, m, O, Q, h, z), NEW T \in Charts, Chart(l, O, T), NEW s \in Seq(Spot),
         T[<<h, z>>] = <<>>, Part(m, Q, T, h, z) = s
  PROVE  \E U \in Charts : Chart(m, Q, U) /\ Longer(U, T, h, s)
<1> USE DEF Lists
<1> DEFINE U == [x \in Spot |-> IF x[1] = h /\ x[2] <= z THEN T[x] \o s ELSE T[x]]
<1>0. /\ U \in Charts
      /\ \A d \in Heads, k \in Nat \ {0} :
           /\ <<d, k>> \in Spot /\ <<d, k + 1>> \in Spot /\ k + 1 \in Nat \ {0}
           /\ T[<<d, k>>] \in Seq(Spot)
           /\ U[<<d, k>>] = IF d = h /\ k <= z THEN T[<<d, k>>] \o s ELSE T[<<d, k>>]
  <2>1. \A x \in Spot : T[x] \in Seq(Spot) /\ T[x] \o s \in Seq(Spot)
    BY ConcatProperties DEF Charts
  <2>2. U \in Charts
    BY <2>1 DEF Charts
  <2>3. \A d \in Heads, k \in Nat \ {0} :
          <<d, k>> \in Spot /\ <<d, k + 1>> \in Spot /\ k + 1 \in Nat \ {0}
    BY DEF Spot
  <2> QED
    BY <2>1, <2>2, <2>3
<1> HIDE DEF U
<1>1. \A d \in Heads : Len(l[d]) \in Nat /\ Len(m[d]) \in Nat
  OBVIOUS
<1>L. Longer(U, T, h, s)
  <2>1. 1 \in Nat \ {0} /\ 1 <= z
    OBVIOUS
  <2> QED
    BY <1>0, <2>1 DEF Longer
<1> SUFFICES ASSUME NEW d \in Heads, NEW k \in Nat \ {0}
             PROVE  U[<<d, k>>] = IF k > Len(m[d]) THEN <<>>
                                  ELSE Part(m, Q, U, d, k) \o U[<<d, k + 1>>]
  BY <1>0, <1>L DEF Chart
<1>2. T[<<d, k>>] = IF k > Len(l[d]) THEN <<>> ELSE Part(l, O, T, d, k) \o T[<<d, k + 1>>]
  BY DEF Chart
<1>3. k <= Len(m[d]) => m[d][k] \in Node
  BY <1>1, ElementOfSeq
\* The part of an entry.
<1>4. ASSUME k <= Len(m[d])
      PROVE  Part(m, Q, U, d, k) = Part(m, Q, T, d, k) /\ Part(m, Q, T, d, k) \in Seq(Spot)
  <2>1. CASE m[d][k] \in File
    <3>1. <<<<d, k>>>> \in Seq(Spot)
      BY <1>0, OneSeq
    <3> QED
      BY <2>1, <3>1 DEF Part
  <2>2. CASE m[d][k] \notin File /\ m[d][k] \in Q
    BY <2>2 DEF Part
  <2>3. CASE m[d][k] \notin File /\ m[d][k] \notin Q
    <3>1. m[d][k] \in Heads /\ 1 \in Nat \ {0}
      BY <1>3, <1>4, <2>3 DEF Node, Heads
    <3>2. m[d][k] # h
      <4>1. CASE d = h /\ k = z
        BY <2>3, <4>1 DEF Closes
      <4>2. CASE ~(d = h /\ k = z)
        <5>1. k \in 1 .. Len(l[d]) /\ k <= Len(l[d]) /\ (d = h => k < z)
          BY <1>1, <1>4, <4>2 DEF Closes
        <5>2. m[d][k] = l[d][k]
          BY <5>1 DEF Closes
        <5> QED
          BY <2>3, <5>1, <5>2 DEF Closes
      <4> QED
        BY <4>1, <4>2
    <3>3. U[<<m[d][k], 1>>] = T[<<m[d][k], 1>>] /\ T[<<m[d][k], 1>>] \in Seq(Spot)
      BY <1>0, <3>1, <3>2
    <3> QED
      BY <2>3, <3>3 DEF Part
  <2> QED
    BY <2>1, <2>2, <2>3
\* An entry that was there keeps its part.
<1>5. PICK y \in Nat : y = Len(l[h]) /\ y \in {z - 1, z} /\ z = Len(m[h])
  BY <1>1 DEF Closes
<1>6. ASSUME k <= Len(l[d]), d = h => k < z
      PROVE  Part(m, Q, T, d, k) = Part(l, O, T, d, k) /\ k <= Len(m[d])
  <2>1. l[d][k] = m[d][k] /\ k <= Len(m[d])
    BY <1>1, <1>5, <1>6 DEF Closes
  <2>2. l[d][k] \in O <=> l[d][k] \in Q
    BY <1>6 DEF Closes
  <2> QED
    BY <2>1, <2>2 DEF Part
<1>7. CASE d # h
  <2>1. m[d] = l[d]
    BY <1>7 DEF Closes
  <2>2. U[<<d, k>>] = T[<<d, k>>] /\ U[<<d, k + 1>>] = T[<<d, k + 1>>]
    BY <1>0, <1>7
  <2>3. CASE k > Len(m[d])
    BY <1>2, <2>1, <2>2, <2>3
  <2>4. CASE k <= Len(m[d])
    <3>1. Part(m, Q, U, d, k) = Part(l, O, T, d, k)
      BY <1>4, <1>6, <1>7, <2>1, <2>4
    <3>2. ~(k > Len(m[d]))
      BY <1>1, <2>4
    <3> QED
      BY <1>2, <2>1, <2>2, <3>1, <3>2
  <2> QED
    BY <1>1, <2>3, <2>4
<1>8. CASE d = h /\ k > z
  <2>1. k > Len(m[d]) /\ k > Len(l[d])
    BY <1>5, <1>8
  <2>2. U[<<d, k>>] = T[<<d, k>>]
    <3>1. ~(k <= z)
      BY <1>8
    <3> QED
      BY <1>0, <3>1
  <2> QED
    BY <1>2, <2>1, <2>2
<1>9. CASE d = h /\ k = z
  <2>1. U[<<d, k>>] = s
    <3>1. d = h /\ k <= z /\ T[<<d, k>>] = <<>>
      BY <1>9
    <3>2. U[<<d, k>>] = T[<<d, k>>] \o s
      BY <1>0, <3>1
    <3> QED
      BY <3>1, <3>2, ConcatEmptySeq
  <2>2. U[<<d, k + 1>>] = <<>>
    <3>1. k + 1 > Len(l[d]) /\ k + 1 \in Nat \ {0} /\ ~(k + 1 <= z)
      BY <1>5, <1>9
    <3>2. T[<<d, k + 1>>] = <<>>
      BY <3>1 DEF Chart
    <3> QED
      BY <1>0, <3>1, <3>2
  <2>3. k = Len(m[d])
    BY <1>5, <1>9
  <2>4. Part(m, Q, U, d, k) = s
    BY <1>4, <1>9, <2>3
  <2>5. s \o <<>> = s /\ ~(k > Len(m[d]))
    BY <1>1, <2>3, ConcatEmptySeq
  <2> QED
    BY <2>1, <2>2, <2>4, <2>5
<1>10. CASE d = h /\ k < z
  <2>1. /\ k <= Len(l[d]) /\ k + 1 <= z /\ k <= z /\ ~(k > Len(l[d]))
        /\ k <= Len(m[d]) /\ ~(k > Len(m[d]))
    BY <1>5, <1>10
  <2>2. U[<<d, k>>] = T[<<d, k>>] \o s /\ U[<<d, k + 1>>] = T[<<d, k + 1>>] \o s
    BY <1>0, <1>10, <2>1
  <2>3. PICK p \in Seq(Spot) : p = Part(l, O, T, d, k) /\ p = Part(m, Q, U, d, k)
    BY <1>4, <1>6, <1>10, <2>1
  <2>4. T[<<d, k>>] = p \o T[<<d, k + 1>>]
    BY <1>2, <2>1, <2>3
  <2>5. PICK t \in Seq(Spot) : t = T[<<d, k + 1>>]
    BY <1>0
  <2>6. T[<<d, k>>] \o s = p \o (t \o s)
    <3>1. s \in Seq(Spot) /\ t \in Seq(Spot) /\ p \in Seq(Spot)
      BY <2>3, <2>5
    <3>2. (p \o t) \o s = p \o (t \o s)
      BY <3>1, SpotConcat
    <3> QED
      BY <2>4, <2>5, <3>2
  <2> QED
    BY <2>1, <2>2, <2>3, <2>5, <2>6
<1> QED
  BY <1>7, <1>8, <1>9, <1>10

\* The measures of h grow by a.
LEMMA SizeCloses ==
  ASSUME NEW l \in Lists, NEW m \in Lists, NEW O, NEW Q, NEW h \in Heads, NEW z \in Nat \ {0},
         Closes(l, m, O, Q, h, z), NEW M \in Sizes, Sized(l, O, M), NEW a \in Nat \ {0},
         m[h][z] \in Dir \ Q => M[<<m[h][z], 1>>] < a
  PROVE  \E V \in Sizes : Sized(m, Q, V)
<1> USE DEF Lists
<1> DEFINE V == [x \in Spot |-> IF x[1] = h /\ x[2] <= z THEN M[x] + a ELSE M[x]]
<1>0. /\ V \in Sizes
      /\ \A d \in Heads, k \in Nat \ {0} :
           /\ k + 1 \in Nat \ {0} /\ M[<<d, k>>] \in Nat
           /\ V[<<d, k>>] = IF d = h /\ k <= z THEN M[<<d, k>>] + a ELSE M[<<d, k>>]
  <2>1. \A x \in Spot : M[x] \in Nat /\ M[x] + a \in Nat
    BY DEF Sizes
  <2>2. V \in Sizes
    BY <2>1 DEF Sizes
  <2>3. \A d \in Heads, k \in Nat \ {0} : <<d, k>> \in Spot /\ k + 1 \in Nat \ {0}
    BY DEF Spot
  <2> QED
    BY <2>1, <2>2, <2>3
<1> HIDE DEF V
<1>1. \A d \in Heads : Len(l[d]) \in Nat /\ Len(m[d]) \in Nat
  OBVIOUS
<1>3. PICK y \in Nat : y = Len(l[h]) /\ y \in {z - 1, z} /\ z = Len(m[h])
  BY <1>1 DEF Closes
<1>2. ASSUME NEW d \in Heads, NEW k \in Nat \ {0}
      PROVE  IF k > Len(m[d]) THEN V[<<d, k>>] = 0
             ELSE /\ V[<<d, k + 1>>] < V[<<d, k>>]
                  /\ m[d][k] \in Dir \ Q => V[<<m[d][k], 1>>] < V[<<d, k>>]
  <2>1. ASSUME k > Len(m[d]) PROVE V[<<d, k>>] = 0
    <3>1. k > Len(l[d]) /\ ~(d = h /\ k <= z)
      BY <1>1, <1>3, <2>1 DEF Closes
    <3>2. M[<<d, k>>] = 0
      BY <3>1 DEF Sized
    <3> QED
      BY <1>0, <3>1, <3>2
  <2> SUFFICES ASSUME k <= Len(m[d])
               PROVE  /\ V[<<d, k + 1>>] < V[<<d, k>>]
                      /\ m[d][k] \in Dir \ Q => V[<<m[d][k], 1>>] < V[<<d, k>>]
    BY <1>1, <2>1
  <2>2. ASSUME m[d][k] \in Dir \ Q
        PROVE  /\ m[d][k] \in Heads /\ V[<<m[d][k], 1>>] = M[<<m[d][k], 1>>]
    <3>1. m[d][k] # h
      BY <1>1, <2>2 DEF Closes
    <3> QED
      BY <1>0, <2>2, <3>1 DEF Heads
  <2>3. CASE d = h /\ k = z
    <3>1. k + 1 > Len(l[d]) /\ k + 1 \in Nat \ {0} /\ ~(k + 1 <= z) /\ k <= z
      BY <1>3, <2>3
    <3>2. M[<<d, k + 1>>] = 0
      BY <3>1 DEF Sized
    <3>3. V[<<d, k>>] = M[<<d, k>>] + a /\ V[<<d, k + 1>>] = 0 /\ M[<<d, k>>] \in Nat
      BY <1>0, <2>3, <3>1, <3>2
    <3> QED
      BY <1>0, <2>2, <2>3, <3>3
  <2>4. CASE d = h => k # z
    <3>1. k <= Len(l[d]) /\ (d = h => k < z) /\ l[d][k] = m[d][k]
      BY <1>1, <2>4 DEF Closes
    <3>2. l[d][k] \in O <=> l[d][k] \in Q
      BY <3>1 DEF Closes
    <3>3. /\ M[<<d, k + 1>>] < M[<<d, k>>]
          /\ l[d][k] \in Dir \ O => M[<<l[d][k], 1>>] < M[<<d, k>>]
      BY <1>1, <3>1 DEF Sized
    <3> QED
      BY <1>0, <2>2, <3>1, <3>2, <3>3
  <2> QED
    BY <2>3, <2>4
<1> QED
  BY <1>0, <1>2 DEF Sized

(***************************************************************************)
(* findDirEntryOf, from the charts.                                        *)
(***************************************************************************)
\* A set of numbers has a least one.
LEMMA LeastNat ==
  ASSUME NEW T, T \subseteq Nat, T # {}
  PROVE  \E x \in T : \A y \in T : x <= y
<1> DEFINE R == OpToRel(<, Nat)
<1>1. IsWellFoundedOn(R, Nat)
  BY NatLessThanWellFounded
<1>2. \A x, y \in Nat : x < y => <<x, y>> \in R
  BY DEF OpToRel
<1> HIDE DEF R
<1>3. PICK x \in T : \A y \in T : ~ (<<y, x>> \in R)
  BY <1>1, WFMin
<1>4. ASSUME NEW y \in T PROVE x <= y
  <2>1. ~(y < x) /\ x \in Nat /\ y \in Nat
    BY <1>2, <1>3
  <2> QED
    BY <2>1
<1> QED
  BY <1>4

Calls == Heads \X (Nat \ {0}) \X Nat

\* The body of Walk in Found, for the file number u: w gives what is called.
Call(w, l, u, d, k, curr) ==
  IF k > Len(l[d]) THEN [at |-> None, curr |-> curr]
  ELSE IF curr > u THEN [at |-> Fatal, curr |-> curr]
  ELSE IF l[d][k] \in File
  THEN IF curr = u THEN [at |-> <<d, k>>, curr |-> curr] ELSE w[<<d, k + 1, curr + 1>>]
  ELSE IF w[<<l[d][k], 1, curr>>].at # None THEN w[<<l[d][k], 1, curr>>]
       ELSE w[<<d, k + 1, w[<<l[d][k], 1, curr>>].curr>>]

IsWalk(w, l, u) == w = [c \in Calls |-> Call(w, l, u, c[1], c[2], c[3])]

\* The same, from the chart.
Answer(l, T, u, d, k, curr) ==
  IF curr > u
  THEN IF k > Len(l[d]) THEN [at |-> None, curr |-> curr] ELSE [at |-> Fatal, curr |-> curr]
  ELSE IF u - curr < Len(T[<<d, k>>])
  THEN [at |-> T[<<d, k>>][u - curr + 1], curr |-> u]
  ELSE [at |-> None, curr |-> curr + Len(T[<<d, k>>])]

\* Found is what every function that follows the rules says, if there is one.
LEMMA FoundIs ==
  ASSUME NEW u, NEW r, NEW g, IsWalk(g, list, u),
         \A w : IsWalk(w, list, u) => w[<<Root, 1, 0>>].at = r
  PROVE  Found(u) = r
<1> DEFINE w == CHOOSE w : IsWalk(w, list, u)
<1>1. IsWalk(w, list, u)
  OBVIOUS
<1>2. Found(u) = w[<<Root, 1, 0>>].at
  BY DEF Found, IsWalk, Call, Calls
<1> QED
  BY <1>1, <1>2

\* The rules at one call.
LEMMA AtWalk ==
  ASSUME NEW u, NEW w, NEW l, IsWalk(w, l, u),
         NEW d \in Heads, NEW k \in Nat \ {0}, NEW c \in Nat
  PROVE  w[<<d, k, c>>] = Call(w, l, u, d, k, c)
BY DEF IsWalk, Calls

\* What a call at k calls gives the answers.
Follows(w, l, T, u, d, k) ==
  k <= Len(l[d]) =>
    /\ \A e \in Nat : w[<<d, k + 1, e>>] = Answer(l, T, u, d, k + 1, e)
    /\ l[d][k] \in Dir => \A e \in Nat : w[<<l[d][k], 1, e>>] = Answer(l, T, u, l[d][k], 1, e)

\* The answers obey the rules of findDirEntryOf: where w gives them for what is
\* called, the call gives one too.
LEMMA CallAnswers ==
  ASSUME NEW l \in Lists, NEW T \in Charts, Chart(l, {}, T), NEW u \in Nat, NEW w,
         NEW d \in Heads, NEW k \in Nat \ {0}, NEW c \in Nat,
         Follows(w, l, T, u, d, k)
  PROVE  Call(w, l, u, d, k, c) = Answer(l, T, u, d, k, c)
<1> USE DEF Lists
<1>1. Len(l[d]) \in Nat /\ (k <= Len(l[d]) => l[d][k] \in Node)
  BY ElementOfSeq
<1>2. \A e \in Heads, j \in Nat \ {0} :
        /\ <<e, j>> \in Spot /\ j + 1 \in Nat \ {0}
        /\ T[<<e, j>>] \in Seq(Spot) /\ Len(T[<<e, j>>]) \in Nat
  <2>1. \A e \in Heads, j \in Nat \ {0} : <<e, j>> \in Spot /\ j + 1 \in Nat \ {0}
    BY DEF Spot
  <2>2. \A x \in Spot : T[x] \in Seq(Spot)
    BY DEF Charts
  <2>3. \A x \in Spot : Len(T[x]) \in Nat
    BY <2>2, LenProperties
  <2> QED
    BY <2>1, <2>2, <2>3
<1>3. CASE k > Len(l[d])
  <2>1. T[<<d, k>>] = <<>>
    BY <1>3 DEF Chart
  <2>2. Len(T[<<d, k>>]) = 0 /\ c + 0 = c
    BY <2>1
  <2>3. c <= u => ~(u - c < 0)
    OBVIOUS
  <2> QED
    BY <1>3, <2>2, <2>3 DEF Call, Answer
<1>4. CASE k <= Len(l[d]) /\ c > u
  BY <1>1, <1>4 DEF Call, Answer
<1>5. CASE k <= Len(l[d]) /\ ~(c > u)
  <2>0. ~(k > Len(l[d])) /\ c <= u
    BY <1>1, <1>5
  <2>1. PICK t \in Seq(Spot) : t = T[<<d, k + 1>>]
    BY <1>2
  <2>2. PICK y \in Nat : y = Len(t)
    BY <2>1
  <2>3. /\ T[<<d, k>>] = Part(l, {}, T, d, k) \o t
        /\ \A e \in Nat : e <= u => w[<<d, k + 1, e>>] = Answer(l, T, u, d, k + 1, e)
    BY <1>5, <2>0, <2>1 DEF Chart, Follows
  <2>4. CASE l[d][k] \in File
    <3>1. Part(l, {}, T, d, k) = <<<<d, k>>>>
      BY <2>4 DEF Part
    <3>2. PICK q \in Seq(Spot) : q = <<<<d, k>>>> /\ Len(q) = 1 /\ q[1] = <<d, k>>
      BY <1>2, OneSeq
    <3>3. /\ Len(T[<<d, k>>]) = 1 + y
          /\ T[<<d, k>>][1] = <<d, k>>
          /\ \A i \in 1 .. y : T[<<d, k>>][i + 1] = t[i]
      <4>1. T[<<d, k>>] = q \o t
        BY <2>3, <3>1, <3>2
      <4>2. /\ Len(q \o t) = 1 + y
            /\ \A i \in 1 .. 1 + y : (q \o t)[i] = IF i <= 1 THEN q[i] ELSE t[i - 1]
        BY <2>1, <2>2, <3>2, ConcatProperties
      <4>3. 1 \in 1 .. 1 + y
        BY <2>2
      <4>4. \A i \in 1 .. y : i + 1 \in 1 .. 1 + y /\ ~(i + 1 <= 1) /\ i + 1 - 1 = i
        BY <2>2
      <4> QED
        BY <3>2, <4>1, <4>2, <4>3, <4>4
    <3>4. CASE c = u
      <4>1. u - c = 0 /\ 0 < 1 + y /\ 0 + 1 = 1 /\ ~(c > u)
        BY <2>0, <2>2, <3>4
      <4>2. Answer(l, T, u, d, k, c) = [at |-> <<d, k>>, curr |-> u]
        BY <3>3, <4>1 DEF Answer
      <4> QED
        BY <2>0, <2>4, <3>4, <4>1, <4>2 DEF Call
    <3>5. CASE c # u
      <4>1. c + 1 \in Nat /\ c + 1 <= u /\ ~(c + 1 > u)
        BY <2>0, <3>5
      <4>2. Call(w, l, u, d, k, c) = Answer(l, T, u, d, k + 1, c + 1)
        BY <2>0, <2>3, <2>4, <3>5, <4>1 DEF Call
      <4>3. CASE u - c < 1 + y
        <5>1. u - (c + 1) < y /\ u - (c + 1) + 1 \in 1 .. y /\ u - (c + 1) + 1 + 1 = u - c + 1
          BY <2>2, <4>1, <4>3
        <5> QED
          BY <1>5, <2>1, <2>2, <3>3, <4>1, <4>2, <4>3, <5>1 DEF Answer
      <4>4. CASE ~(u - c < 1 + y)
        <5>1. ~(u - (c + 1) < y) /\ c + 1 + y = c + (1 + y)
          BY <2>0, <2>2, <4>1, <4>4
        <5> QED
          BY <1>5, <2>1, <2>2, <3>3, <4>1, <4>2, <4>4, <5>1 DEF Answer
      <4> QED
        BY <4>3, <4>4
    <3> QED
      BY <3>4, <3>5
  <2>5. CASE l[d][k] \notin File
    <3>1. PICK n \in Dir : n = l[d][k] /\ n \in Heads
      BY <1>1, <1>5, <2>5 DEF Node, Heads
    <3>2. PICK q \in Seq(Spot) : q = T[<<n, 1>>] /\ q = Part(l, {}, T, d, k)
      BY <1>2, <2>5, <3>1 DEF Part
    <3>3. PICK x \in Nat : x = Len(q)
      BY <3>2
    <3>4. /\ Len(T[<<d, k>>]) = x + y
          /\ \A i \in 1 .. x + y : T[<<d, k>>][i] = IF i <= x THEN q[i] ELSE t[i - x]
      BY <2>1, <2>2, <2>3, <3>2, <3>3, ConcatProperties
    <3>5. w[<<n, 1, c>>] = Answer(l, T, u, n, 1, c)
      BY <1>5, <2>0, <3>1 DEF Follows
    <3>6. CASE u - c < x
      <4>1. u - c + 1 \in 1 .. x + y /\ u - c + 1 <= x /\ u - c < x + y /\ u - c + 1 \in 1 .. x
        BY <2>0, <2>2, <3>3, <3>6
      <4>2. q[u - c + 1] \in Spot
        BY <3>2, <3>3, <4>1, ElementOfSeq
      <4>3. q[u - c + 1] # None
        BY <4>2, NamesAssumption DEF Spot
      <4>4. w[<<n, 1, c>>] = [at |-> q[u - c + 1], curr |-> u]
        BY <1>5, <3>2, <3>3, <3>5, <3>6 DEF Answer
      <4>5. Call(w, l, u, d, k, c) = [at |-> q[u - c + 1], curr |-> u]
        BY <1>5, <2>0, <2>5, <3>1, <4>3, <4>4 DEF Call
      <4>6. Answer(l, T, u, d, k, c) = [at |-> T[<<d, k>>][u - c + 1], curr |-> u]
        BY <1>5, <3>4, <4>1 DEF Answer
      <4> QED
        BY <3>4, <4>1, <4>5, <4>6
    <3>7. CASE ~(u - c < x)
      <4>1. c + x \in Nat /\ c + x <= u /\ ~(c + x > u)
        BY <2>0, <3>3, <3>7
      <4>2. w[<<n, 1, c>>] = [at |-> None, curr |-> c + x]
        BY <1>5, <3>2, <3>3, <3>5, <3>7 DEF Answer
      <4>3. Call(w, l, u, d, k, c) = w[<<d, k + 1, c + x>>]
        BY <1>5, <2>0, <2>5, <3>1, <4>2 DEF Call
      <4>4. Call(w, l, u, d, k, c) = Answer(l, T, u, d, k + 1, c + x)
        BY <2>3, <4>1, <4>3
      <4>5. CASE u - c < x + y
        <5>0. ~(u - c < x) /\ u - c \in Nat
          BY <1>5, <3>7
        <5>1. /\ u - (c + x) < y /\ u - c + 1 \in 1 .. x + y /\ ~(u - c + 1 <= x)
              /\ u - c + 1 - x = u - (c + x) + 1
          BY <2>2, <3>3, <4>1, <4>5, <5>0
        <5>2. Answer(l, T, u, d, k + 1, c + x) = [at |-> t[u - (c + x) + 1], curr |-> u]
          BY <2>1, <2>2, <4>1, <5>1 DEF Answer
        <5>3. Answer(l, T, u, d, k, c) = [at |-> T[<<d, k>>][u - c + 1], curr |-> u]
          BY <1>5, <3>4, <4>5 DEF Answer
        <5> QED
          BY <3>4, <4>4, <5>1, <5>2, <5>3
      <4>6. CASE ~(u - c < x + y)
        <5>1. ~(u - (c + x) < y) /\ c + x + y = c + (x + y)
          BY <2>2, <3>3, <4>1, <4>6
        <5>2. Answer(l, T, u, d, k + 1, c + x) = [at |-> None, curr |-> c + x + y]
          BY <2>1, <2>2, <4>1, <5>1 DEF Answer
        <5>3. Answer(l, T, u, d, k, c) = [at |-> None, curr |-> c + (x + y)]
          BY <1>5, <3>4, <4>6 DEF Answer
        <5> QED
          BY <4>4, <5>1, <5>2, <5>3
      <4> QED
        BY <4>5, <4>6
    <3> QED
      BY <3>6, <3>7
  <2> QED
    BY <2>4, <2>5
<1> QED
  BY <1>1, <1>3, <1>4, <1>5

\* So every function that follows the rules gives the answers: of the places
\* where it did not, the one with the least measure calls only right ones.
LEMMA WalkAnswers ==
  ASSUME NEW l \in Lists, NEW T \in Charts, Chart(l, {}, T), NEW M \in Sizes, Sized(l, {}, M),
         NEW u \in Nat, NEW w, IsWalk(w, l, u), NEW h \in Heads, NEW z \in Nat \ {0}, NEW b \in Nat
  PROVE  w[<<h, z, b>>] = Answer(l, T, u, h, z, b)
<1> DEFINE Right(d, k) == \A c \in Nat : w[<<d, k, c>>] = Answer(l, T, u, d, k, c)
           Wrong == {i \in Nat : \E d \in Heads, k \in Nat \ {0} : i = M[<<d, k>>] /\ ~Right(d, k)}
<1>1. ASSUME Wrong # {} PROVE FALSE
  <2>1. PICK i \in Wrong : \A j \in Wrong : i <= j
    <3>1. Wrong \subseteq Nat
      OBVIOUS
    <3> HIDE DEF Wrong
    <3> QED
      BY <1>1, <3>1, LeastNat
  <2>2. PICK d \in Heads, k \in Nat \ {0} : i = M[<<d, k>>] /\ ~Right(d, k)
    OBVIOUS
  <2>3. ASSUME NEW e \in Heads, NEW j \in Nat \ {0}, M[<<e, j>>] < i
        PROVE  Right(e, j)
    <3>1. M[<<e, j>>] \in Nat /\ i \in Nat
      BY DEF Sizes, Spot
    <3>2. ~(i <= M[<<e, j>>])
      BY <2>3, <3>1
    <3>3. M[<<e, j>>] \notin Wrong
      BY <2>1, <3>2
    <3> HIDE DEF Right
    <3> QED
      BY <3>1, <3>3
  <2>4. ASSUME k <= Len(l[d])
        PROVE  Right(d, k + 1) /\ (l[d][k] \in Dir => Right(l[d][k], 1))
    <3>1. ~(k > Len(l[d])) /\ k + 1 \in Nat \ {0} /\ 1 \in Nat \ {0}
      <4>1. Len(l[d]) \in Nat
        BY DEF Lists
      <4> QED
        BY <2>4, <4>1
    <3>2. M[<<d, k + 1>>] < i /\ (l[d][k] \in Dir => M[<<l[d][k], 1>>] < i)
      BY <2>2, <3>1 DEF Sized
    <3>3. l[d][k] \in Dir => l[d][k] \in Heads
      BY DEF Heads
    <3> HIDE DEF Right
    <3> QED
      BY <2>3, <3>1, <3>2, <3>3
  <2>5. Right(d, k)
    <3> SUFFICES ASSUME NEW c \in Nat PROVE w[<<d, k, c>>] = Answer(l, T, u, d, k, c)
      OBVIOUS
    <3>1. w[<<d, k, c>>] = Call(w, l, u, d, k, c)
      BY AtWalk
    <3>2. Follows(w, l, T, u, d, k)
      BY <2>4 DEF Follows
    <3>3. Call(w, l, u, d, k, c) = Answer(l, T, u, d, k, c)
      BY <3>2, CallAnswers
    <3> QED
      BY <3>1, <3>3
  <2> QED
    BY <2>2, <2>5
<1>2. M[<<h, z>>] \in Nat
  BY DEF Sizes, Spot
<1>3. Right(h, z)
  <2> HIDE DEF Right
  <2> QED
    BY <1>1, <1>2
<1> QED
  BY <1>3

\* The file number u is the one at u + 1 in the chart of szBase.
LEMMA FoundAnswer ==
  ASSUME NEW T \in Charts, NEW M \in Sizes, Chart(list, {}, T), Sized(list, {}, M),
         list \in Lists, NEW u \in Nat
  PROVE  Found(u) = IF u < Len(T[<<Root, 1>>]) THEN T[<<Root, 1>>][u + 1] ELSE None
<1>1. PICK l \in Lists : l = list
  OBVIOUS
<1>2. Chart(l, {}, T) /\ Sized(l, {}, M) /\ Root \in Heads /\ 1 \in Nat \ {0} /\ 0 \in Nat
  BY <1>1 DEF Heads
<1> DEFINE g == [c \in Calls |-> Answer(l, T, u, c[1], c[2], c[3])]
           r == Answer(l, T, u, Root, 1, 0).at
<1>3. \A d \in Heads, k \in Nat \ {0}, c \in Nat : g[<<d, k, c>>] = Answer(l, T, u, d, k, c)
  BY DEF Calls
<1>4. IsWalk(g, l, u)
  <2> SUFFICES ASSUME NEW d \in Heads, NEW k \in Nat \ {0}, NEW c \in Nat
               PROVE  Answer(l, T, u, d, k, c) = Call(g, l, u, d, k, c)
    BY DEF IsWalk, Calls
  <2>1. \A e \in Nat : g[<<d, k + 1, e>>] = Answer(l, T, u, d, k + 1, e)
    BY <1>3
  <2>2. l[d][k] \in Dir => \A e \in Nat : g[<<l[d][k], 1, e>>] = Answer(l, T, u, l[d][k], 1, e)
    BY <1>2, <1>3 DEF Heads
  <2> HIDE DEF g
  <2>3. Follows(g, l, T, u, d, k)
    BY <2>1, <2>2 DEF Follows
  <2> QED
    BY <1>2, <2>3, CallAnswers
<1> HIDE DEF g
<1>5. \A w : IsWalk(w, l, u) => w[<<Root, 1, 0>>].at = r
  BY <1>2, WalkAnswers
<1>6. Found(u) = r
  <2> HIDE DEF r
  <2> QED
    BY <1>1, <1>4, <1>5, FoundIs
<1>7. r = IF u < Len(T[<<Root, 1>>]) THEN T[<<Root, 1>>][u + 1] ELSE None
  <2>1. ~(0 > u) /\ u - 0 = u
    OBVIOUS
  <2> QED
    BY <2>1 DEF Answer
<1> QED
  BY <1>6, <1>7

(***************************************************************************)
(* The chart of the lists.                                                 *)
(***************************************************************************)
Elems(s) == {s[i] : i \in 1 .. Len(s)}

\* The elements of two sequences put together.
LEMMA ElemsConcat ==
  ASSUME NEW S, NEW s \in Seq(S), NEW t \in Seq(S)
  PROVE  Elems(s \o t) = Elems(s) \cup Elems(t) /\ Elems(<<>>) = {}
<1>1. PICK a \in Nat, b \in Nat : a = Len(s) /\ b = Len(t) /\ Len(s \o t) = a + b
  BY LenProperties, ConcatProperties
<1>2. \A i \in 1 .. a + b : (s \o t)[i] = IF i <= a THEN s[i] ELSE t[i - a]
  BY <1>1, ConcatProperties
<1>3. ASSUME NEW i \in 1 .. a + b PROVE (s \o t)[i] \in Elems(s) \cup Elems(t)
  <2>1. IF i <= a THEN i \in 1 .. a ELSE i - a \in 1 .. b
    BY <1>1
  <2> QED
    BY <1>1, <1>2, <2>1 DEF Elems
<1>4. ASSUME NEW i \in 1 .. a PROVE s[i] \in Elems(s \o t)
  <2>1. i \in 1 .. a + b /\ i <= a
    BY <1>1
  <2> QED
    BY <1>1, <1>2, <2>1 DEF Elems
<1>5. ASSUME NEW i \in 1 .. b PROVE t[i] \in Elems(s \o t)
  <2>1. a + i \in 1 .. a + b /\ ~(a + i <= a) /\ a + i - a = i
    BY <1>1
  <2> QED
    BY <1>1, <1>2, <2>1 DEF Elems
<1>6. Elems(<<>>) = {}
  BY DEF Elems
<1>7. /\ \A x \in Elems(s \o t) : \E i \in 1 .. a + b : x = (s \o t)[i]
      /\ \A x \in Elems(s) : \E i \in 1 .. a : x = s[i]
      /\ \A x \in Elems(t) : \E i \in 1 .. b : x = t[i]
  BY <1>1 DEF Elems
<1>8. Elems(s \o t) \subseteq Elems(s) \cup Elems(t)
  BY <1>3, <1>7
<1>9. Elems(s) \subseteq Elems(s \o t)
  BY <1>4, <1>7
<1>10. Elems(t) \subseteq Elems(s \o t)
  BY <1>5, <1>7
<1> QED
  BY <1>6, <1>8, <1>9, <1>10

\* The counts are those of the chart, and the files found are in it.
Totals(l, sum, O, T) ==
  /\ \A d \in Heads : l[d] # <<>> => sum[d] = Len(T[<<d, 1>>])
  /\ \A x : x \in PlacesIn(l, File) <=> \E d \in O : x \in Elems(T[<<d, 1>>])

HasChart(l, sum, O) ==
  \E T \in Charts, M \in Sizes : Chart(l, O, T) /\ Sized(l, O, M) /\ Totals(l, sum, O, T)

\* An entry n is appended to the list of h; when it is a directory its reading
\* begins.
LEMMA EntryChart ==
  ASSUME NEW l \in Lists, NEW m \in Lists, NEW O \in SUBSET Heads, NEW h \in O, NEW n \in Node,
         Grows(l, m, h, n),
         n \in Dir => l[n] = <<>> /\ \A d \in Heads : \A k \in 1 .. Len(l[d]) : l[d][k] # n,
         NEW sum \in Counts, NEW t \in Counts,
         t[h] = (IF l[h] = <<>> THEN 0 ELSE sum[h]) + (IF n \in File THEN 1 ELSE 0),
         \A d \in Heads : d # h => l[d] = <<>> \/ t[d] = sum[d],
         HasChart(l, sum, O), NEW Q, Q = O \cup ({n} \cap Dir)
  PROVE  HasChart(m, t, Q)
<1>0. \A x : x \in PlacesIn(m, File) <=>
             x \in PlacesIn(l, File) \/ (n \in File /\ x = <<h, Len(l[h]) + 1>>)
  <2>1. h \in Heads
    OBVIOUS
  <2> QED
    BY <2>1, PlacesEntry
<1> USE DEF Lists
<1>1. PICK T \in Charts, M \in Sizes : Chart(l, O, T) /\ Sized(l, O, M) /\ Totals(l, sum, O, T)
  BY DEF HasChart
<1>2. PICK z \in Nat \ {0} : z = Len(l[h]) + 1
  OBVIOUS
<1>3. /\ z = Len(m[h]) /\ m[h][z] = n /\ \A k \in 1 .. Len(l[h]) : m[h][k] = l[h][k]
      /\ \A d \in Heads : d # h => m[d] = l[d]
  BY <1>2, AppendProperties DEF Grows
<1>4. Closes(l, m, O, Q, h, z)
  <2>1. Len(l[h]) \in {z - 1, z}
    BY <1>2
  <2>2. ASSUME NEW d \in Heads, NEW k \in Nat \ {0}, k <= Len(l[d])
        PROVE  (l[d][k] \in O <=> l[d][k] \in Q) /\ (l[d][k] \in Q \/ l[d][k] # h)
    <3>1. k \in 1 .. Len(l[d])
      BY <2>2
    <3> QED
      BY <3>1
  <2>3. n \in Q \/ n # h
    OBVIOUS
  <2> QED
    BY <1>3, <2>1, <2>2, <2>3 DEF Closes
<1>5. T[<<h, z>>] = <<>> /\ \A d \in Heads : T[<<d, 1>>] \in Seq(Spot)
  <2>1. z > Len(l[h]) /\ h \in Heads
    BY <1>2
  <2> QED
    BY <1>1, <2>1, ChartNil
<1> DEFINE s == IF n \in File THEN <<<<h, z>>>> ELSE <<>>
<1>6. Part(m, Q, T, h, z) = s
  BY <1>3 DEF Part, Node
<1>7. /\ s \in Seq(Spot) /\ Len(s) = (IF n \in File THEN 1 ELSE 0)
      /\ Elems(s) = (IF n \in File THEN {<<h, z>>} ELSE {})
  <2>1. <<h, z>> \in Spot
    BY DEF Spot
  <2>2. CASE n \in File
    <3>1. PICK q \in Seq(Spot) : q = <<<<h, z>>>> /\ Len(q) = 1 /\ q[1] = <<h, z>>
      BY <2>1, OneSeq
    <3>2. Elems(q) = {<<h, z>>}
      <4>1. Elems(q) = {q[i] : i \in {1}}
        BY <3>1 DEF Elems
      <4> QED
        BY <3>1, <4>1
    <3> QED
      BY <2>2, <3>1, <3>2
  <2>3. CASE n \notin File
    BY <2>3, ElemsConcat
  <2> QED
    BY <2>2, <2>3
<1> HIDE DEF s
<1>8. PICK U \in Charts : Chart(m, Q, U) /\ Longer(U, T, h, s)
  <2>1. h \in Heads
    OBVIOUS
  <2> QED
    BY <1>1, <1>4, <1>5, <1>6, <1>7, <2>1, ChartCloses
<1>9. PICK V \in Sizes : Sized(m, Q, V)
  <2>1. ~(m[h][z] \in Dir \ Q)
    BY <1>3
  <2>2. 1 \in Nat \ {0}
    OBVIOUS
  <2> QED
    BY <1>1, <1>4, <2>1, <2>2, SizeCloses
<1>10. \A d \in Heads : U[<<d, 1>>] = IF d = h THEN T[<<h, 1>>] \o s ELSE T[<<d, 1>>]
  BY <1>8 DEF Longer
<1>11. /\ Len(U[<<h, 1>>]) = Len(T[<<h, 1>>]) + Len(s)
       /\ Elems(U[<<h, 1>>]) = Elems(T[<<h, 1>>]) \cup Elems(s)
  <2>1. PICK v \in Seq(Spot) : v = T[<<h, 1>>]
    BY <1>5
  <2>2. U[<<h, 1>>] = v \o s
    BY <1>10, <2>1
  <2>3. Len(v \o s) = Len(v) + Len(s)
    BY <1>7, <2>1, ConcatProperties
  <2>4. Elems(v \o s) = Elems(v) \cup Elems(s)
    BY <1>7, <2>1, ElemsConcat
  <2> QED
    BY <2>1, <2>2, <2>3, <2>4
<1>12. \A d \in Heads : l[d] = <<>> => T[<<d, 1>>] = <<>>
  BY <1>1, ChartNil
<1>13. ASSUME NEW d \in Heads, m[d] # <<>> PROVE t[d] = Len(U[<<d, 1>>])
  <2>1. CASE d = h
    <3>1. Len(T[<<h, 1>>]) = IF l[h] = <<>> THEN 0 ELSE sum[h]
      BY <1>1, <1>12 DEF Totals
    <3> QED
      BY <1>7, <1>11, <2>1, <3>1
  <2>2. CASE d # h
    BY <1>1, <1>3, <1>10, <1>13, <2>2 DEF Totals
  <2> QED
    BY <2>1, <2>2
<1>14. ASSUME NEW x PROVE x \in PlacesIn(m, File) <=> \E d \in Q : x \in Elems(U[<<d, 1>>])
  <2>1. x \in PlacesIn(m, File) <=> x \in PlacesIn(l, File) \/ x \in Elems(s)
    BY <1>0, <1>2, <1>7
  <2>2. x \in PlacesIn(l, File) <=> \E d \in O : x \in Elems(T[<<d, 1>>])
    BY <1>1 DEF Totals
  <2>3. ASSUME NEW d \in O
        PROVE  x \in Elems(U[<<d, 1>>]) <=> x \in Elems(T[<<d, 1>>]) \/ (d = h /\ x \in Elems(s))
    BY <1>10, <1>11
  <2>4. ASSUME NEW d \in Q \ O PROVE x \notin Elems(U[<<d, 1>>])
    <3>1. d = n /\ d \in Heads /\ d # h /\ l[d] = <<>>
      BY DEF Heads
    <3>2. U[<<d, 1>>] = <<>>
      BY <1>10, <1>12, <3>1
    <3> QED
      BY <3>2, ElemsConcat, EmptySeq
  <2> QED
    BY <2>1, <2>2, <2>3, <2>4
<1> QED
  BY <1>8, <1>9, <1>13, <1>14 DEF HasChart, Totals

\* The one entry h is the last one of up.
LastOf(l, up, z, h) ==
  z = Len(l[up]) /\ \A d \in Heads : \A k \in 1 .. Len(l[d]) : l[d][k] = h <=> d = up /\ k = z

\* A directory read to its end adds its own to the entry it is at.
LEMMA LeaveLonger ==
  ASSUME NEW l \in Lists, NEW O \in SUBSET Heads, NEW h \in O, NEW up \in O, up # h, h \in Dir,
         NEW z \in Nat \ {0}, LastOf(l, up, z, h),
         NEW Q, Q = O \ {h},
         NEW T \in Charts, NEW M \in Sizes, Chart(l, O, T), Sized(l, O, M)
  PROVE  /\ \E U \in Charts : Chart(l, Q, U) /\ Longer(U, T, up, T[<<h, 1>>])
         /\ \E V \in Sizes : Sized(l, Q, V)
<1> h \in Heads /\ up \in Heads
  OBVIOUS
<1> USE DEF LastOf
<1>1. l[up][z] = h /\ h \notin File /\ h \in Node
  BY NamesAssumption DEF Node
<1>2. Closes(l, l, O, Q, up, z)
  <2>1. ASSUME NEW d \in Heads, NEW k \in Nat \ {0}, k <= Len(l[d]), d = up => k < z
        PROVE  l[d][k] # h
    <3>1. k \in 1 .. Len(l[d]) /\ ~(d = up /\ k = z)
      BY <2>1 DEF Lists
    <3> QED
      BY <3>1
  <2> QED
    BY <1>1, <2>1 DEF Closes
<1>3. T[<<up, z>>] = <<>>
  <2>1. T[<<up, z>>] = Part(l, O, T, up, z) \o T[<<up, z + 1>>] /\ T[<<up, z + 1>>] = <<>>
    <3>1. ~(z > Len(l[up])) /\ z + 1 > Len(l[up]) /\ z + 1 \in Nat \ {0}
      OBVIOUS
    <3> QED
      BY <3>1 DEF Chart
  <2>2. Part(l, O, T, up, z) = <<>>
    BY <1>1 DEF Part
  <2>3. <<>> \o <<>> = <<>>
    BY EmptySeq, ConcatEmptySeq
  <2> QED
    BY <2>1, <2>2, <2>3
<1>4. PICK s \in Seq(Spot) : s = T[<<h, 1>>] /\ s = Part(l, Q, T, up, z)
  BY <1>1, ChartNil DEF Part
<1>5. PICK a \in Nat \ {0} : M[<<h, 1>>] < a
  <2>1. M[<<h, 1>>] \in Nat
    BY DEF Sizes, Spot
  <2>2. M[<<h, 1>>] + 1 \in Nat \ {0} /\ M[<<h, 1>>] < M[<<h, 1>>] + 1
    BY <2>1
  <2> QED
    BY <2>2
<1>6. \E U \in Charts : Chart(l, Q, U) /\ Longer(U, T, up, s)
  BY <1>2, <1>3, <1>4, ChartCloses
<1>7. \E V \in Sizes : Sized(l, Q, V)
  BY <1>1, <1>2, <1>5, SizeCloses
<1> QED
  BY <1>4, <1>6, <1>7

\* One level up: h is not being read any more, and its counts are added.
LEMMA LeaveChart ==
  ASSUME NEW l \in Lists, NEW O \in SUBSET Heads, NEW h \in O, NEW up \in O, up # h, h \in Dir,
         NEW z \in Nat \ {0}, LastOf(l, up, z, h),
         NEW sum \in Counts, NEW t \in Counts, t[up] = sum[up] + sum[h],
         \A d \in Heads : d # up => t[d] = sum[d], l[h] = <<>> => sum[h] = 0,
         HasChart(l, sum, O), NEW Q, Q = O \ {h}
  PROVE  HasChart(l, t, Q)
<1>1. PICK T \in Charts, M \in Sizes : Chart(l, O, T) /\ Sized(l, O, M) /\ Totals(l, sum, O, T)
  BY DEF HasChart
<1>2. h \in Heads /\ up \in Heads /\ l[up] # <<>>
  BY DEF LastOf
<1>3. /\ \A d \in Heads : T[<<d, 1>>] \in Seq(Spot)
      /\ \A d \in Heads : l[d] = <<>> => T[<<d, 1>>] = <<>>
  BY <1>1, ChartNil
<1>4. PICK s \in Seq(Spot) : s = T[<<h, 1>>]
  BY <1>2, <1>3
<1>5. PICK U \in Charts, V \in Sizes : Chart(l, Q, U) /\ Longer(U, T, up, s) /\ Sized(l, Q, V)
  <2>1. /\ \E U \in Charts : Chart(l, Q, U) /\ Longer(U, T, up, T[<<h, 1>>])
        /\ \E V \in Sizes : Sized(l, Q, V)
    BY <1>1, LeaveLonger
  <2> QED
    BY <1>4, <2>1
<1>6. \A d \in Heads : d # up => U[<<d, 1>>] = T[<<d, 1>>]
  BY <1>5 DEF Longer
<1>7. /\ Len(U[<<up, 1>>]) = Len(T[<<up, 1>>]) + Len(s)
      /\ Elems(U[<<up, 1>>]) = Elems(T[<<up, 1>>]) \cup Elems(s)
  <2>1. PICK v \in Seq(Spot) : v = T[<<up, 1>>]
    BY <1>2, <1>3
  <2>2. U[<<up, 1>>] = v \o s
    BY <1>2, <1>5, <2>1 DEF Longer
  <2>3. Len(v \o s) = Len(v) + Len(s)
    BY <1>4, <2>1, ConcatProperties
  <2>4. Elems(v \o s) = Elems(v) \cup Elems(s)
    BY <1>4, <2>1, ElemsConcat
  <2> QED
    BY <2>1, <2>2, <2>3, <2>4
<1>8. Len(s) = sum[h]
  BY <1>1, <1>2, <1>3, <1>4 DEF Totals
<1>9. ASSUME NEW d \in Heads, l[d] # <<>> PROVE t[d] = Len(U[<<d, 1>>])
  BY <1>1, <1>2, <1>6, <1>7, <1>8, <1>9 DEF Totals
<1>10. ASSUME NEW x PROVE x \in PlacesIn(l, File) <=> \E d \in Q : x \in Elems(U[<<d, 1>>])
  <2>1. x \in PlacesIn(l, File) <=> \E d \in O : x \in Elems(T[<<d, 1>>])
    BY <1>1 DEF Totals
  <2>2. \A d \in Q :
          x \in Elems(U[<<d, 1>>]) <=> x \in Elems(T[<<d, 1>>]) \/ (d = up /\ x \in Elems(s))
    BY <1>6, <1>7
  <2> QED
    BY <1>4, <2>1, <2>2
<1> QED
  BY <1>5, <1>9, <1>10 DEF HasChart, Totals

\* When szBase alone is being read every roll picks a file and every file can be
\* picked.
LEMMA ChartPicks ==
  ASSUME list \in Lists, sumFiles \in Counts, HasChart(list, sumFiles, {Root})
  PROVE  {Found(u) : u \in Rolls} = IF Places(File) = {} THEN {None} ELSE Places(File)
<1>1. PICK T \in Charts, M \in Sizes :
        Chart(list, {Root}, T) /\ Sized(list, {Root}, M) /\ Totals(list, sumFiles, {Root}, T)
  BY DEF HasChart
<1>2. \A d \in Heads, k \in Nat \ {0} : k <= Len(list[d]) => list[d][k] # Root
  BY NamesAssumption DEF Lists
<1>3. Chart(list, {}, T)
  <2> SUFFICES ASSUME NEW d \in Heads, NEW k \in Nat \ {0}
               PROVE  T[<<d, k>>] = IF k > Len(list[d]) THEN <<>>
                                    ELSE Part(list, {}, T, d, k) \o T[<<d, k + 1>>]
    BY DEF Chart
  <2>1. k > Len(list[d]) \/ Part(list, {}, T, d, k) = Part(list, {Root}, T, d, k)
    BY <1>2 DEF Part, Lists
  <2> QED
    BY <1>1, <2>1 DEF Chart
<1>4. Sized(list, {}, M)
  BY <1>1, <1>2, NamesAssumption DEF Sized, Node
<1>5. PICK q \in Seq(Spot) : q = T[<<Root, 1>>] /\ (list[Root] = <<>> => q = <<>>)
  <2>1. Root \in Heads
    BY DEF Heads
  <2> QED
    BY <1>1, <2>1, ChartNil
<1>6. PICK y \in Nat : y = Len(q)
  BY <1>5
<1>7. \A u \in Nat : Found(u) = IF u < y THEN q[u + 1] ELSE None
  BY <1>1, <1>3, <1>4, <1>5, <1>6, FoundAnswer
<1>8. Places(File) = Elems(q) /\ (list[Root] # <<>> => sumFiles[Root] = y)
  <2>1. Places(File) = PlacesIn(list, File)
    BY DEF Places, PlacesIn
  <2>2. Root \in Heads
    BY DEF Heads
  <2>3. \A x : x \in PlacesIn(list, File) <=> x \in Elems(q)
    BY <1>1, <1>5 DEF Totals
  <2>4. Places(File) = Elems(q)
    BY <2>1, <2>3
  <2> QED
    BY <1>1, <1>5, <1>6, <2>2, <2>4 DEF Totals
<1>9. PICK f \in Nat : f = sumFiles[Root]
  BY DEF Counts, Heads
<1>10. CASE y = 0
  <2>1. Elems(q) = {} /\ 0 \in Rolls /\ Rolls \subseteq Nat
    BY <1>6, <1>9, <1>10 DEF Elems, Rolls
  <2>2. \A u \in Rolls : Found(u) = None
    BY <1>7, <1>10, <2>1
  <2> QED
    BY <1>8, <2>1, <2>2
<1>11. CASE y # 0
  <2>1. Rolls = 0 .. y - 1
    BY <1>5, <1>6, <1>8, <1>11 DEF Rolls
  <2>2. \A u \in Rolls : u + 1 \in 1 .. y /\ Found(u) = q[u + 1]
    BY <1>6, <1>7, <2>1
  <2>3. \A i \in 1 .. y : i - 1 \in Rolls /\ Found(i - 1) = q[i]
    <3>1. \A i \in 1 .. y : i - 1 \in Nat /\ i - 1 \in 0 .. y - 1 /\ i - 1 < y /\ i - 1 + 1 = i
      BY <1>6
    <3> QED
      BY <1>7, <2>1, <3>1
  <2>4. Elems(q) = {Found(u) : u \in Rolls}
    BY <1>6, <2>2, <2>3 DEF Elems
  <2>5. 1 \in 1 .. y
    BY <1>6, <1>11
  <2>6. Elems(q) # {}
    BY <1>6, <2>5 DEF Elems
  <2> QED
    BY <1>8, <2>4, <2>6
<1> QED
  BY <1>10, <1>11

(***************************************************************************)
(* The scan makes the charts.                                              *)
(***************************************************************************)
\* A name is listed in its directory, a directory on the path last of all.
SitedIn(l) == \A d \in Heads : \A k \in 1 .. Len(l[d]) : Parent[l[d][k]] = d
Sited == SitedIn(list)
Nested == \A i \in 1 .. Len(path) - 1 : \E z \in Nat \ {0} : LastOf(list, path[i], z, path[i + 1])
Reading == {d \in Heads : OnPath(d)}

Picked ==
  (pc = "scanning" => Sited /\ Nested /\ HasChart(list, sumFiles, Reading)) /\ PicksCover

\* Before the first turn there is nothing to pick from.
LEMMA InitPicked == Init => Picked
BY DEF Init, Picked, PicksCover

\* No pick is of interest before or after the turn.
LEMMA OutsidePicked == pc' \in {"top", "exited"} => Picked'
BY DEF Picked, PicksCover

\* Nothing is listed: all the charts are empty.
LEMMA EmptyChart ==
  ASSUME NEW l \in Lists, \A d \in Heads : l[d] = <<>>, NEW O \in SUBSET Heads, NEW sum
  PROVE  HasChart(l, sum, O)
<1> DEFINE T == [x \in Spot |-> <<>>]
           M == [x \in Spot |-> 0]
<1>1. T \in Charts /\ M \in Sizes
  BY EmptySeq DEF Charts, Sizes
<1>2. \A d \in Heads, k \in Nat \ {0} : T[<<d, k>>] = <<>> /\ M[<<d, k>>] = 0 /\ k > Len(l[d])
  BY DEF Spot
<1>3. \A d \in Heads : T[<<d, 1>>] = <<>>
  BY DEF Spot
<1> HIDE DEF T, M
<1>4. Chart(l, O, T) /\ Sized(l, O, M)
  BY <1>2 DEF Chart, Sized
<1>5. Totals(l, sum, O, T)
  <2>1. Elems(<<>>) = {}
    BY DEF Elems
  <2>2. \A d \in O : Elems(T[<<d, 1>>]) = {}
    BY <1>3, <2>1
  <2>3. PlacesIn(l, File) = {}
    BY DEF PlacesIn
  <2> QED
    BY <2>2, <2>3 DEF Totals
<1> QED
  BY <1>1, <1>4, <1>5 DEF HasChart

\* szBase alone is being read and nothing is listed.
LEMMA StartPicked == Inv /\ StartScan => Picked'
<1> SUFFICES ASSUME Inv, StartScan, Open(Root, <<>>, seen), pc' = "scanning", list[Root] = <<>>
             PROVE  Picked'
  BY OutsidePicked DEF StartScan, Exit, ScanFails
<1>1. /\ path' = <<Root>> /\ list' = list /\ sumFiles' = sumFiles /\ Root \in Heads
      /\ list \in Lists /\ \A d \in Heads : list[d] = <<>>
  BY DEF StartScan, Open, headVars, Inv, Destroyed, TypeOK, HeadType, Heads, Lists
<1>2. Sited' /\ Nested'
  BY <1>1 DEF Sited, SitedIn, Nested
<1>3. HasChart(list, sumFiles, Reading')
  <2>1. Reading' \in SUBSET Heads
    BY DEF Reading
  <2> QED
    BY <1>1, <2>1, EmptyChart
<1> QED
  BY <1>1, <1>2, <1>3 DEF Picked, PicksCover

\* A name n is appended to the list of h: what each place holds afterwards.
LEMMA GrownPlaces ==
  ASSUME NEW l \in Lists, NEW m \in Lists, NEW h \in Heads, NEW n \in Node, Grows(l, m, h, n),
         NEW d \in Heads, NEW k \in 1 .. Len(m[d])
  PROVE  \/ /\ d = h /\ k = Len(l[h]) + 1
            /\ m[d][k] = n
         \/ /\ d = h => k # Len(l[h]) + 1
            /\ k \in 1 .. Len(l[d])
            /\ m[d][k] = l[d][k]
<1> USE DEF Lists
<1>1. PICK y \in Nat : y = Len(l[h])
  OBVIOUS
<1>2. /\ Len(m[h]) = y + 1 /\ m[h][y + 1] = n /\ \A i \in 1 .. y : m[h][i] = l[h][i]
      /\ d # h => m[d] = l[d]
  BY <1>1, AppendProperties DEF Grows
<1>3. CASE d = h
  <2>1. (k \in 1 .. y /\ k # y + 1) \/ k = y + 1
    BY <1>1, <1>2, <1>3
  <2> QED
    BY <1>1, <1>2, <1>3, <2>1
<1>4. CASE d # h
  BY <1>2, <1>4
<1> QED
  BY <1>3, <1>4

\* The last place of another name stays its last place, if its directory is another.
LEMMA LastOfGrows ==
  ASSUME NEW l \in Lists, NEW m \in Lists, NEW h \in Heads, NEW n \in Node, Grows(l, m, h, n),
         NEW up \in Heads, NEW z \in Nat \ {0}, NEW c \in Heads, up # h, c # n,
         LastOf(l, up, z, c)
  PROVE  LastOf(m, up, z, c)
<1>1. ASSUME NEW d \in Heads, NEW k \in 1 .. Len(m[d]) PROVE m[d][k] = c <=> d = up /\ k = z
  <2>1. CASE d = h /\ m[d][k] = n
    BY <2>1
  <2>2. CASE k \in 1 .. Len(l[d]) /\ m[d][k] = l[d][k]
    BY <2>2 DEF LastOf
  <2> QED
    BY <2>1, <2>2, GrownPlaces
<1>2. m[up] = l[up]
  BY DEF Grows
<1> QED
  BY <1>1, <1>2 DEF LastOf

\* A name that is listed nowhere else: its last place is the new one.
LEMMA LastOfNew ==
  ASSUME NEW l \in Lists, NEW m \in Lists, NEW h \in Heads, NEW n \in Node, Grows(l, m, h, n),
         \A d \in Heads : \A k \in 1 .. Len(l[d]) : l[d][k] # n
  PROVE  \E z \in Nat \ {0} : LastOf(m, h, z, n)
<1>1. PICK z \in Nat \ {0} : z = Len(l[h]) + 1
  BY DEF Lists
<1>2. Len(m[h]) = z /\ m[h][z] = n
  BY <1>1, AppendProperties DEF Grows, Lists
<1>3. ASSUME NEW d \in Heads, NEW k \in 1 .. Len(m[d]) PROVE m[d][k] = n <=> d = h /\ k = z
  BY <1>1, GrownPlaces
<1> QED
  BY <1>2, <1>3 DEF LastOf

\* Every name is still listed in its directory.
LEMMA SitedGrows ==
  ASSUME NEW l \in Lists, NEW m \in Lists, NEW h \in Heads, NEW n \in Node, Grows(l, m, h, n),
         SitedIn(l), Parent[n] = h
  PROVE  SitedIn(m)
<1> SUFFICES ASSUME NEW d \in Heads, NEW k \in 1 .. Len(m[d]) PROVE Parent[m[d][k]] = d
  BY DEF SitedIn
<1>1. CASE d = h /\ m[d][k] = n
  BY <1>1
<1>2. CASE k \in 1 .. Len(l[d]) /\ m[d][k] = l[d][k]
  BY <1>2 DEF SitedIn
<1> QED
  BY <1>1, <1>2, GrownPlaces

\* One file more.
LEMMA ReadFilePicked ==
  ASSUME Inv, Picked, NEW f \in File, ReadFile(f)
  PROVE  Picked'
<1>0. /\ pc = "scanning" /\ pc' = pc /\ path' = path /\ f \in Node /\ f \notin Dir
      /\ Parent[f] = Here /\ Sited /\ Nested /\ HasChart(list, sumFiles, Reading)
  BY NamesAssumption DEF ReadFile, Returned, mainVars, Node, Picked
<1>1. PICK h \in Heads, j \in Nat \ {0} :
        /\ h = Here /\ j = Len(path) /\ h = path[j] /\ OnPath(h)
        /\ list \in Lists
        /\ sumFiles \in Counts /\ sumDirs \in Counts
        /\ path \in Seq(Heads) /\ \A i, k \in 1 .. j : path[i] = path[k] => i = k
  BY <1>0, Recursion
<1>2. list' \in Lists /\ sumFiles' \in Counts
  BY StepType DEF Next, Scan, TypeOK, HeadType, Lists, Counts
<1>3. /\ list'[h] = Append(list[h], f)
      /\ sumFiles'[h] = (IF list[h] = <<>> THEN 0 ELSE sumFiles[h]) + 1
      /\ \A d \in Heads : d # h => list'[d] = list[d] /\ sumFiles'[d] = sumFiles[d]
  BY <1>1 DEF ReadFile, Count, Lists, Counts
<1>4. PICK l \in Lists, m \in Lists, O \in SUBSET Heads, s \in Counts, t \in Counts :
        l = list /\ m = list' /\ O = Reading /\ O = Reading' /\ s = sumFiles /\ t = sumFiles'
  <2>1. Reading' = Reading /\ Reading \in SUBSET Heads
    BY <1>0 DEF Reading, OnPath
  <2> QED
    BY <1>1, <1>2, <2>1
<1>5. Grows(l, m, h, f) /\ h \in O
  BY <1>1, <1>3, <1>4 DEF Grows, Reading
<1>6. Sited'
  <2>1. SitedIn(l) /\ Parent[f] = h
    BY <1>0, <1>1, <1>4 DEF Sited
  <2>2. SitedIn(m)
    BY <1>0, <1>5, <2>1, SitedGrows
  <2> QED
    BY <1>4, <2>2 DEF Sited, SitedIn
<1>7. Nested'
  <2> SUFFICES ASSUME NEW i \in 1 .. j - 1
               PROVE  \E z \in Nat \ {0} : LastOf(m, path[i], z, path[i + 1])
    BY <1>0, <1>1, <1>4 DEF Nested
  <2>1. PICK z \in Nat \ {0} : LastOf(l, path[i], z, path[i + 1])
    BY <1>0, <1>1, <1>4 DEF Nested
  <2>2. i \in 1 .. j /\ i + 1 \in 1 .. j /\ i + 1 \in 2 .. j /\ j \in 1 .. j /\ i # j
    BY <1>1
  <2>3. path[i] \in Heads /\ path[i + 1] \in Heads /\ path[i] # h /\ path[i + 1] \in Dir
    BY <1>0, <1>1, <2>2, ElementOfSeq DEF Inv, Leads
  <2> QED
    BY <1>0, <1>5, <2>1, <2>3, LastOfGrows
<1>8. HasChart(m, t, O)
  <2>1. t[h] = (IF l[h] = <<>> THEN 0 ELSE s[h]) + (IF f \in File THEN 1 ELSE 0)
    BY <1>3, <1>4
  <2>2. \A d \in Heads : d # h => l[d] = <<>> \/ t[d] = s[d]
    BY <1>3, <1>4
  <2>3. O = O \cup ({f} \cap Dir)
    BY <1>0
  <2>4. HasChart(l, s, O)
    BY <1>0, <1>4
  <2> QED
    BY <1>0, <1>5, <2>1, <2>2, <2>3, <2>4, EntryChart
<1> QED
  BY <1>0, <1>4, <1>6, <1>7, <1>8 DEF Picked, PicksCover

\* One level deeper: the directory found is in no list and has none.
LEMMA ReadDirPicked ==
  ASSUME Inv, Counted, Picked, NEW e \in Dir, ReadDir(e)
  PROVE  Picked'
<1> SUFFICES ASSUME UNCHANGED pc, Open(e, path, [seen EXCEPT ![Here] = @ \cup {e}])
             PROVE  Picked'
  BY ScanFailsType, OutsidePicked DEF ReadDir, Inv
<1>0. /\ pc = "scanning" /\ pc' = pc /\ e \in Node /\ e \in Heads /\ e \notin File
      /\ Once /\ Sited /\ Nested /\ HasChart(list, sumFiles, Reading)
  BY NamesAssumption DEF ReadDir, Returned, Node, Heads, Counted, Picked
<1>1. PICK h \in Heads, j \in Nat \ {0} :
        /\ h = Here /\ j = Len(path) /\ h = path[j] /\ OnPath(h)
        /\ list \in Lists
        /\ sumFiles \in Counts /\ sumDirs \in Counts
        /\ path \in Seq(Heads) /\ \A i, k \in 1 .. j : path[i] = path[k] => i = k
  BY <1>0, Recursion
<1>2. list' \in Lists /\ sumFiles' \in Counts
  BY StepType DEF Next, Scan, TypeOK, HeadType, Lists, Counts
<1>3. ~OnPath(e) /\ e # h /\ Parent[e] = h /\ e \notin seen[h]
  BY <1>0, <1>1, NotOnPath DEF ReadDir, Returned
<1>4. e \notin Listed(h) /\ list[e] = <<>>
  BY <1>0, <1>1, <1>3 DEF Once
<1>5. /\ list'[h] = Append(list[h], e) /\ list'[e] = list[e]
      /\ sumFiles'[h] = (IF list[h] = <<>> THEN 0 ELSE sumFiles[h]) + 0
      /\ \A d \in Heads : d \notin {h, e} => list'[d] = list[d] /\ sumFiles'[d] = sumFiles[d]
  BY <1>0, <1>1, <1>3, <1>4 DEF ReadDir, Count, Lists, Counts
<1>6. /\ path' = Append(path, e) /\ Len(path') = j + 1 /\ path'[j + 1] = e
      /\ \A k \in 1 .. j : path'[k] = path[k] /\ path[k] \in Heads
  BY <1>0, <1>1, AppendProperties, ElementOfSeq DEF Open
<1>7. Reading' = Reading \cup ({e} \cap Dir)
  <2>1. \A k : k \in 1 .. Len(path') <=> k \in 1 .. Len(path) \/ k = j + 1
    BY <1>1, <1>6
  <2>2. \A d : OnPath(d)' <=> OnPath(d) \/ d = e
    BY <1>1, <1>6, <2>1 DEF OnPath
  <2> QED
    BY <1>0, <2>2 DEF Reading
<1>8. PICK l \in Lists, m \in Lists, O \in SUBSET Heads, s \in Counts, t \in Counts :
        l = list /\ m = list' /\ O = Reading /\ s = sumFiles /\ t = sumFiles'
  BY <1>1, <1>2 DEF Reading
<1>9. Grows(l, m, h, e) /\ h \in O
  BY <1>0, <1>1, <1>5, <1>8 DEF Grows, Reading
<1>10. \A d \in Heads : \A k \in 1 .. Len(l[d]) : l[d][k] # e
  <2> SUFFICES ASSUME NEW d \in Heads, NEW k \in 1 .. Len(l[d]), l[d][k] = e PROVE FALSE
    OBVIOUS
  <2>1. d = h
    BY <1>0, <1>3, <1>8 DEF Sited, SitedIn
  <2>2. k \in DOMAIN list[h]
    BY <1>1, <1>8, <2>1, LenProperties DEF Lists
  <2> QED
    BY <1>4, <1>8, <2>1, <2>2 DEF Listed
<1>11. Sited'
  <2>1. SitedIn(l)
    BY <1>0, <1>8 DEF Sited
  <2>2. SitedIn(m)
    BY <1>0, <1>3, <1>9, <2>1, SitedGrows
  <2> QED
    BY <1>8, <2>2 DEF Sited, SitedIn
<1>12. Nested'
  <2> SUFFICES ASSUME NEW i \in 1 .. j
               PROVE  \E z \in Nat \ {0} : LastOf(m, path'[i], z, path'[i + 1])
    BY <1>1, <1>6, <1>8 DEF Nested
  <2>1. CASE i = j
    <3>1. \E z \in Nat \ {0} : LastOf(m, h, z, e)
      BY <1>0, <1>9, <1>10, LastOfNew
    <3> QED
      BY <1>1, <1>6, <2>1, <3>1
  <2>2. CASE i # j
    <3>1. i \in 1 .. j - 1 /\ i \in 1 .. j /\ i + 1 \in 1 .. j /\ j \in 1 .. j
      BY <1>1, <2>2
    <3>2. PICK z \in Nat \ {0} : LastOf(l, path[i], z, path[i + 1])
      BY <1>0, <1>1, <1>8, <3>1 DEF Nested
    <3>3. path[i] \in Heads /\ path[i + 1] \in Heads /\ path[i] # h /\ path[i + 1] # e
      BY <1>1, <1>3, <1>6, <2>2, <3>1 DEF OnPath
    <3>4. LastOf(m, path[i], z, path[i + 1])
      BY <1>0, <1>9, <3>2, <3>3, LastOfGrows
    <3> QED
      BY <1>6, <3>1, <3>4
  <2> QED
    BY <2>1, <2>2
<1>13. HasChart(m, t, O \cup ({e} \cap Dir))
  <2>1. t[h] = (IF l[h] = <<>> THEN 0 ELSE s[h]) + (IF e \in File THEN 1 ELSE 0)
    BY <1>0, <1>5, <1>8
  <2>2. \A d \in Heads : d # h => l[d] = <<>> \/ t[d] = s[d]
    BY <1>4, <1>5, <1>8
  <2>3. HasChart(l, s, O) /\ l[e] = <<>>
    BY <1>0, <1>4, <1>8
  <2> QED
    BY <1>0, <1>9, <1>10, <2>1, <2>2, <2>3, EntryChart
<1> QED
  BY <1>0, <1>7, <1>8, <1>11, <1>12, <1>13 DEF Picked, PicksCover

\* One level up: the directory left is the last entry of the one above it.
LEMMA EndDirPicked ==
  ASSUME Inv, Counted, Picked, EndDir
  PROVE  Picked'
<1>0. /\ pc = "scanning" /\ pc' = pc /\ list' = list /\ Len(path) > 1 /\ Entered
      /\ Sited /\ Nested /\ HasChart(list, sumFiles, Reading)
  BY DEF EndDir, Exhausted, Counted, mainVars, Picked
<1>1. PICK h \in Heads, z \in Nat \ {0} :
        /\ h = Here /\ z = Len(path) /\ h = path[z] /\ OnPath(h)
        /\ list \in Lists
        /\ sumFiles \in Counts /\ sumDirs \in Counts
        /\ path \in Seq(Heads) /\ \A i, k \in 1 .. z : path[i] = path[k] => i = k
  BY <1>0, Recursion
<1>2. PICK j \in Nat \ {0} : z = j + 1 /\ j = Len(path) - 1
  <2>1. z > 1
    BY <1>0, <1>1
  <2>2. z - 1 \in Nat \ {0} /\ z = z - 1 + 1
    BY <2>1
  <2> QED
    BY <1>1, <2>2
<1>3. PICK up \in Heads : up = path[j] /\ up # h /\ OnPath(up)
  <2>1. j \in 1 .. Len(path) /\ z \in 1 .. z /\ j \in 1 .. z /\ j # z
    BY <1>1, <1>2
  <2> QED
    BY <1>1, <2>1, ElementOfSeq DEF OnPath
<1>4. h \in Dir /\ (list[h] = <<>> => sumFiles[h] = 0)
  <2>1. z \in 2 .. Len(path)
    BY <1>1, <1>2
  <2> QED
    BY <1>0, <1>1, <2>1 DEF Entered, Inv, Leads
<1>5. /\ sumFiles'[up] = sumFiles[up] + sumFiles[h] /\ sumFiles' \in Counts
      /\ \A d \in Heads : d # up => sumFiles'[d] = sumFiles[d]
  <2>1. sumFiles' \in Counts
    BY StepType DEF Next, Scan, TypeOK, HeadType, Counts
  <2> QED
    BY <1>1, <1>2, <1>3, <2>1 DEF EndDir, Counts
<1>6. Len(path') = j /\ \A k \in 1 .. j : path'[k] = path[k] /\ k \in 1 .. Len(path)
  <2>1. path' = SubSeq(path, 1, j)
    BY <1>2 DEF EndDir, Closed
  <2>2. \A k \in 1 .. j : k \in 1 .. Len(path)
    BY <1>1, <1>2
  <2>3. \A k \in 1 .. j : path[k] \in Heads
    BY <1>1, <2>2, ElementOfSeq
  <2>4. Len(path') = (IF 1 <= j THEN j - 1 + 1 ELSE 0) /\ \A k \in 1 .. j - 1 + 1 : path'[k] = path[1 + k - 1]
    BY <2>1, <2>3, SubSeqProperties, 1 \in Int, j \in Int
  <2> QED
    BY <2>1, <2>2, <2>4
<1>7. Reading' = Reading \ {h}
  <2>1. \A k : k \in 1 .. z <=> k \in 1 .. j \/ k = z
    BY <1>2
  <2>2. \A k \in 1 .. j : path[k] # h
    <3>1. z \in 1 .. z /\ \A k \in 1 .. j : k \in 1 .. z /\ k # z
      BY <1>2
    <3> QED
      BY <1>1, <3>1
  <2>3. \A d : OnPath(d)' <=> OnPath(d) /\ d # h
    BY <1>1, <1>6, <2>1, <2>2 DEF OnPath
  <2> QED
    BY <2>3 DEF Reading
<1>8. Sited' /\ Nested'
  <2>1. \A i \in 1 .. Len(path') - 1 : i \in 1 .. Len(path) - 1 /\ i \in 1 .. j /\ i + 1 \in 1 .. j
    BY <1>1, <1>2, <1>6
  <2> QED
    BY <1>0, <1>6, <2>1 DEF Sited, SitedIn, Nested
<1>9. PICK y \in Nat \ {0} : LastOf(list, up, y, h)
  <2>1. j \in 1 .. Len(path) - 1
    BY <1>2
  <2> QED
    BY <1>0, <1>1, <1>2, <1>3, <2>1 DEF Nested
<1>10. PICK l \in Lists, O \in SUBSET Heads, s \in Counts, t \in Counts :
         l = list /\ O = Reading /\ s = sumFiles /\ t = sumFiles' /\ h \in O /\ up \in O
  <2>1. Reading \in SUBSET Heads /\ h \in Reading /\ up \in Reading
    BY <1>1, <1>3 DEF Reading
  <2> QED
    BY <1>1, <1>5, <2>1
<1>11. HasChart(l, t, O \ {h})
  <2>1. /\ t[up] = s[up] + s[h] /\ (l[h] = <<>> => s[h] = 0)
        /\ \A d \in Heads : d # up => t[d] = s[d]
    BY <1>4, <1>5, <1>10
  <2>2. HasChart(l, s, O) /\ LastOf(l, up, y, h) /\ h \in O /\ up \in O /\ up # h /\ h \in Dir
    BY <1>0, <1>3, <1>4, <1>9, <1>10
  <2> QED
    BY <2>1, <2>2, LeaveChart
<1> QED
  BY <1>0, <1>7, <1>8, <1>10, <1>11 DEF Picked, PicksCover

\* What is found depends on the list alone.
LEMMA SamePicks ==
  ASSUME UNCHANGED headVars
  PROVE  /\ {Found(u) : u \in Rolls}' = {Found(u) : u \in Rolls}
         /\ Places(File)' = Places(File)
<1>1. Places(File)' = Places(File) /\ Rolls' = Rolls
  BY DEF headVars, Places, Rolls
<1>2. \A u : Found(u)' = Found(u)
  BY DEF headVars, Found
<1> QED
  BY <1>1, <1>2

\* The scan is over: the chart is complete.
LEMMA EndScanPicked ==
  ASSUME Inv, Picked, EndScan
  PROVE  Picked'
<1>1. pc = "scanning" /\ Len(path) = 1 /\ path[1] = Root /\ HasChart(list, sumFiles, Reading)
      /\ list \in Lists /\ sumFiles \in Counts
  BY DEF EndScan, Exhausted, Picked, Inv, Leads, TypeOK, HeadType, Lists, Counts
<1>2. CASE pc' = "decide" /\ UNCHANGED headVars
  <2>1. Reading = {Root}
    <3>1. \A d : OnPath(d) <=> d = Root
      BY <1>1 DEF OnPath
    <3> QED
      BY <3>1 DEF Reading, Heads
  <2>2. {Found(u) : u \in Rolls} = IF Places(File) = {} THEN {None} ELSE Places(File)
    BY <1>1, <2>1, ChartPicks
  <2>3. PicksCover'
    BY <1>2, <2>2, SamePicks DEF PicksCover
  <2> QED
    BY <1>2, <2>3 DEF Picked
<1>3. CASE NothingToRead
  BY <1>3, OutsidePicked DEF NothingToRead, Exit
<1> QED
  BY <1>2, <1>3 DEF EndScan

\* The lists, the path and the place in the turn are as they were.
LEMMA SamePicked ==
  ASSUME Picked, UNCHANGED headVars, pc' = pc, path' = path
  PROVE  Picked'
<1>1. PicksCover'
  BY SamePicks DEF Picked, PicksCover
<1>2. Reading' = Reading
  BY DEF Reading, OnPath
<1> QED
  BY <1>1, <1>2 DEF Picked, Sited, SitedIn, Nested, headVars

\* All the steps.
LEMMA StepPicked == Inv /\ Counted /\ Picked /\ [Next]_vars => Picked'
<1> SUFFICES ASSUME Inv, Counted, Picked, [Next]_vars PROVE Picked'
  OBVIOUS
<1>1. CASE Scan
  BY <1>1, ReadFilePicked, ReadDirPicked, EndDirPicked, EndScanPicked DEF Scan
<1>2. CASE Finish \/ ActOnPick \/ \E f \in File : ActCreate(f)
  BY <1>2, OutsidePicked DEF Finish, Exit, ActOnPick, ActCreate, EndTurn
<1>3. CASE \/ \E f \in File : OthersUnlink(f)
           \/ \E n \in Node : OthersMake(n)
           \/ UNCHANGED vars
  BY <1>3, SamePicked DEF OthersUnlink, OthersMake, readVars, vars
<1> QED
  BY <1>1, <1>2, <1>3, StartPicked DEF Next

(***************************************************************************)
(* Theorems.                                                               *)
(***************************************************************************)
\* The variables keep their types: main's counts of scans that came to nothing
\* stop at one more than the patience it has (main, getDirEntriesOf).
THEOREM TypeCorrect == Spec => []TypeOK
<1>1. Inv => TypeOK
  BY DEF Inv
<1> QED
  BY <1>1, Invariance, PTL

\* "Link list is full when it should be empty" is met only after a directory
\* below szBase could not be opened (getDirEntriesOf, destroyList, main).
THEOREM OnlyBrokenScanLeavesListHolds == Spec => []OnlyBrokenScanLeavesList
<1>1. Inv => OnlyBrokenScanLeavesList
  BY DEF Inv, Destroyed
<1> QED
  BY <1>1, Invariance, PTL

\* A scan finds every name that is in the tree while it runs, in whatever order
\* the directories are read and whatever else comes and goes (getDirEntriesOf).
THEOREM SeesWhatLastsHolds == Spec => []SeesWhatLasts
<1>1. Inv => SeesWhatLasts
  BY DEF Inv
<1> QED
  BY <1>1, Invariance, PTL

\* The counts main measures are those of the entries found (appendElement,
\* appendChild, getDirEntriesOf).
THEOREM CountsOfListHolds == Spec => []CountsOfList
<1>1. Init => Inv /\ Counted
  BY InitInv, InitCounted
<1>2. Inv /\ Counted /\ [Next]_vars => (Inv /\ Counted)'
  BY StepInv, StepCounted
<1>3. Inv /\ Counted => CountsOfList
  BY DEF Counted
<1> QED
  BY <1>1, <1>2, <1>3, PTL DEF Spec

\* Every roll of findActiveFile picks a file of the list, every file of it can
\* be picked, and findDirEntryOf never finds its count out of bounds, in a tree
\* of any depth (findActiveFile, findDirEntryOf, getDirEntriesOf).
THEOREM PicksCoverHolds == Spec => []PicksCover
<1>1. Init => Inv /\ Counted /\ Picked
  BY InitInv, InitCounted, InitPicked
<1>2. Inv /\ Counted /\ Picked /\ [Next]_vars => (Inv /\ Counted /\ Picked)'
  BY StepInv, StepCounted, StepPicked
<1>3. Inv /\ Counted /\ Picked => PicksCover
  BY DEF Picked
<1> QED
  BY <1>1, <1>2, <1>3, PTL DEF Spec
=============================================================================
