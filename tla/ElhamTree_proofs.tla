-------------------------- MODULE ElhamTree_proofs --------------------------
(***************************************************************************)
(* Theorems about ElhamTree, for every size of a word and all settings of  *)
(* -width, -depth and -files: types, that a path spells the number it was  *)
(* made from, that no path is longer than -depth allows, that every number *)
(* rolled has a path, and that there are as many numbers as files in the   *)
(* complete tree.                                                          *)
(*                                                                         *)
(* The invariant says what the table of grades means (Table): there is     *)
(* one directory on level 0, and as many down to a level as there are      *)
(* children of those down to the level above, and one.  A number below     *)
(* dirs[k] then has its parent below dirs[k - 1], so a call of             *)
(* buildPathStackOf goes up one level at least (Walk), and the number      *)
(* rolled is always the sum of what the names spell and what is yet to be  *)
(* found, in units of place.                                               *)
(*                                                                         *)
(* That dirs[k] is the number of paths down to level k follows level by    *)
(* level, with the table: a path one level deeper is the empty one, or a   *)
(* path and a last name (Counted).                                         *)
(***************************************************************************)
EXTENDS ElhamTree, SequenceTheorems, FiniteSetTheorems, FunctionTheorems, TLAPS

Table ==
  ~wrapped =>
    /\ dirs[0] = 1 /\ files[0] = opt.files
    /\ \A k \in 1 .. i - 1 : /\ dirs[k] = opt.width * dirs[k - 1] + 1
                             /\ files[k] = dirs[k] * opt.files
    /\ i <= opt.depth => u = (opt.width - 1) * dirs[i - 1] + 1

\* Without subdirectories the table is too small to wrap.
Flat == opt.width = 0 => ~wrapped

Empty == opt.files = 0 => \A k \in Levels : files[k] = 0

Walk ==
  pc = "walk" =>
    /\ i > opt.depth
    /\ ~wrapped => /\ Len(names) \in 1 .. opt.depth + 1
                   /\ toFind < dirs[opt.depth + 1 - Len(names)]
                   /\ asked = place * toFind + value

Inv == TypeOK /\ Table /\ Flat /\ Empty /\ Walk
  /\ PathSpellsNumber /\ PathWithinDepth /\ LostOnlyIfWrapped

(***************************************************************************)
(* Division.                                                               *)
(***************************************************************************)
LEMMA DivMod ==
  ASSUME NEW a \in Nat, NEW b \in Nat, b > 0
  PROVE  \E c \in Nat, r \in Nat : c = a \div b /\ r = a % b /\ r < b /\ a = b * c + r
<1>1. a \div b \in Int /\ a % b \in Int /\ a % b >= 0 /\ a % b < b
  OBVIOUS
<1>2. a % b = a - b * (a \div b)
  BY Z3
<1>3. a \div b >= 0
  OBVIOUS
<1>4. PICK c \in Int, r \in Int : c = a \div b /\ r = a % b
  BY <1>1
<1>5. r = a - b * c /\ r >= 0 /\ r < b /\ c >= 0
  BY <1>1, <1>2, <1>3, <1>4
<1>6. a = b * c + r /\ c \in Nat /\ r \in Nat
  BY <1>5
<1> QED
  BY <1>4, <1>5, <1>6

LEMMA DivUnique ==
  ASSUME NEW q \in Nat, NEW r \in Nat, NEW b \in Nat, r < b, NEW a \in Nat, a = b * q + r
  PROVE  a \div b = q /\ a % b = r
OBVIOUS

LEMMA DivShift ==
  ASSUME NEW a \in Nat, NEW q \in Nat, NEW b \in Nat, b > 0
  PROVE  (b * q + a) \div b = q + (a \div b) /\ (b * q + a) % b = a % b
<1>1. PICK c \in Nat, r \in Nat : c = a \div b /\ r = a % b /\ r < b /\ a = b * c + r
  BY DivMod
<1>2. q + c \in Nat /\ b * q + a \in Nat /\ b * q + a = b * (q + c) + r
  BY <1>1
<1> QED
  BY <1>1, <1>2, DivUnique

LEMMA DivLess ==
  ASSUME NEW a \in Nat, NEW q \in Nat, NEW b \in Nat, b > 0, a < b * q
  PROVE  a \div b < q
OBVIOUS

LEMMA WrapType ==
  ASSUME NEW n \in Nat
  PROVE  Wrap(n) \in Words /\ (n < Word => Wrap(n) = n)
BY WordAssumption, DivMod DEF Wrap, Words

\* The directories of the next level, and all of them.
LEMMA NextLevel ==
  ASSUME NEW w \in Nat, NEW g \in Nat, NEW p \in Nat, p = (w - 1) * g + 1
  PROVE  g + p = w * g + 1 /\ p * w = (w - 1) * (g + p) + 1
OBVIOUS

LEMMA OptType ==
  ASSUME TypeOK
  PROVE  opt.width \in Words /\ opt.depth \in Nat /\ opt.files \in Words
BY OptionAssumption DEF TypeOK, Words

(***************************************************************************)
(* The table.                                                              *)
(***************************************************************************)
LEMMA InitInv == Init => Inv
<1> SUFFICES ASSUME Init PROVE Inv
  OBVIOUS
<1>0. opt.width \in Words /\ opt.depth \in Nat /\ opt.files \in Words /\ 0 \in Words /\ 1 \in Words
  BY OptionAssumption, WordAssumption DEF Init, Words
<1>1. dirs \in [Levels -> Words] /\ files \in [Levels -> Words]
  BY <1>0 DEF Init
<1>2. i \in 1 .. opt.depth + 1 /\ 0 \in Levels
  BY <1>0 DEF Init, Levels
<1>3. TypeOK
  <2>1. names \in Seq(Words)
    BY EmptySeq DEF Init
  <2> QED
    BY <1>0, <1>1, <1>2, <2>1 DEF Init, TypeOK
<1>4. dirs[0] = 1 /\ files[0] = opt.files
  BY <1>2 DEF Init
<1>5. Table
  BY <1>0, <1>4 DEF Init, Table, Words
<1> QED
  BY <1>3, <1>5 DEF Init, Inv, Flat, Empty, Walk, PathSpellsNumber, PathWithinDepth, LostOnlyIfWrapped

LEMMA GradeInv == Inv /\ Grade => Inv'
<1> SUFFICES ASSUME Inv, Grade PROVE Inv'
  OBVIOUS
<1>0. /\ opt.width \in Nat /\ opt.depth \in Nat /\ opt.files \in Nat /\ opt.files < Word
      /\ Word \in Nat /\ TypeOK /\ Table
  BY OptType, WordAssumption DEF Inv, Words
<1>1. /\ i \in 1 .. opt.depth /\ i - 1 \in Levels /\ i \in Levels
      /\ dirs[i - 1] \in Nat /\ u \in Nat
  <2>1. i \in 1 .. opt.depth /\ i - 1 \in Levels /\ i \in Levels
    BY <1>0 DEF TypeOK, Grade, Levels
  <2>2. \A n \in Words : n \in Nat
    BY <1>0 DEF Words
  <2>3. dirs[i - 1] \in Words /\ u \in Words
    BY <1>0, <2>1 DEF TypeOK
  <2> QED
    BY <2>1, <2>2, <2>3
<1> DEFINE d == dirs[i - 1] + u
<1>2. d \in Nat /\ d * opt.files \in Nat /\ u * opt.width \in Nat
  BY <1>0, <1>1
<1>3. Wrap(d) \in Nat /\ Wrap(d) \in Words /\ Wrap(u * opt.width) \in Words
  BY <1>2, WrapType DEF Words
<1>4. Wrap(d) * opt.files \in Nat
  BY <1>0, <1>3
<1>5. Wrap(Wrap(d) * opt.files) \in Words
  BY <1>4, WrapType
<1>6. /\ dirs' = [dirs EXCEPT ![i] = Wrap(d)]
      /\ files' = [files EXCEPT ![i] = Wrap(Wrap(d) * opt.files)]
      /\ u' = Wrap(u * opt.width) /\ i' = i + 1 /\ opt' = opt /\ pc' = pc
      /\ toFind' = toFind /\ names' = names /\ asked' = asked /\ value' = value /\ place' = place
      /\ wrapped' = \/ wrapped
                    \/ d >= Word \/ d * opt.files >= Word
                    \/ i < opt.depth /\ u * opt.width >= Word
  BY DEF Grade, walkVars
<1> HIDE DEF d
<1>7. TypeOK'
  <2>1. dirs' \in [Levels -> Words] /\ files' \in [Levels -> Words]
    BY <1>0, <1>3, <1>5, <1>6 DEF TypeOK
  <2>2. i' \in 1 .. opt.depth + 1 /\ wrapped' \in BOOLEAN
    BY <1>0, <1>1, <1>6 DEF TypeOK
  <2> QED
    BY <1>0, <1>3, <1>6, <2>1, <2>2 DEF TypeOK, Levels
<1>8. /\ \A k \in Levels : k # i => dirs'[k] = dirs[k] /\ files'[k] = files[k]
      /\ dirs'[i] = Wrap(d) /\ files'[i] = Wrap(Wrap(d) * opt.files)
  BY <1>0, <1>1, <1>6 DEF TypeOK
<1>9. ASSUME ~wrapped
      PROVE  d = opt.width * dirs[i - 1] + 1 /\ u * opt.width = (opt.width - 1) * d + 1
  <2>1. u = (opt.width - 1) * dirs[i - 1] + 1
    BY <1>0, <1>1, <1>9 DEF Table
  <2>2. PICK w \in Nat, g \in Nat, p \in Nat : w = opt.width /\ g = dirs[i - 1] /\ p = u
    BY <1>0, <1>1
  <2>3. p = (w - 1) * g + 1
    BY <2>1, <2>2
  <2>4. g + p = w * g + 1 /\ p * w = (w - 1) * (g + p) + 1
    BY <2>3, NextLevel
  <2> QED
    BY <2>2, <2>4 DEF d
<1>10. Table'
  <2> SUFFICES ASSUME ~wrapped' PROVE Table'
    BY DEF Table
  <2>1. ~wrapped /\ d < Word /\ d * opt.files < Word
        /\ (i < opt.depth => u * opt.width < Word)
    BY <1>0, <1>2, <1>6
  <2>2. /\ dirs'[i] = d /\ files'[i] = d * opt.files
        /\ i < opt.depth => u' = u * opt.width
    BY <1>2, <1>6, <1>8, <2>1, WrapType
  <2>3. dirs'[0] = 1 /\ files'[0] = opt.files
    BY <1>0, <1>1, <1>8, <2>1 DEF Table, Levels
  <2>4. ASSUME NEW k \in 1 .. i' - 1
        PROVE  dirs'[k] = opt.width * dirs'[k - 1] + 1 /\ files'[k] = dirs'[k] * opt.files
    <3>1. CASE k = i
      <4>1. dirs'[i - 1] = dirs[i - 1]
        BY <1>1, <1>8
      <4> QED
        BY <1>9, <2>1, <2>2, <3>1, <4>1
    <3>2. CASE k # i
      <4>1. k \in 1 .. i - 1 /\ k \in Levels /\ k - 1 \in Levels /\ k - 1 # i
        BY <1>0, <1>1, <1>6, <3>2 DEF Levels
      <4>2. dirs[k] = opt.width * dirs[k - 1] + 1 /\ files[k] = dirs[k] * opt.files
        BY <1>0, <2>1, <4>1 DEF Table
      <4> QED
        BY <1>8, <3>2, <4>1, <4>2
    <3> QED
      BY <3>1, <3>2
  <2>5. i' <= opt.depth => u' = (opt.width - 1) * dirs'[i' - 1] + 1
    <3>1. i' - 1 = i /\ (i' <= opt.depth => i < opt.depth)
      BY <1>0, <1>1, <1>6
    <3> QED
      BY <1>9, <2>1, <2>2, <3>1
  <2> QED
    BY <1>6, <2>3, <2>4, <2>5 DEF Table
<1>11. Flat'
  <2> SUFFICES ASSUME opt.width = 0 PROVE ~wrapped'
    BY <1>6 DEF Flat
  <2>1. ~wrapped
    BY DEF Inv, Flat
  <2>2. opt.width * dirs[i - 1] = 0 /\ u * opt.width = 0
    BY <1>0, <1>1
  <2>3. d = 1 /\ d * opt.files = opt.files
    BY <1>0, <1>9, <2>1, <2>2
  <2> QED
    BY <1>0, <1>6, <2>1, <2>2, <2>3, WordAssumption
<1>e. Empty'
  <2> SUFFICES ASSUME opt.files = 0, NEW k \in Levels PROVE files'[k] = 0
    BY <1>6 DEF Empty, Levels
  <2>1. Wrap(d) * opt.files = 0
    BY <1>0, <1>3
  <2>2. Wrap(0) = 0
    BY WrapType, WordAssumption
  <2> QED
    BY <1>8, <2>1, <2>2 DEF Inv, Empty
<1>12. Walk'
  <2>1. pc # "walk"
    BY <1>0, <1>1 DEF Inv, Walk
  <2> QED
    BY <1>6, <2>1 DEF Walk
<1>13. PathSpellsNumber' /\ PathWithinDepth' /\ LostOnlyIfWrapped'
  <2>1. wrapped => wrapped'
    BY <1>6
  <2> QED
    BY <1>6, <2>1 DEF Inv, PathSpellsNumber, PathWithinDepth, LostOnlyIfWrapped
<1> QED
  BY <1>7, <1>10, <1>11, <1>e, <1>12, <1>13 DEF Inv

\* What the finished table means.
LEMMA TableType ==
  ASSUME Inv
  PROVE  \A k \in Levels : dirs[k] \in Nat /\ files[k] \in Nat
BY DEF Inv, TypeOK, Words

LEMMA Finished ==
  ASSUME Inv, i > opt.depth, ~wrapped
  PROVE  \A k \in Levels :
           /\ dirs[k] >= 1 /\ files[k] = dirs[k] * opt.files
           /\ k > 0 => k - 1 \in Levels /\ dirs[k] = opt.width * dirs[k - 1] + 1
<1> SUFFICES ASSUME NEW k \in Levels
             PROVE  /\ dirs[k] >= 1 /\ files[k] = dirs[k] * opt.files
                    /\ k > 0 => k - 1 \in Levels /\ dirs[k] = opt.width * dirs[k - 1] + 1
  OBVIOUS
<1>0. opt.width \in Nat /\ opt.depth \in Nat /\ opt.files \in Nat /\ i = opt.depth + 1
  BY OptType DEF Inv, TypeOK, Words
<1>1. CASE k = 0
  BY <1>0, <1>1 DEF Inv, Table
<1>2. CASE k # 0
  <2>1. k \in 1 .. i - 1 /\ k - 1 \in Levels
    BY <1>0, <1>2 DEF Levels
  <2>2. dirs[k] = opt.width * dirs[k - 1] + 1 /\ files[k] = dirs[k] * opt.files
    BY <2>1 DEF Inv, Table
  <2>3. opt.width * dirs[k - 1] \in Nat
    BY <1>0, <2>1, TableType
  <2> QED
    BY <2>1, <2>2, <2>3
<1> QED
  BY <1>1, <1>2

(***************************************************************************)
(* The search.                                                             *)
(***************************************************************************)
\* The m-th child, found at place r of the c-th parent after q of them: that
\* parent is below g when the child is among those of g parents.
LEMMA Search ==
  ASSUME NEW b \in Nat, NEW q \in Nat, NEW c \in Nat, NEW r \in Nat, r < b,
         NEW m \in Nat, m = b * q + (b * c + r), NEW g \in Nat, m < b * g
  PROVE  m = b * (q + c) + r /\ q + c < g
<1>1. PICK p \in Nat : p = q + c
  OBVIOUS
<1>2. m = b * p + r
  BY <1>1
<1>3. p < g
  <2> SUFFICES ASSUME p >= g PROVE FALSE
    OBVIOUS
  <2>1. b * p >= b * g
    OBVIOUS
  <2>2. b * p \in Nat /\ b * g \in Nat
    OBVIOUS
  <2> QED
    BY <1>2, <2>1, <2>2
<1> QED
  BY <1>1, <1>2, <1>3

LEMMA BeforeType ==
  ASSUME Inv, NEW k \in Levels
  PROVE  /\ Before(dirs, k - 1) \in Nat /\ Before(dirs, k - 2) \in Nat
         /\ Before(files, k - 1) \in Nat
         /\ \A n \in Nat : OnLevel(n, files, k) => n - Before(files, k - 1) \in Nat
         /\ \A n \in Nat : OnLevel(n, dirs, k) => n - Before(dirs, k - 1) \in Nat
<1>0. k \in Nat /\ opt.depth \in Nat
  BY OptType DEF Inv, Levels
<1>1. CASE k = 0
  BY <1>1 DEF Before
<1>2. CASE k > 0
  <2>1. k - 1 \in Levels /\ k - 1 \in 0 .. k - 1 /\ (k > 1 => k - 2 \in Levels)
    BY <1>0, <1>2 DEF Levels
  <2>2. dirs[k - 1] \in Nat /\ files[k - 1] \in Nat /\ (k > 1 => dirs[k - 2] \in Nat)
    BY <2>1, TableType
  <2> QED
    BY <1>0, <1>2, <2>1, <2>2 DEF Before, OnLevel
<1> QED
  BY <1>0, <1>1, <1>2

LEMMA RollInv == Inv /\ Roll => Inv'
<1> SUFFICES ASSUME Inv, Roll PROVE Inv'
  OBVIOUS
<1>0. /\ opt.width \in Nat /\ opt.depth \in Nat /\ opt.files \in Nat /\ opt.files < Word
      /\ Word \in Nat /\ TypeOK /\ i > opt.depth /\ opt.depth \in Levels
      /\ files[opt.depth] \in Nat
  BY OptType, WordAssumption, TableType DEF Inv, Words, Roll, Levels
<1>1. /\ opt' = opt /\ dirs' = dirs /\ files' = files /\ u' = u /\ i' = i /\ wrapped' = wrapped
      /\ pc = "idle"
  BY DEF Roll, gradeVars
<1>2. Table' /\ Flat' /\ Empty'
  BY <1>1 DEF Inv, Table, Flat, Empty, Levels
<1>3. CASE Limit = 0
  <2>1. pc' = "trapped" /\ UNCHANGED walkVars
    BY <1>3 DEF Roll
  <2>2. TypeOK'
    BY <1>0, <1>1, <2>1 DEF TypeOK, walkVars, Levels
  <2>3. opt.files = 0 \/ wrapped
    <3> SUFFICES ASSUME ~wrapped PROVE opt.files = 0
      OBVIOUS
    <3>1. dirs[opt.depth] \in Nat /\ dirs[opt.depth] >= 1 /\ dirs[opt.depth] * opt.files = 0
      BY <1>0, <1>3, Finished, TableType DEF Limit
    <3> QED
      BY <1>0, <3>1
  <2>4. Walk' /\ PathSpellsNumber' /\ PathWithinDepth' /\ LostOnlyIfWrapped'
    BY <1>1, <2>1, <2>3 DEF Walk, PathSpellsNumber, PathWithinDepth, LostOnlyIfWrapped
  <2> QED
    BY <1>2, <2>2, <2>4 DEF Inv
<1>4. ASSUME Limit # 0, NEW n \in 0 .. Limit - 1, NEW k \in Levels, OnLevel(n, files, k),
             LET index == n - Before(files, k - 1)
                 id == index % opt.files
             IN  /\ toFind' = Wrap(Before(dirs, k - 1) + index \div opt.files)
                 /\ names' = <<id>> /\ value' = id /\ place' = opt.files,
             asked' = n /\ pc' = "walk"
      PROVE  Inv'
  <2>1. opt.files > 0 /\ n \in Nat /\ n < files[opt.depth] /\ n \in Words
    <3>1. n \in Nat /\ n < files[opt.depth]
      BY <1>0, <1>4 DEF Limit
    <3>2. n \in Words
      BY <1>0, <3>1 DEF TypeOK, Words
    <3>3. opt.files # 0
      BY <1>0, <3>1 DEF Inv, Empty
    <3> QED
      BY <1>0, <3>1, <3>2, <3>3
  <2>2. PICK q \in Nat, index \in Nat : q = Before(dirs, k - 1) /\ index = n - Before(files, k - 1)
    BY <1>4, <2>1, BeforeType
  <2>3. PICK c \in Nat, id \in Nat : c = index \div opt.files /\ id = index % opt.files
                                 /\ id < opt.files /\ index = opt.files * c + id
    BY <1>0, <2>1, DivMod
  <2>4. toFind' = Wrap(q + c) /\ names' = <<id>> /\ value' = id /\ place' = opt.files
    BY <1>4, <2>2, <2>3
  <2>5. TypeOK'
    <3>1. id \in Words
      BY <1>0, <2>3 DEF Words
    <3>2. names' \in Seq(Words) /\ toFind' \in Words
      BY <2>4, <3>1, WrapType
    <3> QED
      BY <1>0, <1>1, <1>4, <2>1, <2>4, <3>2 DEF TypeOK, Levels
  <2>6. ASSUME ~wrapped
        PROVE  toFind' < dirs[opt.depth] /\ n = opt.files * toFind' + id
    <3>1. n = opt.files * q + index
      <4>1. CASE k = 0
        BY <2>2, <4>1, <1>0, <2>1 DEF Before
      <4>2. CASE k # 0
        <5>1. k \in Nat /\ k - 1 \in Levels
          BY <1>0, <4>2 DEF Levels
        <5>2. files[k - 1] = dirs[k - 1] * opt.files /\ dirs[k - 1] \in Nat
          BY <1>0, <2>6, <5>1, Finished, TableType
        <5>3. q = dirs[k - 1] /\ index = n - files[k - 1]
          BY <2>2, <4>2, <5>1 DEF Before
        <5> QED
          BY <1>0, <2>1, <5>2, <5>3
      <4> QED
        BY <4>1, <4>2
    <3>2. PICK g \in Nat : g = dirs[opt.depth] /\ g < Word
      BY <1>0 DEF TypeOK, Words
    <3>3. n < opt.files * g
      BY <1>0, <2>1, <2>6, <3>2, Finished
    <3>4. opt.files \in Nat /\ n \in Nat /\ n = opt.files * q + (opt.files * c + id)
      BY <1>0, <2>1, <2>3, <3>1
    <3>5. n = opt.files * (q + c) + id /\ q + c < g
      <4>1. id < opt.files
        BY <2>3
      <4> QED
        BY <3>3, <3>4, <4>1, Search
    <3>6. toFind' = q + c
      BY <1>0, <2>4, <3>2, <3>5, WrapType
    <3> QED
      BY <3>2, <3>5, <3>6
  <2>7. Walk'
    <3>1. Len(names') = 1 /\ opt.depth + 1 - Len(names') = opt.depth
      BY <1>0, <2>4
    <3> QED
      BY <1>0, <1>1, <1>4, <2>4, <2>6, <3>1 DEF Walk
  <2> QED
    BY <1>2, <1>4, <2>5, <2>7 DEF Inv, PathSpellsNumber, PathWithinDepth, LostOnlyIfWrapped
<1> QED
  BY <1>3, <1>4 DEF Roll

LEMMA EnterInv == Inv /\ Enter => Inv'
<1> SUFFICES ASSUME Inv, Enter PROVE Inv'
  OBVIOUS
<1>0. /\ opt.width \in Nat /\ opt.width < Word /\ opt.depth \in Nat /\ Word \in Nat /\ TypeOK
      /\ pc = "walk" /\ i > opt.depth /\ toFind \in Nat /\ toFind # 0
      /\ place \in Nat /\ value \in Nat /\ asked \in Nat
  <2>1. TypeOK /\ pc = "walk" /\ i > opt.depth /\ toFind # 0
    BY DEF Inv, Enter, Walk
  <2>2. opt.width \in Nat /\ opt.width < Word /\ opt.depth \in Nat /\ Word \in Nat
    BY <2>1, OptType, WordAssumption DEF Words
  <2>3. toFind \in Nat /\ asked \in Nat
    BY <2>1, WordAssumption DEF TypeOK, Words
  <2>4. place \in Nat /\ value \in Nat
    BY <2>1 DEF TypeOK
  <2> QED
    BY <2>1, <2>2, <2>3, <2>4
<1>e. UNCHANGED <<opt, gradeVars, asked>>
  BY DEF Enter, Push
<1>1. /\ opt' = opt /\ dirs' = dirs /\ files' = files /\ u' = u /\ i' = i /\ wrapped' = wrapped
      /\ pc' = pc /\ asked' = asked /\ place' = place * opt.width
  BY <1>e DEF Enter, gradeVars
<1>2. Table' /\ Flat' /\ Empty'
  BY <1>1 DEF Inv, Table, Flat, Empty, Levels
<1>3. PICK k \in Levels :
        /\ OnLevel(toFind, dirs, k)
        /\ LET index == toFind - Before(dirs, k - 1)
           IN  /\ toFind' = Wrap(Before(dirs, k - 2) + index \div opt.width)
               /\ names' = <<index % opt.width>> \o names
               /\ value' = value + place * ((index % opt.width) + 1)
  BY DEF Enter, Push
<1>4. ASSUME ~wrapped
      PROVE  \E g \in Nat : /\ Len(names) \in 1 .. opt.depth
                           /\ g = dirs[opt.depth - Len(names)] /\ g < Word
                           /\ toFind < opt.width * g + 1
  <2>1. Len(names) \in 1 .. opt.depth + 1 /\ toFind < dirs[opt.depth + 1 - Len(names)]
    BY <1>0, <1>4 DEF Inv, Walk
  <2>2. PICK m \in Levels : m = opt.depth + 1 - Len(names)
    BY <1>0, <2>1 DEF Levels
  <2>3. m # 0
    BY <1>0, <1>4, <2>1, <2>2 DEF Inv, Table
  <2>4. m - 1 \in Levels /\ dirs[m] = opt.width * dirs[m - 1] + 1
    BY <1>0, <1>4, <2>2, <2>3, Finished DEF Levels
  <2>5. m - 1 = opt.depth - Len(names) /\ Len(names) \in 1 .. opt.depth
    BY <1>0, <2>1, <2>2, <2>3 DEF Levels
  <2>6. dirs[m - 1] \in Nat /\ dirs[m - 1] < Word
    BY <1>0, <2>4 DEF TypeOK, Words
  <2> QED
    BY <2>1, <2>2, <2>4, <2>5, <2>6
<1>5. opt.width > 0
  <2> SUFFICES ASSUME opt.width = 0 PROVE FALSE
    BY <1>0
  <2>1. ~wrapped
    BY DEF Inv, Flat
  <2>2. PICK g \in Nat : toFind < opt.width * g + 1
    BY <1>4, <2>1
  <2> QED
    BY <1>0, <2>2
<1>6. PICK q \in Nat, index \in Nat : /\ q = Before(dirs, k - 2)
                                   /\ index = toFind - Before(dirs, k - 1)
  BY <1>0, <1>3, BeforeType
<1>7. PICK c \in Nat, id \in Nat : c = index \div opt.width /\ id = index % opt.width
                               /\ id < opt.width /\ index = opt.width * c + id
  BY <1>0, <1>5, DivMod
<1>d. id < opt.width /\ index = opt.width * c + id
  BY <1>7
<1>8. toFind' = Wrap(q + c) /\ names' = <<id>> \o names /\ value' = value + place * (id + 1)
  BY <1>3, <1>6, <1>7
<1>9. names \in Seq(Words) /\ <<id>> \in Seq(Words)
  BY <1>0, <1>7 DEF TypeOK, Words
<1>10. names' \in Seq(Words) /\ Len(names') = Len(names) + 1
  BY <1>8, <1>9, ConcatProperties
<1>11. TypeOK'
  <2>1. toFind' \in Words
    BY <1>8, WrapType
  <2>2. place * opt.width \in Nat /\ value + place * (id + 1) \in Nat
    BY <1>0
  <2> QED
    BY <1>0, <1>1, <1>8, <1>10, <2>1, <2>2 DEF TypeOK, Levels
<1>12. Walk'
  <2> SUFFICES ASSUME ~wrapped
               PROVE  /\ Len(names') \in 1 .. opt.depth + 1
                      /\ toFind' < dirs[opt.depth + 1 - Len(names')]
                      /\ asked = place' * toFind' + value'
    BY <1>0, <1>1 DEF Walk
  <2>1. PICK g \in Nat : /\ Len(names) \in 1 .. opt.depth
                        /\ g = dirs[opt.depth - Len(names)] /\ g < Word
                        /\ toFind < opt.width * g + 1
    BY <1>4
  <2>2. k > 0 /\ Before(dirs, k - 1) = opt.width * q + 1
    <3>1. k # 0
      BY <1>0, <1>3 DEF OnLevel, Inv, Table
    <3>2. k \in Nat /\ k - 1 \in Levels
      BY <1>0, <3>1 DEF Levels
    <3>3. CASE k = 1
      <4>1. q = 0 /\ Before(dirs, k - 1) = 1
        BY <1>6, <3>3 DEF Before, Inv, Table
      <4> QED
        BY <1>0, <3>3, <4>1
    <3>4. CASE k # 1
      <4>1. k - 1 > 0 /\ (k - 1) - 1 = k - 2 /\ k - 2 >= 0 /\ k - 1 >= 0
        BY <3>1, <3>2, <3>4
      <4>2. dirs[k - 1] = opt.width * dirs[k - 2] + 1
        BY <1>0, <3>2, <4>1, Finished
      <4> QED
        BY <1>6, <3>1, <3>2, <4>1, <4>2 DEF Before
    <3> QED
      BY <3>1, <3>2, <3>3, <3>4
  <2>3. PICK m \in Nat : m = toFind - 1
    BY <1>0
  <2>4. m = opt.width * q + index /\ m < opt.width * g
    <3>1. PICK s \in Nat, t \in Nat : s = opt.width * q /\ t = opt.width * g
      BY <1>0, <2>1
    <3>2. index = toFind - (s + 1) /\ toFind < t + 1
      BY <1>6, <2>1, <2>2, <3>1
    <3>3. m = s + index /\ m < t
      BY <1>0, <2>3, <3>1, <3>2
    <3> QED
      BY <3>1, <3>3
  <2>5. opt.width \in Nat /\ m = opt.width * q + (opt.width * c + id)
    BY <1>0, <1>d, <2>4
  <2>6. PICK p \in Nat : p = q + c /\ m = opt.width * p + id /\ p < g
    BY <1>d, <2>4, <2>5, Search
  <2>7. toFind' = p
    BY <1>0, <1>8, <2>1, <2>6, WrapType
  <2>8. asked = place' * toFind' + value'
    <3>1. asked = place * toFind + value
      BY <1>0 DEF Inv, Walk
    <3>2. toFind = opt.width * p + id + 1
      BY <1>0, <2>3, <2>6
    <3>3. place * (opt.width * p + id + 1) = (place * opt.width) * p + place * (id + 1)
      BY <1>0, <2>6
    <3>4. (place * opt.width) * p \in Nat /\ place * (id + 1) \in Nat
      BY <1>0, <2>6
    <3>5. asked = (place * opt.width) * p + (value + place * (id + 1))
      BY <1>0, <3>1, <3>2, <3>3, <3>4
    <3> QED
      BY <1>1, <1>8, <2>7, <3>5
  <2>9. Len(names') \in 1 .. opt.depth + 1 /\ opt.depth + 1 - Len(names') = opt.depth - Len(names)
    BY <1>0, <1>10, <2>1
  <2> QED
    BY <2>1, <2>6, <2>7, <2>8, <2>9
<1> QED
  BY <1>0, <1>1, <1>2, <1>11, <1>12 DEF Inv, PathSpellsNumber, PathWithinDepth, LostOnlyIfWrapped

\* The number that is looked for is on a level.
LEMMA LoseInv == Inv /\ Lose => Inv'
<1> SUFFICES ASSUME Inv, Lose PROVE Inv'
  OBVIOUS
<1>1. wrapped
  <2> SUFFICES ASSUME ~wrapped PROVE FALSE
    OBVIOUS
  <2>1. opt.depth \in Nat /\ pc = "walk" /\ toFind \in Nat
    BY OptType DEF Inv, Lose, TypeOK, Words
  <2>2. PICK k \in Levels : toFind < dirs[k]
    BY <2>1 DEF Inv, Walk, Levels
  <2> QED
    BY <2>1, <2>2, TableType DEF Lose
<1>2. UNCHANGED <<opt, gradeVars, walkVars>> /\ pc' = "lost"
  BY DEF Lose
<1> QED
  BY <1>1, <1>2 DEF Inv, TypeOK, Table, Flat, Empty, Walk, PathSpellsNumber, PathWithinDepth,
     LostOnlyIfWrapped, gradeVars, walkVars, Levels

\* Nothing is left to find, so the names spell the number.
LEMMA ArriveInv == Inv /\ Arrive => Inv'
<1> SUFFICES ASSUME Inv, Arrive PROVE Inv'
  OBVIOUS
<1>1. UNCHANGED <<opt, gradeVars, walkVars>> /\ pc' = "done" /\ pc = "walk" /\ toFind = 0
  BY DEF Arrive
<1>2. PathSpellsNumber' /\ PathWithinDepth'
  <2> SUFFICES ASSUME ~wrapped PROVE value = asked /\ Len(names) <= opt.depth + 1
    BY <1>1 DEF PathSpellsNumber, PathWithinDepth, gradeVars, walkVars
  <2>1. asked = place * toFind + value /\ Len(names) \in 1 .. opt.depth + 1
    BY <1>1 DEF Inv, Walk
  <2>2. place \in Nat /\ value \in Nat /\ opt.depth \in Nat
    BY OptType DEF Inv, TypeOK
  <2> QED
    BY <1>1, <2>1, <2>2
<1> QED
  BY <1>1, <1>2 DEF Inv, TypeOK, Table, Flat, Empty, Walk, LostOnlyIfWrapped, gradeVars,
     walkVars, Levels

LEMMA StepInv == Inv /\ [Next]_vars => Inv'
<1> SUFFICES ASSUME Inv, [Next]_vars PROVE Inv'
  OBVIOUS
<1>1. CASE UNCHANGED vars
  BY <1>1 DEF vars, gradeVars, walkVars, Inv, TypeOK, Table, Flat, Empty, Walk, PathSpellsNumber,
     PathWithinDepth, LostOnlyIfWrapped, Levels
<1> QED
  BY <1>1, GradeInv, RollInv, EnterInv, LoseInv, ArriveInv DEF Next

LEMMA Invariance == Spec => []Inv
<1> QED
  BY InitInv, StepInv, PTL DEF Spec

(***************************************************************************)
(* The complete tree.                                                      *)
(***************************************************************************)
\* The paths of the directories down to level k, when every one has w.
Paths(w, k) == UNION {[1 .. j -> 0 .. w - 1] : j \in 0 .. k}

\* How deep a path is.
Deep(n) == CHOOSE j \in Nat : DOMAIN n = 1 .. j

\* The path of the directory above.
Above(n) == [x \in 1 .. Deep(n) - 1 |-> n[x]]

\* A path is as deep as it is long.
LEMMA DeepIs ==
  ASSUME NEW D, NEW j \in Nat, NEW n \in [1 .. j -> D]
  PROVE  Deep(n) = j
<1>1. ASSUME NEW k \in Nat, 1 .. k = 1 .. j PROVE k = j
  <2>1. k \in 1 .. k \/ k = 0
    OBVIOUS
  <2>2. j \in 1 .. j \/ j = 0
    OBVIOUS
  <2>3. k <= j /\ j <= k
    <3>1. k <= j
      BY <1>1, <2>1
    <3>2. j <= k
      BY <1>1, <2>2
    <3> QED
      BY <3>1, <3>2
  <2> QED
    BY <2>3
<1>2. DOMAIN n = 1 .. j
  OBVIOUS
<1> QED
  BY <1>1, <1>2 DEF Deep

\* Two functions with the same values are the same.
LEMMA SameFun ==
  ASSUME NEW S, NEW T, NEW a \in [S -> T], NEW b \in [S -> T], \A x \in S : a[x] = b[x]
  PROVE  a = b
OBVIOUS

\* There is one path to szBase, the empty one.
LEMMA EmptyPath ==
  ASSUME NEW D
  PROVE  \A n : n \in [1 .. 0 -> D] <=> n = [x \in 1 .. 0 |-> 0]
<1> DEFINE e == [x \in 1 .. 0 |-> 0]
<1>1. \A x : x \notin 1 .. 0
  OBVIOUS
<1>2. e \in [1 .. 0 -> D]
  BY <1>1
<1>3. ASSUME NEW n \in [1 .. 0 -> D] PROVE n = e
  <2>1. \A x \in 1 .. 0 : n[x] = e[x]
    BY <1>1
  <2> HIDE DEF e
  <2> QED
    BY <1>2, <2>1, SameFun
<1> QED
  BY <1>2, <1>3

\* There is one directory on level 0, szBase.
LEMMA PathsOfOne ==
  \A w : Paths(w, 0) = {[x \in 1 .. 0 |-> 0]}
<1> SUFFICES ASSUME NEW w PROVE Paths(w, 0) = {[x \in 1 .. 0 |-> 0]}
  OBVIOUS
<1>1. \A n : n \in Paths(w, 0) <=> n \in [1 .. 0 -> 0 .. w - 1]
  BY DEF Paths
<1> QED
  BY <1>1, EmptyPath

\* A path down to level k + 1 that is not empty is one down to level k and a
\* number below w.
LEMMA OneMoreLevel ==
  ASSUME NEW w \in Nat, NEW k \in Nat, IsFiniteSet(Paths(w, k))
  PROVE  /\ IsFiniteSet(Paths(w, k + 1))
         /\ Cardinality(Paths(w, k + 1)) = w * Cardinality(Paths(w, k)) + 1
<1> DEFINE D == 0 .. w - 1
           T == Paths(w, k)
           e == [x \in 1 .. 0 |-> 0]
           N == UNION {[1 .. j -> D] : j \in 1 .. k + 1}
           f == [n \in N |-> <<Above(n), n[Deep(n)]>>]
<1>1. /\ \A n : n \in T <=> \E j \in 0 .. k : n \in [1 .. j -> D]
      /\ \A n : n \in N <=> \E j \in 1 .. k + 1 : n \in [1 .. j -> D]
  BY DEF Paths
<1>2. Paths(w, k + 1) = N \cup {e} /\ e \notin N
  <2>1. e \notin N
    <3> SUFFICES ASSUME NEW j \in 1 .. k + 1, e \in [1 .. j -> D] PROVE FALSE
      BY <1>1
    <3>1. 1 \in 1 .. j /\ DOMAIN e = 1 .. 0 /\ DOMAIN e = 1 .. j
      OBVIOUS
    <3> QED
      BY <3>1
  <2>2. ASSUME NEW n PROVE n \in Paths(w, k + 1) <=> n \in N \cup {e}
    <3>1. n \in Paths(w, k + 1) <=> \E j \in 0 .. k + 1 : n \in [1 .. j -> D]
      BY DEF Paths
    <3>2. n \in [1 .. 0 -> D] <=> n = e
      BY EmptyPath
    <3> HIDE DEF D, e, N
    <3> QED
      BY <1>1, <3>1, <3>2
  <2> QED
    BY <2>1, <2>2
<1>3. ASSUME NEW n \in N
      PROVE  /\ Deep(n) \in 1 .. k + 1 /\ n \in [1 .. Deep(n) -> D]
             /\ Above(n) \in [1 .. Deep(n) - 1 -> D] /\ Above(n) \in T /\ n[Deep(n)] \in D
  <2>1. PICK j \in 1 .. k + 1 : n \in [1 .. j -> D]
    BY <1>1
  <2>2. Deep(n) = j
    <3> j \in Nat
      OBVIOUS
    <3> HIDE DEF D, N
    <3> QED
      BY <2>1, DeepIs
  <2>3. Above(n) \in [1 .. j - 1 -> D] /\ j - 1 \in 0 .. k
    BY <2>1, <2>2 DEF Above
  <2> HIDE DEF T, N, D
  <2>4. Above(n) \in T /\ Deep(n) \in 1 .. k + 1
    BY <1>1, <2>2, <2>3
  <2>5. n[j] \in D
    BY <2>1
  <2> QED
    BY <2>1, <2>2, <2>3, <2>4, <2>5
<1>4. f \in Injection(N, T \X D)
  <2>1. f \in [N -> T \X D]
    <3> HIDE DEF T, N, D
    <3> QED
      BY <1>3
  <2>2. ASSUME NEW a \in N, NEW b \in N, f[a] = f[b] PROVE a = b
    <3>1. Above(a) = Above(b) /\ a[Deep(a)] = b[Deep(b)]
      <4> HIDE DEF N
      <4> QED
        BY <2>2
    <3> HIDE DEF N, D, T, f
    <3>2. PICK p \in Nat, q \in Nat : p = Deep(a) - 1 /\ q = Deep(b) - 1
      BY <1>3
    <3>3. Above(a) \in [1 .. p -> D] /\ Above(b) \in [1 .. q -> D]
      BY <1>3, <3>2
    <3>4. p = q
      BY <3>1, <3>3, DeepIs
    <3>5. Deep(a) = Deep(b) /\ Deep(a) \in Nat
      BY <1>3, <3>2, <3>4
    <3>6. ASSUME NEW x \in 1 .. Deep(a) PROVE a[x] = b[x]
      <4>1. CASE x = Deep(a)
        BY <3>1, <3>5, <4>1
      <4>2. CASE x # Deep(a)
        <5>1. x \in 1 .. Deep(a) - 1
          BY <3>5, <4>2
        <5>2. Above(a)[x] = a[x] /\ Above(b)[x] = b[x]
          BY <3>5, <5>1 DEF Above
        <5> QED
          BY <3>1, <5>2
      <4> QED
        BY <4>1, <4>2
    <3>7. a \in [1 .. Deep(a) -> D] /\ b \in [1 .. Deep(a) -> D]
      BY <1>3, <3>5
    <3>8. PICK S : S = 1 .. Deep(a)
      OBVIOUS
    <3>9. a \in [S -> D] /\ b \in [S -> D] /\ \A x \in S : a[x] = b[x]
      BY <3>6, <3>7, <3>8
    <3> QED
      BY <3>9, SameFun
  <2> HIDE DEF f, N, T, D
  <2> QED
    BY <2>1, <2>2 DEF Injection, IsInjective
<1>5. f \in Surjection(N, T \X D)
  <2>1. ASSUME NEW t \in T, NEW d \in D PROVE \E n \in N : f[n] = <<t, d>>
    <3>1. PICK j \in 0 .. k : t \in [1 .. j -> D]
      <4> HIDE DEF T
      <4> QED
        BY <1>1
    <3> DEFINE n == [x \in 1 .. j + 1 |-> IF x = j + 1 THEN d ELSE t[x]]
    <3>2. n \in [1 .. j + 1 -> D] /\ j + 1 \in 1 .. k + 1 /\ j + 1 \in Nat
      <4> HIDE DEF D
      <4> QED
        BY <3>1, <2>1
    <3>3. n \in N /\ Deep(n) = j + 1
      <4> HIDE DEF N, n, D
      <4> QED
        BY <1>1, <3>2, DeepIs
    <3>4. n[Deep(n)] = d
      BY <3>3
    <3>5. Above(n) = t
      <4>1. Above(n) = [x \in 1 .. j |-> n[x]]
        <5> HIDE DEF n
        <5> QED
          BY <3>3 DEF Above
      <4>2. \A x \in 1 .. j : n[x] = t[x]
        OBVIOUS
      <4> HIDE DEF n, D
      <4> QED
        BY <3>1, <4>1, <4>2
    <3> HIDE DEF n, N
    <3> QED
      BY <3>3, <3>4, <3>5
  <2>2. f \in [N -> T \X D]
    <3> HIDE DEF f, N, T, D
    <3> QED
      BY <1>4 DEF Injection
  <2> HIDE DEF f, N, T, D
  <2> QED
    BY <2>1, <2>2 DEF Surjection
<1>6. IsFiniteSet(D) /\ Cardinality(D) = w
  <2>1. w - 1 \in Int /\ (IF 0 > w - 1 THEN 0 ELSE w - 1 - 0 + 1) = w
    OBVIOUS
  <2> QED
    BY <2>1, FS_Interval
<1> HIDE DEF f, N, T, D, e
<1>7. IsFiniteSet(T \X D) /\ Cardinality(T \X D) = Cardinality(T) * w
  BY <1>6, FS_Product DEF T
<1>8. ExistsBijection(T \X D, N)
  <2>1. f \in Bijection(N, T \X D)
    BY <1>4, <1>5 DEF Bijection
  <2>2. ExistsBijection(N, T \X D)
    BY <2>1 DEF ExistsBijection
  <2> QED
    BY <2>2, Fun_ExistsBijSymmetric
<1>9. IsFiniteSet(N) /\ Cardinality(N) = Cardinality(T) * w
  BY <1>7, <1>8, FS_Bijection
<1>10. IsFiniteSet(N \cup {e}) /\ Cardinality(N \cup {e}) = Cardinality(N) + 1
  BY <1>2, <1>9, FS_AddElement
<1>11. Cardinality(T) \in Nat
  BY FS_CardinalityType DEF T
<1>12. Cardinality(T) * w = w * Cardinality(T)
  BY <1>11
<1>13. IsFiniteSet(Paths(w, k + 1)) /\ Cardinality(Paths(w, k + 1)) = w * Cardinality(T) + 1
  BY <1>2, <1>9, <1>10, <1>12
<1> QED
  BY <1>13 DEF T

\* The table counts the directories of the tree, level by level.
Counted ==
  ~wrapped => \A k \in 0 .. i - 1 : /\ IsFiniteSet(Paths(opt.width, k))
                                   /\ dirs[k] = Cardinality(Paths(opt.width, k))

LEMMA InitCounted == Init => Counted
<1> SUFFICES ASSUME Init, NEW k \in 0 .. i - 1
             PROVE  /\ IsFiniteSet(Paths(opt.width, k))
                    /\ dirs[k] = Cardinality(Paths(opt.width, k))
  BY DEF Counted
<1>1. k = 0 /\ 0 \in Levels
  BY OptionAssumption DEF Init, Levels
<1>2. dirs[0] = 1
  BY <1>1 DEF Init
<1>3. Paths(opt.width, 0) = {[x \in 1 .. 0 |-> 0]}
  BY PathsOfOne
<1> QED
  BY <1>1, <1>2, <1>3, FS_Singleton

LEMMA GradeCounted == Inv /\ Counted /\ Grade => Counted'
<1> SUFFICES ASSUME Inv, Counted, Grade, ~wrapped', NEW k \in 0 .. i' - 1
             PROVE  /\ IsFiniteSet(Paths(opt'.width, k))
                    /\ dirs'[k] = Cardinality(Paths(opt'.width, k))
  BY DEF Counted
<1>1. /\ opt.width \in Nat /\ opt.depth \in Nat /\ i \in 1 .. opt.depth /\ i' = i + 1 /\ opt' = opt
      /\ dirs' = [dirs EXCEPT ![i] = Wrap(dirs[i - 1] + u)] /\ ~wrapped
  BY OptType DEF Inv, TypeOK, Words, Grade
<1>2. dirs \in [Levels -> Words] /\ i \in Levels /\ i - 1 \in 0 .. i - 1
  BY <1>1 DEF Inv, TypeOK, Levels
<1>3. CASE k # i
  <2>1. k \in 0 .. i - 1 /\ k \in Levels
    BY <1>1, <1>3 DEF Levels
  <2> QED
    BY <1>1, <1>2, <1>3, <2>1 DEF Counted
<1>4. CASE k = i
  <2>1. /\ IsFiniteSet(Paths(opt.width, i - 1))
        /\ dirs[i - 1] = Cardinality(Paths(opt.width, i - 1))
    BY <1>1, <1>2 DEF Counted
  <2>2. /\ IsFiniteSet(Paths(opt.width, i))
        /\ Cardinality(Paths(opt.width, i)) = opt.width * dirs[i - 1] + 1
    <3>1. PICK j \in Nat : j = i - 1 /\ i = j + 1
      BY <1>1
    <3> QED
      BY <1>1, <2>1, <3>1, OneMoreLevel
  <2>3. dirs'[i] = opt.width * dirs'[i - 1] + 1
    BY <1>1, GradeInv DEF Inv, Table
  <2>4. dirs'[i - 1] = dirs[i - 1]
    BY <1>1, <1>2 DEF Levels
  <2> QED
    BY <1>1, <1>4, <2>2, <2>3, <2>4
<1> QED
  BY <1>3, <1>4

LEMMA CountedInvariance == Spec => []Counted
<1>1. Inv /\ Counted /\ [Next]_vars => Counted'
  <2> SUFFICES ASSUME Inv, Counted, [Next]_vars, ~Grade PROVE Counted'
    BY GradeCounted
  <2>1. UNCHANGED <<opt, gradeVars>>
    BY DEF Next, vars, Roll, Enter, Lose, Arrive, Push, walkVars
  <2> QED
    BY <2>1 DEF Counted, gradeVars
<1> QED
  BY InitCounted, Invariance, <1>1, PTL DEF Spec

(***************************************************************************)
(* Theorems.                                                               *)
(***************************************************************************)
\* Every number of the table and of the search is a word (initializeState,
\* buildPathStackOf).
THEOREM TypeCorrect == Spec => []TypeOK
<1>1. Inv => TypeOK
  BY DEF Inv
<1> QED
  BY <1>1, Invariance, PTL

\* The path that buildPathStackOf returns spells the number it was asked for, so
\* different numbers have different paths, as long as the number of files fits.
THEOREM PathSpellsNumberHolds == Spec => []PathSpellsNumber
<1>1. Inv => PathSpellsNumber
  BY DEF Inv
<1> QED
  BY <1>1, Invariance, PTL

\* No file is deeper than -depth (buildPathStackOf).
THEOREM PathWithinDepthHolds == Spec => []PathWithinDepth
<1>1. Inv => PathWithinDepth
  BY DEF Inv
<1> QED
  BY <1>1, Invariance, PTL

\* Every number that actionCreate can roll has a path, as long as the number of
\* files fits a word (buildPathStackOf, initializeState).
THEOREM LostOnlyIfWrappedHolds == Spec => []LostOnlyIfWrapped
<1>1. Inv => LostOnlyIfWrapped
  BY DEF Inv
<1> QED
  BY <1>1, Invariance, PTL

\* The numbers that actionCreate rolls are as many as the complete tree has
\* files: initializeState's sums count it, for every width and depth, as long as
\* the number of files fits a word.
THEOREM LimitCountsTreeHolds == Spec => []LimitCountsTree
<1>1. Inv /\ Counted => LimitCountsTree
  <2> SUFFICES ASSUME Inv, Counted, i > opt.depth, ~wrapped
               PROVE  Limit = opt.files * Cardinality(CompleteDirs)
    BY DEF LimitCountsTree
  <2>1. opt.files \in Nat /\ opt.depth \in Levels /\ opt.depth \in 0 .. i - 1
    BY OptType DEF Inv, TypeOK, Words, Levels
  <2>2. Limit = dirs[opt.depth] * opt.files /\ dirs[opt.depth] \in Nat
    BY <2>1, Finished, TableType DEF Limit
  <2>3. dirs[opt.depth] = Cardinality(CompleteDirs)
    BY <2>1 DEF Counted, CompleteDirs, Paths, Levels
  <2> QED
    BY <2>1, <2>2, <2>3
<1> QED
  BY <1>1, Invariance, CountedInvariance, PTL
=============================================================================
