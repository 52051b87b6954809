------------------------ MODULE ElhamOptions_proofs ------------------------
(***************************************************************************)
(* Theorems about ElhamOptions, for every size of a word, all defaults and *)
(* all values of the options: types, that no arguments spoil the weights,  *)
(* that a supplied number is in force unless it is the general default,    *)
(* and that create makes files with blocks the limits allow, or traps over *)
(* two limits that are equal.                                              *)
(*                                                                         *)
(* The invariant says what processArgs knows while it reads: an option     *)
(* that was given is in dsSupplied, and no option touches the weights      *)
(* (Given); no file is made before verifyControlStruct is passed           *)
(* (NothingYet), and what it accepted stays accepted (Verified).           *)
(***************************************************************************)
EXTENDS ElhamOptions, TLAPS

Given == /\ supplied.actions = Default.actions
         /\ \A o \in Number : last[o] # None => supplied.number[o] = last[o]

NothingYet == pc # "ready" /\ pc # "trapped" => blockSize = 0

Verified == pc = "ready" => Acceptable(ds)

Inv == TypeOK /\ Given /\ NothingYet /\ Verified
  /\ WeightsNeverRefused /\ OverridesUnlessDefault /\ CreatesSoundFiles /\ FileNearLimits

(***************************************************************************)
(* Settings.                                                               *)
(***************************************************************************)
\* What the settings are made of has the type of settings.
LEMMA SettingsType ==
  ASSUME NEW n \in [Number -> Words], NEW r \in BOOLEAN, NEW s \in Scan, NEW w \in Wait,
         NEW a \in Weights
  PROVE  [number |-> n, rollBlocks |-> r, scan |-> s, wait |-> w, actions |-> a] \in Settings
BY DEF Settings

\* The parts of settings.
LEMMA SettingsParts ==
  ASSUME NEW s \in Settings
  PROVE  /\ s.number \in [Number -> Words] /\ s.rollBlocks \in BOOLEAN
         /\ s.scan \in Scan /\ s.wait \in Wait /\ s.actions \in Weights
BY DEF Settings

\* The defaults of a mode are settings, with weights that sum to 100.
LEMMA BaseType ==
  ASSUME TypeOK, Given
  PROVE  DefaultsOf(mode) \in Settings /\ Sum(DefaultsOf(mode).actions) = 100
<1>1. CASE mode = "deDefault"
  BY <1>1, DefaultsAssumption DEF TypeOK, Given, DefaultsOf, DefaultsAssumption
<1>2. CASE mode = "deLock"
  BY <1>2, DefaultsAssumption DEF DefaultsOf, DefaultsAssumption
<1>3. CASE mode = "deHammer"
  BY <1>3, DefaultsAssumption DEF DefaultsOf, DefaultsAssumption
<1> QED
  BY <1>1, <1>2, <1>3 DEF TypeOK

\* Laying over: every part is that of the mode or the one supplied.
LEMMA LaidType ==
  ASSUME TypeOK, Given
  PROVE  /\ Laid \in Settings
         /\ Sum(Laid.actions) = 100
         /\ \A o \in Number : \/ Laid.number[o] = supplied.number[o]
                              \/ /\ mode # "deDefault"
                                 /\ supplied.number[o] = Default.number[o]
<1> DEFINE base == DefaultsOf(mode)
           n == [o \in Number |-> Take(supplied.number[o], Default.number[o], base.number[o])]
           a == [t \in DOMAIN base.actions |->
                   Take(supplied.actions[t], Default.actions[t], base.actions[t])]
           r == Take(supplied.rollBlocks, Default.rollBlocks, base.rollBlocks)
           s == Take(supplied.scan, Default.scan, base.scan)
           w == Take(supplied.wait, Default.wait, base.wait)
<1>1. base \in Settings /\ Sum(base.actions) = 100 /\ supplied \in Settings
  BY BaseType DEF TypeOK
<1>2. /\ base.number \in [Number -> Words] /\ supplied.number \in [Number -> Words]
      /\ base.rollBlocks \in BOOLEAN /\ supplied.rollBlocks \in BOOLEAN
      /\ base.scan \in Scan /\ supplied.scan \in Scan
      /\ base.wait \in Wait /\ supplied.wait \in Wait
      /\ base.actions \in Weights
  BY <1>1, SettingsParts
<1>3. n \in [Number -> Words]
  BY <1>2 DEF Take
<1>4. r \in BOOLEAN
  BY <1>2, Zenon DEF Take
<1>5. s \in Scan /\ w \in Wait
  BY <1>2 DEF Take
<1>6. a = base.actions
  <2>1. a = [t \in DOMAIN base.actions |-> base.actions[t]]
    BY DEF Given, Take
  <2> QED
    BY <2>1, <1>2 DEF Weights
<1>7. Laid = [number |-> n, rollBlocks |-> r, scan |-> s, wait |-> w, actions |-> a]
  BY DEF Laid
<1>8. Laid \in Settings
  <2> HIDE DEF n, r, s, w, a, base
  <2> QED
    BY <1>2, <1>3, <1>4, <1>5, <1>6, <1>7, SettingsType
<1>9. Laid.actions = base.actions /\ Laid.number = n
  <2> HIDE DEF n, r, s, w, a, base
  <2> QED
    BY <1>6, <1>7
<1>10. ASSUME NEW o \in Number
       PROVE  \/ n[o] = supplied.number[o]
              \/ mode # "deDefault" /\ supplied.number[o] = Default.number[o]
  <2>1. mode = "deDefault" => base = supplied
    BY DEF DefaultsOf
  <2> QED
    BY <2>1 DEF Take
<1> QED
  BY <1>1, <1>8, <1>9, <1>10

LEMMA BalancedW ==
  ASSUME NEW c, NEW r, NEW w, NEW d, NEW u,
         c \in Nat, r \in Nat, w \in Nat, d \in Nat, u \in Nat,
         c + r + w + d + u = 100
  PROVE  W(c, r, w, d, u) \in Weights /\ Sum(W(c, r, w, d, u)) = 100
<1>1. c \in 0 .. 100 /\ r \in 0 .. 100 /\ w \in 0 .. 100 /\ d \in 0 .. 100 /\ u \in 0 .. 100
  OBVIOUS
<1>2. W(c, r, w, d, u) \in Weights
  BY <1>1 DEF W, Weights
<1> QED
  BY <1>2 DEF Sum, W

LEMMA WriteScan ==
  ASSUME NEW a \in Weights, Sum(a) = 100
  PROVE  /\ W(a.create, 0, a.write + a.read, a.delete, a.unlink) \in Weights
         /\ Sum(W(a.create, 0, a.write + a.read, a.delete, a.unlink)) = 100
<1> DEFINE more == a.write + a.read
<1>1. /\ a.create \in Nat /\ a.read \in Nat /\ a.write \in Nat
      /\ a.delete \in Nat /\ a.unlink \in Nat
      /\ a.create + a.read + a.write + a.delete + a.unlink = 100
  BY DEF Sum, Weights
<1>2. more \in Nat /\ a.create + 0 + more + a.delete + a.unlink = 100
  BY <1>1
<1> HIDE DEF more
<1>3. W(a.create, 0, more, a.delete, a.unlink) \in Weights
        /\ Sum(W(a.create, 0, more, a.delete, a.unlink)) = 100
  BY <1>1, <1>2, BalancedW
<1> QED
  BY <1>3 DEF more

\* -scan moves weights.
LEMMA ScannedType ==
  ASSUME NEW s \in Settings, Sum(s.actions) = 100
  PROVE  /\ Scanned(s) \in Weights /\ Sum(Scanned(s)) = 100
         /\ [s EXCEPT !.actions = Scanned(s)] \in Settings
         /\ [s EXCEPT !.actions = Scanned(s)].number = s.number
<1>1. s.scan \in Scan /\ s.actions \in Weights
  BY SettingsParts
<1>2. Scanned(s) \in Weights /\ Sum(Scanned(s)) = 100
  <2>1. CASE s.scan = "scRead"
    BY <2>1 DEF Scanned, W, Weights, Sum
  <2>2. CASE s.scan = "scWrite"
    BY <1>1, <2>2, WriteScan DEF Scanned
  <2>3. CASE s.scan = "scRandom"
    BY <1>1, <2>3 DEF Scanned
  <2> QED
    BY <1>1, <2>1, <2>2, <2>3 DEF Scan
<1>3. [s EXCEPT !.actions = Scanned(s)] \in Settings
  BY <1>2 DEF Settings
<1>4. [s EXCEPT !.actions = Scanned(s)].number = s.number
  BY DEF Settings
<1> QED
  BY <1>2, <1>3, <1>4

(***************************************************************************)
(* Rolls.                                                                  *)
(***************************************************************************)
LEMMA WordsType == Word \in Nat /\ Word > 0 /\ RollWord \in Nat
BY WordAssumption

LEMMA Division ==
  ASSUME NEW a \in Nat, NEW b \in Nat, b > 0
  PROVE  /\ a % b \in Nat /\ a % b < b
         /\ a \div b \in Nat /\ a \div b <= a
         /\ a % b = 0 /\ a > 0 => a \div b >= 1
<1>1. a % b \in Nat /\ a % b < b
  OBVIOUS
<1>2. a \div b \in Int /\ a \div b >= 0
  OBVIOUS
<1>3. a % b = a - b * (a \div b)
  BY Z3
<1>4. PICK q \in Nat, r \in Nat : q = a \div b /\ r = a % b
  BY <1>1, <1>2
<1>5. a = b * q + r
  BY <1>3, <1>4
<1>6. q <= b * q
  OBVIOUS
<1>7. q <= a
  BY <1>5, <1>6
<1>8. r = 0 /\ a > 0 => q >= 1
  BY <1>5
<1> QED
  BY <1>1, <1>2, <1>4, <1>7, <1>8

LEMMA WrapType ==
  ASSUME NEW n \in Nat
  PROVE  Wrap(n) \in Words /\ (n < Word => Wrap(n) = n)
BY WordsType, Division DEF Wrap, Words

\* What lies between two limits is zero only if they are equal.
LEMMA DifferenceIsWord ==
  ASSUME NEW lo \in Words, NEW hi \in Words, lo <= hi
  PROVE  Wrap(hi - lo) = 0 <=> lo = hi
<1>1. lo \in Nat /\ hi \in Nat /\ hi - lo \in Nat /\ hi - lo < Word
  BY WordsType DEF Words
<1>2. Wrap(hi - lo) = hi - lo
  BY <1>1, WrapType
<1> QED
  BY <1>1, <1>2

\* A roll between two different limits stays between them.
LEMMA RollsRange ==
  ASSUME NEW lo \in Words, NEW hi \in Words, lo <= hi, Wrap(hi - lo) # 0,
         NEW x \in Rolls(lo, hi)
  PROVE  x \in Words /\ lo <= x /\ x < hi
<1>1. lo \in Nat /\ hi \in Nat /\ lo < Word /\ hi < Word /\ hi - lo \in Nat /\ hi - lo < Word
  BY WordsType DEF Words
<1>2. Wrap(hi - lo) = hi - lo
  BY <1>1, WrapType
<1>3. PICK r \in 0 .. RollWord - 1 : x = Wrap(lo + (r % Wrap(hi - lo)))
  BY DEF Rolls
<1> DEFINE k == r % (hi - lo)
<1>4. k \in Nat /\ k < hi - lo
  <2>1. r \in Nat /\ hi - lo > 0
    BY <1>1, <1>2, WordsType
  <2> QED
    BY <1>1, <2>1, Division
<1>5. x = Wrap(lo + k)
  BY <1>2, <1>3
<1> HIDE DEF k
<1>6. lo + k \in Nat /\ lo + k < hi /\ lo + k < Word
  BY <1>1, <1>4, WordsType
<1>7. x = lo + k
  BY <1>5, <1>6, WrapType
<1> QED
  BY <1>1, <1>4, <1>6, <1>7, WordsType DEF Words

\* A file is made of at least one block.
LEMMA AlignType ==
  ASSUME NEW rolled \in Words, NEW size \in Words, size > 0, rolled > 0, Align(rolled, size)
  PROVE  blocks' \in Words /\ fileSize' \in Words /\ blocks' >= 1
<1>1. rolled \in Nat /\ rolled < Word /\ size \in Nat
  BY WordsType DEF Words
<1>2. PICK q \in Nat : q = rolled \div size /\ q <= rolled /\ (rolled % size = 0 => q >= 1)
  BY <1>1, Division
<1>3. CASE rolled % size = 0
  BY <1>1, <1>2, <1>3, WordsType DEF Align, Words
<1>4. CASE rolled % size # 0
  <2>1. blocks' = q + 1 /\ fileSize' = Wrap((q + 1) * size)
    BY <1>2, <1>4 DEF Align
  <2>2. (q + 1) * size \in Nat
    BY <1>1, <1>2
  <2>3. fileSize' \in Words
    BY <2>1, <2>2, WrapType
  <2>4. q < rolled
    <3>1. CASE size = 1
      <4>1. rolled % 1 = 0
        BY <1>1
      <4> QED
        BY <1>4, <3>1, <4>1
    <3>2. CASE size > 1
      <4>1. rolled \div size < rolled
        BY <1>1, <3>2
      <4> QED
        BY <1>2, <4>1
    <3> QED
      BY <1>1, <3>1, <3>2
  <2> QED
    BY <1>1, <1>2, <2>1, <2>3, <2>4, WordsType DEF Words
<1> QED
  BY <1>3, <1>4

\* It is rounded up by less than a block, if that stays within a word.
LEMMA AlignUp ==
  ASSUME NEW rolled \in Words, NEW size \in Words, size > 0, Align(rolled, size),
         rolled + size < Word
  PROVE  fileSize' = blocks' * size /\ rolled <= fileSize' /\ fileSize' < rolled + size
<1>1. rolled \in Nat /\ rolled < Word /\ size \in Nat
  BY WordsType DEF Words
<1>2. rolled \div size \in Nat /\ rolled % size \in Nat /\ rolled % size < size
  BY <1>1, Division
<1>3. rolled % size = rolled - size * (rolled \div size)
  BY <1>1, Z3
<1>4. PICK q \in Nat, r \in Nat : q = rolled \div size /\ r = rolled % size
  BY <1>2
<1>5. r < size /\ rolled = q * size + r
  BY <1>1, <1>2, <1>3, <1>4
<1>6. CASE r = 0
  <2>1. blocks' = q /\ fileSize' = rolled
    BY <1>4, <1>6 DEF Align
  <2> QED
    BY <1>1, <1>5, <1>6, <2>1
<1>7. CASE r # 0
  <2>1. blocks' = q + 1 /\ fileSize' = Wrap((q + 1) * size)
    BY <1>4, <1>7 DEF Align
  <2>2. (q + 1) * size = q * size + size
    BY <1>1
  <2>3. (q + 1) * size \in Nat /\ (q + 1) * size < Word
    BY <1>1, <1>5, <2>2, WordsType
  <2>4. fileSize' = (q + 1) * size
    BY <2>1, <2>3, WrapType
  <2>5. rolled <= (q + 1) * size /\ (q + 1) * size < rolled + size
    BY <1>1, <1>5, <1>7, <2>2
  <2> QED
    BY <2>1, <2>4, <2>5
<1> QED
  BY <1>6, <1>7

(***************************************************************************)
(* The invariant.                                                          *)
(***************************************************************************)
LEMMA InitInv == Init => Inv
<1> SUFFICES ASSUME Init PROVE Inv
  OBVIOUS
<1>1. Default \in Settings
  BY DefaultsAssumption DEF DefaultsAssumption
<1>2. 0 \in Words
  BY WordsType DEF Words
<1>3. TypeOK
  BY <1>1, <1>2 DEF Init, TypeOK
<1> QED
  BY <1>3 DEF Init, Inv, Given, NothingYet, Verified, WeightsNeverRefused,
              OverridesUnlessDefault, CreatesSoundFiles, EqualLimits, FileNearLimits

\* While there are arguments nothing is settled.
LEMMA GiveNumberInv ==
  ASSUME Inv, NEW o \in Number, NEW v \in Values[o], GiveNumber(o, v)
  PROVE  Inv'
<1>1. v \in Words /\ v # None
  BY ValuesAssumption
<1>2. supplied \in Settings /\ TypeOK /\ Given /\ NothingYet
  BY DEF Inv, TypeOK
<1>3. /\ supplied.number \in [Number -> Words] /\ supplied.rollBlocks \in BOOLEAN
      /\ supplied.scan \in Scan /\ supplied.wait \in Wait /\ supplied.actions \in Weights
  BY <1>2, SettingsParts
<1> DEFINE n == [supplied.number EXCEPT ![o] = v]
           r == IF o = "blockSize" THEN FALSE ELSE supplied.rollBlocks
<1>4. supplied' = [number |-> n, rollBlocks |-> r, scan |-> supplied.scan,
                   wait |-> supplied.wait, actions |-> supplied.actions]
  BY <1>2 DEF GiveNumber, Settings
<1>5. n \in [Number -> Words]
  BY <1>1, <1>3
<1>6. r \in BOOLEAN
  BY <1>3, Zenon
<1>7. supplied' \in Settings
  <2> HIDE DEF n, r
  <2> QED
    BY <1>3, <1>4, <1>5, <1>6, SettingsType
<1>8. supplied'.actions = supplied.actions /\ supplied'.number = n
  <2> HIDE DEF n, r
  <2> QED
    BY <1>4
<1>9. last' \in [Number -> Words \cup {None}]
  BY <1>1, <1>2 DEF GiveNumber, TypeOK
<1>10. TypeOK'
  BY <1>2, <1>7, <1>9 DEF GiveNumber, TypeOK, sizeVars
<1>11. Given'
  <2>1. ASSUME NEW q \in Number, last'[q] # None PROVE n[q] = last'[q]
    BY <1>1, <1>2, <1>3, <2>1 DEF GiveNumber, Given, TypeOK
  <2> QED
    BY <1>2, <1>8, <2>1 DEF GiveNumber, Given
<1> QED
  BY <1>2, <1>10, <1>11 DEF GiveNumber, Inv, NothingYet, Verified, WeightsNeverRefused,
       OverridesUnlessDefault, CreatesSoundFiles, EqualLimits, FileNearLimits, sizeVars

\* The other arguments leave the numbers and the weights alone.
LEMMA GiveOtherInv ==
  ASSUME Inv,
         \/ GiveRandom \/ Misunderstood \/ Leave
         \/ \E w \in Wait : GiveWait(w)
         \/ \E s \in Scan : GiveScan(s)
         \/ \E m \in {"deLock", "deHammer"} : GiveMode(m)
  PROVE  Inv'
<1>1. supplied \in Settings /\ TypeOK /\ Given /\ NothingYet /\ WeightsNeverRefused
  BY DEF Inv, TypeOK
<1>2. /\ supplied.number \in [Number -> Words] /\ supplied.rollBlocks \in BOOLEAN
      /\ supplied.scan \in Scan /\ supplied.wait \in Wait /\ supplied.actions \in Weights
  BY <1>1, SettingsParts
<1>3. /\ supplied' \in Settings
      /\ supplied'.actions = supplied.actions /\ supplied'.number = supplied.number
  <2>1. CASE GiveRandom
    BY <1>1, <1>2, <2>1 DEF GiveRandom, Settings
  <2>2. CASE Misunderstood \/ Leave
    BY <1>1, <2>2 DEF Misunderstood, Leave, argVars
  <2>3. ASSUME NEW w \in Wait, GiveWait(w)
        PROVE  /\ supplied' \in Settings
               /\ supplied'.actions = supplied.actions /\ supplied'.number = supplied.number
    BY <1>1, <1>2, <2>3 DEF GiveWait, Settings
  <2>4. ASSUME NEW s \in Scan, GiveScan(s)
        PROVE  /\ supplied' \in Settings
               /\ supplied'.actions = supplied.actions /\ supplied'.number = supplied.number
    BY <1>1, <1>2, <2>4 DEF GiveScan, Settings
  <2>5. CASE \E m \in {"deLock", "deHammer"} : GiveMode(m)
    BY <1>1, <2>5 DEF GiveMode
  <2> QED
    BY <2>1, <2>2, <2>3, <2>4, <2>5
<1>4. /\ pc = "args" /\ pc' \in {"args", "refused", "left"}
      /\ why' = why \/ why' \in {"usage", "mode", "scan"}
      /\ mode' \in {"deDefault", "deLock", "deHammer"} /\ scanSet' \in BOOLEAN
      /\ UNCHANGED <<last, ds, sizeVars>>
  <2>1. CASE GiveRandom
    BY <1>1, <2>1, Zenon DEF GiveRandom, TypeOK
  <2>2. CASE Misunderstood \/ Leave
    BY <1>1, <2>2, Zenon DEF Misunderstood, Leave, Refuse, argVars, TypeOK
  <2>3. CASE \E w \in Wait : GiveWait(w)
    BY <1>1, <2>3, Zenon DEF GiveWait, TypeOK
  <2>4. CASE \E s \in Scan : GiveScan(s)
    BY <1>1, <2>4, Zenon DEF GiveScan, Refuse, TypeOK
  <2>5. CASE \E m \in {"deLock", "deHammer"} : GiveMode(m)
    BY <1>1, <2>5, Zenon DEF GiveMode, Refuse, TypeOK
  <2> QED
    BY <2>1, <2>2, <2>3, <2>4, <2>5
<1>5. TypeOK'
  BY <1>1, <1>3, <1>4 DEF TypeOK, sizeVars
<1>6. Given'
  BY <1>1, <1>3, <1>4 DEF Given
<1> QED
  BY <1>1, <1>4, <1>5, <1>6 DEF Inv, NothingYet, Verified, WeightsNeverRefused,
       OverridesUnlessDefault, CreatesSoundFiles, EqualLimits, FileNearLimits, sizeVars

LEMMA SettleInv == Inv /\ Settle => Inv'
<1> SUFFICES ASSUME Inv, Settle PROVE Inv'
  OBVIOUS
<1>1. TypeOK /\ Given /\ NothingYet /\ WeightsNeverRefused
  BY DEF Inv
<1>2. PICK L : L = Laid
  OBVIOUS
<1>3. /\ L \in Settings /\ Sum(L.actions) = 100
      /\ \A o \in Number : \/ L.number[o] = supplied.number[o]
                           \/ mode # "deDefault" /\ supplied.number[o] = Default.number[o]
  BY <1>1, <1>2, LaidType
<1>4. ds' = [L EXCEPT !.actions = Scanned(L)]
  BY <1>2 DEF Settle
<1>5. ds' \in Settings /\ ds'.number = L.number /\ Sum(Scanned(L)) = 100
  BY <1>3, <1>4, ScannedType
<1>6. /\ pc = "args" /\ pc' = "verify" /\ why' = why
      /\ UNCHANGED <<supplied, mode, scanSet, last, blockSize, fileSize, blocks>>
  BY <1>2, <1>5 DEF Settle, argVars, sizeVars
<1>7. TypeOK'
  BY <1>1, <1>5, <1>6 DEF TypeOK
<1>8. OverridesUnlessDefault'
  BY <1>1, <1>3, <1>5, <1>6 DEF OverridesUnlessDefault, Given
<1> QED
  BY <1>1, <1>6, <1>7, <1>8 DEF Inv, Given, NothingYet, Verified, WeightsNeverRefused,
       CreatesSoundFiles, EqualLimits, FileNearLimits

LEMMA VerifyInv == Inv /\ VerifyControlStruct => Inv'
<1> SUFFICES ASSUME Inv, VerifyControlStruct PROVE Inv'
  OBVIOUS
<1>1. /\ pc = "verify" /\ pc' \in {"refused", "ready"} /\ (pc' = "ready" => Acceptable(ds))
      /\ why' = why \/ why' \in {"base", "sizes"}
      /\ UNCHANGED <<supplied, mode, scanSet, last, ds, blockSize, fileSize, blocks>>
  BY Zenon DEF VerifyControlStruct, Refuse, argVars, sizeVars
<1>2. TypeOK'
  BY <1>1 DEF Inv, TypeOK
<1>3. Given' /\ NothingYet' /\ WeightsNeverRefused' /\ CreatesSoundFiles'
        /\ FileNearLimits'
  BY <1>1 DEF Inv, Given, NothingYet, WeightsNeverRefused, CreatesSoundFiles, EqualLimits, FileNearLimits
<1>4. OverridesUnlessDefault'
  BY <1>1 DEF Inv, OverridesUnlessDefault
<1>5. Verified'
  BY <1>1 DEF Verified, Acceptable, FixedFits, RollFits
<1> QED
  BY <1>2, <1>3, <1>4, <1>5 DEF Inv

LEMMA CreateInv == Inv /\ Create => Inv'
<1> SUFFICES ASSUME Inv, Create PROVE Inv'
  OBVIOUS
<1>0. TypeOK /\ Given /\ WeightsNeverRefused /\ OverridesUnlessDefault
  BY DEF Inv
<1> DEFINE n == ds.number
<1>1. /\ n["minfsize"] \in Words /\ n["maxfsize"] \in Words /\ n["minbsize"] \in Words
      /\ n["maxbsize"] \in Words /\ n["blockSize"] \in Words
  <2>1. n \in [Number -> Words]
    BY <1>0, SettingsParts DEF TypeOK
  <2> QED
    BY <2>1 DEF Number
<1>2. pc = "ready" /\ Acceptable(ds)
  BY DEF Create, Inv, Verified
<1>3. /\ n["minfsize"] >= MinSize /\ n["minfsize"] <= n["maxfsize"]
      /\ ds.rollBlocks => /\ n["maxbsize"] <= MaxBlock /\ n["minbsize"] >= MinSize
                          /\ n["minbsize"] <= n["maxbsize"]
      /\ ~ds.rollBlocks => n["blockSize"] <= MaxBlock /\ n["blockSize"] >= MinSize
  BY <1>2 DEF Acceptable, RollFits, FixedFits
<1>4. /\ UNCHANGED <<supplied, mode, scanSet, last, ds, why>>
  BY DEF Create, argVars
<1>5. Given' /\ WeightsNeverRefused'
  BY <1>0, <1>4 DEF Given, WeightsNeverRefused
<1>6. CASE Traps(n)
  <2>1. pc' = "trapped" /\ UNCHANGED <<blockSize, fileSize, blocks>>
    BY <1>6 DEF Create, sizeVars
  <2>2. EqualLimits
    BY <1>1, <1>3, <1>6, DifferenceIsWord, WordsType DEF Traps, EqualLimits, Words
  <2>3. EqualLimits'
    BY <1>4, <2>2 DEF EqualLimits
  <2> QED
    BY <1>0, <1>4, <1>5, <2>1, <2>3 DEF Inv, TypeOK, NothingYet, Verified, OverridesUnlessDefault,
         CreatesSoundFiles, FileNearLimits
<1>7. CASE ~Traps(n)
  <2>1. PICK rolled \in Rolls(n["minfsize"], n["maxfsize"]) : Align(rolled, blockSize')
    BY <1>7 DEF Create
  <2>2. pc' = "ready" /\ blockSize' \in BlockSizes(n)
    BY <1>2, <1>7 DEF Create
  <2>3. /\ Wrap(n["maxfsize"] - n["minfsize"]) # 0
        /\ ds.rollBlocks => Wrap(n["maxbsize"] - n["minbsize"]) # 0
    BY <1>7 DEF Traps
  <2>4. MinSize \in Nat /\ MinSize > 0 /\ MaxBlock \in Nat
    BY WordAssumption, WordsType DEF Words
  <2> HIDE DEF n
  <2>5. rolled \in Words /\ n["minfsize"] <= rolled
    BY <1>1, <1>3, <2>1, <2>3, RollsRange
  <2>6. /\ blockSize' \in Words /\ blockSize' \in MinSize .. MaxBlock
        /\ ds.rollBlocks => n["minbsize"] <= blockSize' /\ blockSize' < n["maxbsize"]
    <3>1. CASE ds.rollBlocks
      <4>1. blockSize' \in Rolls(n["minbsize"], n["maxbsize"])
        BY <2>2, <3>1 DEF BlockSizes
      <4>2. /\ blockSize' \in Words /\ n["minbsize"] <= blockSize'
            /\ blockSize' < n["maxbsize"]
        BY <1>1, <1>3, <2>3, <3>1, <4>1, RollsRange
      <4> QED
        BY <1>1, <1>3, <2>4, <3>1, <4>2, WordsType DEF Words
    <3>2. CASE ~ds.rollBlocks
      BY <1>1, <1>3, <2>2, <2>4, <3>2, WordsType DEF BlockSizes, Words
    <3> QED
      BY <3>1, <3>2
  <2>7. blocks' \in Words /\ fileSize' \in Words /\ blocks' >= 1
    <3>1. PICK size : size = blockSize'
      OBVIOUS
    <3>2. size \in Words /\ size > 0 /\ rolled > 0
      BY <1>1, <1>3, <2>4, <2>5, <2>6, <3>1, WordsType DEF Words
    <3>3. Align(rolled, size)
      BY <2>1, <3>1
    <3> QED
      BY <2>5, <3>2, <3>3, AlignType
  <2>8. TypeOK'
    BY <1>0, <1>4, <2>2, <2>6, <2>7 DEF TypeOK
  <2>9. CreatesSoundFiles'
    <3>1. ~EqualLimits
      BY <1>1, <2>3, DifferenceIsWord, WordsType DEF EqualLimits, Words, n
    <3>2. ~EqualLimits'
      BY <1>4, <3>1 DEF EqualLimits
    <3> QED
      BY <1>1, <1>4, <2>2, <2>6, <2>7, <3>2 DEF CreatesSoundFiles, n
  <2>10. FileNearLimits'
    <3>1. PICK size : size = blockSize'
      OBVIOUS
    <3>2. /\ size \in Words /\ size > 0 /\ rolled \in Nat /\ size \in Nat
          /\ n["minfsize"] \in Nat /\ n["maxfsize"] \in Nat
      BY <1>1, <2>4, <2>5, <2>6, <3>1, WordsType DEF Words
    <3>3. Align(rolled, size)
      BY <2>1, <3>1
    <3>4. rolled < n["maxfsize"]
      BY <1>1, <1>3, <2>1, <2>3, RollsRange
    <3>5. ASSUME n["maxfsize"] + size < Word
          PROVE  /\ fileSize' = blocks' * size /\ fileSize' >= n["minfsize"]
                 /\ fileSize' < n["maxfsize"] + size
      <4>1. rolled + size < Word
        BY <3>2, <3>4, <3>5, WordsType
      <4>2. fileSize' = blocks' * size /\ rolled <= fileSize' /\ fileSize' < rolled + size
        BY <2>5, <3>2, <3>3, <4>1, AlignUp
      <4>3. fileSize' \in Nat
        BY <2>7, WordsType DEF Words
      <4> QED
        BY <2>5, <3>2, <3>4, <4>2, <4>3
    <3> QED
      BY <1>4, <3>1, <3>5 DEF FileNearLimits, n
  <2>11. NothingYet' /\ Verified' /\ OverridesUnlessDefault'
    <3>1. OverridesUnlessDefault'
      BY <1>0, <1>2, <1>4, <2>2 DEF OverridesUnlessDefault
    <3>2. Verified'
      BY <1>2, <1>4 DEF Verified, Acceptable, FixedFits, RollFits
    <3> QED
      BY <2>2, <3>1, <3>2 DEF NothingYet
  <2> QED
    BY <1>5, <2>8, <2>9, <2>10, <2>11 DEF Inv
<1> QED
  BY <1>6, <1>7

LEMMA NextInv == Inv /\ [Next]_vars => Inv'
<1> SUFFICES ASSUME Inv, [Next]_vars PROVE Inv'
  OBVIOUS
<1>1. ASSUME NEW o \in Number, NEW v \in Values[o], GiveNumber(o, v) PROVE Inv'
  BY <1>1, GiveNumberInv
<1>2. CASE \/ GiveRandom \/ Misunderstood \/ Leave
           \/ \E w \in Wait : GiveWait(w)
           \/ \E s \in Scan : GiveScan(s)
           \/ \E m \in {"deLock", "deHammer"} : GiveMode(m)
  BY <1>2, GiveOtherInv
<1>3. CASE Settle
  BY <1>3, SettleInv
<1>4. CASE VerifyControlStruct
  BY <1>4, VerifyInv
<1>5. CASE Create
  BY <1>5, CreateInv
<1>6. CASE UNCHANGED vars
  BY <1>6 DEF Inv, TypeOK, Given, NothingYet, Verified, WeightsNeverRefused,
       OverridesUnlessDefault, CreatesSoundFiles, EqualLimits, FileNearLimits, Acceptable, FixedFits, RollFits,
       vars, argVars, sizeVars
<1> QED
  BY <1>1, <1>2, <1>3, <1>4, <1>5, <1>6 DEF Next

(***************************************************************************)
(* Theorems.                                                               *)
(***************************************************************************)
LEMMA InvHolds == Spec => []Inv
<1>1. Init => Inv
  BY InitInv
<1>2. Inv /\ [Next]_vars => Inv'
  BY NextInv
<1> QED
  BY <1>1, <1>2, PTL DEF Spec

\* Settings and sizes keep their types; a size is a word, whatever it is rounded
\* up to.
THEOREM TypeCorrect == Spec => []TypeOK
<1>1. Inv => TypeOK
  BY DEF Inv
<1> QED
  BY <1>1, InvHolds, PTL

\* verifyActionWeightsOf never ends a process that starts.
THEOREM WeightsNeverRefusedHolds == Spec => []WeightsNeverRefused
<1>1. Inv => WeightsNeverRefused
  BY DEF Inv
<1> QED
  BY <1>1, InvHolds, PTL

\* A number that was supplied is in force, in whatever order the arguments come,
\* unless it is the general default and -lock or -hammer was given.
THEOREM OverridesUnlessDefaultHolds == Spec => []OverridesUnlessDefault
<1>1. Inv => OverridesUnlessDefault
  BY DEF Inv
<1> QED
  BY <1>1, InvHolds, PTL

\* verifyControlStruct lets through settings whose first create divides by zero:
\* those with equal limits, and no others.  With all others create rolls a block
\* size between its limits and a file of at least one block.
THEOREM CreatesSoundFilesHolds == Spec => []CreatesSoundFiles
<1>1. Inv => CreatesSoundFiles
  BY DEF Inv
<1> QED
  BY <1>1, InvHolds, PTL

\* Files have the size that was asked for, to less than a block.
THEOREM FileNearLimitsHolds == Spec => []FileNearLimits
<1>1. Inv => FileNearLimits
  BY DEF Inv
<1> QED
  BY <1>1, InvHolds, PTL
=============================================================================
