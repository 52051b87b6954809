----------------------------- MODULE ElhamTree -----------------------------
(***************************************************************************)
(* The names create picks from: every file of the complete tree has a      *)
(* number, and a number rolled in the range of all of them is turned into  *)
(* a path without looking at the disk.                                     *)
(*                                                                         *)
(* initializeState fills a table of grades: how many directories, and how  *)
(* many files, there are down to each level.  buildPathStackOf looks for   *)
(* the level a number is on, takes the name from the number's place on     *)
(* that level and calls itself with the number of the parent, until it is  *)
(* at directory 0, which is szBase.  A step is one turn of the loop, or    *)
(* one call.  All numbers are words: they wrap.                            *)
(***************************************************************************)
EXTENDS Integers, Sequences, FiniteSets

CONSTANTS Word,   \* 2^64: where a number of type uint8 wraps
          Option  \* the settings of -width, -depth and -files in question

ASSUME WordAssumption == Word \in Nat /\ Word > 1

ASSUME OptionAssumption ==
  Option \subseteq [width : 0 .. Word - 1, depth : Nat, files : 0 .. Word - 1]

VARIABLES
  opt,      \* pcs->ds
  dirs,     \* dirs.grades
  files,    \* files.grades
  u,        \* the directories the next level has
  i,        \* the next level
  pc,
  toFind,   \* uToFind
  names,    \* stack: the numbers the names are made of, the file's last
  asked,    \* history variable: the number rolled
  value,    \* history variable: the number the names spell, file's first,
  place,    \*   and what a unit of the next name will add to it
  wrapped   \* history variable: a number of the table was too large for a word

gradeVars == <<dirs, files, u, i, wrapped>>
walkVars == <<toFind, names, asked, value, place>>
vars == <<opt, gradeVars, pc, walkVars>>

Levels == 0 .. opt.depth
Words == 0 .. Word - 1
Wrap(n) == n % Word

TypeOK ==
  /\ opt \in Option
  /\ dirs \in [Levels -> Words] /\ files \in [Levels -> Words]
  /\ u \in Words /\ i \in 1 .. opt.depth + 1
  /\ pc \in {"idle", "walk", "done", "lost", "trapped"}
  /\ toFind \in Words /\ asked \in Words /\ names \in Seq(Words)
  /\ value \in Nat /\ place \in Nat
  /\ wrapped \in BOOLEAN

Init ==
  /\ opt \in Option
  /\ dirs = [k \in Levels |-> IF k = 0 THEN 1 ELSE 0]
  /\ files = [k \in Levels |-> IF k = 0 THEN opt.files ELSE 0]
  /\ u = opt.width /\ i = 1 /\ pc = "idle"
  /\ toFind = 0 /\ names = <<>> /\ asked = 0 /\ value = 0 /\ place = 0
  /\ wrapped = FALSE

\* Mutant of Grade: every level has as many directories as the first.
GradeFlat ==
  /\ i <= opt.depth
  /\ LET d == dirs[i - 1] + u
     IN  /\ dirs' = [dirs EXCEPT ![i] = Wrap(d)]
         /\ files' = [files EXCEPT ![i] = Wrap(Wrap(d) * opt.files)]
         /\ wrapped' = (wrapped \/ d >= Word \/ d * opt.files >= Word)
  /\ i' = i + 1
  /\ UNCHANGED <<opt, u, pc, walkVars>>

\* Mutant of Grade: with numbers of any size.
GradeUnbounded ==
  /\ i <= opt.depth
  /\ dirs' = [dirs EXCEPT ![i] = dirs[i - 1] + u]
  /\ files' = [files EXCEPT ![i] = (dirs[i - 1] + u) * opt.files]
  /\ u' = u * opt.width
  /\ i' = i + 1
  /\ UNCHANGED <<opt, wrapped, pc, walkVars>>

\* initializeState, one turn of its loop.  The directories of a level below the
\* last one are not needed.
Grade ==
  /\ i <= opt.depth
  /\ LET d == dirs[i - 1] + u
     IN  /\ dirs' = [dirs EXCEPT ![i] = Wrap(d)]
         /\ files' = [files EXCEPT ![i] = Wrap(Wrap(d) * opt.files)]
         /\ wrapped' = \/ wrapped
                       \/ d >= Word \/ d * opt.files >= Word
                       \/ i < opt.depth /\ u * opt.width >= Word
  /\ u' = Wrap(u * opt.width)
  /\ i' = i + 1
  /\ UNCHANGED <<opt, pc, walkVars>>

\* files.max.limit
Limit == files[opt.depth]

\* n is on level k of a table.
OnLevel(n, grades, k) == n < grades[k] /\ \A j \in 0 .. k - 1 : n >= grades[j]

Before(grades, k) == IF k < 0 THEN 0 ELSE grades[k]

\* The name with number id is put in front of the others.
Push(id, unit) ==
  /\ names' = <<id>> \o names
  /\ value' = value + place * (id + unit)
  /\ UNCHANGED <<opt, gradeVars, asked>>

\* Mutant of Roll: the number after the last one is rolled, too.
RollInclusive ==
  /\ pc = "idle" /\ i > opt.depth /\ Limit # 0
  /\ \E n \in 0 .. Limit :
       /\ asked' = n /\ toFind' = n \div opt.files
       /\ names' = <<n % opt.files>> /\ value' = n % opt.files /\ place' = opt.files
  /\ pc' = "walk"
  /\ UNCHANGED <<opt, gradeVars>>

\* actionCreate rolls a number, and buildPathStackOf finds the file's name and
\* the number of its directory.  The roll divides by the number of files.
Roll ==
  /\ pc = "idle" /\ i > opt.depth
  /\ IF Limit = 0 THEN pc' = "trapped" /\ UNCHANGED walkVars
     ELSE \E n \in 0 .. Limit - 1, k \in Levels :
            /\ OnLevel(n, files, k)
            /\ LET index == n - Before(files, k - 1)
                   id == index % opt.files
               IN  /\ toFind' = Wrap(Before(dirs, k - 1) + index \div opt.files)
                   /\ names' = <<id>> /\ value' = id /\ place' = opt.files
            /\ asked' = n /\ pc' = "walk"
  /\ UNCHANGED <<opt, gradeVars>>

\* Mutant of Enter: the place is counted from the first directory of all.
EnterUnshifted ==
  /\ pc = "walk" /\ toFind # 0
  /\ \E k \in Levels :
       /\ OnLevel(toFind, dirs, k)
       /\ toFind' = Wrap(Before(dirs, k - 2) + toFind \div opt.width)
       /\ Push(toFind % opt.width, 1)
  /\ place' = place * opt.width
  /\ UNCHANGED pc

\* buildPathStackOf finds a directory's name and the number of its parent.
Enter ==
  /\ pc = "walk" /\ toFind # 0
  /\ \E k \in Levels :
       /\ OnLevel(toFind, dirs, k)
       /\ LET index == toFind - Before(dirs, k - 1)
          IN  /\ toFind' = Wrap(Before(dirs, k - 2) + index \div opt.width)
              /\ Push(index % opt.width, 1)
  /\ place' = place * opt.width
  /\ UNCHANGED pc

\* The number is on no level: NULL is returned, and the names are lost.
Lose ==
  /\ pc = "walk" /\ toFind # 0
  /\ \A k \in Levels : toFind >= dirs[k]
  /\ pc' = "lost"
  /\ UNCHANGED <<opt, gradeVars, walkVars>>

\* Directory 0 is szBase.
Arrive ==
  /\ pc = "walk" /\ toFind = 0
  /\ pc' = "done"
  /\ UNCHANGED <<opt, gradeVars, walkVars>>

Next == Grade \/ Roll \/ Enter \/ Lose \/ Arrive

Spec == Init /\ [][Next]_vars

(***************************************************************************)
(* Correctness.                                                            *)
(***************************************************************************)
\* The paths of directories of the complete tree.
CompleteDirs == UNION {[1 .. k -> 0 .. opt.width - 1] : k \in Levels}

\* The range create rolls in is that of the files of the complete tree, as long
\* as their number fits a word.
LimitCountsTree ==
  i > opt.depth /\ ~wrapped => Limit = opt.files * Cardinality(CompleteDirs)

\* No two numbers have the same path: the names, read as the digits of a
\* number, spell the one that was rolled, although they were found by looking
\* through tables of sums.
PathSpellsNumber == pc = "done" /\ ~wrapped => value = asked

\* -depth limits the path: no file is more directories below szBase.
PathWithinDepth == pc = "done" /\ ~wrapped => Len(names) <= opt.depth + 1

\* Every number that is rolled has a path, as long as the number of files fits
\* a word; there is no roll only without files.
LostOnlyIfWrapped ==
  /\ pc = "lost" => wrapped
  /\ pc = "trapped" => opt.files = 0 \/ wrapped
=============================================================================
