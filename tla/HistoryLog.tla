----------------------------- MODULE HistoryLog -----------------------------
(***************************************************************************)
(* What the history file of one logical file promises.  An action is       *)
(* recorded at most once and in one piece: what is left of its queue of    *)
(* entries, the youngest one first, is appended as a whole.  The log       *)
(* promises neither that every action is in it nor that actions are in the *)
(* order in which they were performed.                                     *)
(***************************************************************************)
EXTENDS Integers, Sequences

CONSTANTS Action,     \* the actions performed on the file
          MaxEntries  \* entries one action may wind, numbered as they are wound

VARIABLE log          \* sequence of [action, entry]

Entry   == 1 .. MaxEntries
Records == [action : Action, entry : Entry]

Descending(s) == \A j, k \in DOMAIN s : j < k => s[k] < s[j]

Init == log = <<>>

Record(a, kept) ==
  /\ \A k \in DOMAIN log : log[k].action # a
  /\ Descending(kept)
  /\ log' = log \o [k \in DOMAIN kept |-> [action |-> a, entry |-> kept[k]]]

\* A descending sequence has at most as many elements as there are entries.
Next == \E a \in Action, n \in Entry : \E kept \in [1 .. n -> Entry] : Record(a, kept)

Spec == Init /\ [][Next]_log
=============================================================================
