------------------------------ MODULE TableLog ------------------------------
(***************************************************************************)
(* What an append-only table fed from a topic promises.  Records are taken *)
(* in offset order, in ranges; the kept records of a range enter the table *)
(* together, except that those of a losable kind may be passed over.  With *)
(* Repeatable the newest range, and no other, may be written again;        *)
(* without it no record is in the table twice.                             *)
(***************************************************************************)
EXTENDS Naturals, Sequences

CONSTANTS
  Kinds,       \* what a record can be
  Kept,        \* the kinds whose records belong in the table
  Losable,     \* the kinds, of those, that a range may pass over
  MaxRecords,  \* bound on the records of the topic
  Repeatable   \* may the newest range be written again?

VARIABLES topic, since, taken, rows

vars == <<topic, since, taken, rows>>
Offsets == 1 .. MaxRecords

Among(lo, hi, kinds) == {o \in (lo + 1) .. hi : topic[o] \in kinds}

\* The table after the kept records of lo+1..hi, without the lost ones, are
\* appended to it.
Appended(table, lo, hi, lost) ==
  [o \in Offsets |-> IF o \in Among(lo, hi, Kept) \ lost
                     THEN table[o] + 1 ELSE table[o]]

Init ==
  /\ topic = <<>>
  /\ since = 0 /\ taken = 0
  /\ rows = [o \in Offsets |-> 0]

Arrive ==
  /\ Len(topic) < MaxRecords
  /\ \E k \in Kinds : topic' = Append(topic, k)
  /\ UNCHANGED <<since, taken, rows>>

Take ==
  /\ taken' \in (taken + 1) .. Len(topic)
  /\ since' = taken
  /\ \E lost \in SUBSET Among(taken, taken', Losable) :
       rows' = Appended(rows, taken, taken', lost)
  /\ UNCHANGED topic

Repeat ==
  /\ Repeatable
  /\ rows' = Appended(rows, since, taken, {})
  /\ UNCHANGED <<topic, since, taken>>

Next == Arrive \/ Take \/ Repeat
Spec == Init /\ [][Next]_vars
=============================================================================
