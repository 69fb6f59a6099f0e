------------------------------- MODULE Verlauf -------------------------------
(***************************************************************************)
(* What the journal of an incident promises (src/backend/app/api/          *)
(* journal.py, header): one append-only record, every row in it once, and  *)
(* readers that follow it by a cursor and never skip a row below it.       *)
(* Journal.tla implements it.                                              *)
(***************************************************************************)
EXTENDS Naturals, Sequences, SequencesExt, Functions

CONSTANTS Reader, Entry

VARIABLES record,   \* the rows, in the order of their seq
          upTo,     \* reader: its cursor
          shown     \* reader: the rows of the record it holds

vars == <<record, upTo, shown>>

\* A reader holds only rows of the record, and every one its cursor has passed.
Covered(t) ==
    /\ upTo[t] \in 0..Len(record)
    /\ {record[i] : i \in 1..upTo[t]} \subseteq shown[t]
    /\ shown[t] \subseteq Range(record)

Init == /\ record = <<>>
        /\ upTo = [t \in Reader |-> 0]
        /\ shown = [t \in Reader |-> {}]

\* Rows are added at the end, none a second time; nobody has read them yet.
Extend == /\ record' \in Seq(Entry)
          /\ IsStrictPrefix(record, record')
          /\ IsInjective(record')
          /\ UNCHANGED <<upTo, shown>>

\* A reader moves on, starts over from its own copy, or leaves.
Read == /\ UNCHANGED record
        /\ \E t \in Reader :
             /\ \A u \in Reader \ {t} : upTo'[u] = upTo[u] /\ shown'[u] = shown[u]
             /\ Covered(t)'
             /\ upTo'[t] < upTo[t] => upTo'[t] = 0 /\ shown'[t] = {}

Next == Extend \/ Read

Spec == Init /\ [][Next]_vars
=============================================================================
