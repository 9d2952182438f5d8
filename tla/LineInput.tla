----------------------------- MODULE LineInput -----------------------------
(***************************************************************************)
(* What the console promises to programs: a queue of finished input, and a *)
(* line that the user still edits.  Together they hold at most INPUT_BUF   *)
(* characters; what is typed beyond that is dropped.                       *)
(***************************************************************************)
EXTENDS Integers, Sequences, SequencesExt

CONSTANTS INPUT_BUF,
          Chars,     \* what a program can read
          Finishers  \* the characters that finish a line

VARIABLES ready,    \* finished and not read
          editing

Init == ready = <<>> /\ editing = <<>>

Type(c) ==
    /\ Len(ready) + Len(editing) < INPUT_BUF
    /\ IF c \in Finishers \/ Len(ready) + Len(editing) + 1 = INPUT_BUF
       THEN ready' = ready \o Append(editing, c) /\ editing' = <<>>
       ELSE ready' = ready /\ editing' = Append(editing, c)

Erase == editing # <<>> /\ editing' = Front(editing) /\ UNCHANGED ready
Kill == editing' = <<>> /\ UNCHANGED ready

\* A program takes what it reads from the front.
Read == \E k \in 0 .. Len(ready) : ready' = SubSeq(ready, k + 1, Len(ready)) /\ UNCHANGED editing

Next == (\E c \in Chars : Type(c)) \/ Erase \/ Kill \/ Read

Spec == Init /\ [][Next]_<<ready, editing>>
=============================================================================
