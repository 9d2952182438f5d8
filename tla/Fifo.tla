-------------------------------- MODULE Fifo --------------------------------
(***************************************************************************)
(* What a pipe promises: a bounded first-in first-out queue of bytes.  A   *)
(* writer hands over its bytes in pieces; a reader takes what is there.    *)
(***************************************************************************)
EXTENDS Integers, Sequences

CONSTANTS Readers, Writers, Byte, Capacity

VARIABLES q,     \* bytes in the pipe
          todo,  \* bytes a writer has still to hand over
          got    \* bytes the last read of a reader returned

vars == <<q, todo, got>>

Init ==
    /\ q = <<>>
    /\ todo = [w \in Writers |-> <<>>]
    /\ got = [r \in Readers |-> <<>>]

\* A new write replaces what a failed one left.
Start(w) == /\ todo'[w] \in Seq(Byte)
            /\ todo' = [todo EXCEPT ![w] = todo'[w]]
            /\ UNCHANGED <<q, got>>

Put(w, k) == /\ Len(q) + k <= Capacity
             /\ q' = q \o SubSeq(todo[w], 1, k)
             /\ todo' = [todo EXCEPT ![w] = SubSeq(@, k + 1, Len(@))]
             /\ UNCHANGED got

Get(r, k) == /\ got' = [got EXCEPT ![r] = SubSeq(q, 1, k)]
             /\ q' = SubSeq(q, k + 1, Len(q))
             /\ UNCHANGED todo

Next == \/ \E w \in Writers : Start(w) \/ \E k \in 1 .. Len(todo[w]) : Put(w, k)
        \/ \E r \in Readers, k \in 0 .. Len(q) : Get(r, k)

Spec == Init /\ [][Next]_vars
=============================================================================
