----------------------------- MODULE BlockStore -----------------------------
(***************************************************************************)
(* What the buffer cache promises (bio.c): blocks that one process at a    *)
(* time holds, reads and changes, and whose contents nothing else changes; *)
(* a bad block that nobody holds may change by itself.                     *)
(***************************************************************************)
CONSTANTS Procs, Blocks, Values, BadBlocks, NoProc

VARIABLES contents, holder

vars == <<contents, holder>>

Init ==
    /\ contents \in [Blocks -> Values]
    /\ holder = [k \in Blocks |-> NoProc]

\* Reads of a bad block need not agree with each other or with the last write.
Spoil(k) == /\ k \in BadBlocks
            /\ \E v \in Values : contents' = [contents EXCEPT ![k] = v]

Take(p, k) == /\ holder[k] = NoProc
              /\ holder' = [holder EXCEPT ![k] = p]
              /\ UNCHANGED contents \/ Spoil(k)

Change(p, k, v) == /\ holder[k] = p
                   /\ contents' = [contents EXCEPT ![k] = v]
                   /\ UNCHANGED holder

Release(p, k) == /\ holder[k] = p
                 /\ holder' = [holder EXCEPT ![k] = NoProc]
                 /\ UNCHANGED contents

Next == \E p \in Procs, k \in Blocks :
            \/ holder[k] = NoProc /\ Spoil(k) /\ UNCHANGED holder
            \/ Take(p, k) \/ Release(p, k) \/ \E v \in Values : Change(p, k, v)

Spec == Init /\ [][Next]_vars
=============================================================================
