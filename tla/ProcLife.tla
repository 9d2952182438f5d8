------------------------------ MODULE ProcLife ------------------------------
(***************************************************************************)
(* What fork, exit and wait promise, without scheduling: the tree of       *)
(* processes.  The parent of a process is alive until it has been reaped,  *)
(* since a process that exits leaves its children to initproc, and pids    *)
(* tell the processes apart.                                               *)
(***************************************************************************)
EXTENDS Naturals

CONSTANTS Slots, Pids, initproc
VARIABLES life, parent, pid

vars == <<life, parent, pid>>

Init ==
    /\ life = [p \in Slots |-> IF p = initproc THEN "live" ELSE "free"]
    /\ parent = [p \in Slots |-> 0]
    /\ pid = [p \in Slots |-> IF p = initproc THEN 1 ELSE 0]

Fork(p, c, n) ==
    /\ life[p] = "live" /\ life[c] = "free"
    /\ \A q \in Slots : life[q] # "free" => pid[q] # n
    /\ life' = [life EXCEPT ![c] = "live"]
    /\ parent' = [parent EXCEPT ![c] = p]
    /\ pid' = [pid EXCEPT ![c] = n]

Exit(p) ==
    /\ p # initproc /\ life[p] = "live"
    /\ life' = [life EXCEPT ![p] = "dead"]
    /\ parent' = [q \in Slots |-> IF parent[q] = p THEN initproc ELSE parent[q]]
    /\ UNCHANGED pid

Wait(p, c) ==
    /\ life[p] = "live" /\ life[c] = "dead" /\ parent[c] = p
    /\ life' = [life EXCEPT ![c] = "free"]
    /\ parent' = [parent EXCEPT ![c] = 0]
    /\ pid' = [pid EXCEPT ![c] = 0]

Next == \E p \in Slots :
    \/ Exit(p)
    \/ \E c \in Slots : Wait(p, c) \/ \E n \in Pids : Fork(p, c, n)

Spec == Init /\ [][Next]_vars
=============================================================================
