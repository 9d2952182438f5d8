----------------------------- MODULE StateLists -----------------------------
(***************************************************************************)
(* The state lists of the process table (proc.c, built with CS333_P3P4):   *)
(* ptable.pLists keeps every slot of ptable.proc on the list of its state, *)
(* with one ready list per priority.  A list is a sequence of slots here;  *)
(* head, tail and next pointers are abstracted.                            *)
(***************************************************************************)
EXTENDS Integers, Sequences, Functions

CONSTANTS NPROC,    \* number of slots of ptable.proc
          MAXPRIO   \* lowest priority; 0 is the highest

ASSUME NPROCAssumption == NPROC \in Nat \ {0}
ASSUME MAXPRIOAssumption == MAXPRIO \in Nat

Procs == 1..NPROC

procstate == {"UNUSED", "EMBRYO", "SLEEPING", "RUNNABLE", "RUNNING", "ZOMBIE"}

(***************************************************************************)
(* A list is named by the state its members must have and a priority,     *)
(* which is 0 for every list but the ready ones.                           *)
(***************************************************************************)
FreeList == <<"UNUSED", 0>>
EmbryoList == <<"EMBRYO", 0>>
SleepList == <<"SLEEPING", 0>>
RunningList == <<"RUNNING", 0>>
ZombieList == <<"ZOMBIE", 0>>
ReadyList(prio) == <<"RUNNABLE", prio>>

ListIds == {FreeList, EmbryoList, SleepList, RunningList, ZombieList}
             \cup {ReadyList(prio) : prio \in 0..MAXPRIO}

(***************************************************************************)
(* The table as one value: a critical section of ptable.lock computes a    *)
(* new table from the old one.  "ok" turns false where the code panics     *)
(* because a process is not on the list, or not in the state, it should be.*)
(***************************************************************************)
Tables == [list : [ListIds -> Seq(Procs)], state : [Procs -> procstate], ok : BOOLEAN]

\* Where a loop over I in increasing order stops: the least element, if any.
Least(I) == {k \in I : \A j \in I : k <= j}

\* Mutant: the process stays on its old list.
stateListRemove_Keep(s, p) == s

unlink(s, k) == SubSeq(s, 1, k - 1) \o SubSeq(s, k + 1, Len(s))

stateListRemove(s, p) ==
    unlink(s, CHOOSE k \in Least({i \in 1..Len(s) : s[i] = p}) : TRUE)

stateListAdd(s, p) == Append(s, p)

(***************************************************************************)
(* changeState: take p off list "from", check its state, give it the state *)
(* of list "to" and append it there.                                       *)
(***************************************************************************)
changeState(pt, from, to, p) ==
    IF p \in Range(pt.list[from]) /\ pt.state[p] = from[1]
    THEN [list  |-> [pt.list EXCEPT ![from] = stateListRemove(@, p),
                                    ![to] = stateListAdd(@, p)],
          state |-> [pt.state EXCEPT ![p] = to[1]],
          ok    |-> pt.ok]
    ELSE [list |-> pt.list, state |-> pt.state, ok |-> FALSE]

(***************************************************************************)
(* The order in which exit, wait and kill search the lists.                *)
(***************************************************************************)
SearchOrder == <<EmbryoList>> \o [i \in 1..(MAXPRIO + 1) |-> ReadyList(i - 1)]
                 \o <<SleepList, RunningList, ZombieList>>

Searched(pt) ==
    LET upTo[i \in 0..Len(SearchOrder)] ==
            IF i = 0 THEN <<>> ELSE upTo[i - 1] \o pt.list[SearchOrder[i]]
    IN  upTo[Len(SearchOrder)]

(***************************************************************************)
(* The table userinit leaves: slot 1, the init process, is runnable at the *)
(* highest priority and all other slots are free, in the order of the      *)
(* array.                                                                  *)
(***************************************************************************)
userinitTable ==
    [list  |-> [l \in ListIds |->
                  IF l = ReadyList(0) THEN <<1>>
                  ELSE IF l = FreeList THEN [i \in 1..(NPROC - 1) |-> i + 1]
                  ELSE <<>>],
     state |-> [p \in Procs |-> IF p = 1 THEN "RUNNABLE" ELSE "UNUSED"],
     ok    |-> TRUE]

(***************************************************************************)
(* What the state lists promise: every slot is on exactly one list, once,  *)
(* and that list is the one of its state.  Stated for a table so that it   *)
(* can be asked of intermediate tables of a critical section too.          *)
(***************************************************************************)
OnListOfItsState(pt) ==
    \A l \in ListIds : \A k \in 1..Len(pt.list[l]) : pt.state[pt.list[l][k]] = l[1]

OnNoTwoLists(pt) ==
    \A l, m \in ListIds : \A j \in 1..Len(pt.list[l]), k \in 1..Len(pt.list[m]) :
        pt.list[l][j] = pt.list[m][k] => l = m /\ j = k

OnSomeList(pt) ==
    \A p \in Procs : \E l \in ListIds : \E k \in 1..Len(pt.list[l]) : pt.list[l][k] = p

ListsAgree(pt) == OnListOfItsState(pt) /\ OnNoTwoLists(pt) /\ OnSomeList(pt)
=============================================================================
