------------------------------ MODULE ProcTableLemmas -----------------------
(***************************************************************************)
(* Moving a process from one list to another keeps the lists in agreement  *)
(* with the states; the critical sections of ProcTable, and the steps that *)
(* do not create or end a process, keep TableInv.                          *)
(***************************************************************************)
EXTENDS ProcTable, TLAPS

\* Time for the leaves, which the provers try in this order.
USE SMTT(30), ZenonT(30)

-----------------------------------------------------------------------------
(***************************************************************************)
(* Sequences.                                                              *)
(***************************************************************************)
\* A sequence of processes has a length, and its elements are processes.
LEMMA LenProperties ==
    ASSUME NEW S, NEW s \in Seq(S)
    PROVE  Len(s) \in Nat /\ DOMAIN s = 1..Len(s) /\ \A n \in 1..Len(s) : s[n] \in S
OBVIOUS

\* The part of a list between two places, as unlink takes it.
LEMMA SubSeqProperties ==
    ASSUME NEW S, NEW s \in Seq(S), NEW m \in 1..(Len(s) + 1), NEW n \in (m - 1)..Len(s)
    PROVE  /\ SubSeq(s, m, n) \in Seq(S)
           /\ Len(SubSeq(s, m, n)) = n - m + 1
           /\ \A i \in 1..(n - m + 1) : SubSeq(s, m, n)[i] = s[m + i - 1]
OBVIOUS

\* Two lists one after the other.
LEMMA ConcatProperties ==
    ASSUME NEW S, NEW s \in Seq(S), NEW t \in Seq(S)
    PROVE  /\ s \o t \in Seq(S)
           /\ Len(s \o t) = Len(s) + Len(t)
           /\ \A i \in 1..(Len(s) + Len(t)) :
                 (s \o t)[i] = IF i <= Len(s) THEN s[i] ELSE t[i - Len(s)]
OBVIOUS

\* stateListAdd: the old places stay, the process is behind them.
LEMMA AppendProperties ==
    ASSUME NEW S, NEW s \in Seq(S), NEW x \in S
    PROVE  /\ Append(s, x) \in Seq(S)
           /\ Len(Append(s, x)) = Len(s) + 1
           /\ \A i \in 1..Len(s) : Append(s, x)[i] = s[i]
           /\ Append(s, x)[Len(s) + 1] = x
OBVIOUS

\* unlink drops one position and shifts the later ones.
LEMMA UnlinkProperties ==
    ASSUME NEW S, NEW s \in Seq(S), NEW k \in 1..Len(s)
    PROVE  /\ unlink(s, k) \in Seq(S)
           /\ Len(unlink(s, k)) = Len(s) - 1
           /\ \A i \in 1..(Len(s) - 1) :
                 unlink(s, k)[i] = IF i < k THEN s[i] ELSE s[i + 1]
<1> DEFINE a == SubSeq(s, 1, k - 1)
           b == SubSeq(s, k + 1, Len(s))
<1>0. \A i \in 1..Len(s) : s[i] \in S
  BY LenProperties
<1>1. a \in Seq(S) /\ Len(a) = k - 1 /\ \A i \in 1..(k - 1) : a[i] = s[i]
  BY <1>0, SubSeqProperties
<1>2. /\ b \in Seq(S) /\ Len(b) = Len(s) - k
      /\ \A i \in 1..(Len(s) - k) : b[i] = s[k + i]
  BY <1>0, SubSeqProperties
<1>3. /\ a \o b \in Seq(S)
      /\ Len(a \o b) = Len(a) + Len(b)
      /\ \A i \in 1..(Len(a) + Len(b)) :
            (a \o b)[i] = IF i <= Len(a) THEN a[i] ELSE b[i - Len(a)]
  BY Zenon, <1>1, <1>2, ConcatProperties
<1> HIDE DEF a, b
<1>4. \A i \in 1..(Len(s) - 1) : (a \o b)[i] = IF i < k THEN s[i] ELSE s[i + 1]
  <2> SUFFICES ASSUME NEW i \in 1..(Len(s) - 1)
               PROVE  (a \o b)[i] = IF i < k THEN s[i] ELSE s[i + 1]
    BY Zenon
  <2>1. CASE i < k
    BY <2>1, <1>1, <1>2, <1>3
  <2>2. CASE ~ (i < k)
    <3>1. i - (k - 1) \in 1..(Len(s) - k) /\ k + (i - (k - 1)) = i + 1
      BY <2>2
    <3>2. (a \o b)[i] = b[i - (k - 1)]
      <4>1. i \in 1..(Len(a) + Len(b)) /\ ~ (i <= Len(a)) /\ Len(a) = k - 1
        BY <2>2, <1>1, <1>2
      <4> QED BY Zenon, <4>1, <1>3
    <3>3. b[i - (k - 1)] = s[i + 1]
      BY <3>1, <1>2
    <3> QED BY <2>2, <3>2, <3>3
  <2> QED BY Zenon, <2>1, <2>2
<1>5. unlink(s, k) = a \o b
  BY DEF unlink, a, b
<1>6. Len(a \o b) = Len(s) - 1
  BY <1>1, <1>2, <1>3
<1> QED
  BY <1>3, <1>4, <1>5, <1>6

\* stateListRemove takes p out of a list that has it once and keeps the order.
LEMMA RemoveProperties ==
    ASSUME NEW S, NEW s \in Seq(S), NEW p \in Range(s), IsInjective(s)
    PROVE  \E k \in 1..Len(s) :
              /\ s[k] = p
              /\ stateListRemove(s, p) \in Seq(S)
              /\ Len(stateListRemove(s, p)) = Len(s) - 1
              /\ \A i \in 1..(Len(s) - 1) :
                    stateListRemove(s, p)[i] = IF i < k THEN s[i] ELSE s[i + 1]
<1> DEFINE I == {i \in 1..Len(s) : s[i] = p}
<1>1. PICK j \in 1..Len(s) : s[j] = p
  BY LenProperties DEF Range
<1>2. I = {j} /\ j \in Int
  BY <1>1, LenProperties DEF IsInjective
<1>3. Least(I) = {j}
  BY <1>2 DEF Least
<1>4. stateListRemove(s, p) = unlink(s, j)
  BY ZenonT(30), <1>3 DEF stateListRemove
<1>5. /\ unlink(s, j) \in Seq(S) /\ Len(unlink(s, j)) = Len(s) - 1
      /\ \A i \in 1..(Len(s) - 1) : unlink(s, j)[i] = IF i < j THEN s[i] ELSE s[i + 1]
  BY UnlinkProperties
<1> QED
  BY ZenonT(30), <1>1, <1>4, <1>5

-----------------------------------------------------------------------------
(***************************************************************************)
(* Moving a process.                                                       *)
(***************************************************************************)
\* changeState on a process that is on the list it is taken from, to another
\* list: the lists still agree with the states and nothing panics.
LEMMA ChangeStateAgrees ==
    ASSUME NEW pt \in Tables, ListsAgree(pt),
           NEW from \in ListIds, NEW to \in ListIds, from # to,
           NEW p \in Procs, p \in Range(pt.list[from])
    PROVE  /\ changeState(pt, from, to, p) \in Tables
           /\ ListsAgree(changeState(pt, from, to, p))
           /\ changeState(pt, from, to, p).ok = pt.ok
           /\ changeState(pt, from, to, p).state = [pt.state EXCEPT ![p] = to[1]]
<1> DEFINE old == pt.list
           r == stateListRemove(old[from], p)
           a == stateListAdd(old[to], p)
           new == [old EXCEPT ![from] = r, ![to] = a]
           nt == changeState(pt, from, to, p)
<1>1. /\ old \in [ListIds -> Seq(Procs)] /\ pt.state \in [Procs -> procstate]
      /\ pt.ok \in BOOLEAN
  BY DEF Tables
<1>2. \A l \in ListIds : old[l] \in Seq(Procs) /\ Len(old[l]) \in Nat
  BY <1>1, LenProperties
<1>3. PICK k \in 1..Len(old[from]) :
         /\ old[from][k] = p
         /\ r \in Seq(Procs)
         /\ Len(r) = Len(old[from]) - 1
         /\ \A i \in 1..(Len(old[from]) - 1) :
               r[i] = IF i < k THEN old[from][i] ELSE old[from][i + 1]
  <2>1. /\ old[from] \in Seq(Procs) /\ p \in Range(old[from])
        /\ IsInjective(old[from])
    BY <1>2, LenProperties DEF ListsAgree, OnNoTwoLists, IsInjective
  <2> HIDE DEF old
  <2> QED BY ZenonT(30), <2>1, RemoveProperties
<1>4. /\ a \in Seq(Procs)
      /\ Len(a) = Len(old[to]) + 1
      /\ \A i \in 1..Len(old[to]) : a[i] = old[to][i]
      /\ a[Len(old[to]) + 1] = p
  BY <1>2, AppendProperties DEF stateListAdd
<1>5. pt.state[p] = from[1]
  BY <1>3 DEF ListsAgree, OnListOfItsState
<1>6. nt = [list |-> new, state |-> [pt.state EXCEPT ![p] = to[1]], ok |-> pt.ok]
  BY <1>1, <1>5 DEF changeState
<1>7. to[1] \in procstate
  BY DEF ListIds, FreeList, EmbryoList, SleepList, RunningList, ZombieList, ReadyList, procstate
<1>8. /\ new \in [ListIds -> Seq(Procs)]
      /\ new[from] = r /\ new[to] = a
      /\ \A l \in ListIds \ {from, to} : new[l] = old[l]
  BY Zenon, <1>1, <1>3, <1>4
<1> HIDE DEF old, r, a, new, nt
<1>9. nt \in Tables
  <2>1. [pt.state EXCEPT ![p] = to[1]] \in [Procs -> procstate]
    BY <1>1, <1>7
  <2> QED BY <2>1, <1>1, <1>6, <1>8 DEF Tables
\* Position i of a new list held the same process at position o(l, i) before,
\* unless it is the place p was moved to.
<1> DEFINE o(l, i) == IF l = from /\ i >= k THEN i + 1 ELSE i
           Moved(l, i) == l = to /\ i = Len(old[to]) + 1
<1>10. ASSUME NEW l \in ListIds, NEW i \in 1..Len(new[l]), ~ Moved(l, i)
       PROVE  o(l, i) \in 1..Len(old[l]) /\ new[l][i] = old[l][o(l, i)]
  <2>1. CASE l = from
    BY <2>1, <1>2, <1>3, <1>8
  <2>2. CASE l = to
    BY <2>2, <1>2, <1>4, <1>8, <1>10
  <2>3. CASE l \notin {from, to}
    BY <2>3, <1>2, <1>8
  <2> QED BY <2>1, <2>2, <2>3
<1>11. ASSUME NEW l \in ListIds, NEW i \in 1..Len(new[l]), ~ Moved(l, i)
       PROVE  new[l][i] # p
  <2>1. \A m \in ListIds : \A j \in 1..Len(old[m]) : old[m][j] = p => m = from /\ j = k
    BY <1>3 DEF ListsAgree, OnNoTwoLists, old
  <2>2. SUFFICES ASSUME new[l][i] = p PROVE FALSE
    OBVIOUS
  <2>3. l = from /\ o(l, i) = k
    BY <1>10, <1>11, <2>1, <2>2
  <2> QED BY <2>3, <1>3, <1>8
<1>12. ASSUME NEW i \in 1..Len(new[to]), Moved(to, i) PROVE new[to][i] = p
  BY <1>12, <1>4, <1>8
<1>13. OnListOfItsState(nt)
  <2> SUFFICES ASSUME NEW l \in ListIds, NEW i \in 1..Len(new[l])
               PROVE  nt.state[new[l][i]] = l[1]
    BY <1>6 DEF OnListOfItsState
  <2>1. CASE Moved(l, i)
    BY <2>1, <1>1, <1>6, <1>12
  <2>2. CASE ~ Moved(l, i)
    <3>1. pt.state[old[l][o(l, i)]] = l[1]
      BY <1>10, <2>2 DEF ListsAgree, OnListOfItsState, old
    <3>2. old[l][o(l, i)] \in Procs
      BY <1>2, <1>10, <2>2, LenProperties
    <3> QED BY Zenon, <3>1, <3>2, <2>2, <1>1, <1>6, <1>10, <1>11
  <2> QED BY <2>1, <2>2
<1>14. OnNoTwoLists(nt)
  <2> SUFFICES ASSUME NEW l \in ListIds, NEW m \in ListIds,
                      NEW i \in 1..Len(new[l]), NEW j \in 1..Len(new[m]),
                      new[l][i] = new[m][j]
               PROVE  l = m /\ i = j
    BY <1>6 DEF OnNoTwoLists
  <2>1. CASE Moved(l, i) \/ Moved(m, j)
    BY <2>1, <1>11, <1>12
  <2>2. CASE ~ Moved(l, i) /\ ~ Moved(m, j)
    <3>1. /\ o(l, i) \in 1..Len(old[l]) /\ o(m, j) \in 1..Len(old[m])
          /\ old[l][o(l, i)] = old[m][o(m, j)]
      BY <1>10, <2>2
    <3> HIDE DEF o, Moved
    <3>2. l = m /\ o(l, i) = o(m, j)
      BY SMTT(30), <3>1 DEF ListsAgree, OnNoTwoLists, old
    <3> QED BY <3>2, <1>3 DEF o
  <2> QED BY <2>1, <2>2
<1>15. OnSomeList(nt)
  <2> SUFFICES ASSUME NEW q \in Procs
               PROVE  \E l \in ListIds : \E i \in 1..Len(new[l]) : new[l][i] = q
    BY <1>6 DEF OnSomeList
  <2>1. CASE q = p
    <3>1. Len(old[to]) + 1 \in 1..Len(new[to]) /\ new[to][Len(old[to]) + 1] = q
      BY <2>1, <1>2, <1>4, <1>8
    <3> QED BY <3>1
  <2>2. CASE q # p
    <3>1. PICK l \in ListIds : \E i \in 1..Len(old[l]) : old[l][i] = q
      BY DEF ListsAgree, OnSomeList, old
    <3>2. PICK i \in 1..Len(old[l]) : old[l][i] = q
      BY <3>1
    <3>3. CASE l = from
      <4> DEFINE ii == IF i < k THEN i ELSE i - 1
      <4>1. i # k
        BY <2>2, <3>2, <3>3, <1>3
      <4>2. ii \in 1..(Len(old[from]) - 1) /\ r[ii] = old[from][i]
        BY <4>1, <3>3, <1>2, <1>3
      <4> QED BY <4>2, <3>2, <3>3, <1>3, <1>8
    <3>4. CASE l = to
      <4>1. i \in 1..Len(new[to]) /\ new[to][i] = q
        BY <3>2, <3>4, <1>2, <1>4, <1>8
      <4> QED BY <4>1
    <3>5. CASE l \notin {from, to}
      BY <3>2, <3>5, <1>8
    <3> QED BY <3>3, <3>4, <3>5
  <2> QED BY <2>1, <2>2
<1> QED
  BY <1>6, <1>9, <1>13, <1>14, <1>15 DEF ListsAgree, nt

-----------------------------------------------------------------------------
(***************************************************************************)
(* Finding a process.                                                      *)
(***************************************************************************)
\* Taking the process from a non-empty list: its head is on it.
LEMMA HeadOnList ==
    ASSUME NEW S, NEW s \in Seq(S), s # <<>>
    PROVE  s[1] \in Range(s) /\ s[1] \in S
<1>1. Len(s) \in Nat /\ Len(s) # 0
  BY LenProperties
<1>2. 1 \in 1..Len(s)
  BY <1>1
<1> QED BY <1>2, LenProperties DEF Range

\* Every process found on a list has the state of that list.
LEMMA MemberHasState ==
    ASSUME NEW pt \in Tables, ListsAgree(pt), NEW l \in ListIds, NEW p \in Range(pt.list[l])
    PROVE  p \in Procs /\ pt.state[p] = l[1]
<1>1. pt.list[l] \in Seq(Procs)
  BY DEF Tables
<1>2. PICK k \in 1..Len(pt.list[l]) : pt.list[l][k] = p
  BY <1>1, LenProperties DEF Range
<1> QED BY <1>1, <1>2, LenProperties DEF ListsAgree, OnListOfItsState

\* A process is on some list, and that list is one of its state.
LEMMA OnListOfState ==
    ASSUME NEW pt \in Tables, ListsAgree(pt), NEW p \in Procs
    PROVE  \E l \in ListIds : pt.state[p] = l[1] /\ p \in Range(pt.list[l])
<1>1. PICK l \in ListIds : \E k \in 1..Len(pt.list[l]) : pt.list[l][k] = p
  BY DEF ListsAgree, OnSomeList
<1>2. PICK k \in 1..Len(pt.list[l]) : pt.list[l][k] = p
  BY <1>1
<1>3. pt.list[l] \in Seq(Procs)
  BY DEF Tables
<1>4. p \in Range(pt.list[l])
  BY <1>2, <1>3, LenProperties DEF Range
<1> QED BY <1>4, MemberHasState

\* Only the ready lists share a state: a process that is not runnable is on
\* the one list of its state, where exit, wait and fork look for it.
LEMMA OnListOf ==
    ASSUME NEW pt \in Tables, ListsAgree(pt), NEW p \in Procs,
           NEW l \in {FreeList, EmbryoList, SleepList, RunningList, ZombieList},
           pt.state[p] = l[1]
    PROVE  p \in Range(pt.list[l])
<1>1. PICK m \in ListIds : pt.state[p] = m[1] /\ p \in Range(pt.list[m])
  BY OnListOfState
<1>2. m[1] = l[1]
  BY <1>1
<1>3. m # FreeList /\ m # EmbryoList /\ m # SleepList /\ m # RunningList /\ m # ZombieList
         => m[1] = "RUNNABLE"
  BY DEF ListIds, ReadyList
<1>4. m = l
  BY <1>2, <1>3 DEF FreeList, EmbryoList, SleepList, RunningList, ZombieList
<1> QED BY <1>1, <1>4

\* A runnable process is on one of the ready lists.
LEMMA OnReadyList ==
    ASSUME NEW pt \in Tables, ListsAgree(pt), NEW p \in Procs, pt.state[p] = "RUNNABLE"
    PROVE  \E i \in 0..MAXPRIO : p \in Range(pt.list[ReadyList(i)])
<1>1. PICK m \in ListIds : pt.state[p] = m[1] /\ p \in Range(pt.list[m])
  BY OnListOfState
<1>2. \E i \in 0..MAXPRIO : m = ReadyList(i)
  BY <1>1 DEF ListIds, FreeList, EmbryoList, SleepList, RunningList, ZombieList, ReadyList
<1> QED BY <1>1, <1>2

\* The lists are different lists of the table.
LEMMA ListIdFacts ==
    /\ FreeList \in ListIds /\ FreeList[1] = "UNUSED"
    /\ EmbryoList \in ListIds /\ EmbryoList[1] = "EMBRYO"
    /\ SleepList \in ListIds /\ SleepList[1] = "SLEEPING"
    /\ RunningList \in ListIds /\ RunningList[1] = "RUNNING"
    /\ ZombieList \in ListIds /\ ZombieList[1] = "ZOMBIE"
    /\ \A i \in 0..MAXPRIO : ReadyList(i) \in ListIds /\ ReadyList(i)[1] = "RUNNABLE"
    /\ \A i, j \in 0..MAXPRIO : ReadyList(i) = ReadyList(j) => i = j
BY DEF ListIds, FreeList, EmbryoList, SleepList, RunningList, ZombieList, ReadyList

\* userinit leaves the lists in agreement with the states.
LEMMA UserinitAgrees == userinitTable \in Tables /\ ListsAgree(userinitTable)
<1> DEFINE L == userinitTable.list
           S == userinitTable.state
           free == [i \in 1..(NPROC - 1) |-> i + 1]
<1>0. 0 \in 0..MAXPRIO /\ 1 \in Procs /\ ReadyList(0) # FreeList
  BY NPROCAssumption, MAXPRIOAssumption DEF Procs, ReadyList, FreeList
<1>1. /\ userinitTable = [list |-> L, state |-> S, ok |-> TRUE]
      /\ L = [l \in ListIds |-> IF l = ReadyList(0) THEN <<1>>
                                ELSE IF l = FreeList THEN free ELSE <<>>]
      /\ S = [p \in Procs |-> IF p = 1 THEN "RUNNABLE" ELSE "UNUSED"]
  BY DEF userinitTable
<1>2. /\ free \in Seq(Procs) /\ Len(free) = NPROC - 1
      /\ \A i \in 1..(NPROC - 1) : free[i] = i + 1
  <2>1. free \in [1..(NPROC - 1) -> Procs]
    BY NPROCAssumption DEF Procs
  <2>2. NPROC - 1 \in Nat
    BY NPROCAssumption
  <2> QED BY <2>1, <2>2, LenProperties
<1>3. <<1>> \in Seq(Procs) /\ Len(<<1>>) = 1 /\ <<1>>[1] = 1
  BY <1>0
<1>4. <<>> \in Seq(Procs) /\ Len(<<>>) = 0
  OBVIOUS
<1> HIDE DEF L, S, free
<1>5. L \in [ListIds -> Seq(Procs)]
  BY <1>1, <1>2, <1>3, <1>4
<1>6. S \in [Procs -> procstate]
  BY <1>1 DEF procstate
<1>7. L[ReadyList(0)] = <<1>> /\ L[FreeList] = free
  BY <1>0, <1>1, ListIdFacts
<1>8. ASSUME NEW l \in ListIds, NEW k \in 1..Len(L[l])
      PROVE  \/ l = ReadyList(0) /\ k = 1 /\ L[l][k] = 1
             \/ l = FreeList /\ k \in 1..(NPROC - 1) /\ L[l][k] = k + 1
  BY <1>1, <1>2, <1>3, <1>4
<1>9. OnListOfItsState(userinitTable)
  <2> SUFFICES ASSUME NEW l \in ListIds, NEW k \in 1..Len(L[l])
               PROVE  S[L[l][k]] = l[1]
    BY <1>1 DEF OnListOfItsState
  <2> QED BY <1>0, <1>1, <1>8, ListIdFacts, NPROCAssumption DEF Procs
<1>10. OnNoTwoLists(userinitTable)
  <2> SUFFICES ASSUME NEW l \in ListIds, NEW m \in ListIds,
                      NEW j \in 1..Len(L[l]), NEW k \in 1..Len(L[m]), L[l][j] = L[m][k]
               PROVE  l = m /\ j = k
    BY <1>1 DEF OnNoTwoLists
  <2> QED BY <1>8, NPROCAssumption
<1>11. OnSomeList(userinitTable)
  <2> SUFFICES ASSUME NEW p \in Procs
               PROVE  \E l \in ListIds : \E k \in 1..Len(L[l]) : L[l][k] = p
    BY <1>1 DEF OnSomeList
  <2>1. CASE p = 1
    <3>1. 1 \in 1..Len(L[ReadyList(0)]) /\ L[ReadyList(0)][1] = p
      BY <2>1, <1>3, <1>7
    <3> QED BY <3>1, <1>0, ListIdFacts
  <2>2. CASE p # 1
    <3>1. p - 1 \in 1..(NPROC - 1) /\ (p - 1) + 1 = p
      BY <2>2, NPROCAssumption DEF Procs
    <3>2. p - 1 \in 1..Len(L[FreeList]) /\ L[FreeList][p - 1] = p
      BY <3>1, <1>2, <1>7
    <3> QED BY <3>2, ListIdFacts
  <2> QED BY <2>1, <2>2
<1> QED BY <1>1, <1>5, <1>6, <1>9, <1>10, <1>11 DEF Tables, ListsAgree

-----------------------------------------------------------------------------
(***************************************************************************)
(* Critical sections.                                                      *)
(***************************************************************************)
\* A critical section starts from a table whose lists agree.
LEMMA TableFacts ==
    ASSUME TypeOK, ListInv
    PROVE  /\ Table \in Tables /\ ListsAgree(Table)
           /\ Table.list = list /\ Table.state = state /\ Table.ok = TRUE
BY DEF TypeOK, ListInv, Table, Tables

\* release() of a table whose lists agree publishes that table.
LEMMA ReleaseEffect ==
    ASSUME NEW STATE pt, pt \in Tables, ListsAgree(pt), pt.ok = TRUE,
           NEW c \in CPUs, release(c, pt)
    PROVE  /\ list' = pt.list /\ state' = pt.state /\ lock' = NoCPU /\ panic' = panic
           /\ list' \in [ListIds -> Seq(Procs)] /\ state' \in [Procs -> procstate]
           /\ ListInv'
<1>1. /\ list' = pt.list /\ state' = pt.state /\ lock' = NoCPU /\ panic' = panic
  BY DEF release
<1>2. Table'.list = pt.list /\ Table'.state = pt.state
  BY <1>1 DEF Table
<1>3. ListsAgree(Table')
  BY <1>2 DEF ListsAgree, OnListOfItsState, OnNoTwoLists, OnSomeList
<1> QED BY <1>1, <1>3 DEF Tables, ListInv

\* The critical section ended without a panic, with the lists in agreement.
Published ==
    /\ list' \in [ListIds -> Seq(Procs)] /\ state' \in [Procs -> procstate]
    /\ ListInv' /\ lock' = NoCPU /\ panic' = panic

MovedTo(p, st) == Published /\ state' = [state EXCEPT ![p] = st]

\* A critical section that moves one process.
LEMMA MoveEffect ==
    ASSUME TypeOK, ListInv, NEW c \in CPUs,
           NEW STATE from, NEW STATE to, NEW STATE p,
           from \in ListIds, to \in ListIds, p \in Procs, from # to,
           p \in Range(list[from]),
           release(c, changeState(Table, from, to, p))
    PROVE  MovedTo(p, to[1]) /\ changeState(Table, from, to, p).ok = TRUE
<1> DEFINE nt == changeState(Table, from, to, p)
<1>1. /\ nt \in Tables /\ ListsAgree(nt) /\ nt.ok = TRUE
      /\ nt.state = [state EXCEPT ![p] = to[1]]
  <2>1. /\ Table \in Tables /\ ListsAgree(Table) /\ p \in Range(Table.list[from])
        /\ Table.ok = TRUE /\ Table.state = state
    BY Zenon, TableFacts
  <2>2. /\ nt \in Tables /\ ListsAgree(nt) /\ nt.ok = Table.ok
        /\ nt.state = [Table.state EXCEPT ![p] = to[1]]
    BY <2>1, ChangeStateAgrees
  <2> QED BY <2>1, <2>2
<1> HIDE DEF nt
<1>2. release(c, nt)
  BY DEF nt
<1> QED BY Zenon, <1>1, <1>2, ReleaseEffect DEF nt, MovedTo, Published

\* wakeup1 keeps the lists in agreement and only makes sleepers runnable; the
\* only sleeper on a channel is woken.
LEMMA Wakeup1Agrees ==
    ASSUME TypeOK, NEW pt \in Tables, ListsAgree(pt), NEW ch
    PROVE  /\ wakeup1(pt, ch) \in Tables
           /\ ListsAgree(wakeup1(pt, ch))
           /\ wakeup1(pt, ch).ok = pt.ok
           /\ \/ /\ wakeup1(pt, ch) = pt
                 /\ \A q \in Procs : pt.state[q] = "SLEEPING" /\ chan[q] = ch =>
                       \E r \in Procs \ {q} : pt.state[r] = "SLEEPING" /\ chan[r] = ch
              \/ \E p \in Procs :
                    /\ pt.state[p] = "SLEEPING" /\ chan[p] = ch
                    /\ wakeup1(pt, ch).state = [pt.state EXCEPT ![p] = "RUNNABLE"]
<1> DEFINE sl == pt.list[SleepList]
<1>1. sl \in Seq(Procs) /\ Len(sl) \in Nat
  BY ListIdFacts, LenProperties DEF Tables
<1>2. CASE Least(Sleepers(pt, ch)) = {}
  <2>1. wakeup1(pt, ch) = pt
    BY <1>2 DEF wakeup1
  <2>2. ASSUME NEW q \in Procs, pt.state[q] = "SLEEPING", chan[q] = ch
        PROVE  \E r \in Procs \ {q} : pt.state[r] = "SLEEPING" /\ chan[r] = ch
    <3>1. q \in Range(sl)
      BY <2>2, OnListOf, ListIdFacts
    <3>2. PICK k \in 1..Len(sl) : sl[k] = q
      BY <3>1, <1>1, LenProperties DEF Range
    <3>3. k \in Sleepers(pt, ch) /\ k \in Int
      BY <2>2, <3>2 DEF Sleepers
    <3>4. PICK j \in Sleepers(pt, ch) : ~ (k <= j)
      BY <1>2, <3>3 DEF Least
    <3>5. j \in 1..Len(sl) /\ chan[sl[j]] = ch /\ j # k
      BY <3>3, <3>4 DEF Sleepers
    <3>6. sl[j] # q
      BY <3>2, <3>5, ListIdFacts DEF ListsAgree, OnNoTwoLists
    <3>7. sl[j] \in Range(sl)
      BY <3>5, <1>1, LenProperties DEF Range
    <3>8. sl[j] \in Procs /\ pt.state[sl[j]] = "SLEEPING"
      BY <3>7, MemberHasState, ListIdFacts
    <3> QED BY <3>5, <3>6, <3>8
  <2> QED BY <2>1, <2>2
<1>3. CASE Least(Sleepers(pt, ch)) # {}
  <2> DEFINE k == CHOOSE k \in Least(Sleepers(pt, ch)) : TRUE
             p == sl[k]
  <2>1. k \in Least(Sleepers(pt, ch))
    BY <1>3
  <2>2. k \in 1..Len(sl) /\ chan[p] = ch
    BY Zenon, <2>1 DEF Least, Sleepers
  <2>3. wakeup1(pt, ch) = changeState(pt, SleepList, ReadyList(priority[p]), p)
    BY <1>3 DEF wakeup1
  <2> HIDE DEF k
  <2>4. p \in Range(sl)
    BY <2>2, <1>1, LenProperties DEF Range
  <2>5. p \in Procs /\ pt.state[p] = "SLEEPING"
    BY <2>4, MemberHasState, ListIdFacts
  <2>6. priority[p] \in 0..MAXPRIO
    BY <2>5 DEF TypeOK
  <2>7. /\ ReadyList(priority[p]) \in ListIds /\ ReadyList(priority[p])[1] = "RUNNABLE"
        /\ SleepList \in ListIds /\ SleepList # ReadyList(priority[p])
    BY <2>6, ListIdFacts
  <2> HIDE DEF p
  <2>8. /\ wakeup1(pt, ch) \in Tables /\ ListsAgree(wakeup1(pt, ch))
        /\ wakeup1(pt, ch).ok = pt.ok
        /\ wakeup1(pt, ch).state = [pt.state EXCEPT ![p] = "RUNNABLE"]
    BY <2>3, <2>4, <2>5, <2>7, ChangeStateAgrees
  <2> QED BY <2>2, <2>5, <2>8
<1> QED BY <1>2, <1>3

\* A critical section that is one wakeup1.
LEMMA WakeEffect ==
    ASSUME TypeOK, ListInv, NEW c \in CPUs, NEW ch, release(c, wakeup1(Table, ch))
    PROVE  /\ Published
           /\ \A q \in Procs : \/ state'[q] = state[q]
                               \/ state[q] = "SLEEPING" /\ state'[q] = "RUNNABLE"
<1> DEFINE w == wakeup1(Table, ch)
<1>1. /\ w \in Tables /\ ListsAgree(w) /\ w.ok = TRUE
      /\ \/ w = Table
         \/ \E p \in Procs : /\ state[p] = "SLEEPING"
                             /\ w.state = [state EXCEPT ![p] = "RUNNABLE"]
  <2>1. /\ Table \in Tables /\ ListsAgree(Table)
        /\ Table.ok = TRUE /\ Table.state = state
    BY Zenon, TableFacts
  <2> HIDE DEF w
  <2>2. /\ w \in Tables /\ ListsAgree(w) /\ w.ok = Table.ok
        /\ \/ w = Table
           \/ \E p \in Procs : /\ Table.state[p] = "SLEEPING"
                               /\ w.state = [Table.state EXCEPT ![p] = "RUNNABLE"]
    <3>1. /\ w \in Tables /\ ListsAgree(w) /\ w.ok = Table.ok
          /\ \/ /\ w = Table
                /\ \A q \in Procs : Table.state[q] = "SLEEPING" /\ chan[q] = ch =>
                      \E r \in Procs \ {q} : Table.state[r] = "SLEEPING" /\ chan[r] = ch
             \/ \E p \in Procs : /\ Table.state[p] = "SLEEPING" /\ chan[p] = ch
                                 /\ w.state = [Table.state EXCEPT ![p] = "RUNNABLE"]
      BY ZenonT(30), <2>1, Wakeup1Agrees DEF w
    <3> QED BY ZenonT(30), <3>1
  <2> QED BY <2>1, <2>2
<1>2. release(c, w)
  OBVIOUS
<1> HIDE DEF w
<1>3. state' = w.state
  BY Zenon, <1>1, <1>2, ReleaseEffect
<1>4. \A q \in Procs : \/ state'[q] = state[q]
                       \/ state[q] = "SLEEPING" /\ state'[q] = "RUNNABLE"
  BY ZenonT(30), <1>1, <1>3, TableFacts DEF TypeOK
<1> QED BY Zenon, <1>1, <1>2, <1>4, ReleaseEffect DEF Published

-----------------------------------------------------------------------------
(***************************************************************************)
(* Promotion.                                                              *)
(***************************************************************************)
\* promoteProcs, which moves whole ready lists, keeps the lists in agreement.
LEMMA PromotedAgrees ==
    ASSUME TypeOK, ListInv
    PROVE  /\ [list |-> promotedList, state |-> state, ok |-> TRUE] \in Tables
           /\ ListsAgree([list |-> promotedList, state |-> state, ok |-> TRUE])
           /\ promotedList \in [ListIds -> Seq(Procs)]
<1> DEFINE new == promotedList
           n == Len(list[ReadyList(0)])
           \* where position i of new list l comes from
           sl(l, i) == IF l[1] # "RUNNABLE" \/ (l[2] = 0 /\ i <= n) THEN l
                       ELSE ReadyList(l[2] + 1)
           si(l, i) == IF l[1] = "RUNNABLE" /\ l[2] = 0 /\ i > n THEN i - n ELSE i
<1>1. list \in [ListIds -> Seq(Procs)] /\ state \in [Procs -> procstate]
  BY DEF TypeOK
<1>2. \A l \in ListIds : list[l] \in Seq(Procs) /\ Len(list[l]) \in Nat
  BY <1>1, LenProperties
<1>3. \A i \in Nat : Ready(i) \in Seq(Procs) /\ Len(Ready(i)) \in Nat
  BY <1>2, ListIdFacts, LenProperties, MAXPRIOAssumption DEF Ready
<1>4. \A l \in ListIds : l[1] = "RUNNABLE" => l[2] \in 0..MAXPRIO /\ l = ReadyList(l[2])
  BY DEF ListIds, FreeList, EmbryoList, SleepList, RunningList, ZombieList, ReadyList
<1>5. /\ 0 \in 0..MAXPRIO /\ 1 \in Nat
      /\ Ready(0) = list[ReadyList(0)] /\ n \in Nat /\ n = Len(Ready(0))
  BY <1>2, MAXPRIOAssumption, ListIdFacts DEF Ready
<1>6. /\ Ready(0) \o Ready(1) \in Seq(Procs)
      /\ Len(Ready(0) \o Ready(1)) = n + Len(Ready(1))
      /\ \A i \in 1..(n + Len(Ready(1))) :
            (Ready(0) \o Ready(1))[i] = IF i <= n THEN Ready(0)[i] ELSE Ready(1)[i - n]
  BY <1>3, <1>5, ConcatProperties
<1> HIDE DEF n
<1>7. new \in [ListIds -> Seq(Procs)]
  <2> SUFFICES ASSUME NEW l \in ListIds
               PROVE  (IF l[1] # "RUNNABLE" THEN list[l]
                       ELSE IF l[2] = 0 THEN Ready(0) \o Ready(1) ELSE Ready(l[2] + 1))
                         \in Seq(Procs)
    BY DEF promotedList
  <2>1. l[1] = "RUNNABLE" => l[2] + 1 \in Nat
    BY <1>4
  <2>2. l[1] = "RUNNABLE" => Ready(l[2] + 1) \in Seq(Procs)
    BY Zenon, <2>1, <1>3
  <2> QED BY <2>2, <1>2, <1>6
<1>8. ASSUME NEW l \in ListIds, NEW i \in 1..Len(new[l])
      PROVE  /\ sl(l, i) \in ListIds /\ si(l, i) \in 1..Len(list[sl(l, i)])
             /\ new[l][i] = list[sl(l, i)][si(l, i)]
             /\ sl(l, i)[1] = l[1]
  <2>1. CASE l[1] # "RUNNABLE"
    BY <2>1 DEF promotedList
  <2>2. CASE l[1] = "RUNNABLE" /\ l[2] = 0
    <3>1. new[l] = Ready(0) \o Ready(1) /\ l = ReadyList(0)
      BY <2>2, <1>4 DEF promotedList
    <3>2. CASE i <= n
      BY <2>2, <3>1, <3>2, <1>5, <1>6
    <3>3. CASE i > n
      <4>1. i \in 1..(n + Len(Ready(1))) /\ Len(Ready(1)) \in Nat
        BY <3>1, <1>3, <1>6
      <4>2. i - n \in 1..Len(Ready(1)) /\ new[l][i] = Ready(1)[i - n]
        BY <3>1, <3>3, <4>1, <1>5, <1>6
      <4>3. 1 \in 0..MAXPRIO /\ Ready(1) = list[ReadyList(1)]
        BY <4>2, MAXPRIOAssumption DEF Ready
      <4>4. sl(l, i) = ReadyList(1) /\ si(l, i) = i - n
        BY <2>2, <3>3, <4>1, <1>5
      <4> QED BY <2>2, <4>2, <4>3, <4>4, ListIdFacts
    <3> QED BY SMTT(30), <3>2, <3>3, <1>5
  <2>3. CASE l[1] = "RUNNABLE" /\ l[2] # 0
    <3>1. new[l] = Ready(l[2] + 1) /\ l[2] \in 0..MAXPRIO
      BY <2>3, <1>4 DEF promotedList
    <3>2. l[2] + 1 \in 0..MAXPRIO /\ Ready(l[2] + 1) = list[ReadyList(l[2] + 1)]
      BY <3>1, MAXPRIOAssumption DEF Ready
    <3>3. sl(l, i) = ReadyList(l[2] + 1) /\ si(l, i) = i
      BY <2>3
    <3> QED BY <2>3, <3>1, <3>2, <3>3, ListIdFacts
  <2> QED BY <2>1, <2>2, <2>3
<1>9. ASSUME NEW l \in ListIds, NEW i \in 1..Len(new[l]),
             NEW m \in ListIds, NEW j \in 1..Len(new[m]),
             sl(l, i) = sl(m, j), si(l, i) = si(m, j)
      PROVE  l = m /\ i = j
  <2>1. l[1] = m[1]
    BY <1>8, <1>9
  <2>2. CASE l[1] # "RUNNABLE"
    BY <2>1, <2>2, <1>9
  <2>3. CASE l[1] = "RUNNABLE"
    <3>1. /\ l = ReadyList(l[2]) /\ m = ReadyList(m[2])
          /\ l[2] \in 0..MAXPRIO /\ m[2] \in 0..MAXPRIO
      BY Zenon, <2>1, <2>3, <1>4
    <3>2. \A a, b \in Nat : ReadyList(a) = ReadyList(b) => a = b
      BY DEF ReadyList
    <3>3. /\ (l[2] = 0 /\ i <= n) <=> (m[2] = 0 /\ j <= n)
          /\ l[2] = m[2]
      BY <3>1, <3>2, <2>1, <2>3, <1>9, MAXPRIOAssumption
    <3> QED BY <2>1, <2>3, <3>1, <3>3, <1>5, <1>9
  <2> QED BY <2>2, <2>3
<1>10. ASSUME NEW l \in ListIds, NEW i \in 1..Len(list[l])
       PROVE  \E m \in ListIds : \E j \in 1..Len(new[m]) : new[m][j] = list[l][i]
  <2>1. CASE l[1] # "RUNNABLE"
    BY <2>1 DEF promotedList
  <2>2. CASE l = ReadyList(0)
    <3>1. l[1] = "RUNNABLE" /\ l[2] = 0
      BY <2>2 DEF ReadyList
    <3>2. new[l] = Ready(0) \o Ready(1)
      BY <3>1 DEF promotedList
    <3>3. i \in 1..Len(new[l]) /\ new[l][i] = list[l][i]
      <4>1. i \in 1..n /\ i \in 1..(n + Len(Ready(1))) /\ i <= n
        <5>1. i \in 1..n /\ Len(Ready(1)) \in Nat
          BY Zenon, <2>2, <1>3, <1>5
        <5> QED BY <5>1, <1>5
      <4> QED BY <2>2, <3>2, <4>1, <1>5, <1>6
    <3> QED BY <3>3
  <2>3. CASE l = ReadyList(1) /\ l \in ListIds
    <3>1. l[1] = "RUNNABLE" /\ l[2] = 1
      BY <2>3 DEF ReadyList
    <3>2. 1 \in 0..MAXPRIO /\ Ready(1) = list[l]
      BY <3>1, <2>3, <1>4 DEF Ready
    <3>3. ReadyList(0)[1] = "RUNNABLE" /\ ReadyList(0)[2] = 0 /\ ReadyList(0) \in ListIds
      BY <1>5, ListIdFacts DEF ReadyList
    <3>4. new[ReadyList(0)] = Ready(0) \o Ready(1)
      BY <3>3 DEF promotedList
    <3>5. n + i \in 1..Len(new[ReadyList(0)]) /\ new[ReadyList(0)][n + i] = list[l][i]
      <4>1. n + i \in 1..(n + Len(Ready(1))) /\ ~ (n + i <= n) /\ (n + i) - n = i
        <5>1. i \in 1..Len(Ready(1)) /\ Len(Ready(1)) \in Nat
          BY Zenon, <3>2, <1>3, <1>5
        <5> HIDE DEF new
        <5> QED BY <5>1, <1>5
      <4> QED BY <4>1, <3>2, <3>4, <1>6
    <3> QED BY <3>3, <3>5
  <2>4. CASE l[1] = "RUNNABLE" /\ l[2] > 1
    <3> DEFINE m == ReadyList(l[2] - 1)
    <3>1. l[2] \in 0..MAXPRIO /\ l[2] - 1 \in 0..MAXPRIO /\ (l[2] - 1) + 1 = l[2]
      BY <2>4, <1>4, MAXPRIOAssumption
    <3>2. m \in ListIds /\ m[1] = "RUNNABLE" /\ m[2] = l[2] - 1
      BY <3>1, ListIdFacts DEF ReadyList
    <3>3. Ready(l[2]) = list[l]
      BY <3>1, <2>4, <1>4 DEF Ready
    <3> HIDE DEF m
    <3>4. new[m] = Ready(l[2])
      BY <2>4, <3>1, <3>2 DEF promotedList
    <3> QED BY <3>2, <3>3, <3>4
  <2>5. l[1] = "RUNNABLE" => l[2] \in {0, 1} \/ l[2] > 1
    BY <1>4, MAXPRIOAssumption
  <2> QED BY <2>1, <2>2, <2>3, <2>4, <2>5, <1>4
<1> DEFINE pt == [list |-> promotedList, state |-> state, ok |-> TRUE]
<1>11. pt.list = new /\ pt.state = state /\ pt \in Tables
  BY <1>1, <1>7 DEF Tables
<1>12. /\ OnListOfItsState(Table) /\ OnNoTwoLists(Table) /\ OnSomeList(Table)
       /\ Table.list = list /\ Table.state = state
  BY TableFacts DEF ListsAgree
<1> HIDE DEF new, pt, sl, si
<1>13. OnListOfItsState(pt)
  <2> SUFFICES ASSUME NEW l \in ListIds, NEW k \in 1..Len(new[l])
               PROVE  state[new[l][k]] = l[1]
    BY <1>11 DEF OnListOfItsState
  <2> QED BY SMTT(30), <1>8, <1>12 DEF OnListOfItsState
<1>14. OnNoTwoLists(pt)
  <2> SUFFICES ASSUME NEW l \in ListIds, NEW m \in ListIds,
                      NEW i \in 1..Len(new[l]), NEW j \in 1..Len(new[m]),
                      new[l][i] = new[m][j]
               PROVE  l = m /\ i = j
    BY <1>11 DEF OnNoTwoLists
  <2>1. PICK a, x :
            /\ a \in ListIds /\ x \in 1..Len(list[a])
            /\ a = sl(l, i) /\ x = si(l, i) /\ new[l][i] = list[a][x]
    BY SMTT(30), <1>8
  <2>2. PICK b, y :
            /\ b \in ListIds /\ y \in 1..Len(list[b])
            /\ b = sl(m, j) /\ y = si(m, j) /\ new[m][j] = list[b][y]
    BY SMTT(30), <1>8
  <2>3. list[a][x] = list[b][y] => a = b /\ x = y
    BY SMTT(30), <2>1, <2>2, <1>12 DEF OnNoTwoLists
  <2>4. sl(l, i) = sl(m, j) /\ si(l, i) = si(m, j)
    BY ZenonT(30), <2>1, <2>2, <2>3
  <2> QED BY SMTT(30), <2>4, <1>9
<1>15. OnSomeList(pt)
  <2> SUFFICES ASSUME NEW p \in Procs
               PROVE  \E l \in ListIds : \E k \in 1..Len(new[l]) : new[l][k] = p
    BY <1>11 DEF OnSomeList
  <2>1. PICK l \in ListIds : \E k \in 1..Len(list[l]) : list[l][k] = p
    BY <1>12 DEF OnSomeList
  <2> QED BY <2>1, <1>10
<1> QED BY <1>7, <1>11, <1>13, <1>14, <1>15 DEF ListsAgree, pt, new

-----------------------------------------------------------------------------
(***************************************************************************)
(* TableInv: types, lists, no list panic, one CPU per running process, and *)
(* no embryo lost.  First the steps that move no process.                  *)
(***************************************************************************)
\* A step that leaves lists, states and CPUs alone and enters no fork().
LEMMA QuietStep ==
    ASSUME TableInv, UNCHANGED <<list, state, cpuproc, np>>, TypeOK', NoListPanic',
           \A p \in Procs : pc'[p] = "fork" <=> pc[p] = "fork"
    PROVE  TableInv'
<1>1. ListInv'
  <2>1. Table' = Table
    BY DEF Table
  <2> QED BY ZenonT(30), <2>1 DEF TableInv, ListInv
<1>2. RunningOnOneCpu'
  BY DEF TableInv, RunningOnOneCpu
<1>3. EmbryoOwned'
  BY DEF TableInv, EmbryoOwned
<1>4. ForkOwns'
  BY DEF TableInv, ForkOwns
<1> QED BY <1>1, <1>2, <1>3, <1>4 DEF TableInv

\* resume, interrupt, fault, system call entry and return, sys_exit.
LEMMA TrapStep ==
    ASSUME TableInv, NEW c \in CPUs,
           \/ resume(c) \/ interrupt(c) \/ fault(c) \/ syscallEnter(c)
           \/ syscallReturn(c) \/ sys_exit(c)
    PROVE  TableInv'
<1>1. initproc \in Procs /\ TypeOK /\ NoListPanic
  BY NPROCAssumption DEF initproc, Procs, TableInv
<1>2. CASE resume(c)
  <2> DEFINE p == cpuproc[c]
  <2>1. /\ UNCHANGED <<list, state, cpuproc, np>>
        /\ UNCHANGED <<pid, parent, killed, nextpid, priority, budget, used, promoteIn>>
        /\ lock' = NoCPU /\ chan' = [chan EXCEPT ![p] = 0]
    BY Zenon, <1>2 DEF resume, tableVars, idVars, prioVars
  <2>2. pc' \in [Procs -> PCs] /\ \A q \in Procs : pc'[q] = "fork" <=> pc[q] = "fork"
    BY ZenonT(30), <1>1, <1>2 DEF resume, TypeOK, PCs
  <2>3. panic' \in [CPUs -> Panics] /\ NoListPanic'
    BY Zenon, <1>1, <1>2 DEF resume, TypeOK, Panics, NoListPanic
  <2>4. chan' \in [Procs -> Chans \cup 0..NPROC]
    <3>1. chan \in [Procs -> Chans \cup 0..NPROC] /\ 0 \in 0..NPROC
      BY <1>1, NPROCAssumption DEF TypeOK
    <3> QED BY Zenon, <2>1, <3>1
  <2>5. TypeOK'
    BY Zenon, <1>1, <2>1, <2>2, <2>3, <2>4 DEF TypeOK
  <2> QED BY <2>1, <2>2, <2>3, <2>5, QuietStep
<1>3. ASSUME NEW p \in Procs, enterExit(c, p), pc[p] \in {"user", "kernel"}
      PROVE  /\ pc' \in [Procs -> PCs] /\ \A q \in Procs : pc'[q] = "fork" <=> pc[q] = "fork"
             /\ panic' \in [CPUs -> Panics] /\ NoListPanic'
  BY Zenon, <1>1, <1>3 DEF enterExit, TypeOK, PCs, Panics, NoListPanic
<1>4. CASE interrupt(c) \/ sys_exit(c)
  <2>1. PICK p \in Procs : enterExit(c, p) /\ pc[p] \in {"user", "kernel"}
    BY Zenon, <1>4 DEF interrupt, sys_exit
  <2>2. UNCHANGED <<tableVars, idVars, chan, prioVars, promoteIn, cpuproc, used, lock, np>>
    BY <1>4 DEF interrupt, sys_exit
  <2>3. TypeOK'
    BY Zenon, <1>1, <1>3, <2>1, <2>2 DEF TypeOK, tableVars, idVars, prioVars
  <2> QED BY <1>3, <2>1, <2>2, <2>3, QuietStep DEF tableVars
<1>5. CASE fault(c)
  <2>1. PICK p \in Procs : /\ enterExit(c, p) /\ pc[p] \in {"user", "kernel"}
                           /\ killed' = [killed EXCEPT ![p] = TRUE]
                           /\ UNCHANGED <<tableVars, pid, parent, nextpid, chan, prioVars,
                                          promoteIn, cpuproc, used, lock, np>>
    BY Zenon, <1>5 DEF fault
  <2>2. TypeOK'
    BY Zenon, <1>1, <1>3, <2>1 DEF TypeOK, tableVars, prioVars
  <2> QED BY <1>3, <2>1, <2>2, QuietStep DEF tableVars
<1>6. CASE syscallEnter(c)
  <2>1. PICK p \in Procs :
           /\ pc[p] = "user" /\ pc' = [pc EXCEPT ![p] = "kernel"]
           /\ UNCHANGED <<tableVars, idVars, chan, prioVars, promoteIn, cpuVars, np>>
    BY Zenon, <1>6 DEF syscallEnter
  <2>2. pc' \in [Procs -> PCs] /\ \A q \in Procs : pc'[q] = "fork" <=> pc[q] = "fork"
    BY <1>1, <2>1 DEF TypeOK, PCs
  <2>3. TypeOK' /\ NoListPanic'
    BY Zenon, <1>1, <2>1, <2>2 DEF TypeOK, NoListPanic, tableVars, idVars, prioVars, cpuVars
  <2> QED BY <2>1, <2>2, <2>3, QuietStep DEF tableVars, cpuVars
<1>7. CASE syscallReturn(c)
  <2>1. PICK p \in Procs :
           /\ pc[p] = "kernel"
           /\ enterExit(c, p) \/ (pc' = [pc EXCEPT ![p] = "user"] /\ UNCHANGED panic)
           /\ UNCHANGED <<tableVars, idVars, chan, prioVars, promoteIn, cpuproc, used, lock, np>>
    BY <1>7 DEF syscallReturn
  <2>2. /\ pc' \in [Procs -> PCs] /\ \A q \in Procs : pc'[q] = "fork" <=> pc[q] = "fork"
        /\ panic' \in [CPUs -> Panics] /\ NoListPanic'
    <3>1. CASE enterExit(c, p)
      BY <1>3, <2>1, <3>1
    <3>2. CASE pc' = [pc EXCEPT ![p] = "user"] /\ UNCHANGED panic
      BY <1>1, <2>1, <3>2 DEF TypeOK, PCs, NoListPanic
    <3> QED BY <2>1, <3>1, <3>2
  <2>3. TypeOK'
    BY Zenon, <1>1, <2>1, <2>2 DEF TypeOK, tableVars, idVars, prioVars
  <2> QED BY <2>1, <2>2, <2>3, QuietStep DEF tableVars
<1> QED BY <1>2, <1>4, <1>5, <1>6, <1>7

\* A panic leaves everything as it is.
LEMMA PanicStep ==
    ASSUME TableInv, NEW c \in CPUs, panicLocked(c, "assertPrio")
    PROVE  TableInv'
<1>1. TypeOK' /\ NoListPanic'
  BY Zenon DEF TableInv, TypeOK, NoListPanic, panicLocked, Panics
<1> QED BY <1>1, QuietStep DEF panicLocked

-----------------------------------------------------------------------------
(***************************************************************************)
(* The steps that move processes.                                          *)
(***************************************************************************)
CpuAndFork == RunningOnOneCpu /\ EmbryoOwned /\ ForkOwns

\* Waking sleepers and reaping zombies concerns neither CPUs nor embryos.
LEMMA WakeLike ==
    ASSUME TableInv, UNCHANGED <<cpuproc, np>>,
           \A q \in Procs : pc'[q] = "fork" <=> pc[q] = "fork",
           \A q \in Procs : \/ state'[q] = state[q]
                            \/ /\ state[q] \in {"SLEEPING", "ZOMBIE"}
                               /\ state'[q] \in {"RUNNABLE", "UNUSED"}
    PROVE  CpuAndFork'
<1>1. RunningOnOneCpu'
  BY DEF TableInv, RunningOnOneCpu
<1>2. EmbryoOwned'
  <2>1. \A q \in Procs : state'[q] = "EMBRYO" <=> state[q] = "EMBRYO"
    OBVIOUS
  <2> QED BY <2>1 DEF TableInv, EmbryoOwned
<1>3. ForkOwns'
  BY DEF TableInv, ForkOwns
<1> QED BY <1>1, <1>2, <1>3 DEF CpuAndFork

\* The process p of CPU c leaves it, while others may be woken.
LEMMA LeaveCpu ==
    ASSUME TableInv, NEW c \in CPUs, NEW p \in Procs, cpuproc[c] = p,
           cpuproc' = [cpuproc EXCEPT ![c] = 0], np' = np,
           \A q \in Procs : pc'[q] = "fork" <=> pc[q] = "fork",
           state'[p] \in {"RUNNABLE", "SLEEPING", "ZOMBIE"},
           pc[p] = "fork" => state'[p] = "RUNNABLE",
           \A q \in Procs \ {p} : \/ state'[q] = state[q]
                                  \/ state[q] = "SLEEPING" /\ state'[q] = "RUNNABLE"
    PROVE  CpuAndFork'
<1>0. /\ cpuproc \in [CPUs -> 0..NPROC] /\ \A q \in Procs : q # 0
      /\ state[p] = "RUNNING"
  BY DEF TableInv, TypeOK, Procs, RunningOnOneCpu
<1>1. RunningOnOneCpu'
  <2>1. \A d \in CPUs : cpuproc'[d] = IF d = c THEN 0 ELSE cpuproc[d]
    BY <1>0
  <2>2. \A d \in CPUs : cpuproc[d] = p => d = c
    BY <1>0 DEF TableInv, RunningOnOneCpu
  <2>3. ASSUME NEW q \in Procs
        PROVE  state'[q] = "RUNNING" <=> \E d \in CPUs : cpuproc'[d] = q
    BY <1>0, <2>1, <2>2 DEF TableInv, RunningOnOneCpu
  <2>4. \A d, e \in CPUs : cpuproc'[d] = cpuproc'[e] /\ cpuproc'[d] # 0 => d = e
    BY <1>0, <2>1 DEF TableInv, RunningOnOneCpu
  <2> QED BY <2>3, <2>4 DEF RunningOnOneCpu
<1>2. EmbryoOwned'
  <2>1. \A q \in Procs : state'[q] = "EMBRYO" <=> state[q] = "EMBRYO"
    BY <1>0
  <2> QED BY <2>1 DEF TableInv, EmbryoOwned
<1>3. ForkOwns'
  BY DEF TableInv, ForkOwns
<1> QED BY <1>1, <1>2, <1>3 DEF CpuAndFork

\* The running process is on the running list, so it can be taken off.
LEMMA RunningListed ==
    ASSUME TableInv, NEW c \in CPUs, NEW p \in Procs, cpuproc[c] = p
    PROVE  p \in Range(list[RunningList]) /\ state[p] = "RUNNING"
<1>1. state[p] = "RUNNING"
  BY DEF TableInv, RunningOnOneCpu
<1>2. Table \in Tables /\ ListsAgree(Table) /\ Table.state[p] = RunningList[1]
  BY <1>1, TableFacts, ListIdFacts DEF TableInv
<1>3. p \in Range(Table.list[RunningList])
  BY <1>2, OnListOf
<1> QED BY <1>1, <1>3, TableFacts DEF TableInv

\* charge() keeps priorities and budgets in range.
LEMMA ChargeType ==
    ASSUME TypeOK, NEW c \in CPUs, NEW p \in Procs, charge(c, p)
    PROVE  /\ priority' \in [Procs -> 0..MAXPRIO] /\ budget' \in [Procs -> 0..MAX_BUDGET]
           /\ chargedPriority(c, p) \in 0..MAXPRIO
<1>1. /\ budget[p] \in 0..MAX_BUDGET /\ used[c] \in 0..MAX_BUDGET
      /\ priority[p] \in 0..MAXPRIO
  BY DEF TypeOK
<1>2. chargedPriority(c, p) \in 0..MAXPRIO
  BY SMTT(30), <1>1, MAXPRIOAssumption DEF chargedPriority
<1>3. chargedBudget(c, p) \in 0..MAX_BUDGET
  BY <1>1, BudgetAssumption DEF chargedBudget, left
<1> QED BY <1>2, <1>3 DEF charge, TypeOK

\* The clock interrupt.
LEMMA TickStep == ASSUME TableInv, timerTick PROVE TableInv'
<1>0. TypeOK /\ ListInv /\ NoListPanic /\ BootCpu \in CPUs
  BY CpuAssumption DEF TableInv
<1>1. /\ list' \in [ListIds -> Seq(Procs)] /\ state' \in [Procs -> procstate]
      /\ ListInv' /\ lock' = NoCPU /\ panic' = panic
      /\ \A q \in Procs : \/ state'[q] = state[q]
                          \/ state[q] = "SLEEPING" /\ state'[q] = "RUNNABLE"
  BY <1>0, WakeEffect DEF timerTick, Published
<1>2. UNCHANGED <<idVars, chan, prioVars, cpuproc, pc, np>>
  BY DEF timerTick
<1>3. promoteIn' \in 0..TICKS_TO_PROMOTE /\ used' \in [CPUs -> 0..MAX_BUDGET]
  <2>1. promoteIn \in 0..TICKS_TO_PROMOTE /\ used \in [CPUs -> 0..MAX_BUDGET]
    BY <1>0 DEF TypeOK
  <2>2. promoteIn' \in 0..TICKS_TO_PROMOTE
    BY <2>1, BudgetAssumption DEF timerTick
  <2>3. used' = [d \in CPUs |-> IF cpuproc[d] # 0 /\ used[d] < MAX_BUDGET
                               THEN used[d] + 1 ELSE used[d]]
    BY DEF timerTick
  <2>4. \A d \in CPUs : used[d] < MAX_BUDGET => used[d] + 1 \in 0..MAX_BUDGET
    BY <2>1, BudgetAssumption
  <2> QED BY <2>1, <2>2, <2>3, <2>4
<1>4. TypeOK' /\ NoListPanic'
  BY <1>0, <1>1, <1>2, <1>3 DEF TypeOK, NoListPanic, idVars, prioVars
<1>5. CpuAndFork'
  BY <1>1, <1>2, WakeLike
<1> QED BY <1>1, <1>4, <1>5 DEF TableInv, CpuAndFork

\* A wakeup from any component.
LEMMA WakeupStep == ASSUME TableInv, NEW c \in CPUs, NEW ch \in Chans, wakeup(c, ch) PROVE TableInv'
<1>0. TypeOK /\ ListInv /\ NoListPanic
  BY DEF TableInv
<1>1. /\ list' \in [ListIds -> Seq(Procs)] /\ state' \in [Procs -> procstate]
      /\ ListInv' /\ lock' = NoCPU /\ panic' = panic
      /\ \A q \in Procs : \/ state'[q] = state[q]
                          \/ state[q] = "SLEEPING" /\ state'[q] = "RUNNABLE"
  BY <1>0, WakeEffect DEF wakeup, Published
<1>2. UNCHANGED <<idVars, chan, prioVars, promoteIn, cpuproc, used, pc, np>>
  BY DEF wakeup
<1>3. TypeOK' /\ NoListPanic'
  BY <1>0, <1>1, <1>2 DEF TypeOK, NoListPanic, idVars, prioVars
<1>4. CpuAndFork'
  BY Zenon, <1>1, <1>2, WakeLike
<1> QED BY <1>1, <1>3, <1>4 DEF TableInv, CpuAndFork

\* yield: the process goes to a ready list within range.
LEMMA YieldStep ==
    ASSUME TableInv, NEW c \in CPUs, yield(c)
    PROVE  /\ TableInv'
           /\ \E p \in Procs : /\ state[p] = "RUNNING" /\ state'[p] = "RUNNABLE"
                               /\ \A q \in Procs \ {p} : state'[q] = state[q]
<1>0. TypeOK /\ ListInv /\ NoListPanic
  BY DEF TableInv
<1>1. PICK p \in Procs :
         /\ cpuproc[c] = p /\ charge(c, p)
         /\ sched(c, changeState(Table, RunningList, ReadyList(chargedPriority(c, p)), p))
         /\ UNCHANGED <<idVars, chan, promoteIn, pc, np>>
  BY Zenon DEF yield, Executing
<1>2. /\ p \in Range(list[RunningList]) /\ state[p] = "RUNNING"
      /\ priority' \in [Procs -> 0..MAXPRIO] /\ budget' \in [Procs -> 0..MAX_BUDGET]
      /\ chargedPriority(c, p) \in 0..MAXPRIO
  BY Zenon, <1>0, <1>1, RunningListed, ChargeType
<1> DEFINE to == ReadyList(chargedPriority(c, p))
<1>3. RunningList \in ListIds /\ to \in ListIds /\ RunningList # to /\ to[1] = "RUNNABLE"
  BY <1>2, ListIdFacts
<1> HIDE DEF to
<1>4. /\ release(c, changeState(Table, RunningList, to, p)) /\ UNCHANGED used
      /\ cpuproc' = IF changeState(Table, RunningList, to, p).ok
                    THEN [cpuproc EXCEPT ![c] = 0] ELSE cpuproc
  BY <1>1 DEF sched, to
<1>5. /\ list' \in [ListIds -> Seq(Procs)] /\ state' \in [Procs -> procstate]
      /\ ListInv' /\ lock' = NoCPU /\ panic' = panic
      /\ state' = [state EXCEPT ![p] = "RUNNABLE"]
      /\ changeState(Table, RunningList, to, p).ok = TRUE
  <2>1. TypeOK /\ ListInv /\ p \in Range(list[RunningList])
    BY <1>0, <1>2
  <2>2. release(c, changeState(Table, RunningList, to, p))
    BY <1>4
  <2>3. MovedTo(p, to[1]) /\ changeState(Table, RunningList, to, p).ok = TRUE
    BY Zenon, <1>3, <2>1, <2>2, MoveEffect
  <2> QED BY <1>3, <2>3 DEF MovedTo, Published
<1>6. cpuproc' = [cpuproc EXCEPT ![c] = 0] /\ cpuproc' \in [CPUs -> 0..NPROC]
  <2>1. cpuproc \in [CPUs -> 0..NPROC] /\ 0 \in 0..NPROC
    BY <1>0, NPROCAssumption DEF TypeOK
  <2>2. cpuproc' = [cpuproc EXCEPT ![c] = 0]
    BY <1>4, <1>5
  <2> QED BY <2>1, <2>2
<1>7. TypeOK' /\ NoListPanic'
  BY Zenon, <1>0, <1>1, <1>2, <1>4, <1>5, <1>6 DEF TypeOK, NoListPanic, idVars
<1>8. /\ state'[p] = "RUNNABLE" /\ \A q \in Procs \ {p} : state'[q] = state[q]
  BY Zenon, <1>0, <1>5 DEF TypeOK
<1>9. CpuAndFork'
  BY Zenon, <1>1, <1>6, <1>8, LeaveCpu
<1> QED BY <1>2, <1>5, <1>7, <1>8, <1>9 DEF TableInv, CpuAndFork

\* goToSleep, of sleep() and wait().
LEMMA GoToSleepStep ==
    ASSUME TableInv, NEW c \in CPUs, NEW p \in Procs, NEW ch \in Chans \cup 0..NPROC,
           cpuproc[c] = p, goToSleep(c, p, ch), pc[p] # "fork",
           UNCHANGED <<idVars, promoteIn, np>>,
           pc' = pc \/ pc' = [pc EXCEPT ![p] = "wait"]
    PROVE  TableInv' /\ state' = [state EXCEPT ![p] = "SLEEPING"]
<1>0. TypeOK /\ ListInv /\ NoListPanic
  BY DEF TableInv
<1>1. charge(c, p) /\ sched(c, changeState(Table, RunningList, SleepList, p))
  BY DEF goToSleep
<1>2. /\ p \in Range(list[RunningList])
      /\ priority' \in [Procs -> 0..MAXPRIO] /\ budget' \in [Procs -> 0..MAX_BUDGET]
  BY <1>0, <1>1, RunningListed, ChargeType
<1>3. /\ RunningList \in ListIds /\ SleepList \in ListIds /\ RunningList # SleepList
      /\ SleepList[1] = "SLEEPING"
  BY ListIdFacts
<1>4. /\ release(c, changeState(Table, RunningList, SleepList, p)) /\ UNCHANGED used
      /\ cpuproc' = IF changeState(Table, RunningList, SleepList, p).ok
                    THEN [cpuproc EXCEPT ![c] = 0] ELSE cpuproc
  BY <1>1 DEF sched
<1>5. /\ list' \in [ListIds -> Seq(Procs)] /\ state' \in [Procs -> procstate]
      /\ ListInv' /\ lock' = NoCPU /\ panic' = panic
      /\ state' = [state EXCEPT ![p] = "SLEEPING"]
      /\ changeState(Table, RunningList, SleepList, p).ok = TRUE
  <2>1. TypeOK /\ ListInv /\ p \in Range(list[RunningList])
    BY <1>0, <1>2
  <2>2. release(c, changeState(Table, RunningList, SleepList, p))
    BY <1>4
  <2>3. MovedTo(p, SleepList[1]) /\ changeState(Table, RunningList, SleepList, p).ok = TRUE
    BY Zenon, <1>3, <2>1, <2>2, MoveEffect
  <2> QED BY <1>3, <2>3 DEF MovedTo, Published
<1>6. cpuproc' = [cpuproc EXCEPT ![c] = 0] /\ cpuproc' \in [CPUs -> 0..NPROC]
  <2>1. cpuproc \in [CPUs -> 0..NPROC] /\ 0 \in 0..NPROC
    BY <1>0, NPROCAssumption DEF TypeOK
  <2>2. cpuproc' = [cpuproc EXCEPT ![c] = 0]
    BY <1>4, <1>5
  <2> QED BY <2>1, <2>2
<1>7. chan' \in [Procs -> Chans \cup 0..NPROC]
  BY <1>0 DEF goToSleep, TypeOK
<1>8. pc' \in [Procs -> PCs] /\ \A q \in Procs : pc'[q] = "fork" <=> pc[q] = "fork"
  BY Zenon, <1>0 DEF TypeOK, PCs
<1>9. TypeOK' /\ NoListPanic'
  BY Zenon, <1>0, <1>2, <1>4, <1>5, <1>6, <1>7, <1>8 DEF TypeOK, NoListPanic, idVars
<1>10. /\ state'[p] = "SLEEPING" /\ \A q \in Procs \ {p} : state'[q] = state[q]
  BY Zenon, <1>0, <1>5 DEF TypeOK
<1>11. np' = np /\ state'[p] \in {"RUNNABLE", "SLEEPING", "ZOMBIE"}
  BY <1>10
<1>12. CpuAndFork'
  BY Zenon, <1>6, <1>8, <1>10, <1>11, LeaveCpu
<1> QED BY <1>5, <1>9, <1>12 DEF TableInv, CpuAndFork

\* sleep() and the sleep of wait().
LEMMA SleepStep ==
    ASSUME TableInv, NEW c \in CPUs, waitSleep(c) \/ \E ch \in Chans : sleep(c, ch)
    PROVE  TableInv'
<1>1. CASE waitSleep(c)
  <2>1. PICK p \in Procs : /\ cpuproc[c] = p /\ pc[p] \in {"kernel", "wait"}
                           /\ goToSleep(c, p, p) /\ pc' = [pc EXCEPT ![p] = "wait"]
                           /\ UNCHANGED <<idVars, promoteIn, np>>
    BY Zenon, <1>1 DEF waitSleep, waitScan
  <2>2. p \in Chans \cup 0..NPROC /\ pc[p] # "fork"
    BY <2>1, NPROCAssumption DEF Procs
  <2> QED BY Zenon, <2>1, <2>2, GoToSleepStep
<1>2. CASE \E ch \in Chans : sleep(c, ch)
  <2>1. PICK ch \in Chans : sleep(c, ch)
    BY <1>2
  <2>2. PICK p \in Procs : /\ cpuproc[c] = p /\ pc[p] \in {"kernel", "exit"}
                           /\ goToSleep(c, p, ch)
                           /\ UNCHANGED <<idVars, promoteIn, pc, np>>
    BY ZenonT(30), <2>1 DEF sleep, Executing
  <2>3. ch \in Chans \cup 0..NPROC /\ pc[p] # "fork"
    BY <2>2
  <2> QED BY <2>2, <2>3, GoToSleepStep
<1> QED BY <1>1, <1>2
=============================================================================
