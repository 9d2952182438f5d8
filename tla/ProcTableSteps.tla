------------------------------ MODULE ProcTableSteps ------------------------
(***************************************************************************)
(* The steps of fork, exit, wait, kill, setpriority and the scheduler keep *)
(* TableInv.                                                               *)
(***************************************************************************)
EXTENDS ProcTableLemmas

\* Time for the leaves, which the provers try in this order.
USE SMTT(30), ZenonT(30)

\* The head of a non-empty list can be moved, and has the list's state.
LEMMA HeadListed ==
    ASSUME TableInv, NEW l \in ListIds, list[l] # <<>>
    PROVE  list[l][1] \in Procs /\ list[l][1] \in Range(list[l]) /\ state[list[l][1]] = l[1]
<1>1. list[l] \in Seq(Procs)
  BY DEF TableInv, TypeOK
<1>2. list[l][1] \in Range(list[l]) /\ list[l][1] \in Procs
  BY <1>1, HeadOnList
<1>3. Table \in Tables /\ ListsAgree(Table) /\ Table.list = list /\ Table.state = state
  BY TableFacts DEF TableInv
<1>4. list[l][1] \in Range(Table.list[l])
  BY <1>2, <1>3
<1>5. Table.state[list[l][1]] = l[1]
  BY <1>3, <1>4, MemberHasState
<1> QED BY <1>2, <1>3, <1>5

\* What allocproc does: a free slot becomes the embryo of the forking process.
LEMMA AllocprocEffect ==
    ASSUME TableInv, NEW c \in CPUs, allocproc(c)
    PROVE  \E p, q \in Procs :
              /\ cpuproc[c] = p /\ pc[p] = "kernel" /\ state[p] = "RUNNING"
              /\ state[q] = "UNUSED" /\ MovedTo(q, "EMBRYO")
              /\ newPid(q) /\ nextpid < MAXPID
              /\ priority' = [priority EXCEPT ![q] = 0]
              /\ budget' = [budget EXCEPT ![q] = MAX_BUDGET]
              /\ pc' = [pc EXCEPT ![p] = "fork", ![q] = "forkret"]
              /\ np' = [np EXCEPT ![p] = q]
              /\ UNCHANGED <<parent, killed, chan, promoteIn, cpuproc, used>>
<1> DEFINE q == list[FreeList][1]
<1>1. PICK p \in Procs :
         /\ cpuproc[c] = p /\ pc[p] = "kernel" /\ list[FreeList] # <<>> /\ nextpid < MAXPID
         /\ release(c, changeState(Table, FreeList, EmbryoList, q)) /\ newPid(q)
         /\ priority' = [priority EXCEPT ![q] = 0]
         /\ budget' = [budget EXCEPT ![q] = MAX_BUDGET]
         /\ pc' = [pc EXCEPT ![p] = "fork", ![q] = "forkret"]
         /\ np' = [np EXCEPT ![p] = q]
         /\ UNCHANGED <<parent, killed, chan, promoteIn, cpuproc, used>>
  BY Zenon DEF allocproc, Executing
<1>2. /\ FreeList \in ListIds /\ EmbryoList \in ListIds /\ FreeList # EmbryoList
      /\ FreeList[1] = "UNUSED" /\ EmbryoList[1] = "EMBRYO"
  BY ListIdFacts
<1>3. q \in Procs /\ q \in Range(list[FreeList]) /\ state[q] = "UNUSED"
  BY Zenon, <1>1, <1>2, HeadListed
<1> HIDE DEF q
<1>4. TypeOK /\ ListInv /\ release(c, changeState(Table, FreeList, EmbryoList, q))
  BY Zenon, <1>1 DEF TableInv
<1>5. MovedTo(q, EmbryoList[1])
  BY Zenon, <1>2, <1>3, <1>4, MoveEffect
<1>6. state[p] = "RUNNING"
  BY Zenon, <1>1, RunningListed
<1> QED BY Zenon, <1>1, <1>2, <1>3, <1>5, <1>6

\* allocproc keeps TableInv.
LEMMA AllocprocStep == ASSUME TableInv, NEW c \in CPUs, allocproc(c) PROVE TableInv'
<1>0. TypeOK /\ NoListPanic /\ RunningOnOneCpu /\ EmbryoOwned /\ ForkOwns
  BY DEF TableInv
<1>1. PICK p, q \in Procs :
         /\ cpuproc[c] = p /\ pc[p] = "kernel" /\ state[p] = "RUNNING"
         /\ state[q] = "UNUSED" /\ MovedTo(q, "EMBRYO")
         /\ newPid(q) /\ nextpid < MAXPID
         /\ priority' = [priority EXCEPT ![q] = 0]
         /\ budget' = [budget EXCEPT ![q] = MAX_BUDGET]
         /\ pc' = [pc EXCEPT ![p] = "fork", ![q] = "forkret"]
         /\ np' = [np EXCEPT ![p] = q]
         /\ UNCHANGED <<parent, killed, chan, promoteIn, cpuproc, used>>
  BY AllocprocEffect
<1>2. Published /\ state' = [state EXCEPT ![q] = "EMBRYO"] /\ p # q
  BY <1>1 DEF MovedTo
<1>3. /\ priority' \in [Procs -> 0..MAXPRIO] /\ budget' \in [Procs -> 0..MAX_BUDGET]
  <2>1. 0 \in 0..MAXPRIO /\ MAX_BUDGET \in 0..MAX_BUDGET
    BY MAXPRIOAssumption, BudgetAssumption
  <2> QED BY <2>1, <1>0, <1>1 DEF TypeOK
<1>4. nextpid' \in 1..MAXPID /\ pid' \in [Procs -> 0..MAXPID]
  <2>1. nextpid \in 0..MAXPID /\ nextpid + 1 \in 1..MAXPID /\ pid \in [Procs -> 0..MAXPID]
    BY <1>0, <1>1, InputAssumption DEF TypeOK
  <2> QED BY Zenon, <2>1, <1>1 DEF newPid
<1>5. pc' \in [Procs -> PCs] /\ np' \in [Procs -> 0..NPROC]
  <2>1. q \in 0..NPROC /\ {"fork", "forkret"} \subseteq PCs
    BY NPROCAssumption DEF Procs, PCs
  <2> QED BY Zenon, <2>1, <1>0, <1>1 DEF TypeOK
<1>6. TypeOK' /\ NoListPanic' /\ ListInv'
  BY Zenon, <1>0, <1>1, <1>2, <1>3, <1>4, <1>5 DEF TypeOK, NoListPanic, Published
<1>7. /\ \A x \in Procs : state'[x] = IF x = q THEN "EMBRYO" ELSE state[x]
      /\ \A x \in Procs : pc'[x] = IF x = p THEN "fork" ELSE IF x = q THEN "forkret" ELSE pc[x]
      /\ \A x \in Procs : np'[x] = IF x = p THEN q ELSE np[x]
      /\ \A x \in Procs : x # 0
  BY <1>0, <1>1, <1>2 DEF TypeOK, Procs
<1>8. RunningOnOneCpu'
  BY <1>0, <1>1, <1>7 DEF RunningOnOneCpu
<1>9. EmbryoOwned'
  <2>1. ASSUME NEW x \in Procs, state'[x] = "EMBRYO"
        PROVE  \E r \in Procs : pc'[r] = "fork" /\ np'[r] = x
    <3>1. CASE x = q
      BY <3>1, <1>7
    <3>2. CASE x # q
      <4>1. PICK r \in Procs : pc[r] = "fork" /\ np[r] = x
        BY <2>1, <3>2, <1>0, <1>7 DEF EmbryoOwned
      <4>2. r # p /\ r # q
        <5>1. state[r] \in {"RUNNING", "RUNNABLE"}
          BY <4>1, <1>0 DEF ForkOwns
        <5> QED BY <4>1, <5>1, <1>1
      <4> QED BY <4>1, <4>2, <1>7
    <3> QED BY <3>1, <3>2
  <2>2. ASSUME NEW x \in Procs, NEW r \in Procs, NEW s \in Procs, np'[r] = x, np'[s] = x
        PROVE  r = s /\ state'[x] = "EMBRYO"
    BY <2>2, <1>0, <1>1, <1>7 DEF EmbryoOwned
  <2> QED BY <2>1, <2>2 DEF EmbryoOwned
<1>10. ForkOwns'
  <2> SUFFICES ASSUME NEW x \in Procs
               PROVE  /\ pc'[x] = "fork" <=> np'[x] # 0
                      /\ pc'[x] = "fork" => state'[x] \in {"RUNNING", "RUNNABLE"}
    BY DEF ForkOwns
  <2>1. CASE x = p
    <3>1. pc'[p] = "fork" /\ np'[p] = q /\ q # 0 /\ state'[p] = "RUNNING"
      BY Zenon, <1>1, <1>2, <1>7
    <3> QED BY <2>1, <3>1
  <2>2. CASE x = q
    <3>1. np[q] = 0
      BY <1>0, <1>1 DEF ForkOwns
    <3> QED BY <2>2, <3>1, <1>2, <1>7
  <2>3. CASE x # p /\ x # q
    BY <2>3, <1>0, <1>7 DEF ForkOwns
  <2> QED BY <2>1, <2>2, <2>3
<1> QED BY <1>6, <1>8, <1>9, <1>10 DEF TableInv

\* The embryo of a process in fork() is on the embryo list.
LEMMA EmbryoListed ==
    ASSUME TableInv, NEW p \in Procs, pc[p] = "fork"
    PROVE  np[p] \in Procs /\ np[p] \in Range(list[EmbryoList]) /\ state[np[p]] = "EMBRYO"
<1>1. np[p] \in Procs
  <2>1. np[p] \in 0..NPROC /\ np[p] # 0
    <3>1. np \in [Procs -> 0..NPROC]
      BY DEF TableInv, TypeOK
    <3>2. np[p] # 0
      BY DEF TableInv, ForkOwns
    <3> QED BY <3>1, <3>2
  <2> QED BY <2>1, NPROCAssumption DEF Procs
<1>2. state[np[p]] = "EMBRYO"
  BY <1>1 DEF TableInv, EmbryoOwned
<1>3. Table \in Tables /\ ListsAgree(Table) /\ Table.state[np[p]] = EmbryoList[1]
  BY <1>2, TableFacts, ListIdFacts DEF TableInv
<1>4. np[p] \in Range(Table.list[EmbryoList])
  BY <1>1, <1>3, OnListOf
<1> QED BY <1>1, <1>2, <1>4, TableFacts DEF TableInv

\* What fork and forkFail do with the embryo: it leaves the embryo list.
LEMMA EmbryoEffect ==
    ASSUME TableInv, NEW c \in CPUs, NEW p \in Procs, pc[p] = "fork",
           NEW to \in ListIds, to # EmbryoList,
           release(c, changeState(Table, EmbryoList, to, np[p]))
    PROVE  MovedTo(np[p], to[1]) /\ np[p] \in Procs /\ state[np[p]] = "EMBRYO"
<1>1. np[p] \in Procs /\ np[p] \in Range(list[EmbryoList]) /\ state[np[p]] = "EMBRYO"
  BY EmbryoListed
<1>2. TypeOK /\ ListInv /\ EmbryoList \in ListIds
  BY ListIdFacts DEF TableInv
<1> QED BY Zenon, <1>1, <1>2, MoveEffect

\* fork() ends, with or without a child: the process keeps no embryo.
LEMMA ForkEnds ==
    ASSUME TableInv, NEW p \in Procs, NEW st, pc[p] = "fork",
           np[p] \in Procs, state[np[p]] = "EMBRYO",
           state' = [state EXCEPT ![np[p]] = st], st \in {"RUNNABLE", "UNUSED"},
           np' = [np EXCEPT ![p] = 0], UNCHANGED cpuproc,
           pc'[p] = "kernel", pc'[np[p]] # "fork",
           \A x \in Procs \ {p, np[p]} : pc'[x] = pc[x]
    PROVE  CpuAndFork'
<1> DEFINE q == np[p]
<1>0. RunningOnOneCpu /\ EmbryoOwned /\ ForkOwns
  BY DEF TableInv
<1>1. /\ \A x \in Procs : state'[x] = IF x = q THEN st ELSE state[x]
      /\ \A x \in Procs : np'[x] = IF x = p THEN 0 ELSE np[x]
      /\ \A x \in Procs : x # 0
  BY DEF TableInv, TypeOK, Procs
<1>2. pc[q] # "fork" /\ np[q] = 0 /\ q # p
  BY <1>0 DEF ForkOwns
<1> HIDE DEF q
<1>3. RunningOnOneCpu'
  BY <1>0, <1>1 DEF RunningOnOneCpu, q
<1>4. EmbryoOwned'
  <2>1. ASSUME NEW x \in Procs, state'[x] = "EMBRYO"
        PROVE  \E r \in Procs : pc'[r] = "fork" /\ np'[r] = x
    <3>1. x # q /\ state[x] = "EMBRYO"
      BY <2>1, <1>1
    <3>2. PICK r \in Procs : pc[r] = "fork" /\ np[r] = x
      BY <3>1, <1>0 DEF EmbryoOwned
    <3>3. r # p /\ r # q
      BY <3>1, <3>2, <1>2 DEF q
    <3> QED BY <3>2, <3>3, <1>1 DEF q
  <2>2. ASSUME NEW x \in Procs, NEW r \in Procs, NEW s \in Procs, np'[r] = x, np'[s] = x
        PROVE  r = s /\ state'[x] = "EMBRYO"
    <3>1. r # p /\ s # p /\ np[r] = x /\ np[s] = x
      BY <2>2, <1>1
    <3>2. r = s /\ state[x] = "EMBRYO"
      BY <3>1, <1>0 DEF EmbryoOwned
    <3>3. x # q
      BY <3>1, <1>0 DEF EmbryoOwned, q
    <3> QED BY <3>2, <3>3, <1>1
  <2> QED BY <2>1, <2>2 DEF EmbryoOwned
<1>5. ForkOwns'
  <2> SUFFICES ASSUME NEW x \in Procs
               PROVE  /\ pc'[x] = "fork" <=> np'[x] # 0
                      /\ pc'[x] = "fork" => state'[x] \in {"RUNNING", "RUNNABLE"}
    BY DEF ForkOwns
  <2>1. CASE x = p
    BY <2>1, <1>1
  <2>2. CASE x = q
    BY <2>2, <1>1, <1>2 DEF q
  <2>3. CASE x # p /\ x # q
    BY <2>3, <1>0, <1>1 DEF q, ForkOwns
  <2> QED BY <2>1, <2>2, <2>3
<1> QED BY <1>3, <1>4, <1>5 DEF CpuAndFork

\* fork: the embryo becomes a runnable child.
LEMMA ForkStep == ASSUME TableInv, NEW c \in CPUs, fork(c) PROVE TableInv'
<1>0. TypeOK /\ NoListPanic
  BY DEF TableInv
<1>1. PICK p \in Procs :
         /\ pc[p] = "fork"
         /\ release(c, changeState(Table, EmbryoList, ReadyList(0), np[p]))
         /\ parent' = [parent EXCEPT ![np[p]] = p]
         /\ pc' = [pc EXCEPT ![p] = "kernel"]
         /\ np' = [np EXCEPT ![p] = 0]
         /\ UNCHANGED <<pid, killed, nextpid, chan, prioVars, promoteIn, cpuproc, used>>
  BY Zenon DEF fork
<1>2. ReadyList(0) \in ListIds /\ ReadyList(0) # EmbryoList /\ ReadyList(0)[1] = "RUNNABLE"
  BY ListIdFacts, MAXPRIOAssumption
<1>3. MovedTo(np[p], ReadyList(0)[1]) /\ np[p] \in Procs /\ state[np[p]] = "EMBRYO"
  BY <1>1, <1>2, EmbryoEffect
<1>4. Published /\ state' = [state EXCEPT ![np[p]] = "RUNNABLE"]
  BY Zenon, <1>2, <1>3 DEF MovedTo
<1>5. /\ pc' \in [Procs -> PCs] /\ np' \in [Procs -> 0..NPROC]
      /\ parent' \in [Procs -> 0..NPROC]
  <2>1. 0 \in 0..NPROC /\ p \in 0..NPROC /\ "kernel" \in PCs
    BY NPROCAssumption DEF Procs, PCs
  <2> QED BY Zenon, <2>1, <1>0, <1>1 DEF TypeOK
<1>6. TypeOK' /\ NoListPanic' /\ ListInv'
  BY Zenon, <1>0, <1>1, <1>4, <1>5 DEF TypeOK, NoListPanic, Published, prioVars
<1>7. pc[np[p]] # "fork"
  BY <1>3 DEF TableInv, ForkOwns
<1>8. /\ pc'[p] = "kernel" /\ pc'[np[p]] # "fork"
      /\ \A x \in Procs \ {p, np[p]} : pc'[x] = pc[x]
  BY <1>0, <1>1, <1>3, <1>7 DEF TypeOK
<1>9. CpuAndFork'
  BY Zenon, <1>1, <1>3, <1>4, <1>8, ForkEnds
<1> QED BY <1>6, <1>9 DEF TableInv, CpuAndFork

\* A fork that fails gives its embryo back.
LEMMA ForkFailStep == ASSUME TableInv, NEW c \in CPUs, forkFail(c) PROVE TableInv'
<1>0. TypeOK /\ NoListPanic
  BY DEF TableInv
<1>1. PICK p \in Procs :
         /\ pc[p] = "fork"
         /\ release(c, changeState(Table, EmbryoList, FreeList, np[p]))
         /\ pc' = [pc EXCEPT ![p] = "kernel", ![np[p]] = "none"]
         /\ np' = [np EXCEPT ![p] = 0]
         /\ UNCHANGED <<idVars, chan, prioVars, promoteIn, cpuproc, used>>
  BY Zenon DEF forkFail
<1>2. FreeList \in ListIds /\ FreeList # EmbryoList /\ FreeList[1] = "UNUSED"
  BY ListIdFacts
<1>3. MovedTo(np[p], FreeList[1]) /\ np[p] \in Procs /\ state[np[p]] = "EMBRYO"
  BY <1>1, <1>2, EmbryoEffect
<1>4. Published /\ state' = [state EXCEPT ![np[p]] = "UNUSED"]
  BY <1>2, <1>3 DEF MovedTo
<1>5. pc' \in [Procs -> PCs] /\ np' \in [Procs -> 0..NPROC]
  <2>1. 0 \in 0..NPROC /\ {"kernel", "none"} \subseteq PCs
    BY NPROCAssumption DEF PCs
  <2> QED BY Zenon, <2>1, <1>0, <1>1 DEF TypeOK
<1>6. TypeOK' /\ NoListPanic' /\ ListInv'
  BY Zenon, <1>0, <1>1, <1>4, <1>5 DEF TypeOK, NoListPanic, Published, idVars, prioVars
<1>7. np[p] # p
  BY <1>1, <1>3 DEF TableInv, ForkOwns
<1>8. /\ pc'[p] = "kernel" /\ pc'[np[p]] # "fork"
      /\ \A x \in Procs \ {p, np[p]} : pc'[x] = pc[x]
  BY <1>0, <1>1, <1>3, <1>7 DEF TypeOK
<1>9. CpuAndFork'
  BY Zenon, <1>1, <1>3, <1>4, <1>8, ForkEnds
<1> QED BY <1>6, <1>9 DEF TableInv, CpuAndFork

\* What exit does: it wakes sleepers only, and p becomes a zombie.
LEMMA ExitEffect ==
    ASSUME TableInv, NEW c \in CPUs, exit(c)
    PROVE  \E p \in Procs :
              /\ cpuproc[c] = p /\ pc[p] = "exit" /\ state[p] = "RUNNING"
              /\ Published /\ state'[p] = "ZOMBIE"
              /\ \A q \in Procs \ {p} : \/ state'[q] = state[q]
                                        \/ state[q] = "SLEEPING" /\ state'[q] = "RUNNABLE"
              /\ \A q \in Procs : state[q] = "SLEEPING" /\ state'[q] = "SLEEPING"
                    /\ chan[q] = parent[p] =>
                       \E r \in Procs \ {q} : state[r] = "SLEEPING" /\ chan[r] = parent[p]
              /\ cpuproc' = [cpuproc EXCEPT ![c] = 0]
              /\ \A q \in Procs : parent'[q] \in {initproc, parent[q]}
              /\ parent' \in [Procs -> 0..NPROC]
              /\ pc' = [pc EXCEPT ![p] = "none"]
              /\ UNCHANGED <<pid, killed, nextpid, chan, prioVars, promoteIn, np, used>>
<1>0. TypeOK /\ ListInv
  BY DEF TableInv
<1>1. PICK p \in Procs :
         /\ cpuproc[c] = p /\ pc[p] = "exit"
         /\ sched(c, changeState(exitWakeInit(wakeup1(Table, parent[p]), p),
                                 RunningList, ZombieList, p))
         /\ parent' = [q \in Procs |-> IF q \in Reparented(wakeup1(Table, parent[p]), p)
                                       THEN initproc ELSE parent[q]]
         /\ pc' = [pc EXCEPT ![p] = "none"]
         /\ UNCHANGED <<pid, killed, nextpid, chan, prioVars, promoteIn, np>>
  BY Zenon DEF exit, Executing
<1> DEFINE w == wakeup1(Table, parent[p])
           x == exitWakeInit(w, p)
           nt == changeState(x, RunningList, ZombieList, p)
           Woken(s, t) == \A q \in Procs : \/ t[q] = s[q]
                                           \/ s[q] = "SLEEPING" /\ t[q] = "RUNNABLE"
<1>2. /\ Table \in Tables /\ ListsAgree(Table) /\ Table.ok = TRUE /\ Table.state = state
      /\ state \in [Procs -> procstate] /\ state[p] = "RUNNING"
  BY Zenon, <1>0, <1>1, TableFacts, RunningListed DEF TypeOK
<1>3. /\ w \in Tables /\ ListsAgree(w) /\ w.ok = Table.ok
      /\ \/ /\ w = Table
            /\ \A q \in Procs : Table.state[q] = "SLEEPING" /\ chan[q] = parent[p] =>
                  \E r \in Procs \ {q} : Table.state[r] = "SLEEPING" /\ chan[r] = parent[p]
         \/ \E q \in Procs : /\ Table.state[q] = "SLEEPING" /\ chan[q] = parent[p]
                             /\ w.state = [Table.state EXCEPT ![q] = "RUNNABLE"]
  BY <1>0, <1>2, Wakeup1Agrees
<1>4. /\ x \in Tables /\ ListsAgree(x) /\ x.ok = w.ok
      /\ \/ x = w
         \/ \E q \in Procs : /\ w.state[q] = "SLEEPING"
                             /\ x.state = [w.state EXCEPT ![q] = "RUNNABLE"]
  <2> HIDE DEF w
  <2>1. \/ x = w \/ x = wakeup1(w, initproc)
    BY DEF exitWakeInit
  <2>2. /\ wakeup1(w, initproc) \in Tables /\ ListsAgree(wakeup1(w, initproc))
        /\ wakeup1(w, initproc).ok = w.ok
        /\ \/ wakeup1(w, initproc) = w
           \/ \E q \in Procs : /\ w.state[q] = "SLEEPING"
                               /\ wakeup1(w, initproc).state = [w.state EXCEPT ![q] = "RUNNABLE"]
    BY <1>0, <1>3, Wakeup1Agrees
  <2> HIDE DEF x
  <2> QED BY <1>3, <2>1, <2>2
<1> HIDE DEF w, x
<1>5. w.state \in [Procs -> procstate] /\ x.state \in [Procs -> procstate]
  BY <1>3, <1>4 DEF Tables
<1>6. Woken(state, w.state) /\ Woken(w.state, x.state)
  BY Zenon, <1>2, <1>3, <1>4, <1>5
<1>7. ASSUME NEW q \in Procs, state[q] = "SLEEPING", chan[q] = parent[p],
             w.state[q] = "SLEEPING"
      PROVE  \E r \in Procs \ {q} : state[r] = "SLEEPING" /\ chan[r] = parent[p]
  BY Zenon, <1>2, <1>3, <1>5, <1>7
<1>8. x.state[p] = "RUNNING"
  BY <1>2, <1>6
<1>9. /\ RunningList \in ListIds /\ ZombieList \in ListIds /\ RunningList # ZombieList
      /\ RunningList[1] = "RUNNING" /\ ZombieList[1] = "ZOMBIE"
  BY ListIdFacts
<1>10. p \in Range(x.list[RunningList])
  BY <1>4, <1>8, <1>9, OnListOf
<1>11. /\ nt \in Tables /\ ListsAgree(nt) /\ nt.ok = x.ok
       /\ nt.state = [x.state EXCEPT ![p] = ZombieList[1]]
  BY <1>4, <1>9, <1>10, ChangeStateAgrees
<1>12. sched(c, nt)
  BY Zenon, <1>1 DEF w, x
<1> HIDE DEF nt
<1>13. /\ nt.ok = TRUE /\ release(c, nt)
       /\ cpuproc' = [cpuproc EXCEPT ![c] = 0] /\ UNCHANGED used
  BY Zenon, <1>2, <1>3, <1>4, <1>11, <1>12 DEF sched
<1>14. Published /\ state' = nt.state
  BY Zenon, <1>11, <1>13, ReleaseEffect DEF Published
<1>15. /\ state'[p] = "ZOMBIE" /\ \A q \in Procs \ {p} : state'[q] = x.state[q]
  BY <1>5, <1>9, <1>11, <1>14
<1>16. \A q \in Procs \ {p} : \/ state'[q] = state[q]
                              \/ state[q] = "SLEEPING" /\ state'[q] = "RUNNABLE"
  BY <1>6, <1>15
<1>17. ASSUME NEW q \in Procs, state[q] = "SLEEPING", state'[q] = "SLEEPING",
              chan[q] = parent[p]
       PROVE  \E r \in Procs \ {q} : state[r] = "SLEEPING" /\ chan[r] = parent[p]
  BY <1>6, <1>7, <1>15, <1>17
<1>18. /\ \A q \in Procs : parent'[q] \in {initproc, parent[q]}
       /\ parent' \in [Procs -> 0..NPROC]
  <2>1. initproc \in 0..NPROC /\ parent \in [Procs -> 0..NPROC]
    BY <1>0, NPROCAssumption DEF TypeOK, initproc
  <2> HIDE DEF initproc
  <2> QED BY <1>1, <2>1
<1>19. \A q \in Procs : state[q] = "SLEEPING" /\ state'[q] = "SLEEPING"
          /\ chan[q] = parent[p] =>
             \E r \in Procs \ {q} : state[r] = "SLEEPING" /\ chan[r] = parent[p]
  BY <1>17
<1> QED BY Zenon, <1>1, <1>2, <1>13, <1>14, <1>15, <1>16, <1>18, <1>19

\* exit keeps TableInv.
LEMMA ExitStep == ASSUME TableInv, NEW c \in CPUs, exit(c) PROVE TableInv'
<1>0. TypeOK /\ NoListPanic
  BY DEF TableInv
<1>1. PICK p \in Procs :
         /\ cpuproc[c] = p /\ pc[p] = "exit"
         /\ Published /\ state'[p] = "ZOMBIE"
         /\ \A q \in Procs \ {p} : \/ state'[q] = state[q]
                                   \/ state[q] = "SLEEPING" /\ state'[q] = "RUNNABLE"
         /\ cpuproc' = [cpuproc EXCEPT ![c] = 0]
         /\ parent' \in [Procs -> 0..NPROC]
         /\ pc' = [pc EXCEPT ![p] = "none"]
         /\ UNCHANGED <<pid, killed, nextpid, chan, prioVars, promoteIn, np, used>>
  BY ExitEffect
<1>2. pc' \in [Procs -> PCs] /\ \A q \in Procs : pc'[q] = "fork" <=> pc[q] = "fork"
  BY <1>0, <1>1 DEF TypeOK, PCs
<1>3. cpuproc' \in [CPUs -> 0..NPROC]
  <2>1. cpuproc \in [CPUs -> 0..NPROC] /\ 0 \in 0..NPROC
    BY <1>0, NPROCAssumption DEF TypeOK
  <2> QED BY <2>1, <1>1
<1>4. TypeOK' /\ NoListPanic' /\ ListInv'
  BY Zenon, <1>0, <1>1, <1>2, <1>3 DEF TypeOK, NoListPanic, Published, prioVars
<1>5. np' = np /\ state'[p] \in {"RUNNABLE", "SLEEPING", "ZOMBIE"} /\ pc[p] # "fork"
  BY <1>1
<1>6. CpuAndFork'
  BY Zenon, <1>1, <1>2, <1>5, LeaveCpu
<1> QED BY <1>4, <1>6 DEF TableInv, CpuAndFork

\* What the reaping of wait does: a zombie child becomes a free slot.
LEMMA WaitReapEffect ==
    ASSUME TableInv, NEW c \in CPUs, waitReap(c)
    PROVE  \E p, q \in Procs :
              /\ cpuproc[c] = p /\ pc[p] \in {"kernel", "wait"} /\ state[p] = "RUNNING"
              /\ state[q] = "ZOMBIE" /\ MovedTo(q, "UNUSED") /\ freeSlot(q)
              /\ pc' = [pc EXCEPT ![p] = "kernel"] /\ chan' = [chan EXCEPT ![p] = 0]
              /\ UNCHANGED <<nextpid, prioVars, promoteIn, cpuproc, used, np>>
<1>0. TypeOK /\ ListInv /\ ZombieList \in ListIds /\ FreeList \in ListIds
      /\ ZombieList # FreeList /\ ZombieList[1] = "ZOMBIE" /\ FreeList[1] = "UNUSED"
  BY ListIdFacts DEF TableInv
<1>1. PICK p \in Procs : \E k \in Least(ZombieChildren(p)) :
         /\ cpuproc[c] = p /\ pc[p] \in {"kernel", "wait"}
         /\ release(c, changeState(Table, ZombieList, FreeList, list[ZombieList][k]))
         /\ freeSlot(list[ZombieList][k])
         /\ pc' = [pc EXCEPT ![p] = "kernel"] /\ chan' = [chan EXCEPT ![p] = 0]
         /\ UNCHANGED <<nextpid, prioVars, promoteIn, cpuproc, used, np>>
  BY Zenon DEF waitReap, waitScan
<1>a. PICK k \in Least(ZombieChildren(p)) :
         /\ cpuproc[c] = p /\ pc[p] \in {"kernel", "wait"}
         /\ release(c, changeState(Table, ZombieList, FreeList, list[ZombieList][k]))
         /\ freeSlot(list[ZombieList][k])
         /\ pc' = [pc EXCEPT ![p] = "kernel"] /\ chan' = [chan EXCEPT ![p] = 0]
         /\ UNCHANGED <<nextpid, prioVars, promoteIn, cpuproc, used, np>>
  BY Zenon, <1>1
<1> DEFINE q == list[ZombieList][k]
<1>2. list[ZombieList] \in Seq(Procs) /\ Len(list[ZombieList]) \in Nat
  BY <1>0, LenProperties DEF TypeOK
<1>3. k \in 1..Len(list[ZombieList])
  BY DEF Least, ZombieChildren
<1>4. q \in Procs /\ q \in Range(list[ZombieList])
  BY Zenon, <1>2, <1>3, LenProperties DEF Range
<1> HIDE DEF q
<1>5. state[q] = "ZOMBIE"
  <2>1. Table \in Tables /\ ListsAgree(Table) /\ q \in Range(Table.list[ZombieList])
    BY <1>0, <1>4, TableFacts
  <2>2. Table.state[q] = ZombieList[1]
    BY <1>0, <2>1, MemberHasState
  <2> QED BY Zenon, <1>0, <2>2, TableFacts
<1>6. release(c, changeState(Table, ZombieList, FreeList, q)) /\ freeSlot(q)
  BY Zenon, <1>a DEF q
<1>7. MovedTo(q, FreeList[1])
  BY Zenon, <1>0, <1>4, <1>6, MoveEffect
<1>8. state[p] = "RUNNING" /\ MovedTo(q, "UNUSED")
  BY Zenon, <1>0, <1>a, <1>7, RunningListed
<1> QED BY Zenon, <1>a, <1>4, <1>5, <1>6, <1>8

\* wait keeps TableInv when it returns.
LEMMA WaitReturnStep ==
    ASSUME TableInv, NEW c \in CPUs, waitReap(c) \/ waitNone(c)
    PROVE  TableInv'
<1>0. TypeOK /\ NoListPanic /\ 0 \in 0..NPROC /\ 0 \in 0..MAXPID /\ "kernel" \in PCs
  BY NPROCAssumption, InputAssumption DEF TableInv, PCs
<1>1. CASE waitReap(c)
  <2>1. PICK p, q \in Procs :
           /\ pc[p] \in {"kernel", "wait"} /\ state[q] = "ZOMBIE"
           /\ MovedTo(q, "UNUSED") /\ freeSlot(q)
           /\ pc' = [pc EXCEPT ![p] = "kernel"] /\ chan' = [chan EXCEPT ![p] = 0]
           /\ UNCHANGED <<nextpid, prioVars, promoteIn, cpuproc, used, np>>
    BY <1>1, WaitReapEffect
  <2>2. /\ pid' \in [Procs -> 0..MAXPID] /\ killed' \in [Procs -> BOOLEAN]
        /\ parent' \in [Procs -> 0..NPROC]
    BY Zenon, <1>0, <2>1 DEF freeSlot, TypeOK
  <2>3. chan' \in [Procs -> Chans \cup 0..NPROC] /\ pc' \in [Procs -> PCs]
    BY <1>0, <2>1 DEF TypeOK
  <2>4. TypeOK' /\ NoListPanic' /\ ListInv'
    BY Zenon, <1>0, <2>1, <2>2, <2>3 DEF TypeOK, NoListPanic, MovedTo, Published, prioVars
  <2>5. \A x \in Procs : pc'[x] = "fork" <=> pc[x] = "fork"
    BY <1>0, <2>1 DEF TypeOK
  <2>6. \A x \in Procs : \/ state'[x] = state[x]
                         \/ state[x] = "ZOMBIE" /\ state'[x] = "UNUSED"
    BY <1>0, <2>1 DEF TypeOK, MovedTo
  <2>7. CpuAndFork'
    BY Zenon, <2>1, <2>5, <2>6, WakeLike
  <2> QED BY <2>4, <2>7 DEF TableInv, CpuAndFork
<1>2. CASE waitNone(c)
  <2>1. PICK p \in Procs :
           /\ pc[p] \in {"kernel", "wait"} /\ release(c, Table)
           /\ pc' = [pc EXCEPT ![p] = "kernel"] /\ chan' = [chan EXCEPT ![p] = 0]
           /\ UNCHANGED <<idVars, prioVars, promoteIn, cpuproc, used, np>>
    BY Zenon, <1>2 DEF waitNone, waitScan
  <2>2. list' = list /\ state' = state /\ lock' = NoCPU /\ panic' = panic
    BY <2>1 DEF release, Table
  <2>3. chan' \in [Procs -> Chans \cup 0..NPROC] /\ pc' \in [Procs -> PCs]
    BY <1>0, <2>1 DEF TypeOK
  <2>4. TypeOK' /\ NoListPanic'
    BY Zenon, <1>0, <2>1, <2>2, <2>3 DEF TypeOK, NoListPanic, idVars, prioVars
  <2>5. \A x \in Procs : pc'[x] = "fork" <=> pc[x] = "fork"
    BY <1>0, <2>1 DEF TypeOK
  <2> QED BY <2>1, <2>2, <2>4, <2>5, QuietStep
<1> QED BY <1>1, <1>2

\* What kill does to the lists: at most the head of the sleep list is woken.
LEMMA KillEffect ==
    ASSUME TableInv, NEW c \in CPUs, NEW q \in Procs, release(c, killTable(q))
    PROVE  /\ Published
           /\ \/ state' = state /\ list' = list
              \/ /\ state[q] = "SLEEPING" /\ state' = [state EXCEPT ![q] = "RUNNABLE"]
                 /\ killTable(q) = changeState(Table, SleepList, ReadyList(0), q)
                 /\ q \in Range(list[SleepList])
<1>0. /\ TypeOK /\ ListInv /\ SleepList \in ListIds /\ ReadyList(0) \in ListIds
      /\ SleepList # ReadyList(0) /\ SleepList[1] = "SLEEPING" /\ ReadyList(0)[1] = "RUNNABLE"
  BY ListIdFacts, MAXPRIOAssumption DEF TableInv
<1>1. CASE killTable(q) = Table
  <2>1. /\ Table \in Tables /\ ListsAgree(Table) /\ Table.ok = TRUE
        /\ Table.list = list /\ Table.state = state
    BY Zenon, <1>0, TableFacts
  <2>2. release(c, Table)
    BY <1>1
  <2> QED BY Zenon, <2>1, <2>2, ReleaseEffect DEF Published
<1>2. CASE killTable(q) # Table
  <2>1. /\ list[SleepList] # <<>> /\ list[SleepList][1] = q
        /\ killTable(q) = changeState(Table, SleepList, ReadyList(0), q)
    BY Zenon, <1>2 DEF killTable
  <2>2. q \in Range(list[SleepList]) /\ state[q] = "SLEEPING"
    BY Zenon, <1>0, <2>1, HeadListed
  <2>3. release(c, changeState(Table, SleepList, ReadyList(0), q))
    BY <2>1
  <2>4. MovedTo(q, ReadyList(0)[1])
    BY Zenon, <1>0, <2>2, <2>3, MoveEffect
  <2> QED BY Zenon, <1>0, <2>1, <2>2, <2>4 DEF MovedTo
<1> QED BY <1>1, <1>2

\* kill keeps TableInv.
LEMMA KillStep ==
    ASSUME TableInv, NEW c \in CPUs, NEW victim, kill(c, victim)
    PROVE  TableInv'
<1>0. TypeOK /\ NoListPanic
  BY DEF TableInv
<1>1. PICK q \in Procs :
         /\ killed' = [killed EXCEPT ![q] = TRUE] /\ release(c, killTable(q))
         /\ UNCHANGED <<pid, parent, nextpid, chan, prioVars, promoteIn, cpuproc, used, pc, np>>
  BY Zenon DEF kill
<1>2. Published
  BY <1>1, KillEffect
<1>3. \A x \in Procs : \/ state'[x] = state[x]
                       \/ state[x] = "SLEEPING" /\ state'[x] = "RUNNABLE"
  <2>1. state' = state \/ (state[q] = "SLEEPING" /\ state' = [state EXCEPT ![q] = "RUNNABLE"])
    BY <1>1, KillEffect
  <2> QED BY <1>0, <2>1 DEF TypeOK
<1>4. TypeOK' /\ NoListPanic' /\ ListInv'
  BY Zenon, <1>0, <1>1, <1>2 DEF TypeOK, NoListPanic, Published, prioVars
<1>5. CpuAndFork'
  BY Zenon, <1>1, <1>3, WakeLike
<1> QED BY <1>4, <1>5 DEF TableInv, CpuAndFork

\* What setpriority does when it does not panic: no process changes its state.
LEMMA SetpriorityEffect ==
    ASSUME TableInv, NEW c \in CPUs, NEW target, NEW prio \in SetPrios,
           setpriority(c, target, prio)
    PROVE  \/ panicLocked(c, "assertPrio")
           \/ \E q \in Procs :
                 /\ state[q] \in {"RUNNABLE", "SLEEPING", "RUNNING"} /\ priority[q] # prio
                 /\ Published /\ state' = state
                 /\ \/ state[q] # "RUNNABLE" /\ list' = list
                    \/ /\ state[q] = "RUNNABLE" /\ q \in Range(list[ReadyList(priority[q])])
                       /\ release(c, changeState(Table, ReadyList(priority[q]), ReadyList(prio), q))
                 /\ priority' = [priority EXCEPT ![q] = prio]
                 /\ budget' = [budget EXCEPT ![q] = MAX_BUDGET]
                 /\ UNCHANGED <<idVars, chan, promoteIn, cpuproc, used, pc, np>>
<1>0. TypeOK /\ ListInv /\ state \in [Procs -> procstate] /\ prio \in 0..MAXPRIO
      /\ priority \in [Procs -> 0..MAXPRIO]
  BY InputAssumption DEF TableInv, TypeOK
<1>1. PICK q \in Procs :
         /\ priority[q] # prio /\ state[q] \in {"RUNNABLE", "SLEEPING", "RUNNING"}
         /\ IF state[q] = "RUNNABLE" /\ OnReady(q) # priority[q]
            THEN panicLocked(c, "assertPrio")
            ELSE /\ priority' = [priority EXCEPT ![q] = prio]
                 /\ budget' = [budget EXCEPT ![q] = MAX_BUDGET]
                 /\ release(c, IF state[q] = "RUNNABLE"
                               THEN changeState(Table, ReadyList(priority[q]), ReadyList(prio), q)
                               ELSE Table)
                 /\ UNCHANGED <<idVars, chan, promoteIn, cpuproc, used, pc, np>>
  BY Zenon DEF setpriority
<1>2. CASE state[q] = "RUNNABLE" /\ OnReady(q) # priority[q]
  BY Zenon, <1>1, <1>2
<1>3. CASE state[q] = "RUNNABLE" /\ OnReady(q) = priority[q]
  <2> DEFINE from == ReadyList(priority[q])
             to == ReadyList(prio)
  <2>1. release(c, changeState(Table, from, to, q))
    BY Zenon, <1>1, <1>3
  <2>2. q \in Range(list[from])
    <3>1. Table \in Tables /\ ListsAgree(Table) /\ Table.list = list /\ Table.state[q] = "RUNNABLE"
      BY Zenon, <1>0, <1>3, TableFacts
    <3>2. \E i \in 0..MAXPRIO : q \in Range(list[ReadyList(i)])
      BY Zenon, <3>1, OnReadyList
    <3> QED BY Zenon, <1>3, <3>2 DEF OnReady
  <2>3. /\ from \in ListIds /\ to \in ListIds /\ from # to /\ to[1] = "RUNNABLE"
    BY <1>0, <1>1, ListIdFacts
  <2> HIDE DEF from, to
  <2>4. MovedTo(q, to[1])
    BY Zenon, <1>0, <2>1, <2>2, <2>3, MoveEffect
  <2>5. Published /\ state' = [state EXCEPT ![q] = "RUNNABLE"]
    BY <2>3, <2>4 DEF MovedTo
  <2>6. state' = state
    BY <1>0, <1>3, <2>5
  <2> QED BY <1>1, <1>3, <2>1, <2>2, <2>5, <2>6 DEF from, to
<1>4. CASE state[q] # "RUNNABLE"
  <2>1. release(c, Table)
    BY Zenon, <1>1, <1>4
  <2>2. /\ Table \in Tables /\ ListsAgree(Table) /\ Table.ok = TRUE
        /\ Table.list = list /\ Table.state = state
    BY Zenon, <1>0, TableFacts
  <2>3. Published /\ state' = state /\ list' = list
    BY Zenon, <2>1, <2>2, ReleaseEffect DEF Published
  <2> QED BY Zenon, <1>1, <1>4, <2>3
<1> QED BY Zenon, <1>2, <1>3, <1>4

\* setpriority keeps TableInv.
LEMMA SetpriorityStep ==
    ASSUME TableInv, NEW c \in CPUs, NEW target, NEW prio \in SetPrios,
           setpriority(c, target, prio)
    PROVE  TableInv'
<1>0. TypeOK /\ NoListPanic /\ prio \in 0..MAXPRIO /\ MAX_BUDGET \in 0..MAX_BUDGET
  BY InputAssumption, BudgetAssumption DEF TableInv
<1>1. CASE panicLocked(c, "assertPrio")
  BY <1>1, PanicStep
<1>2. ASSUME NEW q \in Procs, Published, state' = state,
             priority' = [priority EXCEPT ![q] = prio],
             budget' = [budget EXCEPT ![q] = MAX_BUDGET],
             UNCHANGED <<idVars, chan, promoteIn, cpuproc, used, pc, np>>
      PROVE  TableInv'
  <2>1. priority' \in [Procs -> 0..MAXPRIO] /\ budget' \in [Procs -> 0..MAX_BUDGET]
    BY <1>0, <1>2 DEF TypeOK
  <2>2. TypeOK' /\ NoListPanic' /\ ListInv'
    BY <1>0, <1>2, <2>1 DEF TypeOK, NoListPanic, Published, idVars
  <2>3. CpuAndFork'
    BY Zenon, <1>2, WakeLike
  <2> QED BY <2>2, <2>3 DEF TableInv, CpuAndFork
<1>3. \/ panicLocked(c, "assertPrio")
      \/ \E q \in Procs : /\ Published /\ state' = state
                          /\ priority' = [priority EXCEPT ![q] = prio]
                          /\ budget' = [budget EXCEPT ![q] = MAX_BUDGET]
                          /\ UNCHANGED <<idVars, chan, promoteIn, cpuproc, used, pc, np>>
  BY SetpriorityEffect
<1> QED BY <1>1, <1>2, <1>3

\* The table and priorities scheduler() works on after its promotion check.
LEMMA PromoteFacts ==
    ASSUME TypeOK, ListInv
    PROVE  /\ promoteProcs.list \in [ListIds -> Seq(Procs)]
           /\ [list |-> promoteProcs.list, state |-> state, ok |-> TRUE] \in Tables
           /\ ListsAgree([list |-> promoteProcs.list, state |-> state, ok |-> TRUE])
           /\ promoteProcs.priority \in [Procs -> 0..MAXPRIO]
           /\ promoteProcs.budget \in [Procs -> 0..MAX_BUDGET]
<1>1. /\ priority \in [Procs -> 0..MAXPRIO] /\ budget \in [Procs -> 0..MAX_BUDGET]
      /\ MAX_BUDGET \in 0..MAX_BUDGET /\ list \in [ListIds -> Seq(Procs)]
  BY BudgetAssumption DEF TypeOK
<1>2. CASE promoteIn = 0
  <2>1. /\ promoteProcs.list = promotedList /\ promoteProcs.priority = promotedPriority
        /\ promoteProcs.budget = promotedBudget
    BY Zenon, <1>2 DEF promoteProcs
  <2>2. promotedPriority \in [Procs -> 0..MAXPRIO]
    <3>1. \A p \in Procs : priority[p] > 0 => priority[p] - 1 \in 0..MAXPRIO
      BY <1>1, MAXPRIOAssumption
    <3> QED BY <1>1, <3>1 DEF promotedPriority
  <2>3. promotedBudget \in [Procs -> 0..MAX_BUDGET]
    BY <1>1 DEF promotedBudget
  <2> QED BY Zenon, <2>1, <2>2, <2>3, PromotedAgrees
<1>3. CASE promoteIn # 0
  <2>1. /\ promoteProcs.list = list /\ promoteProcs.priority = priority
        /\ promoteProcs.budget = budget
    BY <1>3 DEF promoteProcs
  <2>2. [list |-> list, state |-> state, ok |-> TRUE] = Table
    BY DEF Table
  <2> QED BY Zenon, <1>1, <2>1, <2>2, TableFacts
<1> QED BY Zenon, <1>2, <1>3

\* A pass of scheduler() that only promotes keeps TableInv.
LEMMA SchedulerIdleStep == ASSUME TableInv, NEW c \in CPUs, schedulerIdle(c) PROVE TableInv'
<1>0. TypeOK /\ ListInv /\ NoListPanic
  BY DEF TableInv
<1>1. /\ list' = promoteProcs.list /\ priority' = promoteProcs.priority
      /\ budget' = promoteProcs.budget /\ promoteIn' = TICKS_TO_PROMOTE
      /\ UNCHANGED <<state, idVars, chan, cpuVars, pc, np>>
  BY DEF schedulerIdle
<1>2. /\ list' \in [ListIds -> Seq(Procs)]
      /\ ListsAgree([list |-> list', state |-> state', ok |-> TRUE])
      /\ priority' \in [Procs -> 0..MAXPRIO] /\ budget' \in [Procs -> 0..MAX_BUDGET]
  BY <1>0, <1>1, PromoteFacts
<1>3. ListInv'
  BY <1>2 DEF ListInv, Table
<1>4. TICKS_TO_PROMOTE \in 0..TICKS_TO_PROMOTE
  BY BudgetAssumption
<1>5. TypeOK' /\ NoListPanic'
  BY Zenon, <1>0, <1>1, <1>2, <1>4 DEF TypeOK, NoListPanic, idVars, cpuVars
<1>6. CpuAndFork'
  BY Zenon, <1>1, WakeLike DEF cpuVars
<1> QED BY <1>3, <1>5, <1>6 DEF TableInv, CpuAndFork

\* What scheduler() does when it does not panic: the first process of the
\* highest non-empty ready list, counted after promotion, gets the CPU.
LEMMA SchedulerEffect ==
    ASSUME TableInv, NEW c \in CPUs, scheduler(c)
    PROVE  \/ panicLocked(c, "assertPrio")
           \/ \E p \in Procs, i \in NonEmpty(promoteProcs.list) :
                 LET pt == [list |-> promoteProcs.list, state |-> state, ok |-> TRUE]
                     nt == changeState(pt, ReadyList(i), RunningList, p)
                 IN  /\ cpuproc[c] = 0 /\ state[p] = "RUNNABLE"
                     /\ \A j \in NonEmpty(promoteProcs.list) : i <= j
                     /\ promoteProcs.priority[p] = i /\ (promoteIn = 0 => promoteAsserts)
                     /\ p \in Range(promoteProcs.list[ReadyList(i)])
                     /\ nt \in Tables /\ ListsAgree(nt)
                     /\ list' = nt.list /\ state' = nt.state
                     /\ nt.state = [state EXCEPT ![p] = "RUNNING"]
                     /\ priority' = promoteProcs.priority /\ budget' = promoteProcs.budget
                     /\ promoteIn' = IF promoteIn = 0 THEN TICKS_TO_PROMOTE ELSE promoteIn
                     /\ cpuproc' = [cpuproc EXCEPT ![c] = p]
                     /\ used' = [used EXCEPT ![c] = 0]
                     /\ lock' = c
                     /\ UNCHANGED <<idVars, chan, pc, np, panic>>
<1> DEFINE pl == promoteProcs.list
           pt == [list |-> pl, state |-> state, ok |-> TRUE]
<1>0. TypeOK /\ ListInv
  BY DEF TableInv
<1>1. /\ pl \in [ListIds -> Seq(Procs)] /\ pt \in Tables /\ ListsAgree(pt)
      /\ pt.list = pl /\ pt.state = state /\ pt.ok = TRUE
  BY Zenon, <1>0, PromoteFacts
<1>a. PICK i \in Least(NonEmpty(pl)) :
         LET p == pl[ReadyList(i)][1]
             nt == changeState(pt, ReadyList(i), RunningList, p)
         IN  /\ cpuproc[c] = 0
             /\ IF (promoteIn = 0 => promoteAsserts) /\ promoteProcs.priority[p] = i
                THEN dispatch(c, nt, p) ELSE panicLocked(c, "assertPrio")
  BY Zenon DEF scheduler
<1> DEFINE p == pl[ReadyList(i)][1]
           nt == changeState(pt, ReadyList(i), RunningList, p)
<1>2. /\ cpuproc[c] = 0
      /\ IF (promoteIn = 0 => promoteAsserts) /\ promoteProcs.priority[p] = i
         THEN dispatch(c, nt, p) ELSE panicLocked(c, "assertPrio")
  BY Zenon, <1>a
<1> HIDE DEF pl, pt
<1>3. i \in NonEmpty(pl) /\ \A j \in NonEmpty(pl) : i <= j
  BY Zenon DEF Least
<1>4. i \in 0..MAXPRIO /\ pl[ReadyList(i)] # <<>>
  BY <1>3 DEF NonEmpty
<1>5. /\ ReadyList(i) \in ListIds /\ RunningList \in ListIds /\ ReadyList(i) # RunningList
      /\ ReadyList(i)[1] = "RUNNABLE" /\ RunningList[1] = "RUNNING"
  BY <1>4, ListIdFacts
<1>6. p \in Procs /\ p \in Range(pl[ReadyList(i)])
  <2>1. pl[ReadyList(i)] \in Seq(Procs)
    BY <1>1, <1>5
  <2> QED BY <2>1, <1>4, HeadOnList
<1> HIDE DEF p
<1>7. p \in Range(pt.list[ReadyList(i)])
  BY <1>1, <1>6
<1>8. state[p] = "RUNNABLE"
  <2>1. pt.state[p] = ReadyList(i)[1]
    BY <1>1, <1>5, <1>7, MemberHasState
  <2> QED BY <1>1, <1>5, <2>1
<1>9. /\ nt \in Tables /\ ListsAgree(nt) /\ nt.ok = pt.ok
      /\ nt.state = [pt.state EXCEPT ![p] = RunningList[1]]
  <2> DEFINE from == ReadyList(i)
  <2>1. /\ pt \in Tables /\ ListsAgree(pt) /\ p \in Procs /\ p \in Range(pt.list[from])
        /\ from \in ListIds /\ RunningList \in ListIds /\ from # RunningList
    BY <1>1, <1>5, <1>6, <1>7
  <2>2. nt = changeState(pt, from, RunningList, p)
    OBVIOUS
  <2> HIDE DEF from, nt
  <2> QED BY <2>1, <2>2, ChangeStateAgrees
<1> HIDE DEF nt
<1>10. nt.ok = TRUE /\ nt.state = [state EXCEPT ![p] = "RUNNING"]
  BY <1>1, <1>5, <1>9
<1>11. CASE (promoteIn = 0 => promoteAsserts) /\ promoteProcs.priority[p] = i
  <2>1. dispatch(c, nt, p)
    BY <1>2, <1>11
  <2>2. /\ list' = nt.list /\ state' = nt.state
        /\ priority' = promoteProcs.priority /\ budget' = promoteProcs.budget
        /\ promoteIn' = IF promoteIn = 0 THEN TICKS_TO_PROMOTE ELSE promoteIn
        /\ cpuproc' = [cpuproc EXCEPT ![c] = p]
        /\ used' = [used EXCEPT ![c] = 0]
        /\ lock' = c
        /\ UNCHANGED <<idVars, chan, pc, np, panic>>
    BY Zenon, <1>10, <2>1 DEF dispatch
  <2> QED BY Zenon, <1>2, <1>3, <1>6, <1>8, <1>9, <1>10, <1>11, <2>2 DEF nt, pt, pl
<1>12. CASE ~ ((promoteIn = 0 => promoteAsserts) /\ promoteProcs.priority[p] = i)
  <2>1. panicLocked(c, "assertPrio")
    BY <1>2, <1>12
  <2> QED BY Zenon, <2>1
<1> QED BY Zenon, <1>11, <1>12

\* Whether lists and states agree depends on nothing else of a table.
LEMMA SameLists ==
    ASSUME NEW s, NEW t, t.list = s.list, t.state = s.state, ListsAgree(s)
    PROVE  ListsAgree(t)
<1>1. OnListOfItsState(t)
  BY DEF ListsAgree, OnListOfItsState
<1>2. OnNoTwoLists(t)
  BY DEF ListsAgree, OnNoTwoLists
<1>3. OnSomeList(t)
  BY DEF ListsAgree, OnSomeList
<1> QED BY <1>1, <1>2, <1>3 DEF ListsAgree

\* scheduler() keeps TableInv.
LEMMA SchedulerStep == ASSUME TableInv, NEW c \in CPUs, scheduler(c) PROVE TableInv'
<1>0. TypeOK /\ ListInv /\ NoListPanic /\ RunningOnOneCpu /\ EmbryoOwned /\ ForkOwns
  BY DEF TableInv
<1>1. CASE panicLocked(c, "assertPrio")
  BY <1>1, PanicStep
<1>2. CASE ~ panicLocked(c, "assertPrio")
  <2>1. PICK p \in Procs, nt \in Tables :
           /\ cpuproc[c] = 0 /\ state[p] = "RUNNABLE" /\ ListsAgree(nt)
           /\ list' = nt.list /\ state' = nt.state
           /\ nt.state = [state EXCEPT ![p] = "RUNNING"]
           /\ priority' = promoteProcs.priority /\ budget' = promoteProcs.budget
           /\ promoteIn' = IF promoteIn = 0 THEN TICKS_TO_PROMOTE ELSE promoteIn
           /\ cpuproc' = [cpuproc EXCEPT ![c] = p]
           /\ used' = [used EXCEPT ![c] = 0]
           /\ lock' = c
           /\ UNCHANGED <<idVars, chan, pc, np, panic>>
    BY Zenon, <1>2, SchedulerEffect
  <2>2. ListInv' /\ list' \in [ListIds -> Seq(Procs)] /\ state' \in [Procs -> procstate]
    <3>1. Table'.list = nt.list /\ Table'.state = nt.state
      BY <2>1 DEF Table
    <3>2. ListsAgree(Table')
      <4> HIDE DEF Table
      <4> QED BY <2>1, <3>1, SameLists
    <3> QED BY Zenon, <2>1, <3>2 DEF ListInv, Tables
  <2>3. priority' \in [Procs -> 0..MAXPRIO] /\ budget' \in [Procs -> 0..MAX_BUDGET]
    BY Zenon, <1>0, <2>1, PromoteFacts
  <2>4. /\ promoteIn' \in 0..TICKS_TO_PROMOTE /\ used' \in [CPUs -> 0..MAX_BUDGET]
        /\ cpuproc' \in [CPUs -> 0..NPROC]
    <3>1. /\ TICKS_TO_PROMOTE \in 0..TICKS_TO_PROMOTE /\ 0 \in 0..MAX_BUDGET
          /\ p \in 0..NPROC
      BY BudgetAssumption, NPROCAssumption DEF Procs
    <3> QED BY <1>0, <2>1, <3>1 DEF TypeOK
  <2>5. TypeOK' /\ NoListPanic'
    BY Zenon, <1>0, <2>1, <2>2, <2>3, <2>4 DEF TypeOK, NoListPanic, idVars
  <2>t. /\ state \in [Procs -> procstate] /\ cpuproc \in [CPUs -> 0..NPROC]
        /\ state' = [state EXCEPT ![p] = "RUNNING"] /\ cpuproc' = [cpuproc EXCEPT ![c] = p]
    BY Zenon, <1>0, <2>1 DEF TypeOK
  <2>a. \A x \in Procs : state'[x] = IF x = p THEN "RUNNING" ELSE state[x]
    BY <2>t
  <2>b. \A d \in CPUs : cpuproc'[d] = IF d = c THEN p ELSE cpuproc[d]
    BY <2>t
  <2>c. \A x \in Procs : x # 0
    BY NPROCAssumption DEF Procs
  <2>6. /\ \A x \in Procs : state'[x] = IF x = p THEN "RUNNING" ELSE state[x]
        /\ \A d \in CPUs : cpuproc'[d] = IF d = c THEN p ELSE cpuproc[d]
        /\ \A x \in Procs : x # 0
    BY Zenon, <2>a, <2>b, <2>c
  <2>7. RunningOnOneCpu'
    <3>0. cpuproc[c] = 0 /\ state[p] = "RUNNABLE" /\ RunningOnOneCpu
      BY Zenon, <1>0, <2>1
    <3>1. \A d \in CPUs : cpuproc[d] # p
      BY Zenon, <3>0 DEF RunningOnOneCpu
    <3>2. ASSUME NEW x \in Procs
          PROVE  state'[x] = "RUNNING" <=> \E d \in CPUs : cpuproc'[d] = x
      <4>1. CASE x = p
        BY <4>1, <2>a, <2>b
      <4>2. CASE x # p
        <5>1. state'[x] = state[x]
          BY <4>2, <2>a
        <5>2. state[x] = "RUNNING" <=> \E d \in CPUs : cpuproc[d] = x
          BY Zenon, <3>0 DEF RunningOnOneCpu
        <5>3. \A d \in CPUs : cpuproc'[d] = x <=> cpuproc[d] = x
          BY <4>2, <2>b, <2>c, <3>0
        <5> QED BY Zenon, <5>1, <5>2, <5>3
      <4> QED BY <4>1, <4>2
    <3>3. \A d, e \in CPUs : cpuproc'[d] = cpuproc'[e] /\ cpuproc'[d] # 0 => d = e
      BY <3>0, <2>b, <3>1 DEF RunningOnOneCpu
    <3> QED BY <3>2, <3>3 DEF RunningOnOneCpu
  <2>8. EmbryoOwned'
    <3>1. EmbryoOwned /\ state[p] = "RUNNABLE" /\ pc' = pc /\ np' = np
      BY Zenon, <1>0, <2>1
    <3>2. \A x \in Procs : state'[x] = "EMBRYO" <=> state[x] = "EMBRYO"
      BY <2>a, <3>1
    <3> QED BY <3>1, <3>2 DEF EmbryoOwned
  <2>9. ForkOwns'
    BY Zenon, <1>0, <2>1, <2>6 DEF ForkOwns
  <2> QED BY <2>2, <2>5, <2>7, <2>8, <2>9 DEF TableInv
<1> QED BY <1>1, <1>2

=============================================================================
