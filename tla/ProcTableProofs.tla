--------------------------- MODULE ProcTableProofs ---------------------------
(***************************************************************************)
(* Proofs that the safety properties of ProcTable hold for every number of *)
(* slots, priorities, CPUs and channels.                                   *)
(***************************************************************************)
EXTENDS ProcTableSteps

\* Time for the leaves, which the provers try in this order.
USE SMTT(30), ZenonT(30)

-----------------------------------------------------------------------------
(***************************************************************************)
(* The invariant, for every instance.                                      *)
(***************************************************************************)
\* userinit establishes TableInv.
LEMMA InitTableInv == Init => TableInv
<1> SUFFICES ASSUME Init PROVE TableInv
  OBVIOUS
<1>1. userinitTable \in Tables /\ ListsAgree(userinitTable)
  BY UserinitAgrees
<1>2. list \in [ListIds -> Seq(Procs)] /\ state \in [Procs -> procstate]
  BY <1>1 DEF Init, Tables
<1>3. ListInv
  <2>1. Table.list = userinitTable.list /\ Table.state = userinitTable.state
    BY DEF Table, Init
  <2> HIDE DEF Table
  <2> QED BY <1>1, <2>1, SameLists DEF ListInv
<1>4. TypeOK
  <2>1. /\ 0 \in 0..MAXPID /\ 1 \in 0..MAXPID /\ 2 \in 1..MAXPID /\ 0 \in 0..NPROC
        /\ 0 \in 0..MAXPRIO /\ 0 \in 0..MAX_BUDGET /\ MAX_BUDGET \in 0..MAX_BUDGET
        /\ TICKS_TO_PROMOTE \in 0..TICKS_TO_PROMOTE
    BY NPROCAssumption, MAXPRIOAssumption, BudgetAssumption, InputAssumption
  <2> QED BY <1>2, <2>1 DEF Init, TypeOK, PCs, Panics
<1>5. NoListPanic
  BY DEF Init, NoListPanic
<1>6. \A p \in Procs : state[p] \in {"RUNNABLE", "UNUSED"} /\ p # 0
  BY DEF Init, userinitTable, Procs
<1>7. RunningOnOneCpu
  BY Zenon, <1>6 DEF Init, RunningOnOneCpu
<1>8. EmbryoOwned
  BY <1>6 DEF Init, EmbryoOwned
<1>9. ForkOwns
  BY DEF Init, ForkOwns
<1> QED BY <1>3, <1>4, <1>5, <1>7, <1>8, <1>9 DEF TableInv

\* Every step keeps TableInv.
LEMMA NextTableInv == TableInv /\ [Next]_vars => TableInv'
<1> SUFFICES ASSUME TableInv, [Next]_vars PROVE TableInv'
  OBVIOUS
<1>1. CASE UNCHANGED vars \/ \E c \in CPUs : panicked(c)
  <2>1. UNCHANGED vars
    BY <1>1 DEF panicked
  <2>2. TypeOK' /\ NoListPanic'
    BY <2>1 DEF TableInv, TypeOK, NoListPanic, vars
  <2> QED BY <2>1, <2>2, QuietStep DEF vars
<1>2. CASE timerTick
  BY <1>2, TickStep
<1>3. ASSUME NEW c \in CPUs, scheduler(c) PROVE TableInv'
  BY <1>3, SchedulerStep
<1>4. ASSUME NEW c \in CPUs, schedulerIdle(c) PROVE TableInv'
  BY <1>4, SchedulerIdleStep
<1>5. ASSUME NEW c \in CPUs,
             \/ resume(c) \/ interrupt(c) \/ fault(c) \/ syscallEnter(c)
             \/ syscallReturn(c) \/ sys_exit(c)
      PROVE  TableInv'
  BY <1>5, TrapStep
<1>6. ASSUME NEW c \in CPUs, yield(c) PROVE TableInv'
  BY <1>6, YieldStep
<1>7. ASSUME NEW c \in CPUs, waitSleep(c) \/ \E ch \in Chans : sleep(c, ch) PROVE TableInv'
  BY <1>7, SleepStep
<1>8. ASSUME NEW c \in CPUs, NEW ch \in Chans, wakeup(c, ch) PROVE TableInv'
  BY <1>8, WakeupStep
<1>9. ASSUME NEW c \in CPUs, allocproc(c) PROVE TableInv'
  BY <1>9, AllocprocStep
<1>10. ASSUME NEW c \in CPUs, forkFail(c) PROVE TableInv'
  BY <1>10, ForkFailStep
<1>11. ASSUME NEW c \in CPUs, fork(c) PROVE TableInv'
  BY <1>11, ForkStep
<1>12. ASSUME NEW c \in CPUs, exit(c) PROVE TableInv'
  BY <1>12, ExitStep
<1>13. ASSUME NEW c \in CPUs, waitReap(c) \/ waitNone(c) PROVE TableInv'
  BY <1>13, WaitReturnStep
<1>14. ASSUME NEW c \in CPUs, NEW v \in KillPids, kill(c, v) PROVE TableInv'
  BY <1>14, KillStep
<1>15. ASSUME NEW c \in CPUs, NEW v \in 1..MAXPID, NEW prio \in SetPrios,
              setpriority(c, v, prio)
       PROVE  TableInv'
  BY <1>15, SetpriorityStep
<1> QED
  BY <1>1, <1>2, <1>3, <1>4, <1>5, <1>6, <1>7, <1>8, <1>9, <1>10, <1>11, <1>12, <1>13,
     <1>14, <1>15 DEF Next

\* TableInv is an inductive invariant of the process table.
THEOREM TableInvariant == Spec => []TableInv
BY InitTableInv, NextTableInv, PTL DEF Spec

\* Fields keep their types, priorities and budgets their ranges.
THEOREM TypeCorrect == Spec => []TypeOK
<1>1. TableInv => TypeOK
  BY DEF TableInv
<1> QED BY <1>1, TableInvariant, PTL

\* Every slot is always on exactly one list, the one of its state.
THEOREM ListsAlwaysAgree == Spec => []ListInv
<1>1. TableInv => ListInv
  BY DEF TableInv
<1> QED BY <1>1, TableInvariant, PTL

\* The list panics of changeState, assertState and stateListRemove are
\* unreachable.
THEOREM ListsNeverPanic == Spec => []NoListPanic
<1>1. TableInv => NoListPanic
  BY DEF TableInv
<1> QED BY <1>1, TableInvariant, PTL

\* No two CPUs run the same process, and a process is RUNNING exactly while
\* it has a CPU.
THEOREM OneCpuPerProcess == Spec => []RunningOnOneCpu
<1>1. TableInv => RunningOnOneCpu
  BY DEF TableInv
<1> QED BY <1>1, TableInvariant, PTL

\* fork never loses an embryo.
THEOREM NoEmbryoLost == Spec => []EmbryoOwned
<1>1. TableInv => EmbryoOwned
  BY DEF TableInv
<1> QED BY <1>1, TableInvariant, PTL

-----------------------------------------------------------------------------
(***************************************************************************)
(* Two invariants that rest on TableInv: pids are unique, and no process   *)
(* sleeps in wait() while it has a zombie child.                           *)
(***************************************************************************)
-----------------------------------------------------------------------------
(***************************************************************************)
(* How a step changes the states, apart from allocproc, sleeping and exit. *)
(***************************************************************************)
\* The only ways on: no process falls asleep, dies, or comes out of a free slot.
Onward ==
    \A q \in Procs :
        \/ state'[q] = state[q]
        \/ state[q] # "UNUSED" /\ state'[q] \in {"RUNNABLE", "RUNNING", "UNUSED"}

\* The steps that move nobody, or wake, schedule, reap or give up the CPU.
LEMMA OnwardSteps ==
    ASSUME TableInv, NEW c \in CPUs,
           \/ timerTick \/ scheduler(c) \/ schedulerIdle(c) \/ resume(c) \/ yield(c)
           \/ interrupt(c) \/ fault(c) \/ syscallEnter(c) \/ syscallReturn(c) \/ sys_exit(c)
           \/ \E ch \in Chans : wakeup(c, ch)
           \/ forkFail(c) \/ fork(c) \/ waitReap(c) \/ waitNone(c)
           \/ \E v \in KillPids : kill(c, v)
           \/ \E v \in 1..MAXPID, prio \in SetPrios : setpriority(c, v, prio)
           \/ panicked(c)
    PROVE  Onward
<1>0. TypeOK /\ ListInv /\ state \in [Procs -> procstate] /\ BootCpu \in CPUs
  BY CpuAssumption DEF TableInv, TypeOK
<1>1. CASE timerTick \/ \E ch \in Chans : wakeup(c, ch)
  <2>1. \E ch, d : d \in CPUs /\ release(d, wakeup1(Table, ch))
    BY <1>0, <1>1 DEF timerTick, wakeup
  <2>2. \A q \in Procs : \/ state'[q] = state[q]
                         \/ state[q] = "SLEEPING" /\ state'[q] = "RUNNABLE"
    BY <1>0, <2>1, WakeEffect
  <2> QED BY ZenonT(30), <2>2 DEF Onward
<1>2. CASE scheduler(c)
  <2>1. \/ state' = state
        \/ \E p \in Procs : state[p] = "RUNNABLE" /\ state' = [state EXCEPT ![p] = "RUNNING"]
    BY Zenon, <1>2, SchedulerEffect DEF panicLocked
  <2> QED BY <1>0, <2>1 DEF Onward
<1>3. CASE \/ schedulerIdle(c) \/ resume(c) \/ interrupt(c) \/ fault(c) \/ syscallEnter(c)
           \/ syscallReturn(c) \/ sys_exit(c) \/ panicked(c) \/ waitNone(c)
  <2>1. state' = state
    BY Zenon, <1>3 DEF schedulerIdle, resume, interrupt, fault, syscallEnter, syscallReturn, sys_exit,
                panicked, vars, tableVars, waitNone, release, Table
  <2> QED BY <2>1 DEF Onward
<1>4. CASE yield(c)
  BY <1>4, YieldStep DEF Onward
<1>5. CASE forkFail(c)
  <2>1. PICK p \in Procs : /\ pc[p] = "fork"
                           /\ release(c, changeState(Table, EmbryoList, FreeList, np[p]))
    BY <1>5 DEF forkFail
  <2>2. FreeList \in ListIds /\ FreeList # EmbryoList /\ FreeList[1] = "UNUSED"
    BY ListIdFacts
  <2>3. MovedTo(np[p], FreeList[1]) /\ state[np[p]] = "EMBRYO"
    BY ZenonT(30), <2>1, <2>2, EmbryoEffect
  <2> QED BY <1>0, <2>2, <2>3 DEF Onward, MovedTo
<1>6. CASE fork(c)
  <2>1. PICK p \in Procs : /\ pc[p] = "fork"
                           /\ release(c, changeState(Table, EmbryoList, ReadyList(0), np[p]))
    BY <1>6 DEF fork
  <2>2. ReadyList(0) \in ListIds /\ ReadyList(0) # EmbryoList /\ ReadyList(0)[1] = "RUNNABLE"
    BY ListIdFacts, MAXPRIOAssumption
  <2>3. MovedTo(np[p], ReadyList(0)[1]) /\ state[np[p]] = "EMBRYO"
    BY ZenonT(30), <2>1, <2>2, EmbryoEffect
  <2> QED BY <1>0, <2>2, <2>3 DEF Onward, MovedTo
<1>7. CASE waitReap(c)
  <2>1. \E q \in Procs : state[q] = "ZOMBIE" /\ MovedTo(q, "UNUSED")
    BY ZenonT(30), <1>7, WaitReapEffect
  <2> QED BY <1>0, <2>1 DEF Onward, MovedTo
<1>8. CASE \E v \in KillPids : kill(c, v)
  <2>1. PICK q \in Procs : release(c, killTable(q))
    BY ZenonT(30), <1>8 DEF kill
  <2>2. \/ state' = state
        \/ state[q] = "SLEEPING" /\ state' = [state EXCEPT ![q] = "RUNNABLE"]
    BY <2>1, KillEffect
  <2> QED BY <1>0, <2>2 DEF Onward
<1>9. CASE \E v \in 1..MAXPID, prio \in SetPrios : setpriority(c, v, prio)
  <2>1. state' = state
    BY <1>9, SetpriorityEffect DEF panicLocked
  <2> QED BY <2>1 DEF Onward
<1> QED BY <1>1, <1>2, <1>3, <1>4, <1>5, <1>6, <1>7, <1>8, <1>9

\* A process that goes to sleep was running; nobody else changes.
LEMMA SleepEffect ==
    ASSUME TableInv, NEW c \in CPUs, waitSleep(c) \/ \E ch \in Chans : sleep(c, ch)
    PROVE  \E p \in Procs :
              /\ cpuproc[c] = p /\ state[p] = "RUNNING" /\ state'[p] = "SLEEPING"
              /\ \A q \in Procs \ {p} : state'[q] = state[q]
              /\ UNCHANGED idVars
              /\ \/ /\ pc' = [pc EXCEPT ![p] = "wait"] /\ chan' = [chan EXCEPT ![p] = p]
                    /\ ZombieChildren(p) = {}
                 \/ /\ pc[p] \in {"kernel", "exit"} /\ pc' = pc
                    /\ \E ch \in Chans : chan' = [chan EXCEPT ![p] = ch]
<1>0. state \in [Procs -> procstate]
  BY DEF TableInv, TypeOK
<1>1. CASE waitSleep(c)
  <2>1. PICK p \in Procs : /\ cpuproc[c] = p /\ pc[p] \in {"kernel", "wait"}
                           /\ ZombieChildren(p) = {}
                           /\ goToSleep(c, p, p) /\ pc' = [pc EXCEPT ![p] = "wait"]
                           /\ UNCHANGED <<idVars, promoteIn, np>>
    BY Zenon, <1>1 DEF waitSleep, waitScan
  <2>2. p \in Chans \cup 0..NPROC /\ pc[p] # "fork"
    BY <2>1, NPROCAssumption DEF Procs
  <2>3. state' = [state EXCEPT ![p] = "SLEEPING"]
    BY Zenon, <2>1, <2>2, GoToSleepStep
  <2>4. state[p] = "RUNNING"
    BY <2>1, RunningListed
  <2>5. chan' = [chan EXCEPT ![p] = p]
    BY <2>1 DEF goToSleep
  <2> WITNESS p \in Procs
  <2> QED BY <1>0, <2>1, <2>3, <2>4, <2>5
<1>2. CASE \E ch \in Chans : sleep(c, ch)
  <2>1. PICK ch \in Chans : sleep(c, ch)
    BY <1>2
  <2>2. PICK p \in Procs : /\ cpuproc[c] = p /\ pc[p] \in {"kernel", "exit"}
                           /\ goToSleep(c, p, ch)
                           /\ UNCHANGED <<idVars, promoteIn, pc, np>>
    BY <2>1 DEF sleep, Executing
  <2>3. ch \in Chans \cup 0..NPROC /\ pc[p] # "fork"
    BY <2>2
  <2>4. state' = [state EXCEPT ![p] = "SLEEPING"]
    BY <2>2, <2>3, GoToSleepStep
  <2>5. state[p] = "RUNNING"
    BY <2>2, RunningListed
  <2>6. chan' = [chan EXCEPT ![p] = ch]
    BY <2>2 DEF goToSleep
  <2> WITNESS p \in Procs
  <2> QED BY Zenon, <1>0, <2>2, <2>4, <2>5, <2>6
<1> QED BY ZenonT(30), <1>1, <1>2

-----------------------------------------------------------------------------
(***************************************************************************)
(* Unique pids.                                                            *)
(***************************************************************************)
\* Steps that hand out no pid and bring no free slot into use.
LEMMA NoNewPid ==
    ASSUME PidInv, UNCHANGED <<pid, nextpid>>,
           \A q \in Procs : state'[q] # "UNUSED" => state[q] # "UNUSED"
    PROVE  PidInv'
BY DEF PidInv, UniquePids, PidBound

\* Every step keeps pids unique and below nextpid.
LEMMA NextPidInv == TableInv /\ PidInv /\ [Next]_vars => PidInv'
<1> SUFFICES ASSUME TableInv, PidInv, [Next]_vars PROVE PidInv'
  OBVIOUS
<1>0. TypeOK /\ pid \in [Procs -> 0..MAXPID] /\ nextpid \in Nat /\ 0 < nextpid
      /\ state \in [Procs -> procstate]
  BY InputAssumption DEF TableInv, TypeOK
<1>1. CASE UNCHANGED vars
  BY <1>1, NoNewPid DEF vars
<1>2. ASSUME Onward, UNCHANGED idVars \/ UNCHANGED <<pid, nextpid>> PROVE PidInv'
  BY <1>2, NoNewPid DEF Onward, idVars
<1>3. CASE timerTick
  <2>1. BootCpu \in CPUs /\ UNCHANGED idVars
    BY <1>3, CpuAssumption DEF timerTick
  <2>2. Onward
    BY <1>3, <2>1, OnwardSteps
  <2> QED BY <1>2, <2>1, <2>2
<1>4. ASSUME NEW c \in CPUs,
             \/ scheduler(c) \/ schedulerIdle(c) \/ resume(c) \/ yield(c)
             \/ interrupt(c) \/ fault(c) \/ syscallEnter(c) \/ syscallReturn(c) \/ sys_exit(c)
             \/ \E ch \in Chans : wakeup(c, ch)
             \/ forkFail(c) \/ fork(c) \/ waitNone(c)
             \/ \E v \in KillPids : kill(c, v)
             \/ \E v \in 1..MAXPID, prio \in SetPrios : setpriority(c, v, prio)
             \/ panicked(c)
      PROVE  PidInv'
  <2>1. Onward
    BY <1>4, OnwardSteps
  <2>2. UNCHANGED <<pid, nextpid>>
    BY Zenon, <1>4 DEF scheduler, dispatch, panicLocked, schedulerIdle, resume, yield, interrupt, fault,
                syscallEnter, syscallReturn, sys_exit, wakeup, forkFail, fork, waitNone, kill,
                setpriority, panicked, idVars, vars
  <2> QED BY <1>2, <2>1, <2>2
<1>5. ASSUME NEW c \in CPUs, waitReap(c) PROVE PidInv'
  <2>1. PICK q \in Procs : MovedTo(q, "UNUSED") /\ freeSlot(q) /\ UNCHANGED nextpid
    BY <1>5, WaitReapEffect
  <2>2. /\ \A x \in Procs : state'[x] = IF x = q THEN "UNUSED" ELSE state[x]
        /\ \A x \in Procs : pid'[x] = IF x = q THEN 0 ELSE pid[x]
    BY <1>0, <2>1 DEF MovedTo, freeSlot
  <2> QED BY <1>0, <2>1, <2>2 DEF PidInv, UniquePids, PidBound
<1>6. ASSUME NEW c \in CPUs, waitSleep(c) \/ \E ch \in Chans : sleep(c, ch) PROVE PidInv'
  <2>1. /\ \A q \in Procs : state'[q] # "UNUSED" => state[q] # "UNUSED"
        /\ UNCHANGED <<pid, nextpid>>
    BY <1>6, SleepEffect DEF idVars
  <2> QED BY <2>1, NoNewPid
<1>7. ASSUME NEW c \in CPUs, exit(c) PROVE PidInv'
  <2>1. /\ \A q \in Procs : state'[q] # "UNUSED" => state[q] # "UNUSED"
        /\ UNCHANGED <<pid, nextpid>>
    BY <1>7, ExitEffect
  <2> QED BY <2>1, NoNewPid
<1>8. ASSUME NEW c \in CPUs, allocproc(c) PROVE PidInv'
  <2>1. PICK q \in Procs : MovedTo(q, "EMBRYO") /\ newPid(q)
    BY <1>8, AllocprocEffect
  <2>2. /\ \A x \in Procs : state'[x] = IF x = q THEN "EMBRYO" ELSE state[x]
        /\ \A x \in Procs : pid'[x] = IF x = q THEN nextpid ELSE pid[x]
        /\ nextpid' = nextpid + 1
    BY <1>0, <2>1 DEF MovedTo, newPid
  <2>3. \A x \in Procs : pid[x] < nextpid /\ pid[x] \in Nat
    BY <1>0 DEF PidInv, PidBound
  <2>4. PidBound'
    BY <1>0, <2>2, <2>3 DEF PidBound
  <2>5. UniquePids'
    BY <1>0, <2>2, <2>3 DEF PidInv, UniquePids
  <2> QED BY <2>4, <2>5 DEF PidInv
<1> QED BY <1>1, <1>3, <1>4, <1>5, <1>6, <1>7, <1>8 DEF Next

\* Processes in use always have different pids.
THEOREM PidsAreUnique == Spec => []UniquePids
<1>1. Init => PidInv
  <2>1. ASSUME Init, NEW p \in Procs, state[p] # "UNUSED" PROVE p = 1
    BY <2>1 DEF Init, userinitTable
  <2> QED BY <2>1 DEF Init, PidInv, UniquePids, PidBound
<1>2. PidInv => UniquePids
  BY DEF PidInv
<1> QED BY <1>1, <1>2, NextPidInv, TableInvariant, PTL DEF Spec

-----------------------------------------------------------------------------
(***************************************************************************)
(* No missed exit.                                                         *)
(***************************************************************************)
\* Steps that put nobody to sleep and make no zombie, and change nothing of
\* the sleepers and the zombies.
LEMMA SleepersLeftAlone ==
    ASSUME WaitInv,
           \A q \in Procs : state'[q] = "SLEEPING" =>
               state[q] = "SLEEPING" /\ pc'[q] = pc[q] /\ chan'[q] = chan[q],
           \A q \in Procs : state'[q] = "ZOMBIE" => state[q] = "ZOMBIE" /\ parent'[q] = parent[q]
    PROVE  WaitInv'
BY DEF WaitInv, WaiterHasNoZombie, WaitChan

\* Traps change pc and chan of a running process only.
LEMMA OwnPcOnly ==
    ASSUME TableInv, NEW c \in CPUs,
           \/ resume(c) \/ interrupt(c) \/ fault(c) \/ syscallEnter(c)
           \/ syscallReturn(c) \/ sys_exit(c) \/ waitNone(c)
    PROVE  /\ state' = state /\ parent' = parent
           /\ \A q \in Procs : state[q] # "RUNNING" => pc'[q] = pc[q] /\ chan'[q] = chan[q]
<1>0. pc \in [Procs -> PCs] /\ chan \in [Procs -> Chans \cup 0..NPROC]
  BY DEF TableInv, TypeOK
<1>1. \A q \in Procs : cpuproc[c] = q => state[q] = "RUNNING"
  BY DEF TableInv, RunningOnOneCpu
<1>2. CASE resume(c)
  BY Zenon, <1>0, <1>1, <1>2 DEF resume, tableVars, idVars
<1>3. CASE interrupt(c) \/ fault(c) \/ sys_exit(c)
  BY Zenon, <1>0, <1>1, <1>3 DEF interrupt, fault, sys_exit, enterExit, Executing, tableVars, idVars
<1>4. CASE syscallEnter(c) \/ syscallReturn(c)
  BY Zenon, <1>0, <1>1, <1>4 DEF syscallEnter, syscallReturn, enterExit, Executing, tableVars, idVars
<1>5. CASE waitNone(c)
  BY Zenon, <1>0, <1>1, <1>5 DEF waitNone, waitScan, release, Table, idVars
<1> QED BY Zenon, <1>2, <1>3, <1>4, <1>5

\* Every step keeps WaitInv.
LEMMA NextWaitInv == TableInv /\ WaitInv /\ [Next]_vars => WaitInv'
<1> SUFFICES ASSUME TableInv, WaitInv, [Next]_vars PROVE WaitInv'
  OBVIOUS
<1>0. /\ TypeOK /\ pc \in [Procs -> PCs] /\ chan \in [Procs -> Chans \cup 0..NPROC]
      /\ parent \in [Procs -> 0..NPROC] /\ state \in [Procs -> procstate]
  BY DEF TableInv, TypeOK
<1>1. CASE UNCHANGED vars
  BY Zenon, <1>1, SleepersLeftAlone DEF vars
<1>2. ASSUME Onward, UNCHANGED <<pc, chan, parent>> PROVE WaitInv'
  <2>1. \A q \in Procs : /\ state'[q] = "SLEEPING" => state[q] = "SLEEPING"
                         /\ state'[q] = "ZOMBIE" => state[q] = "ZOMBIE"
    BY <1>2 DEF Onward
  <2> QED BY Zenon, <1>2, <2>1, SleepersLeftAlone
<1>3. CASE timerTick
  <2>1. BootCpu \in CPUs /\ UNCHANGED <<pc, chan, parent>>
    BY ZenonT(30), <1>3, CpuAssumption DEF timerTick, idVars
  <2>2. Onward
    BY <1>3, <2>1, OnwardSteps
  <2> QED BY <1>2, <2>1, <2>2
<1>4. ASSUME NEW c \in CPUs,
             \/ scheduler(c) \/ schedulerIdle(c) \/ yield(c)
             \/ \E ch \in Chans : wakeup(c, ch)
             \/ \E v \in KillPids : kill(c, v)
             \/ \E v \in 1..MAXPID, prio \in SetPrios : setpriority(c, v, prio)
             \/ panicked(c)
      PROVE  WaitInv'
  <2>1. Onward
    BY <1>4, OnwardSteps
  <2>2. UNCHANGED <<pc, chan, parent>>
    BY Zenon, <1>4 DEF scheduler, dispatch, panicLocked, schedulerIdle, yield, wakeup, kill,
                setpriority, panicked, idVars, vars
  <2> QED BY <1>2, <2>1, <2>2
<1>5. ASSUME NEW c \in CPUs,
             \/ resume(c) \/ interrupt(c) \/ fault(c) \/ syscallEnter(c)
             \/ syscallReturn(c) \/ sys_exit(c) \/ waitNone(c)
      PROVE  WaitInv'
  <2>1. /\ state' = state /\ parent' = parent
        /\ \A q \in Procs : state[q] # "RUNNING" => pc'[q] = pc[q] /\ chan'[q] = chan[q]
    BY <1>5, OwnPcOnly
  <2> QED BY <2>1, SleepersLeftAlone
<1>6. ASSUME NEW c \in CPUs, allocproc(c) PROVE WaitInv'
  <2>1. PICK p, q \in Procs :
           /\ state[p] = "RUNNING" /\ state[q] = "UNUSED" /\ MovedTo(q, "EMBRYO")
           /\ pc' = [pc EXCEPT ![p] = "fork", ![q] = "forkret"]
           /\ UNCHANGED <<parent, chan>>
    BY <1>6, AllocprocEffect
  <2>2. /\ \A x \in Procs : state'[x] = IF x = q THEN "EMBRYO" ELSE state[x]
        /\ \A x \in Procs \ {p, q} : pc'[x] = pc[x]
    BY <1>0, <2>1 DEF MovedTo
  <2> QED BY Zenon, <2>1, <2>2, SleepersLeftAlone
<1>7. ASSUME NEW c \in CPUs, fork(c) \/ forkFail(c) PROVE WaitInv'
  <2>1. Onward
    BY <1>7, OnwardSteps
  <2>2. PICK p \in Procs :
           /\ cpuproc[c] = p /\ pc[p] = "fork"
           /\ \A x \in Procs \ {p, np[p]} : pc'[x] = pc[x]
           /\ \A x \in Procs \ {np[p]} : parent'[x] = parent[x]
           /\ UNCHANGED chan
    BY <1>0, <1>7 DEF fork, forkFail, Executing, idVars
  <2>3. np[p] \in Procs /\ state[np[p]] = "EMBRYO" /\ state[p] = "RUNNING"
    BY <2>2, EmbryoListed, RunningListed
  <2>4. \A q \in Procs : /\ state'[q] = "SLEEPING" => state[q] = "SLEEPING"
                         /\ state'[q] = "ZOMBIE" => state[q] = "ZOMBIE"
    BY <2>1 DEF Onward
  <2> QED BY <2>2, <2>3, <2>4, SleepersLeftAlone
<1>8. ASSUME NEW c \in CPUs, waitReap(c) PROVE WaitInv'
  <2>1. PICK p, q \in Procs :
           /\ state[p] = "RUNNING" /\ state[q] = "ZOMBIE"
           /\ MovedTo(q, "UNUSED") /\ freeSlot(q)
           /\ pc' = [pc EXCEPT ![p] = "kernel"] /\ chan' = [chan EXCEPT ![p] = 0]
    BY <1>8, WaitReapEffect
  <2>2. /\ \A x \in Procs : state'[x] = IF x = q THEN "UNUSED" ELSE state[x]
        /\ \A x \in Procs \ {p} : pc'[x] = pc[x] /\ chan'[x] = chan[x]
        /\ \A x \in Procs \ {q} : parent'[x] = parent[x]
    BY <1>0, <2>1 DEF MovedTo, freeSlot
  <2> QED BY <2>1, <2>2, SleepersLeftAlone
<1>9. ASSUME NEW c \in CPUs, waitSleep(c) \/ \E ch \in Chans : sleep(c, ch) PROVE WaitInv'
  <2>1. PICK p \in Procs :
           /\ state'[p] = "SLEEPING" /\ \A q \in Procs \ {p} : state'[q] = state[q]
           /\ UNCHANGED idVars
           /\ \/ /\ pc' = [pc EXCEPT ![p] = "wait"] /\ chan' = [chan EXCEPT ![p] = p]
                 /\ ZombieChildren(p) = {}
              \/ /\ pc[p] \in {"kernel", "exit"} /\ pc' = pc
                 /\ \E ch \in Chans : chan' = [chan EXCEPT ![p] = ch]
    BY <1>9, SleepEffect
  <2>2. /\ \A q \in Procs \ {p} : pc'[q] = pc[q] /\ chan'[q] = chan[q]
        /\ IF pc'[p] = "wait" THEN chan'[p] = p ELSE chan'[p] \in Chans
        /\ pc'[p] = "wait" => ZombieChildren(p) = {}
    BY <1>0, <2>1
  <2>3. WaitChan'
    BY <2>1, <2>2 DEF WaitInv, WaitChan
  <2>4. ASSUME NEW q \in Procs, state[q] = "ZOMBIE", ZombieChildren(p) = {}
        PROVE  parent[q] # p
    <3>1. Table \in Tables /\ ListsAgree(Table) /\ Table.state[q] = ZombieList[1]
          /\ Table.list = list
      BY <2>4, TableFacts, ListIdFacts DEF TableInv
    <3>2. q \in Range(list[ZombieList])
      BY <3>1, OnListOf
    <3>3. list[ZombieList] \in Seq(Procs)
      BY ListIdFacts DEF TableInv, TypeOK
    <3>4. PICK k \in 1..Len(list[ZombieList]) : list[ZombieList][k] = q
      BY <3>2, <3>3, LenProperties DEF Range
    <3> QED BY <2>4, <3>4 DEF ZombieChildren
  <2>5. WaiterHasNoZombie'
    <3> SUFFICES ASSUME NEW x \in Procs, NEW y \in Procs, x # initproc,
                        state'[x] = "SLEEPING", pc'[x] = "wait", state'[y] = "ZOMBIE"
                 PROVE  parent'[y] # x
      BY Zenon DEF WaiterHasNoZombie
    <3>1. state[y] = "ZOMBIE" /\ parent'[y] = parent[y]
      BY <2>1 DEF idVars
    <3>2. CASE x = p
      BY <2>2, <2>4, <3>1, <3>2
    <3>3. CASE x # p
      <4>1. state[x] = "SLEEPING" /\ pc[x] = "wait"
        BY <2>1, <2>2, <3>3
      <4> QED BY <3>1, <4>1 DEF WaitInv, WaiterHasNoZombie
    <3> QED BY <3>2, <3>3
  <2> QED BY <2>3, <2>5 DEF WaitInv
<1>10. ASSUME NEW c \in CPUs, exit(c) PROVE WaitInv'
  <2>1. PICK p \in Procs :
           /\ state'[p] = "ZOMBIE"
           /\ \A q \in Procs \ {p} : \/ state'[q] = state[q]
                                     \/ state[q] = "SLEEPING" /\ state'[q] = "RUNNABLE"
           /\ \A q \in Procs : state[q] = "SLEEPING" /\ state'[q] = "SLEEPING"
                 /\ chan[q] = parent[p] =>
                    \E r \in Procs \ {q} : state[r] = "SLEEPING" /\ chan[r] = parent[p]
           /\ \A q \in Procs : parent'[q] \in {initproc, parent[q]}
           /\ pc' = [pc EXCEPT ![p] = "none"] /\ UNCHANGED chan
    BY <1>10, ExitEffect
  <2>2. \A q \in Procs \ {p} : pc'[q] = pc[q]
    BY <1>0, <2>1
  <2>3. WaitChan'
    <3> SUFFICES ASSUME NEW x \in Procs, state'[x] = "SLEEPING"
                 PROVE  IF pc'[x] = "wait" THEN chan'[x] = x ELSE chan'[x] \in Chans
      BY Zenon DEF WaitChan
    <3>1. x # p /\ state[x] = "SLEEPING"
      BY <2>1
    <3>2. pc'[x] = pc[x] /\ chan'[x] = chan[x]
      BY <2>1, <2>2, <3>1
    <3> QED BY <3>1, <3>2 DEF WaitInv, WaitChan
  <2>4. ASSUME NEW q \in Procs, state[q] = "SLEEPING", state'[q] = "SLEEPING", pc[q] = "wait"
        PROVE  parent[p] # q
    \* Only q sleeps on slot q, so the wakeup of exit would have woken it.
    <3>1. SUFFICES ASSUME parent[p] = q PROVE FALSE
      OBVIOUS
    <3>2. chan[q] = q
      BY <2>4 DEF WaitInv, WaitChan
    <3>3. PICK r \in Procs \ {q} : state[r] = "SLEEPING" /\ chan[r] = q
      BY <2>1, <2>4, <3>1, <3>2
    <3>4. q \notin Chans
      BY ChanAssumption, NPROCAssumption DEF Procs
    <3> QED BY <3>3, <3>4 DEF WaitInv, WaitChan
  <2>5. WaiterHasNoZombie'
    <3> SUFFICES ASSUME NEW x \in Procs, NEW q \in Procs, x # initproc,
                        state'[x] = "SLEEPING", pc'[x] = "wait", state'[q] = "ZOMBIE"
                 PROVE  parent'[q] # x
      BY DEF WaiterHasNoZombie
    <3>1. x # p /\ state[x] = "SLEEPING" /\ pc[x] = "wait"
      BY <2>1, <2>2
    <3>2. CASE q = p
      BY <2>1, <2>4, <3>1, <3>2
    <3>3. CASE q # p
      <4>1. state[q] = "ZOMBIE"
        BY <2>1, <3>3
      <4>2. parent[q] # x
        BY <3>1, <4>1 DEF WaitInv, WaiterHasNoZombie
      <4> QED BY <2>1, <4>2
    <3> QED BY <3>2, <3>3
  <2> QED BY <2>3, <2>5 DEF WaitInv
<1> QED BY <1>1, <1>3, <1>4, <1>5, <1>6, <1>7, <1>8, <1>9, <1>10 DEF Next

\* wait() misses no exit: a process other than init that sleeps in wait()
\* has no zombie child.
THEOREM NoMissedExit == Spec => []WaiterHasNoZombie
<1>1. Init => WaitInv
  <2>1. ASSUME Init, NEW p \in Procs PROVE state[p] \in {"RUNNABLE", "UNUSED"}
    BY <2>1 DEF Init, userinitTable
  <2> QED BY <2>1 DEF WaitInv, WaiterHasNoZombie, WaitChan
<1>2. WaitInv => WaiterHasNoZombie
  BY DEF WaitInv
<1> QED BY <1>1, <1>2, NextWaitInv, TableInvariant, PTL DEF Spec
=============================================================================
