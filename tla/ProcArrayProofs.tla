-------------------------- MODULE ProcArrayProofs --------------------------
(***************************************************************************)
(* The process table of ProcArray keeps the tree of processes of ProcLife, *)
(* for every number of slots, CPUs, channels and pids.                     *)
(***************************************************************************)
EXTENDS ProcArray, TLAPS

\* Time for the leaves, which the provers try in this order.
USE SMTT(30), ZenonT(30)

\* A CPU runs a process that is RUNNING, and no other CPU does.
OnCpu == \A c \in CPUs : cpuproc[c] # 0 =>
    /\ state[cpuproc[c]] = "RUNNING"
    /\ \A d \in CPUs : d # c => cpuproc[d] # cpuproc[c]

\* A process in fork has an embryo of its own, which is its child once copied.
InFork(p) == pc[p] \in {"copy", "child"}
Embryos == \A p \in Procs : InFork(p) =>
    /\ np[p] \in Procs /\ state[np[p]] = "EMBRYO"
    /\ state[p] \in {"RUNNING", "RUNNABLE"}
    /\ pc[p] = "child" => parent[np[p]] = p
    /\ \A q \in Procs : q # p /\ InFork(q) => np[q] # np[p]

\* Pids are below nextpid, and slots that are in use have different ones.
Pids == \A p \in Procs :
    /\ pid[p] < nextpid
    /\ state[p] # "UNUSED" => pid[p] >= 1
    /\ \A q \in Procs : q # p /\ state[p] # "UNUSED" /\ state[q] # "UNUSED" => pid[q] # pid[p]

Live == {"SLEEPING", "RUNNABLE", "RUNNING"}

\* init is alive, and so is the parent of every other process: exit passes all
\* the children on before the process becomes a zombie that can be reaped.
ParentAlive ==
    /\ state[initproc] \in Live
    /\ \A p \in Procs : p # initproc /\ state[p] \notin {"UNUSED", "EMBRYO"} =>
         parent[p] \in Procs \ {p} /\ state[parent[p]] \in Live

IInv == TypeOK /\ OnCpu /\ Embryos /\ Pids /\ ParentAlive /\ WaiterHasNoZombie

\* The slots are numbers from 1 on; 0 stands for no process.
LEMMA Slots ==
  /\ initproc \in Procs /\ 0 \notin Procs /\ Procs \subseteq Nat
  /\ 0 .. NPROC = Procs \cup {0}
  BY NprocAssumption DEF Procs, initproc

\* userinit's table satisfies the invariant.
LEMMA InitIInv == Init => IInv
  <1> SUFFICES ASSUME Init PROVE IInv
    OBVIOUS
  <1>1. TypeOK
    BY Slots, NprocAssumption, PidAssumption DEF Init, TypeOK, procstate
  <1>2. OnCpu /\ Embryos /\ Pids /\ ParentAlive /\ WaiterHasNoZombie
    BY Slots DEF Init, OnCpu, Embryos, InFork, Pids, ParentAlive, Live,
                 WaiterHasNoZombie, Zombies, Children
  <1> QED
    BY <1>1, <1>2 DEF IInv


\* schedule keeps the invariant.
LEMMA ScheduleStep ==
  ASSUME IInv, NEW c \in CPUs, schedule(c)
  PROVE  IInv'
  <1> USE Slots DEF schedule, idVars
  <1>1. TypeOK'
    BY NprocAssumption DEF IInv, TypeOK, procstate
  <1>2. OnCpu'
    BY DEF IInv, OnCpu
  <1>3. Embryos'
    BY DEF IInv, Embryos, InFork
  <1>4. Pids'
    BY DEF IInv, Pids
  <1>5. ParentAlive'
    BY DEF IInv, ParentAlive, Live
  <1>6. WaiterHasNoZombie'
    BY DEF IInv, WaiterHasNoZombie, Zombies, Children
  <1> QED
    BY <1>1, <1>2, <1>3, <1>4, <1>5, <1>6 DEF IInv

\* endScan keeps the invariant.
LEMMA EndScanStep ==
  ASSUME IInv, NEW c \in CPUs, endScan(c)
  PROVE  IInv'
  <1> USE Slots DEF endScan, idVars
  <1>1. TypeOK'
    BY NprocAssumption DEF IInv, TypeOK, procstate
  <1>2. OnCpu'
    BY DEF IInv, OnCpu
  <1>3. Embryos'
    BY DEF IInv, Embryos, InFork
  <1>4. Pids'
    BY DEF IInv, Pids
  <1>5. ParentAlive'
    BY DEF IInv, ParentAlive, Live
  <1>6. WaiterHasNoZombie'
    BY DEF IInv, WaiterHasNoZombie, Zombies, Children
  <1> QED
    BY <1>1, <1>2, <1>3, <1>4, <1>5, <1>6 DEF IInv

\* swtch keeps the invariant.
LEMMA SwtchStep ==
  ASSUME IInv, NEW c \in CPUs, NEW p \in Procs, swtch(c, p)
  PROVE  IInv'
  <1> USE Slots DEF swtch, idVars, after, Runnable
  <1>1. TypeOK'
    BY NprocAssumption DEF IInv, TypeOK, procstate
  <1>2. OnCpu'
    BY <1>1 DEF IInv, TypeOK, OnCpu
  <1>3. Embryos'
    BY <1>1 DEF IInv, TypeOK, Embryos, InFork
  <1>4. Pids'
    BY <1>1 DEF IInv, TypeOK, Pids
  <1>5. ParentAlive'
    BY <1>1 DEF IInv, TypeOK, ParentAlive, Live
  <1>6. WaiterHasNoZombie'
    BY <1>1 DEF IInv, TypeOK, WaiterHasNoZombie, Zombies, Children
  <1> QED
    BY <1>1, <1>2, <1>3, <1>4, <1>5, <1>6 DEF IInv

\* yield keeps the invariant.
LEMMA YieldStep ==
  ASSUME IInv, NEW c \in CPUs, NEW p \in Procs, yield(c, p)
  PROVE  IInv'
  <1> USE Slots DEF yield, sched, idVars, acquire, Executing
  <1>a. cpuproc[c] = p /\ state[p] = "RUNNING"
    BY DEF IInv, OnCpu
  <1>1. TypeOK'
    BY <1>a, NprocAssumption DEF IInv, TypeOK, procstate
  <1>2. OnCpu'
    BY <1>a, <1>1 DEF IInv, TypeOK, OnCpu
  <1>3. Embryos'
    BY <1>a, <1>1 DEF IInv, TypeOK, Embryos, InFork
  <1>4. Pids'
    BY <1>a, <1>1 DEF IInv, TypeOK, Pids
  <1>5. ParentAlive'
    BY <1>a, <1>1 DEF IInv, TypeOK, ParentAlive, Live
  <1>6. WaiterHasNoZombie'
    BY <1>a, <1>1 DEF IInv, TypeOK, WaiterHasNoZombie, Zombies, Children
  <1> QED
    BY <1>1, <1>2, <1>3, <1>4, <1>5, <1>6 DEF IInv

\* trapret keeps the invariant.
LEMMA TrapretStep ==
  ASSUME IInv, NEW c \in CPUs, NEW p \in Procs, trapret(c, p)
  PROVE  IInv'
  <1> USE Slots DEF trapret, idVars, cpuVars, Executing
  <1>a. cpuproc[c] = p /\ state[p] = "RUNNING"
    BY DEF IInv, OnCpu
  <1>1. TypeOK'
    BY <1>a, NprocAssumption DEF IInv, TypeOK, procstate
  <1>2. OnCpu'
    BY DEF IInv, OnCpu
  <1>3. Embryos'
    BY <1>a, <1>1 DEF IInv, TypeOK, Embryos, InFork
  <1>4. Pids'
    BY DEF IInv, Pids
  <1>5. ParentAlive'
    BY DEF IInv, ParentAlive, Live
  <1>6. WaiterHasNoZombie'
    BY DEF IInv, WaiterHasNoZombie, Zombies, Children
  <1> QED
    BY <1>1, <1>2, <1>3, <1>4, <1>5, <1>6 DEF IInv

\* exit keeps the invariant.
LEMMA ExitStep ==
  ASSUME IInv, NEW c \in CPUs, NEW p \in Procs, exit(c, p)
  PROVE  IInv'
  <1> USE Slots DEF exit, exits, sched, acquire, Executing, passed, woken, wakeup1
  <1>a. cpuproc[c] = p /\ state[p] = "RUNNING"
    BY DEF IInv, OnCpu
  <1>1. TypeOK'
    BY <1>a, NprocAssumption DEF IInv, TypeOK, procstate
  <1>2. OnCpu'
    BY <1>a, <1>1 DEF IInv, TypeOK, OnCpu
  <1>3. Embryos'
    BY <1>a, <1>1 DEF IInv, TypeOK, Embryos, InFork
  <1>4. Pids'
    BY <1>a, <1>1 DEF IInv, TypeOK, Pids
  <1>5. ParentAlive'
    BY ZenonT(30), <1>a, <1>1 DEF IInv, TypeOK, ParentAlive, Live
  <1>6. WaiterHasNoZombie'
    <2> SUFFICES ASSUME NEW r \in Procs, state'[r] = "SLEEPING", chan'[r] = r,
                        NEW q \in Procs, parent'[q] = r, state'[q] = "ZOMBIE"
                 PROVE  FALSE
      BY DEF WaiterHasNoZombie, Zombies, Children
    <2>1. state[r] = "SLEEPING" /\ chan[r] = r /\ r # parent[p] /\ Zombies(r) = {}
      BY <1>a DEF IInv, TypeOK, WaiterHasNoZombie
    <2>2. CASE q = p
      BY <1>a, <2>1, <2>2 DEF IInv, TypeOK, ParentAlive
    <2>3. CASE q # p
      <3>1. state[q] = "ZOMBIE"
        BY <2>3 DEF IInv, TypeOK
      <3>2. CASE parent[q] = p
        <4>1. Zombies(p) # {} /\ r = initproc
          BY <3>1, <3>2 DEF Zombies, Children
        <4> QED
          BY <4>1, <2>1 DEF IInv, TypeOK
      <3>3. CASE parent[q] # p
        BY <3>1, <3>3, <2>1 DEF Zombies, Children
      <3> QED
        BY <3>2, <3>3
    <2> QED
      BY <2>2, <2>3
  <1> QED
    BY <1>1, <1>2, <1>3, <1>4, <1>5, <1>6 DEF IInv

\* allocproc keeps the invariant.
LEMMA AllocprocStep ==
  ASSUME IInv, NEW c \in CPUs, NEW p \in Procs, allocproc(c, p)
  PROVE  IInv'
  <1> USE Slots DEF allocproc, cpuVars, acquire, Executing
  <1>a. cpuproc[c] = p /\ state[p] = "RUNNING"
    BY DEF IInv, OnCpu
  <1>1. TypeOK'
    BY <1>a, NprocAssumption, PidAssumption DEF IInv, TypeOK, procstate
  <1>2. OnCpu'
    BY <1>a, <1>1 DEF IInv, TypeOK, OnCpu
  <1>3. Embryos'
    BY <1>a, <1>1 DEF IInv, TypeOK, Embryos, InFork
  <1>4. Pids'
    BY <1>a, <1>1 DEF IInv, TypeOK, Pids
  <1>5. ParentAlive'
    BY <1>a, <1>1 DEF IInv, TypeOK, ParentAlive, Live
  <1>6. WaiterHasNoZombie'
    BY <1>a, <1>1 DEF IInv, TypeOK, WaiterHasNoZombie, Zombies, Children
  <1> QED
    BY <1>1, <1>2, <1>3, <1>4, <1>5, <1>6 DEF IInv

\* forkFails keeps the invariant.
LEMMA ForkFailsStep ==
  ASSUME IInv, NEW c \in CPUs, NEW p \in Procs, forkFails(c, p)
  PROVE  IInv'
  <1> USE Slots DEF forkFails, idVars, cpuVars, Executing
  <1>a. cpuproc[c] = p /\ state[p] = "RUNNING"
    BY DEF IInv, OnCpu
  <1>b. InFork(p) /\ np[p] \in Procs /\ state[np[p]] = "EMBRYO" /\ np[p] # p
    BY <1>a DEF IInv, Embryos, InFork
  <1>1. TypeOK'
    BY <1>a, <1>b, NprocAssumption DEF IInv, TypeOK, procstate
  <1>2. OnCpu'
    BY <1>a, <1>b, <1>1 DEF IInv, TypeOK, OnCpu
  <1>3. Embryos'
    BY <1>a, <1>b, <1>1 DEF IInv, TypeOK, Embryos, InFork
  <1>4. Pids'
    BY <1>a, <1>b, <1>1 DEF IInv, TypeOK, Pids
  <1>5. ParentAlive'
    BY <1>a, <1>b, <1>1 DEF IInv, TypeOK, ParentAlive, Live
  <1>6. WaiterHasNoZombie'
    BY <1>a, <1>b, <1>1 DEF IInv, TypeOK, WaiterHasNoZombie, Zombies, Children
  <1> QED
    BY <1>1, <1>2, <1>3, <1>4, <1>5, <1>6 DEF IInv

\* copyproc keeps the invariant.
LEMMA CopyprocStep ==
  ASSUME IInv, NEW c \in CPUs, NEW p \in Procs, copyproc(c, p)
  PROVE  IInv'
  <1> USE Slots DEF copyproc, cpuVars, Executing
  <1>a. cpuproc[c] = p /\ state[p] = "RUNNING"
    BY DEF IInv, OnCpu
  <1>b. InFork(p) /\ np[p] \in Procs /\ state[np[p]] = "EMBRYO" /\ np[p] # p
    BY <1>a DEF IInv, Embryos, InFork
  <1>1. TypeOK'
    BY <1>a, <1>b, NprocAssumption DEF IInv, TypeOK, procstate
  <1>2. OnCpu'
    BY DEF IInv, OnCpu
  <1>3. Embryos'
    BY <1>a, <1>b, <1>1 DEF IInv, TypeOK, Embryos, InFork
  <1>4. Pids'
    BY DEF IInv, Pids
  <1>5. ParentAlive'
    BY <1>a, <1>b, <1>1 DEF IInv, TypeOK, ParentAlive, Live
  <1>6. WaiterHasNoZombie'
    BY <1>a, <1>b, <1>1 DEF IInv, TypeOK, WaiterHasNoZombie, Zombies, Children
  <1> QED
    BY <1>1, <1>2, <1>3, <1>4, <1>5, <1>6 DEF IInv

\* fork keeps the invariant.
LEMMA ForkStep ==
  ASSUME IInv, NEW c \in CPUs, NEW p \in Procs, fork(c, p)
  PROVE  IInv'
  <1> USE Slots DEF fork, idVars, cpuVars, acquire, Executing
  <1>a. cpuproc[c] = p /\ state[p] = "RUNNING"
    BY DEF IInv, OnCpu
  <1>b. InFork(p) /\ np[p] \in Procs /\ state[np[p]] = "EMBRYO" /\ np[p] # p
         /\ parent[np[p]] = p
    BY <1>a DEF IInv, Embryos, InFork
  <1>1. TypeOK'
    BY <1>a, <1>b, NprocAssumption DEF IInv, TypeOK, procstate
  <1>2. OnCpu'
    BY <1>a, <1>b, <1>1 DEF IInv, TypeOK, OnCpu
  <1>3. Embryos'
    BY <1>a, <1>b, <1>1 DEF IInv, TypeOK, Embryos, InFork
  <1>4. Pids'
    BY <1>a, <1>b, <1>1 DEF IInv, TypeOK, Pids
  <1>5. ParentAlive'
    BY <1>a, <1>b, <1>1 DEF IInv, TypeOK, ParentAlive, Live
  <1>6. WaiterHasNoZombie'
    BY <1>a, <1>b, <1>1 DEF IInv, TypeOK, WaiterHasNoZombie, Zombies, Children
  <1> QED
    BY <1>1, <1>2, <1>3, <1>4, <1>5, <1>6 DEF IInv

\* waitFails keeps the invariant.
LEMMA WaitFailsStep ==
  ASSUME IInv, NEW c \in CPUs, NEW p \in Procs, waitFails(c, p)
  PROVE  IInv'
  <1> USE Slots DEF waitFails, idVars, inWait, acquire, Executing
  <1>a. cpuproc[c] = p /\ state[p] = "RUNNING"
    BY DEF IInv, OnCpu
  <1>1. TypeOK'
    BY <1>a, NprocAssumption DEF IInv, TypeOK, procstate
  <1>2. OnCpu'
    BY DEF IInv, OnCpu
  <1>3. Embryos'
    BY <1>a, <1>1 DEF IInv, TypeOK, Embryos, InFork
  <1>4. Pids'
    BY DEF IInv, Pids
  <1>5. ParentAlive'
    BY DEF IInv, ParentAlive, Live
  <1>6. WaiterHasNoZombie'
    BY DEF IInv, WaiterHasNoZombie, Zombies, Children
  <1> QED
    BY <1>1, <1>2, <1>3, <1>4, <1>5, <1>6 DEF IInv

\* waitSleep keeps the invariant.
LEMMA WaitSleepStep ==
  ASSUME IInv, NEW c \in CPUs, NEW p \in Procs, waitSleep(c, p)
  PROVE  IInv'
  <1> USE Slots DEF waitSleep, sched, idVars, inWait, acquire, Executing
  <1>a. cpuproc[c] = p /\ state[p] = "RUNNING"
    BY DEF IInv, OnCpu
  <1>1. TypeOK'
    BY <1>a, NprocAssumption DEF IInv, TypeOK, procstate
  <1>2. OnCpu'
    BY <1>a, <1>1 DEF IInv, TypeOK, OnCpu
  <1>3. Embryos'
    BY <1>a, <1>1 DEF IInv, TypeOK, Embryos, InFork
  <1>4. Pids'
    BY <1>a, <1>1 DEF IInv, TypeOK, Pids
  <1>5. ParentAlive'
    BY <1>a, <1>1 DEF IInv, TypeOK, ParentAlive, Live
  <1>6. WaiterHasNoZombie'
    BY <1>a, <1>1, ChanAssumption DEF IInv, TypeOK, WaiterHasNoZombie, Zombies, Children
  <1> QED
    BY <1>1, <1>2, <1>3, <1>4, <1>5, <1>6 DEF IInv

\* waitReap keeps the invariant.
LEMMA WaitReapStep ==
  ASSUME IInv, NEW c \in CPUs, NEW p \in Procs, NEW q \in Procs, waitReap(c, p, q)
  PROVE  IInv'
  <1> USE Slots DEF waitReap, inWait, acquire, Executing
  <1>a. cpuproc[c] = p /\ state[p] = "RUNNING"
    BY DEF IInv, OnCpu
  <1>b. state[q] = "ZOMBIE" /\ q # p
    BY <1>a DEF Zombies, Children
  <1>1. TypeOK'
    BY <1>a, NprocAssumption, PidAssumption DEF IInv, TypeOK, procstate
  <1>2. OnCpu'
    BY <1>a, <1>b, <1>1 DEF IInv, TypeOK, OnCpu
  <1>3. Embryos'
    BY <1>a, <1>b, <1>1 DEF IInv, TypeOK, Embryos, InFork
  <1>4. Pids'
    BY <1>a, <1>b, <1>1 DEF IInv, TypeOK, Pids
  <1>5. ParentAlive'
    BY <1>a, <1>b, <1>1 DEF IInv, TypeOK, ParentAlive, Live
  <1>6. WaiterHasNoZombie'
    BY <1>a, <1>b, <1>1 DEF IInv, TypeOK, WaiterHasNoZombie, Zombies, Children
  <1> QED
    BY <1>1, <1>2, <1>3, <1>4, <1>5, <1>6 DEF IInv

\* sleep keeps the invariant.
LEMMA SleepStep ==
  ASSUME IInv, NEW c \in CPUs, NEW p \in Procs, NEW ch \in Chans, sleep(c, p, ch)
  PROVE  IInv'
  <1> USE Slots DEF sleep, sched, idVars, acquire, Executing
  <1>a. cpuproc[c] = p /\ state[p] = "RUNNING"
    BY DEF IInv, OnCpu
  <1>1. TypeOK'
    BY <1>a, NprocAssumption DEF IInv, TypeOK, procstate
  <1>2. OnCpu'
    BY <1>a, <1>1 DEF IInv, TypeOK, OnCpu
  <1>3. Embryos'
    BY <1>a, <1>1 DEF IInv, TypeOK, Embryos, InFork
  <1>4. Pids'
    BY <1>a, <1>1 DEF IInv, TypeOK, Pids
  <1>5. ParentAlive'
    BY <1>a, <1>1 DEF IInv, TypeOK, ParentAlive, Live
  <1>6. WaiterHasNoZombie'
    BY <1>a, <1>1, ChanAssumption DEF IInv, TypeOK, WaiterHasNoZombie, Zombies, Children
  <1> QED
    BY <1>1, <1>2, <1>3, <1>4, <1>5, <1>6 DEF IInv

\* wakeup keeps the invariant.
LEMMA WakeupStep ==
  ASSUME IInv, NEW ch \in Chans, wakeup(ch)
  PROVE  IInv'
  <1> USE Slots DEF wakeup, wakeup1, idVars, cpuVars
  <1>1. TypeOK'
    BY NprocAssumption DEF IInv, TypeOK, procstate
  <1>2. OnCpu'
    BY <1>1 DEF IInv, TypeOK, OnCpu
  <1>3. Embryos'
    BY <1>1 DEF IInv, TypeOK, Embryos, InFork
  <1>4. Pids'
    BY <1>1 DEF IInv, TypeOK, Pids
  <1>5. ParentAlive'
    BY <1>1 DEF IInv, TypeOK, ParentAlive, Live
  <1>6. WaiterHasNoZombie'
    BY <1>1, ChanAssumption DEF IInv, TypeOK, WaiterHasNoZombie, Zombies, Children
  <1> QED
    BY <1>1, <1>2, <1>3, <1>4, <1>5, <1>6 DEF IInv

\* The panic of exit keeps the invariant.
LEMMA ExitInitStep ==
  ASSUME IInv, NEW c \in CPUs, exitInit(c)
  PROVE  IInv'
  <1> USE Slots DEF exitInit, exits, idVars, cpuVars
  <1>1. TypeOK'
    BY DEF IInv, TypeOK
  <1>2. OnCpu' /\ Pids' /\ ParentAlive'
    BY DEF IInv, OnCpu, Pids, ParentAlive
  <1>3. Embryos'
    BY DEF IInv, TypeOK, Embryos, InFork
  <1>4. WaiterHasNoZombie'
    BY DEF IInv, WaiterHasNoZombie, Zombies, Children
  <1> QED
    BY <1>1, <1>2, <1>3, <1>4 DEF IInv

\* kill keeps the invariant.
LEMMA KillStep ==
  ASSUME IInv, NEW c \in CPUs, NEW p \in Procs, NEW n \in KillPids, kill(c, p, n)
  PROVE  IInv'
  <1> USE Slots DEF kill, cpuVars, acquire, Executing
  <1>a. cpuproc[c] = p /\ state[p] = "RUNNING"
    BY DEF IInv, OnCpu
  <1>1. TypeOK'
    BY <1>a, NprocAssumption DEF IInv, TypeOK, procstate
  <1>2. OnCpu'
    BY <1>a, <1>1 DEF IInv, TypeOK, OnCpu
  <1>3. Embryos'
    BY <1>a, <1>1 DEF IInv, TypeOK, Embryos, InFork
  <1>4. Pids'
    BY <1>a, <1>1 DEF IInv, TypeOK, Pids
  <1>5. ParentAlive'
    BY <1>a, <1>1 DEF IInv, TypeOK, ParentAlive, Live
  <1>6. WaiterHasNoZombie'
    BY <1>a, <1>1 DEF IInv, TypeOK, WaiterHasNoZombie, Zombies, Children
  <1> QED
    BY <1>1, <1>2, <1>3, <1>4, <1>5, <1>6 DEF IInv

\* Every step of every CPU keeps the invariant.
LEMMA NextStep == IInv /\ [Next]_vars => IInv'
  <1> SUFFICES ASSUME IInv, [Next]_vars PROVE IInv'
    OBVIOUS
  <1>1. CASE UNCHANGED vars
    BY SMTT(30), <1>1 DEF vars, idVars, cpuVars, IInv, TypeOK, OnCpu, Embryos, InFork, Pids, ParentAlive,
                WaiterHasNoZombie, Zombies, Children
  <1>2. ASSUME NEW c \in CPUs, scheduler(c) \/ exitInit(c) PROVE IInv'
    BY <1>2, ScheduleStep, EndScanStep, SwtchStep, ExitInitStep DEF scheduler
  <1>3. ASSUME NEW c \in CPUs, NEW p \in Procs,
               \/ yield(c, p) \/ trapret(c, p) \/ exit(c, p)
               \/ allocproc(c, p) \/ forkFails(c, p) \/ copyproc(c, p) \/ fork(c, p)
               \/ waitFails(c, p) \/ waitSleep(c, p)
        PROVE  IInv'
    BY <1>3, YieldStep, TrapretStep, ExitStep, AllocprocStep, ForkFailsStep, CopyprocStep,
       ForkStep, WaitFailsStep, WaitSleepStep
  <1>4. ASSUME NEW c \in CPUs, NEW p \in Procs,
               \/ \E q \in Procs : waitReap(c, p, q)
               \/ \E ch \in Chans : sleep(c, p, ch)
               \/ \E n \in KillPids : kill(c, p, n)
        PROVE  IInv'
    BY <1>4, WaitReapStep, SleepStep, KillStep
  <1>5. ASSUME NEW ch \in Chans, wakeup(ch) PROVE IInv'
    BY <1>5, WakeupStep
  <1> QED
    BY <1>1, <1>2, <1>3, <1>4, <1>5 DEF Next

\* The invariant holds in every execution.
THEOREM ArrayInvariant == Spec => []IInv
  BY InitIInv, NextStep, PTL DEF Spec

\* The parent of a process is alive in every state: exit leaves no orphan.
THEOREM NoOrphans == Spec => []ParentAlive
  BY ArrayInvariant, PTL DEF IInv

\* No parent sleeps in wait over a zombie child, whichever processes exit.
THEOREM NoSleepOverZombie == Spec => []WaiterHasNoZombie
  BY ArrayInvariant, PTL DEF IInv

(***************************************************************************)
(* The refinement.  A step of ProcArray is a step of ProcLife (fork, exit, *)
(* waitReap) or leaves the tree of processes as it is.                     *)
(***************************************************************************)
Same == life' = life /\ visible(parent)' = visible(parent) /\ visible(pid)' = visible(pid)

\* The tree does not change when live processes stay live and free slots free.
LEMMA SameTree ==
  ASSUME \A r \in Procs : \/ state'[r] = state[r]
                          \/ state[r] \in Live /\ state'[r] \in Live
                          \/ state[r] \in {"UNUSED", "EMBRYO"} /\ state'[r] \in {"UNUSED", "EMBRYO"},
         \A r \in Procs : state[r] \notin {"UNUSED", "EMBRYO"} =>
                            parent'[r] = parent[r] /\ pid'[r] = pid[r]
  PROVE  Same
  <1>1. life' = life
    BY DEF life, Live
  <1>2. \A r \in Procs : life[r] # "free" => parent'[r] = parent[r] /\ pid'[r] = pid[r]
    BY DEF life
  <1> QED
    BY <1>1, <1>2 DEF Same, visible

\* Steps of the scheduler, and of processes that neither fork, exit nor reap.
LEMMA SchedulerSame ==
  ASSUME IInv, NEW c \in CPUs, scheduler(c)
  PROVE  Same
  <1>1. CASE schedule(c)
    BY <1>1, SameTree DEF schedule, idVars
  <1>2. CASE endScan(c)
    BY <1>2, SameTree DEF endScan, idVars
  <1>3. ASSUME NEW p \in Procs, swtch(c, p) PROVE Same
    BY <1>3, SameTree DEF swtch, idVars, Runnable, IInv, TypeOK, Live
  <1> QED
    BY <1>1, <1>2, <1>3 DEF scheduler

\* Yielding, returning, sleeping and waking up others leave the tree as it is.
LEMMA RunningSame ==
  ASSUME IInv, NEW c \in CPUs, NEW p \in Procs,
         yield(c, p) \/ trapret(c, p) \/ waitFails(c, p) \/ waitSleep(c, p)
           \/ \E ch \in Chans : sleep(c, p, ch)
  PROVE  Same
  <1>1. CASE trapret(c, p) \/ waitFails(c, p)
    BY <1>1, SameTree DEF trapret, waitFails, idVars
  <1>2. CASE yield(c, p) \/ waitSleep(c, p) \/ \E ch \in Chans : sleep(c, p, ch)
    <2>1. state[p] = "RUNNING"
      BY <1>2, Slots DEF yield, waitSleep, sleep, inWait, acquire, Executing, IInv, OnCpu
    <2> QED
      BY <1>2, <2>1, SameTree DEF yield, waitSleep, sleep, idVars, IInv, TypeOK, Live
  <1> QED
    BY <1>1, <1>2

LEMMA WakeupSame ==
  ASSUME IInv, NEW ch \in Chans, wakeup(ch)
  PROVE  Same
  BY SameTree DEF wakeup, wakeup1, idVars, IInv, TypeOK, Live

\* So do the parts of fork before the child is runnable, and kill.
LEMMA OthersSame ==
  ASSUME IInv, NEW c \in CPUs, NEW p \in Procs,
         allocproc(c, p) \/ forkFails(c, p) \/ copyproc(c, p)
           \/ \E n \in KillPids : kill(c, p, n)
  PROVE  Same
  <1>1. CASE allocproc(c, p)
    BY <1>1, SameTree DEF allocproc, IInv, TypeOK, Live
  <1>2. CASE forkFails(c, p)
    BY <1>2, SameTree DEF forkFails, idVars, IInv, TypeOK, Live, Embryos, InFork
  <1>3. CASE copyproc(c, p)
    BY <1>3, SameTree DEF copyproc, IInv, TypeOK, Live, Embryos, InFork
  <1>4. ASSUME NEW n \in KillPids, kill(c, p, n) PROVE Same
    BY <1>4, SameTree DEF kill, IInv, TypeOK, Live
  <1> QED
    BY <1>1, <1>2, <1>3, <1>4

\* fork makes the embryo a child of p with a pid that no process has.
LEMMA ForkRefines ==
  ASSUME IInv, NEW c \in CPUs, NEW p \in Procs, fork(c, p)
  PROVE  \E q \in Procs, n \in 1 .. MAXPID - 1 : L!Fork(p, q, n)
  <1>1. cpuproc[c] = p /\ state[p] = "RUNNING"
    BY Slots DEF IInv, OnCpu, fork, acquire, Executing
  <1>2. np[p] \in Procs /\ state[np[p]] = "EMBRYO" /\ parent[np[p]] = p /\ np[p] # p
    BY <1>1 DEF IInv, Embryos, InFork, fork
  <1>3. pid[np[p]] \in 1 .. MAXPID - 1
    BY <1>2, PidAssumption DEF IInv, TypeOK, Pids
  <1>4. life[p] = "live" /\ life[np[p]] = "free"
    BY <1>1, <1>2 DEF life
  <1>5. \A q \in Procs : life[q] # "free" => visible(pid)[q] # pid[np[p]]
    BY <1>2 DEF life, visible, IInv, Pids
  <1>6. life' = [life EXCEPT ![np[p]] = "live"]
    BY ZenonT(30), <1>2 DEF life, fork, IInv, TypeOK
  <1>7. visible(parent)' = [visible(parent) EXCEPT ![np[p]] = p]
    BY ZenonT(30), <1>2, <1>6, <1>4 DEF visible, fork, idVars, life
  <1>8. visible(pid)' = [visible(pid) EXCEPT ![np[p]] = pid[np[p]]]
    BY ZenonT(30), <1>2, <1>6, <1>4 DEF visible, fork, idVars, life
  <1> QED
    BY ZenonT(30), <1>2, <1>3, <1>4, <1>5, <1>6, <1>7, <1>8 DEF L!Fork

\* exit turns p into a zombie and gives its children to init.
LEMMA ExitRefines ==
  ASSUME IInv, NEW c \in CPUs, NEW p \in Procs, exit(c, p)
  PROVE  L!Exit(p)
  <1>1. cpuproc[c] = p /\ state[p] = "RUNNING"
    BY Slots DEF IInv, OnCpu, exit, acquire, Executing
  <1>2. \A r \in Procs : state'[r] = IF r = p THEN "ZOMBIE" ELSE woken(p)[r]
    BY DEF exit, woken, wakeup1
  <1>3. \A r \in Procs : woken(p)[r] = state[r] \/ (state[r] \in Live /\ woken(p)[r] \in Live)
    BY DEF woken, wakeup1, Live
  <1>4. p # initproc /\ life[p] = "live"
    BY <1>1 DEF life, exit
  <1>5. life' = [life EXCEPT ![p] = "dead"]
    BY ZenonT(30), <1>2, <1>3 DEF life, Live
  <1>6. \A r \in Procs : life'[r] = "free" <=> life[r] = "free"
    BY ZenonT(30), <1>4, <1>5 DEF life
  <1>7. visible(parent)' = [q \in Procs |-> IF visible(parent)[q] = p THEN initproc
                                            ELSE visible(parent)[q]]
    BY <1>6, Slots DEF visible, exit, passed
  <1>8. visible(pid)' = visible(pid)
    BY <1>6 DEF visible, exit
  <1> QED
    BY <1>4, <1>5, <1>7, <1>8 DEF L!Exit

\* wait frees a zombie child of p.
LEMMA WaitRefines ==
  ASSUME IInv, NEW c \in CPUs, NEW p \in Procs, NEW q \in Procs, waitReap(c, p, q)
  PROVE  L!Wait(p, q)
  <1>1. state[p] = "RUNNING"
    BY Slots DEF IInv, OnCpu, waitReap, inWait, acquire, Executing
  <1>2. state[q] = "ZOMBIE" /\ parent[q] = p
    BY DEF waitReap, Zombies, Children
  <1>3. life[p] = "live" /\ life[q] = "dead" /\ visible(parent)[q] = p
    BY <1>1, <1>2 DEF life, visible
  <1>4. life' = [life EXCEPT ![q] = "free"]
    BY ZenonT(30) DEF life, waitReap, IInv, TypeOK
  <1>5. visible(parent)' = [visible(parent) EXCEPT ![q] = 0]
    BY ZenonT(30), <1>4 DEF visible, waitReap, IInv, TypeOK, life
  <1>6. visible(pid)' = [visible(pid) EXCEPT ![q] = 0]
    BY ZenonT(30), <1>4 DEF visible, waitReap, IInv, TypeOK, life
  <1> QED
    BY <1>3, <1>4, <1>5, <1>6 DEF L!Wait

\* Every step of the table is a step of the tree of processes, or none.
LEMMA StepRefines == IInv /\ [Next]_vars => [L!Next]_L!vars
  <1> SUFFICES ASSUME IInv, [Next]_vars PROVE L!Next \/ Same
    BY DEF Same, L!vars
  <1>1. CASE UNCHANGED vars
    BY <1>1, SameTree DEF vars, idVars
  <1>2. ASSUME NEW c \in CPUs, scheduler(c) \/ exitInit(c) PROVE Same
    BY <1>2, SchedulerSame, SameTree DEF exitInit, idVars
  <1>3. ASSUME NEW c \in CPUs, NEW p \in Procs,
               exit(c, p) \/ fork(c, p) \/ \E q \in Procs : waitReap(c, p, q)
        PROVE  L!Next
    BY <1>3, ExitRefines, ForkRefines, WaitRefines DEF L!Next
  <1>4. ASSUME NEW c \in CPUs, NEW p \in Procs,
               \/ yield(c, p) \/ trapret(c, p) \/ waitFails(c, p) \/ waitSleep(c, p)
               \/ \E ch \in Chans : sleep(c, p, ch)
        PROVE  Same
    BY <1>4, RunningSame
  <1>5. ASSUME NEW c \in CPUs, NEW p \in Procs,
               \/ allocproc(c, p) \/ forkFails(c, p) \/ copyproc(c, p)
               \/ \E n \in KillPids : kill(c, p, n)
        PROVE  Same
    BY <1>5, OthersSame
  <1>6. ASSUME NEW ch \in Chans, wakeup(ch) PROVE Same
    BY <1>6, WakeupSame
  <1> QED
    BY <1>1, <1>2, <1>3, <1>4, <1>5, <1>6 DEF Next

\* The first process is the whole tree.
LEMMA InitRefines == Init => L!Init
  BY Slots DEF Init, L!Init, life, visible

\* The array of processes implements the tree of ProcLife: fork, exit and wait of
\* any number of processes on any number of CPUs.
THEOREM ArrayRefinesLife == Spec => LifeSpec
  BY ArrayInvariant, InitRefines, StepRefines, PTL DEF Spec, LifeSpec, L!Spec

=============================================================================
