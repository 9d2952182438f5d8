------------------------------ MODULE ProcTable ------------------------------
(***************************************************************************)
(* Processes and scheduling (proc.c with CS333_P3P4, the traps that drive  *)
(* it in trap.c, and the system calls of sysproc.c that reach it).         *)
(*                                                                         *)
(* Every action is one critical section of ptable.lock, or a step that     *)
(* needs no lock.  The lock is held from one action to the next in one     *)
(* place only: scheduler() switches to a process while holding it, and the *)
(* process releases it when it resumes (resume), or rescans for zombie     *)
(* children still holding it (wait).                                       *)
(***************************************************************************)
EXTENDS StateLists

CONSTANTS CPUs,               \* the processors
          BootCpu,            \* the one whose clock drives ticks (cpu->id == 0)
          NoCPU,              \* value of lock when ptable.lock is free
          Chans,              \* sleep channels other than process slots
          TicksChan,          \* the channel &ticks
          MAX_BUDGET,         \* ticks a process may use before it is demoted
          TICKS_TO_PROMOTE,   \* ticks between two promotions
          MAXPID,             \* bound: processes are created while nextpid is below it
          KillPids,           \* pids that programs pass to kill
          SetPrios            \* priorities that programs pass to setpriority

ASSUME CpuAssumption == BootCpu \in CPUs /\ NoCPU \notin CPUs
ASSUME ChanAssumption == TicksChan \in Chans /\ Chans \cap (0..NPROC) = {}
ASSUME BudgetAssumption == MAX_BUDGET \in Nat \ {0} /\ TICKS_TO_PROMOTE \in Nat \ {0}
ASSUME InputAssumption == /\ MAXPID \in Nat \ {0, 1}
                          /\ KillPids \subseteq Nat
                          /\ SetPrios \subseteq 0..MAXPRIO

VARIABLES list,       \* ptable.pLists
          state,      \* p->state
          pid,        \* p->pid, 0 when never set or reaped
          parent,     \* p->parent, a slot, or 0 for none
          chan,       \* p->chan, 0 when not asleep
          killed,     \* p->killed
          priority,   \* p->priority
          budget,     \* p->budget
          used,       \* per CPU: ticks - proc->cpu_ticks_in, capped at MAX_BUDGET
          nextpid,
          promoteIn,  \* PromoteAtTime - ticks, not below 0
          cpuproc,    \* per CPU: proc, or 0 while in scheduler()
          lock,       \* the CPU that holds ptable.lock across actions
          pc,         \* where a process is, or will be when it is switched to
          np,         \* the embryo a process in fork() is filling, or 0
          panic       \* per CPU: the panic it is stopped in

tableVars == <<list, state>>
prioVars == <<priority, budget>>
idVars == <<pid, parent, killed, nextpid>>
cpuVars == <<cpuproc, used, lock, panic>>
vars == <<list, state, pid, parent, chan, killed, priority, budget, used,
          nextpid, promoteIn, cpuproc, lock, pc, np, panic>>

initproc == 1
Panics == {"no", "changeState", "assertPrio", "init exiting"}
PCs == {"none", "forkret", "user", "kernel", "fork", "wait", "exit"}

\* Every field has its type.  In particular a priority stays within the ready
\* lists and a budget within MAX_BUDGET through all demotions and promotions.
TypeOK ==
    /\ list \in [ListIds -> Seq(Procs)]
    /\ state \in [Procs -> procstate]
    /\ pid \in [Procs -> 0..MAXPID]
    /\ parent \in [Procs -> 0..NPROC]
    /\ chan \in [Procs -> Chans \cup 0..NPROC]
    /\ killed \in [Procs -> BOOLEAN]
    /\ priority \in [Procs -> 0..MAXPRIO]
    /\ budget \in [Procs -> 0..MAX_BUDGET]
    /\ used \in [CPUs -> 0..MAX_BUDGET]
    /\ nextpid \in 1..MAXPID
    /\ promoteIn \in 0..TICKS_TO_PROMOTE
    /\ cpuproc \in [CPUs -> 0..NPROC]
    /\ lock \in CPUs \cup {NoCPU}
    /\ pc \in [Procs -> PCs]
    /\ np \in [Procs -> 0..NPROC]
    /\ panic \in [CPUs -> Panics]

(***************************************************************************)
(* userinit: the first process.  main() has then started the scheduler on  *)
(* every CPU.                                                              *)
(***************************************************************************)
Init ==
    /\ list = userinitTable.list
    /\ state = userinitTable.state
    /\ pid = [p \in Procs |-> IF p = initproc THEN 1 ELSE 0]
    /\ parent = [p \in Procs |-> 0]
    /\ chan = [p \in Procs |-> 0]
    /\ killed = [p \in Procs |-> FALSE]
    /\ priority = [p \in Procs |-> 0]
    /\ budget = [p \in Procs |-> IF p = initproc THEN MAX_BUDGET ELSE 0]
    /\ used = [c \in CPUs |-> 0]
    /\ nextpid = 2
    /\ promoteIn = TICKS_TO_PROMOTE
    /\ cpuproc = [c \in CPUs |-> 0]
    /\ lock = NoCPU
    /\ pc = [p \in Procs |-> IF p = initproc THEN "forkret" ELSE "none"]
    /\ np = [p \in Procs |-> 0]
    /\ panic = [c \in CPUs |-> "no"]

-----------------------------------------------------------------------------
(***************************************************************************)
(* Critical sections.                                                      *)
(***************************************************************************)
Table == [list |-> list, state |-> state, ok |-> TRUE]

\* CPU c can acquire ptable.lock.
acquire(c) == lock = NoCPU /\ panic[c] = "no"

\* CPU c, in process p, is executing; it holds no lock.
Executing(c, p) == cpuproc[c] = p /\ p # 0 /\ panic[c] = "no" /\ lock # c

(***************************************************************************)
(* End of a critical section that computed table pt.  A panic() inside it  *)
(* never releases the lock, so nobody sees the half-made update: the table *)
(* is left as it was.                                                      *)
(***************************************************************************)
release(c, pt) ==
    /\ list' = IF pt.ok THEN pt.list ELSE list
    /\ state' = IF pt.ok THEN pt.state ELSE state
    /\ lock' = IF pt.ok THEN NoCPU ELSE c
    /\ panic' = IF pt.ok THEN panic ELSE [panic EXCEPT ![c] = "changeState"]

\* Mutant: scheduler() does not reset proc when a process comes back.
sched_KeepProc(c, pt) == release(c, pt) /\ UNCHANGED <<cpuproc, used>>

\* sched(): the process leaves the CPU; scheduler() then releases the lock.
sched(c, pt) ==
    /\ release(c, pt)
    /\ cpuproc' = IF pt.ok THEN [cpuproc EXCEPT ![c] = 0] ELSE cpuproc
    /\ UNCHANGED used

\* panic(msg) while holding ptable.lock.
panicLocked(c, msg) ==
    /\ panic' = [panic EXCEPT ![c] = msg]
    /\ lock' = c
    /\ UNCHANGED <<list, state, pid, parent, chan, killed, priority, budget,
                   used, nextpid, promoteIn, cpuproc, pc, np>>

(***************************************************************************)
(* wakeup1: moves the first sleeper on ch to the ready list of its         *)
(* priority.  changeState clears its next pointer, which ends the loop:    *)
(* later sleepers on ch stay asleep.                                       *)
(***************************************************************************)
Sleepers(pt, ch) == {k \in 1..Len(pt.list[SleepList]) : chan[pt.list[SleepList][k]] = ch}

\* Mutant: the wakeup is lost.
wakeup1_Lost(pt, ch) == pt

wakeup1(pt, ch) ==
    IF Least(Sleepers(pt, ch)) = {} THEN pt
    ELSE LET p == pt.list[SleepList][CHOOSE k \in Least(Sleepers(pt, ch)) : TRUE]
         IN  changeState(pt, SleepList, ReadyList(priority[p]), p)

(***************************************************************************)
(* The end of a time slice, in yield and sleep: the ticks used are taken   *)
(* from the budget, and an exhausted budget is refilled one priority down. *)
(***************************************************************************)
left(c, p) == budget[p] - used[c]

chargedBudget(c, p) == IF left(c, p) <= 0 THEN MAX_BUDGET ELSE left(c, p)

chargedPriority(c, p) ==
    IF left(c, p) <= 0 /\ priority[p] < MAXPRIO THEN priority[p] + 1 ELSE priority[p]

charge(c, p) ==
    /\ budget' = [budget EXCEPT ![p] = chargedBudget(c, p)]
    /\ priority' = [priority EXCEPT ![p] = chargedPriority(c, p)]

-----------------------------------------------------------------------------
(***************************************************************************)
(* scheduler() and promoteProcs().                                         *)
(***************************************************************************)
Ready(i) == IF i <= MAXPRIO THEN list[ReadyList(i)] ELSE <<>>

\* promoteProcs moves each ready list, in order, to the end of the one above.
promotedList ==
    [l \in ListIds |->
        IF l[1] # "RUNNABLE" THEN list[l]
        ELSE IF l[2] = 0 THEN Ready(0) \o Ready(1) ELSE Ready(l[2] + 1)]

Promotable(p) == \/ state[p] \in {"SLEEPING", "RUNNING"}
                 \/ state[p] = "RUNNABLE" /\ p \notin Range(Ready(0))

\* Mutant: the process is moved but its priority is not changed.
promotedPriority_Kept == priority

promotedPriority ==
    [p \in Procs |-> IF Promotable(p) /\ priority[p] > 0 THEN priority[p] - 1 ELSE priority[p]]

promotedBudget == [p \in Procs |-> IF Promotable(p) THEN MAX_BUDGET ELSE budget[p]]

\* The assertPrio calls of promoteProcs.
promoteAsserts == \A i \in 1..MAXPRIO : \A p \in Range(Ready(i)) : priority[p] = i

\* Mutant: PromoteAtTime is moved on without promoting.
promoteProcs_Never == [list |-> list, priority |-> priority, budget |-> budget]

\* What scheduler() works on after its promotion check.
promoteProcs ==
    IF promoteIn = 0
    THEN [list |-> promotedList, priority |-> promotedPriority, budget |-> promotedBudget]
    ELSE [list |-> list, priority |-> priority, budget |-> budget]

NonEmpty(lst) == {i \in 0..MAXPRIO : lst[ReadyList(i)] # <<>>}

\* A pass of the scheduler loop that finds no process but promotes.
schedulerIdle(c) ==
    /\ acquire(c) /\ cpuproc[c] = 0
    /\ promoteIn = 0 /\ promoteAsserts /\ NonEmpty(list) = {}
    /\ list' = promoteProcs.list
    /\ priority' = promoteProcs.priority
    /\ budget' = promoteProcs.budget
    /\ promoteIn' = TICKS_TO_PROMOTE
    /\ UNCHANGED <<state, idVars, chan, cpuVars, pc, np>>

\* A pass that switches to a process, with the lock held.
dispatch(c, pt, p) ==
    IF pt.ok
    THEN /\ list' = pt.list
         /\ state' = pt.state
         /\ priority' = promoteProcs.priority
         /\ budget' = promoteProcs.budget
         /\ promoteIn' = IF promoteIn = 0 THEN TICKS_TO_PROMOTE ELSE promoteIn
         /\ cpuproc' = [cpuproc EXCEPT ![c] = p]
         /\ used' = [used EXCEPT ![c] = 0]
         /\ lock' = c
         /\ UNCHANGED <<idVars, chan, pc, np, panic>>
    ELSE panicLocked(c, "changeState")

scheduler(c) ==
    /\ acquire(c) /\ cpuproc[c] = 0
    /\ \E i \in Least(NonEmpty(promoteProcs.list)) :
          LET p == promoteProcs.list[ReadyList(i)][1]
              pt == changeState([list |-> promoteProcs.list, state |-> state, ok |-> TRUE],
                                ReadyList(i), RunningList, p)
          IN  IF (promoteIn = 0 => promoteAsserts) /\ promoteProcs.priority[p] = i
              THEN dispatch(c, pt, p)
              ELSE panicLocked(c, "assertPrio")

(***************************************************************************)
(* The process that was switched to runs on from forkret, yield or sleep,  *)
(* and releases the lock.  A process that yielded on its way back to user  *)
(* space checks killed again (trap.c); init never gets past exit().        *)
(***************************************************************************)
resume(c) ==
    LET p == cpuproc[c] IN
    /\ lock = c /\ panic[c] = "no" /\ pc[p] # "wait"
    /\ lock' = NoCPU
    /\ chan' = [chan EXCEPT ![p] = 0]
    /\ IF pc[p] = "user" /\ killed[p] /\ p = initproc
       THEN panic' = [panic EXCEPT ![c] = "init exiting"] /\ UNCHANGED pc
       ELSE /\ pc' = [pc EXCEPT ![p] =
                        IF @ = "forkret" THEN "user"
                        ELSE IF @ = "user" /\ killed[p] THEN "exit" ELSE @]
            /\ UNCHANGED panic
    /\ UNCHANGED <<tableVars, idVars, prioVars, used, promoteIn, cpuproc, np>>

-----------------------------------------------------------------------------
(***************************************************************************)
(* Traps (trap.c).                                                         *)
(***************************************************************************)
\* The clock interrupt of the boot CPU: atom_inc(&ticks), wakeup(&ticks).
timerTick ==
    /\ acquire(BootCpu)
    /\ promoteIn' = IF promoteIn = 0 THEN 0 ELSE promoteIn - 1
    /\ used' = [c \in CPUs |-> IF cpuproc[c] # 0 /\ used[c] < MAX_BUDGET
                               THEN used[c] + 1 ELSE used[c]]
    /\ release(BootCpu, wakeup1(Table, TicksChan))
    /\ UNCHANGED <<idVars, chan, prioVars, cpuproc, pc, np>>

\* A clock interrupt on a multiple of SCHED_INTERVAL gives up the CPU; a
\* killed process in user space exits first (interrupt below).
yield(c) ==
    \E p \in Procs :
        /\ Executing(c, p) /\ acquire(c)
        /\ ~ (pc[p] = "user" /\ killed[p])
        /\ charge(c, p)
        /\ sched(c, changeState(Table, RunningList, ReadyList(chargedPriority(c, p)), p))
        /\ UNCHANGED <<idVars, chan, promoteIn, pc, np>>

\* exit(), up to the point where it takes ptable.lock: init may not exit.
enterExit(c, p) ==
    /\ panic' = IF p = initproc THEN [panic EXCEPT ![c] = "init exiting"] ELSE panic
    /\ pc' = IF p = initproc THEN pc ELSE [pc EXCEPT ![p] = "exit"]

\* Mutant: the privilege level is tested for the wrong value.
interrupt_WrongLevel(c) ==
    \E p \in Procs :
        /\ Executing(c, p) /\ pc[p] = "kernel" /\ killed[p]
        /\ enterExit(c, p)
        /\ UNCHANGED <<tableVars, idVars, chan, prioVars, promoteIn, cpuproc, used, lock, np>>

\* Any interrupt taken in user space by a killed process.
interrupt(c) ==
    \E p \in Procs :
        /\ Executing(c, p) /\ pc[p] = "user" /\ killed[p]
        /\ enterExit(c, p)
        /\ UNCHANGED <<tableVars, idVars, chan, prioVars, promoteIn, cpuproc, used, lock, np>>

\* A fault in user space: the process is marked killed and exits.
fault(c) ==
    \E p \in Procs :
        /\ Executing(c, p) /\ pc[p] = "user"
        /\ killed' = [killed EXCEPT ![p] = TRUE]
        /\ enterExit(c, p)
        /\ UNCHANGED <<tableVars, pid, parent, nextpid, chan, prioVars, promoteIn,
                       cpuproc, used, lock, np>>

\* System call entry and return; both check killed.
syscallEnter(c) ==
    \E p \in Procs :
        /\ Executing(c, p) /\ pc[p] = "user" /\ ~ killed[p]
        /\ pc' = [pc EXCEPT ![p] = "kernel"]
        /\ UNCHANGED <<tableVars, idVars, chan, prioVars, promoteIn, cpuVars, np>>

syscallReturn(c) ==
    \E p \in Procs :
        /\ Executing(c, p) /\ pc[p] = "kernel"
        /\ IF killed[p]
           THEN enterExit(c, p)
           ELSE pc' = [pc EXCEPT ![p] = "user"] /\ UNCHANGED panic
        /\ UNCHANGED <<tableVars, idVars, chan, prioVars, promoteIn, cpuproc, used, lock, np>>

\* sys_exit.
sys_exit(c) ==
    \E p \in Procs :
        /\ Executing(c, p) /\ pc[p] = "kernel"
        /\ enterExit(c, p)
        /\ UNCHANGED <<tableVars, idVars, chan, prioVars, promoteIn, cpuproc, used, lock, np>>

-----------------------------------------------------------------------------
(***************************************************************************)
(* sleep and wakeup.  Their callers (pipes, buffers, log, console, files)  *)
(* are other components: a process in the kernel, also one closing its     *)
(* files in exit(), may sleep on any channel, and a wakeup may come from   *)
(* any CPU, from a process or from an interrupt handler.                   *)
(***************************************************************************)
goToSleep(c, p, ch) ==
    /\ chan' = [chan EXCEPT ![p] = ch]
    /\ charge(c, p)
    /\ sched(c, changeState(Table, RunningList, SleepList, p))

sleep(c, ch) ==
    \E p \in Procs :
        /\ Executing(c, p) /\ acquire(c) /\ pc[p] \in {"kernel", "exit"}
        /\ goToSleep(c, p, ch)
        /\ UNCHANGED <<idVars, promoteIn, pc, np>>

wakeup(c, ch) ==
    /\ acquire(c)
    /\ release(c, wakeup1(Table, ch))
    /\ UNCHANGED <<idVars, chan, prioVars, promoteIn, cpuproc, used, pc, np>>

-----------------------------------------------------------------------------
(***************************************************************************)
(* fork.  allocproc takes the first free slot and gives it a pid; it also  *)
(* resets priority and budget, which nobody reads before the slot leaves   *)
(* the embryo list.  An empty free list makes fork return -1 unchanged.    *)
(***************************************************************************)
newPid(q) == pid' = [pid EXCEPT ![q] = nextpid] /\ nextpid' = nextpid + 1

allocproc(c) ==
    \E p \in Procs :
        /\ Executing(c, p) /\ acquire(c) /\ pc[p] = "kernel"
        /\ list[FreeList] # <<>> /\ nextpid < MAXPID
        /\ LET q == list[FreeList][1] IN
           /\ release(c, changeState(Table, FreeList, EmbryoList, q))
           /\ newPid(q)
           /\ priority' = [priority EXCEPT ![q] = 0]
           /\ budget' = [budget EXCEPT ![q] = MAX_BUDGET]
           /\ pc' = [pc EXCEPT ![p] = "fork", ![q] = "forkret"]
           /\ np' = [np EXCEPT ![p] = q]
        /\ UNCHANGED <<parent, killed, chan, promoteIn, cpuproc, used>>

\* Mutant: fork fails without giving the embryo back.
forkFail_Leak(c) ==
    \E p \in Procs :
        /\ Executing(c, p) /\ acquire(c) /\ pc[p] = "fork"
        /\ pc' = [pc EXCEPT ![p] = "kernel"]
        /\ np' = [np EXCEPT ![p] = 0]
        /\ UNCHANGED <<tableVars, idVars, chan, prioVars, promoteIn, cpuVars>>

\* kalloc or copyuvm fails: the embryo goes back to the free list, keeping
\* its pid and its killed flag.
forkFail(c) ==
    \E p \in Procs :
        /\ Executing(c, p) /\ acquire(c) /\ pc[p] = "fork"
        /\ release(c, changeState(Table, EmbryoList, FreeList, np[p]))
        /\ pc' = [pc EXCEPT ![p] = "kernel", ![np[p]] = "none"]
        /\ np' = [np EXCEPT ![p] = 0]
        /\ UNCHANGED <<idVars, chan, prioVars, promoteIn, cpuproc, used>>

\* The embryo gets its parent (seen by no one earlier) and becomes runnable.
fork(c) ==
    \E p \in Procs :
        /\ Executing(c, p) /\ acquire(c) /\ pc[p] = "fork"
        /\ release(c, changeState(Table, EmbryoList, ReadyList(0), np[p]))
        /\ parent' = [parent EXCEPT ![np[p]] = p]
        /\ pc' = [pc EXCEPT ![p] = "kernel"]
        /\ np' = [np EXCEPT ![p] = 0]
        /\ UNCHANGED <<pid, killed, nextpid, chan, prioVars, promoteIn, cpuproc, used>>

-----------------------------------------------------------------------------
(***************************************************************************)
(* exit, from the acquire on.  The children are searched list by list.     *)
(* While some process is a zombie the search ends at the first child found;*)
(* it wakes init if that child is the head of the zombie list.  Only when  *)
(* there is no zombie are all children given to init.                      *)
(***************************************************************************)
Children(pt, p) == SelectSeq(Searched(pt), LAMBDA q : parent[q] = p)

Reparented(pt, p) ==
    {Children(pt, p)[k] : k \in {j \in DOMAIN Children(pt, p) :
                                    j = 1 \/ pt.list[ZombieList] = <<>>}}

exitWakeInit(pt, p) ==
    IF /\ Children(pt, p) # <<>> /\ pt.list[ZombieList] # <<>>
       /\ Children(pt, p)[1] = pt.list[ZombieList][1]
    THEN wakeup1(pt, initproc) ELSE pt

exit(c) ==
    \E p \in Procs :
        /\ Executing(c, p) /\ acquire(c) /\ pc[p] = "exit"
        /\ LET woken == wakeup1(Table, parent[p]) IN
           /\ sched(c, changeState(exitWakeInit(woken, p), RunningList, ZombieList, p))
           /\ parent' = [q \in Procs |-> IF q \in Reparented(woken, p) THEN initproc ELSE parent[q]]
        /\ pc' = [pc EXCEPT ![p] = "none"]
        /\ UNCHANGED <<pid, killed, nextpid, chan, prioVars, promoteIn, np>>

-----------------------------------------------------------------------------
(***************************************************************************)
(* wait: one scan under the lock.  The lock is free when wait() is called, *)
(* and already held when the process comes back from its sleep.            *)
(***************************************************************************)
waitScan(c, p) == /\ cpuproc[c] = p /\ panic[c] = "no"
                  /\ \/ pc[p] = "kernel" /\ lock = NoCPU
                     \/ pc[p] = "wait" /\ lock = c

ZombieChildren(p) == {k \in 1..Len(list[ZombieList]) : parent[list[ZombieList][k]] = p}

havekids(p) == \E q \in Range(Searched(Table)) : parent[q] = p

freeSlot(q) ==
    /\ pid' = [pid EXCEPT ![q] = 0]
    /\ killed' = [killed EXCEPT ![q] = FALSE]
    /\ parent' = [parent EXCEPT ![q] = 0]

\* A zombie child is found: the first one on the zombie list is freed.
waitReap(c) ==
    \E p \in Procs :
        /\ waitScan(c, p)
        /\ \E k \in Least(ZombieChildren(p)) :
              /\ release(c, changeState(Table, ZombieList, FreeList, list[ZombieList][k]))
              /\ freeSlot(list[ZombieList][k])
        /\ pc' = [pc EXCEPT ![p] = "kernel"]
        /\ chan' = [chan EXCEPT ![p] = 0]
        /\ UNCHANGED <<nextpid, prioVars, promoteIn, cpuproc, used, np>>

\* No children, or killed: wait returns -1.
waitNone(c) ==
    \E p \in Procs :
        /\ waitScan(c, p) /\ ZombieChildren(p) = {}
        /\ ~ havekids(p) \/ killed[p]
        /\ release(c, Table)
        /\ pc' = [pc EXCEPT ![p] = "kernel"]
        /\ chan' = [chan EXCEPT ![p] = 0]
        /\ UNCHANGED <<idVars, prioVars, promoteIn, cpuproc, used, np>>

\* sleep(proc, &ptable.lock).
waitSleep(c) ==
    \E p \in Procs :
        /\ waitScan(c, p) /\ ZombieChildren(p) = {}
        /\ havekids(p) /\ ~ killed[p]
        /\ goToSleep(c, p, p)
        /\ pc' = [pc EXCEPT ![p] = "wait"]
        /\ UNCHANGED <<idVars, promoteIn, np>>

-----------------------------------------------------------------------------
(***************************************************************************)
(* kill.  The inner loop looks at the head of the sleep list only, so a    *)
(* sleeping victim is woken only there; it is put on ready list 0 whatever *)
(* its priority.                                                           *)
(***************************************************************************)
killTable(q) ==
    IF list[SleepList] # <<>> /\ list[SleepList][1] = q
    THEN changeState(Table, SleepList, ReadyList(0), q) ELSE Table

kill(c, victim) ==
    \E p, q \in Procs :
        /\ Executing(c, p) /\ acquire(c) /\ pc[p] = "kernel"
        /\ state[q] # "UNUSED" /\ pid[q] = victim
        /\ killed' = [killed EXCEPT ![q] = TRUE]
        /\ release(c, killTable(q))
        /\ UNCHANGED <<pid, parent, nextpid, chan, prioVars, promoteIn, cpuproc, used, pc, np>>

(***************************************************************************)
(* setpriority of a process that is runnable, asleep or running.  An       *)
(* unchanged priority changes nothing.                                     *)
(***************************************************************************)
OnReady(q) == CHOOSE i \in 0..MAXPRIO : q \in Range(list[ReadyList(i)])

setpriority(c, target, prio) ==
    \E p, q \in Procs :
        /\ Executing(c, p) /\ acquire(c) /\ pc[p] = "kernel"
        /\ pid[q] = target /\ priority[q] # prio
        /\ state[q] \in {"RUNNABLE", "SLEEPING", "RUNNING"}
        /\ IF state[q] = "RUNNABLE" /\ OnReady(q) # priority[q]
           THEN panicLocked(c, "assertPrio")
           ELSE /\ priority' = [priority EXCEPT ![q] = prio]
                /\ budget' = [budget EXCEPT ![q] = MAX_BUDGET]
                /\ release(c, IF state[q] = "RUNNABLE"
                              THEN changeState(Table, ReadyList(priority[q]), ReadyList(prio), q)
                              ELSE Table)
                /\ UNCHANGED <<idVars, chan, promoteIn, cpuproc, used, pc, np>>

-----------------------------------------------------------------------------
\* panic() ends in an endless loop with interrupts off.
panicked(c) == panic[c] # "no" /\ UNCHANGED vars

Next ==
    \/ timerTick
    \/ \E c \in CPUs :
        \/ scheduler(c) \/ schedulerIdle(c) \/ resume(c) \/ yield(c)
        \/ interrupt(c) \/ fault(c) \/ syscallEnter(c) \/ syscallReturn(c)
        \/ \E ch \in Chans : sleep(c, ch) \/ wakeup(c, ch)
        \/ allocproc(c) \/ forkFail(c) \/ fork(c)
        \/ sys_exit(c) \/ exit(c)
        \/ waitReap(c) \/ waitNone(c) \/ waitSleep(c)
        \/ \E v \in KillPids : kill(c, v)
        \/ \E v \in 1..MAXPID, prio \in SetPrios : setpriority(c, v, prio)
        \/ panicked(c)

Spec == Init /\ [][Next]_vars

(***************************************************************************)
(* Fairness: a CPU goes on executing kernel code (the scheduler loop, a    *)
(* process that was switched to, wait() holding the lock), and the clock   *)
(* keeps interrupting.  A clock interrupt that arrives while interrupts    *)
(* are off stays pending, so it needs only to be possible again and again. *)
(* Nothing is assumed of programs or of devices.                           *)
(***************************************************************************)
waitHeld(c) == lock = c /\ (waitReap(c) \/ waitNone(c) \/ waitSleep(c))

FairSpec ==
    /\ Spec
    /\ SF_vars(timerTick)
    /\ \A c \in CPUs : /\ WF_vars(scheduler(c)) /\ WF_vars(schedulerIdle(c))
                       /\ WF_vars(resume(c)) /\ WF_vars(waitHeld(c))
                       /\ WF_vars(yield(c)) /\ WF_vars(interrupt(c))

-----------------------------------------------------------------------------
(***************************************************************************)
(* Safety.                                                                 *)
(***************************************************************************)
\* Every slot is on exactly one state list, once, and it is the list of its
\* state: what changeState and the list searches of proc.c rely on.
ListInv == ListsAgree(Table)

\* No changeState, assertState or list removal of proc.c ever panics,
\* whatever the order of forks, exits, waits, sleeps, wakeups and kills.
NoListPanic == \A c \in CPUs : panic[c] # "changeState"

\* A process is RUNNING exactly when one CPU has it as proc: no two CPUs
\* run on the same kernel stack, and none runs a process that left it.
RunningOnOneCpu ==
    /\ \A p \in Procs : state[p] = "RUNNING" <=> \E c \in CPUs : cpuproc[c] = p
    /\ \A c, d \in CPUs : cpuproc[c] = cpuproc[d] /\ cpuproc[c] # 0 => c = d

\* A process on ready list i has priority i, except for one that kill moved
\* from its sleep to ready list 0.
ReadyPriority ==
    \A i \in 0..MAXPRIO : \A p \in Range(list[ReadyList(i)]) :
        priority[p] = i \/ (i = 0 /\ killed[p])

\* Processes in use have different pids: kill, setpriority and wait identify
\* a process by its pid.
UniquePids ==
    \A p, q \in Procs :
        state[p] # "UNUSED" /\ state[q] # "UNUSED" /\ pid[p] = pid[q] => p = q

\* No embryo is lost: each one belongs to exactly one process that is still
\* inside fork(), also across failed allocations, kills and yields.
EmbryoOwned ==
    \A q \in Procs :
        /\ state[q] = "EMBRYO" => \E p \in Procs : pc[p] = "fork" /\ np[p] = q
        /\ \A p, r \in Procs : np[p] = q /\ np[r] = q => p = r /\ state[q] = "EMBRYO"

\* No exit is missed by wait(): a process (other than init, which adopts)
\* asleep in wait has no zombie child.
WaiterHasNoZombie ==
    \A p, q \in Procs :
        /\ p # initproc /\ state[p] = "SLEEPING" /\ pc[p] = "wait"
        /\ state[q] = "ZOMBIE"
        => parent[q] # p

-----------------------------------------------------------------------------
(***************************************************************************)
(* The inductive invariant behind the safety properties.                   *)
(***************************************************************************)
\* A process is inside fork() exactly while it has an embryo, and it neither
\* sleeps nor exits there.
ForkOwns ==
    \A p \in Procs : /\ pc[p] = "fork" <=> np[p] # 0
                     /\ pc[p] = "fork" => state[p] \in {"RUNNING", "RUNNABLE"}

\* Pids are handed out in increasing order.
PidBound == \A p \in Procs : pid[p] < nextpid

\* Only a process in wait() sleeps on a slot, and it sleeps on its own.
WaitChan ==
    \A p \in Procs : state[p] = "SLEEPING" =>
        IF pc[p] = "wait" THEN chan[p] = p ELSE chan[p] \in Chans

TableInv == TypeOK /\ ListInv /\ NoListPanic /\ RunningOnOneCpu /\ EmbryoOwned /\ ForkOwns
PidInv == UniquePids /\ PidBound
WaitInv == WaiterHasNoZombie /\ WaitChan
-----------------------------------------------------------------------------
(***************************************************************************)
(* Liveness, under FairSpec.                                               *)
(***************************************************************************)
Stopped == \E c \in CPUs : panic[c] # "no"

\* Promotion prevents starvation: a runnable process is run, however often
\* processes of higher priority sleep and wake.
NoStarvation ==
    \A p \in Procs : (state[p] = "RUNNABLE") ~> (state[p] = "RUNNING" \/ Stopped)

\* A killed process does not stay in user space, even if it makes no system
\* call: the clock interrupt makes it exit.
KilledLeavesUser ==
    \A p \in Procs : (killed[p] /\ pc[p] = "user") ~> (pc[p] # "user" \/ Stopped)
=============================================================================
