----------------------------- MODULE ProcArray -----------------------------
(***************************************************************************)
(* The process table of the builds without CS333_P3P4 (projects 0 to 2):   *)
(* no state lists, every operation scans the array ptable.proc.            *)
(*                                                                         *)
(* An action is one critical section of ptable.lock or one access without  *)
(* it.  scheduler() holds the lock while it scans, hands it to the process *)
(* it switches to, and gets it back with sched().                          *)
(***************************************************************************)
EXTENDS Integers

CONSTANTS NPROC, CPUs, NoCPU,
          Chans,     \* sleep channels other than processes
          MAXPID,    \* bound: processes are created while nextpid is below it
          KillPids   \* pids that programs pass to kill

ASSUME NprocAssumption == NPROC \in Nat \ {0}
ASSUME PidAssumption == MAXPID \in Nat \ {0, 1} /\ KillPids \subseteq Nat
ASSUME CpuAssumption == NoCPU \notin CPUs
ASSUME ChanAssumption == Chans \cap (0 .. NPROC) = {}

Procs == 1 .. NPROC
initproc == 1

VARIABLES state, pid, parent, chan, killed, nextpid,
          cpuproc, \* per CPU: proc, or 0 while in scheduler()
          scan,    \* per CPU: the next slot in the loop of scheduler()
          lock,    \* the CPU that holds ptable.lock across actions
          pc,      \* where a process is, or goes on when it is switched to
          np       \* the new process of a process in fork

idVars == <<pid, parent, killed, nextpid>>
cpuVars == <<cpuproc, scan, lock>>
vars == <<state, idVars, chan, cpuVars, pc, np>>

procstate == {"UNUSED", "EMBRYO", "SLEEPING", "RUNNABLE", "RUNNING", "ZOMBIE"}

TypeOK ==
    /\ state \in [Procs -> procstate]
    /\ pid \in [Procs -> 0 .. MAXPID - 1] /\ nextpid \in 2 .. MAXPID
    /\ parent \in [Procs -> 0 .. NPROC] /\ chan \in [Procs -> Chans \cup 0 .. NPROC]
    /\ killed \in [Procs -> BOOLEAN]
    /\ cpuproc \in [CPUs -> 0 .. NPROC] /\ scan \in [CPUs -> 1 .. NPROC + 1]
    /\ lock \in CPUs \cup {NoCPU}
    /\ pc \in [Procs -> {"none", "user", "kernel", "copy", "child", "wait", "panic"}]
    /\ np \in [Procs -> 0 .. NPROC]

\* userinit.
Init ==
    /\ state = [p \in Procs |-> IF p = initproc THEN "RUNNABLE" ELSE "UNUSED"]
    /\ pid = [p \in Procs |-> IF p = initproc THEN 1 ELSE 0] /\ nextpid = 2
    /\ parent = [p \in Procs |-> 0] /\ chan = [p \in Procs |-> 0]
    /\ killed = [p \in Procs |-> FALSE]
    /\ cpuproc = [c \in CPUs |-> 0] /\ scan = [c \in CPUs |-> 1] /\ lock = NoCPU
    /\ pc = [p \in Procs |-> IF p = initproc THEN "kernel" ELSE "none"]
    /\ np = [p \in Procs |-> 0]

-----------------------------------------------------------------------------
(***************************************************************************)
(* Scheduling.                                                             *)
(***************************************************************************)
\* CPU c runs process p, which does not hold the lock; it can acquire it.
Executing(c, p) == p # 0 /\ cpuproc[c] = p /\ lock # c
acquire(c, p) == Executing(c, p) /\ lock = NoCPU

Runnable(c) == {p \in scan[c] .. NPROC : state[p] = "RUNNABLE"}

\* The loop over the table begins.
schedule(c) ==
    /\ cpuproc[c] = 0 /\ lock = NoCPU
    /\ lock' = c
    /\ UNCHANGED <<state, idVars, chan, cpuproc, scan, pc, np>>

\* Mutant: the loop starts again after every process.
after_First(p) == 1

\* The slot after p.
after(p) == p + 1

\* The next runnable process p is switched to: it goes on in forkret, yield or
\* sleep, which release the lock, or in wait, which scans the table first.
swtch(c, p) ==
    /\ cpuproc[c] = 0 /\ lock = c /\ p \in Runnable(c) /\ \A q \in Runnable(c) : p <= q
    /\ state' = [state EXCEPT ![p] = "RUNNING"]
    /\ cpuproc' = [cpuproc EXCEPT ![c] = p] /\ scan' = [scan EXCEPT ![c] = after(p)]
    /\ chan' = [chan EXCEPT ![p] = 0]
    /\ lock' = IF pc[p] = "wait" THEN c ELSE NoCPU
    /\ UNCHANGED <<idVars, pc, np>>

\* The end of the loop.
endScan(c) ==
    /\ cpuproc[c] = 0 /\ lock = c /\ Runnable(c) = {}
    /\ lock' = NoCPU /\ scan' = [scan EXCEPT ![c] = 1]
    /\ UNCHANGED <<state, idVars, chan, cpuproc, pc, np>>

\* The process of CPU c goes back to scheduler() with the lock.
sched(c) == cpuproc' = [cpuproc EXCEPT ![c] = 0] /\ lock' = c /\ UNCHANGED scan

yield(c, p) ==
    /\ acquire(c, p) /\ pc[p] # "panic"
    /\ state' = [state EXCEPT ![p] = "RUNNABLE"]
    /\ sched(c)
    /\ UNCHANGED <<idVars, chan, pc, np>>

\* wakeup1(ch) in the states s.
wakeup1(s, ch) ==
    [p \in Procs |-> IF s[p] = "SLEEPING" /\ chan[p] = ch THEN "RUNNABLE" ELSE s[p]]

\* sleep in a system call of p other than wait.
sleep(c, p, ch) ==
    /\ acquire(c, p) /\ pc[p] = "user"
    /\ chan' = [chan EXCEPT ![p] = ch] /\ state' = [state EXCEPT ![p] = "SLEEPING"]
    /\ pc' = [pc EXCEPT ![p] = "kernel"]
    /\ sched(c)
    /\ UNCHANGED <<idVars, np>>

\* wakeup in a system call, or in an interrupt handler on a busy or an idle CPU.
wakeup(ch) ==
    /\ lock = NoCPU
    /\ state' = wakeup1(state, ch)
    /\ UNCHANGED <<idVars, chan, cpuVars, pc, np>>

\* The end of a system call, and of forkret: trap() makes a killed process exit.
trapret(c, p) ==
    /\ Executing(c, p) /\ pc[p] = "kernel" /\ ~ killed[p]
    /\ pc' = [pc EXCEPT ![p] = "user"]
    /\ UNCHANGED <<state, idVars, chan, cpuVars, np>>

-----------------------------------------------------------------------------
(***************************************************************************)
(* kill, fork, exit and wait.                                              *)
(***************************************************************************)
\* The first slot with pid n, whatever its state.
kill(c, p, n) ==
    /\ acquire(c, p) /\ pc[p] = "user"
    /\ \E q \in Procs :
         /\ pid[q] = n /\ \A r \in 1 .. q - 1 : pid[r] # n
         /\ killed' = [killed EXCEPT ![q] = TRUE]
         /\ state' = [state EXCEPT ![q] = IF @ = "SLEEPING" THEN "RUNNABLE" ELSE @]
    /\ UNCHANGED <<pid, parent, nextpid, chan, cpuVars, pc, np>>

\* allocproc takes the first unused slot.
allocproc(c, p) ==
    /\ acquire(c, p) /\ pc[p] = "user" /\ nextpid < MAXPID
    /\ \E q \in Procs :
         /\ state[q] = "UNUSED" /\ \A r \in 1 .. q - 1 : state[r] # "UNUSED"
         /\ state' = [state EXCEPT ![q] = "EMBRYO"] /\ pid' = [pid EXCEPT ![q] = nextpid]
         /\ np' = [np EXCEPT ![p] = q]
    /\ nextpid' = nextpid + 1
    /\ pc' = [pc EXCEPT ![p] = "copy"]
    /\ UNCHANGED <<parent, killed, chan, cpuVars>>

\* No page for the stack or the memory: the slot is given back without the lock.
forkFails(c, p) ==
    /\ Executing(c, p) /\ pc[p] = "copy"
    /\ state' = [state EXCEPT ![np[p]] = "UNUSED"]
    /\ np' = [np EXCEPT ![p] = 0] /\ pc' = [pc EXCEPT ![p] = "kernel"]
    /\ UNCHANGED <<idVars, chan, cpuVars>>

copyproc(c, p) ==
    /\ Executing(c, p) /\ pc[p] = "copy"
    /\ parent' = [parent EXCEPT ![np[p]] = p]
    /\ pc' = [pc EXCEPT ![p] = "child"]
    /\ UNCHANGED <<state, pid, killed, nextpid, chan, cpuVars, np>>

fork(c, p) ==
    /\ acquire(c, p) /\ pc[p] = "child"
    /\ state' = [state EXCEPT ![np[p]] = "RUNNABLE"]
    /\ pc' = [pc EXCEPT ![p] = "kernel", ![np[p]] = "kernel"]
    /\ np' = [np EXCEPT ![p] = 0]
    /\ UNCHANGED <<idVars, chan, cpuVars>>

Children(p) == {q \in Procs : parent[q] = p}
Zombies(p) == {q \in Children(p) : state[q] = "ZOMBIE"}

\* Mutant: exit passes only the zombies among its children to init.
passed_Zombies(p) ==
    [q \in Procs |-> IF parent[q] = p /\ state[q] = "ZOMBIE" THEN initproc ELSE parent[q]]

\* Children of p are passed to init.
passed(p) == [q \in Procs |-> IF parent[q] = p THEN initproc ELSE parent[q]]

\* Mutant: the parent is not woken.
woken_Init(p) == IF Zombies(p) # {} THEN wakeup1(state, initproc) ELSE state

\* exit wakes the parent of p, and init for every zombie it is passed.
woken(p) ==
    IF Zombies(p) # {} THEN wakeup1(wakeup1(state, parent[p]), initproc)
    ELSE wakeup1(state, parent[p])

\* p calls exit, itself or in trap() because it was killed.
exits(p) == pc[p] = "user" \/ (pc[p] = "kernel" /\ killed[p])

exit(c, p) ==
    /\ acquire(c, p) /\ p # initproc /\ exits(p)
    /\ state' = [woken(p) EXCEPT ![p] = "ZOMBIE"]
    /\ parent' = passed(p)
    /\ pc' = [pc EXCEPT ![p] = "none"]
    /\ sched(c)
    /\ UNCHANGED <<pid, killed, nextpid, chan, np>>

\* panic("init exiting"): the CPU stops for ever with interrupts off.
exitInit(c) ==
    /\ Executing(c, initproc) /\ exits(initproc)
    /\ pc' = [pc EXCEPT ![initproc] = "panic"]
    /\ UNCHANGED <<state, idVars, chan, cpuVars, np>>

\* One round of wait: with the lock, from the call or from sleep.
inWait(c, p) ==
    \/ acquire(c, p) /\ pc[p] = "user"
    \/ cpuproc[c] = p /\ p # 0 /\ lock = c /\ pc[p] = "wait"

waitReap(c, p, q) ==
    /\ inWait(c, p) /\ q \in Zombies(p) /\ \A r \in Zombies(p) : q <= r
    /\ state' = [state EXCEPT ![q] = "UNUSED"] /\ pid' = [pid EXCEPT ![q] = 0]
    /\ parent' = [parent EXCEPT ![q] = 0] /\ killed' = [killed EXCEPT ![q] = FALSE]
    /\ pc' = [pc EXCEPT ![p] = "kernel"] /\ lock' = NoCPU
    /\ UNCHANGED <<nextpid, chan, cpuproc, scan, np>>

waitFails(c, p) ==
    /\ inWait(c, p) /\ Zombies(p) = {} /\ (Children(p) = {} \/ killed[p])
    /\ pc' = [pc EXCEPT ![p] = "kernel"] /\ lock' = NoCPU
    /\ UNCHANGED <<state, idVars, chan, cpuproc, scan, np>>

waitSleep(c, p) ==
    /\ inWait(c, p) /\ Zombies(p) = {} /\ Children(p) # {} /\ ~ killed[p]
    /\ chan' = [chan EXCEPT ![p] = p] /\ state' = [state EXCEPT ![p] = "SLEEPING"]
    /\ pc' = [pc EXCEPT ![p] = "wait"]
    /\ sched(c)
    /\ UNCHANGED <<idVars, np>>

scheduler(c) == schedule(c) \/ endScan(c) \/ \E p \in Procs : swtch(c, p)

Next ==
    \/ \E ch \in Chans : wakeup(ch)
    \/ \E c \in CPUs : scheduler(c) \/ exitInit(c)
    \/ \E c \in CPUs, p \in Procs :
        \/ yield(c, p) \/ trapret(c, p) \/ exit(c, p)
        \/ allocproc(c, p) \/ forkFails(c, p) \/ copyproc(c, p) \/ fork(c, p)
        \/ waitFails(c, p) \/ waitSleep(c, p)
        \/ \E q \in Procs : waitReap(c, p, q)
        \/ \E ch \in Chans : sleep(c, p, ch)
        \/ \E n \in KillPids : kill(c, p, n)

Spec == Init /\ [][Next]_vars

(***************************************************************************)
(* Every CPU goes on in scheduler(); a process in wait holds the lock and  *)
(* goes on; the timer interrupt makes a process yield, and it gets the     *)
(* lock if it spins for it forever.                                        *)
(***************************************************************************)
Fairness == \A c \in CPUs :
    /\ WF_vars(endScan(c) \/ \E p \in Procs : swtch(c, p)) /\ SF_vars(schedule(c))
    /\ \A p \in Procs : /\ WF_vars(lock = c /\ (waitFails(c, p) \/ waitSleep(c, p)
                                   \/ \E q \in Procs : waitReap(c, p, q)))
                        /\ SF_vars(yield(c, p))
FairSpec == Spec /\ Fairness

-----------------------------------------------------------------------------
(***************************************************************************)
(* Properties.                                                             *)
(***************************************************************************)
\* A slot whose process is being made does not count yet.
life == [p \in Procs |-> IF state[p] \in {"UNUSED", "EMBRYO"} THEN "free"
                         ELSE IF state[p] = "ZOMBIE" THEN "dead" ELSE "live"]
visible(f) == [p \in Procs |-> IF life[p] = "free" THEN 0 ELSE f[p]]

\* fork, exit and wait keep the tree of processes that ProcLife describes: the
\* parent of a process is alive, only a parent reaps, and pids are not used twice.
L == INSTANCE ProcLife WITH Slots <- Procs, Pids <- 1 .. MAXPID - 1, life <- life,
                            parent <- visible(parent), pid <- visible(pid)
LifeSpec == L!Spec

\* A process that is RUNNABLE gets a CPU: the loop of scheduler() passes every
\* slot before it comes back to one.
RunnableRuns == \A p \in Procs : state[p] = "RUNNABLE" ~> state[p] = "RUNNING"

\* A parent never sleeps in wait while a child is a zombie: exit wakes it in the
\* critical section that makes the zombie, and so does the exit of a parent whose
\* zombies go to init.
WaiterHasNoZombie == \A p \in Procs :
    state[p] = "SLEEPING" /\ chan[p] = p => Zombies(p) = {}
=============================================================================
