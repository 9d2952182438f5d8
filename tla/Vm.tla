--------------------------------- MODULE Vm ---------------------------------
(***************************************************************************)
(* Physical pages (kalloc.c) and the address spaces made of them (vm.c):   *)
(* fork, exec, sbrk and exit of several processes that compete for pages,  *)
(* with a kalloc that may fail at every one of its calls.                  *)
(*                                                                         *)
(* An address space is private to the process that works on it, so that    *)
(* only kalloc and kfree are seen by others.  Each kalloc is a step; the   *)
(* kfrees of one call are one step.  Which free page kalloc returns does   *)
(* not matter: it is the first here.  Sizes are in bytes.                  *)
(***************************************************************************)
EXTENDS Integers, FiniteSets, FiniteSetsExt

CONSTANTS Procs,       \* slots of the process table
          init,        \* the first process, which never exits
          NPAGES,      \* pages between the end of the kernel and PHYSTOP
          PGSIZE,
          NPTENTRIES,
          KERNBASE,    \* end of the user addresses
          Programs,    \* ph.vaddr + ph.memsz of the programs
          Deltas       \* sizes by which sbrk grows or shrinks memory

ASSUME VmAssumption ==
    /\ init \in Procs /\ {NPAGES, PGSIZE, NPTENTRIES, KERNBASE} \subseteq Nat \ {0}
    /\ KERNBASE % (PGSIZE * NPTENTRIES) = 0
    /\ Programs \subseteq Nat \ {0} /\ Deltas \subseteq Nat \ {0}
    /\ NPAGES >= 5

Pages == 1 .. NPAGES
\* User pages and page tables of an address space, by number.
VPNs == 0 .. KERNBASE \div PGSIZE - 1
PDXs == 0 .. KERNBASE \div (PGSIZE * NPTENTRIES) - 1

PGROUNDUP(n) == ((n + PGSIZE - 1) \div PGSIZE) * PGSIZE
PDX(v) == v \div NPTENTRIES

\* A page directory, the page tables of its kernel half (one stands for all),
\* the page tables of its user half and the pages these map.  0 is "not present".
Spaces == [dir : {0} \cup Pages, ktab : {0} \cup Pages,
           tab : [PDXs -> {0} \cup Pages], map : [VPNs -> {0} \cup Pages]]
NoSpace == [dir |-> 0, ktab |-> 0, tab |-> [t \in PDXs |-> 0], map |-> [v \in VPNs |-> 0]]

VARIABLES free,      \* kmem.freelist
          alive,     \* processes that have an address space
          kstack,    \* p->kstack
          space, sz, \* p->pgdir with what it points to, p->sz
          op,        \* the call a process is in
          pc,        \* where it is in that call
          new,       \* the address space it builds: d in copyuvm, pgdir in exec
          a,         \* the loop variable of copyuvm and allocuvm, as a page number
          old, goal, \* oldsz and newsz of allocuvm
          mem,       \* the page it is about to map
          child,     \* np in fork
          failed,    \* history: kalloc has failed for a page table
          panicked

procVars == <<alive, kstack, space, sz>>
callVars == <<op, pc, new, a, old, goal, mem, child>>
vars == <<free, procVars, callVars, failed, panicked>>

\* Every page number is one of a page, and sizes stay below KERNBASE.
TypeOK ==
    /\ free \subseteq Pages /\ alive \subseteq Procs
    /\ kstack \in [Procs -> {0} \cup Pages] /\ mem \in [Procs -> {0} \cup Pages]
    /\ space \in [Procs -> Spaces] /\ new \in [Procs -> Spaces]
    /\ sz \in [Procs -> 0 .. KERNBASE - 1]
    /\ op \in [Procs -> {"", "fork", "exec", "stack", "sbrk"}]
    /\ pc \in [Procs -> {"user", "setupkvm", "kmap", "copy", "alloc", "map", "fail"}]
    /\ child \in [Procs -> Procs] /\ failed \in BOOLEAN /\ panicked \in BOOLEAN

\* userinit: one page of memory, mapped by inituvm.
Init ==
    /\ free = Pages \ (1 .. 5)
    /\ alive = {init}
    /\ kstack = [p \in Procs |-> IF p = init THEN 1 ELSE 0]
    /\ space = [p \in Procs |->
          IF p = init THEN [dir |-> 2, ktab |-> 3, tab |-> [NoSpace.tab EXCEPT ![0] = 4],
                            map |-> [NoSpace.map EXCEPT ![0] = 5]]
          ELSE NoSpace]
    /\ sz = [p \in Procs |-> IF p = init THEN PGSIZE ELSE 0]
    /\ op = [p \in Procs |-> ""] /\ pc = [p \in Procs |-> "user"]
    /\ new = [p \in Procs |-> NoSpace]
    /\ a = [p \in Procs |-> 0] /\ old = [p \in Procs |-> 0] /\ goal = [p \in Procs |-> 0]
    /\ mem = [p \in Procs |-> 0] /\ child = [p \in Procs |-> p]
    /\ failed = FALSE /\ panicked = FALSE

-----------------------------------------------------------------------------
(***************************************************************************)
(* Helpers.                                                                *)
(***************************************************************************)
\* kalloc takes this page, when there is one.
page == Min(free)
take == free' = free \ {page}

at(p, l) == pc[p] = l /\ ~ panicked
goto(p, l) == pc' = [pc EXCEPT ![p] = l]

\* The address space that allocuvm works on, and its change to s.
pgdir(p) == IF op[p] = "sbrk" THEN space[p] ELSE new[p]
setPgdir(p, s) == IF op[p] = "sbrk"
                  THEN space' = [space EXCEPT ![p] = s] /\ UNCHANGED new
                  ELSE new' = [new EXCEPT ![p] = s] /\ UNCHANGED space

\* The call of p is over.
return(p) ==
    /\ goto(p, "user") /\ op' = [op EXCEPT ![p] = ""]
    /\ a' = [a EXCEPT ![p] = 0] /\ old' = [old EXCEPT ![p] = 0]
    /\ goal' = [goal EXCEPT ![p] = 0] /\ mem' = [mem EXCEPT ![p] = 0]
    /\ child' = [child EXCEPT ![p] = p]

panic == panicked' = TRUE /\ UNCHANGED <<free, procVars, callVars, failed>>

\* A process in user mode can go on: the first page of its program is mapped.
runs(p) == at(p, "user") /\ p \in alive /\ space[p].map[0] # 0

(***************************************************************************)
(* deallocuvm visits the pages from v on, below n; where there is no page  *)
(* table it goes on as many pages later as a table has entries.            *)
(***************************************************************************)
visited(s, from, n) ==
    LET visit[v \in 0 .. n + NPTENTRIES] ==
            IF v >= n THEN {}
            ELSE IF s.tab[PDX(v)] = 0 THEN visit[v + NPTENTRIES]
            ELSE {v} \cup visit[v + 1]
    IN  visit[from]

\* The user pages that deallocuvm(s, oldsz, newsz) frees, and what it leaves.
freedBy(s, oldsz, newsz) ==
    {v \in visited(s, PGROUNDUP(newsz) \div PGSIZE, PGROUNDUP(oldsz) \div PGSIZE) : s.map[v] # 0}
pagesOf(s, vs) == {s.map[v] : v \in vs}

\* Mutant: the page table entry is not cleared.
without_Mapped(s, vs) == s

without(s, vs) == [s EXCEPT !.map = [v \in VPNs |-> IF v \in vs THEN 0 ELSE s.map[v]]]

\* All that freevm(s) gives back.
freevm(s) == pagesOf(s, freedBy(s, KERNBASE, 0))
               \cup ({s.tab[t] : t \in PDXs} \ {0}) \cup {s.ktab, s.dir}

-----------------------------------------------------------------------------
(***************************************************************************)
(* The beginning of fork (allocproc and its kernel stack), exec and sbrk.  *)
(***************************************************************************)
fork(p, c) ==
    /\ runs(p) /\ c \notin alive /\ kstack[c] = 0 /\ free # {}
    /\ take
    /\ kstack' = [kstack EXCEPT ![c] = page]
    /\ child' = [child EXCEPT ![p] = c]
    /\ op' = [op EXCEPT ![p] = "fork"] /\ goto(p, "setupkvm")
    /\ UNCHANGED <<alive, space, sz, new, a, old, goal, mem, failed, panicked>>

\* The program has one segment of n bytes.
exec(p, n) ==
    /\ runs(p)
    /\ goal' = [goal EXCEPT ![p] = n]
    /\ op' = [op EXCEPT ![p] = "exec"] /\ goto(p, "setupkvm")
    /\ UNCHANGED <<free, procVars, new, a, old, mem, child, failed, panicked>>

\* growproc(n) calls allocuvm, which refuses to reach KERNBASE.
sbrkGrow(p, n) ==
    /\ runs(p) /\ sz[p] + n < KERNBASE
    /\ old' = [old EXCEPT ![p] = sz[p]] /\ goal' = [goal EXCEPT ![p] = sz[p] + n]
    /\ a' = [a EXCEPT ![p] = PGROUNDUP(sz[p]) \div PGSIZE]
    /\ op' = [op EXCEPT ![p] = "sbrk"] /\ goto(p, "alloc")
    /\ UNCHANGED <<free, procVars, new, mem, child, failed, panicked>>

\* growproc(-n); a size that would be negative is a large uint, which
\* changes nothing.  When nothing is left, deallocuvm returns 0, which growproc
\* takes for an error: the memory is gone and proc->sz stays.
sbrkShrink(p, n) ==
    /\ runs(p) /\ sz[p] >= n
    /\ LET vs == freedBy(space[p], sz[p], sz[p] - n)
       IN  /\ free' = free \cup pagesOf(space[p], vs)
           /\ space' = [space EXCEPT ![p] = without(@, vs)]
    /\ sz' = [sz EXCEPT ![p] = IF @ = n THEN @ ELSE @ - n]
    /\ UNCHANGED <<alive, kstack, callVars, failed, panicked>>

-----------------------------------------------------------------------------
(***************************************************************************)
(* setupkvm: the directory, then the tables of the kernel's half.  A       *)
(* failure of the latter forgets the directory.                            *)
(***************************************************************************)
setupkvm(p) ==
    /\ at(p, "setupkvm")
    /\ IF free = {}
       THEN goto(p, "fail") /\ UNCHANGED <<free, new>>
       ELSE take /\ new' = [new EXCEPT ![p].dir = page] /\ goto(p, "kmap")
    /\ UNCHANGED <<procVars, op, a, old, goal, mem, child, failed, panicked>>

kmap(p) ==
    /\ at(p, "kmap")
    /\ IF free = {}
       THEN /\ new' = [new EXCEPT ![p] = NoSpace] /\ failed' = TRUE
            /\ goto(p, "fail") /\ UNCHANGED free
       ELSE /\ take /\ new' = [new EXCEPT ![p].ktab = page]
            /\ goto(p, IF op[p] = "fork" THEN "copy" ELSE "alloc") /\ UNCHANGED failed
    /\ UNCHANGED <<procVars, op, a, old, goal, mem, child, panicked>>

\* The loop of copyuvm, up to mappages.
copyuvm(p) ==
    /\ at(p, "copy") /\ a[p] * PGSIZE < sz[p]
    /\ IF space[p].map[a[p]] = 0 THEN panic
       ELSE /\ IF free = {}
               THEN goto(p, "fail") /\ UNCHANGED <<free, mem>>
               ELSE take /\ mem' = [mem EXCEPT ![p] = page] /\ goto(p, "map")
            /\ UNCHANGED <<procVars, op, new, a, old, goal, child, failed, panicked>>

\* The rest of fork.
forkDone(p) ==
    /\ at(p, "copy") /\ a[p] * PGSIZE >= sz[p]
    /\ alive' = alive \cup {child[p]}
    /\ space' = [space EXCEPT ![child[p]] = new[p]]
    /\ sz' = [sz EXCEPT ![child[p]] = sz[p]]
    /\ new' = [new EXCEPT ![p] = NoSpace]
    /\ return(p)
    /\ UNCHANGED <<free, kstack, failed, panicked>>

-----------------------------------------------------------------------------
(***************************************************************************)
(* allocuvm, which exec calls for the program and for its stack.           *)
(***************************************************************************)
allocuvm(p) ==
    /\ at(p, "alloc") /\ a[p] * PGSIZE < goal[p]
    /\ IF free # {}
       THEN /\ take /\ mem' = [mem EXCEPT ![p] = page] /\ goto(p, "map")
            /\ UNCHANGED <<space, new>>
       ELSE LET vs == freedBy(pgdir(p), goal[p], old[p])
            IN  /\ free' = free \cup pagesOf(pgdir(p), vs)
                /\ setPgdir(p, without(pgdir(p), vs))
                /\ goto(p, "fail") /\ UNCHANGED mem
    /\ UNCHANGED <<alive, kstack, sz, op, a, old, goal, child, failed, panicked>>

\* mappages of one page.  copyuvm gives up when there is no page for the page
\* table, but has forgotten mem; allocuvm goes on as if the page were mapped.
mappages(p) ==
    /\ at(p, "map")
    /\ LET s == pgdir(p)
           t == PDX(a[p])
           loop == IF op[p] = "fork" THEN "copy" ELSE "alloc"
       IN  \/ /\ s.tab[t] = 0 /\ free = {}
              /\ failed' = TRUE
              /\ IF op[p] = "fork"
                 THEN goto(p, "fail") /\ UNCHANGED a
                 ELSE goto(p, loop) /\ a' = [a EXCEPT ![p] = @ + 1]
              /\ mem' = [mem EXCEPT ![p] = 0]
              /\ UNCHANGED <<free, procVars, op, new, old, goal, child, panicked>>
           \/ /\ s.tab[t] # 0 \/ free # {}
              /\ IF s.map[a[p]] # 0 THEN panic
                 ELSE /\ IF s.tab[t] = 0 THEN take ELSE UNCHANGED free
                      /\ setPgdir(p, [s EXCEPT !.tab[t] = IF @ = 0 THEN page ELSE @,
                                               !.map[a[p]] = mem[p]])
                      /\ mem' = [mem EXCEPT ![p] = 0]
                      /\ a' = [a EXCEPT ![p] = @ + 1]
                      /\ goto(p, loop)
                      /\ UNCHANGED <<alive, kstack, sz, op, old, goal, child, failed, panicked>>

allocated(p, o) == at(p, "alloc") /\ op[p] = o /\ a[p] * PGSIZE >= goal[p]

sbrkDone(p) ==
    /\ allocated(p, "sbrk")
    /\ sz' = [sz EXCEPT ![p] = goal[p]]
    /\ return(p)
    /\ UNCHANGED <<free, alive, kstack, space, new, failed, panicked>>

\* loaduvm needs the page tables of the program; the file may be too short for
\* its header.  Then come a guard page and the stack, if they fit.
loaduvm(p) ==
    /\ allocated(p, "exec")
    /\ IF \E v \in VPNs : v * PGSIZE < goal[p] /\ new[p].tab[PDX(v)] = 0 THEN panic
       ELSE /\ \/ goto(p, "fail") /\ UNCHANGED <<op, a, old, goal>>
               \/ LET top == PGROUNDUP(goal[p])
                  IN  /\ top + 2 * PGSIZE < KERNBASE
                      /\ op' = [op EXCEPT ![p] = "stack"]
                      /\ old' = [old EXCEPT ![p] = top]
                      /\ goal' = [goal EXCEPT ![p] = top + 2 * PGSIZE]
                      /\ a' = [a EXCEPT ![p] = top \div PGSIZE]
                      /\ UNCHANGED pc
            /\ UNCHANGED <<free, procVars, new, mem, child, failed, panicked>>

\* clearpteu finds the entry of page v, or panics.
clearpteu(s, v) == s.tab[PDX(v)] # 0

\* clearpteu of the guard page needs its page table.  copyout of the arguments
\* may fail.  The last steps of exec replace the old address space.
execCommit(p) ==
    /\ allocated(p, "stack")
    /\ IF ~ clearpteu(new[p], goal[p] \div PGSIZE - 2) THEN panic
       ELSE \/ /\ goto(p, "fail")
               /\ UNCHANGED <<free, procVars, op, new, a, old, goal, mem, child, failed, panicked>>
            \/ /\ free' = free \cup freevm(space[p])
               /\ space' = [space EXCEPT ![p] = new[p]]
               /\ sz' = [sz EXCEPT ![p] = goal[p]]
               /\ new' = [new EXCEPT ![p] = NoSpace]
               /\ return(p)
               /\ UNCHANGED <<alive, kstack, failed, panicked>>

\* Mutant: exec forgets the address space it was building.
fail_KeepNew(p) ==
    /\ at(p, "fail")
    /\ free' = free \cup (IF op[p] = "fork" THEN {kstack[child[p]]} ELSE {})
    /\ kstack' = IF op[p] = "fork" THEN [kstack EXCEPT ![child[p]] = 0] ELSE kstack
    /\ new' = [new EXCEPT ![p] = NoSpace]
    /\ return(p)
    /\ UNCHANGED <<alive, space, sz, failed, panicked>>

\* The error returns of fork, exec and growproc.
fail(p) ==
    /\ at(p, "fail")
    /\ free' = free \cup (IF new[p].dir # 0 THEN freevm(new[p]) ELSE {})
                    \cup (IF op[p] = "fork" THEN {kstack[child[p]]} ELSE {})
    /\ kstack' = IF op[p] = "fork" THEN [kstack EXCEPT ![child[p]] = 0] ELSE kstack
    /\ new' = [new EXCEPT ![p] = NoSpace]
    /\ return(p)
    /\ UNCHANGED <<alive, space, sz, failed, panicked>>

\* A process exits and its parent's wait frees its stack and memory.
wait(c) ==
    /\ at(c, "user") /\ c \in alive \ {init}
    /\ free' = free \cup freevm(space[c]) \cup {kstack[c]}
    /\ alive' = alive \ {c}
    /\ kstack' = [kstack EXCEPT ![c] = 0]
    /\ space' = [space EXCEPT ![c] = NoSpace]
    /\ sz' = [sz EXCEPT ![c] = 0]
    /\ UNCHANGED <<callVars, failed, panicked>>

\* Without that page a process faults and exits; init must not.
fault == /\ at(init, "user") /\ ~ runs(init)
         /\ panic

halted == panicked /\ UNCHANGED vars

Next ==
    \/ \E p \in Procs :
        \/ setupkvm(p) \/ kmap(p) \/ copyuvm(p) \/ forkDone(p)
        \/ allocuvm(p) \/ mappages(p) \/ sbrkDone(p) \/ loaduvm(p) \/ execCommit(p)
        \/ fail(p) \/ wait(p)
        \/ \E c \in Procs : fork(p, c)
        \/ \E n \in Programs : exec(p, n)
        \/ \E n \in Deltas : sbrkGrow(p, n) \/ sbrkShrink(p, n)
    \/ fault \/ halted

Spec == Init /\ [][Next]_vars

-----------------------------------------------------------------------------
(***************************************************************************)
(* Properties.                                                             *)
(***************************************************************************)
\* No page has two places in address space s.
Tree(s) ==
    /\ \A t, u \in PDXs : s.tab[t] = s.tab[u] /\ s.tab[t] # 0 => t = u
    /\ \A v, w \in VPNs : s.map[v] = s.map[w] /\ s.map[v] # 0 => v = w
    /\ \A t \in PDXs, v \in VPNs : s.tab[t] = s.map[v] => s.tab[t] = 0
    /\ \A g \in {s.dir, s.ktab} \ {0} : /\ \A t \in PDXs : s.tab[t] # g
                                        /\ \A v \in VPNs : s.map[v] # g
    /\ s.dir = s.ktab => s.dir = 0

\* The pages of an address space, and of each thing that can own pages.
pagesIn(s) == ({s.dir, s.ktab} \cup {s.tab[t] : t \in PDXs} \cup {s.map[v] : v \in VPNs}) \ {0}
Owners == Procs \X {"kstack", "mem", "space", "new"}
owned(o) == CASE o[2] = "kstack" -> {kstack[o[1]]} \ {0}
              [] o[2] = "mem" -> {mem[o[1]]} \ {0}
              [] o[2] = "space" -> pagesIn(space[o[1]])
              [] o[2] = "new" -> pagesIn(new[o[1]])

\* No page has two uses: what kfree gives back is not mapped, and no page belongs
\* to two address spaces or twice to one, whichever kalloc fails.
PagesSeparate ==
    /\ \A o1, o2 \in Owners : o1 # o2 => owned(o1) \cap owned(o2) = {}
    /\ \A o \in Owners : owned(o) \cap free = {}
    /\ \A p \in Procs : Tree(space[p]) /\ Tree(new[p])

\* No page is lost on any path, error paths included, as long as kalloc does not
\* fail for a page table (where setupkvm, copyuvm and allocuvm lose pages).
NothingLost == ~ failed => Pages \subseteq free \cup UNION {owned(o) : o \in Owners}

=============================================================================
