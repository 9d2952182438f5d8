------------------------------ MODULE FileTable ------------------------------
(***************************************************************************)
(* The open-file table (file.c), the descriptor tables of the processes,   *)
(* and the system calls that move references between them: open, pipe,     *)
(* dup, close, fork and exit (sysfile.c, proc.c), with what the last close *)
(* of a file does to the pipe end or the inode behind it.                  *)
(*                                                                         *)
(* An action is one critical section of ftable.lock together with the      *)
(* steps around it that touch only the calling process.  begin_op ...      *)
(* end_op is a flag per process: log.c is modelled in Log.  The local      *)
(* variables of a call are reset when the call is done with them.          *)
(***************************************************************************)
EXTENDS Integers, Sequences, FiniteSets, FiniteSetsExt

CONSTANTS Procs,   \* slots of the process table
          root,    \* the process that never exits
          NFILE,   \* files in ftable
          NOFILE,  \* descriptors per process
          Inodes,
          Pages    \* pages that kalloc can give to pipes

ASSUME FileAssumption ==
    NFILE \in Nat \ {0} /\ NOFILE \in Nat \ {0} /\ root \in Procs

Files == 1 .. NFILE
FDs == 0 .. NOFILE - 1

\* What a struct file refers to: f->type with the fields that go with it.
FD_NONE == <<"none">>
InodeObj(i) == <<"inode", i>>
PipeObj(q, writable) == <<"pipe", q, writable>>
Objects == {FD_NONE} \cup {InodeObj(i) : i \in Inodes}
             \cup {PipeObj(q, w) : q \in Pages, w \in BOOLEAN}

VARIABLES ref, obj,   \* ftable: f->ref, and f->type with its object
          ofile,      \* proc->ofile, 0 for a free descriptor
          alive,      \* processes that exist
          ends,       \* ends of a pipe that are open: FALSE read, TRUE write
          iref,       \* references to an inode held by open files and opens
          inop,       \* inside begin_op ... end_op
          pc, ret,    \* where a process is, and where fileclose returns to
          hand,       \* files in its local variables (f, or rf and wf)
          ff,         \* fileclose's copy of the file it closes
          arg,        \* sys_open's ip, fork's np
          fd,         \* the descriptor a call works on
          panicked

vars == <<ref, obj, ofile, alive, ends, iref, inop, pc, ret, hand, ff, arg, fd, panicked>>
objVars == <<ends, iref, inop>>
local == <<hand, arg, fd>>

PCs == {"idle", "release", "dup", "open", "opened", "openFail", "openUndo", "pipe2",
        "pipe3", "pipeBad", "fork", "exit", "exitClear"}

\* Every variable has its type; descriptors name files of the table.
TypeOK ==
    /\ ref \in [Files -> Nat] /\ obj \in [Files -> Objects]
    /\ ofile \in [Procs -> [FDs -> Files \cup {0}]]
    /\ alive \subseteq Procs
    /\ ends \in [Pages -> SUBSET BOOLEAN]
    /\ iref \in [Inodes -> Nat]
    /\ inop \in [Procs -> BOOLEAN]
    /\ pc \in [Procs -> PCs] /\ ret \in [Procs -> PCs]
    /\ hand \in [Procs -> Seq(Files)] /\ ff \in [Procs -> Objects]
    /\ arg \in [Procs -> Inodes \cup Procs] /\ fd \in [Procs -> FDs]
    /\ panicked \in BOOLEAN

Init ==
    /\ ref = [f \in Files |-> 0] /\ obj = [f \in Files |-> FD_NONE]
    /\ ofile = [p \in Procs |-> [d \in FDs |-> 0]]
    /\ alive = {root}
    /\ ends = [q \in Pages |-> {}]
    /\ iref = [i \in Inodes |-> 0]
    /\ inop = [p \in Procs |-> FALSE]
    /\ pc = [p \in Procs |-> "idle"] /\ ret = [p \in Procs |-> "idle"]
    /\ hand = [p \in Procs |-> <<>>] /\ ff = [p \in Procs |-> FD_NONE]
    /\ arg = [p \in Procs |-> root] /\ fd = [p \in Procs |-> 0]
    /\ panicked = FALSE

-----------------------------------------------------------------------------
at(p, l) == p \in alive /\ pc[p] = l /\ ~ panicked
goto(p, l) == pc' = [pc EXCEPT ![p] = l]

OpenFds(p) == {d \in FDs : ofile[p][d] # 0}
FreeFds(p) == FDs \ OpenFds(p)

\* filealloc scans for the first file without references.
FreeFiles == {f \in Files : ref[f] = 0}

panic == /\ panicked' = TRUE
         /\ UNCHANGED <<ref, obj, ofile, alive, objVars, pc, ret, local, ff>>

\* The test before the panics of filedup and fileclose.
NoRef(f) == ref[f] < 1

\* filedup: one more reference to f.
Dup(f) == ref' = [ref EXCEPT ![f] = @ + 1]

(***************************************************************************)
(* fileclose(f) by p, then on to l: the last reference empties the slot    *)
(* and leaves the object to release after the lock is dropped.             *)
(***************************************************************************)
Drop(p, f, l) ==
    /\ ref' = [ref EXCEPT ![f] = @ - 1]
    /\ IF ref[f] > 1
       THEN goto(p, l) /\ UNCHANGED <<obj, ret, ff>>
       ELSE /\ obj' = [obj EXCEPT ![f] = FD_NONE]
            /\ ff' = [ff EXCEPT ![p] = obj[f]]
            /\ goto(p, "release")
            /\ ret' = [ret EXCEPT ![p] = l]

\* The part of fileclose after the lock: pipeclose, or begin_op, iput, end_op.
releaseObj(p) ==
    /\ at(p, "release")
    /\ ends' = [q \in Pages |-> {w \in ends[q] : ff[p] # PipeObj(q, w)}]
    /\ iref' = [i \in Inodes |-> IF ff[p] = InodeObj(i) THEN iref[i] - 1 ELSE iref[i]]
    /\ goto(p, ret[p])
    /\ ret' = [ret EXCEPT ![p] = "idle"] /\ ff' = [ff EXCEPT ![p] = FD_NONE]
    /\ UNCHANGED <<ref, obj, ofile, alive, inop, local, panicked>>

-----------------------------------------------------------------------------
\* sys_close clears the descriptor first.
sys_close(p, d) ==
    /\ at(p, "idle") /\ d \in OpenFds(p)
    /\ IF NoRef(ofile[p][d]) THEN panic
       ELSE /\ ofile' = [ofile EXCEPT ![p][d] = 0]
            /\ Drop(p, ofile[p][d], "idle")
            /\ UNCHANGED <<alive, objVars, local, panicked>>

\* sys_dup: the new descriptor is set before filedup counts it.
sys_dup(p, d) ==
    /\ at(p, "idle") /\ d \in OpenFds(p) /\ FreeFds(p) # {}
    /\ fd' = [fd EXCEPT ![p] = Min(FreeFds(p))]
    /\ ofile' = [ofile EXCEPT ![p][Min(FreeFds(p))] = ofile[p][d]]
    /\ goto(p, "dup")
    /\ UNCHANGED <<ref, obj, alive, objVars, ret, hand, arg, ff, panicked>>

dupCount(p) ==
    /\ at(p, "dup")
    /\ IF NoRef(ofile[p][fd[p]]) THEN panic
       ELSE /\ Dup(ofile[p][fd[p]])
            /\ fd' = [fd EXCEPT ![p] = 0]
            /\ goto(p, "idle")
            /\ UNCHANGED <<obj, ofile, alive, objVars, ret, hand, arg, ff, panicked>>

-----------------------------------------------------------------------------
(***************************************************************************)
(* sys_open: namei or create gives a reference to the inode; filealloc and *)
(* fdalloc happen inside the operation; f->type is set after end_op.       *)
(***************************************************************************)
sys_open(p, i) ==
    /\ at(p, "idle")
    /\ inop' = [inop EXCEPT ![p] = TRUE]
    /\ iref' = [iref EXCEPT ![i] = @ + 1]
    /\ arg' = [arg EXCEPT ![p] = i]
    /\ goto(p, "open")
    /\ UNCHANGED <<ref, obj, ofile, alive, ends, ret, hand, fd, ff, panicked>>

\* Mutant: the error path forgets iunlockput.
openAbort_KeepInode(p) ==
    /\ inop' = [inop EXCEPT ![p] = FALSE]
    /\ arg' = [arg EXCEPT ![p] = root]
    /\ goto(p, "idle")
    /\ UNCHANGED <<iref, ends>>

\* iunlockput(ip); end_op(); return -1.
openAbort(p) ==
    /\ iref' = [iref EXCEPT ![arg[p]] = @ - 1]
    /\ inop' = [inop EXCEPT ![p] = FALSE]
    /\ arg' = [arg EXCEPT ![p] = root]
    /\ goto(p, "idle")
    /\ UNCHANGED ends

openNoFile(p) ==
    /\ at(p, "open") /\ FreeFiles = {}
    /\ openAbort(p)
    /\ UNCHANGED <<ref, obj, ofile, alive, ret, hand, fd, ff, panicked>>

openFile(p) ==
    /\ at(p, "open") /\ FreeFiles # {}
    /\ LET f == Min(FreeFiles)
       IN  /\ ref' = [ref EXCEPT ![f] = 1]
           /\ hand' = [hand EXCEPT ![p] = <<f>>]
           /\ IF FreeFds(p) = {}
              THEN goto(p, "openFail") /\ UNCHANGED <<ofile, inop>>
              ELSE /\ ofile' = [ofile EXCEPT ![p][Min(FreeFds(p))] = f]
                   /\ inop' = [inop EXCEPT ![p] = FALSE]
                   /\ goto(p, "opened")
    /\ UNCHANGED <<obj, alive, ends, iref, ret, arg, fd, ff, panicked>>

openSet(p) ==
    /\ at(p, "opened")
    /\ obj' = [obj EXCEPT ![hand[p][1]] = InodeObj(arg[p])]
    /\ hand' = [hand EXCEPT ![p] = <<>>]
    /\ arg' = [arg EXCEPT ![p] = root]
    /\ goto(p, "idle")
    /\ UNCHANGED <<ref, ofile, alive, objVars, ret, fd, ff, panicked>>

\* No descriptor: fileclose(f), still inside the operation, then iunlockput.
openFail(p) ==
    /\ at(p, "openFail")
    /\ IF NoRef(hand[p][1]) THEN panic
       ELSE /\ Drop(p, hand[p][1], "openUndo")
            /\ hand' = [hand EXCEPT ![p] = <<>>]
            /\ UNCHANGED <<ofile, alive, objVars, arg, fd, panicked>>

openUndo(p) ==
    /\ at(p, "openUndo")
    /\ openAbort(p)
    /\ UNCHANGED <<ref, obj, ofile, alive, ret, hand, fd, ff, panicked>>

-----------------------------------------------------------------------------
(***************************************************************************)
(* sys_pipe and pipealloc: two files, a page, two descriptors; any of them *)
(* may be missing, and what was taken is given back.                       *)
(***************************************************************************)
pipeFile(p) ==
    LET f == Min(FreeFiles)
    IN  /\ ref' = [ref EXCEPT ![f] = 1]
        /\ hand' = [hand EXCEPT ![p] = Append(@, f)]

sys_pipe(p) ==
    /\ at(p, "idle") /\ FreeFiles # {}
    /\ pipeFile(p)
    /\ goto(p, "pipe2")
    /\ UNCHANGED <<obj, ofile, alive, objVars, ret, arg, fd, ff, panicked>>

pipeSecond(p) ==
    /\ at(p, "pipe2")
    /\ IF FreeFiles = {}
       THEN goto(p, "pipeBad") /\ UNCHANGED <<ref, hand>>
       ELSE goto(p, "pipe3") /\ pipeFile(p)
    /\ UNCHANGED <<obj, ofile, alive, objVars, ret, arg, fd, ff, panicked>>

FreePages == {q \in Pages : ends[q] = {}}

\* The rest of pipealloc: page q becomes the pipe of both files.
pipealloc(p, q) ==
    /\ ends' = [ends EXCEPT ![q] = BOOLEAN]
    /\ obj' = [obj EXCEPT ![hand[p][1]] = PipeObj(q, FALSE), ![hand[p][2]] = PipeObj(q, TRUE)]

\* The pipe, if kalloc has a page, and then fdalloc for each of the files.
pipeFds(p) ==
    /\ at(p, "pipe3")
    /\ IF FreePages = {}
       THEN goto(p, "pipeBad") /\ UNCHANGED <<obj, ofile, ends, hand>>
       ELSE \E q \in FreePages :
            /\ pipealloc(p, q)
            /\ IF Cardinality(FreeFds(p)) < 2
               THEN goto(p, "pipeBad") /\ UNCHANGED <<ofile, hand>>
               ELSE LET d == Min(FreeFds(p))
                    IN  /\ ofile' = [ofile EXCEPT ![p] = [@ EXCEPT ![d] = hand[p][1],
                                         ![Min(FreeFds(p) \ {d})] = hand[p][2]]]
                        /\ hand' = [hand EXCEPT ![p] = <<>>]
                        /\ goto(p, "idle")
    /\ UNCHANGED <<ref, alive, iref, inop, ret, arg, fd, ff, panicked>>

pipeBad(p) ==
    /\ at(p, "pipeBad")
    /\ IF hand[p] = <<>>
       THEN goto(p, "idle") /\ UNCHANGED <<ref, obj, ofile, alive, objVars, ret, local, ff, panicked>>
       ELSE IF NoRef(Head(hand[p])) THEN panic
       ELSE /\ Drop(p, Head(hand[p]), "pipeBad")
            /\ hand' = [hand EXCEPT ![p] = Tail(@)]
            /\ UNCHANGED <<ofile, alive, objVars, arg, fd, panicked>>

-----------------------------------------------------------------------------
(***************************************************************************)
(* fork copies the descriptors one by one; the child does not run yet.     *)
(***************************************************************************)
fork(p, c) ==
    /\ at(p, "idle")
    /\ c \notin alive /\ \A q \in alive : pc[q] = "fork" => arg[q] # c
    /\ arg' = [arg EXCEPT ![p] = c]
    /\ goto(p, "fork")
    /\ UNCHANGED <<ref, obj, ofile, alive, objVars, ret, hand, fd, ff, panicked>>

ToCopy(p) == {d \in OpenFds(p) : ofile[arg[p]][d] = 0}

\* Mutant: the descriptor is copied without filedup.
forkFile_NoDup(p) ==
    /\ at(p, "fork") /\ ToCopy(p) # {}
    /\ ofile' = [ofile EXCEPT ![arg[p]][Min(ToCopy(p))] = ofile[p][Min(ToCopy(p))]]
    /\ UNCHANGED <<ref, obj, alive, objVars, pc, ret, local, ff, panicked>>

forkFile(p) ==
    /\ at(p, "fork") /\ ToCopy(p) # {}
    /\ LET d == Min(ToCopy(p))
       IN  IF NoRef(ofile[p][d]) THEN panic
           ELSE /\ Dup(ofile[p][d])
                /\ ofile' = [ofile EXCEPT ![arg[p]][d] = ofile[p][d]]
                /\ UNCHANGED <<obj, alive, objVars, pc, ret, local, ff, panicked>>

forkDone(p) ==
    /\ at(p, "fork") /\ ToCopy(p) = {}
    /\ alive' = alive \cup {arg[p]}
    /\ arg' = [arg EXCEPT ![p] = root]
    /\ goto(p, "idle")
    /\ UNCHANGED <<ref, obj, ofile, objVars, ret, hand, fd, ff, panicked>>

\* Mutant: exit begins the operation for its directory before it closes files.
exit_OpFirst(p) ==
    /\ at(p, "idle") /\ p # root
    /\ goto(p, "exit")
    /\ inop' = [inop EXCEPT ![p] = TRUE]
    /\ UNCHANGED <<ref, obj, ofile, alive, ends, iref, ret, local, ff, panicked>>

\* exit clears a descriptor after fileclose has returned.
exit(p) ==
    /\ at(p, "idle") /\ p # root
    /\ goto(p, "exit")
    /\ UNCHANGED <<ref, obj, ofile, alive, objVars, ret, local, ff, panicked>>

exitClose(p) ==
    /\ at(p, "exit") /\ OpenFds(p) # {}
    /\ LET d == Min(OpenFds(p))
       IN  IF NoRef(ofile[p][d]) THEN panic
           ELSE /\ Drop(p, ofile[p][d], "exitClear")
                /\ fd' = [fd EXCEPT ![p] = d]
                /\ UNCHANGED <<ofile, alive, objVars, hand, arg, panicked>>

exitClear(p) ==
    /\ at(p, "exitClear")
    /\ ofile' = [ofile EXCEPT ![p][fd[p]] = 0]
    /\ fd' = [fd EXCEPT ![p] = 0]
    /\ goto(p, "exit")
    /\ UNCHANGED <<ref, obj, alive, objVars, ret, hand, arg, ff, panicked>>

exitDone(p) ==
    /\ at(p, "exit") /\ OpenFds(p) = {}
    /\ alive' = alive \ {p}
    /\ goto(p, "idle")
    /\ UNCHANGED <<ref, obj, ofile, objVars, ret, local, ff, panicked>>

Next ==
    \E p \in Procs :
        \/ releaseObj(p) \/ dupCount(p)
        \/ openNoFile(p) \/ openFile(p) \/ openSet(p) \/ openFail(p) \/ openUndo(p)
        \/ sys_pipe(p) \/ pipeSecond(p) \/ pipeFds(p) \/ pipeBad(p)
        \/ forkFile(p) \/ forkDone(p)
        \/ exit(p) \/ exitClose(p) \/ exitClear(p) \/ exitDone(p)
        \/ \E d \in FDs : sys_close(p, d) \/ sys_dup(p, d)
        \/ \E i \in Inodes : sys_open(p, i)
        \/ \E c \in Procs : fork(p, c)

Spec == Init /\ [][Next]_vars

-----------------------------------------------------------------------------
(***************************************************************************)
(* Properties.                                                             *)
(***************************************************************************)
\* Descriptors whose reference is not counted: set by dup and not yet counted,
\* or given up by exit and not yet cleared.
Uncounted(p) ==
    {d \in FDs : /\ p \in alive /\ d = fd[p]
                 /\ pc[p] \in {"dup", "exitClear"} \/ (pc[p] = "release" /\ ret[p] = "exitClear")}

DescriptorsOf(f) ==
    {x \in Procs \X FDs : ofile[x[1]][x[2]] = f /\ x[2] \notin Uncounted(x[1])}

\* Files in the hands of a call that have no descriptor yet.
HandsOf(f) ==
    {x \in Procs \X (1 .. 2) : /\ x[2] \in DOMAIN hand[x[1]] /\ hand[x[1]][x[2]] = f
                               /\ pc[x[1]] # "opened"}

\* The reference count of a file is the number of descriptors and of calls that
\* have it, whatever calls are under way in other processes.
RefCount ==
    \A f \in Files : ref[f] = Cardinality(DescriptorsOf(f)) + Cardinality(HandsOf(f))

Releasing(p) == p \in alive /\ pc[p] = "release"

\* Nothing leaks: a pipe end is open, and an inode is referenced, exactly for
\* the files and the calls that have it.
ObjectsHaveOwners ==
    /\ \A q \in Pages, w \in BOOLEAN :
        w \in ends[q] <=> \/ \E f \in Files : obj[f] = PipeObj(q, w)
                          \/ \E p \in Procs : Releasing(p) /\ ff[p] = PipeObj(q, w)
    /\ \A i \in Inodes :
        iref[i] = Cardinality({f \in Files : obj[f] = InodeObj(i)})
                    + Cardinality({p \in Procs : Releasing(p) /\ ff[p] = InodeObj(i)})
                    + Cardinality({p \in Procs : arg[p] = i /\
                          \/ pc[p] \in {"open", "opened", "openFail", "openUndo"}
                          \/ Releasing(p) /\ ret[p] = "openUndo"})

\* fileclose never starts a log operation inside another one of the same process,
\* although sys_open calls it between begin_op and end_op: begin_op would then
\* wait for an end_op that only its own caller can make.
NoNestedOp == \A p \in alive : pc[p] = "release" /\ inop[p] => ff[p][1] # "inode"
=============================================================================
