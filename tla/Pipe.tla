-------------------------------- MODULE Pipe --------------------------------
(***************************************************************************)
(* A pipe (pipe.c) shared by processes that hold its read end or its write *)
(* end, and what fileclose does with the last holder of an end.            *)
(*                                                                         *)
(* An action is one critical section of p->lock: from acquire, or from the *)
(* return of sleep, to the next sleep or to the release.  nread and nwrite *)
(* are unsigned and wrap around.  wakeup wakes the first sleeper only (see *)
(* ProcTable); kill may or may not wake its victim.                        *)
(***************************************************************************)
EXTENDS Integers, Sequences, FiniteSets, FiniteSetsExt

CONSTANTS Readers,    \* processes that have the read end open
          Writers,    \* processes that have the write end open
          Byte,       \* values of a byte
          Users,      \* those of them that read or write; the others only close
          PIPESIZE,
          UINT,       \* one more than the largest uint
          Messages,   \* what programs pass to write
          ReadSizes,  \* the sizes they pass to read
          Killable    \* processes that are killed

ASSUME PipeAssumption ==
    /\ PIPESIZE \in Nat \ {0} /\ UINT \in Nat /\ PIPESIZE < UINT /\ UINT % PIPESIZE = 0
    /\ Messages \subseteq Seq(Byte) \ {<<>>} /\ ReadSizes \subseteq Nat \ {0}
    /\ Readers \cap Writers = {} /\ Killable \subseteq Readers \cup Writers
    /\ Users \subseteq Readers \cup Writers

Procs == Readers \cup Writers

VARIABLES data, nread, nwrite, readopen, writeopen,
          freed,    \* the page of the pipe has been given back
          sleepR,   \* processes asleep on &p->nread, in the order of the sleep list
          sleepW,   \* processes asleep on &p->nwrite
          pc,       \* "idle" outside of the pipe calls, "closed" when the end is closed
          todo,     \* bytes still to write
          want,     \* size of the read
          got,      \* bytes the last read returned
          killed

vars == <<data, nread, nwrite, readopen, writeopen, freed, sleepR, sleepW, pc, todo,
          want, got, killed>>
bufVars == <<data, nread, nwrite>>
endVars == <<readopen, writeopen, freed>>

\* Every variable has its type; the counters stay unsigned integers.
TypeOK ==
    /\ data \in [0 .. PIPESIZE - 1 -> Byte]
    /\ nread \in 0 .. UINT - 1 /\ nwrite \in 0 .. UINT - 1
    /\ readopen \in BOOLEAN /\ writeopen \in BOOLEAN /\ freed \in BOOLEAN
    /\ sleepR \in Seq(Procs) /\ sleepW \in Seq(Procs)
    /\ pc \in [Procs -> {"idle", "call", "asleep", "closed"}]
    /\ todo \in [Writers -> Seq(Byte)]
    /\ want \in [Readers -> Nat]
    /\ got \in [Readers -> Seq(Byte)]
    /\ killed \in [Procs -> BOOLEAN]

\* pipealloc; the page from kalloc holds arbitrary bytes.
Init ==
    /\ \E b \in Byte : data = [i \in 0 .. PIPESIZE - 1 |-> b]
    /\ nread = 0 /\ nwrite = 0
    /\ readopen = TRUE /\ writeopen = TRUE /\ freed = FALSE
    /\ sleepR = <<>> /\ sleepW = <<>>
    /\ pc = [p \in Procs |-> "idle"]
    /\ todo = [w \in Writers |-> <<>>]
    /\ want = [r \in Readers |-> 0]
    /\ got = [r \in Readers |-> <<>>]
    /\ killed = [p \in Procs |-> FALSE]

-----------------------------------------------------------------------------
\* Bytes in the pipe, by unsigned subtraction.
count == (nwrite - nread + UINT) % UINT

\* The test for a full pipe after k more bytes, as the loop of pipewrite makes it.
\* Mutant: the pipe is full one byte too late.
fullAfter_OneMore(k) == (nwrite + k) % UINT = (nread + PIPESIZE + 1) % UINT

fullAfter(k) == (nwrite + k) % UINT = (nread + PIPESIZE) % UINT

\* The first sleeper of a channel, if any.
first(s) == {s[i] : i \in {j \in DOMAIN s : j = 1}}
rest(s) == IF s = <<>> THEN <<>> ELSE Tail(s)

\* p moves to place where, and the processes in woken run on.
go(p, where, woken) ==
    pc' = [q \in Procs |-> IF q = p THEN where ELSE IF q \in woken THEN "call" ELSE pc[q]]

-----------------------------------------------------------------------------
(***************************************************************************)
(* pipewrite.                                                              *)
(***************************************************************************)
\* write(fd, s, n): trap lets no killed process start a system call.
startWrite(w, s) ==
    /\ w \in Users /\ pc[w] = "idle" /\ ~ killed[w]
    /\ todo' = [todo EXCEPT ![w] = s]
    /\ pc' = [pc EXCEPT ![w] = "call"]
    /\ UNCHANGED <<bufVars, endVars, sleepR, sleepW, want, got, killed>>

\* How many bytes the loop stores before it ends or finds the pipe full.
stored(w) == Min({Len(todo[w])} \cup {k \in 0 .. Len(todo[w]) : fullAfter(k)})

store(w, k) ==
    /\ data' = [i \in DOMAIN data |->
                  IF \E j \in 1 .. k : (nwrite + j - 1) % PIPESIZE = i
                  THEN todo[w][CHOOSE j \in 1 .. k : (nwrite + j - 1) % PIPESIZE = i]
                  ELSE data[i]]
    /\ nwrite' = (nwrite + k) % UINT
    /\ todo' = [todo EXCEPT ![w] = SubSeq(@, k + 1, Len(@))]

pipewrite(w) ==
    /\ pc[w] = "call"
    /\ store(w, stored(w))
    /\ IF todo'[w] = <<>>
       THEN /\ go(w, "idle", first(sleepR))
            /\ sleepR' = rest(sleepR)
            /\ UNCHANGED sleepW
       ELSE IF ~ readopen \/ killed[w]
       THEN go(w, "idle", {}) /\ UNCHANGED <<sleepR, sleepW>>
       ELSE /\ go(w, "asleep", first(sleepR))
            /\ sleepR' = rest(sleepR)
            /\ sleepW' = Append(sleepW, w)
    /\ UNCHANGED <<nread, endVars, want, got, killed>>

-----------------------------------------------------------------------------
(***************************************************************************)
(* piperead.                                                               *)
(***************************************************************************)
startRead(r, n) ==
    /\ r \in Users /\ pc[r] = "idle" /\ ~ killed[r]
    /\ want' = [want EXCEPT ![r] = n]
    /\ pc' = [pc EXCEPT ![r] = "call"]
    /\ UNCHANGED <<bufVars, endVars, sleepR, sleepW, todo, got, killed>>

\* The pipe is empty and may still be written to.
pipereadEmpty(r) ==
    /\ pc[r] = "call" /\ nread = nwrite /\ writeopen
    /\ IF killed[r]
       THEN pc' = [pc EXCEPT ![r] = "idle"] /\ UNCHANGED sleepR
       ELSE pc' = [pc EXCEPT ![r] = "asleep"] /\ sleepR' = Append(sleepR, r)
    /\ UNCHANGED <<bufVars, endVars, sleepW, todo, want, got, killed>>

\* How many bytes the loop reads before it ends or finds the pipe empty.
taken(r) == Min({want[r]} \cup {k \in 0 .. want[r] : (nread + k) % UINT = nwrite})

\* Mutant: no wakeup of the writers.
piperead_NoWakeup(r) ==
    /\ pc[r] = "call" /\ ~ (nread = nwrite /\ writeopen)
    /\ got' = [got EXCEPT ![r] = [j \in 1 .. taken(r) |-> data[(nread + j - 1) % PIPESIZE]]]
    /\ nread' = (nread + taken(r)) % UINT
    /\ pc' = [pc EXCEPT ![r] = "idle"]
    /\ UNCHANGED <<data, nwrite, endVars, sleepR, sleepW, todo, want, killed>>

piperead(r) ==
    /\ pc[r] = "call" /\ ~ (nread = nwrite /\ writeopen)
    /\ got' = [got EXCEPT ![r] = [j \in 1 .. taken(r) |-> data[(nread + j - 1) % PIPESIZE]]]
    /\ nread' = (nread + taken(r)) % UINT
    /\ go(r, "idle", first(sleepW))
    /\ sleepW' = rest(sleepW)
    /\ UNCHANGED <<data, nwrite, endVars, sleepR, todo, want, killed>>

-----------------------------------------------------------------------------
(***************************************************************************)
(* fileclose by a process that is not in a call; the last one to close an  *)
(* end calls pipeclose, which frees the pipe with the second end.          *)
(***************************************************************************)
\* Mutant: the reference count is not looked at.
LastOf_NoCount(p, ends) == TRUE

LastOf(p, ends) == \A q \in ends \ {p} : pc[q] = "closed"

\* Mutant: the readers are not woken.
pipecloseWrite_NoWakeup(p) ==
    /\ writeopen' = FALSE
    /\ pc' = [pc EXCEPT ![p] = "closed"]
    /\ freed' = ~ readopen
    /\ UNCHANGED <<readopen, sleepR, sleepW>>

pipecloseWrite(p) ==
    /\ writeopen' = FALSE
    /\ go(p, "closed", first(sleepR))
    /\ sleepR' = rest(sleepR)
    /\ freed' = ~ readopen
    /\ UNCHANGED <<readopen, sleepW>>

pipecloseRead(p) ==
    /\ readopen' = FALSE
    /\ go(p, "closed", first(sleepW))
    /\ sleepW' = rest(sleepW)
    /\ freed' = ~ writeopen
    /\ UNCHANGED <<writeopen, sleepR>>

fileclose(p) ==
    /\ pc[p] = "idle"
    /\ \/ p \in Writers /\ LastOf(p, Writers) /\ pipecloseWrite(p)
       \/ p \in Readers /\ LastOf(p, Readers) /\ pipecloseRead(p)
       \/ /\ ~ LastOf(p, IF p \in Writers THEN Writers ELSE Readers)
          /\ pc' = [pc EXCEPT ![p] = "closed"]
          /\ UNCHANGED <<endVars, sleepR, sleepW>>
    /\ UNCHANGED <<bufVars, todo, want, got, killed>>

\* kill: the victim is woken if it is the head of the sleep list of the kernel.
kill(p) ==
    /\ p \in Killable /\ ~ killed[p] /\ pc[p] # "closed"
    /\ killed' = [killed EXCEPT ![p] = TRUE]
    /\ \/ UNCHANGED <<pc, sleepR, sleepW>>
       \/ /\ pc[p] = "asleep"
          /\ pc' = [pc EXCEPT ![p] = "call"]
          /\ sleepR' = SelectSeq(sleepR, LAMBDA q : q # p)
          /\ sleepW' = SelectSeq(sleepW, LAMBDA q : q # p)
    /\ UNCHANGED <<bufVars, endVars, todo, want, got>>

\* Everybody has closed; the processes go on to other things.
done == /\ \A p \in Procs : pc[p] = "closed"
        /\ UNCHANGED vars

Next ==
    \/ \E w \in Writers : pipewrite(w) \/ \E s \in Messages : startWrite(w, s)
    \/ \E r \in Readers : pipereadEmpty(r) \/ piperead(r) \/ \E n \in ReadSizes : startRead(r, n)
    \/ \E p \in Procs : fileclose(p) \/ kill(p)
    \/ done

Spec == Init /\ [][Next]_vars

(***************************************************************************)
(* Fairness: a process in a call goes on, and a reader that is not in a    *)
(* call reads again or closes (it does not hold the pipe open unread).     *)
(* Writers need not write or close, except that trap makes a killed one    *)
(* exit, which closes its files.                                           *)
(***************************************************************************)
FairSpec ==
    /\ Spec
    /\ \A w \in Writers : WF_vars(pipewrite(w)) /\ WF_vars(killed[w] /\ fileclose(w))
    /\ \A r \in Readers :
        /\ WF_vars(pipereadEmpty(r) \/ piperead(r))
        /\ WF_vars(fileclose(r) \/ \E n \in ReadSizes : startRead(r, n))

-----------------------------------------------------------------------------
(***************************************************************************)
(* Properties.                                                             *)
(***************************************************************************)
inPipe == [j \in 1 .. count |-> data[(nread + j - 1) % PIPESIZE]]

Queue == INSTANCE Fifo WITH q <- inPipe, Capacity <- PIPESIZE

\* Bytes leave the pipe in the order in which they were stored, each once,
\* across the end of the buffer and the wrap-around of the counters.
FifoStep == [][Queue!Next]_(Queue!vars)

\* The pipe is given back exactly when both ends are closed, and nobody is
\* then inside a call on it or asleep on its channels.
NoUseAfterFree ==
    /\ freed <=> \A p \in Procs : pc[p] = "closed"
    /\ freed => sleepR = <<>> /\ sleepW = <<>>

\* With one process that reads, a sleeping reader is not forgotten: when the pipe
\* has bytes, or no writer is left, the call goes on.  A killed writer that filled
\* the pipe returns without waking the reader; the wakeup comes when its exit
\* closes the write end.
ReadReturns ==
    \A r \in Readers : (pc[r] = "asleep" /\ (nread # nwrite \/ ~ writeopen)) ~> (pc[r] # "asleep")

\* With one writer every write returns: it stores all its bytes, or fails because the read end
\* was closed or the process was killed.
WriteReturns == \A w \in Writers : (pc[w] \in {"call", "asleep"}) ~> (pc[w] \in {"idle", "closed"})
=============================================================================
