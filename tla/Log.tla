-------------------------------- MODULE Log --------------------------------
(***************************************************************************)
(* The redo log of the file system (log.c), used by file system calls that *)
(* run concurrently, with crashes at any moment and recovery at boot.      *)
(*                                                                         *)
(* Block numbers are relative to log.start: 0 is the header, 1..nlog-1 the *)
(* log blocks, and the blocks after them are the inodes, bitmap and data   *)
(* that are the home locations of what is logged.  A disk write changes    *)
(* one block and is atomic; a crash falls between two of them.             *)
(***************************************************************************)
EXTENDS Integers, Sequences, FiniteSets

CONSTANTS Callers,      \* processes that make file system calls
          NHOME,        \* number of home blocks
          Values,       \* contents of a block
          MAXOPBLOCKS,  \* blocks begin_op reserves for a call
          LOGSIZE,      \* entries in the header
          nlog          \* sb.nlog, which mkfs sets: log.size

ASSUME LogAssumption ==
    /\ NHOME \in Nat \ {0} /\ MAXOPBLOCKS \in Nat \ {0} /\ LOGSIZE \in Nat \ {0}
    /\ nlog \in Nat \ {0} /\ MAXOPBLOCKS <= LOGSIZE
    /\ Values # {} /\ IsFiniteSet(Callers)

Home == nlog .. nlog + NHOME - 1
DataBlocks == 1 .. nlog + NHOME - 1

VARIABLES disk,         \* the blocks on the disk, except the header
          head,         \* the header on the disk: its n block numbers
          cache,        \* what bread returns: the buffer if cached, or the disk
          lh,           \* log.lh: the n block numbers
          outstanding,  \* log.outstanding
          committing,   \* log.committing
          sleepers,     \* processes asleep on &log, in the order of the sleep list
          pc,           \* where a process is
          buf,          \* the B_BUSY buffer a process is writing, or 0
          phase,        \* where commit() or recover_from_log() is
          tail          \* the loop variable of write_log and install_trans, from 1

vars == <<disk, head, cache, lh, outstanding, committing, sleepers, pc, buf,
          phase, tail>>
diskVars == <<disk, head>>
commitVars == <<phase, tail>>
callVars == <<sleepers, pc, buf>>

\* A call between begin_op and end_op.
InCall == {"op", "log_write", "panic"}

\* Every variable has its type; in particular the log never holds more entries
\* than there are blocks, because log_write absorbs repeated writes.
TypeOK ==
    /\ disk \in [DataBlocks -> Values]
    /\ head \in Seq(Home)
    /\ cache \in [DataBlocks -> Values]
    /\ lh \in Seq(Home)
    /\ outstanding \in Nat
    /\ committing \in BOOLEAN
    /\ sleepers \in Seq(Callers)
    /\ pc \in [Callers -> {"idle", "begin_op", "asleep", "commit"} \cup InCall]
    /\ buf \in [Callers -> Home \cup {0}]
    /\ phase \in {"idle", "write_log", "install_trans", "done", "read_head"}
    /\ tail \in 1 .. NHOME + 1

\* mkfs has made the disk; initlog starts.
Init ==
    /\ disk \in [DataBlocks -> Values]
    /\ head = <<>>
    /\ cache = disk
    /\ lh = <<>>
    /\ outstanding = 0
    /\ committing = FALSE
    /\ sleepers = <<>>
    /\ pc = [p \in Callers |-> "idle"]
    /\ buf = [p \in Callers |-> 0]
    /\ phase = "read_head"
    /\ tail = 1

-----------------------------------------------------------------------------
(***************************************************************************)
(* Boot.  read_head copies the header into memory; install_trans and the   *)
(* erasure below are shared with commit().                                 *)
(***************************************************************************)
Recovering == ~ committing /\ phase # "idle"

read_head ==
    /\ phase = "read_head"
    /\ lh' = head
    /\ phase' = "install_trans"
    /\ UNCHANGED <<diskVars, cache, outstanding, committing, callVars, tail>>

(***************************************************************************)
(* begin_op and end_op: one critical section of log.lock each.  wakeup     *)
(* wakes the first sleeper only (see ProcTable).                           *)
(***************************************************************************)
NoRoom == Len(lh) + (outstanding + 1) * MAXOPBLOCKS > LOGSIZE

begin_op(p) ==
    /\ pc[p] \in {"idle", "begin_op"} /\ ~ Recovering
    /\ IF committing \/ NoRoom
       THEN /\ sleepers' = Append(sleepers, p)
            /\ pc' = [pc EXCEPT ![p] = "asleep"]
            /\ UNCHANGED outstanding
       ELSE /\ outstanding' = outstanding + 1
            /\ pc' = [pc EXCEPT ![p] = "op"]
            /\ UNCHANGED sleepers
    /\ UNCHANGED <<diskVars, cache, lh, committing, buf, commitVars>>

\* wakeup(&log), by process p which goes on at place where.
wakeup(p, where) ==
    IF sleepers = <<>>
    THEN pc' = [pc EXCEPT ![p] = where] /\ UNCHANGED sleepers
    ELSE /\ pc' = [pc EXCEPT ![p] = where, ![Head(sleepers)] = "begin_op"]
         /\ sleepers' = Tail(sleepers)

\* Mutant: the last call leaves without committing.
end_op_NoCommit(p) ==
    /\ pc[p] = "op"
    /\ outstanding' = outstanding - 1
    /\ wakeup(p, "idle")
    /\ UNCHANGED <<diskVars, cache, lh, committing, buf, commitVars>>

end_op(p) ==
    /\ pc[p] = "op"
    /\ outstanding' = outstanding - 1
    /\ IF committing
       THEN /\ pc' = [pc EXCEPT ![p] = "panic"]
            /\ UNCHANGED <<committing, sleepers, commitVars>>
       ELSE IF outstanding = 1
       THEN /\ committing' = TRUE
            /\ pc' = [pc EXCEPT ![p] = "commit"]
            /\ phase' = IF lh = <<>> THEN "done" ELSE "write_log"
            /\ tail' = 1
            /\ UNCHANGED sleepers
       ELSE /\ wakeup(p, "idle")
            /\ UNCHANGED <<committing, commitVars>>
    /\ UNCHANGED <<diskVars, cache, lh, buf>>

-----------------------------------------------------------------------------
(***************************************************************************)
(* log_write(b), called after the caller, which holds b, changed its data. *)
(* The tests for panic are made before log.lock is taken.                  *)
(***************************************************************************)
TooBig == Len(lh) >= LOGSIZE \/ Len(lh) >= nlog - 1

log_writeCheck(p, b, v) ==
    /\ pc[p] = "op" /\ \A q \in Callers : buf[q] # b
    /\ cache' = [cache EXCEPT ![b] = v]
    /\ buf' = [buf EXCEPT ![p] = b]
    /\ pc' = [pc EXCEPT ![p] = IF TooBig \/ outstanding < 1 THEN "panic" ELSE "log_write"]
    /\ UNCHANGED <<diskVars, lh, outstanding, committing, sleepers, commitVars>>

\* A block that is in the log already is absorbed.
absorbed(b) == \E i \in DOMAIN lh : lh[i] = b

log_write(p) ==
    /\ pc[p] = "log_write"
    /\ lh' = IF absorbed(buf[p]) THEN lh ELSE Append(lh, buf[p])
    /\ buf' = [buf EXCEPT ![p] = 0]
    /\ pc' = [pc EXCEPT ![p] = "op"]
    /\ UNCHANGED <<diskVars, cache, outstanding, committing, sleepers, commitVars>>

-----------------------------------------------------------------------------
(***************************************************************************)
(* commit(): one action per block written to the disk.                     *)
(***************************************************************************)
\* Copies block from to block to in the cache and writes it to the disk.
copyBlock(from, to) ==
    /\ cache' = [cache EXCEPT ![to] = cache[from]]
    /\ disk' = [disk EXCEPT ![to] = cache[from]]

write_log ==
    /\ phase = "write_log" /\ tail <= Len(lh)
    /\ copyBlock(lh[tail], tail)
    /\ tail' = tail + 1
    /\ UNCHANGED <<head, lh, outstanding, committing, callVars, phase>>

\* write_head() after write_log(): the transaction commits.
write_head ==
    /\ phase = "write_log" /\ tail = Len(lh) + 1
    /\ head' = lh
    /\ phase' = "install_trans"
    /\ tail' = 1
    /\ UNCHANGED <<disk, cache, lh, outstanding, committing, callVars>>

install_trans ==
    /\ phase = "install_trans" /\ tail <= Len(lh)
    /\ copyBlock(tail, lh[tail])
    /\ tail' = tail + 1
    /\ UNCHANGED <<head, lh, outstanding, committing, callVars, phase>>

\* Mutant: the header is cleared before the blocks are installed.
erase_Early ==
    /\ phase = "install_trans" /\ tail = 1
    /\ head' = <<>>
    /\ lh' = <<>>
    /\ phase' = IF committing THEN "done" ELSE "idle"
    /\ UNCHANGED <<disk, cache, outstanding, committing, callVars, tail>>

\* log.lh.n = 0 and write_head(), at the end of commit and of recovery.
erase ==
    /\ phase = "install_trans" /\ tail = Len(lh) + 1
    /\ lh' = <<>>
    /\ head' = <<>>
    /\ phase' = IF committing THEN "done" ELSE "idle"
    /\ tail' = 1
    /\ UNCHANGED <<disk, cache, outstanding, committing, callVars>>

\* Mutant: nobody is woken after the commit.
commitDone_NoWakeup(p) ==
    /\ pc[p] = "commit" /\ phase = "done"
    /\ committing' = FALSE
    /\ phase' = "idle"
    /\ pc' = [pc EXCEPT ![p] = "idle"]
    /\ UNCHANGED <<diskVars, cache, lh, outstanding, sleepers, buf, tail>>

\* The rest of end_op after commit().
commitDone(p) ==
    /\ pc[p] = "commit" /\ phase = "done"
    /\ committing' = FALSE
    /\ phase' = "idle"
    /\ wakeup(p, "idle")
    /\ UNCHANGED <<diskVars, cache, lh, outstanding, buf, tail>>

\* The machine stops at any point and is started again.
crash ==
    /\ cache' = disk
    /\ lh' = <<>>
    /\ outstanding' = 0
    /\ committing' = FALSE
    /\ sleepers' = <<>>
    /\ pc' = [p \in Callers |-> "idle"]
    /\ buf' = [p \in Callers |-> 0]
    /\ phase' = "read_head"
    /\ tail' = 1
    /\ UNCHANGED diskVars

Next ==
    \/ read_head \/ write_log \/ write_head \/ install_trans \/ erase \/ crash
    \/ \E p \in Callers :
        \/ begin_op(p) \/ end_op(p) \/ log_write(p) \/ commitDone(p)
        \/ \E b \in Home, v \in Values : log_writeCheck(p, b, v)

Spec == Init /\ [][Next]_vars

-----------------------------------------------------------------------------
(***************************************************************************)
(* Properties.                                                             *)
(***************************************************************************)
Active == {p \in Callers : pc[p] \in InCall}

\* What recovery would make of the disk as it is now.
Recovered ==
    [b \in Home |-> IF \E i \in DOMAIN head : head[i] = b
                    THEN disk[CHOOSE i \in DOMAIN head : head[i] = b] ELSE disk[b]]

\* What file system calls see, or will see when recovery is over.
Current == IF Recovering THEN Recovered ELSE [b \in Home |-> cache[b]]

Atomic == INSTANCE AtomicDisk WITH cur <- Current, durable <- Recovered, active <- Active

\* The log is an atomic disk: after a crash at any moment, also one during
\* recovery, the disk has the contents it had at some moment at which no call
\* was in progress, and only commit() moves that moment.
AtomicSpec == Atomic!Spec

\* end_op() returns from the last call only when everything is on the disk:
\* while no call is in progress nothing can be lost.
DurableWhenQuiet == ~ Recovering /\ ~ committing /\ outstanding = 0 => Recovered = Current

\* Nobody sleeps in begin_op with no one left to wake it.
NoLostWakeup ==
    sleepers # <<>> =>
        committing \/ outstanding > 0 \/ \E p \in Callers : pc[p] = "begin_op"

\* end_op never finds a commit going on, so that commit() runs alone.
CommitAlone == committing => outstanding = 0 /\ Active = {}

-----------------------------------------------------------------------------
(***************************************************************************)
(* The inductive invariants behind them.  CallInv is about who runs; it    *)
(* holds whatever the size of the log.  ContentInv is about what is where, *)
(* and needs transactions that fit into the log.                           *)
(***************************************************************************)
Distinct(s) == \A i, j \in DOMAIN s : s[i] = s[j] => i = j

\* log.outstanding counts the calls in progress.
CountInv == outstanding = Cardinality(Active)

PhaseInv ==
    /\ phase \in {"write_log", "done"} => committing
    /\ committing => phase \in {"write_log", "install_trans", "done"}
    /\ committing \/ phase # "idle" => outstanding = 0
    /\ tail <= Len(lh) + 1
    /\ phase \in {"idle", "read_head", "done"} => tail = 1
    /\ phase = "done" \/ (phase = "idle" /\ outstanding = 0) => lh = <<>>

SleepInv == Distinct(sleepers) /\ \A i \in DOMAIN sleepers : pc[sleepers[i]] = "asleep"

BufInv ==
    \A p \in Callers : /\ buf[p] # 0 => pc[p] \in {"log_write", "panic"}
                       /\ pc[p] = "log_write" => buf[p] # 0

CallInv == /\ TypeOK /\ CountInv /\ PhaseInv /\ SleepInv /\ BufInv
           /\ Distinct(lh) /\ Distinct(head)

\* A block that is neither logged nor being written is the same in the cache
\* and on the disk.
CleanInv ==
    IF Recovering THEN cache = disk
    ELSE \A b \in Home : ~ absorbed(b) /\ (\A p \in Callers : buf[p] # b) => cache[b] = disk[b]

\* write_log has copied the blocks before tail.
WrittenInv == phase = "write_log" =>
    \A i \in 1 .. tail - 1 : disk[i] = cache[lh[i]] /\ cache[i] = disk[i]

\* The header is that of the transaction being installed; the log blocks have
\* its contents, and so have the home blocks before tail.
InstallInv == phase = "install_trans" =>
    /\ lh = head
    /\ \A i \in DOMAIN lh : cache[i] = disk[i]
    /\ \A i \in 1 .. tail - 1 : disk[lh[i]] = disk[i]
    /\ committing => \A i \in DOMAIN lh : cache[lh[i]] = disk[i]

HeadInv == Len(head) <= nlog - 1 /\ (phase \in {"idle", "write_log", "done"} => head = <<>>)

ContentInv == CleanInv /\ WrittenInv /\ InstallInv /\ HeadInv

-----------------------------------------------------------------------------
(***************************************************************************)
(* What assertions and comments say, and the code does not ensure.         *)
(***************************************************************************)
\* A transaction fits into the blocks of the log ("too big a transaction"):
\* the log does not run into the block behind it.
TransactionFits == Len(lh) <= nlog - 1

=============================================================================
