-------------------------------- MODULE Bio --------------------------------
(***************************************************************************)
(* The buffer cache (bio.c) and the disk driver under it (ide.c).          *)
(*                                                                         *)
(* Processes bring blocks in with bread, change them, write them with      *)
(* bwrite or leave them dirty for the log with log_write, and release them *)
(* with brelse.  An action is one critical section of bcache.lock or of    *)
(* idelock.  bget and iderw both sleep on the buffer, and wakeup wakes the *)
(* first sleeper only (see ProcTable).                                     *)
(***************************************************************************)
EXTENDS Integers, Sequences, FiniteSets

CONSTANTS Procs,      \* processes that use the cache
          NBUF,       \* buffers
          Blocks,     \* disk blocks
          Values,     \* contents of a block
          NoBlock,    \* block number of a buffer never used
          NoProc,
          MAXDIRTY,   \* blocks the log keeps dirty in the cache
          BadBlocks   \* blocks whose reads and writes may fail

ASSUME BioAssumption ==
    /\ NBUF \in Nat \ {0} /\ MAXDIRTY \in Nat /\ BadBlocks \subseteq Blocks
    /\ NoBlock \notin Blocks /\ NoProc \notin Procs

Bufs == 1 .. NBUF

VARIABLES blockno,   \* b->blockno
          busy,      \* B_BUSY
          valid,     \* B_VALID
          dirty,     \* B_DIRTY
          data,      \* b->data
          lru,       \* the buffers from head.next (most recently used) on
          idequeue,
          disk,      \* contents of the disk
          sleepers,  \* processes asleep on each buffer, in the order of the sleep list
          pc,        \* where a process is
          want,      \* the block a process in bget looks for
          mine,      \* the buffer it holds or sleeps on, or 0
          panicked   \* bget panicked, holding bcache.lock

vars == <<blockno, busy, valid, dirty, data, lru, idequeue, disk, sleepers, pc,
          want, mine, panicked>>
bufVars == <<blockno, busy, valid, dirty, data>>
procVars == <<sleepers, pc, want, mine>>

Places == {"idle", "bget", "bgetSleep", "bread", "iderwSleep", "iderw", "hold"}

\* Every variable has its type, and the LRU list stays a permutation of the
\* buffers through all its relinking in brelse.
TypeOK ==
    /\ blockno \in [Bufs -> Blocks \cup {NoBlock}]
    /\ busy \in [Bufs -> BOOLEAN] /\ valid \in [Bufs -> BOOLEAN] /\ dirty \in [Bufs -> BOOLEAN]
    /\ data \in [Bufs -> Values]
    /\ lru \in [Bufs -> Bufs] /\ (\A i, j \in Bufs : lru[i] = lru[j] => i = j)
    /\ idequeue \in Seq(Bufs)
    /\ disk \in [Blocks -> Values]
    /\ sleepers \in [Bufs -> Seq(Procs)]
    /\ pc \in [Procs -> Places]
    /\ want \in [Procs -> Blocks \cup {NoBlock}]
    /\ mine \in [Procs -> Bufs \cup {0}]
    /\ panicked \in BOOLEAN

\* binit links each buffer in front of the one before; the data is whatever
\* the memory held.
Init ==
    /\ blockno = [b \in Bufs |-> NoBlock]
    /\ busy = [b \in Bufs |-> FALSE]
    /\ valid = [b \in Bufs |-> FALSE]
    /\ dirty = [b \in Bufs |-> FALSE]
    /\ \E v \in Values : data = [b \in Bufs |-> v]
    /\ lru = [b \in Bufs |-> NBUF + 1 - b]
    /\ idequeue = <<>>
    /\ disk \in [Blocks -> Values]
    /\ sleepers = [b \in Bufs |-> <<>>]
    /\ pc = [p \in Procs |-> "idle"]
    /\ want = [p \in Procs |-> NoBlock]
    /\ mine = [p \in Procs |-> 0]
    /\ panicked = FALSE

-----------------------------------------------------------------------------
\* The first sleeper on a buffer, if any.
first(s) == {s[i] : i \in {j \in DOMAIN s : j = 1}}
rest(s) == IF s = <<>> THEN <<>> ELSE Tail(s)

awake(q) == IF pc[q] = "bgetSleep" THEN "bget" ELSE "iderw"

\* wakeup(b) in a step that moves process p (or NoProc) to place where: the
\* first sleeper on b runs on in bget or iderw.
wakeup(b, p, where) ==
    /\ pc' = [q \in Procs |-> IF q = p THEN where
                              ELSE IF q \in first(sleepers[b]) THEN awake(q) ELSE pc[q]]
    /\ sleepers' = [sleepers EXCEPT ![b] = rest(@)]

sleep(p, b, where) ==
    /\ sleepers' = [sleepers EXCEPT ![b] = Append(@, p)]
    /\ pc' = [pc EXCEPT ![p] = where]

-----------------------------------------------------------------------------
(***************************************************************************)
(* bget: one pass under bcache.lock, from the start or after its sleep.    *)
(***************************************************************************)
Cached(k) == {b \in Bufs : blockno[b] = k}

\* Mutant: a dirty buffer is recycled.
Recyclable_Dirty(b) == ~ busy[b]

Recyclable(b) == ~ busy[b] /\ ~ dirty[b]

\* The scan from the least recently used buffer stops at the first that can be
\* recycled.
found(b) ==
    /\ Recyclable(b)
    /\ \E i \in Bufs : lru[i] = b /\ \A j \in Bufs : j > i => ~ Recyclable(lru[j])

victim == CHOOSE b \in Bufs : found(b)

Wants(p, k) == /\ ~ panicked
               /\ \/ pc[p] = "idle" /\ k \in Blocks
                  \/ pc[p] = "bget" /\ k = want[p]

\* The block is cached and free.
bgetHit(p, k) ==
    /\ Wants(p, k)
    /\ \E b \in Cached(k) :
        /\ ~ busy[b]
        /\ busy' = [busy EXCEPT ![b] = TRUE]
        /\ mine' = [mine EXCEPT ![p] = b]
    /\ want' = [want EXCEPT ![p] = k]
    /\ pc' = [pc EXCEPT ![p] = "bread"]
    /\ UNCHANGED <<blockno, valid, dirty, data, lru, idequeue, disk, sleepers, panicked>>

\* The block is cached and somebody holds it.
bgetSleep(p, k) ==
    /\ Wants(p, k)
    /\ \E b \in Cached(k) :
        /\ busy[b]
        /\ mine' = [mine EXCEPT ![p] = b]
        /\ sleep(p, b, "bgetSleep")
    /\ want' = [want EXCEPT ![p] = k]
    /\ UNCHANGED <<bufVars, lru, idequeue, disk, panicked>>

\* Mutant: bget does not start over after its sleep.
bgetRecycle_NoRescan(p, k) ==
    /\ Wants(p, k) /\ (Cached(k) = {} \/ pc[p] = "bget")
    /\ \E b \in Bufs : found(b)
    /\ blockno' = [blockno EXCEPT ![victim] = k]
    /\ busy' = [busy EXCEPT ![victim] = TRUE]
    /\ valid' = [valid EXCEPT ![victim] = FALSE]
    /\ mine' = [mine EXCEPT ![p] = victim]
    /\ want' = [want EXCEPT ![p] = k]
    /\ pc' = [pc EXCEPT ![p] = "bread"]
    /\ UNCHANGED <<dirty, data, lru, idequeue, disk, sleepers, panicked>>

\* The block is not cached.
bgetRecycle(p, k) ==
    /\ Wants(p, k) /\ Cached(k) = {}
    /\ IF \E b \in Bufs : found(b)
       THEN /\ blockno' = [blockno EXCEPT ![victim] = k]
            /\ busy' = [busy EXCEPT ![victim] = TRUE]
            /\ valid' = [valid EXCEPT ![victim] = FALSE]
            /\ mine' = [mine EXCEPT ![p] = victim]
            /\ want' = [want EXCEPT ![p] = k]
            /\ pc' = [pc EXCEPT ![p] = "bread"]
            /\ UNCHANGED panicked
       ELSE panicked' = TRUE /\ UNCHANGED <<blockno, busy, valid, mine, want, pc>>
    /\ UNCHANGED <<dirty, data, lru, idequeue, disk, sleepers>>

-----------------------------------------------------------------------------
(***************************************************************************)
(* The driver.  iderw queues the buffer and sleeps; idestart runs when the *)
(* buffer becomes the head of the queue.                                   *)
(***************************************************************************)
iderw(p) ==
    /\ idequeue' = Append(idequeue, mine[p])
    /\ sleep(p, mine[p], "iderwSleep")

\* The rest of bread.
bread(p) ==
    /\ pc[p] = "bread"
    /\ IF valid[mine[p]]
       THEN pc' = [pc EXCEPT ![p] = "hold"] /\ UNCHANGED <<idequeue, sleepers>>
       ELSE iderw(p)
    /\ UNCHANGED <<bufVars, lru, disk, want, mine, panicked>>

\* What the disk does when it works on b: idestart asked it to write a dirty buffer, and to
\* read any other.  On a bad block either may fail and leave what there was.
idestart(b) ==
    IF dirty[b]
    THEN /\ UNCHANGED data
         /\ \/ disk' = [disk EXCEPT ![blockno[b]] = data[b]]
            \/ blockno[b] \in BadBlocks /\ UNCHANGED disk
    ELSE /\ UNCHANGED disk
         /\ \/ data' = [data EXCEPT ![b] = disk[blockno[b]]]
            \/ blockno[b] \in BadBlocks /\ UNCHANGED data

\* The disk has finished with the first buffer of the queue.  The buffer is
\* marked valid and clean also when the read or the write failed.
ideintr ==
    /\ idequeue # <<>>
    /\ LET b == Head(idequeue) IN
       /\ idestart(b)
       /\ valid' = [valid EXCEPT ![b] = TRUE]
       /\ dirty' = [dirty EXCEPT ![b] = FALSE]
       /\ wakeup(b, NoProc, "idle")
    /\ idequeue' = Tail(idequeue)
    /\ UNCHANGED <<blockno, busy, lru, want, mine, panicked>>

\* A process that was woken in iderw looks at the flags again.
iderwWoken(p) ==
    /\ pc[p] = "iderw"
    /\ IF valid[mine[p]] /\ ~ dirty[mine[p]]
       THEN pc' = [pc EXCEPT ![p] = "hold"] /\ UNCHANGED sleepers
       ELSE sleep(p, mine[p], "iderwSleep")
    /\ UNCHANGED <<bufVars, lru, idequeue, disk, want, mine, panicked>>

-----------------------------------------------------------------------------
(***************************************************************************)
(* A process that holds a buffer.                                          *)
(***************************************************************************)
\* It changes the data and writes it.
bwrite(p, v) ==
    /\ pc[p] = "hold"
    /\ data' = [data EXCEPT ![mine[p]] = v]
    /\ dirty' = [dirty EXCEPT ![mine[p]] = TRUE]
    /\ iderw(p)
    /\ UNCHANGED <<blockno, busy, valid, lru, disk, want, mine, panicked>>

\* It changes the data and leaves it to the log, which keeps the buffer dirty.
log_write(p, v) ==
    /\ pc[p] = "hold"
    /\ dirty[mine[p]] \/ Cardinality({b \in Bufs : dirty[b]}) < MAXDIRTY
    /\ data' = [data EXCEPT ![mine[p]] = v]
    /\ dirty' = [dirty EXCEPT ![mine[p]] = TRUE]
    /\ UNCHANGED <<blockno, busy, valid, lru, idequeue, disk, procVars, panicked>>

\* The released buffer becomes the most recently used.
moveToFront(b) ==
    [i \in Bufs |-> LET old == CHOOSE j \in Bufs : lru[j] = b IN
                    IF i = 1 THEN b ELSE IF i <= old THEN lru[i - 1] ELSE lru[i]]

brelse(p) ==
    /\ pc[p] = "hold" /\ ~ panicked
    /\ lru' = moveToFront(mine[p])
    /\ busy' = [busy EXCEPT ![mine[p]] = FALSE]
    /\ wakeup(mine[p], p, "idle")
    /\ mine' = [mine EXCEPT ![p] = 0]
    /\ want' = [want EXCEPT ![p] = NoBlock]
    /\ UNCHANGED <<blockno, valid, dirty, data, idequeue, disk, panicked>>

Next ==
    \/ ideintr
    \/ \E p \in Procs :
        \/ \E k \in Blocks : bgetHit(p, k) \/ bgetSleep(p, k) \/ bgetRecycle(p, k)
        \/ bread(p) \/ iderwWoken(p) \/ brelse(p)
        \/ \E v \in Values : bwrite(p, v) \/ log_write(p, v)

Spec == Init /\ [][Next]_vars

-----------------------------------------------------------------------------
(***************************************************************************)
(* Properties.                                                             *)
(***************************************************************************)
\* p has block k for itself: bread has returned it, or it is being written.
Holds(p, k) ==
    /\ mine[p] # 0 /\ blockno[mine[p]] = k
    /\ \/ pc[p] = "hold"
       \/ pc[p] \in {"iderwSleep", "iderw"} /\ valid[mine[p]]

contents == [k \in Blocks |-> IF \E b \in Cached(k) : valid[b] \/ dirty[b]
                              THEN data[CHOOSE b \in Cached(k) : valid[b] \/ dirty[b]]
                              ELSE disk[k]]

holder == [k \in Blocks |-> IF \E p \in Procs : Holds(p, k)
                            THEN CHOOSE p \in Procs : Holds(p, k) ELSE NoProc]

Store == INSTANCE BlockStore

\* The cache is a store of blocks: whatever is recycled, read back or written,
\* a block's contents change only by its one holder, and a read or write that
\* fails spoils no block but its own.
StoreSpec == Store!Spec

\* No block is in two buffers, so no two processes hold different copies.
OneBufferPerBlock ==
    \A b, c \in Bufs : blockno[b] = blockno[c] /\ blockno[b] # NoBlock => b = c

=============================================================================
