------------------------------- MODULE Icache -------------------------------
(***************************************************************************)
(* The inode cache and the allocation of inodes (fs.c): ialloc, iget,      *)
(* idup, ilock, iunlock, iput and iupdate, used the way open, link, unlink *)
(* and create use them (sysfile.c).                                        *)
(*                                                                         *)
(* An action is a critical section of icache.lock, of the buffer of a disk *)
(* inode, or of the I_BUSY flag.  Directories are abstracted to the number *)
(* of entries that name an inode; a directory whose entry is being removed *)
(* is locked, so the entry is in the hands of the remover.                 *)
(***************************************************************************)
EXTENDS Integers, Sequences, FiniteSets, FiniteSetsExt

CONSTANTS Procs,
          NINODE,    \* slots of the cache
          ninodes,   \* inodes on disk
          MaxLinks,  \* bound on the names of an inode
          MaxKept    \* bound on the open files and current directories of a slot

ASSUME IcacheAssumption ==
    NINODE \in Nat \ {0} /\ ninodes \in Nat \ {0} /\ MaxLinks \in Nat /\ MaxKept \in Nat

Slots == 1 .. NINODE
Inums == 1 .. ninodes

VARIABLES dtype, dnlink,                          \* dinodes; dtype FALSE is type 0
          inum, ref, busy, valid, ctype, cnlink,  \* slots of icache
          entries,   \* directory entries that name an inode
          lost,      \* entries of an inode that went into a removed directory
          kept,      \* pointers to a slot from open files and current directories
          sleepers,  \* processes asleep on a slot, in the order of the sleep list
          pc, op,    \* where a process is, and in which call
          ip,        \* its struct inode *, 0 for none
          new,       \* the inode number ialloc has found
          panicked   \* "" or the message of the panic

disk == <<dtype, dnlink>>
slot == <<inum, ref, busy, valid, ctype, cnlink>>
vars == <<disk, slot, entries, lost, kept, sleepers, pc, op, ip, new, panicked>>

PCs == {"out", "new", "ref", "lock", "asleep", "read", "locked", "free", "freed"}
Ops == {"use", "create", "link", "linked", "linkBad", "unlink"}
Messages == {"", "ialloc: no inodes", "iget: no inodes", "ilock", "ilock: no type", "iunlock",
             "iput busy", "unlink: nlink < 1"}

\* Every variable has its type; a count never falls below zero.
TypeOK ==
    /\ dtype \in [Inums -> BOOLEAN] /\ dnlink \in [Inums -> Nat]
    /\ inum \in [Slots -> Inums] /\ ref \in [Slots -> Nat]
    /\ busy \in [Slots -> BOOLEAN] /\ valid \in [Slots -> BOOLEAN]
    /\ ctype \in [Slots -> BOOLEAN] /\ cnlink \in [Slots -> Nat]
    /\ entries \in [Inums -> Nat] /\ lost \in [Inums -> Nat] /\ kept \in [Slots -> Nat]
    /\ sleepers \in [Slots -> Seq(Procs)]
    /\ pc \in [Procs -> PCs] /\ op \in [Procs -> Ops]
    /\ ip \in [Procs -> Slots \cup {0}] /\ new \in [Procs -> Inums \cup {0}]
    /\ panicked \in Messages

\* mkfs leaves a root that always has a name; other inodes are free.
Init ==
    /\ dtype = [i \in Inums |-> i = 1] /\ dnlink = [i \in Inums |-> IF i = 1 THEN 1 ELSE 0]
    /\ inum = [s \in Slots |-> 1] /\ ref = [s \in Slots |-> 0]
    /\ busy = [s \in Slots |-> FALSE] /\ valid = [s \in Slots |-> FALSE]
    /\ ctype = [s \in Slots |-> FALSE] /\ cnlink = [s \in Slots |-> 0]
    /\ entries = [i \in Inums |-> IF i = 1 THEN 1 ELSE 0]
    /\ lost = [i \in Inums |-> 0] /\ kept = [s \in Slots |-> 0]
    /\ sleepers = [s \in Slots |-> <<>>]
    /\ pc = [p \in Procs |-> "out"] /\ op = [p \in Procs |-> "use"]
    /\ ip = [p \in Procs |-> 0] /\ new = [p \in Procs |-> 0]
    /\ panicked = ""

at(p, l) == pc[p] = l /\ panicked = ""
goto(p, l) == pc' = [pc EXCEPT ![p] = l]
begin(p, o) == op' = [op EXCEPT ![p] = o]

panic(m) == /\ panicked' = m
            /\ UNCHANGED <<disk, slot, entries, lost, kept, sleepers, pc, op, ip, new>>

-----------------------------------------------------------------------------
(***************************************************************************)
(* iget: the slot of inode i, or the first empty one.                      *)
(***************************************************************************)
SlotsOf(i) == {s \in Slots : ref[s] > 0 /\ inum[s] = i}
EmptySlots == {s \in Slots : ref[s] = 0}

iget(p, i) ==
    IF SlotsOf(i) # {}
    THEN LET s == Min(SlotsOf(i))
         IN  /\ ref' = [ref EXCEPT ![s] = @ + 1] /\ ip' = [ip EXCEPT ![p] = s]
             /\ UNCHANGED <<inum, busy, valid, ctype, cnlink>>
    ELSE LET s == Min(EmptySlots)
         IN  /\ inum' = [inum EXCEPT ![s] = i] /\ ref' = [ref EXCEPT ![s] = 1]
             /\ busy' = [busy EXCEPT ![s] = FALSE] /\ valid' = [valid EXCEPT ![s] = FALSE]
             /\ ip' = [ip EXCEPT ![p] = s]
             /\ UNCHANGED <<ctype, cnlink>>

NoSlot(i) == SlotsOf(i) = {} /\ EmptySlots = {}

\* dirlookup finds an entry for i.  unlink keeps the directory locked.
dirlookup(p, i, o) ==
    /\ at(p, "out") /\ entries[i] > 0
    /\ o = "unlink" => i # 1 \/ entries[i] > 1
    /\ IF NoSlot(i) THEN panic("iget: no inodes")
       ELSE /\ iget(p, i)
            /\ entries' = [entries EXCEPT ![i] = IF o = "unlink" THEN @ - 1 ELSE @]
            /\ begin(p, o)
            /\ goto(p, "ref")
            /\ UNCHANGED <<disk, lost, kept, sleepers, new, panicked>>

FreeInums == {i \in Inums : ~ dtype[i]}

\* create: ialloc clears and marks a free dinode, and then calls iget.  It reads one
\* block of dinodes after the other, so others may free one behind it.
ialloc(p) ==
    /\ at(p, "out")
    /\ IF FreeInums = {} THEN panic("ialloc: no inodes")
       ELSE /\ \E i \in FreeInums :
                 /\ dtype' = [dtype EXCEPT ![i] = TRUE]
                 /\ dnlink' = [dnlink EXCEPT ![i] = 0]
                 /\ new' = [new EXCEPT ![p] = i]
            /\ begin(p, "create")
            /\ goto(p, "new")
            /\ UNCHANGED <<slot, entries, lost, kept, sleepers, ip, panicked>>

iallocGet(p) ==
    /\ at(p, "new")
    /\ IF NoSlot(new[p]) THEN panic("iget: no inodes")
       ELSE /\ iget(p, new[p])
            /\ new' = [new EXCEPT ![p] = 0]
            /\ goto(p, "ref")
            /\ UNCHANGED <<disk, entries, lost, kept, sleepers, op, panicked>>

\* idup of an open file's inode or of the current directory.
idup(p, s) ==
    /\ at(p, "out") /\ kept[s] > 0
    /\ ref' = [ref EXCEPT ![s] = @ + 1]
    /\ ip' = [ip EXCEPT ![p] = s]
    /\ begin(p, "use")
    /\ goto(p, "ref")
    /\ UNCHANGED <<disk, inum, busy, valid, ctype, cnlink, entries, lost, kept, sleepers, new,
                   panicked>>

\* The call ends and leaves its pointer in an open file or as the current directory.
keep(p) ==
    /\ at(p, "ref") /\ op[p] = "use" /\ kept[ip[p]] < MaxKept
    /\ kept' = [kept EXCEPT ![ip[p]] = @ + 1]
    /\ ip' = [ip EXCEPT ![p] = 0]
    /\ goto(p, "out")
    /\ UNCHANGED <<disk, slot, entries, lost, sleepers, op, new, panicked>>

\* fileclose or chdir takes the pointer back in order to drop it.
unkeep(p, s) ==
    /\ at(p, "out") /\ kept[s] > 0
    /\ kept' = [kept EXCEPT ![s] = @ - 1]
    /\ ip' = [ip EXCEPT ![p] = s]
    /\ begin(p, "use")
    /\ goto(p, "ref")
    /\ UNCHANGED <<disk, slot, entries, lost, sleepers, new, panicked>>

-----------------------------------------------------------------------------
(***************************************************************************)
(* ilock and iunlock.  wakeup(ip) wakes the first sleeper.                 *)
(***************************************************************************)
first(s) == {s[i] : i \in {j \in DOMAIN s : j = 1}}
rest(s) == IF s = <<>> THEN <<>> ELSE Tail(s)

startLock(p) ==
    /\ at(p, "ref") /\ op[p] # "linked"
    /\ IF ref[ip[p]] < 1 THEN panic("ilock")
       ELSE /\ goto(p, "lock")
            /\ UNCHANGED <<disk, slot, entries, lost, kept, sleepers, op, ip, new, panicked>>

ilockSleep(p) ==
    /\ at(p, "lock") /\ busy[ip[p]]
    /\ sleepers' = [sleepers EXCEPT ![ip[p]] = Append(@, p)]
    /\ goto(p, "asleep")
    /\ UNCHANGED <<disk, slot, entries, lost, kept, op, ip, new, panicked>>

ilockTake(p) ==
    /\ at(p, "lock") /\ ~ busy[ip[p]]
    /\ busy' = [busy EXCEPT ![ip[p]] = TRUE]
    /\ goto(p, "read")
    /\ UNCHANGED <<disk, inum, ref, valid, ctype, cnlink, entries, lost, kept, sleepers, op,
                   ip, new, panicked>>

\* The inode is read from its buffer unless I_VALID is set.
ilockRead(p) ==
    /\ at(p, "read")
    /\ LET s == ip[p] IN
       IF ~ valid[s] /\ ~ dtype[inum[s]] THEN panic("ilock: no type")
       ELSE /\ ctype' = [ctype EXCEPT ![s] = IF valid[s] THEN @ ELSE dtype[inum[s]]]
            /\ cnlink' = [cnlink EXCEPT ![s] = IF valid[s] THEN @ ELSE dnlink[inum[s]]]
            /\ valid' = [valid EXCEPT ![s] = TRUE]
            /\ goto(p, "locked")
            /\ UNCHANGED <<disk, inum, ref, busy, entries, lost, kept, sleepers, op, ip, new,
                           panicked>>

wakeFirst(p, s, l) ==
    /\ pc' = [q \in Procs |-> IF q = p THEN l ELSE IF q \in first(sleepers[s]) THEN "lock" ELSE pc[q]]
    /\ sleepers' = [sleepers EXCEPT ![s] = rest(@)]

\* Mutant: nobody is woken.
iunlock_NoWakeup(p, l) ==
    IF ~ busy[ip[p]] \/ ref[ip[p]] < 1 THEN panic("iunlock")
    ELSE /\ busy' = [busy EXCEPT ![ip[p]] = FALSE]
         /\ goto(p, l)
         /\ UNCHANGED <<disk, inum, ref, valid, ctype, cnlink, entries, lost, kept, sleepers,
                        op, ip, new, panicked>>

iunlock(p, l) ==
    IF ~ busy[ip[p]] \/ ref[ip[p]] < 1 THEN panic("iunlock")
    ELSE /\ busy' = [busy EXCEPT ![ip[p]] = FALSE]
         /\ wakeFirst(p, ip[p], l)
         /\ UNCHANGED <<disk, inum, ref, valid, ctype, cnlink, entries, lost, kept, op, ip,
                        new, panicked>>

-----------------------------------------------------------------------------
(***************************************************************************)
(* What the calls do with a locked inode.                                  *)
(***************************************************************************)
\* iupdate after ip->nlink has been set to n: the slot and its buffer agree.
setNlink(p, n) ==
    /\ cnlink' = [cnlink EXCEPT ![ip[p]] = n]
    /\ dnlink' = [dnlink EXCEPT ![inum[ip[p]]] = n]
    /\ dtype' = [dtype EXCEPT ![inum[ip[p]]] = ctype[ip[p]]]
    /\ UNCHANGED <<inum, ref, busy, valid, ctype>>

\* Read, write or stat, or the end of the calls below.
unlock(p) ==
    /\ at(p, "locked") /\ op[p] \in {"use", "linked"}
    /\ iunlock(p, "ref")

\* dirlink.  nameiparent returned the directory unlocked: unless it has been removed
\* meanwhile the entry is a name; otherwise it goes with the directory, unread.
dirlink(p) ==
    LET i == inum[ip[p]]
    IN  \/ entries' = [entries EXCEPT ![i] = @ + 1] /\ UNCHANGED lost
        \/ lost' = [lost EXCEPT ![i] = @ + 1] /\ UNCHANGED entries

\* create: the new inode gets its one link and its entry, and stays locked.
createEntry(p) ==
    /\ at(p, "locked") /\ op[p] = "create"
    /\ setNlink(p, 1)
    /\ dirlink(p)
    /\ begin(p, "use")
    /\ UNCHANGED <<kept, sleepers, pc, ip, new, panicked>>

\* sys_link counts the link, unlocks the inode, and adds the entry later.
linkCount(p) ==
    /\ at(p, "locked") /\ op[p] = "link" /\ cnlink[ip[p]] < MaxLinks
    /\ setNlink(p, cnlink[ip[p]] + 1)
    /\ begin(p, "linked")
    /\ UNCHANGED <<entries, lost, kept, sleepers, pc, ip, new, panicked>>

\* A directory is not linked: iunlockput.
linkRefuse(p) ==
    /\ at(p, "locked") /\ op[p] = "link"
    /\ begin(p, "use")
    /\ UNCHANGED <<disk, slot, entries, lost, kept, sleepers, pc, ip, new, panicked>>

linkEntry(p) ==
    /\ at(p, "ref") /\ op[p] = "linked"
    /\ dirlink(p)
    /\ begin(p, "use")
    /\ UNCHANGED <<disk, slot, kept, sleepers, pc, ip, new, panicked>>

\* The new name cannot be made: the link is taken back under the lock.
linkFail(p) ==
    /\ at(p, "ref") /\ op[p] = "linked"
    /\ begin(p, "linkBad")
    /\ UNCHANGED <<disk, slot, entries, lost, kept, sleepers, pc, ip, new, panicked>>

unlinkCount(p) ==
    /\ at(p, "locked") /\ op[p] = "unlink"
    /\ IF cnlink[ip[p]] < 1 THEN panic("unlink: nlink < 1")
       ELSE /\ setNlink(p, cnlink[ip[p]] - 1)
            /\ begin(p, "use")
            /\ UNCHANGED <<entries, lost, kept, sleepers, pc, ip, new, panicked>>

\* The directory is not empty: the entry stays.
unlinkRefuse(p) ==
    /\ at(p, "locked") /\ op[p] = "unlink"
    /\ IF cnlink[ip[p]] < 1 THEN panic("unlink: nlink < 1")
       ELSE /\ entries' = [entries EXCEPT ![inum[ip[p]]] = @ + 1]
            /\ begin(p, "use")
            /\ UNCHANGED <<disk, slot, lost, kept, sleepers, pc, ip, new, panicked>>

linkBad(p) ==
    /\ at(p, "locked") /\ op[p] = "linkBad"
    /\ setNlink(p, cnlink[ip[p]] - 1)
    /\ begin(p, "use")
    /\ UNCHANGED <<entries, lost, kept, sleepers, pc, ip, new, panicked>>

-----------------------------------------------------------------------------
(***************************************************************************)
(* iput: the last pointer to an inode without links frees the inode.       *)
(***************************************************************************)
\* Mutant: the link count is not looked at.
LastOfUnlinked_AnyLinks(s) == ref[s] = 1 /\ valid[s]

LastOfUnlinked(s) == ref[s] = 1 /\ valid[s] /\ cnlink[s] = 0

iput(p) ==
    /\ at(p, "ref") /\ op[p] = "use" /\ ~ LastOfUnlinked(ip[p])
    /\ ref' = [ref EXCEPT ![ip[p]] = @ - 1]
    /\ ip' = [ip EXCEPT ![p] = 0]
    /\ goto(p, "out")
    /\ UNCHANGED <<disk, inum, busy, valid, ctype, cnlink, entries, lost, kept, sleepers, op,
                   new, panicked>>

iputLast(p) ==
    /\ at(p, "ref") /\ op[p] = "use" /\ LastOfUnlinked(ip[p])
    /\ IF busy[ip[p]] THEN panic("iput busy")
       ELSE /\ busy' = [busy EXCEPT ![ip[p]] = TRUE]
            /\ goto(p, "free")
            /\ UNCHANGED <<disk, inum, ref, valid, ctype, cnlink, entries, lost, kept,
                           sleepers, op, ip, new, panicked>>

\* itrunc, type 0, iupdate: from here on ialloc may find the inode free.
iputFree(p) ==
    /\ at(p, "free")
    /\ ctype' = [ctype EXCEPT ![ip[p]] = FALSE]
    /\ dtype' = [dtype EXCEPT ![inum[ip[p]]] = FALSE]
    /\ dnlink' = [dnlink EXCEPT ![inum[ip[p]]] = cnlink[ip[p]]]
    /\ goto(p, "freed")
    /\ UNCHANGED <<inum, ref, busy, valid, cnlink, entries, lost, kept, sleepers, op, ip, new,
                   panicked>>

\* Mutant: the flags stay as they are.
iputDone_KeepValid(p) ==
    /\ at(p, "freed")
    /\ busy' = [busy EXCEPT ![ip[p]] = FALSE]
    /\ wakeFirst(p, ip[p], "out")
    /\ ref' = [ref EXCEPT ![ip[p]] = @ - 1]
    /\ ip' = [ip EXCEPT ![p] = 0]
    /\ UNCHANGED <<disk, inum, valid, ctype, cnlink, entries, lost, kept, op, new, panicked>>

iputDone(p) ==
    /\ at(p, "freed")
    /\ busy' = [busy EXCEPT ![ip[p]] = FALSE]
    /\ valid' = [valid EXCEPT ![ip[p]] = FALSE]
    /\ wakeFirst(p, ip[p], "out")
    /\ ref' = [ref EXCEPT ![ip[p]] = @ - 1]
    /\ ip' = [ip EXCEPT ![p] = 0]
    /\ UNCHANGED <<disk, inum, ctype, cnlink, entries, lost, kept, op, new, panicked>>

\* The machine has stopped.
halted == panicked # "" /\ UNCHANGED vars

Next ==
    \/ \E p \in Procs :
        \/ ialloc(p) \/ iallocGet(p) \/ keep(p)
        \/ startLock(p) \/ ilockSleep(p) \/ ilockTake(p) \/ ilockRead(p)
        \/ unlock(p) \/ createEntry(p) \/ unlinkCount(p) \/ unlinkRefuse(p)
        \/ linkCount(p) \/ linkRefuse(p) \/ linkEntry(p) \/ linkFail(p) \/ linkBad(p)
        \/ iput(p) \/ iputLast(p) \/ iputFree(p) \/ iputDone(p)
        \/ \E i \in Inums, o \in {"use", "link", "unlink"} : dirlookup(p, i, o)
        \/ \E s \in Slots : idup(p, s) \/ unkeep(p, s)
    \/ halted

Spec == Init /\ [][Next]_vars

-----------------------------------------------------------------------------
(***************************************************************************)
(* Properties.                                                             *)
(***************************************************************************)
Holders(s) == {p \in Procs : ip[p] = s}

\* A valid slot that nobody has locked agrees with the inode on disk, although
\* the number may have been freed and allocated again meanwhile.
ValidIsDisk ==
    \A s \in Slots : ref[s] > 0 /\ valid[s] /\ ~ busy[s] =>
        ctype[s] = dtype[inum[s]] /\ cnlink[s] = dnlink[inum[s]] /\ dtype[inum[s]]

InUse(i) == \/ entries[i] > 0
            \/ \E s \in Slots : inum[s] = i /\ kept[s] > 0
            \/ \E p \in Procs : /\ ip[p] # 0 /\ inum[ip[p]] = i
                                /\ pc[p] # "freed"
            \/ \E p \in Procs : new[p] = i

\* An inode is allocated on disk exactly while a name, an open file, a current
\* directory or a call refers to it, or after one of its entries was written into a
\* directory that had been removed: iput never frees an inode in use, and link,
\* unlink, create and iput leak none in any other way.
AllocatedIffInUse == \A i \in Inums : dtype[i] <=> InUse(i) \/ lost[i] > 0

\* Nobody is left asleep in ilock: the inode is locked, or a process that was
\* woken is about to take it and will wake the next one.
NoSleeperStranded ==
    \A s \in Slots : sleepers[s] # <<>> =>
        busy[s] \/ \E p \in Holders(s) : pc[p] = "lock"
=============================================================================
