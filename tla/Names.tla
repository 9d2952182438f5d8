------------------------------- MODULE Names -------------------------------
(***************************************************************************)
(* Directories and path names (fs.c), and the calls that change them       *)
(* (sysfile.c): link, unlink, create for open, mkdir and mknod, and chdir; *)
(* chmod, chown and chgrp, whose field of the inode no property is about.  *)
(*                                                                         *)
(* A path is the sequence of its elements.  A directory is the sequence of *)
(* its entries; an entry with inum 0 is empty.  What a process does while  *)
(* it holds the locks of the inodes concerned is one step; an inode is     *)
(* there as long as a pointer or a link is (iput, see Icache).             *)
(***************************************************************************)
EXTENDS Integers, Sequences, FiniteSets, FiniteSetsExt

CONSTANTS Procs, none,
          NINODES,
          MaxLinks,  \* bound on the link count that link raises
          Calls      \* [op, path, to]: the calls that programs make; a path is
                     \* [abs, elems], and the op of mkdir and mknod the type they make

\* What mkdir and mknod make.
Types == {"T_DIR", "T_DEV"}
\* The calls that set a field of the inode, with a value they accept.
Attrs == {"chmod", "chown", "chgrp"}

ASSUME NamesAssumption ==
    /\ NINODES \in Nat \ {0} /\ MaxLinks \in Nat /\ none \notin Procs
    /\ \A c \in Calls : c.op \in {"open", "create", "unlink", "link", "chdir"} \cup Types \cup Attrs

Inums == 1 .. NINODES
ROOTINO == 1

VARIABLES type, nlink, dents, \* of the inodes; type "free" is 0
          busy,               \* the process that has locked an inode, or none
          cwd, file,          \* proc->cwd, and one open file of the process (0: none)
          op, pc,             \* the call of a process and where it is in it
          elems, name,        \* path and name of namex
          ip, dp, old,        \* pointers of the process; old is the ip of sys_link
          new,                \* the second path of link
          stale,              \* history: a directory without links got an entry,
                              \* or ".." of one was followed
          panicked            \* "", "inode" (ilock, unlink) or that of ialloc

inodeVars == <<type, nlink, dents>>
procVars == <<cwd, file>>
callVars == <<op, pc, elems, name, ip, dp, old, new>>
vars == <<inodeVars, busy, procVars, callVars, stale, panicked>>

Ops == {"", "open", "create", "unlink", "link", "linkTo", "chdir"} \cup Types \cup Attrs

\* Pointers name inodes, and a process that has returned holds none but cwd and file.
TypeOK ==
    /\ type \in [Inums -> {"free", "T_DIR", "T_FILE", "T_DEV"}] /\ nlink \in [Inums -> Nat]
    /\ \A i \in Inums : \A k \in DOMAIN dents[i] : dents[i][k].inum \in 0 .. NINODES
    /\ busy \in [Inums -> Procs \cup {none}]
    /\ cwd \in [Procs -> Inums] /\ file \in [Procs -> 0 .. NINODES]
    /\ pc \in [Procs -> {"user", "walk", "parent", "found", "second", "undo"}]
    /\ \A p \in Procs : op[p] \in Ops /\ (pc[p] = "user" => <<ip[p], dp[p], old[p]>> = <<0, 0, 0>>)

entry(n, i) == [name |-> n, inum |-> i]
Empty == entry("", 0)

\* mkfs: the root with its two entries, and every process in it.
Init ==
    /\ type = [i \in Inums |-> IF i = ROOTINO THEN "T_DIR" ELSE "free"]
    /\ nlink = [i \in Inums |-> IF i = ROOTINO THEN 1 ELSE 0]
    /\ dents = [i \in Inums |-> IF i = ROOTINO THEN <<entry(".", i), entry("..", i)>> ELSE <<>>]
    /\ busy = [i \in Inums |-> none]
    /\ cwd = [p \in Procs |-> ROOTINO] /\ file = [p \in Procs |-> 0]
    /\ op = [p \in Procs |-> ""] /\ pc = [p \in Procs |-> "user"]
    /\ elems = [p \in Procs |-> <<>>] /\ name = [p \in Procs |-> ""]
    /\ ip = [p \in Procs |-> 0] /\ dp = [p \in Procs |-> 0] /\ old = [p \in Procs |-> 0]
    /\ new = [p \in Procs |-> none]
    /\ stale = FALSE /\ panicked = ""

-----------------------------------------------------------------------------
(***************************************************************************)
(* Directory entries.                                                      *)
(***************************************************************************)
\* Mutant: the loop ends at an empty entry.
Matches_ToHole(d, n) ==
    {k \in DOMAIN dents[d] : dents[d][k].name = n /\ \A l \in 1 .. k : dents[d][l].inum # 0}

\* The entries n of a directory.
Matches(d, n) == {k \in DOMAIN dents[d] : dents[d][k].inum # 0 /\ dents[d][k].name = n}
\* dirlookup: the inode number of the first entry n, or 0.
dirlookup(d, n) == IF Matches(d, n) = {} THEN 0 ELSE dents[d][Min(Matches(d, n))].inum

\* What dirlink writes: the first empty entry, or one at the end.
dirlink(d, n, i) ==
    LET holes == {k \in DOMAIN dents[d] : dents[d][k].inum = 0}
    IN  IF holes = {} THEN Append(dents[d], entry(n, i))
        ELSE [dents[d] EXCEPT ![Min(holes)] = entry(n, i)]

isdirempty(d) == \A k \in DOMAIN dents[d] : k > 2 => dents[d][k].inum = 0

-----------------------------------------------------------------------------
(***************************************************************************)
(* Pointers and locks.                                                     *)
(***************************************************************************)
at(p, l) == pc[p] = l /\ panicked = ""

\* Pointers to inode i.
ref(i) == Cardinality({<<p, f>> \in Procs \X {"cwd", "file", "ip", "dp", "old"} :
    i = CASE f = "cwd" -> cwd[p] [] f = "file" -> file[p] [] f = "ip" -> ip[p]
          [] f = "dp" -> dp[p] [] f = "old" -> old[p]})

\* Mutant: other pointers are not looked at.
unused_AnyRef(drop, links) == {i \in drop : links[i] = 0}

\* The inodes among drop that nobody needs once one pointer to each is dropped
\* and the link counts are links.
unused(drop, links) == {i \in drop : links[i] = 0 /\ ref(i) = 1}

\* iput of every inode in drop, with the links and entries the call has written.
iputs(drop, links, ents) ==
    LET gone == unused(drop, links)
    IN  /\ type' = [i \in Inums |-> IF i \in gone THEN "free" ELSE type[i]]
        /\ nlink' = links
        /\ dents' = [i \in Inums |-> IF i \in gone THEN <<>> ELSE ents[i]]

\* The process is back in user mode.
return(p) ==
    /\ op' = [op EXCEPT ![p] = ""] /\ pc' = [pc EXCEPT ![p] = "user"]
    /\ elems' = [elems EXCEPT ![p] = <<>>] /\ name' = [name EXCEPT ![p] = ""]
    /\ ip' = [ip EXCEPT ![p] = 0] /\ dp' = [dp EXCEPT ![p] = 0] /\ old' = [old EXCEPT ![p] = 0]
    /\ new' = [new EXCEPT ![p] = none]

\* The inode that p locks next, and whether ilock gets it.
target(p) == CASE pc[p] = "parent" -> dp[p] [] pc[p] = "undo" -> old[p] [] OTHER -> ip[p]
ilock(p, l) == at(p, l) /\ busy[target(p)] = none /\ type[target(p)] # "free"

\* ilock of an inode that has been freed, and unlink of one without links.
panics(p) ==
    /\ panicked = "" /\ pc[p] # "user" /\ ~ (pc[p] = "walk" /\ elems[p] = <<>>)
    /\ busy[target(p)] = none
    /\ type[target(p)] = "free" \/ (op[p] = "unlink" /\ pc[p] = "second" /\ nlink[ip[p]] < 1)
    /\ panicked' = "inode"
    /\ UNCHANGED <<inodeVars, busy, procVars, callVars, stale>>

\* The call ends: p unlocks the inodes, and its pointer to each goes.
ends(p, drop) ==
    /\ iputs(drop, nlink, dents)
    /\ busy' = [i \in Inums |-> IF i \in drop /\ busy[i] = p THEN none ELSE busy[i]]
    /\ return(p)
    /\ UNCHANGED <<procVars, stale, panicked>>

-----------------------------------------------------------------------------
(***************************************************************************)
(* namex.                                                                  *)
(***************************************************************************)
start(p, c) ==
    /\ at(p, "user")
    /\ op' = [op EXCEPT ![p] = c.op] /\ pc' = [pc EXCEPT ![p] = "walk"]
    /\ elems' = [elems EXCEPT ![p] = c.path.elems]
    /\ ip' = [ip EXCEPT ![p] = IF c.path.abs THEN ROOTINO ELSE cwd[p]]
    /\ new' = [new EXCEPT ![p] = c.to]
    /\ UNCHANGED <<inodeVars, busy, procVars, name, dp, old, stale, panicked>>

nameiparent(p) == op[p] \in {"create", "unlink", "linkTo"} \cup Types

\* A walk that ends without an inode: sys_link has to take its link back.
walkFails(p) ==
    IF op[p] # "linkTo" THEN ends(p, {ip[p]})
    ELSE /\ iputs({ip[p]}, nlink, dents)
         /\ ip' = [ip EXCEPT ![p] = 0] /\ pc' = [pc EXCEPT ![p] = "undo"]
         /\ UNCHANGED <<busy, procVars, op, elems, name, dp, old, new, stale, panicked>>

\* One round of the loop, under the lock of ip.
namex(p) ==
    LET d == ip[p]
        n == Head(elems[p])
        next == dirlookup(d, n)
    IN  /\ ilock(p, "walk") /\ elems[p] # <<>>
        /\ \/ type[d] # "T_DIR" /\ walkFails(p)
           \/ /\ type[d] = "T_DIR" /\ nameiparent(p) /\ Len(elems[p]) = 1
              /\ dp' = [dp EXCEPT ![p] = d] /\ ip' = [ip EXCEPT ![p] = 0]
              /\ name' = [name EXCEPT ![p] = n] /\ elems' = [elems EXCEPT ![p] = <<>>]
              /\ pc' = [pc EXCEPT ![p] = "parent"]
              /\ UNCHANGED <<inodeVars, busy, procVars, op, old, new, stale, panicked>>
           \/ /\ type[d] = "T_DIR" /\ ~ (nameiparent(p) /\ Len(elems[p]) = 1)
              /\ IF next = 0 THEN walkFails(p)
                 ELSE /\ ip' = [ip EXCEPT ![p] = next]
                      /\ IF next = d THEN UNCHANGED inodeVars ELSE iputs({d}, nlink, dents)
                      /\ elems' = [elems EXCEPT ![p] = Tail(@)]
                      /\ pc' = [pc EXCEPT ![p] = IF Len(elems[p]) = 1 THEN "found" ELSE "walk"]
                      /\ stale' = (stale \/ (n = ".." /\ nlink[d] = 0))
                      /\ UNCHANGED <<busy, procVars, op, name, dp, old, new, panicked>>

\* A path without elements: namei has its inode, nameiparent fails.
nameiEnd(p) ==
    /\ at(p, "walk") /\ elems[p] = <<>>
    /\ IF nameiparent(p) THEN walkFails(p)
       ELSE /\ pc' = [pc EXCEPT ![p] = "found"]
            /\ UNCHANGED <<inodeVars, busy, procVars, op, elems, name, ip, dp, old, new, stale,
                           panicked>>

-----------------------------------------------------------------------------
(***************************************************************************)
(* open, create and chdir.                                                 *)
(***************************************************************************)
\* The file table may be full: open gives the inode back.
open(p) ==
    /\ ilock(p, "found") /\ op[p] = "open"
    /\ \/ ends(p, {ip[p]})
       \/ /\ file[p] = 0
          /\ file' = [file EXCEPT ![p] = ip[p]]
          /\ return(p)
          /\ UNCHANGED <<inodeVars, busy, cwd, stale, panicked>>

close(p) ==
    /\ at(p, "user") /\ file[p] # 0
    /\ iputs({file[p]}, nlink, dents)
    /\ file' = [file EXCEPT ![p] = 0]
    /\ UNCHANGED <<busy, cwd, callVars, stale, panicked>>

chdir(p) ==
    LET i == ip[p]
    IN  /\ ilock(p, "found") /\ op[p] = "chdir"
        /\ \/ type[i] # "T_DIR" /\ ends(p, {i})
           \/ /\ type[i] = "T_DIR"
              /\ IF cwd[p] = i THEN UNCHANGED inodeVars ELSE iputs({cwd[p]}, nlink, dents)
              /\ cwd' = [cwd EXCEPT ![p] = i]
              /\ return(p)
              /\ UNCHANGED <<busy, file, stale, panicked>>

\* chmod, chown and chgrp: the inode is written under its lock.
setattr(p) == ilock(p, "found") /\ op[p] \in Attrs /\ ends(p, {ip[p]})

freeInodes == {i \in Inums : type[i] = "free"}

\* create: the entry is there, and its inode has to be locked, or a new inode
\* gets one.  open may keep the new file; mkdir and mknod return.
create(p) ==
    LET d == dp[p]
        i == dirlookup(d, name[p])
        f == Min(freeInodes)
        t == IF op[p] = "create" THEN "T_FILE" ELSE op[p]
        dots == IF t = "T_DIR" THEN <<entry(".", f), entry("..", d)>> ELSE <<>>
        links == [nlink EXCEPT ![f] = 1, ![d] = IF t = "T_DIR" THEN @ + 1 ELSE @]
        gone == unused({d}, links)
    IN  /\ ilock(p, "parent") /\ op[p] \in {"create"} \cup Types
        /\ \/ /\ i # 0
              /\ iputs({d} \ {i}, nlink, dents)
              /\ ip' = [ip EXCEPT ![p] = i] /\ dp' = [dp EXCEPT ![p] = 0]
              /\ pc' = [pc EXCEPT ![p] = "second"]
              /\ UNCHANGED <<busy, procVars, op, elems, name, old, new, stale, panicked>>
           \/ /\ i = 0 /\ freeInodes = {}
              /\ panicked' = "ialloc: no inodes"
              /\ UNCHANGED <<inodeVars, busy, procVars, callVars, stale>>
           \/ /\ i = 0 /\ freeInodes # {}
              /\ type' = [j \in Inums |-> IF j = f THEN t ELSE IF j \in gone THEN "free" ELSE type[j]]
              /\ nlink' = links
              /\ dents' = [j \in Inums |-> IF j = f THEN dots
                                           ELSE IF j \in gone THEN <<>>
                                           ELSE IF j = d THEN dirlink(d, name[p], f) ELSE dents[j]]
              /\ \/ op[p] = "create" /\ file[p] = 0 /\ file' = [file EXCEPT ![p] = f]
                 \/ UNCHANGED file
              /\ stale' = (stale \/ nlink[d] = 0)
              /\ return(p)
              /\ UNCHANGED <<busy, cwd, panicked>>

\* create of an entry that exists: only a file may be opened.
createExists(p) ==
    /\ ilock(p, "second") /\ op[p] \in {"create"} \cup Types
    /\ \/ ends(p, {ip[p]})
       \/ /\ type[ip[p]] = "T_FILE" /\ op[p] = "create" /\ file[p] = 0
          /\ file' = [file EXCEPT ![p] = ip[p]]
          /\ return(p)
          /\ UNCHANGED <<inodeVars, busy, cwd, stale, panicked>>

-----------------------------------------------------------------------------
(***************************************************************************)
(* unlink locks the directory, and then the inode of the entry.            *)
(***************************************************************************)
\* Mutant: ".." may be unlinked.
dot_Single(n) == n = "."

dot(n) == n \in {".", ".."}

unlinkDir(p) ==
    LET d == dp[p]
        i == dirlookup(d, name[p])
    IN  /\ ilock(p, "parent") /\ op[p] = "unlink"
        /\ \/ (dot(name[p]) \/ i = 0) /\ ends(p, {d})
           \/ /\ ~ dot(name[p]) /\ i # 0
              /\ busy' = [busy EXCEPT ![d] = p]
              /\ ip' = [ip EXCEPT ![p] = i] /\ pc' = [pc EXCEPT ![p] = "second"]
              /\ UNCHANGED <<inodeVars, procVars, op, elems, name, dp, old, new, stale, panicked>>

unlink(p) ==
    LET d == dp[p]
        i == ip[p]
        isdir == type[i] = "T_DIR"
        k == Min(Matches(d, name[p]))
    IN  /\ ilock(p, "second") /\ op[p] = "unlink" /\ nlink[i] >= 1
        /\ \/ isdir /\ ~ isdirempty(i) /\ ends(p, {d, i})
           \/ /\ isdir => isdirempty(i)
              /\ iputs({d, i}, [nlink EXCEPT ![i] = @ - 1, ![d] = IF isdir THEN @ - 1 ELSE @],
                       [dents EXCEPT ![d][k] = Empty])
              /\ busy' = [busy EXCEPT ![d] = none]
              /\ return(p)
              /\ UNCHANGED <<procVars, stale, panicked>>

-----------------------------------------------------------------------------
(***************************************************************************)
(* link counts the new link first, and walks the second path unlocked.     *)
(***************************************************************************)
link(p) ==
    LET i == ip[p]
    IN  /\ ilock(p, "found") /\ op[p] = "link"
        /\ \/ (type[i] = "T_DIR" \/ nlink[i] = MaxLinks) /\ ends(p, {i})
           \/ /\ type[i] # "T_DIR" /\ nlink[i] < MaxLinks
              /\ nlink' = [nlink EXCEPT ![i] = @ + 1]
              /\ old' = [old EXCEPT ![p] = i] /\ op' = [op EXCEPT ![p] = "linkTo"]
              /\ elems' = [elems EXCEPT ![p] = new[p].elems]
              /\ ip' = [ip EXCEPT ![p] = IF new[p].abs THEN ROOTINO ELSE cwd[p]]
              /\ pc' = [pc EXCEPT ![p] = "walk"] /\ new' = [new EXCEPT ![p] = none]
              /\ UNCHANGED <<type, dents, busy, procVars, name, dp, stale, panicked>>

linkEntry(p) ==
    LET d == dp[p]
    IN  /\ ilock(p, "parent") /\ op[p] = "linkTo"
        /\ \/ /\ dirlookup(d, name[p]) # 0
              /\ iputs({d}, nlink, dents)
              /\ dp' = [dp EXCEPT ![p] = 0] /\ pc' = [pc EXCEPT ![p] = "undo"]
              /\ UNCHANGED <<busy, procVars, op, elems, name, ip, old, new, stale, panicked>>
           \/ /\ dirlookup(d, name[p]) = 0
              /\ iputs({d, old[p]}, nlink, [dents EXCEPT ![d] = dirlink(d, name[p], old[p])])
              /\ stale' = (stale \/ nlink[d] = 0)
              /\ return(p)
              /\ UNCHANGED <<busy, procVars, panicked>>

\* Mutant: the link is not taken back.
undone_Keep(i) == nlink

undone(i) == [nlink EXCEPT ![i] = @ - 1]

linkUndo(p) ==
    /\ ilock(p, "undo")
    /\ iputs({old[p]}, undone(old[p]), dents)
    /\ return(p)
    /\ UNCHANGED <<busy, procVars, stale, panicked>>

halted == panicked # "" /\ UNCHANGED vars

Next ==
    \/ \E p \in Procs :
        \/ namex(p) \/ nameiEnd(p) \/ open(p) \/ close(p) \/ chdir(p) \/ setattr(p)
        \/ create(p) \/ createExists(p) \/ unlinkDir(p) \/ unlink(p)
        \/ link(p) \/ linkEntry(p) \/ linkUndo(p) \/ panics(p)
        \/ \E c \in Calls : start(p, c)
    \/ halted

Spec == Init /\ [][Next]_vars

-----------------------------------------------------------------------------
(***************************************************************************)
(* Properties.                                                             *)
(***************************************************************************)
\* A name occurs once in a directory: the lookup of dirlink and the write that
\* follows happen under one lock.
UniqueNames == \A d \in Inums : \A k, l \in DOMAIN dents[d] :
    dents[d][k].inum # 0 /\ dents[d][l].inum # 0 /\ dents[d][k].name = dents[d][l].name => k = l

\* Names of inode i, other than "." and the ".." of its subdirectories, and those.
named(i) == {<<d, k>> \in Inums \X (1 .. NINODES + 2) :
    k \in DOMAIN dents[d] /\ dents[d][k].inum = i /\ ~ dents[d][k].name \in {".", ".."}}
subdirs(i) == {d \in Inums : d # i /\ nlink[d] > 0 /\ dirlookup(d, "..") = i}
linking(i) == {p \in Procs : old[p] = i}
rootLink(i) == IF i = ROOTINO THEN 1 ELSE 0

\* The link count of an inode is never less than the number of its names, so that
\* nothing with a name is freed.  While no process works in a directory that has
\* been removed, it is exact: names, subdirectories, and links being made.
LinkCounts == \A i \in Inums :
    LET names == Cardinality(named(i)) + rootLink(i)
    IN  /\ nlink[i] >= names
        /\ ~ stale => nlink[i] = names + Cardinality(subdirs(i)) + Cardinality(linking(i))

\* unlink holds the lock of a directory while it waits for that of an entry.
\* No two processes wait for each other: entries only lead down.
NoLockCycle == \A p, q \in Procs : p # q /\ pc[p] = "second" /\ pc[q] = "second" =>
    ~ (busy[ip[p]] = q /\ busy[ip[q]] = p)

\* ilock finds no freed inode and unlink none without links, unless a process has
\* followed the ".." of a removed directory, or put an entry into one.
NoNamePanic == panicked = "inode" => stale
=============================================================================
