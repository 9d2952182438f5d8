------------------------------- MODULE Blocks -------------------------------
(***************************************************************************)
(* The contents of inodes: the bitmap of free blocks, direct and indirect  *)
(* addresses (fs.c), and filewrite, fileread, itrunc and the scans and     *)
(* updates of a directory on top of them.                                  *)
(*                                                                         *)
(* A byte and a block address have the same type here (an indirect block   *)
(* is a block whose bytes are addresses, so NINDIRECT = BSIZE), which lets *)
(* the model confuse them where the code would.  A directory entry is one  *)
(* byte, 0 when it is free, and the root is the one directory.  A step     *)
(* is what a process does while it holds one buffer: marking a block,      *)
(* zeroing it and storing its address, copying bytes.  The bitmap is one   *)
(* block, as mkfs makes it.  The log and the buffers are Log and Bio.      *)
(***************************************************************************)
EXTENDS Integers, Sequences, FiniteSets, FiniteSetsExt, SequencesExt

CONSTANTS Procs, Inodes, Files,
          root,        \* the inode of the root directory
          NBLOCKS,     \* data blocks of the disk
          BSIZE, NDIRECT,
          LOGSIZE,
          Counts,      \* the n of read and write
          Values,      \* the bytes that are written
          ImageSizes,  \* sizes of the files that mkfs puts on the disk
          MaxEntries,  \* bound: names are made while the root has fewer
          none         \* no process, no inode, no file

ASSUME BlocksAssumption ==
    /\ {NBLOCKS, BSIZE, NDIRECT} \subseteq Nat \ {0}
    /\ LOGSIZE \in Nat /\ LOGSIZE >= 6
    /\ Counts \subseteq Nat \ {0} /\ Values \subseteq 1 .. NBLOCKS
    /\ ImageSizes \subseteq 0 .. (NDIRECT + BSIZE) * BSIZE /\ MaxEntries \in Nat
    /\ root \in Inodes /\ none \notin Procs \cup Inodes \cup Files

BlockNos == 1 .. NBLOCKS
Bytes == 0 .. NBLOCKS
NINDIRECT == BSIZE
MAXFILE == NDIRECT + NINDIRECT
\* The most that one writei of filewrite writes.
maxWrite == ((LOGSIZE - 1 - 1 - 2) \div 2) * BSIZE

VARIABLES bitmap,  \* blocks in use
          data,    \* the bytes of every block
          addrs, size,
          unsaved, \* inodes changed in memory since their iupdate
          busy,    \* I_BUSY: the process that holds the inode, or none
          ip, off, \* of every file: ip = none when it is closed
          pc, call,\* what a process does; its call: file, n, i, the byte it writes
          at, end, \* off and its last value in readi and writei; j in itrunc
          fresh,   \* the block that balloc has marked and bmap has not stored yet, or 0
          dst,     \* the bytes that fileread has read
          logged,  \* blocks passed to log_write since begin_op
          hole,    \* whether mkfs left a block below the size of the root unallocated
          panicked

fsVars == <<bitmap, data, addrs, size, unsaved>>
callVars == <<pc, call, at, end, fresh, dst, logged>>
vars == <<fsVars, busy, ip, off, callVars, hole, panicked>>

NoCall == [f |-> none, n |-> 0, i |-> 0, v |-> 0]

TypeOK ==
    /\ bitmap \subseteq BlockNos /\ data \in [BlockNos -> [0 .. BSIZE - 1 -> Bytes]]
    /\ addrs \in [Inodes -> [0 .. NDIRECT -> Bytes]]
    /\ size \in [Inodes -> 0 .. MAXFILE * BSIZE] /\ unsaved \subseteq Inodes
    /\ busy \in [Inodes -> Procs \cup {none}] /\ ip \in [Files -> Inodes \cup {none}]
    /\ off \in [Files -> 0 .. MAXFILE * BSIZE]
    /\ pc \in [Procs -> {"user", "begin", "scan", "write", "read", "trunc"}]
    /\ fresh \in [Procs -> BlockNos \cup {0}] /\ hole \in BOOLEAN /\ panicked \in BOOLEAN

zeros == [k \in 0 .. BSIZE - 1 |-> 0]

\* The address of block bn of inode i in t, or 0.
address(t, i, bn) ==
    IF bn < NDIRECT THEN t.addrs[i][bn]
    ELSE IF t.addrs[i][NDIRECT] = 0 THEN 0 ELSE t.data[t.addrs[i][NDIRECT]][bn - NDIRECT]

-----------------------------------------------------------------------------
(***************************************************************************)
(* The image that mkfs.c makes: it gives out the blocks in order, marks    *)
(* those below freeblock at the end, and rounds the size of the root up.   *)
(***************************************************************************)
BlankImage == [freeblock |-> 1, data |-> [b \in BlockNos |-> zeros],
               addrs |-> [i \in Inodes |-> [k \in 0 .. NDIRECT |-> 0]],
               size |-> [i \in Inodes |-> 0]]

\* Address k of inode i, and entry k of the indirect block ind, in an image.
imageAddr(t, i, k) ==
    IF t.addrs[i][k] # 0 THEN t
    ELSE [t EXCEPT !.addrs[i][k] = t.freeblock, !.freeblock = @ + 1]
imageEntry(t, ind, k) ==
    IF t.data[ind][k] # 0 THEN t
    ELSE [t EXCEPT !.data[ind][k] = t.freeblock, !.freeblock = @ + 1]

\* iappend of one byte v.
iappend(t, i, v) ==
    LET fbn == t.size[i] \div BSIZE
        u == IF fbn < NDIRECT THEN imageAddr(t, i, fbn)
             ELSE LET w == imageAddr(t, i, NDIRECT)
                  IN  imageEntry(w, w.addrs[i][NDIRECT], fbn - NDIRECT)
    IN  [u EXCEPT !.data[address(u, i, fbn)][t.size[i] % BSIZE] = v, !.size[i] = @ + 1]

\* n times the byte v.
iappends(t, i, v, n) == FoldLeft(LAMBDA u, k : iappend(u, i, v), t, [k \in 1 .. n |-> k])

\* The root gets its entries for itself and its parent, and then one for every file
\* of s, before the n[i] bytes of the file.
image(s, n) ==
    LET v == CHOOSE v \in Values : TRUE
        file(t, i) == iappends(iappend(t, root, 1), i, v, n[i])
    IN  FoldLeft(file, iappends(BlankImage, root, 1, 2), s)

\* "fix size of root inode dir".
fixed(t) == [t EXCEPT !.size[root] = (@ \div BSIZE + 1) * BSIZE]

\* The blocks that mkfs' balloc marks.
mkfsUsed(t) == 1 .. t.freeblock - 1

Init ==
    /\ \E S \in SUBSET (Inodes \ {root}) : \E s \in SetToSeqs(S), n \in [S -> ImageSizes] :
         LET t == fixed(image(s, n))
         IN  /\ bitmap = mkfsUsed(t) /\ data = t.data /\ addrs = t.addrs /\ size = t.size
             /\ hole = (address(t, root, (t.size[root] - 1) \div BSIZE) = 0)
    /\ unsaved = {} /\ busy = [i \in Inodes |-> none]
    /\ ip = [f \in Files |-> none] /\ off = [f \in Files |-> 0]
    /\ pc = [p \in Procs |-> "user"] /\ call = [p \in Procs |-> NoCall]
    /\ at = [p \in Procs |-> 0] /\ end = [p \in Procs |-> 0]
    /\ fresh = [p \in Procs |-> 0] /\ dst = [p \in Procs |-> <<>>]
    /\ logged = [p \in Procs |-> {}]
    /\ panicked = FALSE

-----------------------------------------------------------------------------
(***************************************************************************)
(* balloc and bmap, called by the loops of readi and writei.               *)
(***************************************************************************)
panic == panicked' = TRUE /\ UNCHANGED <<fsVars, busy, ip, off, callVars, hole>>

block(b) == <<"block", b>>
bitmapBlock == <<"bitmap">>

\* The processes between begin_op and end_op that hold their inode.
outstanding == {p \in Procs : pc[p] \in {"scan", "write", "trunc"}}

tables == [addrs |-> addrs, data |-> data]

\* The inode that p works on, and its block at the present offset.
inode(p) == IF call[p].f = none THEN root ELSE ip[call[p].f]
bn(p) == at[p] \div BSIZE
inLoop(p, l) == ~ panicked /\ pc[p] \in l /\ at[p] < end[p]
mapped(p) == address(tables, inode(p), bn(p)) # 0

\* The first free block is marked; bmap calls balloc for the indirect block and for
\* the block itself.  log_write panics outside of every transaction.
balloc(p) ==
    /\ inLoop(p, {"scan", "read", "write"}) /\ ~ mapped(p) /\ fresh[p] = 0
    /\ IF bitmap = BlockNos \/ outstanding = {} THEN panic
       ELSE /\ fresh' = [fresh EXCEPT ![p] = Min(BlockNos \ bitmap)]
            /\ bitmap' = bitmap \cup {Min(BlockNos \ bitmap)}
            /\ logged' = [logged EXCEPT ![p] = @ \cup {bitmapBlock}]
            /\ UNCHANGED <<data, addrs, size, unsaved, busy, ip, off, pc, call, at, end, dst, hole,
                           panicked>>

bzero(b) == [data EXCEPT ![b] = zeros]

\* bzero of the new block, whose address goes into the inode or the indirect block.
bmap(p) ==
    LET i == inode(p)
        k == Min({bn(p), NDIRECT})
        b == fresh[p]
        ind == addrs[i][NDIRECT]
    IN  /\ inLoop(p, {"scan", "read", "write"}) /\ b # 0
        /\ IF outstanding = {} THEN panic
           ELSE /\ IF addrs[i][k] = 0
                   THEN /\ data' = bzero(b)
                        /\ addrs' = [addrs EXCEPT ![i][k] = b] /\ unsaved' = unsaved \cup {i}
                        /\ logged' = [logged EXCEPT ![p] = @ \cup {block(b)}]
                   ELSE /\ data' = [bzero(b) EXCEPT ![ind][bn(p) - NDIRECT] = b]
                        /\ logged' = [logged EXCEPT ![p] = @ \cup {block(b), block(ind)}]
                        /\ UNCHANGED <<addrs, unsaved>>
                /\ fresh' = [fresh EXCEPT ![p] = 0]
                /\ UNCHANGED <<bitmap, size, busy, ip, off, pc, call, at, end, dst, hole, panicked>>

-----------------------------------------------------------------------------
(***************************************************************************)
(* Opening and closing, as far as the other modules have them: a file may  *)
(* be closed when no call uses it, an inode is truncated by the last iput. *)
(***************************************************************************)
open(f, i) ==
    /\ ~ panicked /\ ip[f] = none /\ busy[i] = none
    /\ ip' = [ip EXCEPT ![f] = i] /\ off' = [off EXCEPT ![f] = 0]
    /\ UNCHANGED <<fsVars, busy, callVars, hole, panicked>>

close(f) ==
    /\ ~ panicked /\ ip[f] # none /\ \A p \in Procs : call[p].f # f
    /\ ip' = [ip EXCEPT ![f] = none] /\ off' = [off EXCEPT ![f] = 0]
    /\ UNCHANGED <<fsVars, busy, callVars, hole, panicked>>

-----------------------------------------------------------------------------
(***************************************************************************)
(* filewrite.  A directory is never open for writing.                      *)
(***************************************************************************)
return(p) ==
    /\ pc' = [pc EXCEPT ![p] = "user"] /\ call' = [call EXCEPT ![p] = NoCall]
    /\ at' = [at EXCEPT ![p] = 0] /\ end' = [end EXCEPT ![p] = 0]
    /\ dst' = [dst EXCEPT ![p] = <<>>] /\ logged' = [logged EXCEPT ![p] = {}]


n1(c) == Min({c.n - c.i, maxWrite})

\* An iteration of call c: begin_op, ilock and the tests of writei, which end it with -1.
writeBegin(p, c) ==
    LET i == ip[c.f]
        e == off[c.f] + n1(c)
    IN  /\ busy[i] = none
        /\ IF off[c.f] > size[i] \/ e > MAXFILE * BSIZE
           THEN return(p) /\ UNCHANGED busy
           ELSE /\ pc' = [pc EXCEPT ![p] = "write"] /\ busy' = [busy EXCEPT ![i] = p]
                /\ call' = [call EXCEPT ![p] = c]
                /\ at' = [at EXCEPT ![p] = off[c.f]] /\ end' = [end EXCEPT ![p] = e]
                /\ UNCHANGED <<dst, logged>>
        /\ UNCHANGED <<fsVars, ip, off, fresh, hole, panicked>>

filewrite(p, f, n, v) ==
    /\ ~ panicked /\ pc[p] = "user" /\ ip[f] \notin {none, root}
    /\ writeBegin(p, [f |-> f, n |-> n, i |-> 0, v |-> v])

writeAgain(p) == ~ panicked /\ pc[p] = "begin" /\ writeBegin(p, call[p])

\* off % BSIZE, and m, the bytes of the present block.
within(p) == at[p] % BSIZE
chunk(p) == Min({end[p] - at[p], BSIZE - within(p)})
here(p) == within(p) .. within(p) + chunk(p) - 1

\* The loop of writei, when bmap has given it the block.
writei(p) ==
    LET b == address(tables, inode(p), bn(p))
    IN  /\ inLoop(p, {"write"}) /\ mapped(p) /\ fresh[p] = 0
        /\ data' = [data EXCEPT ![b] =
                     [k \in DOMAIN @ |-> IF k \in here(p) THEN call[p].v ELSE @[k]]]
        /\ logged' = [logged EXCEPT ![p] = @ \cup {block(b)}]
        /\ at' = [at EXCEPT ![p] = @ + chunk(p)]
        /\ UNCHANGED <<bitmap, addrs, size, unsaved, busy, ip, off, pc, call, end, fresh, dst, hole,
                       panicked>>

\* Mutant: the inode is not saved.
grow_Unsaved(p, i) ==
    /\ size' = [size EXCEPT ![i] = Max({@, at[p]})]
    /\ UNCHANGED <<unsaved>>

\* The end of writei: the file may have grown.
grow(p, i) ==
    IF at[p] > size[i]
    THEN size' = [size EXCEPT ![i] = at[p]] /\ unsaved' = unsaved \ {i}
    ELSE UNCHANGED <<size, unsaved>>

\* The rest of the iteration of filewrite; the last one returns.
writeDone(p) ==
    LET f == call[p].f
        done == call[p].i + at[p] - off[f]
    IN  /\ ~ panicked /\ pc[p] = "write" /\ at[p] = end[p] /\ f # none
        /\ grow(p, ip[f])
        /\ off' = [off EXCEPT ![f] = at[p]]
        /\ busy' = [busy EXCEPT ![ip[f]] = none]
        /\ IF done = call[p].n THEN return(p)
           ELSE /\ call' = [call EXCEPT ![p].i = done] /\ pc' = [pc EXCEPT ![p] = "begin"]
                /\ logged' = [logged EXCEPT ![p] = {}]
                /\ UNCHANGED <<at, end, dst>>
        /\ UNCHANGED <<bitmap, data, addrs, ip, fresh, hole, panicked>>

-----------------------------------------------------------------------------
(***************************************************************************)
(* fileread, outside of a transaction.                                     *)
(***************************************************************************)
\* readi clips the count, and refuses an offset beyond the end.
fileread(p, f, n) ==
    LET i == ip[f]
    IN  /\ ~ panicked /\ pc[p] = "user" /\ i # none /\ busy[i] = none
        /\ off[f] <= size[i]
        /\ pc' = [pc EXCEPT ![p] = "read"] /\ busy' = [busy EXCEPT ![i] = p]
        /\ call' = [call EXCEPT ![p] = [f |-> f, n |-> n, i |-> 0, v |-> 0]]
        /\ at' = [at EXCEPT ![p] = off[f]]
        /\ end' = [end EXCEPT ![p] = Min({off[f] + n, size[i]})]
        /\ UNCHANGED <<fsVars, ip, off, fresh, dst, logged, hole, panicked>>

\* Mutant: the offset within the block is forgotten.
bytesHere_Start(p) ==
    LET b == address(tables, inode(p), bn(p)) IN [k \in 1 .. chunk(p) |-> data[b][k - 1]]

\* The bytes from the present offset to the end of the block or of the call.
bytesHere(p) ==
    LET b == address(tables, inode(p), bn(p))
    IN  [k \in 1 .. chunk(p) |-> data[b][within(p) + k - 1]]

\* The loop of readi, for fileread and for the scan of a directory.
readi(p) ==
    /\ inLoop(p, {"read", "scan"}) /\ mapped(p) /\ fresh[p] = 0
    /\ dst' = [dst EXCEPT ![p] = IF pc[p] = "read" THEN @ \o bytesHere(p) ELSE @]
    /\ at' = [at EXCEPT ![p] = @ + chunk(p)]
    /\ UNCHANGED <<fsVars, busy, ip, off, pc, call, end, fresh, logged, hole, panicked>>

readDone(p) ==
    LET f == call[p].f
    IN  /\ ~ panicked /\ pc[p] = "read" /\ at[p] = end[p]
        /\ off' = [off EXCEPT ![f] = at[p]]
        /\ busy' = [busy EXCEPT ![ip[f]] = none]
        /\ return(p)
        /\ UNCHANGED <<fsVars, ip, fresh, hole, panicked>>

-----------------------------------------------------------------------------
(***************************************************************************)
(* Calls that look up, add or remove a name in the root directory, inside  *)
(* a transaction.  The scans read entry by entry; here block by block.     *)
(***************************************************************************)
\* Byte k of inode i; a block that is missing reads as zeros.
byte(i, k) ==
    LET b == address(tables, i, k \div BSIZE) IN IF b = 0 THEN 0 ELSE data[b][k % BSIZE]
names == {k \in 0 .. size[root] - 1 : byte(root, k) # 0}

\* begin_op and ilock of a call that looks a name up.
dirlookup(p) ==
    /\ ~ panicked /\ pc[p] = "user" /\ busy[root] = none
    /\ pc' = [pc EXCEPT ![p] = "scan"] /\ busy' = [busy EXCEPT ![root] = p]
    /\ end' = [end EXCEPT ![p] = size[root]]
    /\ UNCHANGED <<fsVars, ip, off, call, at, fresh, dst, logged, hole, panicked>>

\* The entries among which the name is found, if it is found now.
found(p) == {k \in names : k < at[p] /\ k \div BSIZE = (at[p] - 1) \div BSIZE}

\* A lookup ends with the name or at the end of the directory.
lookupDone(p) ==
    /\ ~ panicked /\ pc[p] = "scan" /\ fresh[p] = 0 /\ (at[p] = end[p] \/ found(p) # {})
    /\ busy' = [busy EXCEPT ![root] = none]
    /\ return(p)
    /\ UNCHANGED <<fsVars, ip, off, fresh, hole, panicked>>

\* writei of entry k.
putEntry(p, k, v) ==
    /\ pc' = [pc EXCEPT ![p] = "write"] /\ call' = [call EXCEPT ![p].v = v]
    /\ at' = [at EXCEPT ![p] = k] /\ end' = [end EXCEPT ![p] = k + 1]
    /\ UNCHANGED <<fsVars, busy, ip, off, fresh, dst, logged, hole, panicked>>

\* dirlink: the name is not there; it goes into the first free entry or to the end.
dirlink(p) ==
    LET k == Min((0 .. size[root]) \ names)
    IN  /\ ~ panicked /\ pc[p] = "scan" /\ at[p] = end[p] /\ Cardinality(names) < MaxEntries
        /\ IF k + 1 > MAXFILE * BSIZE THEN panic ELSE putEntry(p, k, 1)

\* unlink clears the entry that it has found; "." and ".." stay.
unlinkEntry(p, k) ==
    /\ ~ panicked /\ pc[p] = "scan" /\ fresh[p] = 0 /\ k \in found(p) \ {0, 1}
    /\ putEntry(p, k, 0)

entryDone(p) ==
    /\ ~ panicked /\ pc[p] = "write" /\ at[p] = end[p] /\ call[p].f = none
    /\ grow(p, root)
    /\ busy' = [busy EXCEPT ![root] = none]
    /\ return(p)
    /\ UNCHANGED <<bitmap, data, addrs, ip, off, fresh, hole, panicked>>

-----------------------------------------------------------------------------
(***************************************************************************)
(* itrunc, called by the iput that finds no link and no other reference.   *)
(***************************************************************************)
itrunc(p, i) ==
    /\ ~ panicked /\ pc[p] = "user" /\ i # root /\ busy[i] = none /\ \A f \in Files : ip[f] # i
    /\ busy' = [busy EXCEPT ![i] = p] /\ pc' = [pc EXCEPT ![p] = "trunc"]
    /\ UNCHANGED <<fsVars, ip, off, call, at, end, fresh, dst, logged, hole, panicked>>

truncating(p, i) == ~ panicked /\ pc[p] = "trunc" /\ busy[i] = p
direct(i) == {k \in 0 .. NDIRECT - 1 : addrs[i][k] # 0}
indirect(i) == addrs[i][NDIRECT]
\* The entries of the indirect block that the loop has not passed.
entries(i, j) == IF indirect(i) = 0 THEN {}
                 ELSE {k \in j .. NINDIRECT - 1 : data[indirect(i)][k] # 0}

bfree(p, b) ==
    /\ bitmap' = bitmap \ {b}
    /\ logged' = [logged EXCEPT ![p] = @ \cup {bitmapBlock}]

\* Frees block b and changes the address k of inode i to 0.
truncAddr(p, i, k) ==
    IF addrs[i][k] \notin bitmap THEN panic
    ELSE /\ bfree(p, addrs[i][k])
         /\ addrs' = [addrs EXCEPT ![i][k] = 0] /\ unsaved' = unsaved \cup {i}
         /\ UNCHANGED <<data, size, busy, ip, off, pc, call, at, end, fresh, dst, hole, panicked>>

truncDirect(p, i) ==
    /\ truncating(p, i) /\ direct(i) # {}
    /\ truncAddr(p, i, Min(direct(i)))

truncEntry(p, i) ==
    /\ truncating(p, i) /\ direct(i) = {} /\ entries(i, at[p]) # {}
    /\ LET j == Min(entries(i, at[p]))
       IN  IF data[indirect(i)][j] \notin bitmap THEN panic
           ELSE /\ bfree(p, data[indirect(i)][j])
                /\ at' = [at EXCEPT ![p] = j + 1]
                /\ UNCHANGED <<data, addrs, size, unsaved, busy, ip, off, pc, call, end, fresh,
                               dst, hole, panicked>>

\* Mutant: the indirect block is freed before the blocks that it lists.
truncIndirect_First(p, i) ==
    /\ truncating(p, i) /\ direct(i) = {} /\ indirect(i) # 0
    /\ truncAddr(p, i, NDIRECT)

truncIndirect(p, i) ==
    /\ truncating(p, i) /\ direct(i) = {} /\ entries(i, at[p]) = {} /\ indirect(i) # 0
    /\ truncAddr(p, i, NDIRECT)

truncDone(p, i) ==
    /\ truncating(p, i) /\ direct(i) = {} /\ indirect(i) = 0
    /\ size' = [size EXCEPT ![i] = 0] /\ unsaved' = unsaved \ {i}
    /\ busy' = [busy EXCEPT ![i] = none]
    /\ return(p)
    /\ UNCHANGED <<bitmap, data, addrs, ip, off, fresh, hole, panicked>>

halted == panicked /\ UNCHANGED vars

Next ==
    \/ \E f \in Files : close(f) \/ \E i \in Inodes : open(f, i)
    \/ \E p \in Procs :
        \/ \E f \in Files, n \in Counts :
             fileread(p, f, n) \/ \E v \in Values : filewrite(p, f, n, v)
        \/ writeAgain(p) \/ balloc(p) \/ bmap(p) \/ writei(p) \/ writeDone(p)
        \/ readi(p) \/ readDone(p)
        \/ dirlookup(p) \/ lookupDone(p) \/ dirlink(p) \/ entryDone(p)
        \/ \E k \in 0 .. MAXFILE * BSIZE : unlinkEntry(p, k)
        \/ \E i \in Inodes : \/ itrunc(p, i) \/ truncDirect(p, i) \/ truncEntry(p, i)
                             \/ truncIndirect(p, i) \/ truncDone(p, i)
    \/ halted

Spec == Init /\ [][Next]_vars

-----------------------------------------------------------------------------
(***************************************************************************)
(* Properties.                                                             *)
(***************************************************************************)
\* The addresses in an inode and its indirect block that still count, and the blocks
\* that a process in bmap is about to store.
passed(i) == IF busy[i] # none /\ pc[busy[i]] = "trunc" THEN at[busy[i]] ELSE 0
refs == {<<i, k>> : i \in Inodes, k \in 0 .. NDIRECT + NINDIRECT} \cup {<<p, 0>> : p \in Procs}
refBlock(r) ==
    LET k == r[2]
    IN  IF r[1] \in Procs THEN fresh[r[1]]
        ELSE IF k <= NDIRECT THEN addrs[r[1]][k]
        ELSE IF k - NDIRECT - 1 \in entries(r[1], passed(r[1]))
             THEN data[indirect(r[1])][k - NDIRECT - 1] ELSE 0
live == {r \in refs : refBlock(r) # 0}

\* The bitmap marks exactly the blocks that some inode uses or that balloc has just
\* given to a process, and no block is used twice, while processes allocate, write
\* and truncate at the same time: balloc, bfree, bmap and itrunc.
BlocksOwned ==
    /\ bitmap = {refBlock(r) : r \in live}
    /\ Cardinality(live) = Cardinality(bitmap)

\* writei saves the inode only when the file grows, and readi never; still, an inode
\* that is not locked has been saved, except for a root directory that mkfs made
\* with a size that takes in a block it had not allocated.
InodeSaved == \A i \in unsaved : busy[i] # none \/ (i = root /\ hole)


\* The bytes of the files, for the specification Contents.
contents == [i \in Inodes |->
    IF busy[i] # none /\ pc[busy[i]] = "trunc" THEN <<>>
    ELSE [k \in 1 .. size[i] |-> byte(i, k - 1)]]

\* What fileread has read, when it has read everything.
answer == [p \in Procs |->
    IF pc[p] = "read" /\ at[p] = end[p] /\ dst[p] # <<>>
    THEN [f |-> call[p].f, bytes |-> dst[p]] ELSE [f |-> none, bytes |-> <<>>]]

\* The blocks implement an array of bytes for every file: fileread returns the bytes
\* at its offset as they were written last, filewrite changes those at its offset, and
\* nothing else changes.
C == INSTANCE Contents WITH Limit <- MAXFILE * BSIZE
ContentsSpec == C!Spec
=============================================================================
