------------------------------ MODULE BioStore ------------------------------
(***************************************************************************)
(* The buffer cache implements a store of blocks (BlockStore), for any     *)
(* number of processes, buffers and blocks and whatever reads fail.        *)
(***************************************************************************)
EXTENDS BioProofs

\* Time for the leaves, which the provers try in this order.
USE SMTT(30), ZenonT(30)

\* What the store has of a block, in terms of the buffer that caches it and
\* of the process that holds it.
StoreView ==
    /\ contents \in [Blocks -> Values]
    /\ \A b \in Bufs, k \in Blocks :
         blockno[b] = k => contents[k] = IF valid[b] THEN data[b] ELSE disk[k]
    /\ \A k \in Blocks : (\A b \in Bufs : blockno[b] # k) => contents[k] = disk[k]
    /\ holder \in [Blocks -> Procs \cup {NoProc}]
    /\ \A p \in Procs, k \in Blocks : Holds(p, k) => holder[k] = p
    /\ \A k \in Blocks : (\A p \in Procs : ~ Holds(p, k)) => holder[k] = NoProc

\* A block's one buffer and its one holder determine its contents and holder in
\* the store.
LEMMA View == BioInv => StoreView
<1> SUFFICES ASSUME BioInv PROVE StoreView
  OBVIOUS
<1>1. ASSUME NEW b \in Bufs, NEW k \in Blocks, blockno[b] = k
      PROVE  contents[k] = IF valid[b] THEN data[b] ELSE disk[k]
  <2>1. Cached(k) = {b}
    BY <1>1, BioAssumption DEF BioInv, OneBufferPerBlock, Cached
  <2>2. valid[b] \/ dirty[b] <=> valid[b]
    BY DEF BioInv, CleanIsDisk
  <2>3. CASE valid[b]
    <3>1. (CHOOSE c \in Cached(k) : valid[c] \/ dirty[c]) = b
      BY <2>1, <2>3
    <3> QED BY <2>1, <2>3, <3>1 DEF contents
  <2>4. CASE ~ valid[b]
    BY <2>1, <2>2, <2>4 DEF contents
  <2> QED BY <2>3, <2>4
<1>2. ASSUME NEW k \in Blocks, \A b \in Bufs : blockno[b] # k
      PROVE  contents[k] = disk[k]
  BY <1>2 DEF contents, Cached
<1>3. contents \in [Blocks -> Values]
  <2>0. data \in [Bufs -> Values] /\ disk \in [Blocks -> Values]
    BY ZenonT(30) DEF BioInv, TypeOK
  <2>1. ASSUME NEW k \in Blocks PROVE contents[k] \in Values
    <3>1. CASE \E b \in Bufs : blockno[b] = k
      BY <1>1, <2>0, <3>1
    <3>2. CASE \A b \in Bufs : blockno[b] # k
      BY <1>2, <2>0, <3>2
    <3> QED BY <3>1, <3>2
  <2> QED BY <2>1 DEF contents
<1>4. ASSUME NEW p \in Procs, NEW k \in Blocks, Holds(p, k)
      PROVE  holder[k] = p
  <2>1. ASSUME NEW q \in Procs, Holds(q, k) PROVE q = p
    <3>1. /\ pc[p] \in Holding /\ pc[q] \in Holding
          /\ blockno[mine[p]] = k /\ blockno[mine[q]] = k
      BY <1>4, <2>1 DEF Holds, Holding
    <3>2. mine[p] \in Bufs /\ mine[q] \in Bufs
      BY <3>1 DEF BioInv, HoldsAlone
    <3>3. mine[p] = mine[q]
      BY <3>1, <3>2, BioAssumption DEF BioInv, OneBufferPerBlock
    <3> QED BY <3>1, <3>3 DEF BioInv, HoldsAlone
  <2>2. (CHOOSE q \in Procs : Holds(q, k)) = p
    BY <1>4, <2>1
  <2> QED BY <1>4, <2>2 DEF holder
<1>5. ASSUME NEW k \in Blocks, \A p \in Procs : ~ Holds(p, k)
      PROVE  holder[k] = NoProc
  BY <1>5 DEF holder
<1>6. holder \in [Blocks -> Procs \cup {NoProc}]
  BY <1>4, <1>5 DEF holder
<1> QED BY <1>1, <1>2, <1>3, <1>4, <1>5, <1>6 DEF StoreView

\* Where nobody starts or stops holding a block, its holder stays.
LEMMA HolderFrame ==
    ASSUME StoreView, StoreView', NEW k \in Blocks,
           \A p \in Procs : Holds(p, k)' <=> Holds(p, k)
    PROVE  holder'[k] = holder[k]
<1>1. CASE \E p \in Procs : Holds(p, k)
  <2>1. PICK p \in Procs : Holds(p, k)
    BY <1>1
  <2>2. holder[k] = p
    BY <2>1 DEF StoreView
  <2>3. holder'[k] = p
    BY <2>1 DEF StoreView
  <2> QED BY <2>2, <2>3
<1>2. CASE \A p \in Procs : ~ Holds(p, k)
  <2>1. holder[k] = NoProc
    BY <1>2 DEF StoreView
  <2>2. holder'[k] = NoProc
    BY <1>2 DEF StoreView
  <2> QED BY <2>1, <2>2
<1> QED BY <1>1, <1>2

\* Where a block's buffer and its place on the disk stay, so do its contents.
LEMMA ContentsFrame ==
    ASSUME StoreView, StoreView', NEW k \in Blocks, disk'[k] = disk[k],
           \A b \in Bufs : /\ blockno'[b] = k <=> blockno[b] = k
                           /\ blockno[b] = k => valid'[b] = valid[b] /\ data'[b] = data[b]
    PROVE  contents'[k] = contents[k]
<1>1. CASE \E b \in Bufs : blockno[b] = k
  <2>1. PICK b \in Bufs : blockno[b] = k
    BY <1>1
  <2>2. contents[k] = IF valid[b] THEN data[b] ELSE disk[k]
    BY <2>1 DEF StoreView
  <2>3. contents'[k] = IF valid'[b] THEN data'[b] ELSE disk'[k]
    BY <2>1 DEF StoreView
  <2> QED BY <2>1, <2>2, <2>3
<1>2. CASE \A b \in Bufs : blockno[b] # k
  BY <1>2 DEF StoreView
<1> QED BY <1>1, <1>2

\* Two functions on the blocks that agree everywhere, or but for one block.
LEMMA BlockwiseEqual ==
    ASSUME NEW S, NEW f \in [Blocks -> S], NEW g \in [Blocks -> S]
    PROVE  /\ (\A k \in Blocks : g[k] = f[k]) => g = f
           /\ \A k \in Blocks : (\A j \in Blocks \ {k} : g[j] = f[j]) => g = [f EXCEPT ![k] = g[k]]
OBVIOUS

\* A step in which the holders and the contents of all blocks stay.
LEMMA Stutter ==
    ASSUME StoreView, StoreView',
           \A k \in Blocks : holder'[k] = holder[k] /\ contents'[k] = contents[k]
    PROVE  UNCHANGED Store!vars
<1>1. holder' = holder
  BY BlockwiseEqual DEF StoreView
<1>2. contents' = contents
  BY BlockwiseEqual DEF StoreView
<1> QED BY <1>1, <1>2 DEF Store!vars


\* bget's hit and its sleep, and the return to the flags in iderw, change nothing
\* of the store.
LEMMA WaitStutters ==
    ASSUME BioInv, StoreView, StoreView', NEW p \in Procs,
           \/ \E k \in Blocks : bgetHit(p, k) \/ bgetSleep(p, k)
           \/ iderwWoken(p)
    PROVE  UNCHANGED Store!vars
<1>1. /\ UNCHANGED <<blockno, valid, data, disk>>
      /\ \A q \in Procs \ {p} : pc'[q] = pc[q] /\ mine'[q] = mine[q]
      /\ \/ pc[p] \in {"idle", "bget"} /\ pc'[p] \in {"bread", "bgetSleep"}
         \/ /\ pc[p] = "iderw" /\ mine'[p] = mine[p]
            /\ pc'[p] = "iderwSleep" \/ (pc'[p] = "hold" /\ valid[mine[p]])
  <2>1. CASE \E k \in Blocks : bgetHit(p, k)
    BY <2>1 DEF bgetHit, Wants, BioInv, TypeOK
  <2>2. CASE \E k \in Blocks : bgetSleep(p, k)
    BY <2>2 DEF bgetSleep, sleep, bufVars, Wants, BioInv, TypeOK
  <2>3. CASE iderwWoken(p)
    BY <2>3 DEF iderwWoken, sleep, bufVars, BioInv, TypeOK
  <2> QED BY <2>1, <2>2, <2>3
<1>2. \A q \in Procs, k \in Blocks : Holds(q, k)' <=> Holds(q, k)
  BY <1>1 DEF Holds
<1>3. \A k \in Blocks : holder'[k] = holder[k]
  BY <1>2, HolderFrame
<1>4. \A k \in Blocks : contents'[k] = contents[k]
  BY <1>1, ContentsFrame
<1> QED BY <1>3, <1>4, Stutter

\* A recycled buffer leaves its old block to the disk, which has the same
\* contents unless a read of that block failed.
LEMMA RecycleStep ==
    ASSUME BioInv, StoreView, StoreView', NEW p \in Procs, NEW k \in Blocks, bgetRecycle(p, k)
    PROVE  [Store!Next]_Store!vars
<1>1. pc[p] \in {"idle", "bget"} /\ \A b \in Bufs : blockno[b] # k
  BY DEF bgetRecycle, Wants, Cached
<1>2. CASE ~ \E b \in Bufs : found(b)
  <2>1. UNCHANGED <<blockno, valid, data, disk, pc, mine>>
    BY <1>2 DEF bgetRecycle
  <2>2. \A q \in Procs, j \in Blocks : Holds(q, j)' <=> Holds(q, j)
    BY <2>1 DEF Holds
  <2>3. \A j \in Blocks : holder'[j] = holder[j]
    BY <2>2, HolderFrame
  <2>4. \A j \in Blocks : contents'[j] = contents[j]
    BY <2>1, ContentsFrame
  <2> QED BY <2>3, <2>4, Stutter
<1>3. CASE \E b \in Bufs : found(b)
  <2> DEFINE v == victim
             old == blockno[v]
  <2>1. v \in Bufs /\ ~ busy[v] /\ ~ dirty[v]
    BY <1>3, VictimRecyclable DEF BioInv, Recyclable
  <2>2. /\ blockno' = [blockno EXCEPT ![v] = k] /\ valid' = [valid EXCEPT ![v] = FALSE]
        /\ mine' = [mine EXCEPT ![p] = v] /\ pc' = [pc EXCEPT ![p] = "bread"]
        /\ UNCHANGED <<data, disk>>
    BY <1>3 DEF bgetRecycle
  <2> HIDE DEF v
  <2>3. /\ blockno'[v] = k /\ ~ valid'[v] /\ pc'[p] = "bread"
        /\ \A b \in Bufs \ {v} : blockno'[b] = blockno[b] /\ valid'[b] = valid[b]
        /\ \A q \in Procs \ {p} : pc'[q] = pc[q] /\ mine'[q] = mine[q]
    BY <2>1, <2>2 DEF BioInv, TypeOK
  <2>4. \A q \in Procs : pc[q] \in Holding => mine[q] \in Bufs \ {v}
    BY <2>1 DEF BioInv, HoldsAlone
  <2>5. \A q \in Procs, j \in Blocks : Holds(q, j)' <=> Holds(q, j)
    BY <1>1, <2>3, <2>4 DEF Holds, Holding
  <2>6. \A j \in Blocks : holder'[j] = holder[j]
    BY <2>5, HolderFrame
  <2>7. contents'[k] = contents[k]
    <3>1. contents[k] = disk[k]
      BY <1>1 DEF StoreView
    <3>2. contents'[k] = disk'[k]
      BY <2>1, <2>3 DEF StoreView
    <3> QED BY <2>2, <3>1, <3>2
  <2>8. ASSUME NEW j \in Blocks, j # old, j # k PROVE contents'[j] = contents[j]
    <3>1. \A b \in Bufs : /\ blockno'[b] = j <=> blockno[b] = j
                          /\ blockno[b] = j => valid'[b] = valid[b] /\ data'[b] = data[b]
      BY ZenonT(30), <2>1, <2>2, <2>3, <2>8
    <3> QED BY ZenonT(30), <2>2, <3>1, ContentsFrame
  <2>9. CASE old \notin Blocks
    <3>1. \A j \in Blocks : contents'[j] = contents[j]
      BY <2>7, <2>8, <2>9
    <3> QED BY <2>6, <3>1, Stutter
  <2>10. CASE old \in Blocks
    <3>1. contents[old] = IF valid[v] THEN data[v] ELSE disk[old]
      BY <2>1, <2>10 DEF StoreView
    <3>2. \A b \in Bufs : blockno'[b] # old
      BY <1>1, <2>1, <2>3, <2>10, BioAssumption DEF BioInv, OneBufferPerBlock
    <3>3. contents'[old] = disk[old]
      BY <2>2, <2>10, <3>2 DEF StoreView
    <3>4. CASE old \notin BadBlocks
      <4>1. contents'[old] = contents[old]
        BY <2>1, <3>1, <3>3, <3>4 DEF BioInv, CleanIsDisk
      <4>2. \A j \in Blocks : contents'[j] = contents[j]
        BY <2>7, <2>8, <4>1
      <4> QED BY <2>6, <4>2, Stutter
    <3>5. CASE old \in BadBlocks
      <4>1. \A j \in Blocks \ {old} : contents'[j] = contents[j]
        BY <2>7, <2>8
      <4>2. contents' = [contents EXCEPT ![old] = contents'[old]] /\ contents'[old] \in Values
        BY <2>10, <4>1, BlockwiseEqual DEF StoreView
      <4>3. holder' = holder
        BY <2>6, BlockwiseEqual DEF StoreView
      <4>4. \A q \in Procs : ~ Holds(q, old)
        BY <2>1, <2>4, <2>10, BioAssumption DEF Holds, Holding, BioInv, OneBufferPerBlock
      <4>5. holder[old] = NoProc
        BY <2>10, <4>4 DEF StoreView
      <4>6. Store!Spoil(old)
        BY <3>5, <4>2 DEF Store!Spoil
      <4> QED BY <2>10, <4>3, <4>5, <4>6 DEF Store!Next
    <3> QED BY <3>4, <3>5
  <2> QED BY <2>9, <2>10
<1> QED BY <1>2, <1>3


\* bread takes the block when it is valid, and otherwise only queues the buffer.
LEMMA BreadStep ==
    ASSUME BioInv, StoreView, StoreView', NEW p \in Procs, bread(p)
    PROVE  [Store!Next]_Store!vars
<1> DEFINE b == mine[p]
           k == blockno[b]
<1>1. /\ pc[p] = "bread" /\ b \in Bufs /\ k \in Blocks
      /\ UNCHANGED <<blockno, valid, data, disk, mine>>
      /\ \A q \in Procs \ {p} : pc[q] \in Holding => mine[q] \in Bufs \ {b}
  BY DEF bread, bufVars, BioInv, HoldsAlone, Holding
<1>2. /\ \A q \in Procs \ {p} : pc'[q] = pc[q]
      /\ pc'[p] = IF valid[b] THEN "hold" ELSE "iderwSleep"
  BY DEF bread, iderw, sleep, BioInv, TypeOK
<1> HIDE DEF b
<1>3. \A j \in Blocks : contents'[j] = contents[j]
  BY <1>1, ContentsFrame
<1>4. \A q \in Procs \ {p}, j \in Blocks : Holds(q, j)' <=> Holds(q, j)
  BY <1>1, <1>2 DEF Holds
<1>5. \A j \in Blocks : ~ Holds(p, j)
  BY <1>1 DEF Holds
<1>6. CASE ~ valid[b]
  <2>1. \A j \in Blocks : ~ Holds(p, j)'
    BY <1>1, <1>2, <1>6 DEF Holds, b
  <2>2. \A q \in Procs, j \in Blocks : Holds(q, j)' <=> Holds(q, j)
    BY <1>4, <1>5, <2>1
  <2>3. \A j \in Blocks : holder'[j] = holder[j]
    BY <2>2, HolderFrame
  <2> QED BY <1>3, <2>3, Stutter
<1>7. CASE valid[b]
  <2>1. \A j \in Blocks : Holds(p, j)' <=> j = k
    BY <1>1, <1>2, <1>7 DEF Holds, b, Bufs
  <2>2. \A q \in Procs : ~ Holds(q, k)
    BY <1>1, <1>5, BioAssumption DEF Holds, Holding, BioInv, OneBufferPerBlock
  <2>3. holder[k] = NoProc
    BY <1>1, <2>2 DEF StoreView
  <2>4. holder'[k] = p
    BY <1>1, <2>1 DEF StoreView
  <2>5. \A j \in Blocks \ {k} : holder'[j] = holder[j]
    BY <1>4, <1>5, <2>1, HolderFrame
  <2>6. holder' = [holder EXCEPT ![k] = p]
    BY <1>1, <2>4, <2>5, BlockwiseEqual DEF StoreView
  <2>7. contents' = contents
    BY <1>3, BlockwiseEqual DEF StoreView
  <2> QED BY ZenonT(30), <1>1, <2>3, <2>6, <2>7 DEF Store!Next, Store!Take
<1> QED BY <1>6, <1>7

\* bwrite and log_write change the block their process holds, and no other.
LEMMA ChangeStep ==
    ASSUME BioInv, StoreView, StoreView', NEW p \in Procs, NEW v \in Values,
           bwrite(p, v) \/ log_write(p, v)
    PROVE  Store!Next
<1> DEFINE b == mine[p]
           k == blockno[b]
<1>1. /\ pc[p] = "hold" /\ b \in Bufs /\ k \in Blocks /\ valid[b]
      /\ UNCHANGED <<blockno, valid, disk, mine>> /\ data' = [data EXCEPT ![b] = v]
  BY DEF bwrite, log_write, procVars, BioInv, HoldsAlone, Holding
<1>2. /\ \A q \in Procs \ {p} : pc'[q] = pc[q]
      /\ pc'[p] \in {"hold", "iderwSleep"}
  BY DEF bwrite, log_write, iderw, sleep, procVars, BioInv, TypeOK
<1>3. data'[b] = v /\ \A c \in Bufs \ {b} : data'[c] = data[c]
  BY <1>1 DEF BioInv, TypeOK
<1>4. \A q \in Procs, j \in Blocks : Holds(q, j)' <=> Holds(q, j)
  BY <1>1, <1>2 DEF Holds
<1>5. holder' = holder
  <2>1. \A j \in Blocks : holder'[j] = holder[j]
    BY <1>4, HolderFrame
  <2> QED BY <2>1, BlockwiseEqual DEF StoreView
<1>6. holder[k] = p
  <2>1. Holds(p, k)
    BY <1>1 DEF Holds, Bufs
  <2> QED BY <1>1, <2>1 DEF StoreView
<1> HIDE DEF b
<1>7. contents'[k] = v
  BY <1>1, <1>3 DEF StoreView
<1>8. \A j \in Blocks \ {k} : contents'[j] = contents[j]
  BY <1>1, <1>3, ContentsFrame
<1>9. contents' = [contents EXCEPT ![k] = v]
  BY <1>1, <1>7, <1>8, BlockwiseEqual DEF StoreView
<1> QED BY ZenonT(30), <1>1, <1>5, <1>6, <1>9 DEF Store!Next, Store!Change

\* brelse releases the block its process held.
LEMMA BrelseStep ==
    ASSUME BioInv, StoreView, StoreView', NEW p \in Procs, brelse(p)
    PROVE  Store!Next
<1> DEFINE b == mine[p]
           k == blockno[b]
<1>1. /\ pc[p] = "hold" /\ b \in Bufs /\ k \in Blocks /\ valid[b]
      /\ UNCHANGED <<blockno, valid, data, disk>>
      /\ wakeup(b, p, "idle") /\ mine' = [mine EXCEPT ![p] = 0]
      /\ \A q \in Procs \ {p} : pc[q] \in Holding => mine[q] \in Bufs \ {b}
  BY DEF brelse, BioInv, HoldsAlone, Holding
<1>2. mine'[p] = 0 /\ \A q \in Procs \ {p} : mine'[q] = mine[q]
  BY <1>1 DEF BioInv, TypeOK
<1>3. \A q \in Procs \ {p} : \/ pc'[q] = pc[q]
                             \/ pc[q] = "bgetSleep" /\ pc'[q] = "bget"
                             \/ pc[q] = "iderwSleep" /\ pc'[q] = "iderw"
  BY <1>1, <1>2, WakeupStep DEF BioInv, Asleep
<1> HIDE DEF b
<1>4. \A q \in Procs \ {p}, j \in Blocks : Holds(q, j)' <=> Holds(q, j)
  BY <1>1, <1>2, <1>3 DEF Holds
<1>5. \A j \in Blocks : /\ Holds(p, j) <=> j = k
                        /\ ~ Holds(p, j)'
  BY <1>1, <1>2 DEF Holds, b, Bufs
<1>6. contents' = contents
  <2>1. \A j \in Blocks : contents'[j] = contents[j]
    BY <1>1, ContentsFrame
  <2> QED BY <2>1, BlockwiseEqual DEF StoreView
<1>7. holder[k] = p
  BY <1>1, <1>5 DEF StoreView
<1>8. \A q \in Procs \ {p} : ~ Holds(q, k)
  BY <1>1, BioAssumption DEF Holds, Holding, BioInv, OneBufferPerBlock
<1>9. holder'[k] = NoProc
  BY <1>1, <1>4, <1>5, <1>8 DEF StoreView
<1>10. \A j \in Blocks \ {k} : holder'[j] = holder[j]
  BY <1>4, <1>5, HolderFrame
<1>11. holder' = [holder EXCEPT ![k] = NoProc]
  BY <1>1, <1>9, <1>10, BlockwiseEqual DEF StoreView
<1> QED BY ZenonT(30), <1>1, <1>6, <1>7, <1>11 DEF Store!Next, Store!Release


\* A finished write changes nothing of the store; a finished read gives the
\* block to the process that waits for it, with other contents only if the read
\* failed.
LEMMA IntrStep ==
    ASSUME BioInv, StoreView, StoreView', ideintr
    PROVE  [Store!Next]_Store!vars
<1> DEFINE b == Head(idequeue)
           k == blockno[b]
<1>1. /\ b \in Bufs /\ k \in Blocks /\ (dirty[b] <=> valid[b])
  BY QueueHead DEF ideintr
<1>2. PICK w \in Procs : pc[w] = "iderwSleep" /\ mine[w] = b
  BY QueueHead DEF ideintr
<1>3. /\ idestart(b) /\ valid' = [valid EXCEPT ![b] = TRUE] /\ dirty' = [dirty EXCEPT ![b] = FALSE]
      /\ wakeup(b, NoProc, "idle") /\ UNCHANGED <<blockno, mine>>
  BY DEF ideintr
<1> HIDE DEF b
<1>4. /\ \A c \in Bufs \ {b} : data'[c] = data[c]
      /\ \A j \in Blocks \ {k} : disk'[j] = disk[j]
      /\ dirty[b] => data'[b] = data[b]
  BY ZenonT(30), <1>1, <1>3, IdestartStep
<1>5. \A q \in Procs : \/ pc'[q] = pc[q]
                       \/ pc[q] = "bgetSleep" /\ pc'[q] = "bget"
                       \/ pc[q] = "iderwSleep" /\ pc'[q] = "iderw"
  BY <1>1, <1>3, WakeupStep, BioAssumption DEF BioInv
<1>6. valid'[b] /\ \A c \in Bufs \ {b} : valid'[c] = valid[c]
  BY <1>1, <1>3 DEF BioInv, TypeOK
<1>7. \A q \in Procs \ {w} : pc[q] \in Holding => mine[q] \in Bufs \ {b}
  BY <1>2 DEF BioInv, HoldsAlone, Holding
<1>8. \A q \in Procs \ {w}, j \in Blocks : Holds(q, j)' <=> Holds(q, j)
  BY <1>3, <1>5, <1>6, <1>7 DEF Holds, Holding
<1>9. \A j \in Blocks : /\ Holds(w, j) <=> j = k /\ valid[b]
                        /\ Holds(w, j)' <=> j = k
  BY <1>1, <1>2, <1>3, <1>5, <1>6 DEF Holds, Bufs
<1>10. ASSUME NEW j \in Blocks \ {k} PROVE contents'[j] = contents[j]
  <2>1. \A c \in Bufs : /\ blockno'[c] = j <=> blockno[c] = j
                        /\ blockno[c] = j => valid'[c] = valid[c] /\ data'[c] = data[c]
    BY ZenonT(30), <1>3, <1>4, <1>6
  <2> QED BY <1>4, <2>1, ContentsFrame
<1>11. contents'[k] = data'[b] /\ contents[k] = IF valid[b] THEN data[b] ELSE disk[k]
  BY <1>1, <1>3, <1>6 DEF StoreView
<1>12. CASE dirty[b]
  <2>1. \A q \in Procs, j \in Blocks : Holds(q, j)' <=> Holds(q, j)
    BY <1>1, <1>8, <1>9, <1>12
  <2>2. \A j \in Blocks : holder'[j] = holder[j]
    BY <2>1, HolderFrame
  <2>3. contents'[k] = contents[k]
    BY <1>1, <1>4, <1>11, <1>12
  <2>4. \A j \in Blocks : contents'[j] = contents[j]
    BY <1>10, <2>3
  <2> QED BY <2>2, <2>4, Stutter
<1>13. CASE ~ dirty[b]
  <2>1. \A q \in Procs \ {w} : ~ Holds(q, k)
    BY <1>1, <1>7, BioAssumption DEF Holds, Holding, BioInv, OneBufferPerBlock
  <2>2. \A q \in Procs : ~ Holds(q, k)
    BY <1>1, <1>9, <1>13, <2>1
  <2>3. holder[k] = NoProc
    BY <1>1, <2>2 DEF StoreView
  <2>4. holder'[k] = w
    BY <1>1, <1>9 DEF StoreView
  <2>5. \A j \in Blocks \ {k} : holder'[j] = holder[j]
    BY <1>8, <1>9, HolderFrame
  <2>6. holder' = [holder EXCEPT ![k] = w]
    BY <1>1, <2>4, <2>5, BlockwiseEqual DEF StoreView
  <2>7. contents[k] = disk[k]
    BY <1>1, <1>11, <1>13
  <2>8. data'[b] = disk[k] \/ k \in BadBlocks
    BY <1>1, <1>3, <1>13 DEF idestart, BioInv, TypeOK
  <2>9. contents' = [contents EXCEPT ![k] = contents'[k]] /\ contents'[k] \in Values
    BY <1>1, <1>10, BlockwiseEqual DEF StoreView
  <2>10. contents' = contents \/ Store!Spoil(k)
    <3>1. CASE data'[b] = disk[k]
      <4>1. \A j \in Blocks : contents'[j] = contents[j]
        BY <1>10, <1>11, <2>7, <3>1
      <4> QED BY <4>1, BlockwiseEqual DEF StoreView
    <3>2. CASE k \in BadBlocks
      BY <2>9, <3>2 DEF Store!Spoil
    <3> QED BY <2>8, <3>1, <3>2
  <2>11. Store!Take(w, k)
    BY <2>3, <2>6, <2>10 DEF Store!Take
  <2> QED BY <1>1, <2>11 DEF Store!Next
<1> QED BY <1>12, <1>13

\* At the start every block is on the disk and nobody holds one.
LEMMA StoreInit == Init => Store!Init
<1> SUFFICES ASSUME Init PROVE Store!Init
  OBVIOUS
<1>1. StoreView
  BY InitInv, View
<1>2. \A p \in Procs, k \in Blocks : ~ Holds(p, k)
  BY DEF Init, Holds
<1>3. holder = [k \in Blocks |-> NoProc]
  BY <1>1, <1>2 DEF StoreView
<1> QED BY <1>1, <1>3 DEF StoreView, Store!Init

\* Every step of the cache is a step of the store or changes nothing of it.
LEMMA StoreStep ==
    ASSUME BioInv, StoreView, StoreView', [Next]_vars
    PROVE  [Store!Next]_Store!vars
<1>1. CASE Next
  BY <1>1, WaitStutters, RecycleStep, BreadStep, ChangeStep, BrelseStep, IntrStep DEF Next
<1>2. CASE UNCHANGED vars
  <2>1. \A q \in Procs, k \in Blocks : Holds(q, k)' <=> Holds(q, k)
    BY <1>2 DEF Holds, vars
  <2>2. \A k \in Blocks : holder'[k] = holder[k]
    BY <2>1, HolderFrame
  <2>3. \A k \in Blocks : contents'[k] = contents[k]
    BY <1>2, ContentsFrame DEF vars
  <2> QED BY <2>2, <2>3, Stutter
<1> QED BY <1>1, <1>2

\* The cache is a store of blocks, whatever it recycles, reads back or writes:
\* a block's contents change only by its one holder, and a read that fails
\* spoils no block but the one that was read.
THEOREM CacheIsStore == Spec => StoreSpec
<1>1. BioInv /\ StoreView /\ StoreView' /\ [Next]_vars => [Store!Next]_Store!vars
  BY StoreStep
<1>2. Spec => []StoreView
  BY BioInvariant, View, PTL
<1> QED BY BioInvariant, StoreInit, <1>1, <1>2, PTL DEF Spec, StoreSpec, Store!Spec
==============================================================================
