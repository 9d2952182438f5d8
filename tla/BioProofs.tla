------------------------------ MODULE BioProofs ------------------------------
(***************************************************************************)
(* The buffer cache keeps each block in one buffer, for any number of      *)
(* processes, buffers and blocks and whatever reads fail.                  *)
(***************************************************************************)
EXTENDS Bio, TLAPS

\* Time for the leaves, which the provers try in this order.
USE SMTT(30), ZenonT(30)

-----------------------------------------------------------------------------
(***************************************************************************)
(* The inductive invariant.                                                *)
(***************************************************************************)
\* From the return of bget to brelse.
Holding == {"bread", "iderwSleep", "iderw", "hold"}
Asleep == {"bgetSleep", "iderwSleep"}

\* Every buffer is on the LRU list, so that bget's scan from the tail sees it.
AllOnLru == \A b \in Bufs : \E i \in Bufs : lru[i] = b

\* B_BUSY is a lock: who holds a buffer holds it alone.
HoldsAlone ==
    /\ \A p \in Procs : pc[p] \in Holding =>
         mine[p] \in Bufs /\ busy[mine[p]] /\ blockno[mine[p]] \in Blocks
    /\ \A p, q \in Procs : pc[p] \in Holding /\ pc[q] \in Holding /\ mine[p] = mine[q] => p = q
    /\ \A p \in Procs : pc[p] = "hold" => valid[mine[p]]

\* A process on a list of sleepers sleeps, on that buffer, and is there once.
SleepersSleep ==
    /\ \A b \in Bufs : \A i \in 1 .. Len(sleepers[b]) :
         pc[sleepers[b][i]] \in Asleep /\ mine[sleepers[b][i]] = b
    /\ \A b \in Bufs : \A i, j \in 1 .. Len(sleepers[b]) :
         sleepers[b][i] = sleepers[b][j] => i = j

\* A queued buffer has its requester asleep, is queued once, and is to be read
\* or else dirty.
QueuedOnce ==
    /\ \A i \in 1 .. Len(idequeue) :
         /\ \E p \in Procs : pc[p] = "iderwSleep" /\ mine[p] = idequeue[i]
         /\ dirty[idequeue[i]] <=> valid[idequeue[i]]
    /\ \A i, j \in 1 .. Len(idequeue) : idequeue[i] = idequeue[j] => i = j

\* A buffer that is valid and not dirty has what the disk has.
CleanIsDisk ==
    \A b \in Bufs :
        /\ dirty[b] => valid[b]
        /\ valid[b] => blockno[b] \in Blocks
        /\ valid[b] /\ ~ dirty[b] /\ blockno[b] \notin BadBlocks => data[b] = disk[blockno[b]]

BioInv ==
    /\ TypeOK /\ AllOnLru /\ OneBufferPerBlock
    /\ HoldsAlone /\ SleepersSleep /\ QueuedOnce /\ CleanIsDisk

-----------------------------------------------------------------------------
(***************************************************************************)
(* Sequences.                                                              *)
(***************************************************************************)
\* A sequence over S, its head and tail, and what Append makes of it.
LEMMA SeqFacts ==
    ASSUME NEW S, NEW s \in Seq(S)
    PROVE  /\ Len(s) \in Nat /\ DOMAIN s = 1 .. Len(s) /\ (s # <<>> => Len(s) # 0)
           /\ \A i \in 1 .. Len(s) : s[i] \in S
OBVIOUS

\* Taking the first element of a queue off moves the others up by one.
LEMMA TailFacts ==
    ASSUME NEW S, NEW s \in Seq(S), s # <<>>
    PROVE  /\ Head(s) = s[1]
           /\ Tail(s) \in Seq(S) /\ Len(Tail(s)) = Len(s) - 1
           /\ \A i \in 1 .. Len(s) - 1 : Tail(s)[i] = s[i + 1]
OBVIOUS

\* A new element of a queue is behind the others.
LEMMA AppendFacts ==
    ASSUME NEW S, NEW s \in Seq(S), NEW e \in S
    PROVE  /\ Append(s, e) \in Seq(S) /\ Len(Append(s, e)) = Len(s) + 1
           /\ Append(s, e)[Len(s) + 1] = e
           /\ \A i \in 1 .. Len(s) : Append(s, e)[i] = s[i]
OBVIOUS

\* What first and rest give.
LEMMA FirstRest ==
    ASSUME NEW S, NEW s \in Seq(S)
    PROVE  /\ rest(s) \in Seq(S)
           /\ \A i \in 1 .. Len(rest(s)) : i + 1 \in 1 .. Len(s) /\ rest(s)[i] = s[i + 1]
           /\ \A q \in first(s) : 1 \in 1 .. Len(s) /\ q = s[1]
<1>1. CASE s = <<>>
  BY <1>1, SeqFacts DEF rest, first
<1>2. CASE s # <<>>
  <2>1. Len(s) \in Nat /\ Len(s) # 0 /\ DOMAIN s = 1 .. Len(s)
    BY <1>2, SeqFacts
  <2>2. rest(s) = Tail(s)
    BY <1>2 DEF rest
  <2>3. Tail(s) \in Seq(S) /\ Len(Tail(s)) = Len(s) - 1 /\ \A i \in 1 .. Len(s) - 1 : Tail(s)[i] = s[i + 1]
    BY <1>2, TailFacts
  <2> QED BY <2>1, <2>2, <2>3 DEF first
<1> QED BY <1>1, <1>2

-----------------------------------------------------------------------------
(***************************************************************************)
(* What the steps of the actions do.                                       *)
(***************************************************************************)
\* bget recycles a buffer that is neither busy nor dirty.
LEMMA VictimRecyclable ==
    ASSUME NEW c \in Bufs, found(c)
    PROVE  victim \in Bufs /\ Recyclable(victim)
BY DEF victim, found

\* wakeup moves at most one other process, out of its sleep on b.
LEMMA WakeupStep ==
    ASSUME TypeOK, SleepersSleep, NEW b \in Bufs, NEW p, NEW where,
           p \in Procs => pc[p] \notin Asleep,
           wakeup(b, p, where),
           \A q \in Procs : q # p => mine'[q] = mine[q]
    PROVE  /\ SleepersSleep' /\ sleepers' \in [Bufs -> Seq(Procs)]
           /\ DOMAIN pc' = Procs
           /\ p \in Procs => pc'[p] = where
           /\ \A q \in Procs \ {p} :
                \/ pc'[q] = pc[q]
                \/ pc[q] = "bgetSleep" /\ pc'[q] = "bget"
                \/ pc[q] = "iderwSleep" /\ pc'[q] = "iderw" /\ mine[q] = b
<1> DEFINE s == sleepers[b]
<1>1. s \in Seq(Procs) /\ sleepers \in [Bufs -> Seq(Procs)]
  BY DEF TypeOK
<1>2. /\ rest(s) \in Seq(Procs)
      /\ \A i \in 1 .. Len(rest(s)) : i + 1 \in 1 .. Len(s) /\ rest(s)[i] = s[i + 1]
      /\ \A q \in first(s) : 1 \in 1 .. Len(s) /\ q = s[1]
  BY Zenon, <1>1, FirstRest
<1>3. /\ \A c \in Bufs : sleepers'[c] = IF c = b THEN rest(s) ELSE sleepers[c]
      /\ sleepers' \in [Bufs -> Seq(Procs)]
  BY <1>1, <1>2 DEF wakeup
<1>4. /\ DOMAIN pc' = Procs
      /\ \A q \in Procs : pc'[q] = IF q = p THEN where ELSE IF q \in first(s) THEN awake(q) ELSE pc[q]
  BY DEF wakeup
<1>5. ASSUME NEW q \in first(s)
      PROVE  pc[q] \in Asleep /\ mine[q] = b /\ q \in Procs
  BY <1>1, <1>2, SeqFacts DEF SleepersSleep
<1>6. ASSUME NEW q \in Procs \ {p}
      PROVE  \/ pc'[q] = pc[q]
             \/ pc[q] = "bgetSleep" /\ pc'[q] = "bget"
             \/ pc[q] = "iderwSleep" /\ pc'[q] = "iderw" /\ mine[q] = b
  <2>1. CASE q \in first(s)
    BY <2>1, <1>4, <1>5 DEF awake, Asleep
  <2>2. CASE q \notin first(s)
    BY <2>2, <1>4
  <2> QED BY <2>1, <2>2
<1>7. ASSUME NEW c \in Bufs, NEW i \in 1 .. Len(sleepers'[c])
      PROVE  /\ pc'[sleepers'[c][i]] \in Asleep /\ mine'[sleepers'[c][i]] = c
             /\ \A j \in 1 .. Len(sleepers'[c]) : sleepers'[c][i] = sleepers'[c][j] => i = j
  <2>1. PICK k \in 1 .. Len(sleepers[c]) :
          /\ sleepers'[c][i] = sleepers[c][k]
          /\ c = b => k # 1
    <3>1. CASE c = b
      <4>1. /\ i \in 1 .. Len(rest(s)) /\ sleepers'[c][i] = rest(s)[i] /\ sleepers[c] = s
            /\ Len(rest(s)) \in Nat
        BY <3>1, <1>2, <1>3, SeqFacts
      <4>2. i + 1 # 1 /\ i + 1 \in 1 .. Len(s) /\ rest(s)[i] = s[i + 1]
        BY <4>1, <1>2
      <4> QED BY <4>1, <4>2
    <3>2. CASE c # b
      BY <3>2, <1>3
    <3> QED BY <3>1, <3>2
  <2> DEFINE r == sleepers[c][k]
  <2>2. r \in Procs /\ pc[r] \in Asleep /\ mine[r] = c
    BY <1>1, SeqFacts DEF SleepersSleep
  <2>3. r \notin first(s)
    <3> SUFFICES ASSUME r \in first(s) PROVE FALSE
      OBVIOUS
    <3>1. c = b /\ 1 \in 1 .. Len(s) /\ r = s[1]
      BY <1>2, <1>5, <2>2
    <3> QED BY <3>1, <2>1 DEF SleepersSleep
  <2>4. r # p
    BY <2>2
  <2>5. pc'[r] \in Asleep /\ mine'[r] = c
    BY <1>4, <2>2, <2>3, <2>4
  <2>6. ASSUME NEW j \in 1 .. Len(sleepers'[c]), sleepers'[c][i] = sleepers'[c][j] PROVE i = j
    <3>1. CASE c = b
      <4>1. /\ i + 1 \in 1 .. Len(s) /\ j + 1 \in 1 .. Len(s)
            /\ s[i + 1] = s[j + 1]
        BY <3>1, <1>2, <1>3, <2>6
      <4>2. i + 1 = j + 1
        BY <4>1 DEF SleepersSleep
      <4> QED BY <4>2
    <3>2. CASE c # b
      BY <3>2, <1>3, <2>6 DEF SleepersSleep
    <3> QED BY <3>1, <3>2
  <2> QED BY <2>1, <2>5, <2>6
<1>8. SleepersSleep'
  BY <1>7 DEF SleepersSleep
<1> QED BY <1>3, <1>4, <1>6, <1>8

\* A process that goes to sleep on b.
LEMMA SleepStep ==
    ASSUME TypeOK, SleepersSleep, NEW b \in Bufs, NEW p \in Procs, NEW where \in Asleep,
           pc[p] \notin Asleep, sleep(p, b, where), mine'[p] = b,
           \A q \in Procs : q # p => mine'[q] = mine[q]
    PROVE  SleepersSleep' /\ sleepers' \in [Bufs -> Seq(Procs)]
<1>1. sleepers \in [Bufs -> Seq(Procs)] /\ sleepers[b] \in Seq(Procs)
  BY DEF TypeOK
<1>2. /\ Append(sleepers[b], p) \in Seq(Procs)
      /\ Len(Append(sleepers[b], p)) = Len(sleepers[b]) + 1
      /\ \A i \in 1 .. Len(sleepers[b]) : Append(sleepers[b], p)[i] = sleepers[b][i]
      /\ Append(sleepers[b], p)[Len(sleepers[b]) + 1] = p
      /\ Len(sleepers[b]) \in Nat
  BY <1>1, AppendFacts, SeqFacts
<1>3. /\ \A c \in Bufs : sleepers'[c] = IF c = b THEN Append(sleepers[b], p) ELSE sleepers[c]
      /\ sleepers' \in [Bufs -> Seq(Procs)]
  BY <1>1, <1>2 DEF sleep
<1>4. \A q \in Procs : pc'[q] = IF q = p THEN where ELSE pc[q]
  BY DEF sleep, TypeOK
<1> DEFINE n == Len(sleepers[b])
<1>8. /\ \A c \in Bufs : \A i \in 1 .. Len(sleepers[c]) : sleepers'[c][i] = sleepers[c][i]
      /\ \A c \in Bufs \ {b} : Len(sleepers'[c]) = Len(sleepers[c])
      /\ Len(sleepers'[b]) = n + 1 /\ sleepers'[b][n + 1] = p /\ n \in Nat
  <2>1. \A c \in Bufs \ {b} : sleepers'[c] = sleepers[c]
    BY <1>3
  <2>2. sleepers'[b] = Append(sleepers[b], p)
    BY <1>3
  <2>3. /\ Len(sleepers'[b]) = n + 1 /\ sleepers'[b][n + 1] = p /\ n \in Nat
        /\ \A i \in 1 .. Len(sleepers[b]) : sleepers'[b][i] = sleepers[b][i]
    BY <2>2, <1>2
  <2> QED BY <2>1, <2>3
<1>5. \A c \in Bufs : \A i \in 1 .. Len(sleepers[c]) :
        sleepers[c][i] \in Procs \ {p} /\ pc'[sleepers[c][i]] \in Asleep /\ mine'[sleepers[c][i]] = c
  <2> SUFFICES ASSUME NEW c \in Bufs, NEW i \in 1 .. Len(sleepers[c])
               PROVE  /\ sleepers[c][i] \in Procs \ {p}
                      /\ pc'[sleepers[c][i]] \in Asleep /\ mine'[sleepers[c][i]] = c
    OBVIOUS
  <2>1. sleepers[c][i] \in Procs /\ pc[sleepers[c][i]] \in Asleep /\ mine[sleepers[c][i]] = c
    BY <1>1, SeqFacts DEF SleepersSleep
  <2> QED BY <2>1, <1>4
<1>6. ASSUME NEW c \in Bufs, NEW i \in 1 .. Len(sleepers'[c])
      PROVE  pc'[sleepers'[c][i]] \in Asleep /\ mine'[sleepers'[c][i]] = c
  <2>1. CASE c = b /\ i = n + 1
    BY <2>1, <1>8, <1>4
  <2>2. CASE i \in 1 .. Len(sleepers[c])
    BY <2>2, <1>8, <1>5
  <2>3. c # b => i \in 1 .. Len(sleepers[c])
    BY <1>8
  <2>4. c = b => i \in 1 .. Len(sleepers[c]) \/ i = n + 1
    BY <1>8
  <2> QED BY <2>1, <2>2, <2>3, <2>4
<1>7. ASSUME NEW c \in Bufs, NEW i \in 1 .. Len(sleepers'[c]), NEW j \in 1 .. Len(sleepers'[c]),
             sleepers'[c][i] = sleepers'[c][j]
      PROVE  i = j
  <2>1. ASSUME NEW k \in 1 .. Len(sleepers'[c])
        PROVE  k \in 1 .. Len(sleepers[c]) \/ (c = b /\ k = n + 1)
    BY <1>8
  <2>2. \A k \in 1 .. Len(sleepers[c]) : sleepers'[c][k] = sleepers[c][k] /\ sleepers'[c][k] # p
    BY <1>8, <1>5
  <2>3. CASE i \in 1 .. Len(sleepers[c]) /\ j \in 1 .. Len(sleepers[c])
    BY <2>2, <2>3, <1>7 DEF SleepersSleep
  <2>4. CASE ~ (i \in 1 .. Len(sleepers[c]) /\ j \in 1 .. Len(sleepers[c]))
    BY <2>1, <2>2, <2>4, <1>7, <1>8
  <2> QED BY <2>3, <2>4
<1> QED BY <1>3, <1>6, <1>7 DEF SleepersSleep

\* A step of a process that was awake, which leaves the sleepers alone.
LEMMA SleepersStay ==
    ASSUME TypeOK, SleepersSleep, NEW p \in Procs, pc[p] \notin Asleep, UNCHANGED sleepers,
           \A q \in Procs : q # p => pc'[q] = pc[q] /\ mine'[q] = mine[q]
    PROVE  SleepersSleep'
<1> SUFFICES ASSUME NEW b \in Bufs, NEW i \in 1 .. Len(sleepers[b])
             PROVE  pc'[sleepers[b][i]] \in Asleep /\ mine'[sleepers[b][i]] = b
  BY DEF SleepersSleep
<1>1. sleepers[b] \in Seq(Procs)
  BY DEF TypeOK
<1>2. sleepers[b][i] \in Procs
  BY <1>1, SeqFacts
<1>3. pc[sleepers[b][i]] \in Asleep /\ mine[sleepers[b][i]] = b
  BY DEF SleepersSleep
<1> QED BY <1>2, <1>3

\* A step of a process that has no request, which leaves the queue alone.
LEMMA QueueStays ==
    ASSUME QueuedOnce, NEW p \in Procs, pc[p] # "iderwSleep", UNCHANGED idequeue,
           \A i \in 1 .. Len(idequeue) :
               dirty'[idequeue[i]] = dirty[idequeue[i]] /\ valid'[idequeue[i]] = valid[idequeue[i]],
           \A q \in Procs \ {p} : pc[q] = "iderwSleep" => pc'[q] = pc[q] /\ mine'[q] = mine[q]
    PROVE  QueuedOnce'
<1>1. \A i, j \in 1 .. Len(idequeue') : idequeue'[i] = idequeue'[j] => i = j
  BY DEF QueuedOnce
<1>2. ASSUME NEW i \in 1 .. Len(idequeue')
      PROVE  /\ \E q \in Procs : pc'[q] = "iderwSleep" /\ mine'[q] = idequeue'[i]
             /\ dirty'[idequeue'[i]] <=> valid'[idequeue'[i]]
  <2>1. PICK q \in Procs : pc[q] = "iderwSleep" /\ mine[q] = idequeue[i]
    BY DEF QueuedOnce
  <2>2. q # p
    BY <2>1
  <2>3. pc'[q] = "iderwSleep" /\ mine'[q] = idequeue'[i]
    BY <2>1, <2>2
  <2>4. dirty'[idequeue'[i]] <=> valid'[idequeue'[i]]
    BY DEF QueuedOnce
  <2> QED BY <2>3, <2>4
<1> QED BY <1>1, <1>2 DEF QueuedOnce

\* A step of p after which p holds the buffer c, if it holds one.
LEMMA HoldingStays ==
    ASSUME HoldsAlone, NEW p \in Procs, NEW c \in Bufs,
           pc'[p] \in Holding => /\ mine'[p] = c /\ busy'[c] /\ blockno'[c] \in Blocks
                                 /\ pc'[p] = "hold" => valid'[c]
                                 /\ \A q \in Procs \ {p} : pc[q] \in Holding => mine[q] # c,
           \A q \in Procs \ {p} : pc[q] \in Holding =>
               LET b == mine[q] IN
               /\ busy[b] => busy'[b]
               /\ blockno'[b] = blockno[b]
               /\ valid[b] => valid'[b],
           \A q \in Procs \ {p} : /\ mine'[q] = mine[q]
                                  /\ pc'[q] \in Holding <=> pc[q] \in Holding
                                  /\ pc'[q] = "hold" => pc[q] = "hold"
    PROVE  HoldsAlone'
<1>1. ASSUME NEW q \in Procs, pc'[q] \in Holding
      PROVE  /\ mine'[q] \in Bufs /\ busy'[mine'[q]] /\ blockno'[mine'[q]] \in Blocks
             /\ pc'[q] = "hold" => valid'[mine'[q]]
  <2>1. CASE q = p
    BY <2>1, <1>1
  <2>2. CASE q # p
    <3>1. pc[q] \in Holding /\ mine'[q] = mine[q]
      BY <1>1, <2>2
    <3>2. mine[q] \in Bufs /\ busy[mine[q]] /\ blockno[mine[q]] \in Blocks
      BY <3>1 DEF HoldsAlone
    <3>3. pc'[q] = "hold" => valid[mine[q]]
      BY <2>2 DEF HoldsAlone
    <3> QED BY <2>2, <3>1, <3>2, <3>3
  <2> QED BY <2>1, <2>2
<1>2. ASSUME NEW q \in Procs, NEW r \in Procs, pc'[q] \in Holding, pc'[r] \in Holding,
             mine'[q] = mine'[r]
      PROVE  q = r
  <2>1. CASE q # p /\ r # p
    BY <2>1, <1>2 DEF HoldsAlone
  <2>2. CASE q = p \/ r = p
    BY <2>2, <1>2
  <2> QED BY <2>1, <2>2
<1>3. \A q \in Procs : pc'[q] = "hold" => pc'[q] \in Holding
  BY DEF Holding
<1> QED BY <1>1, <1>2, <1>3 DEF HoldsAlone

-----------------------------------------------------------------------------
(***************************************************************************)
(* Every step keeps the invariant.                                         *)
(***************************************************************************)
LEMMA InitInv == Init => BioInv
<1> SUFFICES ASSUME Init PROVE BioInv
  OBVIOUS
<1> USE BioAssumption
<1>1. TypeOK
  <2>1. lru \in [Bufs -> Bufs] /\ (\A i, j \in Bufs : lru[i] = lru[j] => i = j)
    BY DEF Init, Bufs
  <2>2. idequeue \in Seq(Bufs) /\ sleepers \in [Bufs -> Seq(Procs)]
    BY SeqFacts DEF Init
  <2>3. data \in [Bufs -> Values] /\ disk \in [Blocks -> Values]
    BY DEF Init
  <2>4. /\ blockno \in [Bufs -> Blocks \cup {NoBlock}]
        /\ busy \in [Bufs -> BOOLEAN] /\ valid \in [Bufs -> BOOLEAN] /\ dirty \in [Bufs -> BOOLEAN]
    BY DEF Init
  <2>5. /\ pc \in [Procs -> Places] /\ want \in [Procs -> Blocks \cup {NoBlock}]
        /\ mine \in [Procs -> Bufs \cup {0}] /\ panicked \in BOOLEAN
    BY ZenonT(30) DEF Init, Places
  <2> QED BY ZenonT(30), <2>1, <2>2, <2>3, <2>4, <2>5 DEF TypeOK
<1>2. AllOnLru
  <2> SUFFICES ASSUME NEW b \in Bufs PROVE \E i \in Bufs : lru[i] = b
    BY DEF AllOnLru
  <2>1. NBUF + 1 - b \in Bufs /\ lru[NBUF + 1 - b] = b
    BY DEF Init, Bufs
  <2> QED BY <2>1
<1>3. OneBufferPerBlock /\ HoldsAlone /\ CleanIsDisk
  BY DEF Init, OneBufferPerBlock, HoldsAlone, CleanIsDisk, Holding
<1>4. SleepersSleep /\ QueuedOnce
  BY SeqFacts DEF Init, SleepersSleep, QueuedOnce
<1> QED BY <1>1, <1>2, <1>3, <1>4 DEF BioInv

\* A hit takes a free buffer, which nobody held.
LEMMA HitInv ==
    ASSUME BioInv, NEW p \in Procs, NEW k \in Blocks, bgetHit(p, k)
    PROVE  BioInv'
<1>1. PICK b \in Cached(k) : ~ busy[b] /\ busy' = [busy EXCEPT ![b] = TRUE]
                             /\ mine' = [mine EXCEPT ![p] = b]
  BY ZenonT(30) DEF bgetHit
<1>2. b \in Bufs /\ blockno[b] = k /\ pc[p] \in {"idle", "bget"}
  BY <1>1 DEF Cached, bgetHit, Wants
<1>3. TypeOK'
  BY <1>1, <1>2 DEF bgetHit, BioInv, TypeOK, Places
<1>4. AllOnLru' /\ OneBufferPerBlock' /\ CleanIsDisk'
  BY DEF bgetHit, BioInv, AllOnLru, OneBufferPerBlock, CleanIsDisk
<1>5. /\ pc'[p] = "bread" /\ mine'[p] = b
      /\ \A q \in Procs : q # p => pc'[q] = pc[q] /\ mine'[q] = mine[q]
  BY <1>1 DEF bgetHit, BioInv, TypeOK
<1>9. busy'[b] /\ (\A c \in Bufs : busy[c] => busy'[c]) /\ UNCHANGED <<blockno, valid>>
  BY <1>1, <1>2 DEF bgetHit, BioInv, TypeOK
<1>10. \A q \in Procs : pc[q] \in Holding => mine[q] \in Bufs /\ mine[q] # b
  BY <1>1 DEF BioInv, HoldsAlone
<1>6. HoldsAlone'
  BY <1>2, <1>5, <1>9, <1>10, HoldingStays DEF BioInv
<1>7. SleepersSleep'
  BY <1>2, <1>5, SleepersStay DEF bgetHit, BioInv, Asleep
<1>8. QueuedOnce'
  BY <1>2, <1>5, QueueStays DEF bgetHit, BioInv
<1> QED BY <1>3, <1>4, <1>6, <1>7, <1>8 DEF BioInv

\* A process that finds the buffer busy joins its sleepers.
LEMMA SleepInv ==
    ASSUME BioInv, NEW p \in Procs, NEW k \in Blocks, bgetSleep(p, k)
    PROVE  BioInv'
<1>1. PICK b \in Cached(k) : /\ busy[b] /\ mine' = [mine EXCEPT ![p] = b]
                             /\ sleep(p, b, "bgetSleep")
  BY ZenonT(30) DEF bgetSleep
<1>2. b \in Bufs /\ pc[p] \in {"idle", "bget"}
  BY <1>1 DEF Cached, bgetSleep, Wants
<1>3. /\ pc'[p] = "bgetSleep" /\ mine'[p] = b
      /\ \A q \in Procs : q # p => pc'[q] = pc[q] /\ mine'[q] = mine[q]
  BY <1>1 DEF sleep, BioInv, TypeOK
<1>4. SleepersSleep' /\ sleepers' \in [Bufs -> Seq(Procs)]
  BY <1>1, <1>2, <1>3, SleepStep DEF BioInv, Asleep
<1>5. TypeOK'
  BY <1>1, <1>2, <1>4 DEF bgetSleep, bufVars, sleep, BioInv, TypeOK, Places
<1>6. AllOnLru' /\ OneBufferPerBlock' /\ CleanIsDisk'
  BY DEF bgetSleep, bufVars, BioInv, AllOnLru, OneBufferPerBlock, CleanIsDisk
<1>7. HoldsAlone'
  BY <1>2, <1>3, HoldingStays DEF bgetSleep, bufVars, BioInv, Holding
<1>8. QueuedOnce'
  BY <1>2, <1>3, QueueStays DEF bgetSleep, bufVars, BioInv
<1> QED BY <1>4, <1>5, <1>6, <1>7, <1>8 DEF BioInv

\* A recycled buffer was free and clean, and its new block was in no buffer.
LEMMA RecycleInv ==
    ASSUME BioInv, NEW p \in Procs, NEW k \in Blocks, bgetRecycle(p, k)
    PROVE  BioInv'
<1>1. pc[p] \in {"idle", "bget"} /\ \A b \in Bufs : blockno[b] # k
  BY DEF bgetRecycle, Wants, Cached
<1>2. CASE \E b \in Bufs : found(b)
  <2> DEFINE v == victim
  <2>1. v \in Bufs /\ ~ busy[v] /\ ~ dirty[v]
    BY <1>2, VictimRecyclable DEF BioInv, Recyclable
  <2>2. /\ blockno' = [blockno EXCEPT ![v] = k] /\ busy' = [busy EXCEPT ![v] = TRUE]
        /\ valid' = [valid EXCEPT ![v] = FALSE] /\ mine' = [mine EXCEPT ![p] = v]
        /\ want' = [want EXCEPT ![p] = k] /\ pc' = [pc EXCEPT ![p] = "bread"]
        /\ UNCHANGED <<dirty, data, lru, idequeue, disk, sleepers, panicked>>
    BY <1>2 DEF bgetRecycle
  <2> HIDE DEF v
  <2>3. TypeOK'
    BY <2>1, <2>2 DEF BioInv, TypeOK, Places
  <2>4. /\ pc'[p] = "bread" /\ mine'[p] = v
        /\ \A q \in Procs : q # p => pc'[q] = pc[q] /\ mine'[q] = mine[q]
    BY <2>2 DEF BioInv, TypeOK
  <2>5. /\ \A b \in Bufs \ {v} : /\ blockno'[b] = blockno[b] /\ busy'[b] = busy[b]
                                 /\ valid'[b] = valid[b]
        /\ blockno'[v] = k /\ busy'[v] /\ ~ valid'[v]
    BY <2>1, <2>2 DEF BioInv, TypeOK
  <2>6. AllOnLru' /\ OneBufferPerBlock' /\ CleanIsDisk'
    BY <1>1, <2>1, <2>2, <2>5 DEF BioInv, AllOnLru, OneBufferPerBlock, CleanIsDisk
  <2>7. \A q \in Procs : pc[q] \in Holding => mine[q] \in Bufs \ {v}
    BY <2>1 DEF BioInv, HoldsAlone
  <2>8. HoldsAlone'
    BY <2>1, <2>4, <2>5, <2>7, HoldingStays DEF BioInv
  <2>9. SleepersSleep'
    BY <1>1, <2>2, <2>4, SleepersStay DEF BioInv, Asleep
  <2>10. QueuedOnce'
    <3>1. \A i \in 1 .. Len(idequeue) : idequeue[i] \in Bufs \ {v}
      <4> SUFFICES ASSUME NEW i \in 1 .. Len(idequeue) PROVE idequeue[i] \in Bufs \ {v}
        OBVIOUS
      <4>1. PICK q \in Procs : pc[q] = "iderwSleep" /\ mine[q] = idequeue[i]
        BY DEF BioInv, QueuedOnce
      <4> QED BY <4>1, <2>7 DEF Holding
    <3> QED BY ZenonT(30), <1>1, <2>2, <2>4, <2>5, <3>1, QueueStays DEF BioInv
  <2> QED BY <2>3, <2>6, <2>8, <2>9, <2>10 DEF BioInv
<1>3. CASE ~ \E b \in Bufs : found(b)
  <2>1. UNCHANGED <<bufVars, lru, idequeue, disk, procVars>> /\ panicked' = TRUE
    BY <1>3 DEF bgetRecycle, bufVars, procVars
  <2>2. TypeOK' /\ AllOnLru' /\ OneBufferPerBlock'
    BY <2>1 DEF BioInv, TypeOK, Places, AllOnLru, OneBufferPerBlock, bufVars, procVars
  <2>3. HoldsAlone' /\ SleepersSleep'
    BY <2>1 DEF BioInv, HoldsAlone, SleepersSleep, bufVars, procVars
  <2>4. QueuedOnce' /\ CleanIsDisk'
    BY <2>1 DEF BioInv, QueuedOnce, CleanIsDisk, bufVars, procVars
  <2> QED BY <2>2, <2>3, <2>4 DEF BioInv
<1> QED BY <1>2, <1>3

\* p, which has no request yet, queues its buffer and sleeps.
LEMMA QueueGrows ==
    ASSUME TypeOK, HoldsAlone, QueuedOnce, NEW p \in Procs,
           pc[p] \in Holding \ {"iderwSleep"}, idequeue' = Append(idequeue, mine[p]),
           pc' = [pc EXCEPT ![p] = "iderwSleep"], UNCHANGED mine,
           dirty'[mine[p]] <=> valid'[mine[p]],
           \A b \in Bufs \ {mine[p]} : dirty'[b] = dirty[b] /\ valid'[b] = valid[b]
    PROVE  QueuedOnce' /\ idequeue' \in Seq(Bufs)
<1> DEFINE n == Len(idequeue)
           b == mine[p]
<1>1. b \in Bufs /\ idequeue \in Seq(Bufs) /\ n \in Nat
  BY SeqFacts DEF TypeOK, HoldsAlone
<1>2. /\ idequeue' \in Seq(Bufs) /\ Len(idequeue') = n + 1 /\ idequeue'[n + 1] = b
      /\ \A i \in 1 .. n : idequeue'[i] = idequeue[i]
  BY <1>1, AppendFacts
<1>3. ASSUME NEW i \in 1 .. n
      PROVE  /\ idequeue[i] \in Bufs \ {b}
             /\ \E q \in Procs : pc'[q] = "iderwSleep" /\ mine'[q] = idequeue[i]
  <2>1. PICK q \in Procs : pc[q] = "iderwSleep" /\ mine[q] = idequeue[i]
    BY DEF QueuedOnce
  <2>2. q # p /\ pc[q] \in Holding
    BY <2>1 DEF Holding
  <2>3. mine[q] \in Bufs \ {b}
    BY <2>2 DEF HoldsAlone
  <2>4. pc'[q] = "iderwSleep" /\ mine'[q] = idequeue[i]
    BY <2>1, <2>2 DEF TypeOK
  <2> QED BY <2>1, <2>3, <2>4
<1>4. pc'[p] = "iderwSleep" /\ mine'[p] = b
  BY DEF TypeOK
<1>5. ASSUME NEW i \in 1 .. Len(idequeue')
      PROVE  /\ \E q \in Procs : pc'[q] = "iderwSleep" /\ mine'[q] = idequeue'[i]
             /\ dirty'[idequeue'[i]] <=> valid'[idequeue'[i]]
  <2>1. CASE i = n + 1
    BY <2>1, <1>2, <1>4
  <2>2. CASE i \in 1 .. n
    <3>1. dirty[idequeue[i]] <=> valid[idequeue[i]]
      BY <2>2 DEF QueuedOnce
    <3> QED BY <2>2, <3>1, <1>2, <1>3
  <2> QED BY <2>1, <2>2, <1>1, <1>2
<1>6. ASSUME NEW i \in 1 .. Len(idequeue'), NEW j \in 1 .. Len(idequeue'),
             idequeue'[i] = idequeue'[j]
      PROVE  i = j
  <2>1. i \in 1 .. n \/ i = n + 1
    BY <1>1, <1>2
  <2>2. j \in 1 .. n \/ j = n + 1
    BY <1>1, <1>2
  <2>3. CASE i \in 1 .. n /\ j \in 1 .. n
    BY <2>3, <1>2, <1>6 DEF QueuedOnce
  <2>4. CASE ~ (i \in 1 .. n /\ j \in 1 .. n)
    BY <2>1, <2>2, <2>4, <1>2, <1>3, <1>6
  <2> QED BY <2>3, <2>4
<1> QED BY <1>2, <1>5, <1>6 DEF QueuedOnce

\* A valid buffer goes to its process; any other joins the driver's queue.
LEMMA BreadInv ==
    ASSUME BioInv, NEW p \in Procs, bread(p)
    PROVE  BioInv'
<1>1. /\ pc[p] = "bread" /\ mine[p] \in Bufs /\ pc[p] \in Holding
      /\ UNCHANGED <<bufVars, lru, disk, want, mine, panicked>>
      /\ busy[mine[p]] /\ blockno[mine[p]] \in Blocks
      /\ \A q \in Procs \ {p} : pc[q] \in Holding => mine[q] # mine[p]
  BY DEF bread, BioInv, HoldsAlone, Holding
<1>2. AllOnLru' /\ OneBufferPerBlock' /\ CleanIsDisk'
  BY <1>1 DEF bufVars, BioInv, AllOnLru, OneBufferPerBlock, CleanIsDisk
<1>3. CASE valid[mine[p]]
  <2>1. pc' = [pc EXCEPT ![p] = "hold"] /\ UNCHANGED <<idequeue, sleepers>>
    BY <1>3 DEF bread
  <2>2. pc'[p] = "hold" /\ \A q \in Procs : q # p => pc'[q] = pc[q] /\ mine'[q] = mine[q]
    BY <1>1, <2>1 DEF BioInv, TypeOK
  <2>3. TypeOK'
    BY <1>1, <2>1 DEF bufVars, BioInv, TypeOK, Places
  <2>4. HoldsAlone'
    BY <1>1, <1>3, <2>2, HoldingStays DEF BioInv, bufVars
  <2>5. SleepersSleep'
    BY <1>1, <2>1, <2>2, SleepersStay DEF BioInv, Asleep
  <2>6. QueuedOnce'
    BY <1>1, <2>1, <2>2, QueueStays DEF BioInv, bufVars
  <2> QED BY <1>2, <2>3, <2>4, <2>5, <2>6 DEF BioInv
<1>4. CASE ~ valid[mine[p]]
  <2>1. /\ idequeue' = Append(idequeue, mine[p]) /\ sleep(p, mine[p], "iderwSleep")
        /\ pc' = [pc EXCEPT ![p] = "iderwSleep"]
    BY <1>4 DEF bread, iderw, sleep
  <2>2. /\ pc'[p] = "iderwSleep"
        /\ \A q \in Procs : q # p => pc'[q] = pc[q] /\ mine'[q] = mine[q]
    BY <1>1, <2>1 DEF BioInv, TypeOK
  <2>3. SleepersSleep' /\ sleepers' \in [Bufs -> Seq(Procs)]
    BY <1>1, <2>1, <2>2, SleepStep DEF BioInv, Asleep
  <2>4. dirty'[mine[p]] <=> valid'[mine[p]]
    BY <1>1, <1>4 DEF BioInv, CleanIsDisk, bufVars, TypeOK
  <2>5. QueuedOnce' /\ idequeue' \in Seq(Bufs)
    BY ZenonT(30), <1>1, <2>1, <2>4, QueueGrows DEF BioInv, bufVars
  <2>6. TypeOK'
    BY <1>1, <2>1, <2>3, <2>5 DEF bufVars, BioInv, TypeOK, Places
  <2>7. HoldsAlone'
    BY <1>1, <2>2, HoldingStays DEF BioInv, bufVars
  <2> QED BY <1>2, <2>3, <2>5, <2>6, <2>7 DEF BioInv
<1> QED BY <1>3, <1>4

\* A process woken in iderw returns the buffer, or sleeps on it again.
LEMMA WokenInv ==
    ASSUME BioInv, NEW p \in Procs, iderwWoken(p)
    PROVE  BioInv'
<1>1. /\ pc[p] = "iderw" /\ mine[p] \in Bufs /\ pc[p] \in Holding
      /\ UNCHANGED <<bufVars, lru, idequeue, disk, want, mine, panicked>>
      /\ busy[mine[p]] /\ blockno[mine[p]] \in Blocks
      /\ \A q \in Procs \ {p} : pc[q] \in Holding => mine[q] # mine[p]
  BY DEF iderwWoken, BioInv, HoldsAlone, Holding
<1>2. AllOnLru' /\ OneBufferPerBlock' /\ CleanIsDisk'
  BY <1>1 DEF bufVars, BioInv, AllOnLru, OneBufferPerBlock, CleanIsDisk
<1>3. ASSUME NEW where \in {"hold", "iderwSleep"}, pc' = [pc EXCEPT ![p] = where],
             where = "hold" => valid[mine[p]],
             SleepersSleep' /\ sleepers' \in [Bufs -> Seq(Procs)]
      PROVE  BioInv'
  <2>1. pc'[p] = where /\ \A q \in Procs : q # p => pc'[q] = pc[q] /\ mine'[q] = mine[q]
    BY <1>1, <1>3 DEF BioInv, TypeOK
  <2>2. TypeOK'
    BY <1>1, <1>3 DEF bufVars, BioInv, TypeOK, Places
  <2>3. HoldsAlone'
    BY <1>1, <1>3, <2>1, HoldingStays DEF BioInv, bufVars
  <2>4. QueuedOnce'
    BY <1>1, <2>1, QueueStays DEF BioInv, bufVars
  <2> QED BY <1>2, <1>3, <2>2, <2>3, <2>4 DEF BioInv
<1>4. CASE valid[mine[p]] /\ ~ dirty[mine[p]]
  <2>1. pc' = [pc EXCEPT ![p] = "hold"] /\ UNCHANGED sleepers
    BY <1>4 DEF iderwWoken
  <2>2. SleepersSleep'
    BY ZenonT(30), <1>1, <2>1, SleepersStay DEF BioInv, Asleep, TypeOK
  <2> QED BY <1>3, <1>4, <2>1, <2>2 DEF BioInv, TypeOK, Places
<1>5. CASE ~ (valid[mine[p]] /\ ~ dirty[mine[p]])
  <2>1. sleep(p, mine[p], "iderwSleep") /\ pc' = [pc EXCEPT ![p] = "iderwSleep"]
    BY <1>5 DEF iderwWoken, sleep
  <2>2. SleepersSleep' /\ sleepers' \in [Bufs -> Seq(Procs)]
    BY <1>1, <2>1, SleepStep DEF BioInv, Asleep
  <2> QED BY <1>3, <2>1, <2>2
<1> QED BY <1>4, <1>5

\* bwrite and log_write: p changes the buffer it holds and marks it dirty.
LEMMA ChangeInv ==
    ASSUME BioInv, NEW p \in Procs, NEW v \in Values, bwrite(p, v) \/ log_write(p, v)
    PROVE  BioInv'
<1> DEFINE b == mine[p]
<1>1. /\ pc[p] = "hold" /\ b \in Bufs /\ pc[p] \in Holding
      /\ busy[b] /\ blockno[b] \in Blocks /\ valid[b]
      /\ \A q \in Procs \ {p} : pc[q] \in Holding => mine[q] # b
  BY DEF bwrite, log_write, BioInv, HoldsAlone, Holding
<1>2. /\ data' = [data EXCEPT ![b] = v] /\ dirty' = [dirty EXCEPT ![b] = TRUE]
      /\ UNCHANGED <<blockno, busy, valid, lru, disk, want, mine, panicked>>
  BY ZenonT(30) DEF bwrite, log_write, procVars
<1>3. dirty'[b] /\ valid'[b] /\ \A c \in Bufs \ {b} : dirty'[c] = dirty[c] /\ data'[c] = data[c]
  BY <1>1, <1>2 DEF BioInv, TypeOK
<1>4. AllOnLru' /\ OneBufferPerBlock'
  BY <1>2 DEF BioInv, AllOnLru, OneBufferPerBlock
<1>5. CleanIsDisk'
  BY <1>1, <1>2, <1>3 DEF BioInv, CleanIsDisk
<1>6. CASE bwrite(p, v)
  <2>1. /\ idequeue' = Append(idequeue, b) /\ sleep(p, b, "iderwSleep")
        /\ pc' = [pc EXCEPT ![p] = "iderwSleep"]
    BY <1>6 DEF bwrite, iderw, sleep
  <2>2. pc'[p] = "iderwSleep" /\ \A q \in Procs : q # p => pc'[q] = pc[q] /\ mine'[q] = mine[q]
    BY <1>2, <2>1 DEF BioInv, TypeOK
  <2>3. SleepersSleep' /\ sleepers' \in [Bufs -> Seq(Procs)]
    BY <1>1, <1>2, <2>1, <2>2, SleepStep DEF BioInv, Asleep
  <2>4. QueuedOnce' /\ idequeue' \in Seq(Bufs)
    BY ZenonT(30), <1>1, <1>2, <1>3, <2>1, QueueGrows DEF BioInv
  <2>5. TypeOK'
    BY ZenonT(30), <1>1, <1>2, <2>1, <2>3, <2>4 DEF BioInv, TypeOK, Places
  <2>6. HoldsAlone'
    BY <1>1, <1>2, <2>2, HoldingStays DEF BioInv
  <2> QED BY <1>4, <1>5, <2>3, <2>4, <2>5, <2>6 DEF BioInv
<1>7. CASE log_write(p, v)
  <2>1. UNCHANGED <<idequeue, sleepers, pc>>
    BY ZenonT(30), <1>7 DEF log_write, procVars
  <2>2. TypeOK' /\ SleepersSleep' /\ HoldsAlone'
    BY <1>1, <1>2, <2>1 DEF BioInv, TypeOK, Places, SleepersSleep, HoldsAlone
  <2>3. \A i \in 1 .. Len(idequeue) : idequeue[i] \in Bufs \ {b}
    <3> SUFFICES ASSUME NEW i \in 1 .. Len(idequeue) PROVE idequeue[i] \in Bufs \ {b}
      OBVIOUS
    <3>1. PICK q \in Procs : pc[q] = "iderwSleep" /\ mine[q] = idequeue[i]
      BY DEF BioInv, QueuedOnce
    <3>2. pc[q] \in Holding /\ q # p
      BY <3>1, <1>1 DEF Holding
    <3> QED BY <3>1, <3>2, <1>1 DEF BioInv, HoldsAlone
  <2>4. QueuedOnce'
    BY ZenonT(30), <1>1, <1>2, <1>3, <2>1, <2>3, QueueStays DEF BioInv
  <2> QED BY <1>4, <1>5, <2>2, <2>4 DEF BioInv
<1> QED BY <1>6, <1>7

\* The relinking of brelse keeps every buffer on the list, once.
LEMMA MoveToFrontKeeps ==
    ASSUME TypeOK, AllOnLru, NEW b \in Bufs, lru' = moveToFront(b)
    PROVE  /\ lru' \in [Bufs -> Bufs] /\ (\A i, j \in Bufs : lru'[i] = lru'[j] => i = j)
           /\ \A c \in Bufs : \E i \in Bufs : lru'[i] = c
<1> DEFINE old == CHOOSE j \in Bufs : lru[j] = b
<1>1. old \in Bufs /\ lru[old] = b
  BY DEF AllOnLru
<1>2. /\ DOMAIN lru' = Bufs
      /\ \A i \in Bufs : lru'[i] = IF i = 1 THEN b ELSE IF i <= old THEN lru[i - 1] ELSE lru[i]
  BY DEF moveToFront
<1> HIDE DEF old
<1>3. /\ lru \in [Bufs -> Bufs] /\ Bufs = 1 .. NBUF /\ NBUF \in Nat \ {0}
      /\ (\A i, j \in Bufs : lru[i] = lru[j] => i = j)
  <2>1. lru \in [Bufs -> Bufs] /\ (\A i, j \in Bufs : lru[i] = lru[j] => i = j)
    BY ZenonT(30) DEF TypeOK
  <2> QED BY <2>1, BioAssumption DEF Bufs
<1>4. ASSUME NEW i \in Bufs
      PROVE  lru'[i] \in Bufs
  <2>1. i # 1 => i - 1 \in Bufs
    BY <1>3
  <2>2. lru'[i] = b \/ lru'[i] = lru[i] \/ (i # 1 /\ lru'[i] = lru[i - 1])
    BY <1>2
  <2>3. CASE i # 1 /\ lru'[i] = lru[i - 1]
    BY <2>1, <2>3, <1>3
  <2>4. CASE lru'[i] = lru[i]
    BY <2>4, <1>3
  <2> QED BY <2>2, <2>3, <2>4
<1>5. ASSUME NEW i \in Bufs, NEW j \in Bufs, lru'[i] = lru'[j]
      PROVE  i = j
  <2> DEFINE from(x) == IF x = 1 THEN old ELSE IF x <= old THEN x - 1 ELSE x
  <2>1. ASSUME NEW x \in Bufs
        PROVE  from(x) \in Bufs /\ lru'[x] = lru[from(x)]
    <3>1. CASE x = 1
      BY <3>1, <1>1, <1>2
    <3>2. CASE x # 1 /\ x <= old
      <4>1. x - 1 \in Bufs
        BY <3>2, <1>3
      <4> QED BY <3>2, <4>1, <1>2
    <3>3. CASE x # 1 /\ ~ (x <= old)
      BY <3>3, <1>2
    <3> QED BY <3>1, <3>2, <3>3
  <2>2. from(i) = from(j)
    <3> HIDE DEF from
    <3>1. lru[from(i)] = lru[from(j)] /\ from(i) \in Bufs /\ from(j) \in Bufs
      BY <2>1, <1>5
    <3> QED BY <3>1, <1>3
  <2> QED BY <2>2, <1>1, <1>3
<1>6. ASSUME NEW c \in Bufs
      PROVE  \E i \in Bufs : lru'[i] = c
  <2>1. PICK j \in Bufs : lru[j] = c
    BY DEF AllOnLru
  <2>2. CASE j = old
    BY <2>1, <2>2, <1>1, <1>2, <1>3
  <2>3. CASE j < old
    <3>1. j + 1 \in Bufs /\ j + 1 # 1 /\ j + 1 <= old /\ (j + 1) - 1 = j
      BY <2>3, <1>1, <1>3
    <3> QED BY <3>1, <2>1, <1>2
  <2>4. CASE j > old
    <3>1. j # 1 /\ ~ (j <= old)
      BY <2>4, <1>1, <1>3
    <3> QED BY <3>1, <2>1, <1>2
  <2> QED BY <2>2, <2>3, <2>4, <1>1, <1>3
<1>7. lru' \in [Bufs -> Bufs]
  BY <1>2, <1>4 DEF moveToFront
<1> QED BY <1>2, <1>5, <1>6, <1>7

\* A released buffer has no holder, and its first sleeper looks again in bget.
LEMMA BrelseInv ==
    ASSUME BioInv, NEW p \in Procs, brelse(p)
    PROVE  BioInv'
<1> DEFINE b == mine[p]
<1>1. /\ pc[p] = "hold" /\ b \in Bufs /\ pc[p] \in Holding
      /\ \A q \in Procs \ {p} : pc[q] \in Holding => mine[q] # b /\ mine[q] \in Bufs
  BY DEF brelse, BioInv, HoldsAlone, Holding
<1>2. /\ busy' = [busy EXCEPT ![b] = FALSE] /\ wakeup(b, p, "idle")
      /\ mine' = [mine EXCEPT ![p] = 0] /\ want' = [want EXCEPT ![p] = NoBlock]
      /\ UNCHANGED <<blockno, valid, dirty, data, idequeue, disk, panicked>>
      /\ lru' = moveToFront(b)
  BY DEF brelse
<1>3. \A q \in Procs : q # p => mine'[q] = mine[q]
  BY <1>2 DEF BioInv, TypeOK
<1>4. /\ SleepersSleep' /\ sleepers' \in [Bufs -> Seq(Procs)]
      /\ DOMAIN pc' = Procs
      /\ pc'[p] = "idle"
      /\ \A q \in Procs \ {p} :
           \/ pc'[q] = pc[q]
           \/ pc[q] = "bgetSleep" /\ pc'[q] = "bget"
           \/ pc[q] = "iderwSleep" /\ pc'[q] = "iderw" /\ mine[q] = b
  BY <1>1, <1>2, <1>3, WakeupStep DEF BioInv, Asleep
<1>5. \A q \in Procs \ {p} : pc'[q] = pc[q] \/ (pc[q] = "bgetSleep" /\ pc'[q] = "bget")
  BY <1>1, <1>4 DEF Holding
<1>6. lru' \in [Bufs -> Bufs] /\ (\A i, j \in Bufs : lru'[i] = lru'[j] => i = j) /\ AllOnLru'
  BY <1>1, <1>2, MoveToFrontKeeps DEF BioInv, AllOnLru
<1>7. TypeOK'
  <2>1. pc' \in [Procs -> Places]
    <3>1. \A q \in Procs : pc'[q] \in Places
      <4>1. \A q \in Procs : pc[q] \in Places
        BY DEF BioInv, TypeOK
      <4> QED BY ZenonT(30), <4>1, <1>4, <1>5 DEF Places
    <3> QED BY <3>1, <1>2 DEF wakeup
  <2> QED BY ZenonT(30), <1>1, <1>2, <1>4, <1>6, <2>1 DEF BioInv, TypeOK
<1>8. OneBufferPerBlock' /\ CleanIsDisk'
  BY ZenonT(30), <1>2 DEF BioInv, OneBufferPerBlock, CleanIsDisk
<1>9. \A q \in Procs \ {p} : pc[q] \in Holding => (busy[mine[q]] => busy'[mine[q]])
  BY <1>1, <1>2 DEF BioInv, TypeOK
<1>12. \A q \in Procs \ {p} : /\ mine'[q] = mine[q]
                              /\ pc'[q] \in Holding <=> pc[q] \in Holding
                              /\ pc'[q] = "hold" => pc[q] = "hold"
  BY <1>3, <1>5 DEF Holding
<1>13. pc'[p] \notin Holding
  BY <1>4 DEF Holding
<1>10. HoldsAlone'
  <2>1. HoldsAlone
    BY DEF BioInv
  <2>2. ASSUME NEW q \in Procs, pc'[q] \in Holding
        PROVE  q # p /\ pc[q] \in Holding /\ mine'[q] = mine[q] /\ (pc'[q] = "hold" => pc[q] = "hold")
    BY <2>2, <1>12, <1>13
  <2>3. ASSUME NEW q \in Procs, pc'[q] \in Holding
        PROVE  mine[q] \in Bufs /\ busy'[mine[q]] /\ blockno[mine[q]] \in Blocks
    BY <2>1, <2>2, <2>3, <1>9 DEF HoldsAlone
  <2> QED BY <2>1, <2>2, <2>3, <1>2 DEF HoldsAlone, Holding
<1>11. QueuedOnce'
  BY ZenonT(30), <1>1, <1>2, <1>3, <1>5, QueueStays DEF BioInv
<1> QED BY <1>4, <1>6, <1>7, <1>8, <1>10, <1>11 DEF BioInv

\* The head of the queue: its requester, its flags, and the queue without it.
LEMMA QueueHead ==
    ASSUME BioInv, idequeue # <<>>
    PROVE  LET b == Head(idequeue) IN
           /\ b \in Bufs /\ blockno[b] \in Blocks /\ (dirty[b] <=> valid[b])
           /\ \E w \in Procs : pc[w] = "iderwSleep" /\ mine[w] = b
           /\ Tail(idequeue) \in Seq(Bufs)
           /\ \A i \in 1 .. Len(Tail(idequeue)) :
                /\ i + 1 \in 1 .. Len(idequeue) /\ Tail(idequeue)[i] = idequeue[i + 1]
                /\ Tail(idequeue)[i] \in Bufs \ {b}
<1> DEFINE b == Head(idequeue)
<1>1. idequeue \in Seq(Bufs)
  BY DEF BioInv, TypeOK
<1>2. /\ b = idequeue[1] /\ 1 \in 1 .. Len(idequeue) /\ Len(idequeue) \in Nat
  BY <1>1, SeqFacts
<1>3. /\ Tail(idequeue) \in Seq(Bufs) /\ Len(Tail(idequeue)) = Len(idequeue) - 1
      /\ \A i \in 1 .. Len(Tail(idequeue)) : Tail(idequeue)[i] = idequeue[i + 1]
  BY <1>1, TailFacts
<1>4. PICK w \in Procs : pc[w] = "iderwSleep" /\ mine[w] = b
  BY <1>2 DEF BioInv, QueuedOnce
<1>5. b \in Bufs /\ blockno[b] \in Blocks
  BY <1>4 DEF BioInv, HoldsAlone, Holding
<1>6. dirty[b] <=> valid[b]
  BY <1>2 DEF BioInv, QueuedOnce
<1>7. ASSUME NEW i \in 1 .. Len(Tail(idequeue))
      PROVE  /\ i + 1 \in 1 .. Len(idequeue) /\ Tail(idequeue)[i] = idequeue[i + 1]
             /\ Tail(idequeue)[i] \in Bufs \ {b}
  <2>1. i + 1 \in 1 .. Len(idequeue) /\ i + 1 # 1 /\ Tail(idequeue)[i] = idequeue[i + 1]
    BY <1>2, <1>3
  <2>2. idequeue[i + 1] \in Bufs
    BY <1>1, <2>1, SeqFacts
  <2>3. idequeue[i + 1] # idequeue[1]
    BY <1>2, <2>1 DEF BioInv, QueuedOnce
  <2> QED BY <2>1, <2>2, <2>3, <1>2
<1> QED BY ZenonT(30), <1>3, <1>4, <1>5, <1>6, <1>7

\* What the interrupt does to the buffer b at the head and to the disk.
LEMMA IdestartStep ==
    ASSUME BioInv, NEW b \in Bufs, blockno[b] \in Blocks, idestart(b),
           valid' = [valid EXCEPT ![b] = TRUE], dirty' = [dirty EXCEPT ![b] = FALSE],
           UNCHANGED blockno
    PROVE  /\ data' \in [Bufs -> Values] /\ disk' \in [Blocks -> Values]
           /\ \A c \in Bufs \ {b} : data'[c] = data[c]
           /\ \A k \in Blocks \ {blockno[b]} : disk'[k] = disk[k]
           /\ dirty[b] => data'[b] = data[b]
           /\ CleanIsDisk'
<1> DEFINE k0 == blockno[b]
<1>1. data \in [Bufs -> Values] /\ disk \in [Blocks -> Values] /\ k0 \in Blocks
  BY DEF BioInv, TypeOK
<1>2. /\ data' \in [Bufs -> Values] /\ disk' \in [Blocks -> Values]
      /\ \A c \in Bufs \ {b} : data'[c] = data[c]
      /\ \A k \in Blocks \ {k0} : disk'[k] = disk[k]
      /\ dirty[b] => data'[b] = data[b]
      /\ k0 \notin BadBlocks => data'[b] = disk'[k0]
  <2>1. CASE dirty[b]
    BY <1>1, <2>1 DEF idestart
  <2>2. CASE ~ dirty[b]
    BY <1>1, <2>2 DEF idestart
  <2> QED BY <2>1, <2>2
<1>3. /\ valid'[b] /\ ~ dirty'[b]
      /\ \A c \in Bufs \ {b} : valid'[c] = valid[c] /\ dirty'[c] = dirty[c]
  BY DEF BioInv, TypeOK
<1>4. ASSUME NEW c \in Bufs
      PROVE  /\ dirty'[c] => valid'[c]
             /\ valid'[c] => blockno'[c] \in Blocks
             /\ valid'[c] /\ ~ dirty'[c] /\ blockno'[c] \notin BadBlocks => data'[c] = disk'[blockno'[c]]
  <2>1. CASE c = b
    BY <2>1, <1>1, <1>2, <1>3
  <2>2. CASE c # b
    <3>1. /\ dirty[c] => valid[c]
          /\ valid[c] => blockno[c] \in Blocks
          /\ valid[c] /\ ~ dirty[c] /\ blockno[c] \notin BadBlocks => data[c] = disk[blockno[c]]
      BY DEF BioInv, CleanIsDisk
    <3>2. blockno[c] \in Blocks => blockno[c] # k0
      BY <2>2, <1>1, BioAssumption DEF BioInv, OneBufferPerBlock
    <3> QED BY <2>2, <3>1, <3>2, <1>2, <1>3
  <2> QED BY <2>1, <2>2
<1>5. CleanIsDisk'
  BY <1>4 DEF CleanIsDisk
<1> QED BY <1>2, <1>5

\* The interrupt finishes the head of the queue, whose requester still holds it.
LEMMA IntrInv ==
    ASSUME BioInv, ideintr
    PROVE  BioInv'
<1> DEFINE b == Head(idequeue)
<1>1. /\ b \in Bufs /\ blockno[b] \in Blocks /\ (dirty[b] <=> valid[b])
      /\ Tail(idequeue) \in Seq(Bufs)
      /\ \A i \in 1 .. Len(Tail(idequeue)) :
           /\ i + 1 \in 1 .. Len(idequeue) /\ Tail(idequeue)[i] = idequeue[i + 1]
           /\ Tail(idequeue)[i] \in Bufs \ {b}
  BY QueueHead DEF ideintr
<1>2. PICK w \in Procs : pc[w] = "iderwSleep" /\ mine[w] = b
  BY QueueHead DEF ideintr
<1>3. /\ idestart(b) /\ valid' = [valid EXCEPT ![b] = TRUE] /\ dirty' = [dirty EXCEPT ![b] = FALSE]
      /\ wakeup(b, NoProc, "idle") /\ idequeue' = Tail(idequeue)
      /\ UNCHANGED <<blockno, busy, lru, want, mine, panicked>>
  BY DEF ideintr
<1> HIDE DEF b
<1>4. /\ data' \in [Bufs -> Values] /\ disk' \in [Blocks -> Values] /\ CleanIsDisk'
  BY ZenonT(30), <1>1, <1>3, IdestartStep
<1>5. /\ SleepersSleep' /\ sleepers' \in [Bufs -> Seq(Procs)]
      /\ DOMAIN pc' = Procs
      /\ \A q \in Procs \ {NoProc} :
           \/ pc'[q] = pc[q]
           \/ pc[q] = "bgetSleep" /\ pc'[q] = "bget"
           \/ pc[q] = "iderwSleep" /\ pc'[q] = "iderw" /\ mine[q] = b
  BY ZenonT(30), <1>1, <1>3, WakeupStep, BioAssumption DEF BioInv
<1>6. \A q \in Procs : \/ pc'[q] = pc[q]
                       \/ pc[q] = "bgetSleep" /\ pc'[q] = "bget"
                       \/ pc[q] = "iderwSleep" /\ pc'[q] = "iderw" /\ mine[q] = b
  BY <1>5, BioAssumption
<1>7. TypeOK'
  <2>1. \A q \in Procs : pc'[q] \in Places
    BY <1>6 DEF BioInv, TypeOK, Places
  <2>2. pc' \in [Procs -> Places]
    BY <2>1, <1>3 DEF wakeup
  <2> QED BY ZenonT(30), <1>1, <1>3, <1>4, <1>5, <2>2 DEF BioInv, TypeOK
<1>8. AllOnLru' /\ OneBufferPerBlock'
  BY <1>3 DEF BioInv, AllOnLru, OneBufferPerBlock
<1>9. /\ valid'[b] /\ \A c \in Bufs \ {b} : valid'[c] = valid[c] /\ dirty'[c] = dirty[c]
  BY <1>1, <1>3 DEF BioInv, TypeOK
<1>10. HoldsAlone'
  <2>1. \A q \in Procs : (pc'[q] \in Holding <=> pc[q] \in Holding) /\ (pc'[q] = "hold" => pc[q] = "hold")
    BY <1>6 DEF Holding
  <2>2. \A q \in Procs : pc[q] \in Holding => mine[q] \in Bufs /\ (valid[mine[q]] => valid'[mine[q]])
    BY <1>9 DEF BioInv, HoldsAlone
  <2> QED BY <1>3, <2>1, <2>2 DEF BioInv, HoldsAlone, Holding
<1>11. QueuedOnce'
  <2>1. ASSUME NEW i \in 1 .. Len(idequeue')
        PROVE  /\ \E q \in Procs : pc'[q] = "iderwSleep" /\ mine'[q] = idequeue'[i]
               /\ dirty'[idequeue'[i]] <=> valid'[idequeue'[i]]
    <3>1. i + 1 \in 1 .. Len(idequeue) /\ idequeue'[i] = idequeue[i + 1] /\ idequeue'[i] \in Bufs \ {b}
      BY ZenonT(30), <1>1, <1>3
    <3>2. PICK q \in Procs : pc[q] = "iderwSleep" /\ mine[q] = idequeue[i + 1]
      BY <3>1 DEF BioInv, QueuedOnce
    <3>3. pc'[q] = "iderwSleep" /\ mine'[q] = idequeue'[i]
      BY <3>1, <3>2, <1>3, <1>6
    <3>4. dirty[idequeue[i + 1]] <=> valid[idequeue[i + 1]]
      BY <3>1 DEF BioInv, QueuedOnce
    <3> QED BY <3>1, <3>3, <3>4, <1>9
  <2>2. ASSUME NEW i \in 1 .. Len(idequeue'), NEW j \in 1 .. Len(idequeue'), idequeue'[i] = idequeue'[j]
        PROVE  i = j
    <3>1. /\ i + 1 \in 1 .. Len(idequeue) /\ j + 1 \in 1 .. Len(idequeue)
          /\ idequeue[i + 1] = idequeue[j + 1]
      BY <2>2, <1>1, <1>3
    <3>2. i + 1 = j + 1
      BY <3>1 DEF BioInv, QueuedOnce
    <3> QED BY <3>2
  <2> QED BY <2>1, <2>2 DEF QueuedOnce
<1> QED BY <1>4, <1>5, <1>7, <1>8, <1>10, <1>11 DEF BioInv

\* The invariant is inductive.
LEMMA NextInv ==
    ASSUME BioInv, [Next]_vars
    PROVE  BioInv'
<1>1. CASE Next
  BY <1>1, HitInv, SleepInv, RecycleInv, BreadInv, WokenInv, ChangeInv, BrelseInv, IntrInv DEF Next
<1>2. CASE UNCHANGED vars
  <2>1. TypeOK' /\ AllOnLru' /\ OneBufferPerBlock'
    BY <1>2 DEF BioInv, TypeOK, Places, AllOnLru, OneBufferPerBlock, vars
  <2>2. HoldsAlone' /\ SleepersSleep'
    BY ZenonT(30), <1>2 DEF BioInv, HoldsAlone, SleepersSleep, vars
  <2>3. QueuedOnce' /\ CleanIsDisk'
    BY <1>2 DEF BioInv, QueuedOnce, CleanIsDisk, vars
  <2> QED BY <2>1, <2>2, <2>3 DEF BioInv
<1> QED BY <1>1, <1>2

\* The buffers' flags, the list of sleepers, the driver's queue and the disk agree
\* in every state: B_BUSY is a lock, and a clean valid buffer has what the disk has.
THEOREM BioInvariant == Spec => []BioInv
<1>1. BioInv /\ [Next]_vars => BioInv'
  BY NextInv
<1> QED BY InitInv, <1>1, PTL DEF Spec

\* No block is in two buffers: bget starts over after its sleep and recycles only
\* when the block is not cached, so that no two processes have different copies.
THEOREM OneBuffer == Spec => []OneBufferPerBlock
<1>1. BioInv => OneBufferPerBlock
  BY DEF BioInv
<1> QED BY BioInvariant, <1>1, PTL
=============================================================================
