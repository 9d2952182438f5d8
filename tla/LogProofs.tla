----------------------------- MODULE LogProofs -----------------------------
(***************************************************************************)
(* Proofs about Log: that calls and commits exclude each other, that no    *)
(* caller is left asleep, and that a log whose transactions fit implements *)
(* AtomicDisk.                                                             *)
(***************************************************************************)
EXTENDS Log, FiniteSetTheorems, TLAPS

\* Time for the leaves, which the provers try in this order.
USE SMTT(30), ZenonT(30)

(***************************************************************************)
(* The number of calls in progress.                                        *)
(***************************************************************************)
\* The calls in progress are a finite set, so that CountInv counts them.
LEMMA ActiveFinite ==
    IsFiniteSet(Active) /\ Cardinality(Active) \in Nat
BY LogAssumption, FS_Subset, FS_CardinalityType DEF Active

\* A step that leaves every process in or out of a call keeps the count.
LEMMA CountKept ==
    ASSUME CountInv, outstanding' = outstanding,
           \A q \in Callers : pc'[q] \in InCall <=> pc[q] \in InCall
    PROVE  CountInv'
<1>1. Active' = Active
  BY DEF Active
<1> QED
  BY <1>1 DEF CountInv

\* begin_op counts the call it admits.
LEMMA CountBegin ==
    ASSUME CountInv, NEW p \in Callers, pc[p] \notin InCall, pc'[p] \in InCall,
           \A q \in Callers \ {p} : pc'[q] \in InCall <=> pc[q] \in InCall,
           outstanding' = outstanding + 1
    PROVE  CountInv'
<1>1. Active' = Active \cup {p} /\ p \notin Active
  BY DEF Active
<1>2. Cardinality(Active \cup {p}) = Cardinality(Active) + 1
  BY Zenon, <1>1, ActiveFinite, FS_AddElement
<1> QED
  BY <1>1, <1>2 DEF CountInv

\* end_op uncounts the call it ends.
LEMMA CountEnd ==
    ASSUME CountInv, NEW p \in Callers, pc[p] \in InCall, pc'[p] \notin InCall,
           \A q \in Callers \ {p} : pc'[q] \in InCall <=> pc[q] \in InCall,
           outstanding' = outstanding - 1
    PROVE  CountInv'
<1>1. Active' = Active \ {p} /\ p \in Active
  BY DEF Active
<1>2. Cardinality(Active \ {p}) = Cardinality(Active) - 1
  BY Zenon, <1>1, ActiveFinite, FS_RemoveElement
<1> QED
  BY <1>1, <1>2 DEF CountInv

\* No call is in progress when log.outstanding is 0.
LEMMA NoneActive ==
    ASSUME CountInv
    PROVE  outstanding = 0 <=> Active = {}
BY ActiveFinite, FS_EmptySet DEF CountInv

\* A process in a call shows that no commit and no recovery is going on.
LEMMA CallerAlone ==
    ASSUME CountInv, PhaseInv, NEW p \in Callers, pc[p] \in InCall
    PROVE  outstanding # 0 /\ ~ committing /\ phase = "idle" /\ ~ Recovering
<1>1. p \in Active
  BY DEF Active
<1>2. outstanding # 0
  BY <1>1, NoneActive
<1> QED
  BY <1>2 DEF PhaseInv, Recovering

(***************************************************************************)
(* Sequences without repetition.                                           *)
(***************************************************************************)
\* Appending a new element, as log_write and sleep do, keeps a sequence
\* without repetition.
LEMMA DistinctAppend ==
    ASSUME NEW S, NEW s \in Seq(S), NEW e \in S, Distinct(s),
           \A i \in DOMAIN s : s[i] # e
    PROVE  Distinct(Append(s, e))
BY DEF Distinct

\* Waking the first sleeper leaves the others as they are.
LEMMA DistinctTail ==
    ASSUME NEW S, NEW s \in Seq(S), s # <<>>, Distinct(s)
    PROVE  /\ Tail(s) \in Seq(S) /\ Distinct(Tail(s)) /\ Head(s) \in S
           /\ \A i \in DOMAIN Tail(s) :
                 /\ i + 1 \in DOMAIN s
                 /\ Tail(s)[i] = s[i + 1] /\ Tail(s)[i] # Head(s)
BY DEF Distinct

\* The log has at most one entry per home block.
LEMMA AtMostHome ==
    ASSUME NEW s \in Seq(Home), Distinct(s)
    PROVE  Len(s) <= NHOME
<1>1. /\ IsFiniteSet(1 .. Len(s)) /\ Cardinality(1 .. Len(s)) = Len(s)
  <2>1. 1 \in Int /\ Len(s) \in Int /\ Len(s) >= 0
    OBVIOUS
  <2>2. /\ IsFiniteSet(1 .. Len(s))
        /\ Cardinality(1 .. Len(s)) = IF 1 > Len(s) THEN 0 ELSE Len(s) - 1 + 1
    BY <2>1, FS_Interval
  <2> QED
    BY <2>1, <2>2
<1>2. IsFiniteSet(Home) /\ Cardinality(Home) = NHOME
  <2>1. nlog \in Int /\ nlog + NHOME - 1 \in Int /\ nlog <= nlog + NHOME - 1
    BY LogAssumption
  <2>2. IsFiniteSet(Home)
        /\ Cardinality(Home) = IF nlog > nlog + NHOME - 1 THEN 0
                               ELSE (nlog + NHOME - 1) - nlog + 1
    BY <2>1, FS_Interval DEF Home
  <2> QED
    BY <2>1, <2>2, LogAssumption
<1>3. s \in [1 .. Len(s) -> Home]
  OBVIOUS
<1>4. ASSUME NHOME < Len(s) PROVE FALSE
  <2>1. \E x, y \in 1 .. Len(s) : x # y /\ s[x] = s[y]
    BY <1>1, <1>2, <1>3, <1>4, FS_PigeonHole
  <2> QED
    BY <2>1 DEF Distinct
<1> QED
  BY <1>4, LogAssumption

(***************************************************************************)
(* CallInv is inductive.                                                   *)
(***************************************************************************)
\* The initial state of initlog satisfies CallInv.
LEMMA InitCallInv == Init => CallInv
<1> SUFFICES ASSUME Init PROVE CallInv
  OBVIOUS
<1> USE DEF Init
<1>1. TypeOK
  <2>1. 1 \in 1 .. NHOME + 1 /\ 0 \in Nat
    BY LogAssumption
  <2>2. disk \in [DataBlocks -> Values] /\ cache \in [DataBlocks -> Values]
    OBVIOUS
  <2>3. head \in Seq(Home) /\ lh \in Seq(Home) /\ sleepers \in Seq(Callers)
    OBVIOUS
  <2>4. /\ pc \in [Callers -> {"idle", "begin_op", "asleep", "commit"} \cup InCall]
        /\ buf \in [Callers -> Home \cup {0}]
    OBVIOUS
  <2> QED
    BY Zenon, <2>1, <2>2, <2>3, <2>4 DEF TypeOK
<1>2. Active = {}
  BY DEF Active, InCall
<1>3. CountInv
  BY <1>2, FS_EmptySet DEF CountInv
<1>4. PhaseInv /\ SleepInv /\ BufInv /\ Distinct(lh) /\ Distinct(head)
  BY DEF PhaseInv, SleepInv, BufInv, Distinct
<1> QED
  BY <1>1, <1>3, <1>4 DEF CallInv

\* A step of commit or recovery touches no process: what CallInv says of the
\* processes carries over.
LEMMA NoCallStep ==
    ASSUME CallInv, UNCHANGED <<outstanding, committing, callVars>>
    PROVE  CountInv' /\ SleepInv' /\ BufInv'
<1> USE DEF callVars
<1>1. CountInv'
  BY CountKept DEF CallInv
<1>2. SleepInv'
  BY DEF CallInv, SleepInv, Distinct
<1>3. BufInv'
  BY DEF CallInv, BufInv
<1> QED
  BY <1>1, <1>2, <1>3

\* The steps of commit and recovery preserve CallInv.
LEMMA CommitStepCallInv ==
    ASSUME CallInv, read_head \/ write_log \/ write_head \/ install_trans \/ erase
    PROVE  CallInv'
<1> USE DEF CallInv, diskVars, callVars
<1>0. CountInv' /\ SleepInv' /\ BufInv'
  BY NoCallStep DEF read_head, write_log, write_head, install_trans, erase
<1>1. CASE read_head
  <2>1. TypeOK'
    BY <1>1 DEF read_head, TypeOK
  <2>2. PhaseInv'
    BY <1>1 DEF read_head, PhaseInv, TypeOK
  <2>3. Distinct(lh') /\ Distinct(head')
    BY <1>1 DEF read_head, Distinct
  <2> QED
    BY <1>0, <2>1, <2>2, <2>3 DEF Distinct
<1>2. CASE write_log
  <2>1. lh[tail] \in Home /\ tail \in Nat /\ cache[lh[tail]] \in Values
    BY <1>2, LogAssumption DEF write_log, TypeOK, Home, DataBlocks
  <2>2. tail' \in 1 .. NHOME + 1
    BY <1>2, <2>1, AtMostHome, LogAssumption DEF write_log, TypeOK
  <2>3. TypeOK'
    BY Zenon, <1>2, <2>1, <2>2 DEF write_log, copyBlock, TypeOK
  <2>4. PhaseInv' /\ Distinct(lh') /\ Distinct(head')
    BY <1>2, <2>1 DEF write_log, PhaseInv, TypeOK, Distinct
  <2> QED
    BY <1>0, <2>3, <2>4 DEF Distinct
<1>3. CASE write_head
  <2>1. TypeOK'
    BY <1>3, LogAssumption DEF write_head, TypeOK
  <2>2. PhaseInv' /\ Distinct(lh') /\ Distinct(head')
    BY <1>3 DEF write_head, PhaseInv, TypeOK, Distinct
  <2> QED
    BY <1>0, <2>1, <2>2 DEF Distinct
<1>4. CASE install_trans
  <2>1. lh[tail] \in Home /\ tail \in Nat /\ tail >= 1
    BY <1>4, LogAssumption DEF install_trans, TypeOK
  <2>2. tail <= NHOME
    BY <1>4, <2>1, AtMostHome, LogAssumption DEF install_trans, TypeOK
  <2>3. cache[tail] \in Values
    BY <2>1, <2>2, LogAssumption DEF TypeOK, DataBlocks
  <2>4. TypeOK'
    <3>1. tail + 1 \in 1 .. NHOME + 1
      BY <2>1, <2>2, LogAssumption
    <3> QED
      BY Zenon, <1>4, <2>3, <3>1 DEF install_trans, copyBlock, TypeOK
  <2>5. PhaseInv' /\ Distinct(lh') /\ Distinct(head')
    BY <1>4, <2>1 DEF install_trans, PhaseInv, TypeOK, Distinct
  <2> QED
    BY <1>0, <2>4, <2>5 DEF Distinct
<1>5. CASE erase
  <2>1. TypeOK'
    BY <1>5, LogAssumption DEF erase, TypeOK
  <2>2. PhaseInv' /\ Distinct(lh') /\ Distinct(head')
    BY <1>5 DEF erase, PhaseInv, TypeOK, Distinct
  <2> QED
    BY <1>0, <2>1, <2>2 DEF Distinct
<1> QED
  BY <1>1, <1>2, <1>3, <1>4, <1>5

\* begin_op preserves CallInv: it sleeps or is counted.
LEMMA BeginCallInv ==
    ASSUME CallInv, NEW p \in Callers, begin_op(p)
    PROVE  CallInv'
<1> USE DEF CallInv, diskVars, commitVars
<1>0. pc[p] \in {"idle", "begin_op"} /\ ~ Recovering
  BY DEF begin_op
<1>1. Distinct(lh') /\ Distinct(head')
  BY DEF begin_op, Distinct
<1>2. BufInv'
  BY <1>0 DEF begin_op, BufInv, TypeOK
<1>3. CASE committing \/ NoRoom
  <2>1. /\ sleepers' = Append(sleepers, p) /\ pc' = [pc EXCEPT ![p] = "asleep"]
        /\ UNCHANGED <<outstanding, disk, head, cache, lh, committing, buf, phase, tail>>
    BY <1>3 DEF begin_op
  <2>2. TypeOK'
    BY <2>1 DEF TypeOK
  <2>3. CountInv'
    <3>1. \A q \in Callers : pc'[q] \in InCall <=> pc[q] \in InCall
      BY <1>0, <2>1 DEF TypeOK, InCall
    <3> QED
      BY <2>1, <3>1, CountKept
  <2>4. PhaseInv'
    BY <2>1 DEF PhaseInv
  <2>5. SleepInv'
    <3>1. sleepers \in Seq(Callers) /\ Distinct(sleepers)
      BY DEF TypeOK, SleepInv
    <3>2. \A i \in DOMAIN sleepers : sleepers[i] # p /\ sleepers[i] \in Callers
      BY <1>0, <3>1 DEF SleepInv
    <3>3. Distinct(sleepers')
      BY <2>1, <3>1, <3>2, DistinctAppend
    <3>4. \A i \in DOMAIN sleepers' : pc'[sleepers'[i]] = "asleep"
      BY <2>1, <3>1, <3>2 DEF SleepInv, TypeOK
    <3> QED
      BY <3>3, <3>4 DEF SleepInv
  <2> QED
    BY <1>1, <1>2, <2>2, <2>3, <2>4, <2>5 DEF Distinct
<1>4. CASE ~ (committing \/ NoRoom)
  <2>1. /\ outstanding' = outstanding + 1 /\ pc' = [pc EXCEPT ![p] = "op"]
        /\ UNCHANGED <<sleepers, disk, head, cache, lh, committing, buf, phase, tail>>
    BY <1>4 DEF begin_op
  <2>2. TypeOK'
    BY <2>1 DEF TypeOK, InCall
  <2>3. CountInv'
    <3>1. /\ pc[p] \notin InCall /\ pc'[p] \in InCall
          /\ \A q \in Callers \ {p} : pc'[q] \in InCall <=> pc[q] \in InCall
      BY <1>0, <2>1 DEF TypeOK, InCall
    <3> QED
      BY <2>1, <3>1, CountBegin
  <2>4. PhaseInv'
    BY <1>0, <1>4, <2>1 DEF PhaseInv, Recovering, TypeOK
  <2>5. SleepInv'
    BY <1>0, <2>1 DEF SleepInv, TypeOK, Distinct
  <2> QED
    BY <1>1, <1>2, <2>2, <2>3, <2>4, <2>5 DEF Distinct
<1> QED
  BY <1>3, <1>4

\* What wakeup(&log) does to the sleepers: only processes that are not in a
\* call and hold no buffer change place.
LEMMA WakeupEffect ==
    ASSUME TypeOK, SleepInv, NEW p \in Callers, pc[p] # "asleep", wakeup(p, "idle")
    PROVE  /\ sleepers' \in Seq(Callers) /\ SleepInv'
           /\ pc' \in [Callers -> {"idle", "begin_op", "asleep", "commit"} \cup InCall]
           /\ pc'[p] = "idle"
           /\ \A q \in Callers \ {p} :
                 pc'[q] = pc[q] \/ (pc[q] = "asleep" /\ pc'[q] = "begin_op")
           /\ sleepers # <<>> => \E q \in Callers : pc'[q] = "begin_op"
           /\ sleepers = <<>> => sleepers' = <<>>
<1>1. CASE sleepers = <<>>
  BY <1>1 DEF wakeup, TypeOK, SleepInv, Distinct
<1>2. CASE sleepers # <<>>
  <2>1. /\ pc' = [pc EXCEPT ![p] = "idle", ![Head(sleepers)] = "begin_op"]
        /\ sleepers' = Tail(sleepers)
    BY <1>2 DEF wakeup
  <2>2. sleepers \in Seq(Callers) /\ Distinct(sleepers)
    BY DEF TypeOK, SleepInv
  <2>3. /\ Tail(sleepers) \in Seq(Callers) /\ Distinct(Tail(sleepers)) /\ Head(sleepers) \in Callers
        /\ \A i \in DOMAIN Tail(sleepers) :
              /\ i + 1 \in DOMAIN sleepers
              /\ Tail(sleepers)[i] = sleepers[i + 1] /\ Tail(sleepers)[i] # Head(sleepers)
    BY <1>2, <2>2, DistinctTail
  <2>4. pc[Head(sleepers)] = "asleep" /\ Head(sleepers) # p
    BY <1>2, <2>2 DEF SleepInv
  <2>5. SleepInv'
    <3>1. ASSUME NEW i \in DOMAIN sleepers' PROVE pc'[sleepers'[i]] = "asleep"
      <4>1. /\ sleepers'[i] = sleepers[i + 1] /\ sleepers'[i] # Head(sleepers)
            /\ i + 1 \in DOMAIN sleepers
        BY <2>1, <2>3, <3>1
      <4>2. pc[sleepers'[i]] = "asleep" /\ sleepers'[i] # p /\ sleepers'[i] \in Callers
        BY <2>2, <4>1 DEF SleepInv
      <4> QED
        BY <2>1, <2>3, <4>1, <4>2 DEF TypeOK
    <3> QED
      BY Zenon, <2>1, <2>3, <3>1 DEF SleepInv
  <2> HIDE DEF SleepInv
  <2> QED
    BY Zenon, <1>2, <2>1, <2>3, <2>4, <2>5 DEF TypeOK
<1> QED
  BY <1>1, <1>2

\* end_op preserves CallInv: the call is uncounted, and the last one commits.
LEMMA EndCallInv ==
    ASSUME CallInv, NEW p \in Callers, end_op(p)
    PROVE  CallInv'
<1> USE DEF CallInv, diskVars, commitVars
<1>0. /\ pc[p] = "op" /\ outstanding' = outstanding - 1
      /\ UNCHANGED <<disk, head, cache, lh, buf>>
  BY DEF end_op
<1>1. outstanding # 0 /\ ~ committing /\ phase = "idle" /\ outstanding \in Nat
  BY <1>0, CallerAlone DEF InCall, TypeOK
<1>2. Distinct(lh') /\ Distinct(head')
  BY <1>0 DEF Distinct
<1>3. CASE outstanding = 1
  <2>1. /\ committing' = TRUE /\ pc' = [pc EXCEPT ![p] = "commit"]
        /\ phase' = IF lh = <<>> THEN "done" ELSE "write_log"
        /\ tail' = 1 /\ UNCHANGED sleepers
    BY <1>1, <1>3 DEF end_op
  <2>2. TypeOK'
    <3>1. 1 \in 1 .. NHOME + 1 /\ outstanding' \in Nat
      BY <1>0, <1>1, LogAssumption
    <3> QED
      BY <1>0, <2>1, <3>1 DEF TypeOK
  <2>3. CountInv'
    <3>1. /\ pc[p] \in InCall /\ pc'[p] \notin InCall
          /\ \A q \in Callers \ {p} : pc'[q] \in InCall <=> pc[q] \in InCall
      BY <1>0, <2>1 DEF TypeOK, InCall
    <3> QED
      BY <1>0, <3>1, CountEnd
  <2>4. PhaseInv'
    BY <1>0, <1>1, <1>3, <2>1 DEF PhaseInv, TypeOK
  <2>5. SleepInv'
    BY <1>0, <2>1 DEF SleepInv, TypeOK, Distinct
  <2>6. BufInv'
    BY <1>0, <2>1 DEF BufInv, TypeOK
  <2> QED
    BY <1>2, <2>2, <2>3, <2>4, <2>5, <2>6 DEF Distinct
<1>4. CASE outstanding # 1
  <2>1. wakeup(p, "idle") /\ UNCHANGED <<committing, phase, tail>>
    BY <1>1, <1>4 DEF end_op
  <2>2. /\ sleepers' \in Seq(Callers) /\ SleepInv'
        /\ pc' \in [Callers -> {"idle", "begin_op", "asleep", "commit"} \cup InCall]
        /\ pc'[p] = "idle"
        /\ \A q \in Callers \ {p} :
              pc'[q] = pc[q] \/ (pc[q] = "asleep" /\ pc'[q] = "begin_op")
    BY <1>0, <2>1, WakeupEffect
  <2>3. TypeOK'
    BY <1>0, <1>1, <2>1, <2>2 DEF TypeOK
  <2>4. CountInv'
    <3>1. /\ pc[p] \in InCall /\ pc'[p] \notin InCall
          /\ \A q \in Callers \ {p} : pc'[q] \in InCall <=> pc[q] \in InCall
      BY <1>0, <2>2 DEF InCall
    <3> QED
      BY <1>0, <3>1, CountEnd
  <2>5. PhaseInv'
    BY <1>0, <1>1, <1>4, <2>1 DEF PhaseInv, TypeOK
  <2>6. BufInv'
    BY <1>0, <2>2 DEF BufInv
  <2> QED
    BY <1>2, <2>2, <2>3, <2>4, <2>5, <2>6 DEF Distinct
<1> QED
  BY <1>3, <1>4

\* Both halves of log_write preserve CallInv: the caller stays in its call,
\* and absorption keeps the entries of the log distinct.
LEMMA LogWriteCallInv ==
    ASSUME CallInv, NEW p \in Callers,
           log_write(p) \/ \E b \in Home, v \in Values : log_writeCheck(p, b, v)
    PROVE  CallInv'
<1> USE DEF CallInv, diskVars, commitVars
<1>0. pc[p] \in {"op", "log_write"}
  BY DEF log_write, log_writeCheck
<1>1. outstanding # 0 /\ ~ committing /\ phase = "idle" /\ outstanding \in Nat
  BY <1>0, CallerAlone DEF InCall, TypeOK
<1>2. CASE log_write(p)
  <2>1. buf[p] \in Home
    BY <1>2 DEF log_write, BufInv, TypeOK
  <2>2. lh' \in Seq(Home) /\ Distinct(lh') /\ Len(lh') >= Len(lh)
    <3>1. CASE absorbed(buf[p])
      BY <1>2, <3>1 DEF log_write, TypeOK, Distinct
    <3>2. CASE ~ absorbed(buf[p])
      <4>1. lh' = Append(lh, buf[p]) /\ lh \in Seq(Home)
        BY <1>2, <3>2 DEF log_write, TypeOK
      <4>2. \A i \in DOMAIN lh : lh[i] # buf[p]
        BY <3>2 DEF absorbed
      <4>3. Distinct(Append(lh, buf[p]))
        BY <2>1, <4>1, <4>2, DistinctAppend
      <4> QED
        BY <2>1, <4>1, <4>3
    <3> QED
      BY <3>1, <3>2
  <2>3. TypeOK'
    BY <1>2, <2>1, <2>2 DEF log_write, TypeOK, InCall
  <2>4. CountInv'
    <3>1. \A q \in Callers : pc'[q] \in InCall <=> pc[q] \in InCall
      BY <1>2 DEF log_write, TypeOK, InCall
    <3> QED
      BY <1>2, <3>1, CountKept DEF log_write
  <2>5. PhaseInv'
    BY <1>1, <1>2, <2>2 DEF log_write, PhaseInv, TypeOK
  <2>6. SleepInv' /\ BufInv'
    BY <1>2 DEF log_write, SleepInv, BufInv, TypeOK, Distinct
  <2>7. Distinct(head')
    BY <1>2 DEF log_write, Distinct
  <2> QED
    BY <2>2, <2>3, <2>4, <2>5, <2>6, <2>7 DEF Distinct
<1>3. ASSUME NEW b \in Home, NEW v \in Values, log_writeCheck(p, b, v) PROVE CallInv'
  <2>1. TypeOK'
    BY Zenon, <1>3 DEF log_writeCheck, TypeOK, InCall
  <2>2. CountInv'
    <3>1. \A q \in Callers : pc'[q] \in InCall <=> pc[q] \in InCall
      BY <1>3 DEF log_writeCheck, TypeOK, InCall
    <3> QED
      BY <1>3, <3>1, CountKept DEF log_writeCheck
  <2>3. PhaseInv' /\ Distinct(lh') /\ Distinct(head')
    BY <1>3 DEF log_writeCheck, PhaseInv, Distinct
  <2>4. SleepInv'
    BY <1>3 DEF log_writeCheck, SleepInv, TypeOK, Distinct
  <2>5. BufInv'
    <3>1. b # 0
      BY LogAssumption DEF Home
    <3> QED
      BY <1>3, <3>1 DEF log_writeCheck, BufInv, TypeOK
  <2> QED
    BY <2>1, <2>2, <2>3, <2>4, <2>5 DEF Distinct
<1> QED
  BY <1>2, <1>3

\* The end of the commit and a crash preserve CallInv.
LEMMA DoneCallInv ==
    ASSUME CallInv, crash \/ \E p \in Callers : commitDone(p)
    PROVE  CallInv'
<1> USE DEF CallInv, diskVars, commitVars
<1>1. CASE crash
  <2>1. TypeOK'
    <3>1. 1 \in 1 .. NHOME + 1 /\ 0 \in Nat
      BY LogAssumption
    <3>2. /\ disk' \in [DataBlocks -> Values] /\ cache' \in [DataBlocks -> Values]
          /\ head' \in Seq(Home) /\ lh' \in Seq(Home) /\ sleepers' \in Seq(Callers)
      BY <1>1 DEF crash, TypeOK
    <3>3. /\ pc' \in [Callers -> {"idle", "begin_op", "asleep", "commit"} \cup InCall]
          /\ buf' \in [Callers -> Home \cup {0}]
      BY <1>1 DEF crash
    <3> QED
      BY Zenon, <1>1, <3>1, <3>2, <3>3 DEF crash, TypeOK
  <2>2. CountInv'
    <3>1. Active' = {} /\ outstanding' = 0
      BY <1>1 DEF crash, Active, InCall
    <3> QED
      BY <3>1, FS_EmptySet DEF CountInv
  <2>3. PhaseInv' /\ SleepInv' /\ BufInv' /\ Distinct(lh') /\ Distinct(head')
    BY <1>1 DEF crash, PhaseInv, SleepInv, BufInv, Distinct
  <2> QED
    BY <2>1, <2>2, <2>3 DEF Distinct
<1>2. ASSUME NEW p \in Callers, commitDone(p) PROVE CallInv'
  <2>1. /\ pc[p] = "commit" /\ phase = "done" /\ committing' = FALSE /\ phase' = "idle"
        /\ wakeup(p, "idle")
        /\ UNCHANGED <<disk, head, cache, lh, outstanding, buf, tail>>
    BY <1>2 DEF commitDone
  <2>2. /\ sleepers' \in Seq(Callers) /\ SleepInv'
        /\ pc' \in [Callers -> {"idle", "begin_op", "asleep", "commit"} \cup InCall]
        /\ pc'[p] = "idle"
        /\ \A q \in Callers \ {p} :
              pc'[q] = pc[q] \/ (pc[q] = "asleep" /\ pc'[q] = "begin_op")
    BY <2>1, WakeupEffect
  <2>3. TypeOK'
    BY Zenon, <2>1, <2>2 DEF TypeOK
  <2>4. CountInv'
    <3>1. \A q \in Callers : pc'[q] \in InCall <=> pc[q] \in InCall
      BY <2>1, <2>2 DEF InCall
    <3> QED
      BY <2>1, <3>1, CountKept
  <2>5. PhaseInv' /\ Distinct(lh') /\ Distinct(head')
    BY <2>1 DEF PhaseInv, Distinct
  <2>6. BufInv'
    BY <2>1, <2>2 DEF BufInv
  <2> QED
    BY <2>2, <2>3, <2>4, <2>5, <2>6 DEF Distinct
<1> QED
  BY <1>1, <1>2

\* Every step of Log preserves CallInv.
LEMMA NextCallInv == CallInv /\ [Next]_vars => CallInv'
<1> SUFFICES ASSUME CallInv, [Next]_vars PROVE CallInv'
  OBVIOUS
<1>1. CASE UNCHANGED vars
  <2>1. UNCHANGED <<outstanding, committing, callVars>>
    BY <1>1 DEF vars, callVars
  <2>2. CountInv' /\ SleepInv' /\ BufInv'
    BY <2>1, NoCallStep
  <2>3. TypeOK' /\ PhaseInv' /\ Distinct(lh') /\ Distinct(head')
    BY <1>1 DEF vars, CallInv, TypeOK, PhaseInv, Distinct
  <2> QED
    BY <2>2, <2>3 DEF CallInv, Distinct
<1>2. CASE Next
  BY <1>2, CommitStepCallInv, BeginCallInv, EndCallInv, LogWriteCallInv, DoneCallInv DEF Next
<1> QED
  BY <1>1, <1>2

\* CallInv always holds, whatever the number of callers, blocks and log blocks.
THEOREM CallInvariant == Spec => []CallInv
BY InitCallInv, NextCallInv, PTL DEF Spec

\* All variables of the log keep their types; in particular the log never has
\* more entries than there are blocks, so the loops of commit stay in range.
THEOREM LogTypeCorrect == Spec => []TypeOK
<1>1. CallInv => TypeOK
  BY DEF CallInv
<1> QED
  BY <1>1, CallInvariant, PTL

\* commit() runs only while no file system call is in progress (log.c: "The
\* logging system only commits when there are no FS system calls active").
THEOREM CommitsAlone == Spec => []CommitAlone
<1>1. CallInv => CommitAlone
  BY NoneActive DEF CallInv, PhaseInv, CommitAlone
<1> QED
  BY <1>1, CallInvariant, PTL

(***************************************************************************)
(* No caller is left asleep.                                               *)
(***************************************************************************)
\* A caller that finds no room is not alone: an idle log is empty, and has
\* room for a call.
LEMMA NoRoomNotAlone ==
    ASSUME CallInv, NoRoom, ~ committing, ~ Recovering
    PROVE  outstanding > 0
<1>1. outstanding \in Nat /\ phase = "idle"
  BY DEF CallInv, TypeOK, Recovering
<1>2. ASSUME outstanding = 0 PROVE FALSE
  <2>1. lh = <<>>
    BY <1>1, <1>2 DEF CallInv, PhaseInv
  <2>2. Len(lh) = 0
    BY <2>1
  <2> QED
    BY <1>2, <2>2, LogAssumption DEF NoRoom
<1> QED
  BY <1>1, <1>2

\* Every step keeps NoLostWakeup: a caller goes to sleep only while someone is
\* left who will wake it, and who leaves wakes the first sleeper.
LEMMA NextNoLostWakeup == CallInv /\ NoLostWakeup /\ [Next]_vars => NoLostWakeup'
<1> SUFFICES ASSUME CallInv, NoLostWakeup, [Next]_vars PROVE NoLostWakeup'
  OBVIOUS
<1>0. outstanding \in Nat
  BY DEF CallInv, TypeOK
<1>1. CASE UNCHANGED <<outstanding, committing, sleepers, pc>>
  BY <1>1 DEF NoLostWakeup
<1>2. CASE crash
  BY <1>2 DEF crash, NoLostWakeup
<1>3. ASSUME NEW p \in Callers, begin_op(p) PROVE NoLostWakeup'
  <2>1. CASE committing \/ NoRoom
    <3>1. committing' = committing /\ outstanding' = outstanding
      BY <1>3, <2>1 DEF begin_op
    <3>2. committing \/ outstanding > 0
      BY <1>3, <2>1, NoRoomNotAlone DEF begin_op
    <3> QED
      BY <3>1, <3>2 DEF NoLostWakeup
  <2>2. CASE ~ (committing \/ NoRoom)
    BY <1>0, <1>3, <2>2 DEF begin_op, NoLostWakeup
  <2> QED
    BY <2>1, <2>2
<1>4. ASSUME NEW p \in Callers, end_op(p) PROVE NoLostWakeup'
  <2>1. outstanding # 0 /\ ~ committing /\ pc[p] = "op"
    BY <1>4, CallerAlone DEF end_op, InCall, CallInv
  <2> QED
    BY <1>0, <1>4, <2>1 DEF end_op, NoLostWakeup
<1>5. ASSUME NEW p \in Callers,
             log_write(p) \/ \E b \in Home, v \in Values : log_writeCheck(p, b, v)
      PROVE  NoLostWakeup'
  <2>1. pc[p] \in InCall /\ outstanding' = outstanding
    BY <1>5 DEF log_write, log_writeCheck, InCall
  <2>2. outstanding # 0
    BY <2>1, CallerAlone DEF CallInv
  <2> QED
    BY <1>0, <2>1, <2>2 DEF NoLostWakeup
<1>6. ASSUME NEW p \in Callers, commitDone(p) PROVE NoLostWakeup'
  <2>1. pc[p] # "asleep" /\ wakeup(p, "idle")
    BY <1>6 DEF commitDone
  <2>2. /\ sleepers # <<>> => \E q \in Callers : pc'[q] = "begin_op"
        /\ sleepers = <<>> => sleepers' = <<>>
    BY <2>1, WakeupEffect DEF CallInv
  <2> QED
    BY <2>2 DEF NoLostWakeup
<1>7. CASE read_head \/ write_log \/ write_head \/ install_trans \/ erase
  BY <1>1, <1>7 DEF read_head, write_log, write_head, install_trans, erase, callVars
<1> QED
  BY <1>1, <1>2, <1>3, <1>4, <1>5, <1>6, <1>7 DEF Next, vars

\* begin_op never sleeps with no one left to wake it, although wakeup wakes
\* one sleeper only.
THEOREM NoCallerStranded == Spec => []NoLostWakeup
<1>1. Init => NoLostWakeup
  BY DEF Init, NoLostWakeup
<1> QED
  BY <1>1, CallInvariant, NextNoLostWakeup, PTL DEF Spec

(***************************************************************************)
(* Contents.  From here on transactions fit into the log.                  *)
(***************************************************************************)
\* What recovery makes of a block: the log block if the header names it, else
\* what is in place.
LEMMA RecoveredBlock ==
    ASSUME CallInv
    PROVE  /\ \A i \in DOMAIN head : head[i] \in Home /\ Recovered[head[i]] = disk[i]
           /\ \A b \in Home : (\A i \in DOMAIN head : head[i] # b) => Recovered[b] = disk[b]
           /\ DOMAIN Recovered = Home
<1>1. ASSUME NEW i \in DOMAIN head PROVE head[i] \in Home /\ Recovered[head[i]] = disk[i]
  <2>1. head[i] \in Home
    BY <1>1 DEF CallInv, TypeOK
  <2>2. \A j \in DOMAIN head : head[j] = head[i] => j = i
    BY <1>1 DEF CallInv, Distinct
  <2>3. (CHOOSE j \in DOMAIN head : head[j] = head[i]) = i
    BY <1>1, <2>2
  <2> QED
    BY Zenon, <1>1, <2>1, <2>3 DEF Recovered
<1>2. \A b \in Home : (\A i \in DOMAIN head : head[i] # b) => Recovered[b] = disk[b]
  BY DEF Recovered
<1> QED
  BY Zenon, <1>1, <1>2 DEF Recovered

\* With an empty header the disk is as it is.
LEMMA RecoveredEmpty ==
    ASSUME head = <<>>
    PROVE  Recovered = [b \in Home |-> disk[b]]
BY DEF Recovered

\* A log block is no home block.
LEMMA LogNotHome ==
    ASSUME NEW i \in Nat, i >= 1, i <= nlog - 1
    PROVE  i \notin Home /\ i \in DataBlocks
BY LogAssumption DEF Home, DataBlocks

\* Home blocks are on the disk.
LEMMA HomeOnDisk == Home \subseteq DataBlocks
BY LogAssumption DEF Home, DataBlocks

\* The initial state is that of an atomic disk with the contents mkfs made.
LEMMA InitContent == Init => ContentInv /\ Atomic!Init
<1> SUFFICES ASSUME Init PROVE ContentInv /\ Atomic!Init
  OBVIOUS
<1>1. ContentInv
  BY LogAssumption DEF Init, ContentInv, CleanInv, WrittenInv, InstallInv, HeadInv, Recovering
<1>2. Recovered = [b \in Home |-> disk[b]]
  BY RecoveredEmpty DEF Init
<1>3. Recovered \in [Home -> Values]
  BY <1>2, HomeOnDisk DEF Init
<1>4. Active = {} /\ Recovering
  BY DEF Init, Active, InCall, Recovering
<1> QED
  BY <1>1, <1>3, <1>4 DEF Atomic!Init, Current

\* Reading the header changes nothing that recovery or a call can see.
LEMMA ReadHeadContent ==
    ASSUME CallInv, ContentInv, read_head
    PROVE  ContentInv' /\ UNCHANGED <<Current, Recovered, Active>>
<1> USE DEF read_head, diskVars, callVars
<1>1. ~ committing /\ Recovering /\ Recovering'
  BY DEF CallInv, PhaseInv, Recovering
<1>2. UNCHANGED <<Recovered, Active>>
  BY DEF Recovered, Active
<1>3. cache = disk
  BY <1>1 DEF ContentInv, CleanInv
<1>4. InstallInv'
  BY <1>1, <1>3 DEF InstallInv, CallInv, PhaseInv
<1>5. CleanInv' /\ WrittenInv' /\ HeadInv'
  BY <1>1, <1>3 DEF CleanInv, WrittenInv, HeadInv, ContentInv
<1> QED
  BY <1>1, <1>2, <1>4, <1>5 DEF ContentInv, Current

\* While a commit or a recovery goes on no buffer is being written.
LEMMA NoBuffer ==
    ASSUME CallInv, outstanding = 0
    PROVE  \A p \in Callers : buf[p] = 0
<1>1. Active = {}
  BY NoneActive DEF CallInv
<1> QED
  BY <1>1 DEF CallInv, BufInv, Active, InCall

\* Writing a log block before the commit changes nothing that recovery or a
\* call can see.
LEMMA WriteLogContent ==
    ASSUME CallInv, ContentInv, TransactionFits, write_log
    PROVE  ContentInv' /\ UNCHANGED <<Current, Recovered, Active>>
<1> USE DEF write_log, copyBlock, callVars
<1>1. /\ committing /\ ~ Recovering /\ ~ Recovering' /\ head = <<>>
      /\ tail \in Nat /\ tail >= 1 /\ tail <= nlog - 1 /\ tail <= Len(lh)
  BY LogAssumption DEF CallInv, PhaseInv, TypeOK, Recovering, ContentInv, HeadInv, TransactionFits
<1>2. tail \notin Home /\ tail \in DataBlocks
  BY <1>1, LogNotHome
<1>3. lh[tail] \in Home /\ lh \in Seq(Home)
  BY <1>1 DEF CallInv, TypeOK
<1>4. /\ cache'[tail] = cache[lh[tail]] /\ disk'[tail] = cache[lh[tail]]
      /\ \A b \in DataBlocks \ {tail} : cache'[b] = cache[b] /\ disk'[b] = disk[b]
  BY <1>2 DEF CallInv, TypeOK
<1>5. \A b \in Home : cache'[b] = cache[b] /\ disk'[b] = disk[b]
  BY <1>2, <1>4, HomeOnDisk
<1>6. UNCHANGED <<Current, Recovered, Active>>
  BY <1>1, <1>5 DEF Current, Recovered, Active
<1>7. CleanInv'
  BY <1>1, <1>5 DEF ContentInv, CleanInv, absorbed
<1>8. WrittenInv'
  <2>1. ASSUME NEW i \in 1 .. tail PROVE disk'[i] = cache'[lh[i]] /\ cache'[i] = disk'[i]
    <3>1. i \in DataBlocks /\ lh[i] \in Home
      <4>1. i \in Nat /\ i >= 1 /\ i <= nlog - 1 /\ i \in 1 .. Len(lh)
        BY <1>1, LogAssumption
      <4> QED
        BY <1>3, <4>1, LogNotHome
    <3>2. cache'[lh[i]] = cache[lh[i]]
      BY <1>5, <3>1
    <3>3. CASE i = tail
      BY <1>4, <3>2, <3>3
    <3>4. CASE i # tail
      <4>1. i \in 1 .. tail - 1
        BY <1>1, <3>4
      <4>2. disk[i] = cache[lh[i]] /\ cache[i] = disk[i]
        BY <4>1 DEF ContentInv, WrittenInv
      <4> QED
        BY <1>4, <3>1, <3>2, <3>4, <4>2
    <3> QED
      BY <3>3, <3>4
  <2> QED
    BY <1>1, <2>1 DEF WrittenInv
<1>9. InstallInv' /\ HeadInv'
  BY <1>1 DEF InstallInv, HeadInv, ContentInv
<1> QED
  BY <1>6, <1>7, <1>8, <1>9 DEF ContentInv

\* write_head() commits: what the calls see becomes what recovery restores.
LEMMA WriteHeadContent ==
    ASSUME CallInv, ContentInv, TransactionFits, write_head
    PROVE  /\ ContentInv' /\ Active = {} /\ Recovered' = Current
           /\ UNCHANGED <<Current, Active>>
<1> USE DEF write_head, callVars
<1>1. /\ committing /\ outstanding = 0 /\ ~ Recovering /\ ~ Recovering'
      /\ lh \in Seq(Home) /\ tail = Len(lh) + 1 /\ Len(lh) \in Nat
  BY DEF CallInv, PhaseInv, TypeOK, Recovering
<1>2. \A i \in DOMAIN lh : lh[i] \in Home /\ disk[i] = cache[lh[i]] /\ cache[i] = disk[i]
  <2>1. DOMAIN lh = 1 .. tail - 1
    BY <1>1
  <2> QED
    BY <1>1, <2>1 DEF ContentInv, WrittenInv
<1>3. \A b \in Home : ~ absorbed(b) => cache[b] = disk[b]
  <2>1. \A b \in Home : b # 0
    BY LogAssumption DEF Home
  <2> QED
    BY <1>1, <2>1, NoBuffer DEF ContentInv, CleanInv
<1>4. Active = {} /\ UNCHANGED Active
  BY <1>1, NoneActive DEF CallInv, Active
<1>5. UNCHANGED Current
  BY <1>1 DEF Current
<1>6. Recovered' = Current
  <2>1. ASSUME NEW b \in Home PROVE Recovered'[b] = cache[b]
    <3>1. CASE absorbed(b)
      <4>1. PICK i \in DOMAIN lh : lh[i] = b
        BY <3>1 DEF absorbed
      <4>2. (CHOOSE j \in DOMAIN lh : lh[j] = b) = i
        BY <4>1 DEF CallInv, Distinct
      <4>3. Recovered'[b] = disk[i]
        BY Zenon, <4>1, <4>2 DEF Recovered
      <4> QED
        BY <1>2, <4>1, <4>3
    <3>2. CASE ~ absorbed(b)
      BY <1>3, <3>2 DEF Recovered, absorbed
    <3> QED
      BY <3>1, <3>2
  <2>2. Recovered' = [b \in Home |-> Recovered'[b]]
    BY DEF Recovered
  <2> QED
    BY <1>1, <2>1, <2>2 DEF Current
<1>7. InstallInv'
  BY <1>1, <1>2 DEF InstallInv
<1>8. CleanInv' /\ WrittenInv' /\ HeadInv'
  BY <1>1 DEF ContentInv, CleanInv, WrittenInv, HeadInv, TransactionFits, absorbed
<1> QED
  BY <1>4, <1>5, <1>6, <1>7, <1>8 DEF ContentInv

\* Installing a block, at commit or in recovery, changes nothing that recovery
\* or a call can see.
LEMMA InstallContent ==
    ASSUME CallInv, ContentInv, TransactionFits, install_trans
    PROVE  ContentInv' /\ UNCHANGED <<Current, Recovered, Active>>
<1> USE DEF install_trans, copyBlock, callVars
<1>1. /\ tail \in Nat /\ tail >= 1 /\ tail <= Len(lh) /\ lh \in Seq(Home) /\ lh = head
      /\ Recovering' = Recovering /\ committing' = committing /\ outstanding = 0
      /\ Recovering = ~ committing
  BY DEF CallInv, PhaseInv, TypeOK, Recovering, ContentInv, InstallInv
<1>2. \A i \in DOMAIN lh : i \notin Home /\ i \in DataBlocks /\ i \in Nat /\ lh[i] \in Home
  <2>1. ASSUME NEW i \in DOMAIN lh PROVE i \notin Home /\ i \in DataBlocks /\ i \in Nat /\ lh[i] \in Home
    <3>1. i \in Nat /\ i >= 1 /\ i <= nlog - 1
      BY <1>1, LogAssumption DEF TransactionFits
    <3> QED
      BY <1>1, <3>1, LogNotHome
  <2> QED
    BY <2>1
<1>3. tail \in DOMAIN lh /\ cache[tail] = disk[tail]
  BY <1>1 DEF ContentInv, InstallInv
<1>4. /\ cache'[lh[tail]] = disk[tail] /\ disk'[lh[tail]] = disk[tail]
      /\ \A b \in DataBlocks \ {lh[tail]} : cache'[b] = cache[b] /\ disk'[b] = disk[b]
  BY <1>2, <1>3, HomeOnDisk DEF CallInv, TypeOK
<1>5. \A i \in DOMAIN lh : cache'[i] = cache[i] /\ disk'[i] = disk[i]
  BY <1>2, <1>3, <1>4
<1>6. UNCHANGED Recovered
  <2>1. ASSUME NEW b \in Home PROVE Recovered'[b] = Recovered[b]
    <3>1. CASE \E i \in DOMAIN head : head[i] = b
      <4>1. (CHOOSE i \in DOMAIN head : head[i] = b) \in DOMAIN lh
        BY <1>1, <3>1
      <4> QED
        BY Zenon, <1>5, <3>1, <4>1 DEF Recovered
    <3>2. CASE ~ \E i \in DOMAIN head : head[i] = b
      <4>1. b # lh[tail] /\ b \in DataBlocks
        BY <1>1, <1>3, <3>2, HomeOnDisk
      <4> QED
        BY <1>4, <3>2, <4>1 DEF Recovered
    <3> QED
      BY <3>1, <3>2
  <2>2. Recovered' = [b \in Home |-> Recovered'[b]] /\ Recovered = [b \in Home |-> Recovered[b]]
    BY DEF Recovered
  <2> QED
    BY <2>1, <2>2
<1>7. committing => \A b \in Home : cache'[b] = cache[b]
  <2>1. committing => cache[lh[tail]] = disk[tail]
    BY <1>3 DEF ContentInv, InstallInv
  <2> QED
    BY <1>4, <2>1, HomeOnDisk
<1>8. UNCHANGED <<Current, Active>>
  BY Zenon, <1>1, <1>6, <1>7 DEF Current, Active
<1>9. CleanInv'
  <2>1. CASE Recovering
    <3>1. cache = disk
      BY <2>1 DEF ContentInv, CleanInv
    <3>2. cache' = disk'
      BY <3>1
    <3> QED
      BY Zenon, <1>1, <2>1, <3>2 DEF CleanInv
  <2>2. CASE ~ Recovering
    <3>1. ASSUME NEW b \in Home, ~ absorbed(b), \A p \in Callers : buf[p] # b
          PROVE  cache'[b] = disk'[b]
      <4>1. cache[b] = disk[b]
        BY <2>2, <3>1 DEF ContentInv, CleanInv
      <4>2. b # lh[tail] /\ b \in DataBlocks
        BY <1>3, <3>1, HomeOnDisk DEF absorbed
      <4> QED
        BY <1>4, <4>1, <4>2
    <3> QED
      BY <1>1, <2>2, <3>1 DEF CleanInv, absorbed
  <2> QED
    BY <2>1, <2>2
<1>10. InstallInv'
  <2>1. \A i \in DOMAIN lh : cache'[i] = disk'[i]
    BY <1>5 DEF ContentInv, InstallInv
  <2>2. ASSUME NEW i \in 1 .. tail PROVE disk'[lh[i]] = disk'[i]
    <3>1. i \in DOMAIN lh /\ lh[i] \in DataBlocks /\ disk'[i] = disk[i]
      <4>1. i \in DOMAIN lh
        BY <1>1
      <4> QED
        BY <1>2, <1>5, <4>1, HomeOnDisk
    <3>2. CASE i = tail
      BY <1>4, <3>1, <3>2
    <3>3. CASE i # tail
      <4>1. i \in 1 .. tail - 1
        BY <1>1, <3>3
      <4>2. disk[lh[i]] = disk[i]
        BY <4>1 DEF ContentInv, InstallInv
      <4>3. lh[i] # lh[tail]
        BY <1>3, <3>1, <3>3 DEF CallInv, Distinct
      <4> QED
        BY <1>4, <3>1, <4>2, <4>3
    <3> QED
      BY <3>2, <3>3
  <2>3. committing => \A i \in DOMAIN lh : cache'[lh[i]] = disk'[i]
    BY <1>2, <1>5, <1>7 DEF ContentInv, InstallInv
  <2> QED
    BY <1>1, <2>1, <2>2, <2>3 DEF InstallInv
<1>11. WrittenInv' /\ HeadInv'
  BY DEF ContentInv, WrittenInv, HeadInv
<1> QED
  BY <1>6, <1>8, <1>9, <1>10, <1>11 DEF ContentInv

\* Erasing the header after the installation changes nothing that recovery or
\* a call can see; after a recovery the calls see the recovered disk.
LEMMA EraseContent ==
    ASSUME CallInv, ContentInv, erase
    PROVE  ContentInv' /\ UNCHANGED <<Current, Recovered, Active>>
<1> USE DEF erase, callVars
<1>1. /\ lh \in Seq(Home) /\ tail = Len(lh) + 1 /\ lh = head /\ outstanding = 0
      /\ ~ Recovering' /\ Recovering = ~ committing
  BY DEF CallInv, PhaseInv, TypeOK, Recovering, ContentInv, InstallInv
<1>2. \A i \in DOMAIN head : disk[head[i]] = disk[i]
  <2>1. DOMAIN lh = 1 .. tail - 1
    BY <1>1
  <2> QED
    BY <1>1, <2>1 DEF ContentInv, InstallInv
<1>3. Recovered' = [b \in Home |-> disk[b]]
  BY RecoveredEmpty DEF Recovered
<1>4. UNCHANGED Recovered
  <2>1. ASSUME NEW b \in Home PROVE Recovered[b] = disk[b]
    BY <1>2, RecoveredBlock
  <2>2. Recovered = [b \in Home |-> Recovered[b]]
    BY DEF Recovered
  <2> QED
    BY <1>3, <2>1, <2>2
<1>5. \A b \in Home : cache[b] = disk[b]
  <2>1. CASE Recovering
    BY <2>1 DEF ContentInv, CleanInv
  <2>2. CASE ~ Recovering
    <3>1. ASSUME NEW b \in Home PROVE cache[b] = disk[b]
      <4>1. CASE absorbed(b)
        <5>1. PICK i \in DOMAIN lh : lh[i] = b
          BY <4>1 DEF absorbed
        <5>2. cache[b] = disk[i]
          BY Zenon, <1>1, <2>2, <5>1 DEF ContentInv, InstallInv
        <5> QED
          BY <1>1, <1>2, <5>1, <5>2
      <4>2. CASE ~ absorbed(b)
        <5>1. b # 0
          BY LogAssumption DEF Home
        <5> QED
          BY <1>1, <2>2, <4>2, <5>1, NoBuffer DEF ContentInv, CleanInv
      <4> QED
        BY <4>1, <4>2
    <3> QED
      BY <3>1
  <2> QED
    BY <2>1, <2>2
<1>6. UNCHANGED <<Current, Active>>
  BY <1>1, <1>3, <1>4, <1>5 DEF Current, Active
<1>7. CleanInv'
  BY <1>1, <1>5 DEF CleanInv
<1>8. WrittenInv' /\ InstallInv' /\ HeadInv'
  BY SMTT(30), LogAssumption DEF WrittenInv, InstallInv, HeadInv
<1> QED
  BY <1>4, <1>6, <1>7, <1>8 DEF ContentInv

\* A crash goes back to what recovery restores.
LEMMA CrashContent ==
    ASSUME CallInv, ContentInv, crash
    PROVE  ContentInv' /\ Atomic!Crash
<1> USE DEF crash, diskVars
<1>1. Recovering' /\ Active' = {}
  BY DEF Recovering, Active, InCall
<1>2. UNCHANGED Recovered
  BY DEF Recovered
<1>3. ContentInv'
  BY <1>1 DEF ContentInv, CleanInv, WrittenInv, InstallInv, HeadInv
<1> QED
  BY <1>1, <1>2, <1>3 DEF Atomic!Crash, Current

\* begin_op starts a call, or changes nothing that recovery or a call can see.
LEMMA BeginContent ==
    ASSUME CallInv, ContentInv, NEW p \in Callers, begin_op(p)
    PROVE  ContentInv' /\ (Atomic!Begin(p) \/ UNCHANGED <<Current, Recovered, Active>>)
<1> USE DEF begin_op, diskVars, commitVars
<1>1. ~ Recovering /\ ~ Recovering'
  BY DEF Recovering
<1>2. ContentInv'
  BY <1>1 DEF ContentInv, CleanInv, WrittenInv, InstallInv, HeadInv, absorbed
<1>3. UNCHANGED <<Current, Recovered>>
  BY <1>1 DEF Current, Recovered
<1>4. CASE committing \/ NoRoom
  <2>1. UNCHANGED Active
    BY <1>4 DEF Active, InCall, CallInv, TypeOK
  <2> QED
    BY <1>2, <1>3, <2>1
<1>5. CASE ~ (committing \/ NoRoom)
  <2>1. p \notin Active /\ Active' = Active \cup {p}
    BY <1>5 DEF Active, InCall, CallInv, TypeOK
  <2> QED
    BY <1>2, <1>3, <2>1 DEF Atomic!Begin
<1> QED
  BY <1>4, <1>5

\* end_op ends a call; nothing is lost between it and the commit.
LEMMA EndContent ==
    ASSUME CallInv, ContentInv, NEW p \in Callers, end_op(p)
    PROVE  ContentInv' /\ Atomic!End(p)
<1>0. /\ pc[p] = "op" /\ UNCHANGED <<disk, head, cache, lh, buf>>
  BY DEF end_op, diskVars
<1>1. ~ committing /\ phase = "idle" /\ ~ Recovering
  BY <1>0, CallerAlone DEF InCall, CallInv
<1>2. /\ ~ Recovering' /\ p \in Active /\ Active' = Active \ {p}
      /\ phase' # "install_trans" /\ phase' # "read_head"
      /\ phase' = "write_log" => tail' = 1
  <2>1. CASE outstanding = 1
    BY <1>0, <1>1, <2>1 DEF end_op, Recovering, Active, InCall, CallInv, TypeOK
  <2>2. CASE outstanding # 1
    <3>1. wakeup(p, "idle") /\ UNCHANGED <<committing, phase, tail>>
      BY <1>1, <2>2 DEF end_op, commitVars
    <3>2. /\ pc'[p] = "idle"
          /\ \A q \in Callers \ {p} :
                pc'[q] = pc[q] \/ (pc[q] = "asleep" /\ pc'[q] = "begin_op")
      BY <1>0, <3>1, WakeupEffect DEF CallInv
    <3>3. p \in Active /\ Active' = Active \ {p}
      BY <1>0, <3>2 DEF Active, InCall
    <3> QED
      BY <1>1, <3>1, <3>3 DEF Recovering
  <2> QED
    BY <2>1, <2>2
<1>3. UNCHANGED <<Current, Recovered>>
  BY <1>0, <1>1, <1>2 DEF Current, Recovered
<1>4. CleanInv'
  BY <1>0, <1>1, <1>2 DEF ContentInv, CleanInv, absorbed
<1>5. WrittenInv' /\ InstallInv' /\ HeadInv'
  BY SMTT(30), <1>0, <1>1, <1>2 DEF ContentInv, WrittenInv, InstallInv, HeadInv
<1> QED
  BY <1>2, <1>3, <1>4, <1>5 DEF ContentInv, Atomic!End

\* The change of a buffer before log_write is a write of the atomic disk.
LEMMA CheckContent ==
    ASSUME CallInv, ContentInv, NEW p \in Callers, NEW b \in Home, NEW v \in Values,
           log_writeCheck(p, b, v)
    PROVE  ContentInv' /\ Atomic!Write(p, b, v)
<1> USE DEF log_writeCheck, diskVars, commitVars
<1>1. ~ committing /\ phase = "idle" /\ ~ Recovering /\ ~ Recovering'
  BY CallerAlone DEF InCall, CallInv, Recovering
<1>2. p \in Active /\ UNCHANGED <<Active, Recovered>>
  BY DEF Active, InCall, CallInv, TypeOK, Recovered
<1>3. Current' = [Current EXCEPT ![b] = v]
  BY Zenon, <1>1, HomeOnDisk DEF Current, CallInv, TypeOK
<1>4. CleanInv'
  <2>1. ASSUME NEW d \in Home, ~ absorbed(d), \A q \in Callers : buf'[q] # d
        PROVE  cache'[d] = disk'[d]
    <3>1. d # b /\ \A q \in Callers : buf[q] # d
      <4>1. buf[p] = 0 /\ d # 0
        BY SMTT(30), LogAssumption DEF CallInv, BufInv, Home
      <4> QED
        BY <2>1, <4>1 DEF CallInv, TypeOK
    <3> QED
      BY SMTT(30), <1>1, <2>1, <3>1 DEF ContentInv, CleanInv, CallInv, TypeOK
  <2> QED
    BY <1>1, <2>1 DEF CleanInv, absorbed
<1>5. WrittenInv' /\ InstallInv' /\ HeadInv'
  BY <1>1 DEF ContentInv, WrittenInv, InstallInv, HeadInv
<1> QED
  BY Zenon, <1>2, <1>3, <1>4, <1>5 DEF ContentInv, Atomic!Write

\* Recording the block in the log changes nothing that recovery or a call can
\* see.
LEMMA LogWriteContent ==
    ASSUME CallInv, ContentInv, NEW p \in Callers, log_write(p)
    PROVE  ContentInv' /\ UNCHANGED <<Current, Recovered, Active>>
<1> USE DEF log_write, diskVars, commitVars
<1>1. ~ committing /\ phase = "idle" /\ ~ Recovering /\ ~ Recovering'
  BY CallerAlone DEF InCall, CallInv, Recovering
<1>2. UNCHANGED <<Current, Recovered, Active>>
  BY <1>1 DEF Current, Recovered, Active, InCall, CallInv, TypeOK
<1>3. lh \in Seq(Home) /\ buf[p] \in Home
  BY DEF CallInv, TypeOK, BufInv
<1> DEFINE InLog(b) == \E i \in DOMAIN lh' : lh'[i] = b
<1>4. InLog(buf[p]) /\ \A b \in Home : absorbed(b) => InLog(b)
  <2>1. CASE absorbed(buf[p])
    BY <2>1 DEF absorbed
  <2>2. CASE ~ absorbed(buf[p])
    <3>1. lh' = Append(lh, buf[p])
      BY <2>2
    <3>2. /\ Len(lh) + 1 \in DOMAIN lh' /\ lh'[Len(lh) + 1] = buf[p]
          /\ \A i \in DOMAIN lh : i \in DOMAIN lh' /\ lh'[i] = lh[i]
      BY <1>3, <3>1
    <3> QED
      BY <3>2 DEF absorbed
  <2> QED
    BY <2>1, <2>2
<1>5. CleanInv'
  <2>1. ASSUME NEW d \in Home, ~ InLog(d), \A q \in Callers : buf'[q] # d
        PROVE  cache'[d] = disk'[d]
    <3>1. ~ absorbed(d) /\ d # buf[p]
      BY <1>4, <2>1
    <3>2. \A q \in Callers : buf[q] # d
      BY <2>1, <3>1 DEF CallInv, TypeOK
    <3> QED
      BY <1>1, <3>1, <3>2 DEF ContentInv, CleanInv
  <2> QED
    BY <1>1, <2>1 DEF CleanInv, absorbed
<1>6. WrittenInv' /\ InstallInv' /\ HeadInv'
  BY <1>1 DEF ContentInv, WrittenInv, InstallInv, HeadInv
<1> QED
  BY <1>2, <1>5, <1>6 DEF ContentInv

\* The end of the commit changes nothing that recovery or a call can see.
LEMMA CommitDoneContent ==
    ASSUME CallInv, ContentInv, NEW p \in Callers, commitDone(p)
    PROVE  ContentInv' /\ UNCHANGED <<Current, Recovered, Active>>
<1>1. /\ pc[p] = "commit" /\ phase = "done" /\ phase' = "idle" /\ ~ committing'
      /\ wakeup(p, "idle") /\ UNCHANGED <<disk, head, cache, lh, buf>>
  BY DEF commitDone, diskVars
<1>2. ~ Recovering /\ ~ Recovering'
  BY <1>1 DEF CallInv, PhaseInv, Recovering
<1>3. /\ pc'[p] = "idle"
      /\ \A q \in Callers \ {p} :
            pc'[q] = pc[q] \/ (pc[q] = "asleep" /\ pc'[q] = "begin_op")
  BY <1>1, WakeupEffect DEF CallInv
<1>4. UNCHANGED Active
  BY <1>1, <1>3 DEF Active, InCall
<1>5. UNCHANGED <<Current, Recovered>>
  BY <1>1, <1>2 DEF Current, Recovered
<1>6. CleanInv' /\ WrittenInv' /\ InstallInv' /\ HeadInv'
  BY <1>1, <1>2 DEF ContentInv, CleanInv, WrittenInv, InstallInv, HeadInv, absorbed
<1> QED
  BY <1>4, <1>5, <1>6 DEF ContentInv

\* Every step of a log whose transaction fits keeps ContentInv and is a step
\* of the atomic disk or changes nothing there.
LEMMA NextContent ==
    CallInv /\ ContentInv /\ TransactionFits /\ [Next]_vars
        => ContentInv' /\ [Atomic!Next]_(Atomic!vars)
<1> SUFFICES ASSUME CallInv, ContentInv, TransactionFits, [Next]_vars
             PROVE  ContentInv' /\ [Atomic!Next]_(Atomic!vars)
  OBVIOUS
<1> USE DEF Atomic!vars
<1>1. CASE UNCHANGED vars
  <2>1. UNCHANGED <<Current, Recovered, Active>>
    BY <1>1 DEF vars, Current, Recovered, Active, Recovering
  <2>2. CleanInv' /\ WrittenInv' /\ InstallInv' /\ HeadInv'
    BY <1>1 DEF vars, ContentInv, CleanInv, WrittenInv, InstallInv, HeadInv, absorbed, Recovering
  <2> QED
    BY <2>1, <2>2 DEF ContentInv
<1>2. CASE read_head
  BY <1>2, ReadHeadContent
<1>3. CASE write_log
  BY <1>3, WriteLogContent
<1>4. CASE write_head
  BY <1>4, WriteHeadContent DEF Atomic!Next, Atomic!Commit
<1>5. CASE install_trans
  BY <1>5, InstallContent
<1>6. CASE erase
  BY <1>6, EraseContent
<1>7. CASE crash
  BY <1>7, CrashContent DEF Atomic!Next
<1>8. ASSUME NEW p \in Callers, begin_op(p)
      PROVE  ContentInv' /\ [Atomic!Next]_(Atomic!vars)
  BY <1>8, BeginContent DEF Atomic!Next
<1>9. ASSUME NEW p \in Callers, end_op(p)
      PROVE  ContentInv' /\ [Atomic!Next]_(Atomic!vars)
  BY <1>9, EndContent DEF Atomic!Next
<1>10. ASSUME NEW p \in Callers, NEW b \in Home, NEW v \in Values, log_writeCheck(p, b, v)
       PROVE  ContentInv' /\ [Atomic!Next]_(Atomic!vars)
  BY <1>10, CheckContent DEF Atomic!Next
<1>11. ASSUME NEW p \in Callers, log_write(p)
       PROVE  ContentInv' /\ [Atomic!Next]_(Atomic!vars)
  BY <1>11, LogWriteContent
<1>12. ASSUME NEW p \in Callers, commitDone(p)
       PROVE  ContentInv' /\ [Atomic!Next]_(Atomic!vars)
  BY <1>12, CommitDoneContent
<1> QED
  BY <1>1, <1>2, <1>3, <1>4, <1>5, <1>6, <1>7, <1>8, <1>9, <1>10, <1>11, <1>12 DEF Next

\* As long as transactions fit into the log, ContentInv holds.
LEMMA ContentInvariant == Spec /\ []TransactionFits => []ContentInv
<1>1. Init => ContentInv
  BY InitContent
<1>2. CallInv /\ ContentInv /\ TransactionFits /\ [Next]_vars => ContentInv'
  BY NextContent
<1> QED
  BY <1>1, <1>2, CallInvariant, PTL DEF Spec

\* As long as transactions fit into the log, log.c implements an atomic disk:
\* file system calls take effect in groups, whatever the interleaving of calls
\* and wherever crashes fall, also during recovery.
THEOREM LogIsAtomic == Spec /\ []TransactionFits => AtomicSpec
<1>1. Init => Atomic!Init
  BY InitContent
<1>2. CallInv /\ ContentInv /\ TransactionFits /\ [Next]_vars => [Atomic!Next]_(Atomic!vars)
  BY NextContent
<1> QED
  BY <1>1, <1>2, CallInvariant, ContentInvariant, PTL DEF Spec, AtomicSpec, Atomic!Spec

\* As long as transactions fit into the log, nothing is lost by a crash while
\* no call is in progress: end_op returns from the last one when all is on the
\* disk.
THEOREM QuietIsDurable == Spec /\ []TransactionFits => []DurableWhenQuiet
<1>1. CallInv /\ ContentInv => DurableWhenQuiet
  <2> SUFFICES ASSUME CallInv, ContentInv, ~ Recovering, ~ committing, outstanding = 0
               PROVE  Recovered = Current
    BY DEF DurableWhenQuiet
  <2>1. phase = "idle" /\ lh = <<>> /\ head = <<>>
    BY DEF Recovering, CallInv, PhaseInv, ContentInv, HeadInv
  <2>2. \A b \in Home : b # 0 /\ ~ absorbed(b)
    BY <2>1, LogAssumption DEF Home, absorbed
  <2>3. \A b \in Home : cache[b] = disk[b]
    BY <2>2, NoBuffer DEF ContentInv, CleanInv
  <2> QED
    BY <2>1, <2>3, RecoveredEmpty DEF Current
<1> QED
  BY <1>1, CallInvariant, ContentInvariant, PTL
=============================================================================
