----------------------------- MODULE AtomicDisk -----------------------------
(***************************************************************************)
(* What the log promises to file system calls: a disk on which a group of  *)
(* calls takes effect as a whole.  cur is what the calls see, durable what *)
(* a crash leaves.  Contents become durable only at a moment at which no   *)
(* call is in progress, and a crash goes back to that moment.              *)
(***************************************************************************)
CONSTANTS Callers, Home, Values

VARIABLES cur, durable, active

vars == <<cur, durable, active>>

Init ==
    /\ cur \in [Home -> Values]
    /\ durable = cur
    /\ active = {}

Begin(p) == /\ p \notin active
            /\ active' = active \cup {p}
            /\ UNCHANGED <<cur, durable>>

Write(p, b, v) == /\ p \in active
                  /\ cur' = [cur EXCEPT ![b] = v]
                  /\ UNCHANGED <<durable, active>>

End(p) == /\ p \in active
          /\ active' = active \ {p}
          /\ UNCHANGED <<cur, durable>>

Commit == /\ active = {}
          /\ durable' = cur
          /\ UNCHANGED <<cur, active>>

Crash == /\ cur' = durable
         /\ active' = {}
         /\ UNCHANGED durable

Next == \/ \E p \in Callers : \/ Begin(p) \/ End(p)
                              \/ \E b \in Home, v \in Values : Write(p, b, v)
        \/ Commit \/ Crash

Spec == Init /\ [][Next]_vars
=============================================================================
