------------------------------ MODULE Contents ------------------------------
(***************************************************************************)
(* What the file system promises of the bytes of a file: an array that     *)
(* grows at its end, read and written at the offsets of open files.        *)
(* Nothing but a write to a file, or its removal, changes it, and a read   *)
(* gives the bytes that are there.  The root is changed entry by entry.    *)
(***************************************************************************)
EXTENDS Integers, Sequences

CONSTANTS Procs, Inodes, Files, root, Values, Counts, Bytes, Limit, none
VARIABLES contents,
          ip, off,  \* open files
          answer    \* what a process is about to return from a read

vars == <<contents, ip, off, answer>>

NoAnswer == [f |-> none, bytes |-> <<>>]

Init == /\ \A i \in Inodes : contents[i] \in Seq(Bytes) /\ Len(contents[i]) <= Limit
        /\ ip = [f \in Files |-> none] /\ off = [f \in Files |-> 0]
        /\ answer = [p \in Procs |-> NoAnswer]

smaller(m, n) == IF m < n THEN m ELSE n
larger(m, n) == IF m > n THEN m ELSE n

\* The bytes s after those from o up to e have become v.  There is no gap before them.
written(s, o, e, v) == [k \in 1 .. larger(Len(s), e) |-> IF o < k /\ k <= e THEN v ELSE s[k]]

Open(f, i) == /\ ip[f] = none /\ ip' = [ip EXCEPT ![f] = i] /\ off' = [off EXCEPT ![f] = 0]
              /\ UNCHANGED <<contents, answer>>

Close(f) == /\ ip[f] # none /\ ip' = [ip EXCEPT ![f] = none] /\ off' = [off EXCEPT ![f] = 0]
            /\ UNCHANGED <<contents, answer>>

Read(p, f, n) ==
    /\ answer[p] = NoAnswer /\ answer'[p].f = f /\ ip[f] # none
    /\ LET s == contents[ip[f]]
       IN  /\ off[f] < Len(s)
           /\ answer'[p].bytes = SubSeq(s, off[f] + 1, smaller(off[f] + n, Len(s)))
    /\ \A q \in Procs \ {p} : answer'[q] = answer[q]
    /\ UNCHANGED <<ip, off, contents>>

Return(p) ==
    /\ answer[p] # NoAnswer
    /\ off' = [off EXCEPT ![answer[p].f] = @ + Len(answer[p].bytes)]
    /\ answer' = [answer EXCEPT ![p] = NoAnswer]
    /\ UNCHANGED <<contents, ip>>

\* The bytes from the offset up to e become v.
Write(f, e, v) ==
    /\ ip[f] \notin {none, root} /\ off[f] < e /\ off[f] <= Len(contents[ip[f]])
    /\ contents' = [contents EXCEPT ![ip[f]] = written(@, off[f], e, v)]

\* The last bytes of a write move the offset, and they alone make the file grow.
WriteLast(f, e) ==
    /\ UNCHANGED <<ip, answer>> /\ off' = [off EXCEPT ![f] = e]
    /\ \E v \in Values : Write(f, e, v)

WritePart(f, e) == e <= Len(contents[ip[f]]) /\ \E v \in Values : Write(f, e, v)

\* An entry of the directory is made or cleared.
Enter(k, v) ==
    /\ k <= Len(contents[root])
    /\ contents' = [contents EXCEPT ![root] = written(@, k, k + 1, v)]

Remove(i) == /\ i # root /\ \A f \in Files : ip[f] # i
             /\ contents' = [contents EXCEPT ![i] = <<>>]

\* Bytes change and no offset moves.
Change ==
    /\ UNCHANGED <<ip, off, answer>> /\ contents' # contents
    /\ \/ \E i \in Inodes : Remove(i)
       \/ \E f \in Files : ip[f] # none /\ \E e \in 1 .. Limit : WritePart(f, e)
       \/ \E k \in 0 .. Limit - 1, v \in {0, 1} : Enter(k, v)

Next ==
    \/ \E f \in Files : \/ Close(f) \/ \E i \in Inodes : Open(f, i)
                        \/ \E e \in 1 .. Limit : WriteLast(f, e)
    \/ \E p \in Procs : Return(p) \/ \E f \in Files, n \in Counts : Read(p, f, n)
    \/ Change

Spec == Init /\ [][Next]_vars
=============================================================================
