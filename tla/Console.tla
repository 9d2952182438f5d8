------------------------------ MODULE Console ------------------------------
(***************************************************************************)
(* Console input (console.c): the ring that the keyboard and the serial    *)
(* line fill and programs read.                                            *)
(***************************************************************************)
EXTENDS Integers, Sequences, SequencesExt

CONSTANTS INPUT_BUF,
          WRAP,     \* where r, w and e wrap; 2^32 in the code
          Typed     \* what the user may type: sequences of keys

ASSUME ConsoleAssumption ==
    INPUT_BUF \in Nat \ {0} /\ WRAP \in Nat \ {0, INPUT_BUF} /\ WRAP % INPUT_BUF = 0

Listings == {"^P", "^R", "^F", "^S", "^Z"}
Chars == (UNION {Range(s) : s \in Typed} \cup {"\n", "^D"}) \ (Listings \cup {"^U", "^H", "\r"})

VARIABLES keys,           \* what is still to be typed
          ring, r, w, e,  \* input.buf and its indices, which count on and wrap
          asleep          \* processes asleep on input.r

consoleVars == <<keys, ring, r, w, e, asleep>>

consoleInit ==
    /\ keys \in Typed
    /\ ring = [k \in 0 .. INPUT_BUF - 1 |-> "NUL"] /\ r = 0 /\ w = 0 /\ e = 0
    /\ asleep = {}

plus(i, n) == (i + n) % WRAP

\* The characters from index i to index j.
between(i, j) == [k \in 1 .. (j - i) % WRAP |-> ring[plus(i, k - 1) % INPUT_BUF]]

\* wakeup(&input.r): this kernel's wakeup1 stops at the first sleeper.
wakeup ==
    \/ asleep = {} /\ asleep' = {}
    \/ \E p \in asleep : asleep' = asleep \ {p}

\* Kill line: back to the last newline, or to w.
killed(i) ==
    LET line == between(w, i)
        n == SelectLastInSeq(line, LAMBDA c : c = "\n")
    IN  plus(w, n)

\* Mutant: an index that has wrapped is compared as if it had not.
full_NoWrap(i) == i >= r + INPUT_BUF

\* input.e - input.r has reached INPUT_BUF.
full(i) == (i - r) % WRAP >= INPUT_BUF

\* One round of consoleintr's loop.
consoleintr ==
    LET key == Head(keys)
        c == IF key = "\r" THEN "\n" ELSE key
        e1 == plus(e, 1)
    IN  /\ keys # <<>> /\ keys' = Tail(keys)
        /\ CASE key \in Listings -> UNCHANGED <<ring, r, w, e, asleep>>
             [] key = "^U" -> e' = killed(e) /\ UNCHANGED <<ring, r, w, asleep>>
             [] key = "^H" -> e' = (IF e = w THEN e ELSE plus(e, WRAP - 1)) /\ UNCHANGED <<ring, r, w, asleep>>
             [] key \notin Listings \cup {"^U", "^H"} ->
                IF full(e) THEN UNCHANGED <<ring, r, w, e, asleep>>
                ELSE /\ ring' = [ring EXCEPT ![e % INPUT_BUF] = c] /\ e' = e1
                     /\ IF c \in {"\n", "^D"} \/ full(e1) THEN w' = e1 /\ wakeup ELSE UNCHANGED <<w, asleep>>
                     /\ UNCHANGED r

\* What consoleread takes of the ring when n characters are still wanted: up to a
\* newline or a ^D, or all there is.
takes(n) ==
    LET s == between(r, w)
        stop == SelectInSeq(s, LAMBDA c : c \in {"\n", "^D"})
    IN  SubSeq(s, 1, IF stop # 0 /\ stop <= n THEN stop ELSE IF n < Len(s) THEN n ELSE Len(s))

\* A ^D after other input stays for the next call, which then returns nothing.
left(s, got) == plus(r, IF Last(s) = "^D" /\ got + Len(s) > 1 THEN Len(s) - 1 ELSE Len(s))

consoleSleep(p) ==
    /\ p \notin asleep /\ r = w
    /\ asleep' = asleep \cup {p}
    /\ UNCHANGED <<keys, ring, r, w, e>>

\* consoleread of p, which has got some characters and wants n more: s is what it takes now.
consoleread(p, n, got, s) ==
    /\ p \notin asleep /\ r # w /\ s = takes(n)
    /\ r' = left(s, got)
    /\ UNCHANGED <<keys, ring, w, e, asleep>>

\* The call returns: it has what it wanted, or a line or a ^D ended it.
finished(n, s) == Last(s) \in {"\n", "^D"} \/ Len(s) = n

\* The characters of s that get to the program.
text(s) == SelectSeq(s, LAMBDA c : c # "^D")

\* Reading and typing at any time give programs the lines as they were edited, in
\* order: the ring and its three indices implement the queue and the edited line.
Editor == INSTANCE LineInput WITH ready <- between(r, w), editing <- between(w, e),
                                 Finishers <- {"\n", "^D"}
LineInputSpec == Editor!Spec
=============================================================================
