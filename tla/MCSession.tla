----------------------------- MODULE MCSession -----------------------------
(***************************************************************************)
(* Sessions to check: lines with every kind of command, keys that edit,    *)
(* input that fills the ring, and a parser that has to agree with the      *)
(* grammar on every short line.                                            *)
(***************************************************************************)
EXTENDS Session

\* What is typed: a line of every kind, keys that edit, and enough to fill the ring and
\* to make its indices wrap.
Sessions == {
    <<"a", "|", "a", "|", "a", "\n", "^D">>,
    <<"(", "a", ";", "a", ")", "&", "\n", "a", "\n", "^D", "^D">>,
    <<"a", "&", ";", "a", "\n", "a", "^D", "^D">>,
    <<"(", "a", "|", "a", ")", ">", "a", "\n", "a", ")", "\n">>,
    <<"a", "<", "a", "&", "\n", "a", "&", "\n", "a", "\n">>,
    <<"cd ", "a", "^H", "\r", "a", "^U", "^P", "a", " ", "a", "\n", "^D", "\n">>,
    <<"a", "a", "a", "a", "a", "a", "a", "\n", "a", "a", "a", "a", "a", "a", "a", "a", "^H", "\n">>,
    <<"\n", "a", "\n", "^D", "\n", "\n", "a", ";", "\n", "^D", "a", "\n">>
}

Alphabet == {"a", " "} \cup symbols
CONSTANT MaxLine

\* Whatever line of up to MaxLine characters is typed, the shell parses it as the grammar
\* says.  The parser has no state: this is asked before the first key of one session.
ParserIsRight == keys = (CHOOSE s \in Typed : TRUE) /\ asleep = {} =>
    \A n \in 0 .. MaxLine : \A s \in [1 .. n -> Alphabet] : Parsed(s)
=============================================================================
