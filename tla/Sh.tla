--------------------------------- MODULE Sh ---------------------------------
(***************************************************************************)
(* The shell's parser (sh.c), and the grammar that it is meant to parse.   *)
(*                                                                         *)
(* A line is a sequence of characters: "a" stands for every character that *)
(* is neither white space nor a symbol.  A word is the pair of positions   *)
(* <<q, eq>> the shell keeps for it.  panic ends the process, so a parser  *)
(* that meets one returns Panic, and so do those that have called it.      *)
(***************************************************************************)
EXTENDS Integers, Sequences, FiniteSets, SequencesExt

CONSTANT MAXARGS

ASSUME MaxArgsAssumption == MAXARGS \in Nat \ {0}

whitespace == {" ", "\n"}
symbols == {"<", "|", ">", "&", ";", "(", ")"}

-----------------------------------------------------------------------------
(***************************************************************************)
(* Tokens.                                                                 *)
(***************************************************************************)
\* The character at i; the string ends with a NUL.
char(s, i) == IF i <= Len(s) THEN s[i] ELSE "NUL"

\* The first position from i on without white space, and the end of a word at i.
skip(s, i) == CHOOSE j \in i .. Len(s) + 1 :
    char(s, j) \notin whitespace /\ \A k \in i .. j - 1 : char(s, k) \in whitespace
wordEnd(s, i) == CHOOSE j \in i .. Len(s) + 1 :
    /\ char(s, j) \in whitespace \cup symbols \cup {"NUL"}
    /\ \A k \in i .. j - 1 : char(s, k) \notin whitespace \cup symbols

\* The kind of a token that begins with c before d: "" at the end, "a" for a word.
kind(c, d) ==
    IF c = ">" /\ d = ">" THEN "+" ELSE IF c \in symbols THEN c ELSE IF c = "NUL" THEN "" ELSE "a"

tokenEnd(s, q, tok) ==
    CASE tok = "" -> q [] tok = "+" -> q + 2 [] tok = "a" -> wordEnd(s, q) [] OTHER -> q + 1
token(s, q, tok) == [tok |-> tok, q |-> q, eq |-> tokenEnd(s, q, tok)]
tokenAt(s, q) == token(s, q, kind(char(s, q), char(s, q + 1)))

\* The token at i: its kind, where it begins and where it ends.
gettoken(s, i) == tokenAt(s, skip(s, i))

peek(s, i, toks) == char(s, skip(s, i)) \in toks

-----------------------------------------------------------------------------
(***************************************************************************)
(* Commands.                                                               *)
(***************************************************************************)
Panic == [cmd |-> [type |-> "panic"], i |-> 0]
panics(r) == r.cmd.type = "panic"

execcmd(argv) == [type |-> "EXEC", argv |-> argv]
redircmd(cmd, r) == [type |-> "REDIR", cmd |-> cmd, file |-> r.file, fd |-> r.fd]
pipecmd(left, right) == [type |-> "PIPE", left |-> left, right |-> right]
listcmd(left, right) == [type |-> "LIST", left |-> left, right |-> right]
backcmd(cmd) == [type |-> "BACK", cmd |-> cmd]

\* The redirections around a command, the first one inmost.
redirect(cmd, rs) == FoldLeft(redircmd, cmd, rs)

-----------------------------------------------------------------------------
(***************************************************************************)
(* The parser.                                                             *)
(***************************************************************************)
RECURSIVE parseline(_, _), parsepipe(_, _), parseredirs(_, _, _), arguments(_, _, _, _), backs(_, _)

\* One redirection: op and the file after it.
redir(s, op, file, rs) ==
    IF file.tok # "a" THEN [ok |-> FALSE, rs |-> <<>>, i |-> 0]
    ELSE parseredirs(s, file.eq,
            Append(rs, [file |-> <<file.q, file.eq>>, fd |-> IF op.tok = "<" THEN 0 ELSE 1]))
redirFrom(s, op, rs) == redir(s, op, gettoken(s, op.eq), rs)

\* The redirections from i on, after those of rs.
parseredirs(s, i, rs) ==
    IF peek(s, i, {"<", ">"}) THEN redirFrom(s, gettoken(s, i), rs)
    ELSE [ok |-> TRUE, rs |-> rs, i |-> i]

closed(cmd, redirs) ==
    IF redirs.ok THEN [cmd |-> redirect(cmd, redirs.rs), i |-> redirs.i] ELSE Panic
closeBlock(s, line) ==
    IF panics(line) \/ ~ peek(s, line.i, {")"}) THEN Panic
    ELSE closed(line.cmd, parseredirs(s, gettoken(s, line.i).eq, <<>>))
parseblock(s, i) == closeBlock(s, parseline(s, gettoken(s, i).eq))

\* The loop of parseexec: argv and rs are what has been parsed of the command.
moreArguments(s, argv, redirs) ==
    IF redirs.ok THEN arguments(s, redirs.i, argv, redirs.rs) ELSE Panic
argument(s, t, argv, rs) ==
    CASE t.tok = "" -> [cmd |-> redirect(execcmd(argv), rs), i |-> t.q]
      [] t.tok = "a" /\ Len(argv) + 1 < MAXARGS ->
            moreArguments(s, Append(argv, <<t.q, t.eq>>), parseredirs(s, t.eq, rs))
      [] OTHER -> Panic
arguments(s, i, argv, rs) ==
    IF peek(s, i, {"|", ")", "&", ";"}) THEN [cmd |-> redirect(execcmd(argv), rs), i |-> i]
    ELSE argument(s, gettoken(s, i), argv, rs)

parseexec(s, i) ==
    IF peek(s, i, {"("}) THEN parseblock(s, i)
    ELSE moreArguments(s, <<>>, parseredirs(s, i, <<>>))

joined(cons(_, _), left, right) ==
    IF panics(right) THEN Panic ELSE [cmd |-> cons(left.cmd, right.cmd), i |-> right.i]

\* Mutant: a pipeline has two commands at most.
pipeTail_Two(s, left) ==
    IF panics(left) \/ ~ peek(s, left.i, {"|"}) THEN left
    ELSE joined(pipecmd, left, parseexec(s, gettoken(s, left.i).eq))

pipeTail(s, left) ==
    IF panics(left) \/ ~ peek(s, left.i, {"|"}) THEN left
    ELSE joined(pipecmd, left, parsepipe(s, gettoken(s, left.i).eq))
parsepipe(s, i) == pipeTail(s, parseexec(s, i))

\* The loop of parseline: every & makes the command before it a background one.
backs(s, r) ==
    IF panics(r) \/ ~ peek(s, r.i, {"&"}) THEN r
    ELSE backs(s, [cmd |-> backcmd(r.cmd), i |-> gettoken(s, r.i).eq])

lineTail(s, left) ==
    IF panics(left) \/ ~ peek(s, left.i, {";"}) THEN left
    ELSE joined(listcmd, left, parseline(s, gettoken(s, left.i).eq))
parseline(s, i) == lineTail(s, backs(s, parsepipe(s, i)))

RECURSIVE nulterminate(_)
\* The positions where nulterminate puts a NUL.
nulterminate(cmd) ==
    CASE cmd.type = "EXEC" -> {cmd.argv[k][2] : k \in DOMAIN cmd.argv}
      [] cmd.type = "REDIR" -> nulterminate(cmd.cmd) \cup {cmd.file[2]}
      [] cmd.type \in {"PIPE", "LIST"} -> nulterminate(cmd.left) \cup nulterminate(cmd.right)
      [] cmd.type = "BACK" -> nulterminate(cmd.cmd)

\* The command of a line; what is left of the line is a syntax error.
whole(s, r) == IF panics(r) \/ skip(s, r.i) # Len(s) + 1 THEN Panic.cmd ELSE r.cmd
parsecmd(s) == whole(s, parseline(s, 1))

-----------------------------------------------------------------------------
(***************************************************************************)
(* The grammar, on the tokens t of a line.  Each operator gives the trees  *)
(* that a sequence of tokens has as a line, a pipeline or a command:       *)
(*     line ::= pipe | line' "&" | line' ";" line                          *)
(*     pipe ::= exec | exec "|" pipe                                       *)
(*     exec ::= "(" line ")" redir* | (word | redir)*                      *)
(* where line' is a line without ";".                                      *)
(***************************************************************************)
RECURSIVE Tokens(_, _), Lines(_), Pipelines(_), Backs(_)

Tokens(s, i) ==
    IF skip(s, i) = Len(s) + 1 THEN <<>> ELSE <<gettoken(s, i)>> \o Tokens(s, gettoken(s, i).eq)

Where(t, toks) == {k \in DOMAIN t : t[k].tok \in toks}
Before(t, k) == SubSeq(t, 1, k - 1)
After(t, k) == SubSeq(t, k + 1, Len(t))
word(x) == <<x.q, x.eq>>

\* The redirections among tokens, the words after them, and the other words.
Redirs(t) == Where(t, {"<", ">", "+"})
Files(t) == {k + 1 : k \in Redirs(t)}
redirsOf(t) == [n \in 1 .. Cardinality(Redirs(t)) |->
    LET k == SetToSortSeq(Redirs(t), <)[n]
    IN  [file |-> word(t[k + 1]), fd |-> IF t[k].tok = "<" THEN 0 ELSE 1]]
Arguments(t) == DOMAIN t \ (Redirs(t) \cup Files(t))
argvOf(t) == [n \in 1 .. Cardinality(Arguments(t)) |-> word(t[SetToSortSeq(Arguments(t), <)[n]])]

Simple(t) ==
    IF /\ Files(t) \subseteq Where(t, {"a"}) /\ Arguments(t) \subseteq Where(t, {"a"})
       /\ Cardinality(Arguments(t)) < MAXARGS
    THEN {redirect(execcmd(argvOf(t)), redirsOf(t))} ELSE {}

Blocks(t) ==
    UNION {{redirect(c, redirsOf(After(t, k))) : c \in Lines(SubSeq(t, 2, k - 1))} :
        k \in {k \in Where(t, {")"}) : /\ t[1].tok = "("
                                       /\ Files(After(t, k)) \subseteq Where(After(t, k), {"a"})
                                       /\ Arguments(After(t, k)) = {}}}

Commands(t) == Simple(t) \cup Blocks(t)

Pipelines(t) == Commands(t) \cup
    UNION {{pipecmd(l, r) : l \in Commands(Before(t, k)), r \in Pipelines(After(t, k))} :
        k \in Where(t, {"|"})}

Backs(t) == Pipelines(t) \cup
    IF t # <<>> /\ Last(t).tok = "&" THEN {backcmd(c) : c \in Backs(Front(t))} ELSE {}

Lines(t) == Backs(t) \cup
    UNION {{listcmd(l, r) : l \in Backs(Before(t, k)), r \in Lines(After(t, k))} : k \in Where(t, {";"})}

\* nulterminate ends every word where the word ends, and nowhere before.
Terminated(s, t, ends) == \A k \in Where(t, {"a"}) :
    t[k].eq \in ends \cup {Len(s) + 1} /\ ends \cap (t[k].q .. t[k].eq - 1) = {}

\* A line that the grammar has no tree for is refused, and any other one parsed to its
\* only tree.
Agrees(s, t, cmd) ==
    IF cmd.type = "panic" THEN Lines(t) = {} ELSE Lines(t) = {cmd} /\ Terminated(s, t, nulterminate(cmd))
Parsed(s) == Agrees(s, Tokens(s, 1), parsecmd(s))
=============================================================================
