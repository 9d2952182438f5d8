------------------------------ MODULE Session ------------------------------
(***************************************************************************)
(* A session at the console: init (init.c) keeps a shell running, the      *)
(* shell (sh.c) reads lines from the console and runs them, and programs   *)
(* read from the console and from pipes until the end of their input.      *)
(*                                                                         *)
(* What a process has still to do is a sequence of instructions, and each  *)
(* call that others can notice is one of them.  A call that waits is one   *)
(* that is not enabled; sleeping is modelled for the console only (see     *)
(* ProcTable and Pipe for the others).                                     *)
(***************************************************************************)
EXTENDS Sh, Console

CONSTANTS NPROC, NPIPE, NOFILE, PIPESIZE,
          NBUF,     \* size of the shell's line
          BUFSIZE,  \* what cat asks for in one read
          Programs  \* what exec may find: "cat" and "echo"

ASSUME SessionAssumption ==
    /\ {NPROC, NPIPE, NOFILE, PIPESIZE, NBUF, BUFSIZE} \subseteq Nat /\ NPROC >= 2 /\ NOFILE >= 3
    /\ Programs \subseteq {"cat", "echo"}

VARIABLES state,    \* of the processes
          parent,
          todo,     \* the instructions left
          ofile,    \* what the descriptors of a process stand for
          data,     \* bytes in a pipe
          shell,    \* pid in init
          line,     \* buf of the shell
          bg,       \* history: processes that are, or descend from, a background command
          idle,     \* init sleeps in wait
          failed    \* history: a fork or a pipe has failed, or an exit left a child behind

procVars == <<state, parent, todo, ofile, data, shell, line, bg, idle, failed>>
vars == <<procVars, consoleVars>>

Pids == 1 .. NPROC
initproc == 1
Pipes == 1 .. NPIPE
fds == 0 .. NOFILE - 1

Console == <<"console", 0>>
File == <<"file", 0>>
Closed == <<"none", 0>>
readEnd(k) == <<"read", k>>
writeEnd(k) == <<"write", k>>

live(p) == state[p] = "live"
\* Is an end of a pipe open anywhere?
open(x) == \E p \in Pids : live(p) /\ \E f \in fds : ofile[p][f] = x
children(p) == {q \in Pids : state[q] # "unused" /\ parent[q] = p}

\* The shell has opened three descriptors, and waits for its first line.
Stdio == [f \in fds |-> IF f <= 2 THEN Console ELSE Closed]
Sh == <<<<"gets">>>>

Init ==
    /\ consoleInit
    /\ shell = 2
    /\ state = [p \in Pids |-> IF p <= 2 THEN "live" ELSE "unused"]
    /\ parent = [p \in Pids |-> initproc]
    /\ todo = [p \in Pids |-> IF p = 1 THEN <<<<"waitsh">>>> ELSE IF p = 2 THEN Sh ELSE <<>>]
    /\ ofile = [p \in Pids |-> IF p <= 2 THEN Stdio ELSE [f \in fds |-> Closed]]
    /\ data = [k \in Pipes |-> 0]
    /\ line = <<>> /\ bg = {} /\ idle = FALSE /\ failed = FALSE

-----------------------------------------------------------------------------
(***************************************************************************)
(* Instructions.                                                           *)
(***************************************************************************)
at(p, op) == live(initproc) /\ live(p) /\ todo[p] # <<>> /\ Head(todo[p])[1] = op
arg(p, n) == Head(todo[p])[n + 1]

\* The instruction is done, and the process goes on with is and what it had to do.
goOn(p, is) == todo' = [todo EXCEPT ![p] = is \o Tail(@)]

\* What p has to do when its runcmd has c.
runcmd(c) ==
    CASE c.type = "EXEC" -> IF c.argv = <<>> THEN <<<<"exit">>>> ELSE <<<<"exec">>, <<"exit">>>>
      [] c.type = "REDIR" -> <<<<"close", c.fd>>, <<"open">>, <<"run", c.cmd>>>>
      [] c.type = "LIST" -> <<<<"fork", <<<<"run", c.left>>>>, FALSE>>, <<"wait">>, <<"run", c.right>>>>
      [] c.type = "PIPE" -> <<<<"pipe", c.left, c.right>>, <<"exit">>>>
      [] c.type = "BACK" -> <<<<"fork", <<<<"run", c.cmd>>>>, TRUE>>, <<"exit">>>>

\* Mutant: the shell keeps its write end.
piped_KeepEnd(p0, p1, c, d) ==
    <<<<"fork", <<<<"close", 1>>, <<"dup", p1>>, <<"close", p0>>, <<"close", p1>>, <<"run", c>>>>, FALSE>>,
      <<"fork", <<<<"close", 0>>, <<"dup", p0>>, <<"close", p0>>, <<"close", p1>>, <<"run", d>>>>, FALSE>>,
      <<"close", p0>>, <<"wait">>, <<"wait">>>>

\* Mutant: the right side keeps the write end of its own input.
piped_Leak(p0, p1, c, d) ==
    <<<<"fork", <<<<"close", 1>>, <<"dup", p1>>, <<"close", p0>>, <<"close", p1>>, <<"run", c>>>>, FALSE>>,
      <<"fork", <<<<"close", 0>>, <<"dup", p0>>, <<"close", p0>>, <<"run", d>>>>, FALSE>>,
      <<"close", p0>>, <<"close", p1>>, <<"wait">>, <<"wait">>>>

\* Mutant: one wait for two children.
piped_OneWait(p0, p1, c, d) ==
    <<<<"fork", <<<<"close", 1>>, <<"dup", p1>>, <<"close", p0>>, <<"close", p1>>, <<"run", c>>>>, FALSE>>,
      <<"fork", <<<<"close", 0>>, <<"dup", p0>>, <<"close", p0>>, <<"close", p1>>, <<"run", d>>>>, FALSE>>,
      <<"close", p0>>, <<"close", p1>>, <<"wait">>>>

\* What follows pipe(p) in runcmd.
piped(p0, p1, c, d) ==
    <<<<"fork", <<<<"close", 1>>, <<"dup", p1>>, <<"close", p0>>, <<"close", p1>>, <<"run", c>>>>, FALSE>>,
      <<"fork", <<<<"close", 0>>, <<"dup", p0>>, <<"close", p0>>, <<"close", p1>>, <<"run", d>>>>, FALSE>>,
      <<"close", p0>>, <<"close", p1>>, <<"wait">>, <<"wait">>>>

-----------------------------------------------------------------------------
(***************************************************************************)
(* Processes and descriptors.                                              *)
(***************************************************************************)
\* The children that exit hands to init: all of them when there is no zombie; otherwise
\* exitSearchAll and exitSearchReady return after one, a live one if there is any.
zombies == {q \in Pids : state[q] = "zombie"}
adoptions(p) ==
    IF zombies = {} \/ children(p) = {} THEN {children(p)}
    ELSE {{q} : q \in IF children(p) \subseteq zombies THEN children(p) ELSE children(p) \ zombies}

\* Exit: the descriptors are closed, the parent is woken, and children are adopted.  An
\* adopted zombie wakes init if it is the first of its list.
exits(p, error) ==
    /\ state' = [state EXCEPT ![p] = "zombie"]
    /\ \E A \in adoptions(p) :
        /\ parent' = [q \in Pids |-> IF q \in A THEN initproc ELSE parent[q]]
        /\ failed' = (failed \/ error \/ A # children(p))
        /\ idle' \in IF parent[p] = initproc \/ (A # {} /\ A = zombies) THEN {FALSE}
                    ELSE IF A # {} /\ A \subseteq zombies THEN {FALSE, idle} ELSE {idle}
    /\ todo' = [todo EXCEPT ![p] = <<>>]
    /\ ofile' = [ofile EXCEPT ![p] = [f \in fds |-> Closed]]
    /\ UNCHANGED <<data, shell, line, bg>>

exit(p) == at(p, "exit") /\ exits(p, FALSE) /\ UNCHANGED consoleVars

\* fork1, and init's fork: a process that cannot fork exits.
fork(p) ==
    LET free == {q \in Pids : state[q] = "unused"}
        q == CHOOSE x \in free : \A y \in free : x <= y
    IN  /\ at(p, "fork")
        /\ \/ free = {} /\ exits(p, TRUE)
           \/ /\ free # {}
              /\ state' = [state EXCEPT ![q] = "live"] /\ parent' = [parent EXCEPT ![q] = p]
              /\ ofile' = [ofile EXCEPT ![q] = ofile[p]]
              /\ todo' = [todo EXCEPT ![p] = Tail(@), ![q] = arg(p, 1)]
              /\ bg' = IF arg(p, 2) \/ p \in bg THEN bg \cup {q} ELSE bg \ {q}
              /\ shell' = IF p = initproc THEN q ELSE shell
              /\ UNCHANGED <<data, line, failed, idle>>
        /\ UNCHANGED consoleVars

\* wait reaps a child.  The programs never call it without one, and an exit wakes its parent.
wait(p) ==
    /\ at(p, "wait") /\ goOn(p, <<>>)
    /\ \E q \in children(p) \cap zombies : state' = [state EXCEPT ![q] = "unused"]
    /\ UNCHANGED <<parent, ofile, data, shell, line, bg, failed, idle, consoleVars>>

\* init reaps every orphan, and starts a shell when its shell is gone.
waitsh(p) ==
    /\ at(p, "waitsh") /\ ~ idle
    /\ \E q \in children(p) \cap zombies :
        /\ state' = [state EXCEPT ![q] = "unused"]
        /\ goOn(p, IF q = shell THEN <<<<"fork", Sh, FALSE>>, <<"waitsh">>>> ELSE <<<<"waitsh">>>>)
    /\ UNCHANGED <<parent, ofile, data, shell, line, bg, failed, idle, consoleVars>>

waitshSleep(p) ==
    /\ at(p, "waitsh") /\ ~ idle /\ children(p) \cap zombies = {}
    /\ idle' = TRUE
    /\ UNCHANGED <<state, parent, todo, ofile, data, shell, line, bg, failed, consoleVars>>

lowest(p) == CHOOSE f \in fds : ofile[p][f] = Closed /\ \A g \in fds : ofile[p][g] = Closed => f <= g
unusedFds(p) == {f \in fds : ofile[p][f] = Closed}

close(p) ==
    /\ at(p, "close") /\ goOn(p, <<>>)
    /\ ofile' = [ofile EXCEPT ![p][arg(p, 1)] = Closed]
    /\ UNCHANGED <<state, parent, data, shell, line, bg, failed, idle, consoleVars>>

dup(p) ==
    /\ at(p, "dup") /\ goOn(p, <<>>)
    /\ ofile' = [ofile EXCEPT ![p][lowest(p)] = ofile[p][arg(p, 1)]]
    /\ UNCHANGED <<state, parent, data, shell, line, bg, failed, idle, consoleVars>>

\* open of a redirection: it may fail.
openFile(p) ==
    /\ at(p, "open")
    /\ \/ exits(p, FALSE)
       \/ /\ ofile' = [ofile EXCEPT ![p][lowest(p)] = File] /\ goOn(p, <<>>)
          /\ UNCHANGED <<state, parent, data, shell, line, bg, failed, idle>>
    /\ UNCHANGED consoleVars

\* pipe may fail: there is no memory, or no descriptor.
pipe(p) ==
    LET free == {k \in Pipes : ~ open(readEnd(k)) /\ ~ open(writeEnd(k))}
        k == CHOOSE k \in free : TRUE
        f == lowest(p)
        g == CHOOSE g \in unusedFds(p) \ {f} : \A h \in unusedFds(p) \ {f} : g <= h
    IN  /\ at(p, "pipe")
        /\ \/ exits(p, TRUE)
           \/ /\ free # {} /\ Cardinality(unusedFds(p)) >= 2
              /\ ofile' = [ofile EXCEPT ![p][f] = readEnd(k), ![p][g] = writeEnd(k)]
              /\ data' = [data EXCEPT ![k] = 0]
              /\ goOn(p, piped(f, g, arg(p, 1), arg(p, 2)))
              /\ UNCHANGED <<state, parent, shell, line, bg, failed, idle>>
        /\ UNCHANGED consoleVars

run(p) ==
    /\ at(p, "run") /\ goOn(p, runcmd(arg(p, 1)))
    /\ UNCHANGED <<state, parent, ofile, data, shell, line, bg, failed, idle, consoleVars>>

exec(p) ==
    /\ at(p, "exec")
    /\ \/ goOn(p, <<>>)
       \/ \E x \in Programs : todo' = [todo EXCEPT ![p] =
            IF x = "cat" THEN <<<<"cat", 0>>>> ELSE <<<<"write">>, <<"exit">>>>]
    /\ UNCHANGED <<state, parent, ofile, data, shell, line, bg, failed, idle, consoleVars>>

-----------------------------------------------------------------------------
(***************************************************************************)
(* The shell's loop: getcmd, and a child that parses and runs the line.    *)
(***************************************************************************)
\* What the shell does with a line: exit at the end of its input, cd by itself.
command(s) ==
    CASE s = <<>> -> <<<<"exit">>>>
      [] s # <<>> /\ Head(s) = "cd " -> Sh
      [] OTHER -> <<<<"fork", <<<<"parse", s>>>>, FALSE>>, <<"wait">>>> \o Sh

\* gets: one character at a time, until a newline, the end of input, or a full line.
gets(p) ==
    /\ at(p, "gets")
    /\ \/ consoleSleep(p) /\ UNCHANGED <<todo, line>>
       \/ \E s \in {takes(1)} :
            /\ consoleread(p, 1, 0, s)
            /\ IF s = <<"^D">> \/ s = <<"\n">> \/ Len(line) + 2 = NBUF
               THEN line' = <<>> /\ goOn(p, command(line \o text(s)))
               ELSE line' = line \o s /\ UNCHANGED todo
    /\ UNCHANGED <<state, parent, ofile, data, shell, bg, failed, idle>>

parse(p) ==
    /\ at(p, "parse")
    /\ LET c == parsecmd(arg(p, 1)) IN goOn(p, IF c.type = "panic" THEN <<<<"exit">>>> ELSE <<<<"run", c>>>>)
    /\ UNCHANGED <<state, parent, ofile, data, shell, line, bg, failed, idle, consoleVars>>

-----------------------------------------------------------------------------
(***************************************************************************)
(* Programs: cat copies its input to its output, echo writes.              *)
(***************************************************************************)
\* cat of the console: it sleeps with what it has got so far until a line is there.
catConsole(p) ==
    LET got == arg(p, 1)
    IN  /\ at(p, "cat") /\ ofile[p][0] = Console
        /\ \/ consoleSleep(p) /\ UNCHANGED todo
           \/ \E s \in {takes(BUFSIZE - got)} :
                /\ consoleread(p, BUFSIZE - got, got, s)
                /\ LET n == got + Len(text(s))
                   IN  IF ~ finished(BUFSIZE - got, s) THEN goOn(p, <<<<"cat", n>>>>)
                       ELSE goOn(p, IF n = 0 THEN <<<<"exit">>>> ELSE <<<<"write">>, <<"cat", 0>>>>)
        /\ UNCHANGED <<state, parent, ofile, data, shell, line, bg, failed, idle>>

\* cat of a pipe: it waits for bytes, or for the last writer to go.  A file ends.
cat(p) ==
    LET x == ofile[p][0]
        k == x[2]
    IN  /\ at(p, "cat")
        /\ \/ x[1] = "read" /\ data[k] > 0
              /\ data' = [data EXCEPT ![k] = 0] /\ goOn(p, <<<<"write">>, <<"cat", 0>>>>)
           \/ /\ x \in {File, Closed} \/ (x[1] = "read" /\ data[k] = 0 /\ ~ open(writeEnd(k)))
              /\ goOn(p, <<<<"exit">>>>) /\ UNCHANGED data
        /\ UNCHANGED <<state, parent, ofile, shell, line, bg, failed, idle, consoleVars>>

\* write: to a pipe it waits for room, and fails when there is no reader.
write(p) ==
    LET x == ofile[p][1]
        k == x[2]
    IN  /\ at(p, "write") /\ goOn(p, <<>>)
        /\ \/ x[1] = "write" /\ open(readEnd(k)) /\ data[k] < PIPESIZE /\ data' = [data EXCEPT ![k] = @ + 1]
           \/ (x[1] = "write" => ~ open(readEnd(k))) /\ UNCHANGED data
        /\ UNCHANGED <<state, parent, ofile, shell, line, bg, failed, idle, consoleVars>>

-----------------------------------------------------------------------------
step(p) ==
    \/ exit(p) \/ fork(p) \/ wait(p) \/ waitsh(p) \/ waitshSleep(p) \/ close(p) \/ dup(p) \/ openFile(p) \/ pipe(p)
    \/ run(p) \/ exec(p) \/ gets(p) \/ catConsole(p) \/ cat(p) \/ write(p)

\* The user types when it likes.
type == live(initproc) /\ consoleintr /\ UNCHANGED procVars

Next == type \/ \E p \in Pids : step(p) \/ parse(p)

\* Every process that can run does, some time.  Parsing never waits, so that this means
\* for it that no process stays there (TLC cannot evaluate ENABLED parse(p) in time).
Spec == Init /\ [][Next]_vars /\ \A p \in Pids : WF_vars(step(p)) /\ []<>(~ at(p, "parse"))

-----------------------------------------------------------------------------
(***************************************************************************)
(* Properties.                                                             *)
(***************************************************************************)
\* A program is started with standard input, output and error, and nothing else: no end of a
\* pipe that would keep others from seeing its end gets past runcmd's closes.
ExactDescriptors == \A p \in Pids : at(p, "exec") =>
    \A f \in fds : ofile[p][f] # Closed <=> f <= 2

\* When the shell asks for a line, what it ran before is over, but for background commands,
\* unless a fork or a pipe has failed, or an exit has left a child to whoever gets its slot.
ForegroundDone == at(shell, "gets") /\ ~ failed =>
    \A p \in Pids \ {initproc, shell} : state[p] = "unused" \/ p \in bg

\* The session never hangs: again and again all the input there is has been read, and a
\* process waits for more.  Pipes see their ends, waits return, orphans are reaped, and the
\* one sleeper that a key wakes is enough.
InputIsAwaited == []<>(~ live(initproc) \/ (r = w /\ asleep # {}))
=============================================================================
