------------------------------ MODULE MCNames ------------------------------
(***************************************************************************)
(* Names with the calls of programs in a small tree: a directory a and     *)
(* files b and a/b.                                                        *)
(***************************************************************************)
EXTENDS Names, TLC

path(s) == [abs |-> FALSE, elems |-> s]
root == [abs |-> TRUE, elems |-> <<>>]
call(o, x) == [op |-> o, path |-> x, to |-> none]

SmallCalls ==
    {call("T_DIR", path(<<"a">>)), call("create", path(<<"b">>)),
     call("chdir", path(<<"a">>)), call("chdir", path(<<"b">>)), call("chdir", path(<<"..">>)),
     call("unlink", path(<<"a">>)), call("unlink", path(<<"a", "b">>)), call("unlink", path(<<"a", "..">>)),
     call("T_DEV", path(<<"b", "b">>)), call("open", path(<<"b">>)), call("chmod", root),
     [call("link", path(<<"b">>)) EXCEPT !.to = path(<<"a", "b">>)]}

Symmetry == Permutations(Procs)
=============================================================================
