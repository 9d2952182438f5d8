------------------------------- MODULE MCPipe -------------------------------
(***************************************************************************)
(* Instances of Pipe for model checking.                                   *)
(***************************************************************************)
EXTENDS Pipe

CONSTANTS a, b

Long == {<<a, b, b>>, <<b, a>>, <<a>>}
=============================================================================
