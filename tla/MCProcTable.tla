---------------------------- MODULE MCProcTable ----------------------------
EXTENDS ProcTable

CONSTANTS c0, c1, tick, none

OneCpu == {c0}
TwoCpus == {c0, c1}
OnlyTicks == {tick}
=============================================================================
