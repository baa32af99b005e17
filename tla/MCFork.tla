------------------------------- MODULE MCFork -------------------------------
EXTENDS Fork
CONSTANTS zero, code, one
MCWords == {zero, code, one}
MCStoreWords == {one}
MCPTEs == (1 .. MaxProcs) \X (0 .. NumPages - 1)
=============================================================================
