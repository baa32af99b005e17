------------------------------ MODULE MCPaging ------------------------------
EXTENDS Paging
CONSTANTS zero, code, small, wide
MCWords == {zero, code, small, wide}
MCUnparsable == {zero, code, small}
MCStoreWords == {small, wide}
MCWideWords == {wide}
MCPTEs == 0 .. NumData
=============================================================================
