------------------------------ MODULE MCRbTree ------------------------------
EXTENDS RbTree
\* Two nodes to a key
MCKey == [n \in Nodes |-> (n + 1) \div 2]
=============================================================================
