------------------------------- MODULE MCTrie -------------------------------
EXTENDS Trie

\* Codes of characters: 97, 101 and 105 agree in two bits of their hash values,
\* 99 with them in one, 98, 100 and 102 in none.
MCKeys == {97, 98, 99, 100, 101, 102, 105}
MCHash == [c \in MCKeys |-> 31 * c]
MCCalls == {<< <<c>>, 1>> : c \in MCKeys \ {97}}
           \cup {<< <<97, 98>>, 1>>, << <<97, 98>>, 2>>}
=============================================================================
