------------------------------- MODULE MCHTTP -------------------------------
EXTENDS HTTP

CONSTANTS a, b

MCClients == {a, b}

\* One asks for a file of a block and a half, the other for a file of half a
\* block or for one that is not there.
MCFiles == {[c \in MCClients |-> IF c = a THEN 3 ELSE n] : n \in {Missing, 1}}
=============================================================================
