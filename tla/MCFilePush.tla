----------------------------- MODULE MCFilePush -----------------------------
EXTENDS FilePush

CONSTANTS a, b

MCClients == {a, b}

\* An empty file, one that fits the client's buffer, one that does not, and
\* one with a NUL.
MCContents == {<<>>, <<1, 2>>, <<1, 2, 3, 4>>, <<1, NUL, 3>>}
=============================================================================
