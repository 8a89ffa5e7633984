--------------------------- MODULE MCBoardImport ---------------------------
\* Small instances of BoardImport for TLC.
EXTENDS BoardImport, TLC

Edit(v, n, d) == [ver |-> v, nonce |-> n, del |-> d]

\* An element and its deletion.
DrawnAndDeleted == {Edit(1, 1, FALSE), Edit(2, 1, TRUE)}

ClientSymmetry == Permutations(Clients)
=============================================================================
