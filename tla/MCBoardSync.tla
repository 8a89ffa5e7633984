---------------------------- MODULE MCBoardSync ----------------------------
\* Small instances of BoardSync for TLC.
EXTENDS BoardSync, TLC

CONSTANTS x, y

Edit(v, n, d) == [ver |-> v, nonce |-> n, del |-> d]

\* Both tabs edit the same version of the element at once, so that the nonces
\* decide, and y edits it again.
TiesAndMore == {Edit(1, 1, FALSE), Edit(1, 2, FALSE), Edit(2, 1, FALSE)}
TwoAuthors == (x :> {Edit(1, 1, FALSE)}) @@ (y :> {Edit(1, 2, FALSE), Edit(2, 1, FALSE)})
=============================================================================
