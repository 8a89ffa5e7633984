-------------------------- MODULE MCElementBuffer --------------------------
\* Small instances of ElementBuffer for TLC.
EXTENDS ElementBuffer

Edit(v, n, d) == [ver |-> v, nonce |-> n, del |-> d]

\* A deletion that ties with an edit on the version and wins by its nonce, and
\* between the two an edit the table refuses (its data is no jsonb).
Tie == {Edit(1, 3, FALSE), Edit(1, 1, TRUE)}
TieAndRefused == Tie \cup {Edit(1, 2, FALSE)}

\* An edit the table refuses and one that it takes: for two elements of a page.
Good == {Edit(2, 1, FALSE)}
GoodAndBad == Good \cup {Edit(1, 1, FALSE)}
=============================================================================
