----------------------------- MODULE MCBoardHub -----------------------------
\* Small instances of BoardHub for TLC.
EXTENDS BoardHub, TLC

\* Drawing only.
Drawing == {"update"}

\* Cameras only.
Looking == {"viewport", "follow"}

Everything == AllKinds

ClientSymmetry == Permutations(Clients)
=============================================================================
