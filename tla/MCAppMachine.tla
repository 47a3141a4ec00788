---------------------------- MODULE MCAppMachine ----------------------------
EXTENDS AppMachine, TLC

\* Alone, long enough for a green and three failing respawns, or for the
\* streaks to run out; two and three together, long enough to share the slot
\* and to be removed while building.
ManyAlone == <<6, 3, 2>>

\* Neither an instance nor a commit is told from another by the code.
Symmetry == Permutations(Name) \cup Permutations(Sha)
=============================================================================
