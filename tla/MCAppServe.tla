----------------------------- MODULE MCAppServe -----------------------------
EXTENDS AppServe, TLC

CONSTANTS a, b

\* A head may move to any commit, back to an old one too ...
AnyLater == [sha \in Sha |-> Sha]
\* ... or only forward.
Forward == [sha \in Sha |-> IF sha = a THEN {b} ELSE {}]
FewEvents == <<2, 1>>

\* Alone or together with another instance.
MoreAlone == <<4, 2>>

\* The code does not tell one commit from another.
Symmetry == Permutations(Sha)
=============================================================================
