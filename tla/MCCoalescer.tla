---------------------------- MODULE MCCoalescer ----------------------------
EXTENDS Coalescer

CONSTANTS t1, t2, t3, main, other, w1, w2, good, rival, bad, cut

Single(k, w, p) == [key |-> k, members |-> <<[wt |-> w, patch |-> p]>>, corun |-> TRUE]

Culprit == Single(main, w1, bad)
Elsewhere == Single(other, w2, good)
\* A truncated member beside a whole one.
Pair(p) == [key |-> main, corun |-> TRUE,
            members |-> <<[wt |-> w1, patch |-> cut], [wt |-> w2, patch |-> p]>>]

\* The culprit comes back, alone or beside another; two whole patches conflict;
\* another base competes for the one slot.
Requests == t1 :> {Culprit} @@ t2 :> {Pair(good)} @@ t3 :> {Pair(rival), Elsewhere}

\* bad breaks every union it is in.
Reds == {S \in SUBSET Patch : bad \in S}
Clashes == {{good, rival}}
=============================================================================
