----------------------------- MODULE MCLaneHost -----------------------------
\* Small instances of LaneHost; the cfg files choose the sizes.
EXTENDS LaneHost, TLC

MCIds1 == {1}
MCIds2 == {1, 2}
MCNoIds == {}
MCHeads1 == {"h"}
MCHeads2 == {"h", "k"}
MCFile == {"f"}
\* A first head changes f, a second head does not.
MCChanges == [m \in Member |-> IF m.head = "h" THEN {"f"} ELSE {}]
ClientSymmetry == Permutations(Client)
=============================================================================
