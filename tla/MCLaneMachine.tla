--------------------------- MODULE MCLaneMachine ---------------------------
\* A small instance of LaneMachine: three ids, two to a build.
EXTENDS LaneMachine, TLC

MCId == 1..3
MCCommit == {"h", "k"}
MCFile == {"f"}
\* Every first head changes f, no second head does.
MCChanges == [m \in Member |-> IF m.head = "h" THEN {"f"} ELSE {}]
MCTickValue == 0..1

CONSTANTS MaxGeneration, MaxFailures     \* BOUNDS on the two counters

Bounded == state.generation <= MaxGeneration /\ state.infraFailures <= MaxFailures
MCSpec == MInit /\ [][MNext /\ Bounded']_mvars
=============================================================================
