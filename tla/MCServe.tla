------------------------------ MODULE MCServe ------------------------------
(* Instances of Serve: pushes p1 and p2 on worktree w1, p3 on w2, the gate *)
(* push g1 on w1.  OneCommit makes p1, p2 and g1 overlays of one base      *)
(* commit (a save storm, a retry), TwoCommits keeps p1 and p2 apart.       *)
EXTENDS Serve, TLC

CONSTANTS w1, w2, p1, p2, p3, g1

MCWtOf == [p \in Pushes |-> IF p = p3 THEN w2 ELSE w1]
OneCommit == [p \in Pushes |-> 1]
TwoCommits == [p \in Pushes |-> IF p \in {p1, g1} THEN 1 ELSE 2]
=============================================================================
