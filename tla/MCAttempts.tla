----------------------------- MODULE MCAttempts -----------------------------
(* An instance of Attempts: two submissions of a gate, one of which may be *)
(* somebody else's, and an overlay that may be promoted to a witness of    *)
(* the same commit.                                                        *)
EXTENDS Attempts

CONSTANTS c1, c2, c3, a1, a2, k1

MCAttemptOf == [c \in Calls |-> IF c = c3 THEN a2 ELSE a1]
MCIdentities == [c \in Calls |-> IF c = c2 THEN {"ours", "theirs"}
                                 ELSE {"ours"}]
MCKeyOf == [a \in Attempts |-> k1]
=============================================================================
