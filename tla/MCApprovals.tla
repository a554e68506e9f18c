---------------------------- MODULE MCApprovals ----------------------------
(* A step whose tool changes things unsaid, a reasoning step that says it     *)
(* does, and a memory record two people decide on.                            *)
EXTENDS ApprovalQueue, TLC

CONSTANTS s1, s2, m1, o1, o2

\* The two people are alike.
Alike == Permutations(Deciders)
=============================================================================
