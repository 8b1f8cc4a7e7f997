------------------------------ MODULE MCPop3 ------------------------------
(* An instance of Pop3 for TLC. *)
EXTENDS Pop3, TLC

CONSTANTS inbox, s1, s2, seenFlag, recent

InboxOnly == {inbox}
TwoSessions == {s1, s2}
SeenOnly == {seenFlag}

SessionSymmetry == Permutations(Sessions)
InMailRoot == [n \in Boxes |-> {n}]
=============================================================================
