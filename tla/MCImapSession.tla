--------------------------- MODULE MCImapSession ---------------------------
(* Instances of ImapSession for TLC. *)
EXTENDS ImapSession, TLC

CONSTANTS inbox, s1, s2, deletedFlag, recent

InboxOnly == {inbox}
TwoSessions == {s1, s2}
DeletedOnly == {deletedFlag}

SessionSymmetry == Permutations(Sessions)
InMailRoot == [n \in Boxes |-> {n}]
=============================================================================
