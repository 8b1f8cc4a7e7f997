---------------------------- MODULE MCUserStore ----------------------------
(* Instances of UserStore for TLC. *)
EXTENDS UserStore, TLC

CONSTANTS t1, t2, id1, id2, e1, e2

TwoThreads == {t1, t2}
OneId == {id1}
TwoIds == {id1, id2}
OneEmail == {e1}
TwoEmails == {e1, e2}

ThreadSymmetry == Permutations(Threads)
Symmetry == Permutations(Threads) \cup Permutations(Ids) \cup Permutations(Emails)
=============================================================================
