---------------------------- MODULE MCMailStore ----------------------------
(* Instances of MailStore for TLC. *)
EXTENDS MailStore, TLC

CONSTANTS inbox, a, b, dot, recent

InboxAndOne == {inbox, a}
InboxAndTwo == {inbox, a, b}
InboxAndDot == {inbox, dot}
NoFlags == {}

\* A mailbox "." is the mail root, every other one a directory in it.
InMailRoot == [n \in Boxes |-> IF n = dot THEN Boxes ELSE {n}]

BoxSymmetry == Permutations({a, b})
=============================================================================
