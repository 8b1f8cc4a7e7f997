---------------------------- MODULE MCMailServer ----------------------------
(* Instances of MailServer for TLC: an MX client and a submission client,    *)
(* each with a local recipient and a remote one.  The IDs of the two         *)
(* accounts differ only in case; BOB@ is a third spelling, which FindByID    *)
(* finds two accounts for.                                                   *)
EXTENDS MailServer, TLC

CONSTANTS mx, user, bob, Bob, bobAddr, BobAddr, BOBAddr, away, q1, q2

TwoClients == {mx, user}
ClientRole == mx :> "smtp" @@ user :> "submission"
Submitting == {"submission"}
TwoAccounts == {bob, Bob}
Addresses  == bob :> bobAddr @@ Bob :> BobAddr
LocalAddrs == {bobAddr, BobAddr}
RemoteAddrs == {away}
LowerCase  == bobAddr :> bobAddr @@ BobAddr :> bobAddr @@ BOBAddr :> bobAddr
                @@ away :> away
Envelopes  == mx :> {bobAddr, away} @@ user :> {BobAddr, away, BOBAddr}
MailFrom   == mx :> {away} @@ user :> {bobAddr, away}
TwoIds     == {q1, q2}
Listeners  == <<"smtp", "submission", "pop3">>
SmtpListeners == <<"smtp", "submission">>
Pop3Listeners == {"pop3"}
=============================================================================
