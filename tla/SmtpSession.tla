---------------------------- MODULE SmtpSession ----------------------------
(***************************************************************************)
(* SMTP sessions (mail/smtp.go) on the two kinds of listener, MX and       *)
(* submission, up to the reply to DATA, and clients that send a message    *)
(* again to the recipients nobody has confirmed.                           *)
(*                                                                         *)
(* Each session belongs to one client with one message.  A mailbox is the  *)
(* number of copies of the message in the recipient's INBOX (MailStore     *)
(* models Append itself); the outbound queue is the specification Delivery *)
(* that Relay implements.  go-smtp (external) admits RCPT after an accepted *)
(* MAIL only, one AUTH per connection, and calls Reset after DATA.         *)
(***************************************************************************)
EXTENDS Naturals, FiniteSets, Sequences, SequencesExt

CONSTANTS Clients,      \* SMTP clients, one connection at a time each
          RoleOf,       \* the listener a client connects to
          Submission,   \* the roles with smtpBackend.submission set
          Accounts,     \* accounts a client can log in to
          AddressOf,    \* Account.Address
          Fold,         \* an address -> its representative up to case
          Locals,       \* addresses Rcpt resolves to an account
          Remotes,      \* addresses at other domains
          Nobody,       \* an address of a local domain that FindByID finds no
                        \* account for, or more than one up to case
          Senders,      \* Clients -> addresses the client gives to MAIL
          Envelope,     \* Clients -> recipients of the client's message
          RelayOn,      \* cfg.Relay
          QIds,         \* queue ids
          MaxTroubles,  \* bound: failing calls, lost replies, crashes, shutdowns
          None

ASSUME ClientsAssumption ==
    /\ AddressOf \in [Accounts -> Locals]
    /\ Envelope \in [Clients -> SUBSET (Locals \cup Remotes \cup {Nobody})]
    /\ Locals \cap Remotes = {} /\ Nobody \notin Locals \cup Remotes
    /\ Senders \in [Clients -> SUBSET (Locals \cup Remotes \cup {Nobody})]
    /\ DOMAIN Fold = Locals \cup Remotes \cup {Nobody}
    /\ None \notin Accounts \cup Locals \cup Remotes \cup QIds
    /\ RelayOn \in BOOLEAN /\ MaxTroubles \in Nat

VARIABLES
    sess,      \* Clients -> the smtpSession and where its handler is
    acked,     \* Clients -> recipients the client has a 250 for
    stored,    \* Clients -> copies of its message in each local INBOX
    origin,    \* QIds -> who handed the message to enqueue, and its sender
    listening, \* roles whose listener accepts connections
    shutdowns, \* graceful shutdowns so far
    status, to, folded, served, lost, failures   \* Delivery

Q == INSTANCE Delivery WITH Msgs <- QIds, Rcpts <- Remotes

queueVars == <<status, to, folded, served, lost, failures>>
smtpVars == <<sess, acked, stored, origin, listening, queueVars>>

\* One more failure or shutdown is within the bound.
MayFail == failures + shutdowns < MaxTroubles

NoSession ==
    [pc |-> "none", account |-> None, from |-> None, rcpts |-> <<>>,
     todo |-> <<>>, remote |-> {}, failed |-> FALSE, qid |-> None]
NewSession == [NoSession EXCEPT !.pc = "ready"]
NoOrigin == [client |-> None, account |-> None, from |-> None]

\* Inside Data the connection's commands wait.
InData == {"data", "enqueue"}
Connected(c) == sess[c].pc # "none"
IsSubmission(c) == RoleOf[c] \in Submission

SmtpInit ==
    /\ sess = [c \in Clients |-> NoSession]
    /\ acked = [c \in Clients |-> {}]
    /\ stored = [c \in Clients |-> [a \in Locals |-> 0]]
    /\ origin = [q \in QIds |-> NoOrigin]
    /\ Q!Init

\* A step of one session that the store and the queue do not see.
Session(c, new) ==
    /\ sess' = [sess EXCEPT ![c] = new]
    /\ UNCHANGED <<acked, stored, origin, listening>>

\* A system call fails, a reply is lost: nothing in the queue is concerned.
Failure ==
    /\ MayFail
    /\ failures' = failures + 1
    /\ UNCHANGED <<status, to, folded, served, lost>>

-----------------------------------------------------------------------------
(* The commands. *)

Connect(c) ==
    /\ ~Connected(c) /\ RoleOf[c] \in listening
    /\ Session(c, NewSession)
    /\ UNCHANGED queueVars

Disconnect(c) ==
    /\ Connected(c) /\ sess[c].pc \notin InData
    /\ Session(c, NoSession)
    /\ UNCHANGED queueVars

\* AUTH with a right password: offered by the submission listeners only.
Auth(c, a) ==
    /\ sess[c].pc \in {"ready", "mail"}
    /\ IsSubmission(c) /\ sess[c].account = None
    /\ Session(c, [sess[c] EXCEPT !.account = a])
    /\ UNCHANGED queueVars

\* strings.EqualFold: the same address up to case.
EqualFold(a, b) == Fold[a] = Fold[b]

\* A submission client must be logged in and use its own address, in whatever
\* case: IDs are compared exactly when they are registered, so that the From
\* may be the very address of another account.
MayUse(c, from) ==
    IsSubmission(c) => /\ sess[c].account # None
                       /\ EqualFold(from, AddressOf[sess[c].account])

Mail(c, from) ==
    /\ sess[c].pc \in {"ready", "mail"}
    /\ MayUse(c, from)
    /\ Session(c, [sess[c] EXCEPT !.pc = "mail", !.from = from, !.rcpts = <<>>])
    /\ UNCHANGED queueVars

\* Mutant: the MX listener relays.
RcptAllowed_OpenRelay(c, a) == a \in Locals \/ (a \in Remotes /\ RelayOn)

\* A local recipient has an account; a remote one needs a submission client
\* that is logged in, and the relay.
RcptAllowed(c, a) ==
    \/ a \in Locals
    \/ /\ a \in Remotes
       /\ IsSubmission(c) /\ sess[c].account # None
       /\ RelayOn

\* The client names a recipient once per transaction, and not again once it
\* has a 250 for it.  A refused RCPT leaves the session as it was.
Rcpt(c, a) ==
    /\ sess[c].pc = "mail"
    /\ a \in Envelope[c] \ (Range(sess[c].rcpts) \cup acked[c])
    /\ RcptAllowed(c, a)
    /\ Session(c, [sess[c] EXCEPT !.rcpts = Append(@, a)])
    /\ UNCHANGED queueVars

ResetSession(s) ==
    [NoSession EXCEPT !.pc = "ready", !.account = s.account]

Reset(c) ==
    /\ sess[c].pc = "mail"
    /\ Session(c, ResetSession(sess[c]))
    /\ UNCHANGED queueVars

-----------------------------------------------------------------------------
(* Data. *)

Receiving(c) == sess[c].pc = "mail" /\ sess[c].rcpts # <<>>

\* The message is read and stamped (a missing From, Date or Message-ID, the
\* DKIM signature; neither can fail the transaction).  The loop then goes
\* through the recipients in order.
Data(c) ==
    /\ Receiving(c)
    /\ Session(c, [sess[c] EXCEPT !.pc = "data", !.todo = sess[c].rcpts])
    /\ UNCHANGED queueVars

\* The message is longer than the limit, or reading it failed: nothing is
\* stored.
DataRefused(c) ==
    /\ Receiving(c)
    /\ Session(c, ResetSession(sess[c]))
    /\ UNCHANGED queueVars

Visiting(c, as) ==
    sess[c].pc = "data" /\ sess[c].todo # <<>> /\ Head(sess[c].todo) \in as

\* A remote recipient is collected for the queue.
Collect(c) ==
    /\ Visiting(c, Remotes)
    /\ Session(c, [sess[c] EXCEPT !.remote = @ \cup {Head(sess[c].todo)},
                                  !.todo = Tail(@)])
    /\ UNCHANGED queueVars

StoreLocal(c) ==
    /\ Visiting(c, Locals)
    /\ stored' = [stored EXCEPT ![c][Head(sess[c].todo)] = @ + 1]
    /\ sess' = [sess EXCEPT ![c].todo = Tail(@)]
    /\ UNCHANGED <<acked, origin, listening, queueVars>>

\* Mutant: an Append that fails is only logged.
StoreError_Forgotten(c) ==
    /\ Visiting(c, Locals) /\ Failure
    /\ Session(c, [sess[c] EXCEPT !.todo = Tail(@)])

\* Append fails: the loop goes on, the reply will be 451.
StoreError(c) ==
    /\ Visiting(c, Locals) /\ Failure
    /\ Session(c, [sess[c] EXCEPT !.todo = Tail(@), !.failed = TRUE])

\* enqueue, one call at a time under q.mu, with an id nobody has used.
NewId == CHOOSE q \in QIds : status[q] = "new"

\* The From that the session kept is the address of its account, as it is.
SpeltExactly(c) ==
    \E a \in Accounts : sess[c].account = a /\ sess[c].from = AddressOf[a]

EnqueueStart(c, q) ==
    /\ sess[c].pc = "data" /\ sess[c].todo = <<>> /\ sess[c].remote # {}
    /\ \A d \in Clients : sess[d].pc # "enqueue"
    /\ status[q] = "new" /\ q = NewId
    /\ Q!Submit(q) /\ to'[q] = sess[c].remote
    /\ folded' = IF SpeltExactly(c) THEN folded ELSE folded \cup {q}
    /\ sess' = [sess EXCEPT ![c].pc = "enqueue", ![c].qid = q]
    /\ origin' = [origin EXCEPT ![q] =
           [client |-> c, account |-> sess[c].account, from |-> sess[c].from]]
    /\ UNCHANGED <<acked, stored, listening>>

\* Mutant: the error variable of an earlier call is returned.
EnqueueDone_ShadowedErr(c) ==
    /\ sess[c].pc = "enqueue"
    /\ Q!Accept(sess[c].qid)
    /\ Session(c, [sess[c] EXCEPT !.pc = "data", !.remote = {}, !.qid = None,
                                  !.failed = TRUE])

EnqueueDone(c) ==
    /\ sess[c].pc = "enqueue"
    /\ Q!Accept(sess[c].qid)
    /\ Session(c, [sess[c] EXCEPT !.pc = "data", !.remote = {}, !.qid = None])

EnqueueError(c) ==
    /\ sess[c].pc = "enqueue" /\ MayFail
    /\ Q!Fail({sess[c].qid}) /\ lost' = [lost EXCEPT ![sess[c].qid] = {}]
    /\ Session(c, [sess[c] EXCEPT !.pc = "data", !.remote = {}, !.qid = None,
                                  !.failed = TRUE])

Replying(c) ==
    sess[c].pc = "data" /\ sess[c].todo = <<>> /\ sess[c].remote = {}

\* Data returns nil (250) or a 451, and go-smtp resets the session; the client
\* reads the reply, or the connection breaks before it does.
Reply(c) ==
    /\ Replying(c)
    /\ sess' = [sess EXCEPT ![c] = ResetSession(sess[c])]
    /\ acked' = IF sess[c].failed THEN acked
                ELSE [acked EXCEPT ![c] = @ \cup Range(sess[c].rcpts)]
    /\ UNCHANGED <<stored, origin, listening, queueVars>>

ReplyLost(c) ==
    /\ Replying(c) /\ Failure
    /\ Session(c, NoSession)

\* Steps the server takes by itself, and steps that wait for the client.
DataStep(c) ==
    \/ Collect(c) \/ StoreLocal(c) \/ StoreError(c)
    \/ \E q \in QIds : EnqueueStart(c, q)
    \/ EnqueueDone(c) \/ EnqueueError(c)
    \/ Reply(c) \/ ReplyLost(c)

Command(c) ==
    \/ Connect(c) \/ Disconnect(c) \/ Reset(c)
    \/ \E a \in Accounts : Auth(c, a)
    \/ \E from \in Senders[c] : Mail(c, from)
    \/ \E a \in Envelope[c] : Rcpt(c, a)
    \/ Data(c) \/ DataRefused(c)

-----------------------------------------------------------------------------
(* Properties. *)

Queued(c, a) == {q \in QIds : origin[q].client = c /\ a \in to[q]}

\* The reply 250 to DATA is a promise for every recipient of the transaction:
\* a local one had the message put into its INBOX (MailStore says what becomes
\* of it there), a remote one is in the queue's care, over crashes and
\* shutdowns, whichever recipients failed, were retried or were queued by other
\* sessions in the meantime.
AckedIsKept ==
    \A c \in Clients : \A a \in acked[c] :
        \/ a \in Locals /\ stored[c][a] > 0
        \/ a \in Remotes /\ \E q \in Queued(c, a) : status[q] = "accepted"

\* No open relay: whatever AUTH, MAIL, RCPT, RSET, DATA and reconnections came
\* before, what is queued for another domain was submitted on a submission
\* listener by a logged-in account, under an address that is that account's own
\* up to case.
NoForgedRelay ==
    \A q \in QIds : status[q] # "new" =>
        /\ RoleOf[origin[q].client] \in Submission
        /\ origin[q].account # None
        /\ EqualFold(origin[q].from, AddressOf[origin[q].account])
=============================================================================
