------------------------------- MODULE Pop3 -------------------------------
(***************************************************************************)
(* POP3 sessions (mail/pop3.go) on one account's INBOX, over MailStore.    *)
(*                                                                         *)
(* PASS takes a Snapshot that fixes the message numbers; DELE and RSET     *)
(* change the session's own marks; QUIT commits them with Store.Remove.    *)
(* Other sessions of the account and deliveries from SMTP run in between,  *)
(* each store call holding the lock on its own.                            *)
(*                                                                         *)
(* Left out: USER, CAPA, STLS, NOOP, STAT, LIST and UIDL, which change     *)
(* nothing but the conversation, and the credentials that PASS checks.     *)
(***************************************************************************)
EXTENDS MailStore

CONSTANTS Sessions,  \* POP3 connections
          Seen       \* \Seen

ASSUME SeenAssumption == Seen \in Flags /\ Seen # Recent

VARIABLES
    pop,   \* Sessions -> pop3Session
    asked  \* history: ids of the messages that clients committed with QUIT

popVars == <<vars, pop, asked>>

-----------------------------------------------------------------------------
\* "auth" before PASS, "trans" after it, "flag" while RETR has sent the
\* message and not yet flagged it; got is what RETR or TOP sent last; wanted
\* (history) are the ids of the messages the client has named in DELE.
NoSession == [st |-> "auth", msgs |-> [u \in UIDs |-> NoMessage],
              deleted |-> {}, wanted |-> {}, uid |-> 0, got |-> NoFile]

PopInit ==
    /\ Init
    /\ pop = [s \in Sessions |-> NoSession]
    /\ asked = {}

\* message(argument): number k of the snapshot, whose messages are in the
\* order of their UIDs, unless it is marked.
Numbered(s, u) ==
    Cardinality({v \in UIDs : pop[s].msgs[v].id # 0 /\ v <= u})

Selects(s, k, u) ==
    /\ pop[s].st = "trans"
    /\ pop[s].msgs[u].id # 0 /\ u \notin pop[s].deleted
    /\ k = Numbered(s, u)

Pass(s) ==
    /\ pop[s].st = "auth"
    /\ Unlocked /\ Readable(Inbox)
    /\ pop' = [pop EXCEPT ![s].st = "trans", ![s].msgs = ReadIndex(Inbox).msgs]
    /\ UNCHANGED <<vars, asked>>

\* Body is read without the lock; a missing file is -ERR.
Sends(s, k, next) ==
    \E u \in UIDs :
        /\ Selects(s, k, u)
        /\ files[Inbox][u] # NoFile
        /\ pop' = [pop EXCEPT ![s].uid = u, ![s].got = files[Inbox][u],
                              ![s].st = next]
        /\ UNCHANGED <<vars, asked>>

Top(s, k) == Sends(s, k, "trans")

Retr(s, k) == Sends(s, k, "flag")

\* The end of retr: SetFlags adds \Seen; an error is only logged.
RetrSeen(s) ==
    /\ pop[s].st = "flag" /\ Unlocked
    /\ \/ SetFlags(Inbox, {pop[s].uid}, {Seen}, "add")
       \/ ~Readable(Inbox) /\ UNCHANGED vars
    /\ pop' = [pop EXCEPT ![s].st = "trans"]
    /\ UNCHANGED asked

\* Mutant: the message number is marked in place of the UID.
Mark_Number(k, u) == {k}

Mark(k, u) == {u}

Dele(s, k) ==
    \E u \in UIDs :
        /\ Selects(s, k, u)
        /\ pop' = [pop EXCEPT ![s].deleted = @ \cup Mark(k, u),
                              ![s].wanted = @ \cup {pop[s].msgs[u].id}]
        /\ UNCHANGED <<vars, asked>>

\* Mutant: the marks stay.
Rset_KeepsMarks(s) ==
    /\ pop[s].st = "trans"
    /\ pop' = [pop EXCEPT ![s].wanted = {}]
    /\ UNCHANGED <<vars, asked>>

Rset(s) ==
    /\ pop[s].st = "trans"
    /\ pop' = [pop EXCEPT ![s].deleted = {}, ![s].wanted = {}]
    /\ UNCHANGED <<vars, asked>>

Marked(s) == pop[s].deleted

\* The session ends with QUIT; the marks, if any, go to Store.Remove.
Quit(s) ==
    /\ pop[s].st \in {"auth", "trans"} /\ Unlocked
    /\ \/ Marked(s) # {} /\ Remove(Inbox, Marked(s))
       \/ Marked(s) = {} /\ UNCHANGED vars
       \/ ~Readable(Inbox) /\ UNCHANGED vars
    /\ asked' = asked \cup pop[s].wanted
    /\ pop' = [pop EXCEPT ![s] = [NoSession EXCEPT !.st = "closed"]]

\* The connection breaks or idles out: serve returns, nothing is committed.
Disconnect(s) ==
    /\ pop[s].st \in {"auth", "trans"}
    /\ pop' = [pop EXCEPT ![s] = [NoSession EXCEPT !.st = "closed"]]
    /\ UNCHANGED <<vars, asked>>

\* SMTP stores a message for the account.
Delivery == Append(Inbox, {}) /\ UNCHANGED <<pop, asked>>

StoreStep == (SystemCall \/ CallError) /\ UNCHANGED <<pop, asked>>

PopCrash ==
    /\ Crash
    /\ pop' = [s \in Sessions |-> [NoSession EXCEPT !.st = "closed"]]
    /\ UNCHANGED asked

PopNext ==
    \/ \E s \in Sessions :
        \/ Pass(s) \/ RetrSeen(s) \/ Rset(s) \/ Quit(s) \/ Disconnect(s)
        \/ \E k \in UIDs : Top(s, k) \/ Retr(s, k) \/ Dele(s, k)
    \/ Delivery \/ StoreStep \/ PopCrash

PopSpec == PopInit /\ [][PopNext]_popVars

-----------------------------------------------------------------------------
(* Properties. *)

\* Only what a client marked and committed with QUIT is ever removed: marks are
\* UIDs of a snapshot, other sessions expunge and SMTP appends in between, and
\* sessions break off, yet no other message is taken.
OnlyMarkedRemoved == doomed \subseteq asked

Listed == {index[Inbox].msgs[u].id : u \in {v \in UIDs : Has(index[Inbox], v)}}
Acked  == {a[1] : a \in acked}

\* Without faults the INBOX holds, whenever the lock is free, exactly the
\* messages that were delivered and not removed by a QUIT: concurrent sessions
\* that remove, flag and receive never undo one another.
InboxIsDeliveredMinusRemoved ==
    faults = 0 /\ Unlocked => Listed = Acked \ asked

\* RETR and TOP send the message that the snapshot has under the number, or
\* nothing: never a later message or a half-written file.
RetrFaithful ==
    \A s \in Sessions : pop[s].got # NoFile =>
        pop[s].got = pop[s].msgs[pop[s].uid].body
=============================================================================
