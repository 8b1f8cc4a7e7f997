---------------------------- MODULE ImapSession ----------------------------
(***************************************************************************)
(* IMAP sessions (mail/imap.go) of one account, over MailStore.            *)
(*                                                                         *)
(* An imapMailbox is only a name: every command takes a Snapshot of its    *)
(* own, which holds the lock for one read of the index, and then makes     *)
(* its Store call, which takes the lock again.  STORE, COPY and FETCH by   *)
(* number count in that fresh snapshot, not in what the client was shown.  *)
(* Between the two locks the other sessions, SMTP and COPY go on.  The     *)
(* server sends no unilateral updates, so a client learns of other         *)
(* sessions' changes from what it fetches only.                            *)
(*                                                                         *)
(* Left out: CREATE, DELETE, RENAME and SUBSCRIBE, which are one Store     *)
(* call each and are actions of MailStore (the deletion of a mailbox whose *)
(* directory has INBOX inside among them); LIST and STATUS, which are a    *)
(* Snapshot; the layout of a FETCH response; the match of SEARCH, which    *)
(* reads what FETCH reads; the clock.                                      *)
(***************************************************************************)
EXTENDS MailStore

CONSTANTS Sessions,  \* IMAP connections, logged in
          Deleted    \* \Deleted

ASSUME DeletedAssumption == Deleted \in Flags /\ Deleted # Recent

VARIABLES
    imap,     \* Sessions -> the session and its command in progress
    flagged   \* history: ids that have carried \Deleted in INBOX

imapVars == <<vars, imap, flagged>>

-----------------------------------------------------------------------------
FlagOps == {"set", "add", "remove"}

\* box is the selected mailbox, None before SELECT; cmd, the command between
\* its snapshot and its Store call ("resolved": STORE or COPY; "wait": the call
\* holds the lock; "expunged": EXPUNGE is answered with OK); uids, what it
\* selected; got, what FETCH read last, for UID uid.  History: byUid, whether the
\* client gave UIDs; shown, the messages it was shown last, by their UIDs; meant,
\* those it names in its command; swept, the ids its EXPUNGE found flagged.
NoSession == [box |-> None, cmd |-> "none", byUid |-> TRUE,
              uids |-> {}, uid |-> 0, got |-> NoFile,
              shown |-> [u \in UIDs |-> NoMessage], meant |-> {}, swept |-> {}]

ImapInit ==
    /\ Init
    /\ imap = [s \in Sessions |-> NoSession]
    /\ flagged = {}

-----------------------------------------------------------------------------
\* The session is ready for a command on its mailbox; of its last command it
\* keeps nothing but what the client has seen.
Ready(s) == imap[s].cmd = "none" /\ imap[s].box # None

Idle(r) == [NoSession EXCEPT !.box = r.box, !.shown = r.shown]

Shown(msgs) == [u \in UIDs |-> [msgs[u] EXCEPT !.flags = {}]]

Keep == UNCHANGED <<vars, flagged>>

\* Store.Snapshot
Snapshot(n) == Unlocked /\ Readable(n)

SeqNum(msgs, u) == Cardinality({v \in UIDs : msgs[v].id # 0 /\ v <= u})

\* Mutant: UIDs and numbers are mixed up when UIDs are asked for.
identifier_Swapped(uid, msgs, u) == IF uid THEN SeqNum(msgs, u) ELSE u

identifier(uid, msgs, u) == IF uid THEN u ELSE SeqNum(msgs, u)

\* What a sequence set stands for in a snapshot.
Selected(uid, msgs, set) ==
    {u \in UIDs : msgs[u].id # 0 /\ identifier(uid, msgs, u) \in set}

\* SELECT and EXAMINE: GetMailbox.
GetMailbox(s, n) ==
    /\ imap[s].cmd = "none" /\ imap[s].box # n
    /\ Snapshot(n)
    /\ imap' = [imap EXCEPT ![s] = [NoSession EXCEPT !.box = n]]
    /\ Keep

\* ListMessages: the client is shown what the snapshot has, then one body
\* after the other is read without the lock.
ListMessages(s) ==
    /\ Ready(s) /\ Snapshot(imap[s].box)
    /\ LET m == ReadIndex(imap[s].box).msgs
       IN  imap' = [imap EXCEPT ![s].cmd = "fetch", ![s].shown = Shown(m),
                                ![s].uids = {u \in UIDs : m[u].id # 0}]
    /\ Keep

\* fetch, for the next message; one whose file is missing is skipped.
Fetch(s) ==
    /\ imap[s].cmd = "fetch"
    /\ \/ /\ imap[s].uids = {}
          /\ imap' = [imap EXCEPT ![s] = Idle(@)]
       \/ \E u \in imap[s].uids :
            /\ \A v \in imap[s].uids : u <= v
            /\ imap' = [imap EXCEPT ![s].uids = @ \ {u}, ![s].uid = u,
                            ![s].got = files[imap[s].box][u]]
    /\ Keep

\* CreateMessage (APPEND) names its mailbox and opens it with GetMailbox; that
\* look and the Append are one step here, as INBOX does not vanish in between.
CreateMessage(s, n, fs) ==
    /\ imap[s].cmd = "none" /\ Readable(n)
    /\ Append(n, fs)
    /\ imap' = [imap EXCEPT ![s].cmd = "wait"]
    /\ UNCHANGED flagged

\* resolve, the first half of STORE and COPY.
resolve(s, uid, set) ==
    /\ Ready(s) /\ Snapshot(imap[s].box)
    /\ LET was == imap[s].shown
       IN  imap' = [imap EXCEPT ![s].cmd = "resolved", ![s].byUid = uid,
               ![s].uids = Selected(uid, ReadIndex(imap[s].box).msgs, set),
               ![s].meant = {was[u].id : u \in Selected(uid, was, set)}]
    /\ Keep

\* UpdateMessagesFlags, the second half: SetFlags.
UpdateMessagesFlags(s, how) ==
    /\ imap[s].cmd = "resolved"
    /\ SetFlags(imap[s].box, imap[s].uids, {Deleted}, how)
    /\ imap' = [imap EXCEPT ![s].cmd = "wait"]
    /\ UNCHANGED flagged

\* CopyMessages, the second half: Copy, of which one runs at a time here.
CopyMessages(s, dest) ==
    /\ imap[s].cmd = "resolved"
    /\ StartCopy(imap[s].box, dest, imap[s].uids)
    /\ imap' = [imap EXCEPT ![s] = [Idle(@) EXCEPT !.cmd = "copying"]]
    /\ UNCHANGED flagged

\* Mutant: Deleted returns positions in the list in place of UIDs.
Doomed_Positions(msgs) ==
    {k \in UIDs : \E u \in UIDs : /\ Deleted \in msgs[u].flags
                                  /\ k = SeqNum(msgs, u)}

\* Snapshot.Deleted
Doomed(msgs) == {u \in UIDs : Deleted \in msgs[u].flags}

\* Expunge, the first half.
Expunge(s) ==
    /\ Ready(s) /\ Snapshot(imap[s].box)
    /\ LET m == ReadIndex(imap[s].box).msgs
       IN  imap' = [imap EXCEPT ![s].cmd = "expunge", ![s].uids = Doomed(m),
               ![s].swept = {m[u].id : u \in {v \in UIDs : Deleted \in m[v].flags}}]
    /\ Keep

\* With nothing to remove it is over.
ExpungeNothing(s) ==
    /\ imap[s].cmd = "expunge" /\ imap[s].uids = {}
    /\ imap' = [imap EXCEPT ![s].cmd = "expunged"]
    /\ Keep

\* The second half: Remove.
ExpungeRemove(s) ==
    /\ imap[s].cmd = "expunge" /\ imap[s].uids # {}
    /\ Remove(imap[s].box, imap[s].uids)
    /\ imap' = [imap EXCEPT ![s].cmd = "wait"]
    /\ UNCHANGED flagged

\* The Store call finds that the index cannot be read any more.
Refused(s) ==
    /\ imap[s].cmd \in {"resolved", "expunge"}
    /\ Unlocked /\ ~Readable(imap[s].box)
    /\ imap' = [imap EXCEPT ![s] = Idle(@)]
    /\ Keep

\* The client reads the answer to EXPUNGE.
Answer(s) ==
    /\ imap[s].cmd = "expunged"
    /\ imap' = [imap EXCEPT ![s] = Idle(@)]
    /\ Keep

\* LOGOUT, or the connection breaks; a command that runs is finished first.
Logout(s) ==
    /\ imap[s].cmd = "none" /\ imap[s] # NoSession
    /\ imap' = [imap EXCEPT ![s] = NoSession]
    /\ Keep

-----------------------------------------------------------------------------
(* The store, and what a session sees of the call it waits for. *)

FlaggedNow == {index[Inbox].msgs[u].id : u \in
                  {v \in UIDs : Deleted \in index[Inbox].msgs[v].flags}}

Return(ok) ==
    imap' = [s \in Sessions |->
        CASE \/ imap[s].cmd = "wait" /\ op'.pc = "free" /\ (~ok \/ imap[s].swept = {})
             \/ imap[s].cmd = "copying" /\ copier'.pc = "idle"
             -> Idle(imap[s])
          [] imap[s].cmd = "wait" /\ op'.pc = "free" /\ ok /\ imap[s].swept # {}
             -> [imap[s] EXCEPT !.cmd = "expunged"]
          [] OTHER -> imap[s]]

StoreStep ==
    /\ SystemCall
    /\ Return(TRUE)
    /\ flagged' = flagged \cup FlaggedNow'

StoreError == CallError /\ Return(FALSE) /\ UNCHANGED flagged

CopyStep ==
    /\ CopyCheckDest \/ CopyRead \/ CopyAppend \/ CopyAbort
    /\ Return(TRUE)
    /\ UNCHANGED flagged

\* SMTP stores a message for the account.
Delivery == Append(Inbox, {}) /\ UNCHANGED <<imap, flagged>>

ImapCrash ==
    /\ Crash
    /\ imap' = [s \in Sessions |-> NoSession]
    /\ UNCHANGED flagged

ImapNext ==
    \/ \E s \in Sessions :
        \/ \E n \in Boxes : GetMailbox(s, n)
        \/ \E n \in Boxes, fs \in SUBSET Flags : CreateMessage(s, n, fs)
        \/ ListMessages(s) \/ Fetch(s)
        \/ \E uid \in BOOLEAN, set \in (SUBSET UIDs) \ {{}} :
                resolve(s, uid, set)
        \/ \E how \in FlagOps : UpdateMessagesFlags(s, how)
        \/ \E dest \in Boxes : CopyMessages(s, dest)
        \/ Expunge(s) \/ ExpungeNothing(s) \/ ExpungeRemove(s)
        \/ Refused(s) \/ Answer(s) \/ Logout(s)
    \/ StoreStep \/ StoreError \/ CopyStep \/ Delivery \/ ImapCrash

ImapSpec == ImapInit /\ [][ImapNext]_imapVars

-----------------------------------------------------------------------------
(* Properties. *)

\* EXPUNGE removes only messages that carried \Deleted at some time: it takes
\* UIDs from a snapshot and removes them under a later lock, other sessions
\* expunge and SMTP appends in between, and no new or never flagged message of
\* INBOX goes with them.  (One from which a client takes the flag between the
\* two locks still goes, imap.go:336-344.)
OnlyFlaggedExpunged ==
    \A a \in acked : a[2] = Inbox /\ a[1] \in doomed => a[1] \in flagged

\* An EXPUNGE that was answered OK has removed what was flagged when it
\* started, also when another session was expunging the same messages.
ExpungeEffective ==
    \A s \in Sessions :
        imap[s].cmd = "expunged" /\ imap[s].box = Inbox /\ Unlocked =>
            \A u \in UIDs : index[Inbox].msgs[u].id \notin imap[s].swept

ShownIds(s) == {imap[s].shown[u].id : u \in UIDs} \ {0}
Hits(s) == {index[Inbox].msgs[u].id : u \in imap[s].uids} \ {0}

\* STORE and COPY act on exactly the messages that the client was shown under
\* the identifiers it gives and that are still there (others, which it was not
\* shown, apart): by UID always, and by sequence number unless a message it was
\* shown has been removed since.
HitsWhatWasShown ==
    \A s \in Sessions :
        /\ imap[s].cmd = "resolved" /\ imap[s].box = Inbox
        /\ Unlocked /\ index[Inbox].st = "ok"
        => \/ Hits(s) \cap ShownIds(s) = {i \in imap[s].meant : Lists(index[Inbox], i)}
           \/ ~imap[s].byUid /\ ShownIds(s) \cap doomed # {}

\* FETCH and SEARCH read, without the lock, the body of the message in their
\* snapshot or find no file: never a half-written file or a later message.
FetchFaithful ==
    \A s \in Sessions : imap[s].got # NoFile /\ imap[s].box = Inbox =>
        imap[s].got = imap[s].shown[imap[s].uid].body
=============================================================================
