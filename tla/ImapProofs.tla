---------------------------- MODULE ImapProofs ----------------------------
(***************************************************************************)
(* Proofs about ImapSession, for every set of sessions and mailboxes and   *)
(* every bound: FetchFaithful, OnlyFlaggedExpunged, ExpungeEffective and   *)
(* HitsWhatWasShown.  A session holds UIDs between two locks; what they    *)
(* meant when it read them is a snapshot of INBOX, and MailStore keeps     *)
(* every snapshot in agreement with the INBOX.                             *)
(***************************************************************************)
EXTENDS ImapSession, MailStoreProofs

-----------------------------------------------------------------------------
(* The inductive invariant. *)

ImapSessions ==
    [box : Boxes \cup {None},
     cmd : {"none", "fetch", "resolved", "wait", "copying", "expunge", "expunged"},
     byUid : BOOLEAN, uids : SUBSET UIDs, uid : UIDs \cup {0},
     got : -1 .. MaxAppends, shown : [UIDs -> Message],
     meant : SUBSET (0 .. MaxAppends), swept : SUBSET (0 .. MaxAppends)]

ImapTypeOK ==
    /\ imap \in [Sessions -> ImapSessions]
    /\ flagged \in SUBSET (0 .. MaxAppends)

\* What a session keeps from one command to the next, and within one.
SessionOK(r) ==
    /\ r.cmd \in {"fetch", "resolved", "expunge"} => r.box \in Boxes
    /\ r.cmd # "fetch" => r.got = NoFile
    /\ r.cmd = "fetch" => \A u \in r.uids : r.shown[u].id # 0
    /\ r.got # NoFile /\ r.box = Inbox =>
         r.uid \in UIDs /\ r.got = r.shown[r.uid].body
    /\ r.cmd \notin {"expunge", "wait", "expunged"} => r.swept = {}

\* A snapshot of INBOX, and what has become of it: a message that is not doomed
\* is still there, and no new one has come below it.
Standing(msgs) ==
    \A u \in UIDs : msgs[u].id # 0 =>
        /\ \/ msgs[u].id \in doomed
           \/ /\ index[Inbox].st = "torn" \/ index[Inbox].msgs[u].id = msgs[u].id
              /\ RewritingBox(Inbox) => op.ix.msgs[u].id = msgs[u].id
        /\ \A v \in UIDs : v <= u =>
             /\ Has(index[Inbox], v) => msgs[v].id # 0
             /\ RewritingBox(Inbox) /\ Has(op.ix, v) => msgs[v].id # 0

ShownOK(r) ==
    r.box = Inbox => SnapshotOK(r.shown) /\ OneUid(r.shown) /\ Standing(r.shown)

\* What the client means and what the command will hit, of what it was shown.
Agrees(r) ==
    /\ r.meant \subseteq {r.shown[u].id : u \in UIDs} \ {0}
    /\ \A u \in UIDs : r.shown[u].id # 0 =>
        /\ u \in r.uids => r.shown[u].id \in r.meant
        /\ r.shown[u].id \in r.meant /\ Here(Inbox, u, r.shown[u].id) => u \in r.uids

ShownDoomed(r) == \E u \in UIDs : r.shown[u].id # 0 /\ r.shown[u].id \in doomed

ResolvedOK(r) ==
    r.cmd = "resolved" /\ r.box = Inbox => Agrees(r) \/ (~r.byUid /\ ShownDoomed(r))

\* The UIDs that EXPUNGE holds, and the messages they stood for.
Sweeps(r, msgs) ==
    /\ SnapshotOK(msgs) /\ OneUid(msgs)
    /\ \A u \in r.uids : msgs[u].id # 0
    /\ r.swept = {msgs[u].id : u \in r.uids}

SweptOK(r) ==
    /\ r.cmd = "wait" => ~Unlocked
    /\ r.box = Inbox =>
        /\ r.swept \subseteq flagged \cap 1 .. appends
        /\ r.cmd = "expunge" => \E msgs \in [UIDs -> Message] : Sweeps(r, msgs)
        /\ r.cmd = "wait" /\ r.swept # {} =>
             RewritingBox(Inbox) /\ \A u \in UIDs : op.ix.msgs[u].id \notin r.swept
        /\ r.cmd = "expunged" =>
             \A u \in UIDs : \A i \in r.swept : ~Here(Inbox, u, i)

SessionsOK ==
    \A s \in Sessions : /\ SessionOK(imap[s]) /\ ShownOK(imap[s])
                        /\ ResolvedOK(imap[s]) /\ SweptOK(imap[s])

\* Flags sit on messages, and \Deleted on those in the log.
FlagsOK ==
    \A u \in UIDs :
        /\ Deleted \in index[Inbox].msgs[u].flags =>
             Has(index[Inbox], u) /\ index[Inbox].msgs[u].id \in flagged
        /\ RewritingBox(Inbox) /\ Deleted \in op.ix.msgs[u].flags => Has(op.ix, u)

\* A message belongs to one mailbox, the one its Append was acknowledged for,
\* and nobody can have asked for its removal before that.
OwnerOK ==
    /\ op.pc # "removeAll"
    /\ \A n \in Boxes, u \in UIDs, i \in 1 .. MaxAppends : Here(n, u, i) =>
        /\ i <= appends
        /\ \A m \in Boxes, v \in UIDs : Here(m, v, i) => m = n
        /\ \A a \in acked : a[1] = i => a[2] = n
    /\ \A a \in acked : a[1] <= appends
    /\ doomed \subseteq 1 .. appends
    /\ ~Unlocked /\ op.body # NoFile => op.ix.msgs[op.uid].id \notin doomed

ImapInv ==
    /\ Inv /\ IdsInv /\ ~wiped
    /\ ImapTypeOK
    /\ SessionsOK
    /\ FlagsOK
    /\ OwnerOK
    /\ OnlyFlaggedExpunged

-----------------------------------------------------------------------------
(* The initial states. *)

LEMMA BlankSession ==
    /\ NoSession \in ImapSessions /\ NoSession.cmd = "none" /\ NoSession.box = None
    /\ NoSession.got = NoFile /\ NoSession.swept = {} /\ NoSession.uids = {}
    /\ \A u \in UIDs : NoSession.shown[u].id = 0
<1>1. -1 \in -1 .. MaxAppends
  BY BoundAssumption
<1>2. NoMessage \in Message /\ NoMessage.id = 0
  BY NoMessageType DEF NoMessage
<1> QED
  BY <1>1, <1>2 DEF NoSession, ImapSessions, NoFile

\* A session that has been shown nothing.
LEMMA BlankOKs ==
    ASSUME NEW r, r.cmd = "none", r.got = NoFile, r.swept = {},
           \A u \in UIDs : r.shown[u].id = 0
    PROVE  SessionOK(r) /\ ShownOK(r) /\ ResolvedOK(r) /\ SweptOK(r)
  BY DEF SessionOK, ShownOK, SnapshotOK, OneUid, Standing, ResolvedOK, SweptOK

LEMMA ImapInitInv == ImapInit => ImapInv
<1> SUFFICES ASSUME ImapInit PROVE ImapInv
  OBVIOUS
<1>1. /\ Init /\ imap = [s \in Sessions |-> NoSession] /\ flagged = {} /\ ~wiped
      /\ acked = {} /\ doomed = {} /\ op = NoOp
      /\ index = [n \in Boxes |-> Absent("none")]
  BY DEF ImapInit, Init
<1>2. Inv
  BY <1>1, InitInv
<1>3. /\ op.pc = "free"
      /\ \A n \in Boxes : \A u \in UIDs : index[n].msgs[u].id = 0
      /\ \A n \in Boxes : \A u \in UIDs : index[n].msgs[u].flags = {}
  BY <1>1, NoOpFields, AbsentType DEF Has, Absent, NoMessage
<1>4. IdsInv
  BY <1>3, BoxAssumption DEF IdsInv, OneUid, RewritingBox, Rewriting
<1>5. ImapTypeOK
  BY <1>1, BlankSession DEF ImapTypeOK
<1>6. SessionsOK
  BY <1>1, BlankSession, BlankOKs DEF SessionsOK
<1>7. FlagsOK
  BY <1>3, BoxAssumption DEF FlagsOK, RewritingBox, Rewriting
<1>8. OwnerOK
  BY <1>1, <1>3, BoundAssumption DEF OwnerOK, Here, RewritingBox, Rewriting, Unlocked
<1> QED
  BY <1>1, <1>2, <1>4, <1>5, <1>6, <1>7, <1>8 DEF ImapInv, OnlyFlaggedExpunged

-----------------------------------------------------------------------------
(* Every step is a step of the store. *)

SessionStep(s) ==
    \/ \E n \in Boxes : GetMailbox(s, n)
    \/ \E n \in Boxes, fs \in SUBSET Flags : CreateMessage(s, n, fs)
    \/ ListMessages(s) \/ Fetch(s)
    \/ \E uid \in BOOLEAN, set \in (SUBSET UIDs) \ {{}} : resolve(s, uid, set)
    \/ \E how \in FlagOps : UpdateMessagesFlags(s, how)
    \/ \E dest \in Boxes : CopyMessages(s, dest)
    \/ Expunge(s) \/ ExpungeNothing(s) \/ ExpungeRemove(s)
    \/ Refused(s) \/ Answer(s) \/ Logout(s)

LEMMA NextParts ==
    ASSUME [ImapNext]_imapVars
    PROVE  \/ \E s \in Sessions : SessionStep(s)
           \/ StoreStep \/ StoreError \/ CopyStep \/ Delivery \/ ImapCrash
           \/ UNCHANGED imapVars
  BY DEF ImapNext, SessionStep

LEMMA SessionStepParts ==
    ASSUME ImapInv, NEW s \in Sessions, SessionStep(s)
    PROVE  /\ [Next]_vars /\ index' = index /\ op'.pc # "removeAll" /\ flagged' = flagged
           /\ ~Unlocked => UNCHANGED <<op, doomed, acked>>
           /\ acked' = acked
           /\ doomed' = doomed \/ ExpungeRemove(s)
<1>1. imap[s] \in ImapSessions /\ SessionOK(imap[s]) /\ op.pc # "removeAll"
  BY DEF ImapInv, ImapTypeOK, SessionsOK, OwnerOK
<1>2. imap[s].uids \in SUBSET UIDs /\ {Deleted} \in SUBSET Flags
  BY <1>1, DeletedAssumption DEF ImapSessions
<1>3. ASSUME NEW n \in Boxes, NEW fs \in SUBSET Flags, CreateMessage(s, n, fs)
      PROVE  /\ [Next]_vars /\ index' = index /\ op'.pc # "removeAll" /\ flagged' = flagged
             /\ UNCHANGED <<acked, doomed>> /\ Unlocked
  <2>1. /\ Append(n, fs) /\ flagged' = flagged
        /\ StartAppend(n, appends + 1, fs, FALSE)
    BY <1>3 DEF CreateMessage, Append
  <2>2. appends + 1 \in 0 .. MaxAppends
    BY <2>1, BoundAssumption DEF ImapInv, Inv, TypeOK, StartAppend, WriteMessage
  <2>3. /\ Unlocked /\ UNCHANGED <<index, acked, doomed>> /\ op'.pc = "body"
    BY <2>1, <2>2, AppendBegins DEF ImapInv, Appending
  <2> QED
    BY <2>1, <2>3 DEF Next, Call
<1>4. ASSUME NEW how \in FlagOps, UpdateMessagesFlags(s, how)
      PROVE  /\ [Next]_vars /\ index' = index /\ op'.pc # "removeAll" /\ flagged' = flagged
             /\ UNCHANGED <<acked, doomed>> /\ Unlocked
  <2>1. /\ SetFlags(imap[s].box, imap[s].uids, {Deleted}, how) /\ flagged' = flagged
        /\ imap[s].box \in Boxes
    BY <1>1, <1>4 DEF UpdateMessagesFlags, SessionOK
  <2>2. /\ Unlocked /\ UNCHANGED <<index, acked, doomed>> /\ op'.pc = "open"
    BY <1>2, <2>1, SetFlagsBegins DEF ImapInv, Prepared, Begun, FlagOps
  <2> QED
    BY <1>2, <2>1, <2>2 DEF Next, Call, FlagOps
<1>5. ASSUME NEW dest \in Boxes, CopyMessages(s, dest)
      PROVE  [Next]_vars /\ UNCHANGED <<index, op, acked, doomed, flagged>>
  <2>1. imap[s].box \in Boxes
    BY <1>1, <1>5 DEF CopyMessages, SessionOK
  <2> QED
    BY <1>2, <1>5, <2>1 DEF CopyMessages, Next, Copy, StartCopy, disk, history
<1>6. CASE ExpungeRemove(s)
  <2>1. /\ Remove(imap[s].box, imap[s].uids) /\ imap[s].box \in Boxes
        /\ flagged' = flagged
    BY <1>1, <1>6 DEF ExpungeRemove, SessionOK
  <2>2. /\ Unlocked /\ UNCHANGED <<index, acked>> /\ op'.pc = "files"
    BY <1>2, <2>1, RemoveBegins DEF ImapInv, Prepared, Begun
  <2> QED
    BY <1>2, <1>6, <2>1, <2>2 DEF Next, Call
<1>7. CASE \/ \E n \in Boxes : GetMailbox(s, n)
           \/ ListMessages(s) \/ Fetch(s)
           \/ \E uid \in BOOLEAN, set \in (SUBSET UIDs) \ {{}} : resolve(s, uid, set)
           \/ Expunge(s) \/ ExpungeNothing(s) \/ Refused(s) \/ Answer(s) \/ Logout(s)
  <2>1. Keep
    BY <1>7 DEF GetMailbox, ListMessages, Fetch, resolve, Expunge, ExpungeNothing,
                Refused, Answer, Logout
  <2> QED
    BY <1>1, <2>1 DEF Keep, vars
<1> QED
  BY <1>1, <1>3, <1>4, <1>5, <1>6, <1>7 DEF SessionStep

\* The call that holds the lock goes on as it was begun, or ends.
LockHeld ==
    ~Unlocked =>
        /\ doomed' = doomed
        /\ \/ op'.pc = "free"
           \/ /\ op'.box = op.box /\ op'.ix = op.ix
              /\ op'.uid = op.uid /\ op'.body = op.body

LEMMA StepFacts ==
    ASSUME ImapInv, [ImapNext]_imapVars
    PROVE  /\ [Next]_vars
           /\ index' = index \/ StoreStep
           /\ op'.pc # "removeAll"
           /\ flagged \subseteq flagged'
           /\ LockHeld
           /\ doomed' = doomed \/ \E s \in Sessions : ExpungeRemove(s)
           /\ \/ acked' = acked
              \/ /\ op.pc = "write" /\ op.body # NoFile
                 /\ acked' = acked \cup {<<op.ix.msgs[op.uid].id, op.box>>}
<1>0. op.pc # "removeAll" /\ op \in Ops /\ NoOp.pc = "free"
  BY NoOpFields DEF ImapInv, OwnerOK, Inv, TypeOK
<1>1. ASSUME NEW s \in Sessions, SessionStep(s)
      PROVE  /\ [Next]_vars /\ index' = index /\ op'.pc # "removeAll"
             /\ flagged' = flagged /\ LockHeld /\ acked' = acked
             /\ doomed' = doomed \/ ExpungeRemove(s)
  BY <1>1, SessionStepParts DEF LockHeld
<1>2. CASE StoreStep
  <2>1. SystemCall /\ flagged \subseteq flagged'
    BY <1>2 DEF StoreStep
  <2>2. /\ op'.pc # "removeAll" /\ doomed' = doomed
        /\ \/ op'.pc = "free"
           \/ /\ op'.box = op.box /\ op'.ix = op.ix
              /\ op'.uid = op.uid /\ op'.body = op.body
    BY <1>0, <2>1 DEF SystemCall, WriteBody, UnlinkBody, OpenIndex, WriteIndex, RemoveAll,
                      Ops, history
  <2>3. \/ acked' = acked
        \/ /\ op.pc = "write" /\ op.body # NoFile
           /\ acked' = acked \cup {<<op.ix.msgs[op.uid].id, op.box>>}
    BY <2>1 DEF SystemCall, WriteBody, UnlinkBody, OpenIndex, WriteIndex, RemoveAll, history
  <2> QED
    BY <1>2, <2>1, <2>2, <2>3 DEF LockHeld, Next
<1>3. CASE StoreError \/ ImapCrash
  <2>1. /\ CallError \/ Crash
        /\ flagged' = flagged
    BY <1>3 DEF StoreError, ImapCrash
  <2>2. op' = NoOp /\ UNCHANGED <<index, doomed, acked>>
    BY <2>1 DEF CallError, Crash, disk, history
  <2> QED
    BY <1>0, <2>1, <2>2 DEF LockHeld, Next
<1>4. CASE CopyStep \/ Delivery
  <2>1. [Next]_vars /\ flagged' = flagged
    BY <1>4, BoxAssumption DEF CopyStep, Delivery, Next, Copy, Call
  <2>2. UNCHANGED <<index, doomed, acked>>
    BY <1>4 DEF CopyStep, Delivery, CopyCheckDest, CopyRead, CopyAbort, CopyAppend, Append,
                StartAppend, WriteMessage, disk, history
  <2>3. CASE CopyAppend
    <3>1. /\ copier.body \in 0 .. MaxAppends /\ copier.to \in Boxes
          /\ copier.msgs[NextCopy].flags \in SUBSET Flags
          /\ StartAppend(copier.to, copier.body, copier.msgs[NextCopy].flags, TRUE)
      BY <2>3, CopyAppendArgs DEF ImapInv
    <3>2. Unlocked /\ op'.pc = "body"
      BY <3>1, AppendBegins DEF ImapInv, Appending
    <3> QED
      BY <2>1, <2>2, <3>2 DEF LockHeld
  <2>4. CASE Delivery
    <3>1. /\ StartAppend(Inbox, appends + 1, {}, FALSE) /\ Inbox \in Boxes
          /\ {} \in SUBSET Flags
      BY <2>4, BoxAssumption DEF Delivery, Append
    <3>2. appends + 1 \in 0 .. MaxAppends
      BY <3>1, BoundAssumption DEF ImapInv, Inv, TypeOK, StartAppend, WriteMessage
    <3>3. Unlocked /\ op'.pc = "body"
      BY <3>1, <3>2, AppendBegins DEF ImapInv, Appending
    <3> QED
      BY <2>1, <2>2, <3>3 DEF LockHeld
  <2>5. CASE CopyCheckDest \/ CopyRead \/ CopyAbort
    <3>1. op' = op
      BY <2>5 DEF CopyCheckDest, CopyRead, CopyAbort
    <3> QED
      BY <1>0, <2>1, <2>2, <3>1 DEF LockHeld
  <2> QED
    BY <1>4, <2>3, <2>4, <2>5 DEF CopyStep
<1>5. CASE UNCHANGED imapVars
  BY <1>0, <1>5 DEF imapVars, vars, LockHeld
<1> QED
  BY <1>1, <1>2, <1>3, <1>4, <1>5, NextParts

LEMMA StoreKept ==
    ASSUME ImapInv, [ImapNext]_imapVars
    PROVE  /\ Inv' /\ IdsInv' /\ ~wiped' /\ SnapshotsKept /\ IdsKept
           /\ Grows /\ \A n \in Boxes : BoxStep(n)
<1>1. [Next]_vars /\ (index' = index \/ StoreStep)
  BY StepFacts
<1>2. StoreStep => ~Unlocked
  BY DEF StoreStep, SystemCall, WriteBody, UnlinkBody, OpenIndex, WriteIndex, RemoveAll,
         Unlocked
<1>3. ~Renames
  <2> SUFFICES ASSUME NEW from \in Boxes, NEW to \in Boxes, RenameMailbox(from, to)
               PROVE  FALSE
    BY DEF Renames
  <2>1. /\ Unlocked /\ index[from].st # "none" /\ from # to
        /\ index' = [index EXCEPT ![to] = index[from], ![from] = Absent("none")]
    BY DEF RenameMailbox
  <2>2. index'[from].st = "none"
    BY <2>1, AbsentType DEF ImapInv, Inv, TypeOK, Absent
  <2> QED
    BY <1>1, <1>2, <2>1, <2>2
<1>4. \A n \in Boxes : BoxStep(n) /\ Grows
  BY <1>1, <1>3, NextBox DEF ImapInv
<1>5. ~wiped'
  BY <1>1, StepFacts, WipedByDeletion DEF ImapInv
<1> QED
  BY <1>1, <1>4, <1>5, NextInv, IdsInvariance, BoxAssumption DEF ImapInv

\* What a mailbox holds after a step it held before, or it is new.
LEMMA HereBefore ==
    ASSUME ImapInv, [ImapNext]_imapVars,
           NEW n \in Boxes, NEW u \in UIDs, NEW i \in 1 .. MaxAppends,
           Here(n, u, i)'
    PROVE  \/ Here(n, u, i)
           \/ /\ i = appends + 1 /\ appends' = appends + 1
              /\ RewritingBox(n)' /\ u = op'.uid
<1>1. BoxStep(n) /\ i # 0
  BY StoreKept, BoundAssumption
<1>2. /\ index'[n].msgs[u].id = 0 \/ Here(n, u, index'[n].msgs[u].id)
      /\ RewritingBox(n)' => \/ op'.ix.msgs[u].id = 0
                             \/ Here(n, u, op'.ix.msgs[u].id)
                             \/ NewHere(n, u)
  BY <1>1, IdsComeFrom
<1>3. i = index'[n].msgs[u].id \/ (RewritingBox(n)' /\ i = op'.ix.msgs[u].id)
  BY DEF Here
<1> QED
  BY <1>1, <1>2, <1>3 DEF NewHere

\* A snapshot stays standing.
LEMMA StandingKept ==
    ASSUME ImapInv, [ImapNext]_imapVars,
           NEW msgs \in [UIDs -> Message], SnapshotOK(msgs), Standing(msgs)
    PROVE  Standing(msgs)'
<1>1. /\ BoxStep(Inbox) /\ Grows /\ SnapshotOK(msgs)' /\ Inbox \in Boxes /\ ~wiped
  BY StoreKept, BoxAssumption DEF ImapInv, SnapshotsKept
<1> SUFFICES ASSUME NEW u \in UIDs, msgs[u].id # 0
             PROVE  /\ \/ msgs[u].id \in doomed'
                       \/ /\ index'[Inbox].st = "torn" \/ index'[Inbox].msgs[u].id = msgs[u].id
                          /\ RewritingBox(Inbox)' => op'.ix.msgs[u].id = msgs[u].id
                    /\ \A v \in UIDs : v <= u =>
                         /\ Has(index'[Inbox], v) => msgs[v].id # 0
                         /\ RewritingBox(Inbox)' /\ Has(op'.ix, v) => msgs[v].id # 0
  BY DEF Standing, Has
<1>2. /\ Absent("torn").st = "torn"
      /\ \A v \in UIDs : Absent("torn").msgs[v].id = 0
  BY AbsentType DEF Has, Absent
<1>3. ASSUME msgs[u].id \notin doomed'
      PROVE  /\ index'[Inbox].st = "torn" \/ index'[Inbox].msgs[u].id = msgs[u].id
             /\ RewritingBox(Inbox)' => op'.ix.msgs[u].id = msgs[u].id
  <2>1. /\ index[Inbox].st = "torn" \/ index[Inbox].msgs[u].id = msgs[u].id
        /\ RewritingBox(Inbox) => op.ix.msgs[u].id = msgs[u].id
    BY <1>1, <1>3 DEF Standing, Grows
  <2> QED
    BY <1>1, <1>2, <1>3, <2>1 DEF BoxStep, SlotStep
<1>4. ASSUME NEW v \in UIDs, v <= u, Has(index'[Inbox], v) PROVE msgs[v].id # 0
  BY <1>1, <1>2, <1>4 DEF BoxStep, Standing, Has
<1>5. ASSUME NEW v \in UIDs, v <= u, RewritingBox(Inbox)', Has(op'.ix, v)
      PROVE  msgs[v].id # 0
  <2>1. CASE RewritingBox(Inbox) /\ op'.ix = op.ix
    BY <1>5, <2>1 DEF Standing
  <2>2. CASE SlotStep(Inbox, v)
    <3>1. CASE op'.ix.msgs[v].id = index[Inbox].msgs[v].id
      BY <1>5, <3>1 DEF Standing, Has
    <3>2. CASE v = op'.uid /\ op'.ix.next = v + 1 /\ op'.body # NoFile
      <4>1. u < op'.ix.next /\ u # op'.uid
        BY <1>1, <1>5, <3>2 DEF SnapshotOK, SameUid
      <4> QED
        BY <1>5, <3>2, <4>1, Bounds
    <3> QED
      BY <1>5, <2>2, <3>1, <3>2 DEF SlotStep, Has
  <2> QED
    BY <1>1, <1>5, <2>1, <2>2 DEF BoxStep
<1> QED
  BY <1>3, <1>4, <1>5

-----------------------------------------------------------------------------
(* The sessions: what the steps of others, and the store's, leave to one. *)

AllOK(r) == SessionOK(r) /\ ShownOK(r) /\ ResolvedOK(r) /\ SweptOK(r)

LEMMA ShownLasts ==
    ASSUME ImapInv, [ImapNext]_imapVars, NEW s \in Sessions,
           imap'[s].shown = imap[s].shown, imap'[s].box = imap[s].box
    PROVE  ShownOK(imap[s])'
<1> SUFFICES ASSUME imap[s].box = Inbox PROVE ShownOK(imap[s])'
  BY DEF ShownOK
<1>1. PICK msgs \in [UIDs -> Message] : msgs = imap[s].shown
  BY DEF ImapInv, ImapTypeOK, ImapSessions
<1>2. SnapshotOK(msgs) /\ OneUid(msgs) /\ Standing(msgs)
  BY <1>1 DEF ImapInv, SessionsOK, ShownOK
<1>3. SnapshotOK(msgs)' /\ OneUid(msgs)' /\ Standing(msgs)'
  BY <1>2, StoreKept, StandingKept DEF ImapInv, SnapshotsKept, IdsKept
<1>4. imap'[s].shown = msgs
  BY <1>1
<1> QED
  BY <1>3, <1>4 DEF ShownOK, SnapshotOK, OneUid, Standing, SameUid

\* Between two commands a session keeps what it was shown, and no more.
LEMMA IdleFields ==
    ASSUME NEW r \in ImapSessions
    PROVE  /\ Idle(r) \in ImapSessions /\ Idle(r).cmd = "none" /\ Idle(r).box = r.box
           /\ Idle(r).shown = r.shown /\ Idle(r).got = NoFile /\ Idle(r).swept = {}
           /\ Idle(r).uids = {}
  BY BlankSession DEF Idle, ImapSessions

LEMMA AtRest ==
    ASSUME ImapInv, [ImapNext]_imapVars, NEW s \in Sessions,
           imap'[s].shown = imap[s].shown, imap'[s].box = imap[s].box,
           imap'[s].cmd \in {"none", "copying"},
           imap'[s].got = NoFile, imap'[s].swept = {}
    PROVE  AllOK(imap[s])'
  BY ShownLasts DEF AllOK, SessionOK, ResolvedOK, SweptOK

\* A session that does nothing, while the call it may wait for goes on.
LEMMA SameSession ==
    ASSUME ImapInv, [ImapNext]_imapVars, NEW s \in Sessions,
           imap'[s] = imap[s], imap[s].cmd = "wait" => ~Unlocked'
    PROVE  AllOK(imap[s])'
<1> DEFINE r == imap[s]
<1>1. r \in ImapSessions /\ SessionOK(r) /\ ResolvedOK(r) /\ SweptOK(r)
  BY DEF ImapInv, ImapTypeOK, SessionsOK
<1>2. SessionOK(imap[s])' /\ ShownOK(imap[s])'
  BY <1>1, ShownLasts DEF SessionOK
<1>3. /\ Grows /\ flagged \subseteq flagged' /\ LockHeld /\ Inbox \in Boxes
      /\ op'.pc # "removeAll" /\ appends \in Nat /\ appends' \in Nat
  BY StoreKept, StepFacts, BoxAssumption, BoundAssumption DEF ImapInv, Inv, TypeOK
<1>4. \A u \in UIDs : \A i \in 1 .. appends : Here(Inbox, u, i)' => Here(Inbox, u, i)
  <2> SUFFICES ASSUME NEW u \in UIDs, NEW i \in 1 .. appends, Here(Inbox, u, i)'
               PROVE  Here(Inbox, u, i)
    OBVIOUS
  <2>1. i \in 1 .. MaxAppends /\ i # appends + 1
    BY BoundAssumption DEF ImapInv, Inv, TypeOK
  <2> QED
    BY <1>3, <2>1, HereBefore
<1> HIDE DEF r
<1>5. ResolvedOK(imap[s])'
  <2> SUFFICES ASSUME r.cmd = "resolved", r.box = Inbox, ~(~r.byUid /\ ShownDoomed(r)')
               PROVE  Agrees(r)'
    BY DEF ResolvedOK, Agrees, ShownDoomed, r
  <2>1. ~r.byUid => ~ShownDoomed(r)
    BY <1>3 DEF ShownDoomed, Grows, r
  <2>2. Agrees(r)
    BY <1>1, <2>1 DEF ResolvedOK
  <2>3. \A u \in UIDs : r.shown[u].id # 0 => r.shown[u].id \in 1 .. appends
    <3>1. SnapshotOK(r.shown) /\ OneUid(r.shown)
      BY DEF ImapInv, SessionsOK, ShownOK, r
    <3>2. \A u \in UIDs : r.shown[u].id \in Nat
      BY <1>1, BoundAssumption DEF ImapSessions, Message
    <3> QED
      BY <1>3, <3>1, <3>2 DEF OneUid
  <2>4. r' = r
    BY DEF r
  <2> QED
    BY <1>4, <2>2, <2>3, <2>4 DEF Agrees
<1>6. SweptOK(imap[s])'
  <2>1. r.cmd = "wait" => ~Unlocked'
    BY DEF r
  <2>2. ASSUME r.box = Inbox
        PROVE  /\ r.swept \subseteq flagged' \cap 1 .. appends'
               /\ r.cmd = "expunge" => (\E msgs \in [UIDs -> Message] : Sweeps(r, msgs)')
               /\ r.cmd = "wait" /\ r.swept # {} =>
                    RewritingBox(Inbox)' /\ \A u \in UIDs : op'.ix.msgs[u].id \notin r.swept
               /\ r.cmd = "expunged" =>
                    \A u \in UIDs : \A i \in r.swept : ~Here(Inbox, u, i)'
    <3>1. r.swept \subseteq flagged \cap 1 .. appends
      BY <1>1, <2>2 DEF SweptOK
    <3>2. r.swept \subseteq flagged' \cap 1 .. appends'
      BY <1>3, <3>1 DEF Grows
    <3>3. ASSUME r.cmd = "expunge"
          PROVE  \E msgs \in [UIDs -> Message] : Sweeps(r, msgs)'
      <4>1. PICK msgs \in [UIDs -> Message] : Sweeps(r, msgs)
        BY <1>1, <2>2, <3>3 DEF SweptOK
      <4>2. SnapshotOK(msgs)' /\ OneUid(msgs)'
        BY <4>1, StoreKept DEF ImapInv, SnapshotsKept, IdsKept, Sweeps
      <4>3. r' = r
        BY DEF r
      <4> QED
        BY <4>1, <4>2, <4>3 DEF Sweeps
    <3>4. ASSUME r.cmd = "wait", r.swept # {}
          PROVE  RewritingBox(Inbox)' /\ \A u \in UIDs : op'.ix.msgs[u].id \notin r.swept
      <4>1. /\ RewritingBox(Inbox) /\ ~Unlocked
            /\ \A u \in UIDs : op.ix.msgs[u].id \notin r.swept
        BY <1>1, <2>2, <3>4 DEF SweptOK
      <4>2. op'.pc # "free" /\ op'.ix = op.ix /\ op'.box = op.box
        BY <1>3, <2>1, <3>4, <4>1 DEF LockHeld, Unlocked
      <4>3. op'.pc \in Rewriting
        BY <1>3, <4>2, StoreKept DEF Inv, TypeOK, Ops, Rewriting
      <4> QED
        BY <4>1, <4>2, <4>3 DEF RewritingBox
    <3>5. ASSUME r.cmd = "expunged", NEW u \in UIDs, NEW i \in r.swept
          PROVE  ~Here(Inbox, u, i)'
      BY <1>1, <1>4, <2>2, <3>1, <3>5 DEF SweptOK
    <3> QED
      BY <3>2, <3>3, <3>4, <3>5
  <2>3. r' = r /\ imap'[s] = r
    BY DEF r
  <2> QED
    BY <2>1, <2>2, <2>3 DEF SweptOK, Sweeps
<1> QED
  BY <1>2, <1>5, <1>6 DEF AllOK

\* The answer that a session which waits gets from a step of the store.
LEMMA ReturnTypes ==
    ASSUME ImapInv, NEW ok \in BOOLEAN, Return(ok)
    PROVE  /\ imap' \in [Sessions -> ImapSessions]
           /\ \A s \in Sessions :
                \/ /\ imap'[s] = Idle(imap[s])
                \/ /\ imap'[s] = imap[s]
                   /\ imap[s].cmd = "wait" => op'.pc # "free"
                \/ /\ imap'[s] \in ImapSessions /\ imap'[s].cmd = "expunged"
                   /\ imap'[s].box = imap[s].box /\ imap'[s].shown = imap[s].shown
                   /\ imap'[s].got = imap[s].got /\ imap'[s].swept = imap[s].swept
                   /\ imap[s].cmd = "wait" /\ op'.pc = "free" /\ ok
                   /\ imap[s].swept # {}
<1>1. \A s \in Sessions : imap[s] \in ImapSessions
  BY DEF ImapInv, ImapTypeOK
<1>2. ASSUME NEW s \in Sessions
      PROVE  \/ /\ imap'[s] = Idle(imap[s])
             \/ /\ imap'[s] = imap[s]
                /\ imap[s].cmd = "wait" => op'.pc # "free"
             \/ /\ imap'[s] = [imap[s] EXCEPT !.cmd = "expunged"]
                /\ imap[s].cmd = "wait" /\ op'.pc = "free" /\ ok
                /\ imap[s].swept # {}
  <2> DEFINE a == \/ imap[s].cmd = "wait" /\ op'.pc = "free" /\ (~ok \/ imap[s].swept = {})
                  \/ imap[s].cmd = "copying" /\ copier'.pc = "idle"
             b == imap[s].cmd = "wait" /\ op'.pc = "free" /\ ok /\ imap[s].swept # {}
  <2>1. imap'[s] = CASE a -> Idle(imap[s])
                     [] b -> [imap[s] EXCEPT !.cmd = "expunged"]
                     [] OTHER -> imap[s]
    BY DEF Return
  <2>2. a => ~b
    OBVIOUS
  <2>3. CASE a
    BY <2>1, <2>2, <2>3
  <2>4. CASE b
    BY <2>1, <2>2, <2>4
  <2>5. CASE ~a /\ ~b
    BY <2>1, <2>5
  <2> QED
    BY <2>3, <2>4, <2>5
<1>3. ASSUME NEW s \in Sessions, imap'[s] = [imap[s] EXCEPT !.cmd = "expunged"]
      PROVE  /\ imap'[s] \in ImapSessions /\ imap'[s].cmd = "expunged"
             /\ imap'[s].box = imap[s].box /\ imap'[s].shown = imap[s].shown
             /\ imap'[s].got = imap[s].got /\ imap'[s].swept = imap[s].swept
  BY <1>1, <1>3 DEF ImapSessions
<1>4. \A s \in Sessions : imap'[s] \in ImapSessions
  BY <1>1, <1>2, <1>3, IdleFields
<1>5. imap' = [s \in Sessions |-> imap'[s]]
  BY DEF Return
<1> QED
  BY <1>2, <1>3, <1>4, <1>5

\* Another session's EXPUNGE or Append cannot be what ends the wait: the lock
\* was taken by the call that the session waits for.
LEMMA ReturnSessions ==
    ASSUME ImapInv, [ImapNext]_imapVars, NEW ok \in BOOLEAN, Return(ok),
           ok /\ op'.pc = "free" /\ ~Unlocked => WriteIndex
    PROVE  \A s \in Sessions : AllOK(imap[s])'
<1> SUFFICES ASSUME NEW s \in Sessions PROVE AllOK(imap[s])'
  OBVIOUS
<1>1. imap[s] \in ImapSessions /\ SessionOK(imap[s]) /\ SweptOK(imap[s])
  BY DEF ImapInv, ImapTypeOK, SessionsOK
<1>2. CASE imap'[s] = Idle(imap[s])
  BY <1>1, <1>2, IdleFields, AtRest
<1>3. CASE imap'[s] = imap[s] /\ (imap[s].cmd = "wait" => op'.pc # "free")
  BY <1>3, SameSession DEF Unlocked
<1>4. CASE /\ imap'[s] \in ImapSessions /\ imap'[s].cmd = "expunged"
           /\ imap'[s].box = imap[s].box /\ imap'[s].shown = imap[s].shown
           /\ imap'[s].got = imap[s].got /\ imap'[s].swept = imap[s].swept
           /\ imap[s].cmd = "wait" /\ op'.pc = "free" /\ ok
           /\ imap[s].swept # {}
  <2>1. ~Unlocked /\ WriteIndex
    BY <1>1, <1>4 DEF SweptOK
  <2>2. ASSUME imap[s].box = Inbox
        PROVE  /\ imap[s].swept \subseteq flagged' \cap 1 .. appends'
               /\ \A u \in UIDs : \A i \in imap[s].swept : ~Here(Inbox, u, i)'
    <3>1. /\ RewritingBox(Inbox) /\ \A u \in UIDs : op.ix.msgs[u].id \notin imap[s].swept
          /\ imap[s].swept \subseteq flagged \cap 1 .. appends
      BY <1>1, <1>4, <2>2 DEF SweptOK
    <3>2. index'[Inbox] = op.ix /\ appends' = appends /\ flagged \subseteq flagged'
      BY <2>1, <3>1, BoxAssumption, StepFacts
      DEF WriteIndex, RewritingBox, ImapInv, Inv, TypeOK
    <3>3. ~RewritingBox(Inbox)'
      BY <1>4 DEF RewritingBox, Rewriting
    <3> QED
      BY <3>1, <3>2, <3>3 DEF Here
  <2>3. SweptOK(imap[s])'
    BY <1>4, <2>2 DEF SweptOK
  <2>4. SessionOK(imap[s])' /\ ResolvedOK(imap[s])'
    BY <1>1, <1>4 DEF SessionOK, ResolvedOK
  <2> QED
    BY <1>4, <2>3, <2>4, ShownLasts DEF AllOK
<1> QED
  BY <1>2, <1>3, <1>4, ReturnTypes

-----------------------------------------------------------------------------
(* The sessions: their own steps. *)

Moves(s) ==
    /\ imap' \in [Sessions -> ImapSessions]
    /\ \A t \in Sessions \ {s} : imap'[t] = imap[t]
    /\ AllOK(imap[s])'

LEMMA OneMoves ==
    ASSUME ImapInv, [ImapNext]_imapVars, NEW s \in Sessions, SessionStep(s), Moves(s)
    PROVE  \A t \in Sessions : AllOK(imap[t])'
<1>1. \A t \in Sessions \ {s} : imap[t].cmd = "wait" => ~Unlocked'
  BY SessionStepParts DEF ImapInv, SessionsOK, SweptOK, Unlocked
<1>2. \A t \in Sessions \ {s} : AllOK(imap[t])'
  BY <1>1, SameSession DEF Moves
<1> QED
  BY <1>2 DEF Moves

LEMMA GoesIdle ==
    ASSUME ImapInv, [ImapNext]_imapVars, NEW s \in Sessions,
           imap' = [imap EXCEPT ![s] = Idle(@)]
    PROVE  Moves(s)
<1>1. imap[s] \in ImapSessions /\ imap \in [Sessions -> ImapSessions]
  BY DEF ImapInv, ImapTypeOK
<1>2. imap'[s] = Idle(imap[s]) /\ \A t \in Sessions \ {s} : imap'[t] = imap[t]
  BY <1>1
<1>3. imap' \in [Sessions -> ImapSessions]
  BY <1>1, IdleFields
<1>4. AllOK(imap[s])'
  BY <1>1, <1>2, IdleFields, AtRest
<1> QED
  BY <1>2, <1>3, <1>4 DEF Moves

LEMMA GoesBlank ==
    ASSUME ImapInv, NEW s \in Sessions, NEW r \in ImapSessions,
           imap' = [imap EXCEPT ![s] = r], r.cmd = "none", r.got = NoFile, r.swept = {},
           \A u \in UIDs : r.shown[u].id = 0
    PROVE  Moves(s)
<1>1. imap \in [Sessions -> ImapSessions]
  BY DEF ImapInv, ImapTypeOK
<1>2. /\ imap'[s] = r /\ \A t \in Sessions \ {s} : imap'[t] = imap[t]
      /\ imap' \in [Sessions -> ImapSessions]
  BY <1>1
<1>3. AllOK(imap[s])'
  BY <1>2
  DEF AllOK, SessionOK, ShownOK, SnapshotOK, OneUid, Standing, ResolvedOK, SweptOK
<1> QED
  BY <1>2, <1>3 DEF Moves

LEMMA MovesGetMailbox ==
    ASSUME ImapInv, NEW s \in Sessions, NEW n \in Boxes, GetMailbox(s, n)
    PROVE  Moves(s)
<1> DEFINE r == [NoSession EXCEPT !.box = n]
<1>1. /\ r \in ImapSessions /\ r.cmd = "none" /\ r.got = NoFile /\ r.swept = {}
      /\ \A u \in UIDs : r.shown[u].id = 0
  BY BlankSession DEF ImapSessions
<1>2. imap' = [imap EXCEPT ![s] = r]
  BY DEF GetMailbox
<1> HIDE DEF r
<1> QED
  BY <1>1, <1>2, GoesBlank

LEMMA MovesLogout ==
    ASSUME ImapInv, NEW s \in Sessions, Logout(s)
    PROVE  Moves(s)
  BY BlankSession, GoesBlank DEF Logout

\* The snapshot a command takes of INBOX.
LEMMA Taken ==
    ASSUME ImapInv, Snapshot(Inbox)
    PROVE  /\ SnapshotOK(ReadIndex(Inbox).msgs) /\ OneUid(ReadIndex(Inbox).msgs)
           /\ Standing(ReadIndex(Inbox).msgs)
           /\ index[Inbox].st # "torn"
           /\ \A u \in UIDs : /\ ReadIndex(Inbox).msgs[u].id = index[Inbox].msgs[u].id
                              /\ Deleted \in ReadIndex(Inbox).msgs[u].flags =>
                                   /\ Has(index[Inbox], u)
                                   /\ index[Inbox].msgs[u].id \in flagged
<1>1. Unlocked /\ Readable(Inbox) /\ Inbox \in Boxes /\ Inv
  BY BoxAssumption DEF Snapshot, ImapInv
<1>2. \A u \in UIDs : /\ ReadIndex(Inbox).msgs[u].id = index[Inbox].msgs[u].id
                      /\ Has(index[Inbox], u) =>
                           ReadIndex(Inbox).msgs[u] = index[Inbox].msgs[u]
                      /\ Vacant(Inbox, ReadIndex(Inbox), u)
  BY <1>1, ReadIndexFacts
<1>3. SnapshotOK(ReadIndex(Inbox).msgs) /\ index[Inbox].st # "torn"
  BY <1>1, SnapshotTaken, ReadIndexFacts
<1>4. OneUid(ReadIndex(Inbox).msgs)
  BY <1>2 DEF ImapInv, IdsInv, OneUid
<1>5. Standing(ReadIndex(Inbox).msgs)
  BY <1>1, <1>2 DEF Standing, Has, RewritingBox, Rewriting, Unlocked
<1>6. \A u \in UIDs : Deleted \in ReadIndex(Inbox).msgs[u].flags =>
        Has(index[Inbox], u) /\ index[Inbox].msgs[u].id \in flagged
  <2>1. NoMessage.flags = {}
    BY DEF NoMessage
  <2> QED
    BY <1>2, <2>1 DEF ImapInv, FlagsOK, Vacant, Has
<1> QED
  BY <1>2, <1>3, <1>4, <1>5, <1>6

LEMMA ReadType ==
    ASSUME ImapInv, NEW n \in Boxes, Snapshot(n)
    PROVE  ReadIndex(n).msgs \in [UIDs -> Message]
  BY ReadIndexFacts DEF ImapInv, Snapshot, Index

LEMMA MovesListMessages ==
    ASSUME ImapInv, [ImapNext]_imapVars, NEW s \in Sessions, ListMessages(s)
    PROVE  Moves(s)
<1> DEFINE r == imap[s]
           m == ReadIndex(r.box).msgs
           all == {u \in UIDs : m[u].id # 0}
<1>1. /\ r \in ImapSessions /\ SessionOK(r) /\ imap \in [Sessions -> ImapSessions]
      /\ r.cmd = "none" /\ r.box \in Boxes /\ Snapshot(r.box)
      /\ imap' = [imap EXCEPT ![s].cmd = "fetch", ![s].shown = Shown(m), ![s].uids = all]
      /\ UNCHANGED vars
  BY DEF ListMessages, Ready, Keep, ImapInv, ImapTypeOK, SessionsOK, ImapSessions
<1>2. m \in [UIDs -> Message]
  BY <1>1, ReadType
<1>3. r.box = Inbox => SnapshotOK(m) /\ OneUid(m) /\ Standing(m)
  BY <1>1, Taken
<1> HIDE DEF m
<1>4. /\ Shown(m) \in [UIDs -> Message]
      /\ \A u \in UIDs : Shown(m)[u].id = m[u].id /\ Shown(m)[u].body = m[u].body
  <2>1. \A x \in Message : /\ [x EXCEPT !.flags = {}] \in Message
                           /\ [x EXCEPT !.flags = {}].id = x.id
                           /\ [x EXCEPT !.flags = {}].body = x.body
    BY DEF Message
  <2> QED
    BY <1>2, <2>1 DEF Shown
<1>5. /\ imap' \in [Sessions -> ImapSessions]
      /\ \A t \in Sessions \ {s} : imap'[t] = imap[t]
      /\ imap'[s].cmd = "fetch" /\ imap'[s].box = r.box /\ imap'[s].shown = Shown(m)
      /\ imap'[s].uids = all /\ imap'[s].got = r.got /\ imap'[s].swept = r.swept
  <2>1. all \in SUBSET UIDs
    OBVIOUS
  <2> HIDE DEF all
  <2> QED
    BY <1>1, <1>4, <2>1 DEF ImapSessions
<1>6. SessionOK(imap[s])' /\ ResolvedOK(imap[s])' /\ SweptOK(imap[s])'
  BY <1>1, <1>4, <1>5 DEF SessionOK, ResolvedOK, SweptOK
<1>7. r.box = Inbox => SnapshotOK(Shown(m)) /\ OneUid(Shown(m)) /\ Standing(Shown(m))
  BY <1>3, <1>4 DEF SnapshotOK, SameUid, OneUid, Standing
<1>8. ShownOK(imap[s])'
  <2>1. UNCHANGED <<index, files, op, appends, doomed>>
    BY <1>1 DEF vars
  <2>2. PICK w \in [UIDs -> Message] : w = Shown(m)
    BY <1>4
  <2>3. r.box = Inbox => SnapshotOK(w)' /\ OneUid(w)' /\ Standing(w)'
    BY <1>7, <2>1, <2>2
    DEF SnapshotOK, SameUid, OneUid, Standing, Has, RewritingBox, Rewriting
  <2>4. imap'[s].shown = w
    BY <1>5, <2>2
  <2> QED
    BY <1>5, <2>3, <2>4 DEF ShownOK, SnapshotOK, SameUid, OneUid, Standing
<1> QED
  BY <1>5, <1>6, <1>8 DEF Moves, AllOK

LEMMA MovesFetch ==
    ASSUME ImapInv, [ImapNext]_imapVars, NEW s \in Sessions, Fetch(s)
    PROVE  Moves(s)
<1>1. CASE imap' = [imap EXCEPT ![s] = Idle(@)]
  BY <1>1, GoesIdle
<1>2. ASSUME NEW u \in imap[s].uids, imap[s].cmd = "fetch",
             imap' = [imap EXCEPT ![s].uids = @ \ {u}, ![s].uid = u,
                                  ![s].got = files[imap[s].box][u]]
      PROVE  Moves(s)
  <2> DEFINE r == imap[s]
             b == files[r.box][u]
  <2>1. /\ r \in ImapSessions /\ SessionOK(r) /\ ShownOK(r) /\ u \in UIDs
        /\ imap \in [Sessions -> ImapSessions] /\ r.box \in Boxes
        /\ r.shown[u].id # 0 /\ r.swept = {}
    BY <1>2 DEF ImapInv, ImapTypeOK, SessionsOK, ImapSessions, SessionOK
  <2>2. b \in -1 .. MaxAppends
    BY <2>1 DEF ImapInv, Inv, TypeOK
  <2>3. r.box = Inbox /\ b # NoFile => b = r.shown[u].body
    BY <2>1 DEF ShownOK, SnapshotOK
  <2>4. PICK left \in SUBSET UIDs : left = r.uids \ {u}
    BY <2>1 DEF ImapSessions
  <2>a. /\ imap' = [imap EXCEPT ![s].uids = left, ![s].uid = u, ![s].got = b]
        /\ r.cmd = "fetch"
    BY <1>2, <2>1, <2>4
  <2> HIDE DEF b
  <2>5. /\ imap' \in [Sessions -> ImapSessions]
        /\ \A t \in Sessions \ {s} : imap'[t] = imap[t]
        /\ imap'[s].cmd = "fetch" /\ imap'[s].box = r.box /\ imap'[s].shown = r.shown
        /\ imap'[s].uids = left /\ imap'[s].uid = u /\ imap'[s].got = b
        /\ imap'[s].swept = r.swept
    BY <2>1, <2>2, <2>a DEF ImapSessions
  <2>6. SessionOK(imap[s])' /\ ResolvedOK(imap[s])' /\ SweptOK(imap[s])'
    BY <2>1, <2>3, <2>4, <2>5, <2>a DEF SessionOK, ResolvedOK, SweptOK
  <2> QED
    BY <2>5, <2>6, ShownLasts DEF Moves, AllOK
<1> QED
  BY <1>1, <1>2 DEF Fetch

\* A command hands its Store call the lock, and waits.
LEMMA MovesToWait ==
    ASSUME ImapInv, [ImapNext]_imapVars, NEW s \in Sessions,
           imap[s].cmd # "fetch",
           imap' = [imap EXCEPT ![s].cmd = "wait"], ~Unlocked',
           imap[s].box = Inbox /\ imap[s].swept # {} =>
               /\ imap[s].swept \subseteq flagged' \cap 1 .. appends'
               /\ RewritingBox(Inbox)'
               /\ \A u \in UIDs : op'.ix.msgs[u].id \notin imap[s].swept
    PROVE  Moves(s)
<1> DEFINE r == imap[s]
<1>1. /\ r \in ImapSessions /\ SessionOK(r)
      /\ imap \in [Sessions -> ImapSessions]
  BY DEF ImapInv, ImapTypeOK, SessionsOK
<1>2. /\ imap' \in [Sessions -> ImapSessions]
      /\ \A t \in Sessions \ {s} : imap'[t] = imap[t]
      /\ imap'[s].cmd = "wait" /\ imap'[s].box = r.box /\ imap'[s].shown = r.shown
      /\ imap'[s].got = r.got /\ imap'[s].swept = r.swept
  BY <1>1 DEF ImapSessions
<1>3. SessionOK(imap[s])' /\ ResolvedOK(imap[s])'
  BY <1>1, <1>2 DEF SessionOK, ResolvedOK
<1>4. SweptOK(imap[s])'
  BY <1>2 DEF SweptOK
<1> QED
  BY <1>2, <1>3, <1>4, ShownLasts DEF Moves, AllOK

LEMMA MovesCreateMessage ==
    ASSUME ImapInv, [ImapNext]_imapVars, NEW s \in Sessions, NEW n \in Boxes,
           NEW fs \in SUBSET Flags, CreateMessage(s, n, fs)
    PROVE  Moves(s)
<1>1. /\ imap[s].cmd = "none" /\ StartAppend(n, appends + 1, fs, FALSE)
      /\ imap' = [imap EXCEPT ![s].cmd = "wait"]
  BY DEF CreateMessage, Append
<1>2. imap[s].swept = {}
  BY <1>1 DEF ImapInv, SessionsOK, SessionOK
<1>3. appends + 1 \in 0 .. MaxAppends
  BY <1>1, BoundAssumption DEF ImapInv, Inv, TypeOK, StartAppend, WriteMessage
<1>4. ~Unlocked'
  BY <1>1, <1>3, AppendBegins DEF ImapInv, Appending, Unlocked
<1> QED
  BY <1>1, <1>2, <1>4, MovesToWait

LEMMA MovesUpdateFlags ==
    ASSUME ImapInv, [ImapNext]_imapVars, NEW s \in Sessions,
           NEW how \in FlagOps, UpdateMessagesFlags(s, how)
    PROVE  Moves(s)
<1>1. /\ imap[s].cmd = "resolved" /\ imap' = [imap EXCEPT ![s].cmd = "wait"]
      /\ SetFlags(imap[s].box, imap[s].uids, {Deleted}, how)
  BY DEF UpdateMessagesFlags
<1>2. /\ imap[s].swept = {} /\ imap[s].box \in Boxes /\ imap[s].uids \in SUBSET UIDs
      /\ {Deleted} \in SUBSET Flags
  BY <1>1, DeletedAssumption DEF ImapInv, SessionsOK, SessionOK, ImapTypeOK, ImapSessions
<1>3. ~Unlocked'
  BY <1>1, <1>2, SetFlagsBegins DEF ImapInv, Prepared, Begun, Unlocked, FlagOps
<1> QED
  BY <1>1, <1>2, <1>3, MovesToWait

LEMMA MovesCopyMessages ==
    ASSUME ImapInv, [ImapNext]_imapVars, NEW s \in Sessions,
           NEW dest \in Boxes, CopyMessages(s, dest)
    PROVE  Moves(s)
<1> DEFINE r == [Idle(imap[s]) EXCEPT !.cmd = "copying"]
<1>1. imap' = [imap EXCEPT ![s] = r] /\ imap \in [Sessions -> ImapSessions]
  BY DEF CopyMessages, ImapInv, ImapTypeOK
<1>2. /\ r \in ImapSessions /\ r.cmd = "copying" /\ r.box = imap[s].box
      /\ r.shown = imap[s].shown /\ r.got = NoFile /\ r.swept = {}
  <2>1. ASSUME NEW i \in ImapSessions
        PROVE  LET c == [i EXCEPT !.cmd = "copying"]
               IN  /\ c \in ImapSessions /\ c.cmd = "copying" /\ c.box = i.box
                   /\ c.shown = i.shown /\ c.got = i.got /\ c.swept = i.swept
    BY DEF ImapSessions
  <2> QED
    BY <1>1, <2>1, IdleFields
<1> HIDE DEF r
<1>3. /\ imap'[s] = r /\ imap' \in [Sessions -> ImapSessions]
      /\ \A t \in Sessions \ {s} : imap'[t] = imap[t]
  BY <1>1, <1>2
<1> QED
  BY <1>2, <1>3, AtRest DEF Moves

\* As long as nothing that the client was shown has been removed, the messages
\* it was shown have the numbers that it counted.
LEMMA SameNumbers ==
    ASSUME ImapInv, Snapshot(Inbox), NEW was \in [UIDs -> Message], Standing(was),
           \A v \in UIDs : was[v].id # 0 => was[v].id \notin doomed,
           NEW u \in UIDs, was[u].id # 0
    PROVE  SeqNum(ReadIndex(Inbox).msgs, u) = SeqNum(was, u)
<1> DEFINE m == ReadIndex(Inbox).msgs
<1>1. \A v \in UIDs : m[v].id = index[Inbox].msgs[v].id /\ index[Inbox].st # "torn"
  BY Taken
<1>2. \A v \in UIDs : v <= u => (m[v].id # 0 <=> was[v].id # 0)
  BY <1>1 DEF Standing, Has
<1>3. {v \in UIDs : m[v].id # 0 /\ v <= u} = {v \in UIDs : was[v].id # 0 /\ v <= u}
  BY <1>2
<1> QED
  BY <1>3 DEF SeqNum

\* What a command selects in its own snapshot is what the client means.
LEMMA SelectedAgrees ==
    ASSUME ImapInv, Snapshot(Inbox), NEW was \in [UIDs -> Message],
           OneUid(was), NEW uid, NEW set,
           NEW sel, sel = Selected(uid, ReadIndex(Inbox).msgs, set),
           NEW meant, meant = {was[u].id : u \in Selected(uid, was, set)},
           NEW u \in UIDs, was[u].id # 0,
           identifier(uid, ReadIndex(Inbox).msgs, u) = identifier(uid, was, u)
    PROVE  /\ u \in sel => was[u].id \in meant
           /\ was[u].id \in meant /\ Here(Inbox, u, was[u].id) => u \in sel
<1> DEFINE m == ReadIndex(Inbox).msgs
<1>1. \A v \in UIDs : m[v].id = index[Inbox].msgs[v].id
  BY Taken
<1>2. identifier(uid, m, u) = identifier(uid, was, u)
  OBVIOUS
<1>3. u \in sel <=> m[u].id # 0 /\ identifier(uid, m, u) \in set
  BY DEF Selected
<1>4. \A v \in UIDs : v \in Selected(uid, was, set) <=>
        was[v].id # 0 /\ identifier(uid, was, v) \in set
  BY DEF Selected
<1>5. ASSUME was[u].id \in meant, Here(Inbox, u, was[u].id)
      PROVE  u \in sel
  <2>1. PICK w \in UIDs : w \in Selected(uid, was, set) /\ was[w].id = was[u].id
    BY <1>5 DEF Selected
  <2>2. index[Inbox].msgs[u].id = was[u].id
    BY <1>5 DEF Here, Snapshot, Unlocked, RewritingBox, Rewriting
  <2>3. w = u
    BY <2>1, <2>2 DEF OneUid
  <2> HIDE DEF m
  <2> QED
    BY <1>1, <1>2, <1>3, <1>4, <2>1, <2>2, <2>3
<1> HIDE DEF m
<1>6. u \in sel => was[u].id \in meant
  BY <1>2, <1>3, <1>4
<1> QED
  BY <1>5, <1>6

LEMMA MovesResolve ==
    ASSUME ImapInv, [ImapNext]_imapVars, NEW s \in Sessions, NEW uid \in BOOLEAN,
           NEW set \in SUBSET UIDs, resolve(s, uid, set)
    PROVE  Moves(s)
<1> DEFINE r == imap[s]
           was == r.shown
           m == ReadIndex(r.box).msgs
           sel == Selected(uid, m, set)
           meant == {was[u].id : u \in Selected(uid, was, set)}
<1>1. /\ r \in ImapSessions /\ SessionOK(r) /\ ShownOK(r)
      /\ imap \in [Sessions -> ImapSessions]
      /\ r.cmd = "none" /\ r.box \in Boxes /\ Snapshot(r.box)
      /\ imap' = [imap EXCEPT ![s].cmd = "resolved", ![s].byUid = uid,
                              ![s].uids = sel, ![s].meant = meant]
      /\ UNCHANGED vars
  BY DEF resolve, Ready, Keep, ImapInv, ImapTypeOK, SessionsOK, ImapSessions
<1>2. was \in [UIDs -> Message]
  BY <1>1 DEF ImapSessions
<1>3. /\ sel \in SUBSET UIDs /\ meant \in SUBSET (0 .. MaxAppends)
      /\ meant \subseteq {was[u].id : u \in UIDs} \ {0}
  <2>1. \A u \in UIDs : was[u].id \in 0 .. MaxAppends
    BY <1>2 DEF Message
  <2> QED
    BY <2>1 DEF Selected
<1>4. ASSUME r.box = Inbox, uid \/ \A v \in UIDs : was[v].id # 0 => was[v].id \notin doomed,
             NEW u \in UIDs, was[u].id # 0
      PROVE  /\ u \in sel => was[u].id \in meant
             /\ was[u].id \in meant /\ Here(Inbox, u, was[u].id) => u \in sel
  <2>1. Snapshot(Inbox) /\ OneUid(was) /\ Standing(was)
    BY <1>1, <1>4 DEF ShownOK
  <2>2. sel = Selected(uid, ReadIndex(Inbox).msgs, set)
    BY <1>4
  <2> HIDE DEF sel, meant, was
  <2>3. meant = {was[v].id : v \in Selected(uid, was, set)}
    BY DEF meant
  <2>4. identifier(uid, ReadIndex(Inbox).msgs, u) = identifier(uid, was, u)
    BY <1>2, <1>4, <2>1, SameNumbers DEF identifier
  <2> QED
    BY <1>2, <1>4, <2>1, <2>2, <2>3, <2>4, SelectedAgrees
<1> HIDE DEF sel, meant
<1>5. /\ imap' \in [Sessions -> ImapSessions]
      /\ \A t \in Sessions \ {s} : imap'[t] = imap[t]
      /\ imap'[s].cmd = "resolved" /\ imap'[s].byUid = uid /\ imap'[s].uids = sel
      /\ imap'[s].meant = meant /\ imap'[s].box = r.box /\ imap'[s].shown = was
      /\ imap'[s].got = r.got /\ imap'[s].swept = r.swept
  BY <1>1, <1>3 DEF ImapSessions
<1>6. SessionOK(imap[s])' /\ SweptOK(imap[s])'
  BY <1>1, <1>5 DEF SessionOK, SweptOK
<1>7. ResolvedOK(imap[s])'
  <2>1. UNCHANGED <<index, op, doomed>>
    BY <1>1 DEF vars
  <2>2. PICK w, ids, us, now1 : /\ w = was /\ ids = meant /\ us = sel /\ now1 = imap'[s]
    OBVIOUS
  <2>3. \A u \in UIDs, i \in 0 .. MaxAppends : Here(Inbox, u, i)' = Here(Inbox, u, i)
    BY <2>1 DEF Here, RewritingBox
  <2>4. \A u \in UIDs : w[u].id \in 0 .. MaxAppends
    BY <1>2, <2>2 DEF Message
  <2>5. ASSUME r.box = Inbox, uid \/ \A v \in UIDs : w[v].id # 0 => w[v].id \notin doomed
        PROVE  Agrees(imap[s])'
    BY <1>3, <1>4, <1>5, <2>2, <2>3, <2>4, <2>5 DEF Agrees
  <2>6. ASSUME r.box = Inbox, ~uid, \E v \in UIDs : w[v].id # 0 /\ w[v].id \in doomed
        PROVE  ~imap'[s].byUid /\ ShownDoomed(imap[s])'
    BY <1>5, <2>1, <2>2, <2>6 DEF ShownDoomed
  <2> QED
    BY <1>5, <2>5, <2>6 DEF ResolvedOK
<1> QED
  BY <1>5, <1>6, <1>7, ShownLasts DEF Moves, AllOK

LEMMA MovesExpunge ==
    ASSUME ImapInv, [ImapNext]_imapVars, NEW s \in Sessions, Expunge(s)
    PROVE  Moves(s)
<1> DEFINE r == imap[s]
           m == ReadIndex(r.box).msgs
           us == Doomed(m)
           ids == {m[u].id : u \in us}
<1>1. /\ r \in ImapSessions /\ SessionOK(r) /\ imap \in [Sessions -> ImapSessions]
      /\ r.cmd = "none" /\ r.box \in Boxes /\ Snapshot(r.box)
      /\ imap' = [imap EXCEPT ![s].cmd = "expunge", ![s].uids = us, ![s].swept = ids]
      /\ UNCHANGED <<vars, flagged>>
  BY DEF Expunge, Ready, Keep, ImapInv, ImapTypeOK, SessionsOK, ImapSessions, Doomed
<1>2. m \in [UIDs -> Message]
  BY <1>1, ReadType
<1>3. us \in SUBSET UIDs /\ ids \in SUBSET (0 .. MaxAppends)
  BY <1>2 DEF Doomed, Message
<1>4. ASSUME r.box = Inbox
      PROVE  /\ SnapshotOK(m) /\ OneUid(m)
             /\ \A u \in us : m[u].id # 0 /\ m[u].id \in flagged \cap 1 .. appends
  <2>1. /\ SnapshotOK(m) /\ OneUid(m)
        /\ \A u \in us : m[u].id # 0 /\ m[u].id \in flagged
    BY <1>1, <1>4, Taken DEF Doomed, Has
  <2>2. \A u \in us : u \in UIDs /\ m[u].id \in Nat
    BY <1>2, <1>3, BoundAssumption DEF Message
  <2>3. \A u \in us : m[u].id \in 1 .. appends
    <3>1. appends \in Nat
      BY BoundAssumption DEF ImapInv, Inv, TypeOK
    <3> HIDE DEF us, m
    <3> QED
      BY <2>1, <2>2, <3>1 DEF OneUid
  <2> QED
    BY <2>1, <2>3
<1>5. /\ imap' \in [Sessions -> ImapSessions]
      /\ \A t \in Sessions \ {s} : imap'[t] = imap[t]
      /\ imap'[s].cmd = "expunge" /\ imap'[s].uids = us /\ imap'[s].swept = ids
      /\ imap'[s].box = r.box /\ imap'[s].shown = r.shown /\ imap'[s].got = r.got
  <2> HIDE DEF us, ids
  <2> QED
    BY <1>1, <1>3 DEF ImapSessions
<1>6. SessionOK(imap[s])' /\ ResolvedOK(imap[s])'
  BY <1>1, <1>5 DEF SessionOK, ResolvedOK
<1>7. SweptOK(imap[s])'
  <2>1. PICK w \in [UIDs -> Message], ws \in SUBSET UIDs : w = m /\ ws = us
    BY <1>2, <1>3
  <2>2. ids = {w[u].id : u \in ws}
    BY <2>1
  <2> HIDE DEF m, us, ids
  <2>3. ASSUME r.box = Inbox
        PROVE  Sweeps(imap[s], w)' /\ imap'[s].swept \subseteq flagged' \cap 1 .. appends'
    <3>1. /\ SnapshotOK(w)' /\ OneUid(w)' /\ flagged' = flagged /\ appends' = appends
      BY <1>1, <1>4, <2>1, <2>3, StoreKept DEF SnapshotsKept, IdsKept, vars
    <3>2. /\ imap'[s].swept = {w[u].id : u \in ws} /\ imap'[s].uids = ws
          /\ \A u \in ws : w[u].id # 0 /\ w[u].id \in flagged \cap 1 .. appends
      BY <1>4, <1>5, <2>1, <2>2, <2>3
    <3> QED
      BY <3>1, <3>2 DEF Sweeps
  <2> QED
    BY <1>5, <2>3 DEF SweptOK
<1> QED
  BY <1>5, <1>6, <1>7, ShownLasts DEF Moves, AllOK

LEMMA MovesExpungeNothing ==
    ASSUME ImapInv, [ImapNext]_imapVars, NEW s \in Sessions, ExpungeNothing(s)
    PROVE  Moves(s)
<1> DEFINE r == imap[s]
<1>1. /\ r \in ImapSessions /\ SessionOK(r) /\ SweptOK(r)
      /\ imap \in [Sessions -> ImapSessions]
      /\ r.cmd = "expunge" /\ r.uids = {} /\ imap' = [imap EXCEPT ![s].cmd = "expunged"]
  BY DEF ExpungeNothing, ImapInv, ImapTypeOK, SessionsOK
<1>2. r.box = Inbox => r.swept = {}
  BY <1>1 DEF SweptOK, Sweeps
<1>3. /\ imap' \in [Sessions -> ImapSessions]
      /\ \A t \in Sessions \ {s} : imap'[t] = imap[t]
      /\ imap'[s].cmd = "expunged" /\ imap'[s].swept = r.swept
      /\ imap'[s].box = r.box /\ imap'[s].shown = r.shown /\ imap'[s].got = r.got
  BY <1>1 DEF ImapSessions
<1>4. SessionOK(imap[s])' /\ ResolvedOK(imap[s])' /\ SweptOK(imap[s])'
  BY <1>1, <1>2, <1>3 DEF SessionOK, ResolvedOK, SweptOK
<1> QED
  BY <1>3, <1>4, ShownLasts DEF Moves, AllOK

\* The index that EXPUNGE will write has none of the messages it has found.
LEMMA SweptAreGone ==
    ASSUME ImapInv, NEW s \in Sessions, ExpungeRemove(s), imap[s].box = Inbox
    PROVE  /\ op'.pc = "files" /\ op'.box = Inbox
           /\ imap[s].swept \subseteq flagged \cap 1 .. appends /\ appends' = appends
           /\ \A u \in UIDs : op'.ix.msgs[u].id \notin imap[s].swept
           /\ doomed' \subseteq doomed \cup imap[s].swept
<1> DEFINE r == imap[s]
<1>1. /\ r \in ImapSessions /\ r.cmd = "expunge" /\ SweptOK(r) /\ Remove(Inbox, r.uids)
  BY DEF ExpungeRemove, ImapInv, ImapTypeOK, SessionsOK
<1>2. PICK msgs \in [UIDs -> Message] : Sweeps(r, msgs)
  BY <1>1 DEF SweptOK
<1>3. r.uids \in SUBSET UIDs /\ r.swept \subseteq flagged \cap 1 .. appends
  BY <1>1 DEF ImapSessions, SweptOK
<1>4. PICK gone \in SUBSET UIDs :
        /\ Unlocked /\ Prepared(Inbox, gone, "files")
        /\ gone = {u \in r.uids : Has(index[Inbox], u)}
        /\ doomed' = doomed \cup {index[Inbox].msgs[u].id : u \in gone}
        /\ appends' = appends
  BY <1>1, <1>3, BoxAssumption, RemoveBegins DEF ImapInv
<1>5. op'.pc = "files" /\ op'.box = Inbox
  BY <1>4 DEF Prepared, Begun
<1>6. \A u \in UIDs : \/ op'.ix.msgs[u].id = 0
                      \/ op'.ix.msgs[u].id = index[Inbox].msgs[u].id /\ u \notin gone
  BY <1>4 DEF Prepared, Has
<1>7. ASSUME NEW u \in UIDs, op'.ix.msgs[u].id \in r.swept PROVE FALSE
  <2>1. PICK v \in r.uids : op'.ix.msgs[u].id = msgs[v].id
    BY <1>2, <1>7 DEF Sweeps
  <2>2. v \in UIDs /\ msgs[v].id # 0
    BY <1>2, <1>3 DEF Sweeps
  <2>3. index[Inbox].msgs[u].id = msgs[v].id /\ u \notin gone
    BY <1>6, <2>1, <2>2
  <2>4. u = v
    BY <1>2, <2>2, <2>3 DEF Sweeps, OneUid
  <2> QED
    BY <1>4, <2>1, <2>2, <2>3, <2>4 DEF Has
<1>8. ASSUME NEW u \in gone PROVE index[Inbox].msgs[u].id \in r.swept
  <2>1. u \in r.uids /\ u \in UIDs /\ Has(index[Inbox], u) /\ index[Inbox].st = "ok"
    BY <1>3, <1>4, BoxAssumption DEF ImapInv, Inv, BlankOK
  <2>2. index[Inbox].msgs[u].id = msgs[u].id
    BY <1>2, <2>1 DEF Sweeps, SnapshotOK, SameUid
  <2> QED
    BY <1>2, <2>1, <2>2 DEF Sweeps
<1> QED
  BY <1>3, <1>4, <1>5, <1>7, <1>8

LEMMA MovesExpungeRemove ==
    ASSUME ImapInv, [ImapNext]_imapVars, NEW s \in Sessions, ExpungeRemove(s)
    PROVE  Moves(s)
<1>1. /\ imap[s].cmd = "expunge" /\ imap' = [imap EXCEPT ![s].cmd = "wait"]
      /\ Remove(imap[s].box, imap[s].uids)
  BY DEF ExpungeRemove
<1>2. imap[s].box \in Boxes /\ imap[s].uids \in SUBSET UIDs
  BY <1>1 DEF ImapInv, SessionsOK, SessionOK, ImapTypeOK, ImapSessions
<1>3. ~Unlocked'
  BY <1>1, <1>2, RemoveBegins DEF ImapInv, Prepared, Begun, Unlocked
<1>4. flagged' = flagged
  BY DEF ExpungeRemove
<1>5. ASSUME imap[s].box = Inbox
      PROVE  /\ imap[s].swept \subseteq flagged' \cap 1 .. appends'
             /\ RewritingBox(Inbox)'
             /\ \A u \in UIDs : op'.ix.msgs[u].id \notin imap[s].swept
  BY <1>4, <1>5, SweptAreGone DEF RewritingBox, Rewriting
<1> QED
  BY <1>1, <1>3, <1>5, MovesToWait

LEMMA SessionMoves ==
    ASSUME ImapInv, [ImapNext]_imapVars, NEW s \in Sessions, SessionStep(s)
    PROVE  Moves(s)
<1>1. CASE \E n \in Boxes : GetMailbox(s, n)
  BY <1>1, MovesGetMailbox
<1>2. CASE \E n \in Boxes, fs \in SUBSET Flags : CreateMessage(s, n, fs)
  BY <1>2, MovesCreateMessage
<1>3. CASE ListMessages(s) \/ Fetch(s)
  BY <1>3, MovesListMessages, MovesFetch
<1>4. CASE \E uid \in BOOLEAN, set \in (SUBSET UIDs) \ {{}} : resolve(s, uid, set)
  <2>1. PICK uid \in BOOLEAN, set \in SUBSET UIDs : resolve(s, uid, set)
    BY <1>4
  <2> QED
    BY <2>1, MovesResolve
<1>5. CASE \E how \in FlagOps : UpdateMessagesFlags(s, how)
  BY <1>5, MovesUpdateFlags
<1>6. CASE \E dest \in Boxes : CopyMessages(s, dest)
  BY <1>6, MovesCopyMessages
<1>7. CASE Expunge(s) \/ ExpungeNothing(s) \/ ExpungeRemove(s)
  BY <1>7, MovesExpunge, MovesExpungeNothing, MovesExpungeRemove
<1>8. CASE Refused(s) \/ Answer(s)
  <2>1. imap' = [imap EXCEPT ![s] = Idle(@)]
    BY <1>8 DEF Refused, Answer
  <2> QED
    BY <2>1, GoesIdle
<1>9. CASE Logout(s)
  BY <1>9, MovesLogout
<1> QED
  BY <1>1, <1>2, <1>3, <1>4, <1>5, <1>6, <1>7, <1>8, <1>9 DEF SessionStep

-----------------------------------------------------------------------------
(* The invariant holds after every step. *)

LEMMA SessionsInvariance ==
    ASSUME ImapInv, [ImapNext]_imapVars
    PROVE  imap' \in [Sessions -> ImapSessions] /\ \A s \in Sessions : AllOK(imap[s])'
<1>0. imap \in [Sessions -> ImapSessions]
  BY DEF ImapInv, ImapTypeOK
<1>1. ASSUME NEW s \in Sessions, SessionStep(s)
      PROVE  imap' \in [Sessions -> ImapSessions] /\ \A t \in Sessions : AllOK(imap[t])'
  <2>1. Moves(s)
    BY <1>1, SessionMoves
  <2> QED
    BY <1>1, <2>1, OneMoves DEF Moves
<1>2. CASE StoreStep
  <2>1. Return(TRUE) /\ SystemCall
    BY <1>2 DEF StoreStep
  <2>2. op'.pc = "free" => WriteIndex
    BY <2>1 DEF SystemCall, WriteBody, UnlinkBody, OpenIndex, RemoveAll, ImapInv, OwnerOK,
                Inv, TypeOK, Ops
  <2>3. TRUE \in BOOLEAN
    OBVIOUS
  <2> QED
    BY <2>1, <2>2, <2>3, ReturnTypes, ReturnSessions
<1>3. CASE StoreError
  <2>1. Return(FALSE) /\ FALSE \in BOOLEAN
    BY <1>3 DEF StoreError
  <2> QED
    BY <2>1, ReturnTypes, ReturnSessions
<1>4. CASE CopyStep
  <2>1. Return(TRUE) /\ TRUE \in BOOLEAN
    BY <1>4 DEF CopyStep
  <2>2. ~(op'.pc = "free" /\ ~Unlocked)
    BY <1>4 DEF CopyStep, CopyCheckDest, CopyRead, CopyAbort, CopyAppend, StartAppend,
                WriteMessage, Lock, Unlocked
  <2> QED
    BY <2>1, <2>2, ReturnTypes, ReturnSessions
<1>5. CASE Delivery
  <2>1. imap' = imap /\ Unlocked
    BY <1>5 DEF Delivery, Append, StartAppend, WriteMessage, Lock
  <2>2. \A s \in Sessions : imap[s].cmd # "wait"
    BY <2>1 DEF ImapInv, SessionsOK, SweptOK
  <2> QED
    BY <1>0, <2>1, <2>2, SameSession
<1>6. CASE ImapCrash
  <2>1. imap' = [s \in Sessions |-> NoSession]
    BY <1>6 DEF ImapCrash
  <2>2. \A s \in Sessions : imap'[s] = NoSession
    BY <2>1
  <2>3. imap' \in [Sessions -> ImapSessions]
    BY <2>1, BlankSession
  <2>4. \A s \in Sessions : AllOK(imap[s])'
    BY <2>2, BlankSession
    DEF AllOK, SessionOK, ShownOK, SnapshotOK, OneUid, Standing, ResolvedOK, SweptOK
  <2> QED
    BY <2>3, <2>4
<1>7. CASE UNCHANGED imapVars
  <2>1. imap' = imap /\ op' = op
    BY <1>7 DEF imapVars, vars
  <2>2. \A s \in Sessions : imap[s].cmd = "wait" => ~Unlocked'
    BY <2>1 DEF ImapInv, SessionsOK, SweptOK, Unlocked
  <2> QED
    BY <1>0, <2>1, <2>2, SameSession
<1> QED
  BY <1>1, <1>2, <1>3, <1>4, <1>5, <1>6, <1>7, NextParts

LEMMA FlagsInvariance ==
    ASSUME ImapInv, [ImapNext]_imapVars
    PROVE  FlagsOK' /\ flagged' \in SUBSET (0 .. MaxAppends)
<1>1. /\ BoxStep(Inbox) /\ Inbox \in Boxes /\ flagged \subseteq flagged'
      /\ index' = index \/ StoreStep
  BY StoreKept, StepFacts, BoxAssumption
<1>2. /\ \A u \in UIDs : index'[Inbox].msgs[u].id \in 0 .. MaxAppends
      /\ NoMessage.flags = {} /\ \A u \in UIDs : Absent("torn").msgs[u].flags = {}
  BY <1>1, StoreKept DEF Inv, TypeOK, Index, Message, NoMessage, Absent
<1>3. flagged' \in SUBSET (0 .. MaxAppends)
  <2>1. flagged' = flagged \/ flagged' = flagged \cup FlaggedNow'
    <3>1. ASSUME NEW s \in Sessions,
                 \/ \E n \in Boxes : GetMailbox(s, n)
                 \/ \E n \in Boxes, fs \in SUBSET Flags : CreateMessage(s, n, fs)
                 \/ ListMessages(s) \/ Fetch(s)
                 \/ \E uid \in BOOLEAN, set \in (SUBSET UIDs) \ {{}} :
                        resolve(s, uid, set)
          PROVE  flagged' = flagged \/ flagged' = flagged \cup FlaggedNow'
      BY <3>1 DEF GetMailbox, CreateMessage, ListMessages, Fetch, resolve, Keep
    <3>2. ASSUME NEW s \in Sessions,
                 \/ \E how \in FlagOps : UpdateMessagesFlags(s, how)
                 \/ \E dest \in Boxes : CopyMessages(s, dest)
                 \/ Expunge(s) \/ ExpungeNothing(s) \/ ExpungeRemove(s)
                 \/ Refused(s) \/ Answer(s) \/ Logout(s)
          PROVE  flagged' = flagged \/ flagged' = flagged \cup FlaggedNow'
      BY <3>2 DEF UpdateMessagesFlags, CopyMessages, Expunge, ExpungeNothing,
         ExpungeRemove, Refused, Answer, Logout, Keep
    <3>3. CASE StoreStep \/ StoreError \/ CopyStep \/ Delivery \/ ImapCrash
      BY <3>3 DEF StoreStep, StoreError, CopyStep, Delivery, ImapCrash
    <3>4. CASE UNCHANGED imapVars
      BY <3>4 DEF imapVars
    <3> QED
      BY <3>1, <3>2, <3>3, <3>4 DEF ImapNext
  <2>2. FlaggedNow' \subseteq 0 .. MaxAppends
    BY <1>2 DEF FlaggedNow
  <2>3. flagged \subseteq 0 .. MaxAppends
    BY DEF ImapInv, ImapTypeOK
  <2> QED
    BY <2>1, <2>2, <2>3
<1>4. ASSUME NEW u \in UIDs, Deleted \in index'[Inbox].msgs[u].flags
      PROVE  Has(index'[Inbox], u) /\ index'[Inbox].msgs[u].id \in flagged'
  <2>1. Has(index'[Inbox], u)
    BY <1>1, <1>2, <1>4 DEF BoxStep, ImapInv, FlagsOK
  <2>2. CASE index' = index
    BY <1>1, <1>4, <2>1, <2>2 DEF ImapInv, FlagsOK
  <2>3. CASE StoreStep
    <3>1. flagged' = flagged \cup FlaggedNow'
      BY <2>3 DEF StoreStep
    <3>2. index'[Inbox].msgs[u].id \in FlaggedNow'
      BY <1>4 DEF FlaggedNow
    <3> QED
      BY <2>1, <3>1, <3>2
  <2> QED
    BY <1>1, <2>2, <2>3
<1>5. ASSUME NEW u \in UIDs, RewritingBox(Inbox)', Deleted \in op'.ix.msgs[u].flags
      PROVE  Has(op'.ix, u)
  <2>1. CASE RewritingBox(Inbox) /\ op'.ix = op.ix
    BY <1>5, <2>1 DEF ImapInv, FlagsOK
  <2>2. CASE SlotStep(Inbox, u)
    BY <1>2, <1>5, <2>2 DEF SlotStep, Vacant, Has, ImapInv, FlagsOK
  <2> QED
    BY <1>1, <1>5, <2>1, <2>2 DEF BoxStep
<1> QED
  BY <1>3, <1>4, <1>5 DEF FlagsOK, Has

\* The Append in progress is about a message of its mailbox.
LEMMA AckIsHere ==
    ASSUME ImapInv, op.pc = "write", op.body # NoFile
    PROVE  /\ op.box \in Boxes /\ op.uid \in UIDs /\ ~Unlocked
           /\ op.ix.msgs[op.uid].id \in 1 .. MaxAppends
           /\ Here(op.box, op.uid, op.ix.msgs[op.uid].id)
<1>1. /\ op.box \in Boxes /\ op.uid \in UIDs /\ op.pc \in Rewriting
      /\ Has(op.ix, op.uid) /\ op.ix.msgs[op.uid] \in Message
  BY DEF ImapInv, Inv, OpOK, TypeOK, Ops, Index, Rewriting
<1>2. op.ix.msgs[op.uid].id \in 1 .. MaxAppends
  BY <1>1, BoundAssumption DEF Has, Message
<1> QED
  BY <1>1, <1>2 DEF Here, RewritingBox, Unlocked

\* What EXPUNGE removes its mailbox has.
LEMMA DoomedIsHere ==
    ASSUME ImapInv, NEW s \in Sessions, ExpungeRemove(s), NEW i \in doomed' \ doomed
    PROVE  /\ imap[s].box \in Boxes /\ i \in 1 .. MaxAppends
           /\ \E u \in UIDs : Here(imap[s].box, u, i)
<1>1. /\ imap[s].box \in Boxes /\ imap[s].uids \in SUBSET UIDs
      /\ Remove(imap[s].box, imap[s].uids)
  BY DEF ExpungeRemove, ImapInv, SessionsOK, SessionOK, ImapTypeOK, ImapSessions
<1>2. PICK gone \in SUBSET UIDs :
        /\ doomed' = doomed \cup {index[imap[s].box].msgs[u].id : u \in gone}
        /\ doomed' \subseteq 1 .. MaxAppends
  BY <1>1, RemoveBegins DEF ImapInv
<1> QED
  BY <1>1, <1>2 DEF Here

LEMMA OwnerInvariance ==
    ASSUME ImapInv, [ImapNext]_imapVars
    PROVE  OwnerOK' /\ OnlyFlaggedExpunged'
<1>1. /\ Grows /\ \A n \in Boxes : BoxStep(n)
      /\ op'.pc # "removeAll" /\ LockHeld /\ flagged \subseteq flagged'
      /\ doomed' = doomed \/ \E s \in Sessions : ExpungeRemove(s)
      /\ \/ acked' = acked
         \/ /\ op.pc = "write" /\ op.body # NoFile
            /\ acked' = acked \cup {<<op.ix.msgs[op.uid].id, op.box>>}
  BY StoreKept, StepFacts
<1>2. /\ appends \in Nat /\ appends' \in Nat /\ appends' \in {appends, appends + 1}
      /\ OwnerOK /\ MaxAppends \in Nat
      /\ \A a \in acked : a[1] \in 1 .. MaxAppends /\ a[2] \in Boxes
  BY <1>1, StoreKept, BoundAssumption DEF ImapInv, Inv, TypeOK, Grows
<1>3. \A n \in Boxes, u \in UIDs, i \in 1 .. MaxAppends :
        Here(n, u, i) => /\ i <= appends
                         /\ \A m \in Boxes, v \in UIDs : Here(m, v, i) => m = n
                         /\ \A a \in acked : a[1] = i => a[2] = n
  BY <1>2 DEF OwnerOK
<1>4. \A a \in acked' :
        \/ a \in acked
        \/ /\ a[2] \in Boxes /\ a[1] \in 1 .. MaxAppends /\ ~Unlocked
           /\ \E u \in UIDs : Here(a[2], u, a[1])
           /\ a[1] \notin doomed /\ doomed' = doomed
  <2> SUFFICES ASSUME NEW a \in acked', a \notin acked
               PROVE  /\ a[2] \in Boxes /\ a[1] \in 1 .. MaxAppends /\ ~Unlocked
                      /\ \E u \in UIDs : Here(a[2], u, a[1])
                      /\ a[1] \notin doomed /\ doomed' = doomed
    OBVIOUS
  <2>1. /\ op.pc = "write" /\ op.body # NoFile
        /\ a = <<op.ix.msgs[op.uid].id, op.box>>
    BY <1>1
  <2>2. /\ op.box \in Boxes /\ op.uid \in UIDs /\ ~Unlocked
        /\ op.ix.msgs[op.uid].id \in 1 .. MaxAppends
        /\ Here(op.box, op.uid, op.ix.msgs[op.uid].id)
    BY <2>1, AckIsHere
  <2>3. op.ix.msgs[op.uid].id \notin doomed /\ doomed' = doomed
    BY <1>1, <1>2, <2>1, <2>2 DEF OwnerOK, LockHeld
  <2>4. a[1] = op.ix.msgs[op.uid].id /\ a[2] = op.box
    BY <2>1
  <2> QED
    BY <2>2, <2>3, <2>4
<1>5. ASSUME NEW a \in acked' PROVE a[1] <= appends
  BY <1>2, <1>3, <1>4 DEF OwnerOK
<1>6. ASSUME NEW n \in Boxes, NEW u \in UIDs, NEW i \in 1 .. MaxAppends, Here(n, u, i)'
      PROVE  /\ i <= appends'
             /\ \A m \in Boxes, v \in UIDs : Here(m, v, i)' => m = n
             /\ \A a \in acked' : a[1] = i => a[2] = n
  <2>1. \A m \in Boxes, v \in UIDs : Here(m, v, i)' =>
          \/ Here(m, v, i)
          \/ i = appends + 1 /\ appends' = appends + 1 /\ m = op'.box
    BY HereBefore DEF RewritingBox
  <2>2. CASE Here(n, u, i)
    <3>1. i <= appends
      BY <1>3, <2>2
    <3>2. \A m \in Boxes, v \in UIDs : Here(m, v, i)' => m = n
      <4>1. i # appends + 1
        BY <1>2, <3>1
      <4> QED
        BY <1>3, <2>1, <2>2, <4>1
    <3>3. \A a \in acked' : a[1] = i => a[2] = n
      BY <1>3, <1>4, <2>2
    <3> QED
      BY <1>2, <3>1, <3>2, <3>3
  <2>3. CASE ~Here(n, u, i)
    <3>1. i = appends + 1 /\ appends' = appends + 1 /\ n = op'.box
      BY <1>6, <2>1, <2>3
    <3>2. \A m \in Boxes, v \in UIDs : ~Here(m, v, i)
      BY <1>2, <1>3, <3>1
    <3>3. \A a \in acked' : a[1] # i
      BY <1>2, <1>4, <1>5, <3>1
    <3> QED
      BY <1>2, <2>1, <3>1, <3>2, <3>3
  <2> QED
    BY <2>2, <2>3
<1>7. doomed' \subseteq 1 .. appends'
  <2>1. doomed \subseteq 1 .. appends
    BY <1>2 DEF OwnerOK
  <2>2. ASSUME NEW i \in doomed' \ doomed PROVE i \in 1 .. appends
    <3>1. PICK s \in Sessions : ExpungeRemove(s)
      BY <1>1, <2>2
    <3>2. /\ imap[s].box \in Boxes /\ i \in 1 .. MaxAppends
          /\ \E u \in UIDs : Here(imap[s].box, u, i)
      BY <2>2, <3>1, DoomedIsHere
    <3> QED
      BY <1>2, <1>3, <3>2
  <2>3. doomed' \subseteq 1 .. appends
    BY <2>1, <2>2
  <2> QED
    BY <1>2, <2>3
<1>8. ASSUME ~Unlocked', op'.body # NoFile
      PROVE  op'.ix.msgs[op'.uid].id \notin doomed'
  <2>1. CASE ~Unlocked
    BY <1>1, <1>2, <1>8, <2>1 DEF LockHeld, OwnerOK, Unlocked
  <2>2. CASE Unlocked
    <3>1. op'.box \in Boxes /\ op'.pc \in Rewriting
      BY <1>1, <1>8, StoreKept DEF Inv, TypeOK, Ops, OpOK, Rewriting, Unlocked
    <3>2. PICK n \in Boxes : n = op'.box
      BY <3>1
    <3>3. BoxStep(n) /\ ~RewritingBox(n) /\ RewritingBox(n)'
      BY <1>1, <2>2, <3>1, <3>2 DEF RewritingBox, Rewriting, Unlocked
    <3>4. op'.ix.msgs[op'.uid].id = appends + 1 /\ doomed' = doomed
      BY <1>8, <3>3 DEF BoxStep
    <3> QED
      BY <1>2, <3>4 DEF OwnerOK
  <2> QED
    BY <2>1, <2>2
<1>9. OwnerOK'
  <2>1. \A a \in acked' : a[1] <= appends'
    <3>1. \A a \in acked' : a[1] \in 1 .. MaxAppends
      BY <1>2, <1>4
    <3> QED
      BY <1>2, <1>5, <3>1
  <2> QED
    BY <1>1, <1>6, <1>7, <1>8, <2>1 DEF OwnerOK
<1>10. OnlyFlaggedExpunged'
  <2> SUFFICES ASSUME NEW a \in acked', a[2] = Inbox, a[1] \in doomed'
               PROVE  a[1] \in flagged'
    BY DEF OnlyFlaggedExpunged
  <2>1. a \in acked
    BY <1>4
  <2>2. CASE a[1] \in doomed
    BY <1>1, <2>1, <2>2 DEF ImapInv, OnlyFlaggedExpunged
  <2>3. CASE a[1] \notin doomed
    <3>1. PICK s \in Sessions : ExpungeRemove(s)
      BY <1>1, <2>3
    <3>2. a[1] \in doomed' \ doomed
      BY <2>3
    <3>3. /\ imap[s].box \in Boxes /\ a[1] \in 1 .. MaxAppends
          /\ \E u \in UIDs : Here(imap[s].box, u, a[1])
      BY <3>1, <3>2, DoomedIsHere
    <3>4. imap[s].box = Inbox
      BY <1>3, <2>1, <3>3
    <3> QED
      BY <1>1, <3>1, <3>2, <3>4, SweptAreGone
  <2> QED
    BY <2>2, <2>3
<1> QED
  BY <1>9, <1>10

LEMMA ImapInvariance == ImapSpec => []ImapInv
<1>1. ASSUME ImapInv, [ImapNext]_imapVars PROVE ImapInv'
  <2>1. SessionsOK' /\ ImapTypeOK'
    BY <1>1, SessionsInvariance, FlagsInvariance DEF SessionsOK, ImapTypeOK, AllOK
  <2> QED
    BY <1>1, <2>1, StoreKept, FlagsInvariance, OwnerInvariance DEF ImapInv
<1> QED
  BY <1>1, ImapInitInv, PTL DEF ImapSpec

-----------------------------------------------------------------------------
(* The theorems. *)

\* FETCH and SEARCH read the body of the message in their snapshot, or find no
\* file, although they read without the lock.
THEOREM FetchIsFaithful == ImapSpec => []FetchFaithful
<1>1. ImapInv => FetchFaithful
  BY DEF ImapInv, SessionsOK, SessionOK, FetchFaithful
<1> QED
  BY <1>1, ImapInvariance, PTL

\* EXPUNGE removes from INBOX only messages that carried \Deleted at some time,
\* although it holds their UIDs from one lock to the next.
THEOREM ExpungedWereFlagged == ImapSpec => []OnlyFlaggedExpunged
<1>1. ImapInv => OnlyFlaggedExpunged
  BY DEF ImapInv
<1> QED
  BY <1>1, ImapInvariance, PTL

\* After an EXPUNGE of INBOX that was answered OK none of the messages that it
\* found flagged is listed, whoever removed them.
THEOREM ExpungeIsEffective == ImapSpec => []ExpungeEffective
<1>1. ImapInv => ExpungeEffective
  BY DEF ImapInv, SessionsOK, SweptOK, Here, ExpungeEffective
<1> QED
  BY <1>1, ImapInvariance, PTL

\* STORE and COPY act on the messages that the client was shown under the
\* identifiers it gives: by UID always, by number as long as none of them has
\* been removed.
THEOREM CommandsHitWhatWasShown == ImapSpec => []HitsWhatWasShown
<1>1. ASSUME ImapInv PROVE HitsWhatWasShown
  <2> SUFFICES ASSUME NEW s \in Sessions, imap[s].cmd = "resolved", imap[s].box = Inbox
               PROVE  \/ Hits(s) \cap ShownIds(s)
                           = {i \in imap[s].meant : Lists(index[Inbox], i)}
                      \/ ~imap[s].byUid /\ ShownIds(s) \cap doomed # {}
    BY DEF HitsWhatWasShown
  <2> DEFINE r == imap[s]
  <2>1. /\ Agrees(r) \/ (~r.byUid /\ ShownDoomed(r))
        /\ OneUid(r.shown) /\ r \in ImapSessions
    BY <1>1 DEF ImapInv, ImapTypeOK, SessionsOK, ResolvedOK, ShownOK
  <2>2. CASE ~r.byUid /\ ShownDoomed(r)
    BY <2>2 DEF ShownDoomed, ShownIds
  <2>3. CASE Agrees(r)
    <3>1. ASSUME NEW i \in Hits(s) \cap ShownIds(s)
          PROVE  i \in imap[s].meant /\ Lists(index[Inbox], i)
      <4>1. PICK u \in r.uids, w \in UIDs :
              i = index[Inbox].msgs[u].id /\ i = r.shown[w].id /\ i # 0
        BY <3>1 DEF Hits, ShownIds
      <4>2. u \in UIDs
        BY <2>1 DEF ImapSessions
      <4>3. u = w
        BY <2>1, <4>1, <4>2 DEF OneUid
      <4> QED
        BY <2>3, <4>1, <4>2, <4>3 DEF Agrees, Lists
    <3>2. ASSUME NEW i \in imap[s].meant, Lists(index[Inbox], i)
          PROVE  i \in Hits(s) \cap ShownIds(s)
      <4>1. PICK v \in UIDs, w \in UIDs :
              i = index[Inbox].msgs[v].id /\ i = r.shown[w].id /\ i # 0
        BY <2>3, <3>2 DEF Agrees, Lists
      <4>2. v = w
        BY <2>1, <4>1 DEF OneUid
      <4>3. v \in r.uids
        BY <2>3, <3>2, <4>1, <4>2 DEF Agrees, Here
      <4> QED
        BY <4>1, <4>2, <4>3 DEF Hits, ShownIds
    <3> QED
      BY <3>1, <3>2
  <2> QED
    BY <2>1, <2>2, <2>3
<1> QED
  BY <1>1, ImapInvariance, PTL
=============================================================================
