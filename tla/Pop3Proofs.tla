---------------------------- MODULE Pop3Proofs ----------------------------
(***************************************************************************)
(* Proofs about Pop3, for every set of sessions and every bound:           *)
(* OnlyMarkedRemoved, RetrFaithful and InboxIsDeliveredMinusRemoved.  The  *)
(* sessions take steps of MailStore, so its invariant holds here too; what *)
(* they hold are snapshots, which MailStore keeps in agreement with the    *)
(* INBOX.                                                                  *)
(***************************************************************************)
EXTENDS Pop3, MailStoreProofs

-----------------------------------------------------------------------------
(* The inductive invariant. *)

PopSessions ==
    [st : {"auth", "trans", "flag", "closed"}, msgs : [UIDs -> Message],
     deleted : SUBSET UIDs, wanted : SUBSET (1 .. MaxAppends),
     uid : UIDs \cup {0}, got : -1 .. MaxAppends]

PopTypeOK ==
    /\ pop \in [Sessions -> PopSessions]
    /\ asked \in SUBSET (1 .. MaxAppends)

\* The marks are UIDs of the snapshot, and wanted are the messages it has under
\* them; what was sent last is what it has under that UID.
SessionOK(r) ==
    /\ r.st = "auth" => r.deleted = {} /\ r.wanted = {} /\ r.got = NoFile
    /\ r.st = "flag" => r.uid \in UIDs
    /\ \A u \in r.deleted : r.msgs[u].id # 0
    /\ r.wanted = {r.msgs[u].id : u \in r.deleted}
    /\ r.got # NoFile => r.uid \in UIDs /\ r.got = r.msgs[r.uid].body

SessionsOK ==
    \A s \in Sessions :
        SessionOK(pop[s]) /\ SnapshotOK(pop[s].msgs) /\ OneUid(pop[s].msgs)

\* Only the INBOX is at work, and never as a whole.
InboxOnlyOK == ~Unlocked => op.pc \in Rewriting /\ op.box = Inbox

Ids(ix) == {ix.msgs[u].id : u \in {v \in UIDs : Has(ix, v)}}

\* What the Append in progress will have delivered.
Coming == IF Unlocked \/ op.body = NoFile THEN {} ELSE {op.ix.msgs[op.uid].id}

Balanced(ids) ==
    /\ ids \ Coming = Acked \ asked
    /\ Coming \cap Acked = {} /\ Coming \subseteq ids

\* Without faults: the books agree on disk, and during a call in what it is
\* about to write.
BooksOK ==
    /\ Acked \subseteq 1 .. appends
    /\ faults = 0 =>
        /\ Unlocked => Balanced(Ids(index[Inbox]))
        /\ ~Unlocked => Balanced(Ids(op.ix))
        /\ asked \subseteq Acked

SnapshotsAcked ==
    faults = 0 => \A s \in Sessions : \A u \in UIDs :
        pop[s].msgs[u].id # 0 => pop[s].msgs[u].id \in Acked

PopInv ==
    /\ Inv /\ IdsInv /\ ~wiped
    /\ PopTypeOK
    /\ InboxOnlyOK
    /\ SessionsOK
    /\ BooksOK
    /\ SnapshotsAcked
    /\ OnlyMarkedRemoved

-----------------------------------------------------------------------------
(* The initial states, and the blank session that every ending leaves. *)

LEMMA BlankSession ==
    /\ NoSession \in PopSessions /\ NoSession.st = "auth"
    /\ NoSession.msgs = [u \in UIDs |-> NoMessage]
    /\ NoSession.deleted = {} /\ NoSession.wanted = {} /\ NoSession.got = NoFile
    /\ NoSession.uid = 0
    /\ \A u \in UIDs : NoSession.msgs[u].id = 0
<1>1. -1 \in -1 .. MaxAppends
  BY BoundAssumption
<1>2. NoMessage \in Message /\ NoMessage.id = 0
  BY NoMessageType DEF NoMessage
<1> QED
  BY <1>1, <1>2 DEF NoSession, PopSessions, NoFile

\* A session that begins or ends has no snapshot, which agrees with anything.
LEMMA BlankSnapshot ==
    ASSUME NEW msgs, \A u \in UIDs : msgs[u].id = 0
    PROVE  SnapshotOK(msgs) /\ OneUid(msgs)
  BY DEF SnapshotOK, OneUid

LEMMA PopInitInv == PopInit => PopInv
<1> SUFFICES ASSUME PopInit PROVE PopInv
  OBVIOUS
<1>1. /\ Init /\ pop = [s \in Sessions |-> NoSession] /\ asked = {} /\ ~wiped
      /\ acked = {} /\ doomed = {} /\ op = NoOp /\ faults = 0
      /\ index = [n \in Boxes |-> Absent("none")]
  BY DEF PopInit, Init
<1>2. Inv
  BY <1>1, InitInv
<1>3. /\ op.pc = "free"
      /\ \A u \in UIDs : index[Inbox].msgs[u].id = 0
  BY <1>1, NoOpFields, AbsentType, BoxAssumption DEF Has
<1>4. IdsInv
  BY <1>3, BlankSnapshot DEF IdsInv, RewritingBox, Rewriting
<1>5. PopTypeOK
  BY <1>1, BlankSession DEF PopTypeOK
<1>6. \A s \in Sessions : /\ pop[s] = NoSession
                          /\ \A u \in UIDs : pop[s].msgs[u].id = 0
  BY <1>1, BlankSession
<1>7. SessionsOK
  BY <1>6, BlankSession, BlankSnapshot DEF SessionsOK, SessionOK
<1>8. Acked = {} /\ Ids(index[Inbox]) = {}
  BY <1>1, <1>3 DEF Acked, Ids, Has
<1>9. BooksOK /\ SnapshotsAcked
  BY <1>1, <1>3, <1>6, <1>8 DEF BooksOK, SnapshotsAcked, Balanced, Coming, Unlocked
<1> QED
  BY <1>1, <1>2, <1>3, <1>4, <1>5, <1>7, <1>9
  DEF PopInv, InboxOnlyOK, OnlyMarkedRemoved, Unlocked

-----------------------------------------------------------------------------
(* Every step is a step of the store. *)

LEMMA PopStep ==
    ASSUME PopInv, [PopNext]_popVars
    PROVE  [Next]_vars
<1> USE BoxAssumption
<1>1. ASSUME NEW s \in Sessions, RetrSeen(s) PROVE [Next]_vars
  <2>1. {pop[s].uid} \in SUBSET UIDs /\ {Seen} \in SUBSET Flags
    BY <1>1, SeenAssumption DEF RetrSeen, PopInv, SessionsOK, SessionOK
  <2> QED
    BY <1>1, <2>1 DEF RetrSeen, Next, Call
<1>2. ASSUME NEW s \in Sessions, Quit(s) PROVE [Next]_vars
  <2>1. Marked(s) \in SUBSET UIDs
    BY DEF Marked, PopInv, PopTypeOK, PopSessions
  <2> QED
    BY <1>2, <2>1 DEF Quit, Next, Call
<1>3. ASSUME NEW s \in Sessions,
             Pass(s) \/ Rset(s) \/ Disconnect(s)
               \/ \E k \in UIDs : Top(s, k) \/ Retr(s, k) \/ Dele(s, k)
      PROVE  UNCHANGED vars
  BY <1>3 DEF Pass, Rset, Disconnect, Top, Retr, Sends, Dele
<1>4. CASE Delivery
  BY <1>4 DEF Delivery, Next, Call
<1>5. CASE StoreStep \/ PopCrash
  BY <1>5 DEF StoreStep, PopCrash, Next
<1>6. CASE UNCHANGED popVars
  BY <1>6 DEF popVars
<1> QED
  BY <1>1, <1>2, <1>3, <1>4, <1>5, <1>6 DEF PopNext

\* No POP3 session deletes a mailbox, and none is deleted here.
LEMMA InboxStays ==
    ASSUME PopInv, [PopNext]_popVars
    PROVE  ~wiped'
<1>1. ASSUME NEW s \in Sessions, RetrSeen(s) \/ Quit(s) PROVE wiped' = wiped
  BY <1>1 DEF RetrSeen, Quit, SetFlags, Remove, history, vars
<1>2. CASE Delivery
  BY <1>2 DEF Delivery, Append, StartAppend, WriteMessage, history, PopInv
<1>3. CASE StoreStep \/ PopCrash
  BY <1>3 DEF StoreStep, PopCrash, SystemCall, WriteBody, UnlinkBody, OpenIndex,
     WriteIndex, RemoveAll, CallError, Crash, history, PopInv
<1>4. ASSUME NEW s \in Sessions,
             \/ Pass(s) \/ Rset(s) \/ Disconnect(s)
             \/ \E k \in UIDs : Top(s, k) \/ Retr(s, k) \/ Dele(s, k)
      PROVE  wiped' = wiped
  BY <1>4 DEF Pass, Rset, Disconnect, Top, Retr, Sends, Dele, vars
<1>5. CASE UNCHANGED popVars
  BY <1>5 DEF popVars, vars, PopInv
<1> QED
  BY <1>1, <1>2, <1>3, <1>4, <1>5 DEF PopInv, PopNext

LEMMA StoreKept ==
    ASSUME PopInv, [PopNext]_popVars
    PROVE  Inv' /\ IdsInv' /\ ~wiped' /\ SnapshotsKept /\ IdsKept
  BY PopStep, NextInv, IdsInvariance, InboxStays DEF PopInv

\* A snapshot that is kept over a step keeps its meaning.
LEMMA SnapshotLasts ==
    ASSUME PopInv, [PopNext]_popVars, NEW s \in Sessions,
           pop'[s].msgs = pop[s].msgs
    PROVE  SnapshotOK(pop[s].msgs)' /\ OneUid(pop[s].msgs)'
<1>1. PICK msgs \in [UIDs -> Message] : msgs = pop[s].msgs
  BY DEF PopInv, PopTypeOK, PopSessions
<1>2. SnapshotOK(msgs) /\ OneUid(msgs)
  BY <1>1 DEF PopInv, SessionsOK
<1>3. SnapshotOK(msgs)' /\ OneUid(msgs)'
  BY <1>2, StoreKept DEF PopInv, SnapshotsKept, IdsKept
<1> QED
  BY <1>1, <1>3 DEF SnapshotOK, OneUid, SameUid

-----------------------------------------------------------------------------
(* The sessions. *)

\* A step of one session, which leaves the others and the store's snapshots.
LEMMA OneSession ==
    ASSUME PopInv, [PopNext]_popVars, NEW s \in Sessions,
           pop' \in [Sessions -> PopSessions],
           \A t \in Sessions \ {s} : pop'[t] = pop[t],
           SessionOK(pop'[s]),
           pop'[s].msgs = pop[s].msgs \/ (SnapshotOK(pop[s].msgs)' /\ OneUid(pop[s].msgs)')
    PROVE  SessionsOK'
<1>1. \A t \in Sessions : SessionOK(pop[t])'
  BY DEF PopInv, SessionsOK, SessionOK
<1>2. \A t \in Sessions : SnapshotOK(pop[t].msgs)' /\ OneUid(pop[t].msgs)'
  <2> SUFFICES ASSUME NEW t \in Sessions
               PROVE  SnapshotOK(pop[t].msgs)' /\ OneUid(pop[t].msgs)'
    OBVIOUS
  <2>1. CASE pop'[t].msgs = pop[t].msgs
    BY <2>1, SnapshotLasts
  <2>2. CASE pop'[t].msgs # pop[t].msgs
    BY <2>2
  <2> QED
    BY <2>1, <2>2
<1> QED
  BY <1>1, <1>2 DEF SessionsOK

LEMMA PassSessions ==
    ASSUME PopInv, [PopNext]_popVars, NEW s \in Sessions, Pass(s)
    PROVE  SessionsOK' /\ pop' \in [Sessions -> PopSessions]
<1> DEFINE msgs == ReadIndex(Inbox).msgs
<1>1. /\ pop[s].st = "auth" /\ Unlocked /\ Readable(Inbox)
      /\ pop' = [pop EXCEPT ![s].st = "trans", ![s].msgs = msgs]
      /\ UNCHANGED vars
  BY DEF Pass
<1>2. msgs \in [UIDs -> Message] /\ SnapshotOK(msgs)
  BY <1>1, SnapshotTaken DEF PopInv
<1>3. \A u \in UIDs : msgs[u].id = index[Inbox].msgs[u].id
  BY <1>1, ReadIndexFacts, BoxAssumption DEF PopInv
<1>4. OneUid(msgs)
  BY <1>3 DEF PopInv, IdsInv, OneUid
<1> HIDE DEF msgs
<1>5. /\ pop' \in [Sessions -> PopSessions]
      /\ pop'[s].st = "trans" /\ pop'[s].msgs = msgs
      /\ pop'[s].deleted = pop[s].deleted /\ pop'[s].wanted = pop[s].wanted
      /\ pop'[s].got = pop[s].got
      /\ \A t \in Sessions \ {s} : pop'[t] = pop[t]
  <2> DEFINE r == [pop[s] EXCEPT !.st = "trans", !.msgs = msgs]
  <2>1. pop \in [Sessions -> PopSessions] /\ pop' = [pop EXCEPT ![s] = r]
    BY <1>1 DEF PopInv, PopTypeOK
  <2>2. /\ r \in PopSessions /\ r.st = "trans" /\ r.msgs = msgs
        /\ r.deleted = pop[s].deleted /\ r.wanted = pop[s].wanted
        /\ r.got = pop[s].got
    BY <1>2, <2>1 DEF PopSessions
  <2> QED
    BY <2>1, <2>2
<1>6. SessionOK(pop'[s])
  BY <1>1, <1>5 DEF PopInv, SessionsOK, SessionOK
<1>7. SnapshotOK(pop[s].msgs)' /\ OneUid(pop[s].msgs)'
  BY <1>1, <1>2, <1>4, <1>5 DEF SnapshotOK, OneUid, SameUid, RewritingBox, vars
<1> QED
  BY <1>5, <1>6, <1>7, OneSession

LEMMA SendsSessions ==
    ASSUME PopInv, [PopNext]_popVars, NEW s \in Sessions, NEW k \in UIDs,
           NEW next \in {"trans", "flag"}, Sends(s, k, next)
    PROVE  SessionsOK' /\ pop' \in [Sessions -> PopSessions]
<1>1. PICK u \in UIDs :
        /\ Selects(s, k, u) /\ files[Inbox][u] # NoFile
        /\ pop' = [pop EXCEPT ![s].uid = u, ![s].got = files[Inbox][u],
                              ![s].st = next]
  BY DEF Sends
<1>2. pop[s].msgs[u].id # 0 /\ pop[s].st = "trans"
  BY <1>1 DEF Selects
<1>3. files[Inbox][u] = pop[s].msgs[u].body
  BY <1>1, <1>2 DEF PopInv, SessionsOK, SnapshotOK
<1>4. files[Inbox][u] \in -1 .. MaxAppends
  BY BoxAssumption DEF PopInv, Inv, TypeOK
<1>5. /\ pop' \in [Sessions -> PopSessions]
      /\ pop'[s].st = next /\ pop'[s].msgs = pop[s].msgs
      /\ pop'[s].deleted = pop[s].deleted /\ pop'[s].wanted = pop[s].wanted
      /\ pop'[s].got = files[Inbox][u] /\ pop'[s].uid = u
      /\ \A t \in Sessions \ {s} : pop'[t] = pop[t]
  BY <1>1, <1>4 DEF PopInv, PopTypeOK, PopSessions
<1>6. SessionOK(pop'[s])
  BY <1>2, <1>3, <1>5 DEF PopInv, SessionsOK, SessionOK
<1> QED
  BY <1>5, <1>6, OneSession

LEMMA RetrSeenSessions ==
    ASSUME PopInv, [PopNext]_popVars, NEW s \in Sessions, RetrSeen(s)
    PROVE  SessionsOK' /\ pop' \in [Sessions -> PopSessions]
<1>1. /\ pop' \in [Sessions -> PopSessions]
      /\ pop'[s].st = "trans" /\ pop'[s].msgs = pop[s].msgs
      /\ pop'[s].deleted = pop[s].deleted /\ pop'[s].wanted = pop[s].wanted
      /\ pop'[s].got = pop[s].got /\ pop'[s].uid = pop[s].uid
      /\ \A t \in Sessions \ {s} : pop'[t] = pop[t]
  BY DEF RetrSeen, PopInv, PopTypeOK, PopSessions
<1>2. SessionOK(pop'[s])
  BY <1>1 DEF PopInv, SessionsOK, SessionOK
<1> QED
  BY <1>1, <1>2, OneSession

LEMMA DeleSessions ==
    ASSUME PopInv, [PopNext]_popVars, NEW s \in Sessions, NEW k \in UIDs, Dele(s, k)
    PROVE  SessionsOK' /\ pop' \in [Sessions -> PopSessions]
<1>1. PICK u \in UIDs :
        /\ Selects(s, k, u)
        /\ pop' = [pop EXCEPT ![s].deleted = @ \cup {u},
                              ![s].wanted = @ \cup {pop[s].msgs[u].id}]
  BY DEF Dele, Mark
<1>2. pop[s].msgs[u].id # 0 /\ pop[s].st = "trans"
  BY <1>1 DEF Selects
<1>3. pop[s].msgs[u].id \in 1 .. MaxAppends
  BY <1>2, BoundAssumption DEF PopInv, PopTypeOK, PopSessions, Message
<1>4. /\ pop' \in [Sessions -> PopSessions]
      /\ pop'[s].st = pop[s].st /\ pop'[s].msgs = pop[s].msgs
      /\ pop'[s].deleted = pop[s].deleted \cup {u}
      /\ pop'[s].wanted = pop[s].wanted \cup {pop[s].msgs[u].id}
      /\ pop'[s].got = pop[s].got /\ pop'[s].uid = pop[s].uid
      /\ \A t \in Sessions \ {s} : pop'[t] = pop[t]
  BY <1>1, <1>3 DEF PopInv, PopTypeOK, PopSessions
<1>5. SessionOK(pop'[s])
  BY <1>2, <1>4 DEF PopInv, SessionsOK, SessionOK
<1> QED
  BY <1>4, <1>5, OneSession

LEMMA RsetSessions ==
    ASSUME PopInv, [PopNext]_popVars, NEW s \in Sessions, Rset(s)
    PROVE  SessionsOK' /\ pop' \in [Sessions -> PopSessions]
<1>1. /\ pop' \in [Sessions -> PopSessions]
      /\ pop'[s].st = "trans" /\ pop'[s].msgs = pop[s].msgs
      /\ pop'[s].deleted = {} /\ pop'[s].wanted = {}
      /\ pop'[s].got = pop[s].got /\ pop'[s].uid = pop[s].uid
      /\ \A t \in Sessions \ {s} : pop'[t] = pop[t]
  BY DEF Rset, PopInv, PopTypeOK, PopSessions
<1>2. SessionOK(pop'[s])
  BY <1>1 DEF PopInv, SessionsOK, SessionOK
<1> QED
  BY <1>1, <1>2, OneSession

\* The session that QUIT, a broken connection or the end of the process leaves.
LEMMA Closed ==
    LET r == [NoSession EXCEPT !.st = "closed"]
    IN  /\ r \in PopSessions /\ SessionOK(r)
        /\ \A u \in UIDs : r.msgs[u].id = 0
  BY BlankSession DEF PopSessions, SessionOK

LEMMA EndSessions ==
    ASSUME PopInv, [PopNext]_popVars, NEW s \in Sessions, Quit(s) \/ Disconnect(s)
    PROVE  SessionsOK' /\ pop' \in [Sessions -> PopSessions]
<1> DEFINE r == [NoSession EXCEPT !.st = "closed"]
<1>1. pop' = [pop EXCEPT ![s] = r]
  BY DEF Quit, Disconnect
<1>2. r \in PopSessions /\ SessionOK(r) /\ \A u \in UIDs : r.msgs[u].id = 0
  BY Closed
<1> HIDE DEF r
<1>3. /\ pop' \in [Sessions -> PopSessions] /\ pop'[s] = r
      /\ \A t \in Sessions \ {s} : pop'[t] = pop[t]
  BY <1>1, <1>2 DEF PopInv, PopTypeOK
<1>4. SnapshotOK(pop[s].msgs)' /\ OneUid(pop[s].msgs)'
  BY <1>2, <1>3 DEF SnapshotOK, OneUid
<1> QED
  BY <1>2, <1>3, <1>4, OneSession

LEMMA CrashSessions ==
    ASSUME PopInv, PopCrash
    PROVE  SessionsOK' /\ pop' \in [Sessions -> PopSessions]
<1> DEFINE r == [NoSession EXCEPT !.st = "closed"]
<1>1. pop' = [s \in Sessions |-> r]
  BY DEF PopCrash
<1>2. r \in PopSessions /\ SessionOK(r) /\ \A u \in UIDs : r.msgs[u].id = 0
  BY Closed
<1> HIDE DEF r
<1>3. \A s \in Sessions : pop'[s] = r
  BY <1>1
<1> QED
  BY <1>1, <1>2, <1>3 DEF SessionsOK, SessionOK, SnapshotOK, OneUid

LEMMA SameSessions ==
    ASSUME PopInv, [PopNext]_popVars, UNCHANGED pop
    PROVE  SessionsOK' /\ pop' \in [Sessions -> PopSessions]
<1>1. \A s \in Sessions : SessionOK(pop[s])'
  BY DEF PopInv, SessionsOK, SessionOK
<1> QED
  BY <1>1, SnapshotLasts DEF PopInv, PopTypeOK, SessionsOK

LEMMA SessionsKept ==
    ASSUME PopInv, [PopNext]_popVars
    PROVE  SessionsOK' /\ PopTypeOK'
<1>1. SessionsOK' /\ pop' \in [Sessions -> PopSessions]
  BY PassSessions, SendsSessions, RetrSeenSessions, DeleSessions, RsetSessions,
     EndSessions, CrashSessions, SameSessions
  DEF PopNext, Top, Retr, Delivery, StoreStep, popVars
<1>2. asked' = asked \/ \E s \in Sessions : asked' = asked \cup pop[s].wanted
  BY DEF PopNext, Pass, RetrSeen, Rset, Quit, Disconnect, Top, Retr, Sends, Dele,
         Delivery, StoreStep, PopCrash, popVars
<1>3. asked' \in SUBSET (1 .. MaxAppends)
  BY <1>2 DEF PopInv, PopTypeOK, PopSessions
<1> QED
  BY <1>1, <1>3 DEF PopTypeOK

-----------------------------------------------------------------------------
(* The books. *)

\* What the books owe to a step that takes the lock or works under it.
Booked == BooksOK' /\ InboxOnlyOK' /\ OnlyMarkedRemoved' /\ acked \subseteq acked'

LEMMA BooksStay ==
    ASSUME PopInv, UNCHANGED vars,
           asked' = asked \/ (asked \subseteq asked' /\ faults # 0)
    PROVE  Booked
<1>1. UNCHANGED <<index, op, appends, acked, doomed, faults>>
  BY DEF vars
<1> QED
  BY <1>1 DEF Booked, PopInv, BooksOK, Balanced, Coming, Ids, Has, Unlocked, Acked,
              InboxOnlyOK, Rewriting, OnlyMarkedRemoved

\* SetFlags or Remove takes the lock, to write the INBOX without the messages
\* under gone, which are those of them that are now in asked.
LEMMA BooksPrepared ==
    ASSUME PopInv, Unlocked, NEW gone \in SUBSET UIDs, NEW pc \in {"files", "open"},
           Prepared(Inbox, gone, pc),
           UNCHANGED <<index, appends, acked, faults>>,
           doomed' = doomed \cup {index[Inbox].msgs[u].id : u \in gone},
           asked \subseteq asked',
           \A u \in gone : index[Inbox].msgs[u].id \in asked',
           \A u \in UIDs \ gone : Has(index[Inbox], u) =>
               index[Inbox].msgs[u].id \in asked \/ index[Inbox].msgs[u].id \notin asked',
           faults = 0 => asked' \subseteq Acked
    PROVE  Booked
<1>1. /\ op'.pc = pc /\ op'.box = Inbox /\ op'.body = NoFile
      /\ pc \in Rewriting /\ pc # "free"
  BY DEF Prepared, Begun, Rewriting
<1>2. PICK ix \in Index : ix = op'.ix
  BY DEF Prepared
<1>3. /\ \A u \in UIDs \ gone : ix.msgs[u].id = index[Inbox].msgs[u].id
      /\ \A u \in gone : Has(index[Inbox], u) /\ ~Has(ix, u)
  BY <1>2 DEF Prepared
<1>4. Acked' = Acked /\ Coming' = {} /\ Coming = {}
  BY <1>1 DEF Acked, Coming, Unlocked
<1>5. ASSUME faults = 0 PROVE Ids(ix) = Acked \ asked'
  <2>1. Ids(index[Inbox]) = Acked \ asked
    BY <1>4, <1>5 DEF PopInv, BooksOK, Balanced
  <2>2. ASSUME NEW i \in Ids(ix) PROVE i \in Acked \ asked'
    <3>1. PICK u \in UIDs : Has(ix, u) /\ i = ix.msgs[u].id
      BY <2>2 DEF Ids
    <3>2. u \notin gone /\ i = index[Inbox].msgs[u].id /\ Has(index[Inbox], u)
      BY <1>3, <3>1 DEF Has
    <3>3. i \in Ids(index[Inbox])
      BY <3>2 DEF Ids
    <3> QED
      BY <2>1, <3>2, <3>3
  <2>3. ASSUME NEW i \in Acked \ asked' PROVE i \in Ids(ix)
    <3>1. i \in Ids(index[Inbox])
      BY <2>1, <2>3
    <3>2. PICK u \in UIDs : Has(index[Inbox], u) /\ i = index[Inbox].msgs[u].id
      BY <3>1 DEF Ids
    <3>3. u \notin gone
      BY <2>3, <3>2
    <3> QED
      BY <1>3, <3>2, <3>3 DEF Ids, Has
  <2> QED
    BY <2>2, <2>3
<1>6. Ids(op.ix)' = Ids(ix)
  BY <1>2 DEF Ids, Has
<1>7. BooksOK'
  BY <1>1, <1>4, <1>5, <1>6 DEF PopInv, BooksOK, Balanced, Unlocked
<1>8. OnlyMarkedRemoved'
  BY DEF PopInv, OnlyMarkedRemoved
<1> QED
  BY <1>1, <1>7, <1>8 DEF Booked, InboxOnlyOK

LEMMA RetrSeenBooks ==
    ASSUME PopInv, NEW s \in Sessions, RetrSeen(s)
    PROVE  Booked
<1>1. CASE SetFlags(Inbox, {pop[s].uid}, {Seen}, "add")
  <2>1. {pop[s].uid} \in SUBSET UIDs /\ {Seen} \in SUBSET Flags /\ Inbox \in Boxes
    BY SeenAssumption, BoxAssumption DEF RetrSeen, PopInv, SessionsOK, SessionOK
  <2>2. /\ Unlocked /\ Prepared(Inbox, {}, "open")
        /\ UNCHANGED <<index, files, now, copier, appends, acked, doomed, uidLog, wiped, faults>>
    BY <1>1, <2>1, SetFlagsBegins DEF PopInv
  <2>3. /\ doomed' = doomed \cup {index[Inbox].msgs[u].id : u \in {}}
        /\ \A u \in {} : index[Inbox].msgs[u].id \in asked'
        /\ {} \in SUBSET UIDs /\ "open" \in {"files", "open"}
    BY <2>2
  <2>4. asked' = asked /\ (faults = 0 => asked' \subseteq Acked)
    BY DEF RetrSeen, PopInv, BooksOK
  <2>5. \A u \in UIDs \ {} : Has(index[Inbox], u) =>
          index[Inbox].msgs[u].id \in asked \/ index[Inbox].msgs[u].id \notin asked'
    BY <2>4
  <2>6. UNCHANGED <<index, appends, acked, faults>>
    BY <2>2
  <2> QED
    BY <2>2, <2>3, <2>4, <2>5, <2>6, BooksPrepared
<1>2. CASE UNCHANGED vars
  BY <1>2, BooksStay DEF RetrSeen
<1> QED
  BY <1>1, <1>2 DEF RetrSeen

LEMMA QuitBooks ==
    ASSUME PopInv, NEW s \in Sessions, Quit(s)
    PROVE  Booked
<1> DEFINE r == pop[s]
<1>1. /\ asked' = asked \cup r.wanted
      /\ r.deleted \in SUBSET UIDs /\ Inbox \in Boxes
      /\ r.wanted = {r.msgs[u].id : u \in r.deleted}
      /\ \A u \in r.deleted : r.msgs[u].id # 0
  BY BoxAssumption DEF Quit, PopInv, PopTypeOK, PopSessions, SessionsOK, SessionOK
<1>2. CASE Remove(Inbox, r.deleted)
  <2>1. PICK gone \in SUBSET UIDs :
          /\ Unlocked /\ Prepared(Inbox, gone, "files")
          /\ gone = {u \in r.deleted : Has(index[Inbox], u)}
          /\ doomed' = doomed \cup {index[Inbox].msgs[u].id : u \in gone}
          /\ UNCHANGED <<index, appends, acked, faults>>
    BY <1>1, <1>2, RemoveBegins DEF PopInv
  <2>2. \A u \in gone : index[Inbox].msgs[u].id = r.msgs[u].id
    <3> SUFFICES ASSUME NEW u \in gone PROVE index[Inbox].msgs[u].id = r.msgs[u].id
      OBVIOUS
    <3>1. u \in UIDs /\ Has(index[Inbox], u) /\ r.msgs[u].id # 0
      BY <1>1, <2>1
    <3>2. index[Inbox].st = "ok"
      BY <3>1, BoxAssumption DEF PopInv, Inv, BlankOK
    <3> QED
      BY <3>1, <3>2 DEF PopInv, SessionsOK, SnapshotOK, SameUid
  <2>3. \A u \in gone : index[Inbox].msgs[u].id \in asked'
    BY <1>1, <2>1, <2>2
  <2>4. \A u \in UIDs \ gone : Has(index[Inbox], u) =>
          index[Inbox].msgs[u].id \in asked \/ index[Inbox].msgs[u].id \notin asked'
    <3> SUFFICES ASSUME NEW u \in UIDs \ gone, Has(index[Inbox], u),
                        index[Inbox].msgs[u].id \in r.wanted
                 PROVE  FALSE
      BY <1>1
    <3>1. PICK v \in r.deleted : index[Inbox].msgs[u].id = r.msgs[v].id
      BY <1>1
    <3>2. v \in UIDs /\ r.msgs[v].id # 0
      BY <1>1, <3>1
    <3>3. v = u
      BY <3>1, <3>2 DEF PopInv, SessionsOK, OneUid
    <3> QED
      BY <2>1, <3>1, <3>3
  <2>5. faults = 0 => asked' \subseteq Acked
    BY <1>1 DEF PopInv, BooksOK, SnapshotsAcked
  <2>6. asked \subseteq asked'
    BY <1>1
  <2> HIDE DEF r
  <2> QED
    BY <2>1, <2>3, <2>4, <2>5, <2>6, BooksPrepared
<1>3. CASE UNCHANGED vars /\ r.deleted = {}
  <2>1. asked' = asked
    BY <1>1, <1>3
  <2> QED
    BY <1>3, <2>1, BooksStay
<1>4. CASE UNCHANGED vars /\ ~Readable(Inbox)
  <2>1. faults # 0
    BY <1>4, BoxAssumption
    DEF Quit, Readable, Unlocked, PopInv, Inv, TypeOK, Index, ExactOK
  <2> QED
    BY <1>1, <1>4, <2>1, BooksStay
<1> QED
  BY <1>2, <1>3, <1>4 DEF Quit, Marked

\* SMTP takes the lock to append a message: it is coming, with an id of its own.
LEMMA DeliveryBooks ==
    ASSUME PopInv, Delivery
    PROVE  Booked
<1>1. StartAppend(Inbox, appends + 1, {}, FALSE) /\ asked' = asked
  BY DEF Delivery, Append
<1>2. /\ appends + 1 \in 0 .. MaxAppends /\ appends \in Nat
      /\ {} \in SUBSET Flags /\ FALSE \in BOOLEAN
  BY <1>1, BoundAssumption DEF PopInv, Inv, TypeOK, StartAppend, WriteMessage
<1>3. PICK uid \in UIDs, ix \in Index :
         /\ Unlocked /\ Appending(Inbox, uid, ix, appends + 1, FALSE)
         /\ appends' = appends + 1
         /\ UNCHANGED <<index, acked, doomed, faults>>
  BY <1>1, <1>2, AppendBegins, BoxAssumption DEF PopInv
<1>4. /\ op'.pc = "body" /\ op'.box = Inbox /\ op'.ix = ix
      /\ op'.uid = uid /\ op'.body = appends + 1
      /\ ix.msgs[uid].id = appends + 1 /\ ~Has(index[Inbox], uid)
      /\ \A u \in UIDs \ {uid} : ix.msgs[u].id = index[Inbox].msgs[u].id
  BY <1>3 DEF Appending
<1>5. Acked' = Acked /\ Coming = {} /\ Coming' = {appends + 1}
  BY <1>2, <1>3, <1>4 DEF Acked, Coming, Unlocked, NoFile
<1>6. appends + 1 \notin Acked /\ Acked \subseteq 1 .. appends'
  BY <1>2, <1>3 DEF PopInv, BooksOK
<1>7. \A u \in UIDs : index[Inbox].msgs[u].id # appends + 1
  <2> SUFFICES ASSUME NEW u \in UIDs, index[Inbox].msgs[u].id = appends + 1 PROVE FALSE
    OBVIOUS
  <2>1. appends + 1 <= appends
    BY <1>2 DEF PopInv, IdsInv, OneUid
  <2> QED
    BY <1>2, <2>1
<1>8. Ids(ix) = Ids(index[Inbox]) \cup {appends + 1}
  BY <1>2, <1>4 DEF Ids, Has
<1>9. appends + 1 \notin Ids(index[Inbox])
  BY <1>7 DEF Ids
<1>10. Ids(op.ix)' = Ids(ix)
  BY <1>4 DEF Ids, Has
<1>11. faults = 0 => Balanced(Ids(op.ix))'
  <2>1. faults = 0 => Ids(index[Inbox]) = Acked \ asked
    BY <1>3, <1>5 DEF PopInv, BooksOK, Balanced
  <2> QED
    BY <1>1, <1>5, <1>6, <1>8, <1>9, <1>10, <2>1 DEF Balanced
<1>12. BooksOK'
  BY <1>1, <1>3, <1>4, <1>5, <1>6, <1>11 DEF PopInv, BooksOK, Unlocked
<1> QED
  BY <1>1, <1>3, <1>4, <1>12
  DEF Booked, PopInv, InboxOnlyOK, Rewriting, OnlyMarkedRemoved

LEMMA SystemCallBooks ==
    ASSUME PopInv, SystemCall, UNCHANGED asked
    PROVE  Booked
<1>1. op.pc \in Rewriting /\ op.box = Inbox /\ op \in Ops /\ ~Unlocked
  BY DEF SystemCall, WriteBody, UnlinkBody, OpenIndex, WriteIndex, RemoveAll,
         PopInv, InboxOnlyOK, Unlocked, Inv, TypeOK
<1>2. CASE WriteBody \/ UnlinkBody \/ OpenIndex
  <2>1. /\ op'.ix = op.ix /\ op'.box = op.box /\ op'.uid = op.uid
        /\ op'.body = op.body /\ op'.pc \in Rewriting
        /\ UNCHANGED <<appends, acked, doomed, faults>>
    BY <1>1, <1>2 DEF WriteBody, UnlinkBody, OpenIndex, history, Ops, Rewriting
  <2>2. ~Unlocked'
    BY <2>1 DEF Unlocked, Rewriting
  <2>3. Acked' = Acked /\ Coming' = Coming /\ Ids(op.ix)' = Ids(op.ix)
    BY <1>1, <2>1, <2>2 DEF Acked, Coming, Ids, Has
  <2>4. BooksOK'
    BY <1>1, <2>1, <2>2, <2>3 DEF PopInv, BooksOK, Balanced
  <2> QED
    BY <1>1, <2>1, <2>4 DEF Booked, PopInv, InboxOnlyOK, OnlyMarkedRemoved
<1>3. CASE WriteIndex
  <2>1. /\ op' = NoOp /\ index' = [index EXCEPT ![op.box] = op.ix]
        /\ UNCHANGED <<appends, doomed, faults>>
        /\ op.body = NoFile => acked' = acked
        /\ op.body # NoFile => acked' = acked \cup {<<op.ix.msgs[op.uid].id, op.box>>}
    BY <1>3 DEF WriteIndex
  <2>2. Unlocked' /\ index'[Inbox] = op.ix
    BY <1>1, <2>1, NoOpFields, BoxAssumption DEF Unlocked, PopInv, Inv, TypeOK
  <2>3. Coming' = {} /\ Ids(index[Inbox])' = Ids(op.ix)
    BY <2>2 DEF Coming, Ids, Has
  <2>4. Acked' = Acked \cup Coming
    <3>1. CASE op.body = NoFile
      BY <1>1, <2>1, <3>1 DEF Acked, Coming
    <3>2. CASE op.body # NoFile
      <4> DEFINE new == <<op.ix.msgs[op.uid].id, op.box>>
      <4>1. acked' = acked \cup {new} /\ Coming = {new[1]}
        BY <1>1, <2>1, <3>2 DEF Coming
      <4> HIDE DEF new
      <4> QED
        BY <4>1 DEF Acked
    <3> QED
      BY <3>1, <3>2
  <2>5. Coming \subseteq 1 .. appends
    <3> SUFFICES ASSUME op.body # NoFile PROVE op.ix.msgs[op.uid].id \in 1 .. appends
      BY DEF Coming
    <3>1. op.ix.msgs[op.uid].id # 0 /\ op.uid \in UIDs
      BY <1>1 DEF PopInv, Inv, OpOK, Has, Ops
    <3>2. op.ix.msgs[op.uid].id <= appends
      BY <1>1, <3>1 DEF PopInv, IdsInv, OneUid, RewritingBox
    <3>3. op.ix.msgs[op.uid].id \in Nat /\ appends \in Nat
      BY <1>1, <3>1, BoundAssumption DEF Ops, Index, Message, PopInv, Inv, TypeOK
    <3> QED
      BY <3>1, <3>2, <3>3
  <2>6. faults = 0 => /\ Ids(op.ix) \ Coming = Acked \ asked /\ asked \subseteq Acked
                      /\ Coming \cap Acked = {} /\ Coming \subseteq Ids(op.ix)
    BY <1>1 DEF PopInv, BooksOK, Balanced
  <2>7. faults = 0 => Ids(op.ix) = (Acked \cup Coming) \ asked
    BY <2>6
  <2>8. faults = 0 => Balanced(Ids(index[Inbox]))'
    BY <2>3, <2>4, <2>7 DEF Balanced
  <2>9. Acked' \subseteq 1 .. appends
    BY <2>4, <2>5 DEF PopInv, BooksOK
  <2>10. BooksOK'
    BY <2>1, <2>2, <2>4, <2>6, <2>8, <2>9 DEF BooksOK
  <2> QED
    BY <2>1, <2>2, <2>10 DEF Booked, PopInv, InboxOnlyOK, OnlyMarkedRemoved
<1> QED
  BY <1>1, <1>2, <1>3 DEF SystemCall, RemoveAll, Rewriting

LEMMA FaultBooks ==
    ASSUME PopInv, CallError \/ Crash, UNCHANGED asked
    PROVE  Booked
<1>1. op' = NoOp /\ faults' = faults + 1 /\ UNCHANGED <<appends, acked, doomed>>
  BY DEF CallError, Crash, history
<1>2. faults' # 0 /\ Unlocked'
  BY <1>1, NoOpFields, BoundAssumption DEF PopInv, Inv, TypeOK, Unlocked
<1>3. Acked' = Acked
  BY <1>1 DEF Acked
<1> QED
  BY <1>1, <1>2, <1>3 DEF Booked, PopInv, BooksOK, InboxOnlyOK, OnlyMarkedRemoved

LEMMA BooksKept ==
    ASSUME PopInv, [PopNext]_popVars
    PROVE  Booked
<1>1. ASSUME NEW s \in Sessions,
             Pass(s) \/ Rset(s) \/ Disconnect(s)
               \/ \E k \in UIDs : Top(s, k) \/ Retr(s, k) \/ Dele(s, k)
      PROVE  UNCHANGED vars /\ asked' = asked
  BY <1>1 DEF Pass, Rset, Disconnect, Top, Retr, Sends, Dele
<1>2. CASE UNCHANGED popVars
  BY <1>2, BooksStay DEF popVars
<1>3. CASE StoreStep \/ PopCrash
  BY <1>3, SystemCallBooks, FaultBooks DEF StoreStep, PopCrash
<1> QED
  BY <1>1, <1>2, <1>3, BooksStay, RetrSeenBooks, QuitBooks, DeliveryBooks DEF PopNext

PopStepOf(s) ==
    \/ Pass(s) \/ RetrSeen(s) \/ Rset(s) \/ Quit(s) \/ Disconnect(s)
    \/ \E k \in UIDs : Top(s, k) \/ Retr(s, k) \/ Dele(s, k)

\* What sessions list has been acknowledged: PASS reads an INBOX in balance.
LEMMA SnapshotsAckedKept ==
    ASSUME PopInv, [PopNext]_popVars
    PROVE  SnapshotsAcked'
<1> SUFFICES ASSUME faults' = 0, NEW s \in Sessions, NEW u \in UIDs,
                    pop'[s].msgs[u].id # 0
             PROVE  pop'[s].msgs[u].id \in Acked'
  BY DEF SnapshotsAcked
<1>1. faults = 0
  <2>1. faults' \in {faults, faults + 1}
    BY PopStep DEF Next, Call, SystemCall, Copy, CallError, Crash, Tick, vars,
         CreateMailbox, DeleteMailbox, SetSubscribed, Append, StartAppend, WriteMessage,
         Remove, SetFlags, RenameMailbox, WriteBody, UnlinkBody, OpenIndex, WriteIndex,
         RemoveAll, StartCopy, CopyCheckDest, CopyRead, CopyAppend, CopyAbort
  <2> QED
    BY <2>1, BoundAssumption DEF PopInv, Inv, TypeOK
<1>2. Acked \subseteq Acked'
  BY BooksKept DEF Booked, Acked
<1>3. CASE pop'[s].msgs = pop[s].msgs
  BY <1>1, <1>2, <1>3 DEF PopInv, SnapshotsAcked
<1>4. CASE Pass(s)
  <2>1. /\ Unlocked /\ Readable(Inbox) /\ pop'[s].msgs = ReadIndex(Inbox).msgs
    BY <1>4 DEF Pass, PopInv, PopTypeOK, PopSessions
  <2>2. pop'[s].msgs[u].id = index[Inbox].msgs[u].id
    BY <2>1, ReadIndexFacts, BoxAssumption DEF PopInv
  <2>3. pop'[s].msgs[u].id \in Ids(index[Inbox])
    BY <2>2 DEF Ids, Has
  <2>4. Ids(index[Inbox]) \subseteq Acked
    BY <1>1, <2>1 DEF PopInv, BooksOK, Balanced, Coming
  <2> QED
    BY <1>2, <2>3, <2>4
<1>5. CASE pop'[s] = [NoSession EXCEPT !.st = "closed"]
  BY <1>5, Closed
<1>6. ASSUME NEW t \in Sessions, PopStepOf(t), ~Pass(s)
      PROVE  \/ pop'[s].msgs = pop[s].msgs
             \/ pop'[s] = [NoSession EXCEPT !.st = "closed"]
  <2> USE <1>6 DEF PopInv, PopTypeOK
  <2>1. CASE s # t
    BY <2>1 DEF PopStepOf, Pass, RetrSeen, Rset, Quit, Disconnect, Top, Retr, Sends, Dele
  <2>2. CASE s = t /\ (Quit(t) \/ Disconnect(t))
    BY <2>2 DEF Quit, Disconnect
  <2>3. CASE s = t /\ (RetrSeen(t) \/ Rset(t))
    BY <2>3 DEF RetrSeen, Rset, PopSessions
  <2>4. CASE s = t /\ \E k \in UIDs : Top(t, k) \/ Retr(t, k)
    <3>1. PICK k \in UIDs, next \in {"trans", "flag"} : Sends(t, k, next)
      BY <2>4 DEF Top, Retr
    <3>2. PICK w \in UIDs :
            pop' = [pop EXCEPT ![t].uid = w, ![t].got = files[Inbox][w], ![t].st = next]
      BY <3>1 DEF Sends
    <3> QED
      BY <2>4, <3>2 DEF PopSessions
  <2>5. CASE s = t /\ \E k \in UIDs : Dele(t, k)
    BY <2>5 DEF Dele, PopSessions
  <2> QED
    BY <2>1, <2>2, <2>3, <2>4, <2>5 DEF PopStepOf
<1>7. CASE Delivery \/ StoreStep \/ UNCHANGED popVars
  BY <1>3, <1>7 DEF Delivery, StoreStep, popVars
<1>8. CASE PopCrash
  BY <1>5, <1>8 DEF PopCrash
<1> QED
  BY <1>3, <1>4, <1>5, <1>6, <1>7, <1>8 DEF PopNext, PopStepOf

LEMMA PopInvariance == PopSpec => []PopInv
<1>1. PopInv /\ [PopNext]_popVars => PopInv'
  BY StoreKept, SessionsKept, BooksKept, SnapshotsAckedKept DEF Booked, PopInv
<1> QED
  BY PopInitInv, <1>1, PTL DEF PopSpec

-----------------------------------------------------------------------------
(* The theorems. *)

\* Whatever sessions, deliveries and faults interleave, QUIT removes only
\* messages that a client marked with DELE and committed.
THEOREM RemovedWereMarked == PopSpec => []OnlyMarkedRemoved
<1>1. PopInv => OnlyMarkedRemoved
  BY DEF PopInv
<1> QED
  BY <1>1, PopInvariance, PTL

\* RETR and TOP, which read the file without the lock, send the message that
\* the session's snapshot has under the number.
THEOREM RetrIsFaithful == PopSpec => []RetrFaithful
<1>1. PopInv => RetrFaithful
  BY DEF PopInv, SessionsOK, SessionOK, RetrFaithful
<1> QED
  BY <1>1, PopInvariance, PTL

\* Without faults the INBOX is what was delivered and not removed by a QUIT,
\* for any number of sessions and messages.
THEOREM InboxIsExact == PopSpec => []InboxIsDeliveredMinusRemoved
<1>1. PopInv => InboxIsDeliveredMinusRemoved
  BY DEF PopInv, BooksOK, Balanced, Coming, Ids, Listed, InboxIsDeliveredMinusRemoved
<1> QED
  BY <1>1, PopInvariance, PTL
=============================================================================
