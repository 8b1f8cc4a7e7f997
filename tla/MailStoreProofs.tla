-------------------------- MODULE MailStoreProofs --------------------------
(***************************************************************************)
(* Proofs about MailStore, for every set of mailboxes and flags and every  *)
(* bound: Inv is inductive, and IndexedHasBody, AckedKept,                 *)
(* InboxUidForever, CopyFromInboxFaithful and StoreExact follow from it.   *)
(***************************************************************************)
EXTENDS MailStore, WellFoundedInduction, TLAPS

-----------------------------------------------------------------------------
(* Facts about the operators. *)

\* A set of UIDs that is not empty has a least one: the loops over UIDs in
\* order, and NextCopy, are well defined.
LEMMA LeastUid ==
    ASSUME NEW S \in SUBSET UIDs, S # {}
    PROVE  \E u \in S : \A v \in S : u <= v
<1> DEFINE R == OpToRel(<, Nat)
<1>1. S \subseteq Nat
  BY BoundAssumption DEF UIDs
<1>2. \A x, y \in Nat : y < x => <<y, x>> \in R
  BY DEF OpToRel
<1>3. \E x \in S : \A y \in S : ~(<<y, x>> \in R)
  <2> HIDE DEF R
  <2> IsWellFoundedOn(R, Nat)
    BY NatLessThanWellFounded DEF R
  <2> QED
    BY <1>1, WFMin
<1> HIDE DEF R
<1>4. PICK x \in S : \A y \in S : ~(<<y, x>> \in R)
  BY <1>3
<1>5. \A y \in S : ~(y < x)
  BY <1>1, <1>2, <1>4
<1> QED
  BY <1>1, <1>5

LEMMA NextCopyLeast ==
    ASSUME TypeOK, copier.todo # {}
    PROVE  NextCopy \in copier.todo /\ NextCopy \in UIDs
<1>1. copier.todo \in SUBSET UIDs
  BY DEF TypeOK, Copies
<1>2. \E u \in copier.todo : \A v \in copier.todo : u <= v
  BY <1>1, LeastUid
<1>3. NextCopy \in copier.todo
  BY <1>2 DEF NextCopy
<1> QED
  BY <1>1, <1>3

\* The bounds, as the provers need them.
LEMMA Bounds ==
    /\ 1 \in UIDs /\ 0 \in Times /\ 0 \in 0 .. MaxFaults
    /\ 0 \in 0 .. MaxAppends /\ NoFile \in -1 .. MaxAppends
    /\ \A k \in 0 .. MaxAppends : k < MaxAppends => k + 1 \in UIDs
    /\ UIDs \subseteq Nat
  BY BoundAssumption DEF UIDs, Times, NoFile

LEMMA NoMessageType ==
    /\ NoMessage \in Message /\ NoMessage.id = 0
    /\ [u \in UIDs |-> NoMessage] \in [UIDs -> Message]
  BY Bounds, BoundAssumption DEF NoMessage, Message

LEMMA AbsentType ==
    ASSUME NEW st \in {"none", "torn"}
    PROVE  /\ Absent(st) \in Index /\ Absent(st).st = st
           /\ \A u \in UIDs : ~Has(Absent(st), u)
  BY Bounds, NoMessageType DEF Absent, Index, Has

LEMMA NewIndexType ==
    ASSUME now \in Times
    PROVE  /\ NewIndex \in Index /\ NewIndex.st = "ok" /\ NewIndex.next = 1
           /\ \A u \in UIDs : ~Has(NewIndex, u) /\ NewIndex.msgs[u] = NoMessage
  BY Bounds, NoMessageType DEF NewIndex, Index, Has

LEMMA NoOpFields ==
    /\ NoOp \in Ops /\ NoOp.pc = "free" /\ NoOp.copying = FALSE
    /\ NoOp.box = None
  BY Bounds, AbsentType DEF NoOp, Ops

LEMMA NoCopyFields ==
    /\ NoCopy \in Copies /\ NoCopy.pc = "idle" /\ NoCopy.todo = {}
    /\ NoCopy.from = None
  BY Bounds, NoMessageType DEF NoCopy, Copies

\* The empty store satisfies the invariant.
LEMMA InitInv == Init => Inv
<1> SUFFICES ASSUME Init PROVE Inv
  OBVIOUS
<1>0. None # Inbox
  BY BoxAssumption
<1>1. TypeOK
  <2>1. index \in [Boxes -> Index]
    BY AbsentType DEF Init
  <2>2. files \in [Boxes -> [UIDs -> -1 .. MaxAppends]]
    BY Bounds DEF Init, NoFiles
  <2> QED
    BY <2>1, <2>2, Bounds, NoOpFields, NoCopyFields DEF Init, TypeOK
<1>2. BlankOK /\ IndexOK
  BY AbsentType DEF Init, BlankOK, IndexOK
<1>3. OpOK
  BY NoOpFields DEF Init, OpOK, Rewriting
<1>4. AckedOK /\ LogOK
  BY DEF Init, AckedOK, LogOK, InboxUidForever
<1>5. CopyOK
  BY <1>0, NoOpFields, NoCopyFields DEF Init, CopyOK, CopyFromInboxFaithful
<1>6. ExactOK
  <2>1. \A n \in Boxes, u \in UIDs : FileExact(n, index[n], u)
    BY AbsentType DEF Init, FileExact, NoFiles
  <2> QED
    BY <2>1, AbsentType, NoOpFields DEF Init, ExactOK, Rewriting
<1> QED
  BY <1>1, <1>2, <1>3, <1>4, <1>5, <1>6 DEF Inv

-----------------------------------------------------------------------------
(* The calls. *)

\* A snapshot of INBOX that is held during a step keeps its meaning.
SnapshotsKept ==
    ~wiped => \A msgs \in [UIDs -> Message] : SnapshotOK(msgs) => SnapshotOK(msgs)'

\* w is the call that rewrites the index of n as ix.
Begun(w, n, ix, gone, pc) ==
    /\ w \in Ops
    /\ w.pc = pc /\ w.box = n /\ w.ix = ix /\ w.todo = gone
    /\ w.body = NoFile /\ w.copying = FALSE

\* Where ix has no message it has what the index of n has there, or a blank.
Vacant(n, ix, u) ==
    ix.msgs[u].id = 0 => ix.msgs[u] \in {index[n].msgs[u], NoMessage}

\* What a call that takes the lock prepares: the index of n with the ids and
\* bodies of the present one, but for the messages under gone.
Prepared(n, gone, pc) ==
    /\ Begun(op', n, op'.ix, gone, pc)
    /\ op'.ix \in Index /\ op'.ix.st = "ok"
    /\ index[n].st # "torn"
    /\ index[n].st = "ok" =>
         op'.ix.next = index[n].next /\ op'.ix.validity = index[n].validity
    /\ index[n].st = "none" => op'.ix.next = 1
    /\ \A u \in UIDs \ gone : /\ op'.ix.msgs[u].id = index[n].msgs[u].id
                              /\ op'.ix.msgs[u].body = index[n].msgs[u].body
                                    \/ index[n].msgs[u].id = 0
    /\ \A u \in gone : /\ Has(index[n], u) /\ ~Has(op'.ix, u)
                       /\ index[n].msgs[u].id \in doomed'
    /\ \A u \in UIDs : Vacant(n, op'.ix, u)

\* CreateMailbox, SetSubscribed, SetFlags and Remove: a call takes the lock to
\* rewrite the index of n, without the messages under gone, whose removal was
\* asked for.
LEMMA PreparedStep ==
    ASSUME Inv, Unlocked, NEW n \in Boxes, NEW gone \in SUBSET UIDs,
           NEW pc \in {"files", "open"}, Prepared(n, gone, pc),
           pc = "open" => gone = {},
           UNCHANGED <<index, files, now, copier, appends, acked, uidLog, wiped, faults>>,
           doomed \subseteq doomed', doomed' \subseteq 1 .. MaxAppends
    PROVE  Inv' /\ SnapshotsKept
<1>0. PICK ix \in Index : ix = op'.ix
  BY DEF Prepared
<1>a. Begun(op', n, ix, gone, pc)
  BY <1>0 DEF Prepared
<1>b. /\ index[n].st # "torn" /\ ix.st = "ok"
      /\ index[n].st = "none" => ix.next = 1
      /\ index[n].st = "ok" =>
           ix.next = index[n].next /\ ix.validity = index[n].validity
  BY <1>0 DEF Prepared
<1>c. \A u \in UIDs \ gone : /\ ix.msgs[u].id = index[n].msgs[u].id
                             /\ ix.msgs[u].body = index[n].msgs[u].body
                                   \/ index[n].msgs[u].id = 0
  BY <1>0 DEF Prepared
<1>d. \A u \in gone : /\ Has(index[n], u) /\ ~Has(ix, u)
                      /\ index[n].msgs[u].id \in doomed'
  BY <1>0 DEF Prepared
<1> USE <1>a, <1>b, <1>c, <1>d
<1> USE DEF Begun, Unlocked, Rewriting, RewritingBox, RemovingBox
<1>1. TypeOK'
  BY Bounds DEF Inv, TypeOK, Ops
<1>2. BlankOK'
  BY DEF Inv, BlankOK, Has
<1>3. Shape(ix)' /\ Shape(op.ix)'
  <2>1. appends \in Nat /\ index[n].st \in {"none", "ok", "torn"}
    BY BoundAssumption DEF Inv, TypeOK, Index
  <2>2. \A u \in UIDs : Has(ix, u) => Has(index[n], u)
    BY DEF Has
  <2>3. CASE index[n].st = "none"
    <3>1. \A u \in UIDs : ~Has(index[n], u)
      BY <2>3 DEF Inv, BlankOK
    <3> QED
      BY <2>1, <2>2, <2>3, <3>1 DEF Shape, Has
  <2>4. CASE index[n].st = "ok"
    <3>1. Shape(index[n])
      BY <2>4 DEF Inv, IndexOK
    <3> QED
      BY <2>2, <2>4, <3>1 DEF Shape, Has
  <2> QED
    BY <2>1, <2>3, <2>4
<1>4. IndexOK'
  BY DEF Inv, IndexOK, Shape, BodyOK, Has
<1>5. \A u \in UIDs : BodyOK(n, ix, u)'
  <2> SUFFICES ASSUME NEW u \in UIDs, Has(ix, u) PROVE BodyOK(n, ix, u)'
    BY DEF BodyOK, Has
  <2>1. u \notin gone /\ Has(index[n], u)
    BY DEF Has
  <2>2. BodyOK(n, index[n], u)
    BY <2>1 DEF Inv, BlankOK, IndexOK
  <2> QED
    BY <2>1, <2>2 DEF BodyOK, Has
<1>6. OpOK'
  BY <1>3, <1>5 DEF OpOK, BodyOK, Has
<1>7. \A a \in acked : a[2] = n => a[1] \in doomed' \/ Lists(ix, a[1])
  <2> SUFFICES ASSUME NEW a \in acked, a[2] = n, a[1] \notin doomed'
               PROVE  Lists(ix, a[1])
    OBVIOUS
  <2>1. Lists(index[n], a[1])
    BY DEF Inv, BlankOK, AckedOK
  <2> QED
    BY <2>1 DEF Lists
<1>8. AckedOK'
  BY <1>7 DEF Inv, AckedOK, Lists
<1>9. LogOK'
  <2>1. InboxUidForever'
    BY DEF Inv, LogOK, InboxUidForever
  <2>2. op'.box = n /\ op'.ix = ix /\ op'.body = NoFile
    OBVIOUS
  <2> QED
    BY <2>1, <2>2 DEF Inv, LogOK, TypeOK, Index
<1>10. SnapshotsKept
  <2> SUFFICES ASSUME ~wiped, NEW msgs \in [UIDs -> Message], SnapshotOK(msgs),
                      NEW u \in UIDs, msgs[u].id # 0
               PROVE  /\ files[Inbox][u] \in {NoFile, msgs[u].body}
                      /\ index[Inbox].st # "none"
                      /\ index[Inbox].st = "ok" => SameUid(index[Inbox], msgs, u)
                      /\ n = Inbox => SameUid(ix, msgs, u)
    BY DEF SnapshotsKept, SnapshotOK, SameUid, Has
  <2>1. index[Inbox].st # "none"
    BY DEF SnapshotOK
  <2>2. n = Inbox => SameUid(index[n], msgs, u) /\ ix.next = index[n].next
    BY <2>1, BoxAssumption DEF Inv, TypeOK, Index, SnapshotOK
  <2>3. n = Inbox => SameUid(ix, msgs, u)
    BY <2>2 DEF SameUid, Has
  <2> QED
    BY <2>3 DEF SnapshotOK
<1>11. CopyOK'
  BY <1>10 DEF Inv, TypeOK, Copies, CopyOK, OpOK, CopyFromInboxFaithful, SnapshotsKept, NextCopy
<1>12. ExactOK'
  BY DEF Inv, BlankOK, ExactOK, FileExact, Has
<1> QED
  BY <1>1, <1>2, <1>4, <1>6, <1>8, <1>9, <1>10, <1>11, <1>12 DEF Inv

LEMMA WritingFields ==
    ASSUME NEW n \in Boxes, NEW ix \in Index, NEW gone \in SUBSET UIDs,
           NEW pc \in {"files", "open"}
    PROVE  /\ Begun([Writing(n, ix) EXCEPT !.pc = pc, !.todo = gone], n, ix, gone, pc)
           /\ Begun(Writing(n, ix), n, ix, {}, "open")
<1>1. /\ NoOp \in Ops /\ NoOp.uid = 1 /\ NoOp.body = NoFile /\ NoOp.todo = {}
      /\ NoOp.copying = FALSE
  BY NoOpFields DEF NoOp
<1>2. Begun(Writing(n, ix), n, ix, {}, "open")
  BY <1>1 DEF Begun, Writing, Ops
<1> QED
  BY <1>2 DEF Begun, Ops

\* The same when nothing is removed: writeIndex is all there is to do.
LEMMA BeginWrite ==
    ASSUME Inv, Unlocked, NEW n \in Boxes, NEW ix \in Index,
           op' = Writing(n, ix),
           UNCHANGED <<index, files, now, copier, appends, acked, doomed, uidLog, wiped, faults>>,
           index[n].st # "torn", ix.st = "ok",
           index[n].st = "ok" =>
               ix.next = index[n].next /\ ix.validity = index[n].validity,
           index[n].st = "none" => ix.next = 1,
           \A u \in UIDs : /\ ix.msgs[u].id = index[n].msgs[u].id
                           /\ ix.msgs[u].body = index[n].msgs[u].body
                                 \/ index[n].msgs[u].id = 0,
           \A u \in UIDs : Vacant(n, ix, u)
    PROVE  Inv' /\ SnapshotsKept /\ Prepared(n, {}, "open")
<1>1. {} \in SUBSET UIDs /\ "open" \in {"files", "open"}
  OBVIOUS
<1>2. Begun(op', n, ix, {}, "open")
  BY WritingFields
<1>3. UNCHANGED <<index, files, now, copier, appends, acked, uidLog, wiped, faults>>
  OBVIOUS
<1>4. doomed \subseteq doomed' /\ doomed' \subseteq 1 .. MaxAppends
  BY DEF Inv, TypeOK
<1>5. op'.ix = ix
  BY <1>2 DEF Begun
<1>6. Prepared(n, {}, "open")
  BY <1>2, <1>5 DEF Prepared
<1> QED
  BY <1>1, <1>3, <1>4, <1>6, PreparedStep

\* What a call that can read the index of n starts from.
LEMMA ReadIndexFacts ==
    ASSUME Inv, NEW n \in Boxes, Readable(n)
    PROVE  /\ ReadIndex(n) \in Index /\ ReadIndex(n).st = "ok"
           /\ index[n].st # "torn"
           /\ index[n].st = "ok" => ReadIndex(n) = index[n]
           /\ index[n].st = "none" => ReadIndex(n).next = 1
           /\ \A u \in UIDs : /\ ReadIndex(n).msgs[u].id = index[n].msgs[u].id
                              /\ Has(index[n], u) =>
                                   ReadIndex(n).msgs[u] = index[n].msgs[u]
                              /\ Vacant(n, ReadIndex(n), u)
<1>1. index[n] \in Index /\ now \in Times
  BY DEF Inv, TypeOK
<1>2. index[n].st # "ok" => \A u \in UIDs : index[n].msgs[u].id = 0
  BY DEF Inv, BlankOK, Has
<1> QED
  BY <1>1, <1>2, NewIndexType DEF Readable, ReadIndex, Has, Vacant

LEMMA CreateMailboxStep ==
    ASSUME Inv, NEW n \in Boxes, CreateMailbox(n)
    PROVE  Inv' /\ SnapshotsKept /\ Prepared(n, {}, "open")
<1>1. /\ Unlocked /\ index[n].st = "none" /\ op' = Writing(n, NewIndex)
      /\ UNCHANGED <<index, files, now, copier, appends, acked, doomed, uidLog, wiped, faults>>
  BY DEF CreateMailbox, Lock, disk, history
<1>2. /\ NewIndex \in Index /\ NewIndex.st = "ok" /\ NewIndex.next = 1
      /\ \A u \in UIDs : /\ NewIndex.msgs[u].id = 0 /\ index[n].msgs[u].id = 0
                         /\ Vacant(n, NewIndex, u)
  BY <1>1, NewIndexType DEF Inv, TypeOK, BlankOK, Has, Vacant
<1> QED
  BY <1>1, <1>2, BeginWrite

LEMMA SetSubscribedStep ==
    ASSUME Inv, NEW n \in Boxes, SetSubscribed(n)
    PROVE  Inv' /\ SnapshotsKept /\ Prepared(n, {}, "open")
<1>1. /\ Unlocked /\ Readable(n) /\ op' = Writing(n, ReadIndex(n))
      /\ UNCHANGED <<index, files, now, copier, appends, acked, doomed, uidLog, wiped, faults>>
  BY DEF SetSubscribed, Lock, disk, history
<1>2. \A u \in UIDs : ReadIndex(n).msgs[u].body = index[n].msgs[u].body
                         \/ index[n].msgs[u].id = 0
  BY <1>1, ReadIndexFacts DEF Has
<1> QED
  BY <1>1, <1>2, ReadIndexFacts, BeginWrite

LEMMA SetFlagsBegins ==
    ASSUME Inv, NEW n \in Boxes, NEW uids \in SUBSET UIDs,
           NEW fs \in SUBSET Flags, NEW how \in {"set", "add", "remove"},
           SetFlags(n, uids, fs, how)
    PROVE  /\ Unlocked /\ Prepared(n, {}, "open")
           /\ UNCHANGED <<index, files, now, copier, appends, acked, doomed, uidLog, wiped, faults>>
<1> DEFINE old == ReadIndex(n)
           new == [u \in UIDs |->
                      IF u \in uids /\ Has(old, u)
                      THEN [old.msgs[u] EXCEPT !.flags = applyFlags(@, fs, how)]
                      ELSE old.msgs[u]]
           ix  == [old EXCEPT !.msgs = new]
<1>1. /\ Unlocked /\ Readable(n) /\ op' = Writing(n, ix)
      /\ UNCHANGED <<index, files, now, copier, appends, acked, doomed, uidLog, wiped, faults>>
  BY DEF SetFlags, Lock, disk, history
<1>2. old \in Index
  BY <1>1, ReadIndexFacts
<1>3. \A m \in Message : applyFlags(m.flags, fs, how) \in SUBSET Flags
  BY DEF applyFlags, normaliseFlags, Message
<1>4. \A u \in UIDs : /\ new[u] \in Message
                      /\ new[u].id = old.msgs[u].id
                      /\ new[u].body = old.msgs[u].body
  <2> SUFFICES ASSUME NEW u \in UIDs
               PROVE  /\ new[u] \in Message
                      /\ new[u].id = old.msgs[u].id
                      /\ new[u].body = old.msgs[u].body
    OBVIOUS
  <2>1. old.msgs[u] \in Message
    BY <1>2 DEF Index
  <2> HIDE DEF old
  <2>2. applyFlags(old.msgs[u].flags, fs, how) \in SUBSET Flags
    BY <1>3, <2>1
  <2> QED
    BY <2>1, <2>2 DEF Message
<1>5. /\ ix \in Index /\ ix.st = old.st /\ ix.next = old.next
      /\ ix.validity = old.validity /\ ix.msgs = new
  <2> HIDE DEF old
  <2>1. new \in [UIDs -> Message]
    BY <1>4
  <2> HIDE DEF new
  <2> QED
    BY <1>2, <2>1 DEF Index
<1>a. \A u \in UIDs : Vacant(n, ix, u)
  <2>1. \A u \in UIDs : ~Has(old, u) => ix.msgs[u] = old.msgs[u]
    BY <1>5
  <2> QED
    BY <1>1, <1>4, <1>5, <2>1, ReadIndexFacts DEF Has, Vacant
<1> HIDE DEF ix, new
<1>6. \A u \in UIDs : /\ ix.msgs[u].id = index[n].msgs[u].id
                      /\ ix.msgs[u].body = index[n].msgs[u].body
                            \/ index[n].msgs[u].id = 0
  BY <1>1, <1>4, <1>5, ReadIndexFacts DEF Has
<1>7. /\ index[n].st # "torn" /\ ix.st = "ok"
      /\ index[n].st = "ok" =>
            ix.next = index[n].next /\ ix.validity = index[n].validity
      /\ index[n].st = "none" => ix.next = 1
  BY <1>1, <1>5, ReadIndexFacts
<1> HIDE DEF old
<1>8. Begun(op', n, ix, {}, "open")
  BY <1>1, <1>5, WritingFields
<1>9. op'.ix = ix
  BY <1>8 DEF Begun
<1> QED
  BY <1>1, <1>5, <1>6, <1>7, <1>8, <1>9, <1>a DEF Prepared

LEMMA SetFlagsStep ==
    ASSUME Inv, NEW n \in Boxes, NEW uids \in SUBSET UIDs,
           NEW fs \in SUBSET Flags, NEW how \in {"set", "add", "remove"},
           SetFlags(n, uids, fs, how)
    PROVE  Inv' /\ SnapshotsKept
<1>1. /\ Unlocked /\ Prepared(n, {}, "open")
      /\ UNCHANGED <<index, files, now, copier, appends, acked, doomed, uidLog, wiped, faults>>
  BY SetFlagsBegins
<1>2. doomed \subseteq doomed' /\ doomed' \subseteq 1 .. MaxAppends
  BY <1>1 DEF Inv, TypeOK
<1>3. UNCHANGED <<index, files, now, copier, appends, acked, uidLog, wiped, faults>>
  BY <1>1
<1>4. {} \in SUBSET UIDs /\ "open" \in {"files", "open"}
  OBVIOUS
<1> QED
  BY <1>1, <1>2, <1>3, <1>4, PreparedStep

LEMMA RemoveBegins ==
    ASSUME Inv, NEW n \in Boxes, NEW uids \in SUBSET UIDs, Remove(n, uids)
    PROVE  \E gone \in SUBSET UIDs :
               /\ Unlocked /\ Prepared(n, gone, "files")
               /\ gone = {u \in uids : Has(index[n], u)}
               /\ doomed' = doomed \cup {index[n].msgs[u].id : u \in gone}
               /\ doomed' \subseteq 1 .. MaxAppends
               /\ UNCHANGED <<index, files, now, copier, appends, acked, uidLog, wiped, faults>>
<1> DEFINE old  == ReadIndex(n)
           gone == {u \in uids : Has(old, u)}
           ix   == Without(old, gone)
<1>1. /\ Unlocked /\ Readable(n)
      /\ op' = [Writing(n, ix) EXCEPT !.pc = "files", !.todo = gone]
      /\ doomed' = doomed \cup {old.msgs[u].id : u \in gone}
      /\ UNCHANGED <<index, files, now, copier, appends, acked, uidLog, wiped, faults>>
  BY DEF Remove, Lock, disk
<1>2. old \in Index /\ gone \in SUBSET UIDs
  BY <1>1, ReadIndexFacts
<1>3. /\ ix \in Index /\ ix.st = old.st /\ ix.next = old.next
      /\ ix.validity = old.validity
      /\ \A u \in UIDs : ix.msgs[u] = IF u \in gone THEN NoMessage ELSE old.msgs[u]
  <2> HIDE DEF old, gone
  <2> QED
    BY <1>2, NoMessageType DEF Without, Kept, Index
<1>4. Begun(op', n, ix, gone, "files")
  <2> HIDE DEF ix, gone
  <2> QED
    BY <1>1, <1>2, <1>3, WritingFields
<1>5. \A u \in gone : /\ Has(index[n], u) /\ ~Has(ix, u)
                      /\ index[n].msgs[u].id \in doomed'
  BY <1>1, <1>2, <1>3, ReadIndexFacts, NoMessageType DEF Has
<1>6. \A u \in gone : old.msgs[u].id \in 1 .. MaxAppends
  <2> SUFFICES ASSUME NEW u \in gone PROVE old.msgs[u].id \in 1 .. MaxAppends
    OBVIOUS
  <2>1. old.msgs[u] \in Message /\ old.msgs[u].id # 0
    BY <1>2 DEF Index, Has
  <2> QED
    BY <2>1, BoundAssumption DEF Message
<1>7. doomed \subseteq doomed' /\ doomed' \subseteq 1 .. MaxAppends
  <2> HIDE DEF old, gone
  <2> QED
    BY <1>1, <1>6 DEF Inv, TypeOK
<1>8. \A u \in UIDs \ gone : /\ ix.msgs[u].id = index[n].msgs[u].id
                             /\ ix.msgs[u].body = index[n].msgs[u].body
                                   \/ index[n].msgs[u].id = 0
  BY <1>1, <1>3, ReadIndexFacts DEF Has
<1>9. /\ index[n].st # "torn" /\ ix.st = "ok"
      /\ index[n].st = "ok" =>
            ix.next = index[n].next /\ ix.validity = index[n].validity
      /\ index[n].st = "none" => ix.next = 1
  BY <1>1, <1>3, ReadIndexFacts
<1>10. /\ gone = {u \in uids : Has(index[n], u)}
       /\ {old.msgs[u].id : u \in gone} = {index[n].msgs[u].id : u \in gone}
  BY <1>1, <1>2, ReadIndexFacts DEF Has
<1>a. \A u \in UIDs : Vacant(n, ix, u)
  BY <1>1, <1>3, ReadIndexFacts DEF Vacant
<1> HIDE DEF old, gone, ix
<1>11. op'.ix = ix
  BY <1>4 DEF Begun
<1>12. Prepared(n, gone, "files")
  BY <1>3, <1>4, <1>5, <1>8, <1>9, <1>11, <1>a DEF Prepared
<1> QED
  BY <1>1, <1>2, <1>7, <1>10, <1>12

LEMMA RemoveStep ==
    ASSUME Inv, NEW n \in Boxes, NEW uids \in SUBSET UIDs, Remove(n, uids)
    PROVE  Inv' /\ SnapshotsKept
<1>1. PICK gone \in SUBSET UIDs :
        /\ Unlocked /\ Prepared(n, gone, "files")
        /\ gone = {u \in uids : Has(index[n], u)}
        /\ doomed' = doomed \cup {index[n].msgs[u].id : u \in gone}
        /\ doomed' \subseteq 1 .. MaxAppends
        /\ UNCHANGED <<index, files, now, copier, appends, acked, uidLog, wiped, faults>>
  BY RemoveBegins
<1>2. doomed \subseteq doomed'
  BY <1>1
<1> QED
  BY <1>1, <1>2, PreparedStep

\* What Append prepares: the index of n with message appends + 1 under a UID
\* that no message has, and the file of that UID truncated.
Appending(n, uid, ix, body, copying) ==
    /\ op' \in Ops /\ op'.pc = "body" /\ op'.box = n /\ op'.ix = ix
    /\ op'.uid = uid /\ op'.body = body /\ op'.copying = copying
    /\ ix.st = "ok" /\ ix.next = uid + 1
    /\ uid \in 1 .. appends + 1 /\ body # NoFile
    /\ \A u \in UIDs \ {uid} : /\ ix.msgs[u].id = index[n].msgs[u].id
                               /\ Has(index[n], u) => ix.msgs[u] = index[n].msgs[u] /\ u < uid
    /\ ix.msgs[uid].id = appends + 1 /\ ix.msgs[uid].body = body
    /\ ~Has(index[n], uid)
    /\ \A u \in UIDs : Vacant(n, ix, u)
    /\ index[n].st = "ok" => uid = index[n].next /\ ix.validity = index[n].validity
    /\ files' = [files EXCEPT ![n][uid] = Partial]

LEMMA AppendBegins ==
    ASSUME Inv, NEW n \in Boxes, NEW body \in 0 .. MaxAppends,
           NEW fs \in SUBSET Flags, NEW copying \in BOOLEAN,
           StartAppend(n, body, fs, copying)
    PROVE  \E uid \in UIDs, ix \in Index :
               /\ Unlocked /\ index[n].st # "torn" /\ appends < MaxAppends
               /\ Appending(n, uid, ix, body, copying)
               /\ appends' = appends + 1
               /\ UNCHANGED <<index, now, acked, doomed, uidLog, wiped, faults>>
<1> DEFINE old == IF index[n].st = "ok" THEN index[n] ELSE NewIndex
           uid == NextUid(n)
           msg == [id |-> appends + 1, body |-> body, flags |-> normaliseFlags(fs)]
           ix  == Appended(n, body, fs)
<1>1. /\ Unlocked /\ index[n].st # "torn" /\ appends < MaxAppends
      /\ op' = [Writing(n, ix) EXCEPT !.pc = "body", !.uid = uid, !.body = body,
                                      !.copying = copying]
      /\ files' = [files EXCEPT ![n][uid] = Partial]
      /\ appends' = appends + 1
      /\ UNCHANGED <<index, now, acked, doomed, uidLog, wiped, faults>>
  BY DEF StartAppend, WriteMessage, Lock, history
<1>2. /\ appends \in 0 .. MaxAppends /\ appends + 1 \in UIDs
      /\ appends + 1 \in 0 .. MaxAppends
  BY <1>1, BoundAssumption DEF Inv, TypeOK, UIDs
<1>3. /\ old \in Index /\ old.st = "ok" /\ uid = old.next
      /\ \A u \in UIDs : /\ old.msgs[u].id = index[n].msgs[u].id
                         /\ Has(index[n], u) => old.msgs[u] = index[n].msgs[u]
  BY NewIndexType DEF Inv, TypeOK, BlankOK, Has, NextUid
<1>4. Shape(old) /\ uid \in UIDs
  <2>1. CASE index[n].st = "ok"
    BY <1>1, <1>2, <1>3, <2>1, BoundAssumption DEF Inv, IndexOK, Shape, UIDs
  <2>2. CASE index[n].st # "ok"
    <3>1. old = NewIndex
      BY <2>2
    <3> QED
      BY <1>2, <1>3, <3>1, NewIndexType, Bounds DEF Inv, TypeOK, Shape
  <2> QED
    BY <2>1, <2>2
<1>a. \A u \in UIDs : Vacant(n, old, u)
  BY NewIndexType DEF Inv, TypeOK, Vacant
<1>5. msg \in Message
  BY <1>2, BoundAssumption DEF Message, normaliseFlags
<1>6. /\ ix \in Index /\ ix.st = "ok" /\ ix.next = uid + 1
      /\ ix.validity = old.validity
      /\ ix.msgs = [old.msgs EXCEPT ![uid] = msg]
  <2>1. ix = [old EXCEPT !.next = @ + 1, !.msgs = [@ EXCEPT ![uid] = msg]]
    BY <1>3 DEF Appended
  <2> HIDE DEF old, uid, msg, ix
  <2>2. uid + 1 \in Nat
    BY <1>4, Bounds
  <2> QED
    BY <1>3, <1>5, <2>1, <2>2 DEF Index
<1>7. /\ op' \in Ops /\ op'.pc = "body" /\ op'.box = n /\ op'.ix = ix
      /\ op'.uid = uid /\ op'.body = body /\ op'.copying = copying
  <2> HIDE DEF old, uid, msg, ix
  <2>1. Begun(Writing(n, ix), n, ix, {}, "open")
    BY <1>6, WritingFields
  <2>2. body \in -1 .. MaxAppends
    BY BoundAssumption
  <2> QED
    BY <1>1, <1>4, <2>1, <2>2 DEF Begun, Ops
<1>8. /\ \A u \in UIDs \ {uid} : /\ ix.msgs[u].id = index[n].msgs[u].id
                                 /\ Has(index[n], u) => ix.msgs[u] = index[n].msgs[u]
      /\ ix.msgs[uid] = msg /\ msg.id = appends + 1 /\ msg.body = body
      /\ ~Has(index[n], uid)
  <2>1. msg.id = appends + 1 /\ msg.body = body
    OBVIOUS
  <2> HIDE DEF old, uid, msg, ix
  <2>2. ~Has(old, uid)
    BY <1>3, <1>4, Bounds DEF Shape
  <2> QED
    BY <1>3, <1>4, <1>6, <2>1, <2>2 DEF Has, Index
<1>9. uid \in Nat /\ body # NoFile /\ appends + 1 # 0
  BY <1>2, <1>4, Bounds, BoundAssumption DEF NoFile, UIDs
<1> HIDE DEF old, uid, msg, ix
<1>10. \A u \in UIDs : Has(index[n], u) => u < uid
  BY <1>3, <1>4 DEF Shape, Has
<1>11. index[n].st = "ok" => uid = index[n].next /\ ix.validity = index[n].validity
  BY <1>6 DEF uid, old, NextUid
<1>12. uid \in 1 .. appends + 1
  BY <1>2, <1>3, <1>4 DEF Shape
<1>b. \A u \in UIDs : Vacant(n, ix, u)
  BY <1>3, <1>6, <1>8, <1>9, <1>a DEF Vacant, Index
<1>13. Appending(n, uid, ix, body, copying)
  BY <1>1, <1>6, <1>7, <1>8, <1>9, <1>10, <1>11, <1>12, <1>b DEF Appending
<1> QED
  BY <1>1, <1>4, <1>6, <1>13

\* Append, called by a client or by Copy: the new message takes a UID that no
\* message of the index, of the log or of a snapshot of INBOX has.
LEMMA StartAppendStep ==
    ASSUME Inv, NEW n \in Boxes, NEW body \in 0 .. MaxAppends,
           NEW fs \in SUBSET Flags, NEW copying \in BOOLEAN,
           StartAppend(n, body, fs, copying), copier' \in Copies
    PROVE  /\ TypeOK' /\ BlankOK' /\ IndexOK' /\ OpOK' /\ AckedOK' /\ LogOK'
           /\ ExactOK' /\ SnapshotsKept /\ op'.copying = copying /\ wiped' = wiped
<1>0. PICK uid \in UIDs, ix \in Index :
         /\ Unlocked /\ index[n].st # "torn" /\ appends < MaxAppends
         /\ Appending(n, uid, ix, body, copying)
         /\ appends' = appends + 1
         /\ UNCHANGED <<index, now, acked, doomed, uidLog, wiped, faults>>
  BY AppendBegins
<1>1. /\ Unlocked /\ index[n].st # "torn" /\ appends < MaxAppends
      /\ files' = [files EXCEPT ![n][uid] = Partial]
      /\ appends' = appends + 1
      /\ UNCHANGED <<index, now, acked, doomed, uidLog, wiped, faults>>
  BY <1>0 DEF Appending
<1>2. /\ appends \in 0 .. MaxAppends /\ appends + 1 \in UIDs
      /\ appends + 1 \in 0 .. MaxAppends
  BY <1>1, BoundAssumption DEF Inv, TypeOK, UIDs
<1>6. ix.st = "ok" /\ ix.next = uid + 1 /\ uid \in 1 .. appends + 1
  BY <1>0 DEF Appending
<1>7. /\ op' \in Ops /\ op'.pc = "body" /\ op'.box = n /\ op'.ix = ix
      /\ op'.uid = uid /\ op'.body = body /\ op'.copying = copying
  BY <1>0 DEF Appending
<1>8. /\ \A u \in UIDs \ {uid} : /\ ix.msgs[u].id = index[n].msgs[u].id
                                 /\ Has(index[n], u) => ix.msgs[u] = index[n].msgs[u] /\ u < uid
      /\ ix.msgs[uid].id = appends + 1 /\ ix.msgs[uid].body = body
      /\ ~Has(index[n], uid)
      /\ index[n].st = "ok" => uid = index[n].next /\ ix.validity = index[n].validity
  BY <1>0 DEF Appending
<1>9. \A m \in Boxes, u \in UIDs :
        files'[m][u] = IF m = n /\ u = uid THEN Partial ELSE files[m][u]
  BY <1>1 DEF Inv, TypeOK
<1>10. uid \in Nat /\ body # NoFile /\ appends + 1 # 0
  BY <1>2, Bounds, BoundAssumption DEF NoFile, UIDs
<1> USE DEF Unlocked, Rewriting, RewritingBox, RemovingBox
<1>11. TypeOK'
  <2>1. files' \in [Boxes -> [UIDs -> -1 .. MaxAppends]]
    BY <1>1, BoundAssumption DEF Inv, TypeOK, Partial
  <2> QED
    BY <1>1, <1>2, <1>7, <2>1 DEF Inv, TypeOK
<1>12. BlankOK'
  BY <1>1 DEF Inv, BlankOK, Has
<1>13. IndexOK'
  <2> SUFFICES ASSUME NEW m \in Boxes, index[m].st = "ok"
               PROVE  Shape(index[m])' /\ \A u \in UIDs : BodyOK(m, index[m], u)'
    BY <1>1 DEF IndexOK
  <2>1. Shape(index[m])'
    BY <1>1, <1>2 DEF Inv, IndexOK, Shape, Has
  <2>2. \A u \in UIDs : BodyOK(m, index[m], u)'
    BY <1>1, <1>8, <1>9 DEF Inv, IndexOK, BodyOK, Has
  <2> QED
    BY <2>1, <2>2
<1>14. OpOK'
  <2>1. Shape(op.ix)'
    <3>2. \A u \in UIDs : Has(ix, u) => u < uid + 1
      <4> SUFFICES ASSUME NEW u \in UIDs, u # uid, Has(ix, u) PROVE u < uid + 1
        BY <1>10
      <4>1. u < uid
        BY <1>8 DEF Has
      <4> QED
        BY <1>10, <4>1, Bounds
    <3>3. uid + 1 \in 1 .. (appends + 1) + 1
      BY <1>2, <1>6, <1>10
    <3> QED
      BY <1>1, <1>6, <1>7, <3>2, <3>3 DEF Shape, Has
  <2>2. \A u \in UIDs \ {uid} : BodyOK(op.box, op.ix, u)'
    <3> SUFFICES ASSUME NEW u \in UIDs \ {uid}, Has(ix, u) PROVE BodyOK(op.box, op.ix, u)'
      BY <1>7 DEF BodyOK, Has
    <3>1. Has(index[n], u) /\ ix.msgs[u] = index[n].msgs[u]
      BY <1>8 DEF Has
    <3>2. BodyOK(n, index[n], u)
      BY <3>1 DEF Inv, BlankOK, IndexOK
    <3> QED
      BY <1>1, <1>7, <1>9, <3>1, <3>2 DEF BodyOK, Has
  <2>3. /\ Has(ix, uid) /\ ix.msgs[uid].body = body /\ uid < ix.next
    BY <1>6, <1>8, <1>10 DEF Has
  <2> QED
    BY <1>1, <1>6, <1>7, <1>8, <1>10, <2>1, <2>2, <2>3 DEF OpOK, BodyOK, Has
<1>15. AckedOK'
  <2> SUFFICES ASSUME NEW a \in acked, a[2] = n, a[1] \notin doomed
               PROVE  Lists(ix, a[1])
    BY <1>1, <1>7 DEF Inv, AckedOK, Lists
  <2>1. index[n].st = "ok" /\ Lists(index[n], a[1])
    BY <1>1 DEF Inv, AckedOK
  <2>2. PICK u \in UIDs : index[n].msgs[u].id = a[1]
    BY <2>1 DEF Lists
  <2>3. a[1] # 0
    BY BoundAssumption DEF Inv, TypeOK
  <2> QED
    BY <1>8, <2>2, <2>3 DEF Lists, Has
<1>16. LogOK'
  <2>1. InboxUidForever'
    BY <1>1 DEF Inv, LogOK, InboxUidForever
  <2>2. ASSUME NEW a \in uidLog, a.box = Inbox, n = Inbox, ~wiped
        PROVE  a.uid < ix.next /\ a.validity = ix.validity /\ a.uid # uid
    <3>1. index[n].st = "ok"
      BY <1>1, <2>2, BoxAssumption DEF Inv, LogOK, TypeOK, Index
    <3>2. a.uid \in Nat
      BY Bounds DEF Inv, TypeOK
    <3>3. a.uid < uid /\ a.validity = ix.validity
      BY <1>8, <2>2, <3>1 DEF Inv, LogOK
    <3> QED
      BY <1>6, <1>10, <3>2, <3>3
  <2> QED
    BY <1>1, <1>7, <2>1, <2>2 DEF Inv, LogOK
<1>17. SnapshotsKept
  <2> SUFFICES ASSUME ~wiped, NEW msgs \in [UIDs -> Message], SnapshotOK(msgs),
                      NEW u \in UIDs, msgs[u].id # 0
               PROVE  /\ files'[Inbox][u] \in {NoFile, msgs[u].body}
                      /\ index[Inbox].st # "none"
                      /\ index[Inbox].st = "ok" => SameUid(index[Inbox], msgs, u)
                      /\ n = Inbox => SameUid(ix, msgs, u) /\ u # uid
    BY <1>1, <1>7 DEF SnapshotsKept, SnapshotOK, SameUid, Has
  <2>1. /\ files[Inbox][u] \in {NoFile, msgs[u].body}
        /\ index[Inbox].st # "none"
        /\ index[Inbox].st = "ok" => SameUid(index[Inbox], msgs, u)
    BY DEF SnapshotOK
  <2>2. ASSUME n = Inbox PROVE SameUid(ix, msgs, u) /\ u # uid
    <3>1. SameUid(index[n], msgs, u) /\ uid = index[n].next
      BY <1>1, <1>8, <2>1, <2>2 DEF Inv, TypeOK, Index
    <3>2. u < uid /\ u < uid + 1
      BY <1>10, <3>1, Bounds DEF SameUid
    <3> QED
      BY <1>6, <1>8, <1>10, <3>1, <3>2, Bounds DEF SameUid, Has
  <2> QED
    BY <1>9, <2>1, <2>2, BoxAssumption
<1>18. ExactOK'
  <2> SUFFICES ASSUME faults = 0
               PROVE  /\ \A m \in Boxes \ {n} : /\ index[m].st # "torn"
                            /\ \A u \in UIDs : FileExact(m, index[m], u)'
                      /\ \A u \in UIDs \ {uid} : FileExact(op.box, op.ix, u)'
    BY <1>1, <1>7 DEF ExactOK, FileExact, Has
  <2>1. \A m \in Boxes : /\ index[m].st # "torn"
                         /\ \A u \in UIDs : FileExact(m, index[m], u)
    BY <1>1 DEF Inv, ExactOK
  <2>2. \A u \in UIDs \ {uid} : FileExact(op.box, op.ix, u)'
    BY <1>7, <1>8, <1>9, <2>1 DEF FileExact, Has
  <2> QED
    BY <1>1, <1>9, <2>1, <2>2 DEF FileExact, Has
<1> QED
  BY <1>1, <1>7, <1>11, <1>12, <1>13, <1>14, <1>15, <1>16, <1>17, <1>18

LEMMA AppendStep ==
    ASSUME Inv, NEW n \in Boxes, NEW fs \in SUBSET Flags, Append(n, fs)
    PROVE  Inv' /\ SnapshotsKept
<1>1. StartAppend(n, appends + 1, fs, FALSE) /\ copier' = copier
  BY DEF Append
<1>2. appends + 1 \in 0 .. MaxAppends /\ copier' \in Copies
  BY <1>1, BoundAssumption DEF Inv, TypeOK, StartAppend, WriteMessage
<1>3. /\ TypeOK' /\ BlankOK' /\ IndexOK' /\ OpOK' /\ AckedOK' /\ LogOK'
      /\ ExactOK' /\ SnapshotsKept /\ op'.copying = FALSE /\ wiped' = wiped
  BY <1>1, <1>2, StartAppendStep
<1>4. CopyOK'
  BY <1>1, <1>3 DEF Inv, TypeOK, Copies, CopyOK, CopyFromInboxFaithful, SnapshotsKept, NextCopy
<1> QED
  BY <1>3, <1>4 DEF Inv

LEMMA DeleteMailboxStep ==
    ASSUME Inv, NEW n \in Boxes, DeleteMailbox(n)
    PROVE  Inv' /\ SnapshotsKept
<1>1. /\ n # Inbox /\ Unlocked /\ op' = [NoOp EXCEPT !.pc = "removeAll", !.box = n]
      /\ doomed' = doomed \cup Inside(n)
      /\ wiped' = (wiped \/ Inbox \in Holds[n])
      /\ UNCHANGED <<index, files, now, copier, appends, acked, uidLog, faults>>
  BY DEF DeleteMailbox, Lock, disk
<1>2. /\ op' \in Ops /\ op'.pc = "removeAll" /\ op'.box = n /\ op'.copying = FALSE
  BY <1>1, NoOpFields DEF Ops
<1>3. doomed \subseteq doomed' /\ doomed' \subseteq 1 .. MaxAppends
  BY <1>1 DEF Inv, TypeOK, Inside
<1>4. /\ \A a \in acked : a[2] \in Holds[n] => a[1] \in doomed'
      /\ \A b \in Holds[n], u \in UIDs : Has(index[b], u) => index[b].msgs[u].id \in doomed'
  <2>1. ASSUME NEW a \in acked, a[2] \in Holds[n] PROVE a[1] \in Inside(n)
    <3>1. a = <<a[1], a[2]>> /\ a[1] \in 1 .. MaxAppends
      BY DEF Inv, TypeOK
    <3> QED
      BY <2>1, <3>1 DEF Inside
  <2>2. ASSUME NEW b \in Holds[n], NEW u \in UIDs, Has(index[b], u)
        PROVE  index[b].msgs[u].id \in Inside(n)
    <3>1. b \in Boxes
      BY HoldsAssumption
    <3>2. index[b].msgs[u] \in Message
      BY <3>1 DEF Inv, TypeOK, Index
    <3>3. index[b].msgs[u].id \in 1 .. MaxAppends
      BY <2>2, <3>2, BoundAssumption DEF Message, Has
    <3> QED
      BY <3>3 DEF Inside, Lists
  <2> QED
    BY <1>1, <2>1, <2>2
<1> USE DEF Unlocked, Rewriting, RewritingBox, RemovingBox
<1>5. TypeOK' /\ BlankOK'
  <2>1. wiped' \in BOOLEAN
    BY <1>1
  <2> QED
    BY <1>1, <1>2, <1>3, <2>1 DEF Inv, TypeOK, BlankOK, Has
<1>6. IndexOK'
  BY <1>1, <1>3 DEF Inv, IndexOK, Shape, BodyOK, Has
<1>7. OpOK'
  BY <1>1, <1>2, <1>4 DEF OpOK, Has
<1>8. AckedOK'
  BY <1>1, <1>2, <1>3, <1>4 DEF Inv, AckedOK, Lists
<1>9. LogOK'
  BY <1>1, <1>2 DEF Inv, LogOK, InboxUidForever
<1>10. SnapshotsKept
  BY <1>1, <1>2 DEF SnapshotsKept, SnapshotOK, SameUid, Has
<1>11. CopyOK'
  BY <1>1, <1>2, <1>10 DEF Inv, TypeOK, Copies, CopyOK, CopyFromInboxFaithful,
     SnapshotsKept, NextCopy
<1>12. ExactOK'
  BY <1>1, <1>2 DEF Inv, ExactOK, FileExact, Has
<1> QED
  BY <1>5, <1>6, <1>7, <1>8, <1>9, <1>10, <1>11, <1>12 DEF Inv

\* The directory moves as a whole; INBOX is neither its old nor its new name.
LEMMA RenameMailboxStep ==
    ASSUME Inv, NEW from \in Boxes, NEW to \in Boxes, RenameMailbox(from, to)
    PROVE  Inv' /\ SnapshotsKept
<1>1. /\ Unlocked /\ from # Inbox /\ to # Inbox /\ from # to
      /\ index[to].st = "none"
      /\ index' = [index EXCEPT ![to] = index[from], ![from] = Absent("none")]
      /\ files' = [files EXCEPT ![to] = files[from], ![from] = NoFiles]
      /\ acked' = {<<a[1], IF a[2] = from THEN to ELSE a[2]>> : a \in acked}
      /\ uidLog' = uidLog \cup
             {[box |-> to, validity |-> index[from].validity, uid |-> u,
               id |-> index[from].msgs[u].id] :
                  u \in {v \in UIDs : Has(index[from], v)}}
      /\ UNCHANGED <<now, op, copier, appends, doomed, wiped, faults>>
  BY DEF RenameMailbox, MoveFiles
<1>2. /\ index[from] \in Index /\ files[from] \in [UIDs -> -1 .. MaxAppends]
      /\ NoFiles \in [UIDs -> -1 .. MaxAppends]
  BY Bounds DEF Inv, TypeOK, NoFiles
<1>3. \A n \in Boxes :
        /\ index'[n] = IF n = from THEN Absent("none")
                       ELSE IF n = to THEN index[from] ELSE index[n]
        /\ files'[n] = IF n = from THEN NoFiles
                       ELSE IF n = to THEN files[from] ELSE files[n]
  BY <1>1 DEF Inv, TypeOK
<1>4. \A b \in uidLog' : b.box = Inbox => b \in uidLog
  BY <1>1
<1>5. \A b \in acked' : \E a \in acked :
        b[1] = a[1] /\ b[2] = (IF a[2] = from THEN to ELSE a[2])
  BY <1>1
<1> USE DEF Unlocked, Rewriting, RewritingBox, RemovingBox
<1>6. TypeOK'
  <2>1. index' \in [Boxes -> Index] /\ files' \in [Boxes -> [UIDs -> -1 .. MaxAppends]]
    BY <1>1, <1>2, AbsentType DEF Inv, TypeOK
  <2>2. acked' \in SUBSET ((1 .. MaxAppends) \X Boxes)
    BY <1>1 DEF Inv, TypeOK
  <2>3. \A u \in UIDs : Has(index[from], u) =>
          [box |-> to, validity |-> index[from].validity, uid |-> u,
           id |-> index[from].msgs[u].id]
             \in [box : Boxes, validity : Times, uid : UIDs, id : 1 .. MaxAppends]
    <3> SUFFICES ASSUME NEW u \in UIDs, Has(index[from], u)
                 PROVE  index[from].validity \in Times /\ index[from].msgs[u].id \in 1 .. MaxAppends
      OBVIOUS
    <3>1. index[from].msgs[u] \in Message
      BY <1>2 DEF Index
    <3> QED
      BY <1>2, <3>1, BoundAssumption DEF Index, Message, Has
  <2>4. uidLog' \in SUBSET [box : Boxes, validity : Times, uid : UIDs,
                            id : 1 .. MaxAppends]
    BY <1>1, <2>3 DEF Inv, TypeOK
  <2> QED
    BY <1>1, <2>1, <2>2, <2>4 DEF Inv, TypeOK
<1>7. BlankOK'
  BY <1>3, AbsentType DEF Inv, BlankOK, Has
<1>8. IndexOK'
  <2> SUFFICES ASSUME NEW n \in Boxes, index'[n].st = "ok"
               PROVE  Shape(index[n])' /\ \A u \in UIDs : BodyOK(n, index[n], u)'
    BY DEF IndexOK
  <2>1. PICK m \in Boxes : index'[n] = index[m] /\ files'[n] = files[m]
    BY <1>3, AbsentType
  <2>2. Shape(index[m]) /\ \A u \in UIDs : BodyOK(m, index[m], u)
    BY <2>1 DEF Inv, IndexOK
  <2>3. Shape(index[n])'
    BY <1>1, <2>1, <2>2 DEF Shape, Has
  <2>4. \A u \in UIDs : BodyOK(n, index[n], u)'
    BY <1>1, <2>1, <2>2 DEF BodyOK, Has
  <2> QED
    BY <2>3, <2>4
<1>9. OpOK'
  BY <1>1 DEF OpOK
<1>10. AckedOK'
  <2> SUFFICES ASSUME NEW b \in acked', b[1] \notin doomed
               PROVE  \/ index'[b[2]].st = "torn"
                      \/ index'[b[2]].st = "ok" /\ Lists(index'[b[2]], b[1])
    BY <1>1 DEF AckedOK, Lists
  <2>1. PICK a \in acked : b[1] = a[1] /\ b[2] = (IF a[2] = from THEN to ELSE a[2])
    BY <1>5
  <2>2. a[2] \in Boxes
    BY DEF Inv, TypeOK
  <2>3. \/ index[a[2]].st = "torn"
        \/ index[a[2]].st = "ok" /\ Lists(index[a[2]], a[1])
    BY <1>1, <2>1 DEF Inv, AckedOK
  <2>4. index'[b[2]] = index[a[2]]
    BY <1>1, <1>3, <2>1, <2>2, <2>3
  <2> QED
    BY <2>1, <2>3, <2>4
<1>11. LogOK'
  <2>1. InboxUidForever'
    BY <1>1, <1>4 DEF Inv, LogOK, InboxUidForever
  <2> QED
    BY <1>1, <1>3, <1>4, <2>1, BoxAssumption DEF Inv, LogOK
<1>12. SnapshotsKept
  <2>1. index'[Inbox] = index[Inbox] /\ files'[Inbox] = files[Inbox] /\ op' = op
    BY <1>1, <1>3, BoxAssumption
  <2> QED
    BY <2>1 DEF SnapshotsKept, SnapshotOK, SameUid, Has
<1>13. CopyOK'
  BY <1>1, <1>12 DEF Inv, TypeOK, Copies, CopyOK, CopyFromInboxFaithful,
     SnapshotsKept, NextCopy
<1>14. ExactOK'
  <2> SUFFICES ASSUME faults = 0, NEW n \in Boxes
               PROVE  index'[n].st # "torn" /\ \A u \in UIDs : FileExact(n, index[n], u)'
    BY <1>1 DEF ExactOK
  <2>1. \A m \in Boxes : index[m].st # "torn" /\ \A u \in UIDs : FileExact(m, index[m], u)
    BY <1>1 DEF Inv, ExactOK
  <2> QED
    BY <1>3, <2>1, AbsentType DEF FileExact, NoFiles, Has
<1> QED
  BY <1>6, <1>7, <1>8, <1>9, <1>10, <1>11, <1>12, <1>13, <1>14 DEF Inv

-----------------------------------------------------------------------------
(* The system calls. *)

\* Every field of op but pc stays when the call goes on to its next step.
LEMMA NextPc ==
    ASSUME TypeOK, NEW pc \in {"open", "write"}, op' = [op EXCEPT !.pc = pc]
    PROVE  /\ op' \in Ops /\ op'.pc = pc /\ op'.box = op.box /\ op'.ix = op.ix
           /\ op'.uid = op.uid /\ op'.body = op.body /\ op'.copying = op.copying
  BY DEF TypeOK, Ops

LEMMA WriteBodyStep ==
    ASSUME Inv, WriteBody
    PROVE  Inv' /\ SnapshotsKept
<1>1. /\ op.pc = "body" /\ op' = [op EXCEPT !.pc = "open"]
      /\ files' = [files EXCEPT ![op.box][op.uid] = op.body]
      /\ UNCHANGED <<index, now, copier, appends, acked, doomed, uidLog, wiped, faults>>
  BY DEF WriteBody, history
<1>2. /\ op' \in Ops /\ op'.pc = "open" /\ op'.box = op.box /\ op'.ix = op.ix
      /\ op'.uid = op.uid /\ op'.body = op.body /\ op'.copying = op.copying
  BY <1>1, NextPc DEF Inv
<1>3. op.box \in Boxes /\ op.uid \in UIDs /\ op.body \in -1 .. MaxAppends
  BY <1>1 DEF Inv, TypeOK, Ops, OpOK
<1>4. \A n \in Boxes, u \in UIDs :
        files'[n][u] = IF n = op.box /\ u = op.uid THEN op.body ELSE files[n][u]
  BY <1>1, <1>3 DEF Inv, TypeOK
<1> USE DEF Unlocked, Rewriting, RewritingBox, RemovingBox
<1>5. TypeOK' /\ BlankOK'
  <2>1. files' \in [Boxes -> [UIDs -> -1 .. MaxAppends]]
    BY <1>1, <1>3 DEF Inv, TypeOK
  <2> QED
    BY <1>1, <1>2, <2>1 DEF Inv, TypeOK, BlankOK, Has
<1>6. IndexOK'
  BY <1>1, <1>4 DEF Inv, IndexOK, OpOK, Shape, BodyOK, Has
<1>7. OpOK'
  <2>1. Shape(op.ix)'
    BY <1>1, <1>2 DEF Inv, OpOK, Shape, Has
  <2>2. \A u \in UIDs : BodyOK(op.box, op.ix, u)'
    BY <1>1, <1>2, <1>3, <1>4 DEF Inv, OpOK, BodyOK, Has
  <2> QED
    BY <1>1, <1>2, <2>1, <2>2 DEF Inv, OpOK, Has
<1>8. AckedOK'
  BY <1>1, <1>2 DEF Inv, AckedOK, Lists
<1>9. LogOK'
  BY <1>1, <1>2 DEF Inv, LogOK, InboxUidForever
<1>10. SnapshotsKept
  <2> SUFFICES ASSUME ~wiped, NEW msgs \in [UIDs -> Message], SnapshotOK(msgs),
                      NEW u \in UIDs, msgs[u].id # 0
               PROVE  files'[Inbox][u] \in {NoFile, msgs[u].body}
    BY <1>1, <1>2 DEF SnapshotsKept, SnapshotOK, SameUid, Has
  <2>1. op.box = Inbox => u # op.uid
    BY <1>1 DEF Inv, OpOK, SnapshotOK
  <2> QED
    BY <1>4, <2>1, BoxAssumption DEF SnapshotOK
<1>11. CopyOK'
  BY <1>1, <1>2, <1>10 DEF Inv, TypeOK, Copies, CopyOK, CopyFromInboxFaithful,
     SnapshotsKept, NextCopy
<1>12. ExactOK'
  <2>1. FileExact(op.box, op.ix, op.uid)'
    BY <1>1, <1>2, <1>3, <1>4 DEF Inv, OpOK, FileExact, Has
  <2> QED
    BY <1>1, <1>2, <1>3, <1>4, <2>1 DEF Inv, ExactOK, FileExact, Has
<1> QED
  BY <1>5, <1>6, <1>7, <1>8, <1>9, <1>10, <1>11, <1>12 DEF Inv

\* One unlink, or the end of the loop over the files.
LEMMA UnlinkBodyStep ==
    ASSUME Inv, UnlinkBody
    PROVE  Inv' /\ SnapshotsKept
<1> USE DEF Unlocked, Rewriting, RewritingBox, RemovingBox
<1>1. /\ op.pc = "files"
      /\ UNCHANGED <<index, now, copier, appends, acked, doomed, uidLog, wiped, faults>>
  BY DEF UnlinkBody, history
<1>2. op.box \in Boxes /\ op.todo \subseteq UIDs
  BY <1>1 DEF Inv, TypeOK, Ops, OpOK
<1>3. PICK gone \in SUBSET op.todo :
        /\ op' \in Ops /\ op'.pc \in {"files", "open"} /\ op'.box = op.box
        /\ op'.ix = op.ix /\ op'.uid = op.uid /\ op'.body = op.body
        /\ op'.copying = op.copying
        /\ op'.pc = "files" => op'.todo = op.todo \ gone
        /\ op'.pc = "open" => op.todo = {}
        /\ files' \in [Boxes -> [UIDs -> -1 .. MaxAppends]]
        /\ \A n \in Boxes, u \in UIDs :
             files'[n][u] = IF n = op.box /\ u \in gone THEN NoFile ELSE files[n][u]
  <2>1. CASE op.todo = {} /\ op' = [op EXCEPT !.pc = "open"] /\ UNCHANGED files
    <3> WITNESS {} \in SUBSET op.todo
    <3> QED
      BY <2>1, NextPc DEF Inv, TypeOK
  <2>2. ASSUME NEW u \in op.todo, files' = [files EXCEPT ![op.box][u] = NoFile],
               op' = [op EXCEPT !.todo = @ \ {u}]
        PROVE  \E g \in SUBSET op.todo :
        /\ op' \in Ops /\ op'.pc \in {"files", "open"} /\ op'.box = op.box
        /\ op'.ix = op.ix /\ op'.uid = op.uid /\ op'.body = op.body
        /\ op'.copying = op.copying
        /\ op'.pc = "files" => op'.todo = op.todo \ g
        /\ op'.pc = "open" => op.todo = {}
        /\ files' \in [Boxes -> [UIDs -> -1 .. MaxAppends]]
        /\ \A n \in Boxes, v \in UIDs :
             files'[n][v] = IF n = op.box /\ v \in g THEN NoFile ELSE files[n][v]
    <3> WITNESS {u} \in SUBSET op.todo
    <3>1. /\ op' \in Ops /\ op'.pc = "files" /\ op'.box = op.box
          /\ op'.ix = op.ix /\ op'.uid = op.uid /\ op'.body = op.body
          /\ op'.copying = op.copying /\ op'.todo = op.todo \ {u}
      BY <1>1, <1>2, <2>2 DEF Inv, TypeOK, Ops
    <3>2. files' \in [Boxes -> [UIDs -> -1 .. MaxAppends]]
      BY <1>2, <2>2, Bounds DEF Inv, TypeOK
    <3>3. \A n \in Boxes, v \in UIDs :
             files'[n][v] = IF n = op.box /\ v \in {u} THEN NoFile ELSE files[n][v]
      BY <1>2, <2>2 DEF Inv, TypeOK
    <3> QED
      BY <3>1, <3>2, <3>3
  <2> QED
    BY <2>1, <2>2 DEF UnlinkBody
<1>4. \A u \in gone : /\ ~Has(op.ix, u)
                      /\ index[op.box].st = "ok" /\ Has(index[op.box], u) =>
                           index[op.box].msgs[u].id \in doomed
  BY <1>1 DEF Inv, OpOK
<1>5. TypeOK' /\ BlankOK'
  BY <1>1, <1>3 DEF Inv, TypeOK, BlankOK, Has
<1>6. IndexOK'
  BY <1>1, <1>3, <1>4 DEF Inv, IndexOK, Shape, BodyOK, Has
<1>7. OpOK'
  <2>1. Shape(op.ix)'
    BY <1>1, <1>3 DEF Inv, OpOK, Shape, Has
  <2>2. \A u \in UIDs : BodyOK(op.box, op.ix, u)'
    BY <1>1, <1>2, <1>3, <1>4 DEF Inv, OpOK, BodyOK, Has
  <2>3. \A u \in op'.todo : op'.pc = "files" => u \in op.todo
    BY <1>3
  <2> QED
    BY <1>1, <1>3, <2>1, <2>2, <2>3 DEF Inv, OpOK, Has
<1>8. AckedOK'
  BY <1>1, <1>3 DEF Inv, AckedOK, Lists
<1>9. LogOK'
  BY <1>1, <1>3 DEF Inv, LogOK, InboxUidForever
<1>10. SnapshotsKept
  BY <1>1, <1>3, BoxAssumption DEF SnapshotsKept, SnapshotOK, SameUid, Has
<1>11. CopyOK'
  BY <1>1, <1>3, <1>10 DEF Inv, TypeOK, Copies, CopyOK, CopyFromInboxFaithful,
     SnapshotsKept, NextCopy
<1>12. ExactOK'
  BY <1>1, <1>2, <1>3, <1>4 DEF Inv, ExactOK, FileExact, Has
<1> QED
  BY <1>5, <1>6, <1>7, <1>8, <1>9, <1>10, <1>11, <1>12 DEF Inv

LEMMA OpenIndexStep ==
    ASSUME Inv, OpenIndex
    PROVE  Inv' /\ SnapshotsKept
<1> USE DEF Unlocked, Rewriting, RewritingBox, RemovingBox
<1>1. /\ op.pc = "open" /\ op' = [op EXCEPT !.pc = "write"]
      /\ index' = [index EXCEPT ![op.box] = Absent("torn")]
      /\ UNCHANGED <<files, now, copier, appends, acked, doomed, uidLog, wiped, faults>>
  BY DEF OpenIndex, history
<1>2. /\ op' \in Ops /\ op'.pc = "write" /\ op'.box = op.box /\ op'.ix = op.ix
      /\ op'.uid = op.uid /\ op'.body = op.body /\ op'.copying = op.copying
  BY <1>1, NextPc DEF Inv
<1>3. op.box \in Boxes
  BY <1>1 DEF Inv, OpOK
<1>4. \A n \in Boxes :
        index'[n] = IF n = op.box THEN Absent("torn") ELSE index[n]
  BY <1>1, <1>3 DEF Inv, TypeOK
<1>5. TypeOK' /\ BlankOK'
  <2>1. index' \in [Boxes -> Index]
    BY <1>1, <1>3, AbsentType DEF Inv, TypeOK
  <2> QED
    BY <1>1, <1>2, <1>4, <2>1, AbsentType DEF Inv, TypeOK, BlankOK, Has
<1>6. IndexOK'
  BY <1>1, <1>4, AbsentType DEF Inv, IndexOK, Shape, BodyOK, Has
<1>7. OpOK'
  BY <1>1, <1>2 DEF Inv, OpOK, Shape, BodyOK, Has
<1>8. AckedOK'
  BY <1>1, <1>2, <1>4, AbsentType DEF Inv, TypeOK, AckedOK, Lists
<1>9. LogOK'
  BY <1>1, <1>2, <1>4, AbsentType, BoxAssumption DEF Inv, LogOK, InboxUidForever
<1>10. SnapshotsKept
  BY <1>1, <1>2, <1>4, AbsentType, BoxAssumption DEF SnapshotsKept, SnapshotOK,
     SameUid, Has
<1>11. CopyOK'
  BY <1>1, <1>2, <1>10 DEF Inv, TypeOK, Copies, CopyOK, CopyFromInboxFaithful,
     SnapshotsKept, NextCopy
<1>12. ExactOK'
  BY <1>1, <1>2, <1>4 DEF Inv, ExactOK, FileExact, Has
<1> QED
  BY <1>5, <1>6, <1>7, <1>8, <1>9, <1>10, <1>11, <1>12 DEF Inv

\* The index the call has prepared is on disk; an Append has returned its UID,
\* which nobody has seen before.
LEMMA WriteIndexStep ==
    ASSUME Inv, WriteIndex
    PROVE  Inv' /\ SnapshotsKept
<1> USE DEF Unlocked, Rewriting, RewritingBox, RemovingBox
<1> DEFINE id == op.ix.msgs[op.uid].id
           new == [box |-> op.box, uid |-> op.uid, validity |-> op.ix.validity,
                   id |-> id]
<1>1. /\ op.pc = "write" /\ op' = NoOp
      /\ index' = [index EXCEPT ![op.box] = op.ix]
      /\ UNCHANGED <<files, now, appends, doomed, wiped, faults>>
  BY DEF WriteIndex
<1>2. \/ op.body = NoFile /\ UNCHANGED <<acked, uidLog, copier>>
      \/ /\ op.body # NoFile
         /\ acked' = acked \cup {<<id, op.box>>}
         /\ uidLog' = uidLog \cup {new}
         /\ copier' = IF op.copying THEN [copier EXCEPT !.pc = "read"] ELSE copier
  BY DEF WriteIndex
<1>3. /\ op.box \in Boxes /\ op.ix \in Index /\ op.uid \in UIDs
      /\ op.ix.st = "ok" /\ Shape(op.ix)
      /\ \A u \in UIDs : BodyOK(op.box, op.ix, u)
      /\ op.body # NoFile => Has(op.ix, op.uid) /\ op.uid < op.ix.next
  BY <1>1 DEF Inv, TypeOK, Ops, OpOK
<1>4. \A n \in Boxes : index'[n] = IF n = op.box THEN op.ix ELSE index[n]
  BY <1>1, <1>3 DEF Inv, TypeOK
<1>5. op.body # NoFile => id \in 1 .. MaxAppends
  <2>1. op.ix.msgs[op.uid] \in Message
    BY <1>3 DEF Index
  <2> QED
    BY <1>3, <2>1, BoundAssumption DEF Message, Has
<1>6. /\ copier' \in Copies /\ copier'.from = copier.from /\ copier'.to = copier.to
      /\ copier'.todo = copier.todo /\ copier'.msgs = copier.msgs
      /\ copier'.body = copier.body
      /\ copier'.pc = "read" \/ copier'.pc = copier.pc
      /\ copier.pc = "idle" => copier'.pc = "idle"
  <2>1. op.copying => copier.pc = "wait"
    BY DEF Inv, CopyOK
  <2> QED
    BY <1>2, <2>1 DEF Inv, TypeOK, Copies
<1>7. TypeOK'
  <2>1. index' \in [Boxes -> Index]
    BY <1>1, <1>3 DEF Inv, TypeOK
  <2>2. acked' \in SUBSET ((1 .. MaxAppends) \X Boxes)
    BY <1>2, <1>3, <1>5 DEF Inv, TypeOK
  <2>3. uidLog' \in SUBSET [box : Boxes, validity : Times, uid : UIDs,
                            id : 1 .. MaxAppends]
    BY <1>2, <1>3, <1>5 DEF Inv, TypeOK, Index
  <2> QED
    BY <1>1, <1>6, <2>1, <2>2, <2>3, NoOpFields DEF Inv, TypeOK
<1>8. BlankOK'
  BY <1>3, <1>4 DEF Inv, BlankOK, Has
<1>9. IndexOK'
  BY <1>1, <1>3, <1>4 DEF Inv, IndexOK, Shape, BodyOK, Has
<1>10. OpOK'
  BY <1>1, NoOpFields DEF OpOK
<1>11. AckedOK'
  <2> SUFFICES ASSUME NEW a \in acked', a[1] \notin doomed
               PROVE  \/ index'[a[2]].st = "torn"
                      \/ index'[a[2]].st = "ok" /\ Lists(index'[a[2]], a[1])
    BY <1>1, NoOpFields DEF AckedOK, Lists
  <2>1. CASE a \in acked
    <3>1. a[2] \in Boxes
      BY <2>1 DEF Inv, TypeOK
    <3> QED
      BY <1>1, <1>3, <1>4, <2>1, <3>1 DEF Inv, AckedOK
  <2>2. CASE a = <<id, op.box>> /\ op.body # NoFile
    BY <1>3, <1>4, <2>2 DEF Lists
  <2> QED
    BY <1>2, <2>1, <2>2
<1>12. LogOK'
  <2>1. ASSUME NEW a \in uidLog, a.box = Inbox, op.box = Inbox, ~wiped
        PROVE  /\ a.uid < op.ix.next /\ a.validity = op.ix.validity
               /\ op.body # NoFile => a.uid # op.uid
    BY <1>1, <2>1 DEF Inv, LogOK
  <2>2. InboxUidForever'
    <3> SUFFICES ASSUME ~wiped, NEW a \in uidLog', NEW b \in uidLog',
                        a.box = Inbox, b.box = Inbox
                 PROVE  a.validity = b.validity /\ (a.uid = b.uid => a.id = b.id)
      BY <1>1 DEF InboxUidForever
    <3>1. CASE a \in uidLog /\ b \in uidLog
      BY <3>1 DEF Inv, LogOK, InboxUidForever
    <3>2. /\ new.box = op.box /\ new.uid = op.uid /\ new.validity = op.ix.validity
      OBVIOUS
    <3> HIDE DEF new
    <3> QED
      BY <1>2, <2>1, <3>1, <3>2
  <2>3. ASSUME NEW a \in uidLog', a.box = Inbox, ~wiped
        PROVE  /\ index'[Inbox].st # "none"
               /\ index'[Inbox].st = "ok" => /\ a.uid < index'[Inbox].next
                                             /\ a.validity = index'[Inbox].validity
    <3>1. CASE a \in uidLog
      BY <1>3, <1>4, <2>1, <2>3, <3>1, BoxAssumption DEF Inv, LogOK
    <3>2. CASE a = new /\ op.body # NoFile
      BY <1>3, <1>4, <2>3, <3>2
    <3> QED
      BY <1>2, <3>1, <3>2
  <2> QED
    BY <1>1, <2>2, <2>3, NoOpFields DEF LogOK
<1>13. SnapshotsKept
  <2> SUFFICES ASSUME ~wiped, NEW msgs \in [UIDs -> Message], SnapshotOK(msgs),
                      NEW u \in UIDs, msgs[u].id # 0
               PROVE  /\ files[Inbox][u] \in {NoFile, msgs[u].body}
                      /\ index'[Inbox].st # "none"
                      /\ index'[Inbox].st = "ok" => SameUid(index'[Inbox], msgs, u)
    BY <1>1, NoOpFields DEF SnapshotsKept, SnapshotOK, SameUid, Has
  <2> QED
    BY <1>1, <1>3, <1>4, BoxAssumption DEF SnapshotOK
<1>14. CopyOK'
  <2>1. copier.from = Inbox /\ ~wiped => SnapshotOK(copier.msgs)
    BY DEF Inv, CopyOK
  <2>2. copier'.from = Inbox /\ ~wiped => SnapshotOK(copier.msgs)'
    BY <1>6, <1>13, <2>1 DEF Inv, TypeOK, Copies, SnapshotsKept
  <2>3. CopyFromInboxFaithful'
    BY <1>1, <1>6 DEF Inv, CopyOK, CopyFromInboxFaithful, NextCopy
  <2> QED
    BY <1>1, <1>6, <2>2, <2>3, NoOpFields DEF Inv, CopyOK
<1>15. ExactOK'
  BY <1>1, <1>3, <1>4, NoOpFields DEF Inv, ExactOK, FileExact, Has
<1> QED
  BY <1>7, <1>8, <1>9, <1>10, <1>11, <1>12, <1>13, <1>14, <1>15 DEF Inv

\* RemoveAll only meets doomed messages, and never INBOX.
LEMMA RemoveAllStep ==
    ASSUME Inv, RemoveAll
    PROVE  Inv' /\ SnapshotsKept
<1> USE DEF Unlocked, Rewriting, RewritingBox, RemovingBox
<1>1. /\ op.pc = "removeAll"
      /\ UNCHANGED <<now, copier, appends, acked, doomed, uidLog, wiped, faults>>
  BY DEF RemoveAll, history
<1>2. /\ op.box \in Boxes /\ op.box # Inbox
      /\ Inbox \in Holds[op.box] => wiped
      /\ \A n \in Holds[op.box], u \in UIDs :
             index[n].st = "ok" /\ Has(index[n], u) => index[n].msgs[u].id \in doomed
      /\ \A a \in acked : a[2] \in Holds[op.box] => a[1] \in doomed
  BY <1>1 DEF Inv, OpOK, AckedOK
<1>h. Holds[op.box] \subseteq Boxes /\ op.box \in Holds[op.box]
  BY <1>2, HoldsAssumption
<1>3. CASE \E n \in Holds[op.box], u \in UIDs :
                /\ files' = [files EXCEPT ![n][u] = NoFile]
                /\ UNCHANGED <<index, op>>
  <2>1. PICK m \in Holds[op.box], u \in UIDs : files' = [files EXCEPT ![m][u] = NoFile]
    BY <1>3
  <2>m. m \in Boxes
    BY <1>h
  <2>2. \A n \in Boxes, v \in UIDs :
          files'[n][v] = IF n = m /\ v = u THEN NoFile ELSE files[n][v]
    BY <2>m, <2>1 DEF Inv, TypeOK
  <2>3. TypeOK'
    <3>1. files' \in [Boxes -> [UIDs -> -1 .. MaxAppends]]
      BY <2>m, <2>1, Bounds DEF Inv, TypeOK
    <3> QED
      BY <1>1, <1>3, <3>1 DEF Inv, TypeOK
  <2>4. BlankOK' /\ OpOK' /\ AckedOK'
    BY <1>1, <1>3 DEF Inv, BlankOK, OpOK, AckedOK, Has, Lists
  <2>5. IndexOK'
    BY <1>1, <1>2, <1>3, <2>2 DEF Inv, IndexOK, Shape, BodyOK, Has
  <2>6. LogOK'
    BY <1>1, <1>3 DEF Inv, LogOK, InboxUidForever
  <2>7. SnapshotsKept
    <3>1. ~wiped => \A v \in UIDs : files'[Inbox][v] = files[Inbox][v]
      BY <1>2, <2>2, BoxAssumption
    <3> QED
      BY <1>1, <1>3, <3>1 DEF SnapshotsKept, SnapshotOK, SameUid, Has
  <2>8. CopyOK'
    BY <1>1, <1>3, <2>7 DEF Inv, TypeOK, Copies, CopyOK, CopyFromInboxFaithful,
       SnapshotsKept, NextCopy
  <2>9. ExactOK'
    BY <1>1, <1>3, <2>2 DEF Inv, ExactOK, FileExact, Has
  <2> QED
    BY <2>3, <2>4, <2>5, <2>6, <2>7, <2>8, <2>9 DEF Inv
<1>4. CASE \E n \in Holds[op.box] :
              index' = [index EXCEPT ![n] = Absent("none")] /\ UNCHANGED <<files, op>>
  <2>0. PICK m \in Holds[op.box] : index' = [index EXCEPT ![m] = Absent("none")]
    BY <1>4
  <2>m. m \in Boxes
    BY <1>h
  <2>1. \A n \in Boxes :
          index'[n] = IF n = m THEN Absent("none") ELSE index[n]
    BY <2>m, <2>0 DEF Inv, TypeOK
  <2>2. TypeOK'
    <3>1. index' \in [Boxes -> Index]
      BY <2>m, <2>0, AbsentType DEF Inv, TypeOK
    <3> QED
      BY <1>1, <1>4, <3>1 DEF Inv, TypeOK
  <2>3. BlankOK' /\ IndexOK'
    BY <1>1, <1>4, <2>1, AbsentType DEF Inv, BlankOK, IndexOK, Shape, BodyOK, Has
  <2>4. OpOK'
    BY <1>1, <1>2, <1>4, <1>h, <2>1, AbsentType DEF OpOK, Has
  <2>5. AckedOK'
    BY <1>1, <1>2, <1>4, <2>1 DEF Inv, TypeOK, AckedOK, Lists
  <2>6. ~wiped => index'[Inbox] = index[Inbox]
    BY <1>2, <2>1, BoxAssumption
  <2>7. LogOK'
    BY <1>1, <1>4, <2>6 DEF Inv, LogOK, InboxUidForever
  <2>8. SnapshotsKept
    BY <1>1, <1>4, <2>6 DEF SnapshotsKept, SnapshotOK, SameUid, Has
  <2>9. CopyOK'
    BY <1>1, <1>4, <2>8 DEF Inv, TypeOK, Copies, CopyOK, CopyFromInboxFaithful,
       SnapshotsKept, NextCopy
  <2>10. ExactOK'
    BY <1>1, <1>4, <2>1 DEF Inv, ExactOK, FileExact, Has
  <2> QED
    BY <2>2, <2>3, <2>4, <2>5, <2>7, <2>8, <2>9, <2>10 DEF Inv
<1>5. CASE /\ \A n \in Holds[op.box] : index[n].st = "none" /\ files[n] = NoFiles
           /\ op' = NoOp /\ UNCHANGED <<index, files>>
  <2>1. TypeOK' /\ BlankOK' /\ IndexOK'
    BY <1>1, <1>5, NoOpFields DEF Inv, TypeOK, BlankOK, IndexOK, Shape, BodyOK, Has
  <2>2. OpOK' /\ AckedOK'
    BY <1>1, <1>5, NoOpFields DEF Inv, OpOK, AckedOK, Lists
  <2>3. LogOK'
    BY <1>1, <1>5, NoOpFields DEF Inv, LogOK, InboxUidForever
  <2>4. SnapshotsKept
    BY <1>1, <1>5, NoOpFields DEF SnapshotsKept, SnapshotOK, SameUid, Has
  <2>5. CopyOK'
    BY <1>1, <1>5, <2>4, NoOpFields DEF Inv, TypeOK, Copies, CopyOK,
       CopyFromInboxFaithful, SnapshotsKept, NextCopy
  <2>6. \A n \in Holds[op.box], u \in UIDs : FileExact(n, index[n], u)
    BY <1>h, <1>5 DEF Inv, BlankOK, FileExact, NoFiles
  <2>7. ExactOK'
    BY <1>1, <1>5, <1>h, <2>6, NoOpFields DEF Inv, ExactOK, FileExact, Has
  <2> QED
    BY <2>1, <2>2, <2>3, <2>4, <2>5, <2>7 DEF Inv
<1> QED
  BY <1>3, <1>4, <1>5 DEF RemoveAll, disk

-----------------------------------------------------------------------------
(* Copy, faults and time. *)

\* A step that only moves Copy on.
LEMMA CopierStep ==
    ASSUME Inv, copier' \in Copies,
           UNCHANGED <<index, files, now, op, appends, acked, doomed, uidLog, wiped, faults>>,
           /\ copier'.pc # "idle" => copier'.from \in Boxes /\ copier'.to \in Boxes
           /\ \A u \in copier'.todo : copier'.msgs[u].id # 0
           /\ copier'.pc = "append" => copier'.todo # {} /\ copier'.body # NoFile
           /\ op.copying => copier'.pc = "wait",
           copier'.from = Inbox /\ ~wiped => SnapshotOK(copier'.msgs),
           CopyFromInboxFaithful'
    PROVE  Inv' /\ SnapshotsKept
<1>1. TypeOK' /\ BlankOK' /\ IndexOK'
  BY DEF Inv, TypeOK, BlankOK, IndexOK, Shape, BodyOK, Has
<1>2. OpOK' /\ AckedOK'
  BY DEF Inv, OpOK, AckedOK, Lists, Shape, BodyOK, Has, RewritingBox, RemovingBox
<1>3. LogOK' /\ ExactOK'
  BY DEF Inv, LogOK, InboxUidForever, RewritingBox, RemovingBox, ExactOK, FileExact, Unlocked, Has
<1>4. SnapshotsKept
  BY DEF SnapshotsKept, SnapshotOK, SameUid, Has, RewritingBox, RemovingBox
<1>5. SnapshotOK(copier'.msgs) => SnapshotOK(copier.msgs)'
  BY DEF SnapshotOK, SameUid, Has, RewritingBox, RemovingBox
<1>6. CopyOK'
  BY <1>5 DEF CopyOK
<1> QED
  BY <1>1, <1>2, <1>3, <1>4, <1>6 DEF Inv

\* What Copy or a session reads from the index of INBOX while the lock is free
\* is a sound snapshot.
LEMMA SnapshotTaken ==
    ASSUME Inv, Unlocked, Readable(Inbox)
    PROVE  /\ ReadIndex(Inbox).msgs \in [UIDs -> Message]
           /\ SnapshotOK(ReadIndex(Inbox).msgs)
<1>1. /\ ReadIndex(Inbox) \in Index
      /\ \A u \in UIDs : /\ ReadIndex(Inbox).msgs[u].id = index[Inbox].msgs[u].id
                         /\ Has(index[Inbox], u) =>
                              ReadIndex(Inbox).msgs[u] = index[Inbox].msgs[u]
  BY ReadIndexFacts, BoxAssumption
<1> SUFFICES ASSUME NEW u \in UIDs, Has(index[Inbox], u)
               PROVE  /\ files[Inbox][u] \in {NoFile, index[Inbox].msgs[u].body}
                      /\ index[Inbox].st = "ok"
                      /\ u < index[Inbox].next
  BY <1>1 DEF Index, SnapshotOK, SameUid, Has, Unlocked, RewritingBox, RemovingBox, Rewriting
<1>3. index[Inbox].st = "ok"
  BY BoxAssumption DEF Inv, BlankOK
<1> QED
  BY <1>3, BoxAssumption DEF Inv, IndexOK, Shape, BodyOK

LEMMA StartCopyStep ==
    ASSUME Inv, NEW from \in Boxes, NEW to \in Boxes, NEW uids \in SUBSET UIDs,
           StartCopy(from, to, uids)
    PROVE  Inv' /\ SnapshotsKept
<1> DEFINE old == ReadIndex(from)
<1>1. /\ copier.pc = "idle" /\ Unlocked /\ Readable(from)
      /\ copier' = [NoCopy EXCEPT !.pc = "dest", !.from = from, !.to = to,
                        !.todo = {u \in uids : Has(old, u)}, !.msgs = old.msgs]
      /\ UNCHANGED <<index, files, now, op, appends, acked, doomed, uidLog, wiped, faults>>
  BY DEF StartCopy, disk, history
<1>2. old.msgs \in [UIDs -> Message]
  BY <1>1, ReadIndexFacts DEF Index
<1>3. from = Inbox => SnapshotOK(old.msgs)
  BY <1>1, SnapshotTaken
<1> HIDE DEF old
<1>4. /\ copier' \in Copies /\ copier'.pc = "dest" /\ copier'.from = from
      /\ copier'.to = to /\ copier'.msgs = old.msgs
      /\ copier'.todo = {u \in uids : Has(old, u)}
  BY <1>1, <1>2, NoCopyFields DEF Copies
<1>5. ~op.copying
  BY <1>1 DEF Inv, CopyOK
<1>6. CopyFromInboxFaithful'
  BY <1>4 DEF CopyFromInboxFaithful
<1>7. \A u \in copier'.todo : copier'.msgs[u].id # 0
  BY <1>4 DEF Has
<1> QED
  BY <1>1, <1>3, <1>4, <1>5, <1>6, <1>7, CopierStep

\* Copy gives up: nothing of it is left.
LEMMA CopyGivesUp ==
    ASSUME Inv, copier' = NoCopy, copier.pc # "wait",
           UNCHANGED <<index, files, now, op, appends, acked, doomed, uidLog, wiped, faults>>
    PROVE  Inv' /\ SnapshotsKept
<1>1. ~op.copying
  BY DEF Inv, CopyOK
<1>2. CopyFromInboxFaithful'
  BY NoCopyFields DEF CopyFromInboxFaithful
<1>3. copier'.from # Inbox
  BY NoCopyFields, BoxAssumption
<1> QED
  BY <1>1, <1>2, <1>3, NoCopyFields, CopierStep

LEMMA CopyCheckDestStep ==
    ASSUME Inv, CopyCheckDest
    PROVE  Inv' /\ SnapshotsKept
<1>1. /\ copier.pc = "dest" /\ Unlocked
      /\ copier' = [copier EXCEPT !.pc = "read"] \/ copier' = NoCopy
      /\ UNCHANGED <<index, files, now, op, appends, acked, doomed, uidLog, wiped, faults>>
  BY DEF CopyCheckDest, disk, history
<1>2. CASE copier' = [copier EXCEPT !.pc = "read"]
  <2>1. /\ copier' \in Copies /\ copier'.pc = "read" /\ copier'.from = copier.from
        /\ copier'.to = copier.to /\ copier'.msgs = copier.msgs
        /\ copier'.todo = copier.todo
    BY <1>2 DEF Inv, TypeOK, Copies
  <2>2. /\ ~op.copying /\ copier.from \in Boxes /\ copier.to \in Boxes
        /\ \A u \in copier.todo : copier.msgs[u].id # 0
        /\ copier.from = Inbox /\ ~wiped => SnapshotOK(copier.msgs)
    BY <1>1 DEF Inv, CopyOK
  <2>3. CopyFromInboxFaithful'
    BY <2>1 DEF CopyFromInboxFaithful
  <2>4. copier'.from = Inbox /\ ~wiped => SnapshotOK(copier'.msgs)
    BY <2>1, <2>2
  <2> QED
    BY <1>1, <2>1, <2>2, <2>3, <2>4, CopierStep
<1>3. CASE copier' = NoCopy
  BY <1>1, <1>3, CopyGivesUp
<1> QED
  BY <1>1, <1>2, <1>3

\* The unlocked read finds the body of the snapshot's message, or no file.
LEMMA CopyReadStep ==
    ASSUME Inv, CopyRead
    PROVE  Inv' /\ SnapshotsKept
<1> DEFINE file == files[copier.from][NextCopy]
<1>1. /\ copier.pc = "read"
      /\ \/ copier' = NoCopy
         \/ /\ copier.todo # {} /\ file # NoFile
            /\ copier' = [copier EXCEPT !.pc = "append", !.body = file]
      /\ UNCHANGED <<index, files, now, op, appends, acked, doomed, uidLog, wiped, faults>>
  BY DEF CopyRead, disk, history
<1>2. CASE /\ copier.todo # {} /\ file # NoFile
           /\ copier' = [copier EXCEPT !.pc = "append", !.body = file]
  <2>1. /\ ~op.copying /\ copier.from \in Boxes /\ copier.to \in Boxes
        /\ \A u \in copier.todo : copier.msgs[u].id # 0
        /\ copier.from = Inbox /\ ~wiped => SnapshotOK(copier.msgs)
    BY <1>1 DEF Inv, CopyOK
  <2>2. NextCopy \in copier.todo /\ NextCopy \in UIDs
    BY <1>2, NextCopyLeast DEF Inv
  <2>3. file \in -1 .. MaxAppends
    BY <2>1, <2>2 DEF Inv, TypeOK
  <2>4. copier.from = Inbox /\ ~wiped => file = copier.msgs[NextCopy].body
    BY <1>2, <2>1, <2>2 DEF SnapshotOK
  <2> HIDE DEF file
  <2>5. /\ copier' \in Copies /\ copier'.pc = "append" /\ copier'.from = copier.from
        /\ copier'.to = copier.to /\ copier'.msgs = copier.msgs
        /\ copier'.todo = copier.todo /\ copier'.body = file
    BY <1>2, <2>3 DEF Inv, TypeOK, Copies
  <2>6. NextCopy' = NextCopy
    BY <2>5 DEF NextCopy
  <2>7. CopyFromInboxFaithful'
    BY <1>1, <2>4, <2>5, <2>6 DEF CopyFromInboxFaithful
  <2>8. copier'.from = Inbox /\ ~wiped => SnapshotOK(copier'.msgs)
    BY <2>1, <2>5
  <2> QED
    BY <1>1, <1>2, <2>1, <2>5, <2>7, <2>8, CopierStep
<1>3. CASE copier' = NoCopy
  BY <1>1, <1>3, CopyGivesUp
<1> QED
  BY <1>1, <1>2, <1>3

\* What Copy calls Append with.
LEMMA CopyAppendArgs ==
    ASSUME Inv, CopyAppend
    PROVE  /\ copier.to \in Boxes /\ copier.body \in 0 .. MaxAppends
           /\ copier.msgs[NextCopy].flags \in SUBSET Flags
           /\ StartAppend(copier.to, copier.body, copier.msgs[NextCopy].flags, TRUE)
<1>1. /\ copier.pc = "append"
      /\ StartAppend(copier.to, copier.body, copier.msgs[NextCopy].flags, TRUE)
  BY DEF CopyAppend
<1>2. copier.to \in Boxes /\ copier.todo # {} /\ copier.body # NoFile
  BY <1>1 DEF Inv, CopyOK
<1>3. copier.body \in 0 .. MaxAppends
  BY <1>2, BoundAssumption DEF Inv, TypeOK, Copies, NoFile
<1>4. copier.msgs[NextCopy] \in Message
  BY <1>2, NextCopyLeast DEF Inv, TypeOK, Copies
<1> QED
  BY <1>1, <1>2, <1>3, <1>4 DEF Message

LEMMA CopyAppendStep ==
    ASSUME Inv, CopyAppend
    PROVE  Inv' /\ SnapshotsKept
<1>1. /\ copier.pc = "append"
      /\ copier' = [copier EXCEPT !.pc = "wait", !.todo = @ \ {NextCopy},
                                  !.body = NoFile]
  BY DEF CopyAppend
<1>2. /\ copier.from \in Boxes /\ copier.to \in Boxes /\ copier.todo # {}
      /\ copier.body # NoFile
      /\ \A u \in copier.todo : copier.msgs[u].id # 0
      /\ copier.from = Inbox /\ ~wiped => SnapshotOK(copier.msgs)
  BY <1>1 DEF Inv, CopyOK
<1>5. /\ copier' \in Copies /\ copier'.pc = "wait" /\ copier'.from = copier.from
      /\ copier'.to = copier.to /\ copier'.msgs = copier.msgs
      /\ copier'.todo \subseteq copier.todo
  BY <1>1, Bounds DEF Inv, TypeOK, Copies
<1>6. /\ TypeOK' /\ BlankOK' /\ IndexOK' /\ OpOK' /\ AckedOK' /\ LogOK'
      /\ ExactOK' /\ SnapshotsKept /\ op'.copying = TRUE /\ wiped' = wiped
  BY <1>5, CopyAppendArgs, StartAppendStep
<1>7. copier'.from = Inbox /\ ~wiped => SnapshotOK(copier.msgs)'
  BY <1>2, <1>5, <1>6 DEF Inv, TypeOK, Copies, SnapshotsKept
<1>8. CopyFromInboxFaithful'
  BY <1>5 DEF CopyFromInboxFaithful
<1>9. CopyOK'
  BY <1>2, <1>5, <1>6, <1>7, <1>8 DEF CopyOK
<1> QED
  BY <1>6, <1>9 DEF Inv

LEMMA CopyAbortStep ==
    ASSUME Inv, CopyAbort
    PROVE  Inv' /\ SnapshotsKept
  BY CopyGivesUp DEF CopyAbort, disk, history

\* The call in progress ends where it is: what the disk has is sound.
LEMMA CallEnds ==
    ASSUME Inv, faults < MaxFaults, faults' = faults + 1, op' = NoOp,
           copier' = NoCopy \/ copier' = copier,
           UNCHANGED <<index, files, now, appends, acked, doomed, uidLog, wiped>>
    PROVE  Inv' /\ SnapshotsKept
<1> USE DEF Unlocked, Rewriting, RewritingBox, RemovingBox
<1>1. faults' \in 0 .. MaxFaults /\ faults' # 0
  BY BoundAssumption DEF Inv, TypeOK
<1>2. TypeOK' /\ BlankOK' /\ IndexOK'
  BY <1>1, NoOpFields, NoCopyFields DEF Inv, TypeOK, BlankOK, IndexOK, Shape, BodyOK, Has
<1>3. OpOK' /\ AckedOK' /\ ExactOK'
  BY <1>1, NoOpFields DEF Inv, OpOK, AckedOK, Lists, ExactOK
<1>4. LogOK'
  BY NoOpFields DEF Inv, LogOK, InboxUidForever
<1>5. SnapshotsKept
  BY NoOpFields DEF SnapshotsKept, SnapshotOK, SameUid, Has
<1>6. CASE copier' = copier
  <2>1. CopyOK'
    BY <1>5, <1>6, NoOpFields DEF Inv, TypeOK, Copies, CopyOK,
       CopyFromInboxFaithful, SnapshotsKept, NextCopy
  <2> QED
    BY <1>2, <1>3, <1>4, <1>5, <2>1 DEF Inv
<1>7. CASE copier' = NoCopy
  <2>1. CopyOK'
    BY <1>7, NoOpFields, NoCopyFields, BoxAssumption DEF CopyOK, CopyFromInboxFaithful
  <2> QED
    BY <1>2, <1>3, <1>4, <1>5, <2>1 DEF Inv
<1> QED
  BY <1>6, <1>7

LEMMA CallErrorStep ==
    ASSUME Inv, CallError
    PROVE  Inv' /\ SnapshotsKept
  BY CallEnds DEF CallError, disk, history

LEMMA CrashStep ==
    ASSUME Inv, Crash
    PROVE  Inv' /\ SnapshotsKept
  BY CallEnds DEF Crash, disk, history

LEMMA TickStep ==
    ASSUME Inv, Tick
    PROVE  Inv' /\ SnapshotsKept
<1> USE DEF Unlocked, Rewriting, RewritingBox, RemovingBox
<1>1. /\ now' \in Times
      /\ UNCHANGED <<index, files, op, copier, appends, acked, doomed, uidLog, wiped, faults>>
  BY BoundAssumption DEF Inv, TypeOK, Tick, Times, disk, history
<1>2. TypeOK' /\ BlankOK' /\ IndexOK'
  BY <1>1 DEF Inv, TypeOK, BlankOK, IndexOK, Shape, BodyOK, Has
<1>3. OpOK' /\ AckedOK'
  BY <1>1 DEF Inv, OpOK, AckedOK, Lists, Shape, BodyOK, Has
<1>4. LogOK' /\ ExactOK'
  BY <1>1 DEF Inv, LogOK, InboxUidForever, ExactOK, FileExact, Has
<1>5. SnapshotsKept
  BY <1>1 DEF SnapshotsKept, SnapshotOK, SameUid, Has
<1>6. CopyOK'
  BY <1>1, <1>5 DEF Inv, TypeOK, Copies, CopyOK, CopyFromInboxFaithful,
     SnapshotsKept, NextCopy
<1> QED
  BY <1>2, <1>3, <1>4, <1>5, <1>6 DEF Inv

LEMMA StutterStep ==
    ASSUME Inv, UNCHANGED vars
    PROVE  Inv' /\ SnapshotsKept
<1> USE DEF Unlocked, Rewriting, RewritingBox, RemovingBox
<1>1. UNCHANGED <<index, files, now, op, copier, appends, acked, doomed, uidLog, wiped, faults>>
  BY DEF vars
<1>2. /\ \A u \in copier'.todo : copier'.msgs[u].id # 0
      /\ copier'.pc # "idle" => copier'.from \in Boxes /\ copier'.to \in Boxes
      /\ copier'.pc = "append" => copier'.todo # {} /\ copier'.body # NoFile
      /\ op.copying => copier'.pc = "wait"
      /\ copier'.from = Inbox /\ ~wiped => SnapshotOK(copier'.msgs)
      /\ copier' \in Copies
  BY <1>1 DEF Inv, TypeOK, CopyOK
<1>3. CopyFromInboxFaithful'
  BY <1>1 DEF Inv, CopyOK, CopyFromInboxFaithful, NextCopy
<1> QED
  BY <1>1, <1>2, <1>3, CopierStep

\* Every step of the store preserves the invariant, and the meaning of every
\* snapshot of INBOX that anybody holds.
LEMMA NextInv == Inv /\ [Next]_vars => Inv' /\ SnapshotsKept
<1> SUFFICES ASSUME Inv, [Next]_vars PROVE Inv' /\ SnapshotsKept
  OBVIOUS
<1>1. CASE Call
  BY <1>1, CreateMailboxStep, DeleteMailboxStep, SetSubscribedStep, AppendStep,
     RemoveStep, SetFlagsStep, RenameMailboxStep DEF Call
<1>2. CASE SystemCall
  BY <1>2, WriteBodyStep, UnlinkBodyStep, OpenIndexStep, WriteIndexStep,
     RemoveAllStep DEF SystemCall
<1>3. CASE Copy
  BY <1>3, StartCopyStep, CopyCheckDestStep, CopyReadStep, CopyAppendStep,
     CopyAbortStep DEF Copy
<1>4. CASE CallError \/ Crash \/ Tick
  BY <1>4, CallErrorStep, CrashStep, TickStep
<1>5. CASE UNCHANGED vars
  BY <1>5, StutterStep
<1> QED
  BY <1>1, <1>2, <1>3, <1>4, <1>5 DEF Next

-----------------------------------------------------------------------------
(* In INBOX a message has one UID: the index on disk, the one being written  *)
(* and the snapshots that sessions hold agree on it.                         *)

OneUid(msgs) ==
    \A u \in UIDs : msgs[u].id # 0 =>
        /\ msgs[u].id <= appends
        /\ \A v \in UIDs :
             /\ index[Inbox].msgs[v].id = msgs[u].id => u = v
             /\ RewritingBox(Inbox) /\ op.ix.msgs[v].id = msgs[u].id => u = v

IdsInv ==
    /\ OneUid(index[Inbox].msgs)
    /\ RewritingBox(Inbox) => OneUid(op.ix.msgs)

\* What a step does to UID u of mailbox n when a call takes the lock to rewrite
\* it: it keeps the message, drops one whose removal was asked for, or adds the
\* message of an Append.
SlotStep(n, u) ==
    /\ \/ op'.ix.msgs[u].id = index[n].msgs[u].id
       \/ op'.ix.msgs[u].id = 0 /\ index[n].msgs[u].id \in doomed'
       \/ /\ index[n].msgs[u].id = 0
          /\ op'.ix.msgs[u].id = appends + 1 /\ appends' = appends + 1
          /\ u = op'.uid /\ op'.ix.next = u + 1 /\ op'.body # NoFile
    /\ Vacant(n, op'.ix, u)

\* What a step does to mailbox n.
BoxStep(n) ==
    /\ \/ index'[n] = index[n]
       \/ index'[n] = Absent("torn")
       \/ (n # Inbox \/ wiped) /\ index'[n] = Absent("none")
       \/ RewritingBox(n) /\ index'[n] = op.ix
    /\ RewritingBox(n)' =>
         \/ RewritingBox(n) /\ op'.ix = op.ix
         \/ /\ Unlocked /\ index[n].st # "torn"
            /\ \A u \in UIDs : SlotStep(n, u)
            /\ op'.body # NoFile =>
                 op'.ix.msgs[op'.uid].id = appends + 1 /\ doomed' = doomed

Grows == appends' \in {appends, appends + 1} /\ doomed \subseteq doomed'

Renames == \E from, to \in Boxes : RenameMailbox(from, to)

IdsKept == \A msgs \in [UIDs -> Message] : OneUid(msgs) => OneUid(msgs)'

LEMMA BoxStays ==
    ASSUME NEW n \in Boxes, index'[n] = index[n],
           RewritingBox(n)' => RewritingBox(n) /\ op'.ix = op.ix
    PROVE  BoxStep(n)
  BY DEF BoxStep

LEMMA PreparedBox ==
    ASSUME Inv, Unlocked, NEW n \in Boxes, NEW m \in Boxes, NEW gone \in SUBSET UIDs,
           NEW pc \in {"files", "open"}, Prepared(m, gone, pc), index' = index
    PROVE  BoxStep(n)
<1>1. op'.box = m /\ op'.body = NoFile /\ index[m].st # "torn"
  BY DEF Prepared, Begun
<1>2. \A u \in UIDs : SlotStep(m, u)
  BY DEF Prepared, SlotStep, Has
<1> QED
  BY <1>1, <1>2 DEF BoxStep, RewritingBox, RemovingBox

LEMMA AppendBox ==
    ASSUME Inv, NEW n \in Boxes, NEW m \in Boxes, NEW body \in 0 .. MaxAppends,
           NEW fs \in SUBSET Flags, NEW copying \in BOOLEAN,
           StartAppend(m, body, fs, copying)
    PROVE  BoxStep(n) /\ Grows
<1>1. PICK uid \in UIDs, ix \in Index :
         /\ Unlocked /\ index[m].st # "torn"
         /\ Appending(m, uid, ix, body, copying)
         /\ appends' = appends + 1 /\ index' = index /\ doomed' = doomed
  BY AppendBegins
<1>2. /\ op'.box = m /\ op'.ix.msgs[op'.uid].id = appends + 1
      /\ \A u \in UIDs : SlotStep(m, u)
  BY <1>1 DEF Appending, SlotStep, Has
<1> QED
  BY <1>1, <1>2 DEF BoxStep, RewritingBox, RemovingBox, Grows

LEMMA CallBox ==
    ASSUME Inv, Call, NEW n \in Boxes, n = Inbox \/ ~Renames
    PROVE  BoxStep(n) /\ Grows
<1>1. PICK m \in Boxes :
        \/ CreateMailbox(m) \/ DeleteMailbox(m) \/ SetSubscribed(m)
        \/ \E fs \in SUBSET Flags : Append(m, fs)
        \/ \E uids \in SUBSET UIDs :
            \/ Remove(m, uids)
            \/ \E fs \in SUBSET Flags, how \in {"set", "add", "remove"} :
                    SetFlags(m, uids, fs, how)
        \/ \E to \in Boxes : RenameMailbox(m, to)
  BY DEF Call
<1>2. CASE CreateMailbox(m)
  <2>1. Unlocked /\ UNCHANGED <<index, appends, doomed>>
    BY <1>2 DEF CreateMailbox, Lock, disk, history
  <2> QED
    BY <1>2, <2>1, CreateMailboxStep, PreparedBox DEF Grows
<1>3. CASE DeleteMailbox(m)
  <2>1. /\ op'.pc = "removeAll" /\ UNCHANGED <<index, appends>>
        /\ doomed \subseteq doomed'
    BY <1>3, NoOpFields DEF DeleteMailbox, Lock, disk, Ops
  <2> QED
    BY <2>1, BoxStays DEF RewritingBox, RemovingBox, Rewriting, Grows
<1>4. CASE SetSubscribed(m)
  <2>1. Unlocked /\ UNCHANGED <<index, appends, doomed>>
    BY <1>4 DEF SetSubscribed, Lock, disk, history
  <2> QED
    BY <1>4, <2>1, SetSubscribedStep, PreparedBox DEF Grows
<1>5. CASE \E fs \in SUBSET Flags : Append(m, fs)
  <2>1. PICK fs \in SUBSET Flags : StartAppend(m, appends + 1, fs, FALSE)
    BY <1>5 DEF Append
  <2>2. appends + 1 \in 0 .. MaxAppends
    BY <2>1, BoundAssumption DEF Inv, TypeOK, StartAppend, WriteMessage
  <2> QED
    BY <2>1, <2>2, AppendBox
<1>6. ASSUME NEW uids \in SUBSET UIDs, Remove(m, uids) PROVE BoxStep(n) /\ Grows
  <2>1. PICK gone \in SUBSET UIDs :
          /\ Unlocked /\ Prepared(m, gone, "files")
          /\ UNCHANGED <<index, appends>>
          /\ doomed' = doomed \cup {index[m].msgs[u].id : u \in gone}
    BY <1>6, RemoveBegins
  <2> QED
    BY <2>1, PreparedBox DEF Grows
<1>7. ASSUME NEW uids \in SUBSET UIDs, NEW fs \in SUBSET Flags,
             NEW how \in {"set", "add", "remove"}, SetFlags(m, uids, fs, how)
      PROVE  BoxStep(n) /\ Grows
  <2>1. Unlocked /\ Prepared(m, {}, "open") /\ UNCHANGED <<index, appends, doomed>>
    BY <1>7, SetFlagsBegins
  <2> QED
    BY <2>1, PreparedBox DEF Grows
<1>8. ASSUME NEW to \in Boxes, RenameMailbox(m, to) PROVE BoxStep(n) /\ Grows
  <2>1. n = Inbox
    BY <1>8 DEF Renames
  <2>2. index'[Inbox] = index[Inbox] /\ UNCHANGED <<op, appends, doomed>>
    BY <1>8, BoxAssumption DEF RenameMailbox, Inv, TypeOK
  <2> QED
    BY <2>1, <2>2, BoxStays DEF RewritingBox, RemovingBox, Grows
<1> QED
  BY <1>1, <1>2, <1>3, <1>4, <1>5, <1>6, <1>7, <1>8

LEMMA SystemCallBox ==
    ASSUME Inv, SystemCall, NEW n \in Boxes
    PROVE  BoxStep(n) /\ Grows
<1> USE DEF RewritingBox, RemovingBox, Rewriting
<1>0. Grows
  BY DEF SystemCall, WriteBody, UnlinkBody, OpenIndex, WriteIndex, RemoveAll, history, Grows
<1>1. CASE WriteBody \/ UnlinkBody
  <2>1. /\ op'.ix = op.ix /\ op'.box = op.box
        /\ op.pc \in Rewriting /\ index' = index
    BY <1>1 DEF WriteBody, UnlinkBody, Inv, TypeOK, Ops
  <2> QED
    BY <1>0, <2>1, BoxStays
<1>2. CASE OpenIndex
  <2>1. /\ op'.ix = op.ix /\ op'.box = op.box /\ op.pc = "open"
        /\ index' = [index EXCEPT ![op.box] = Absent("torn")] /\ op.box \in Boxes
    BY <1>2 DEF OpenIndex, Inv, OpOK, TypeOK, Ops
  <2> QED
    BY <1>0, <2>1 DEF Inv, TypeOK, BoxStep
<1>3. CASE WriteIndex
  <2>1. /\ op' = NoOp /\ op.pc = "write" /\ op.box \in Boxes
        /\ index' = [index EXCEPT ![op.box] = op.ix]
    BY <1>3 DEF WriteIndex, Inv, OpOK
  <2> QED
    BY <1>0, <2>1, NoOpFields DEF Inv, TypeOK, BoxStep
<1>4. CASE RemoveAll
  <2>1. op.pc = "removeAll" /\ (Inbox \in Holds[op.box] => wiped) /\ op.box \in Boxes
    BY <1>4 DEF RemoveAll, Inv, OpOK
  <2>2. /\ op' = op \/ op' = NoOp
        /\ index' = index \/ \E m \in Holds[op.box] :
                                index' = [index EXCEPT ![m] = Absent("none")]
    BY <1>4, <2>1 DEF RemoveAll, disk, Inv, TypeOK
  <2>3. Holds[op.box] \subseteq Boxes
    BY <2>1, HoldsAssumption
  <2> QED
    BY <1>0, <2>1, <2>2, <2>3, NoOpFields DEF Inv, TypeOK, BoxStep
<1> QED
  BY <1>1, <1>2, <1>3, <1>4 DEF SystemCall

LEMMA CopyBox ==
    ASSUME Inv, Copy, NEW n \in Boxes
    PROVE  BoxStep(n) /\ Grows
<1>1. CASE CopyAppend
  <2>1. /\ copier.body \in 0 .. MaxAppends /\ copier.to \in Boxes
        /\ copier.msgs[NextCopy].flags \in SUBSET Flags
        /\ StartAppend(copier.to, copier.body, copier.msgs[NextCopy].flags, TRUE)
    BY <1>1, CopyAppendArgs
  <2> QED
    BY <2>1, AppendBox
<1>2. CASE ~CopyAppend
  <2>1. UNCHANGED <<index, op, appends, doomed>>
    BY <1>2 DEF Copy, StartCopy, CopyCheckDest, CopyRead, CopyAbort, disk, history
  <2> QED
    BY <2>1, BoxStays DEF RewritingBox, RemovingBox, Grows
<1> QED
  BY <1>1, <1>2

LEMMA NextBox ==
    ASSUME Inv, [Next]_vars, NEW n \in Boxes, n = Inbox \/ ~Renames
    PROVE  BoxStep(n) /\ Grows
<1>1. CASE CallError \/ Crash \/ Tick \/ UNCHANGED vars
  <2>1. UNCHANGED <<index, appends, doomed>> /\ (op' = op \/ op' = NoOp)
    BY <1>1 DEF CallError, Crash, Tick, vars, disk, history
  <2> QED
    BY <2>1, BoxStays, NoOpFields DEF RewritingBox, RemovingBox, Rewriting, Grows
<1> QED
  BY <1>1, CallBox, SystemCallBox, CopyBox DEF Next

\* Only DeleteMailbox can take INBOX with it.
LEMMA WipedByDeletion ==
    ASSUME [Next]_vars, op'.pc # "removeAll"
    PROVE  wiped' = wiped
<1>1. ASSUME NEW n \in Boxes, DeleteMailbox(n) PROVE FALSE
  BY <1>1, NoOpFields DEF DeleteMailbox, Lock, NoOp
<1>2. CASE Call
  BY <1>1, <1>2 DEF Call, CreateMailbox, SetSubscribed, Append, StartAppend,
     WriteMessage, Remove, SetFlags, RenameMailbox, history
<1>3. CASE SystemCall \/ Copy
  BY <1>3 DEF SystemCall, WriteBody, UnlinkBody, OpenIndex, WriteIndex, RemoveAll, Copy,
     StartCopy, CopyCheckDest, CopyRead, CopyAppend, CopyAbort, StartAppend,
     WriteMessage, history
<1>4. CASE CallError \/ Crash \/ Tick \/ UNCHANGED vars
  BY <1>4 DEF CallError, Crash, Tick, history, vars
<1> QED
  BY <1>2, <1>3, <1>4 DEF Next

\* Where the ids of the next indexes of a mailbox come from.
Here(n, u, id) == \/ id = index[n].msgs[u].id
                  \/ RewritingBox(n) /\ id = op.ix.msgs[u].id

NewHere(n, u) == /\ op'.ix.msgs[u].id = appends + 1 /\ u = op'.uid
                 /\ appends' = appends + 1

LEMMA IdsComeFrom ==
    ASSUME NEW n \in Boxes, BoxStep(n), NEW u \in UIDs
    PROVE  /\ index'[n].msgs[u].id = 0 \/ Here(n, u, index'[n].msgs[u].id)
           /\ RewritingBox(n)' => \/ op'.ix.msgs[u].id = 0
                                  \/ Here(n, u, op'.ix.msgs[u].id)
                                  \/ NewHere(n, u)
<1>1. Absent("torn").msgs[u].id = 0 /\ Absent("none").msgs[u].id = 0
  BY AbsentType DEF Has
<1> QED
  BY <1>1 DEF BoxStep, SlotStep, Here, NewHere

\* Every step keeps the invariant, and every snapshot in agreement.
LEMMA IdsInvariance ==
    ASSUME Inv, IdsInv, [Next]_vars
    PROVE  IdsInv' /\ IdsKept
<1>0. Grows /\ BoxStep(Inbox) /\ Inbox \in Boxes
  BY NextBox, BoxAssumption
<1>1. \A u \in UIDs :
        /\ index'[Inbox].msgs[u].id = 0 \/ Here(Inbox, u, index'[Inbox].msgs[u].id)
        /\ RewritingBox(Inbox)' => \/ op'.ix.msgs[u].id = 0
                                   \/ Here(Inbox, u, op'.ix.msgs[u].id)
                                   \/ NewHere(Inbox, u)
  BY <1>0, IdsComeFrom
<1>2. appends \in Nat /\ appends' \in Nat /\ appends <= appends' /\ appends + 1 # 0
  BY <1>0, BoundAssumption DEF Grows, Inv, TypeOK
<1>3. IdsKept
  <2> SUFFICES ASSUME NEW msgs \in [UIDs -> Message], OneUid(msgs),
                      NEW u \in UIDs, msgs[u].id # 0
               PROVE  /\ msgs[u].id <= appends'
                      /\ \A v \in UIDs :
                           /\ index'[Inbox].msgs[v].id = msgs[u].id => u = v
                           /\ RewritingBox(Inbox)' /\ op'.ix.msgs[v].id = msgs[u].id
                                => u = v
    BY DEF IdsKept, OneUid
  <2>1. msgs[u].id \in Nat /\ msgs[u].id <= appends
    BY BoundAssumption DEF OneUid, Message
  <2>2. \A v \in UIDs : Here(Inbox, v, msgs[u].id) => u = v
    BY DEF OneUid, Here
  <2> QED
    BY <1>1, <1>2, <2>1, <2>2 DEF NewHere
<1>4. \A u \in UIDs : /\ index[Inbox].msgs[u].id \in Nat
                      /\ op.ix.msgs[u].id \in Nat
  BY BoundAssumption, BoxAssumption DEF Inv, TypeOK, Index, Ops, Message
<1>5. \A u, v \in UIDs : \A id \in Nat \ {0} :
        Here(Inbox, u, id) => id <= appends /\ (Here(Inbox, v, id) => u = v)
  BY DEF IdsInv, OneUid, Here
<1>6. \A u \in UIDs : /\ index'[Inbox].msgs[u].id \in Nat
                      /\ op'.ix.msgs[u].id \in Nat
  <2>1. TypeOK'
    BY NextInv DEF Inv
  <2> QED
    BY <2>1, BoundAssumption, BoxAssumption DEF TypeOK, Index, Ops, Message
<1>7. OneUid(index[Inbox].msgs)'
  <2> SUFFICES ASSUME NEW u \in UIDs, index'[Inbox].msgs[u].id # 0
               PROVE  /\ index'[Inbox].msgs[u].id <= appends'
                      /\ \A v \in UIDs :
                           /\ index'[Inbox].msgs[v].id = index'[Inbox].msgs[u].id => u = v
                           /\ RewritingBox(Inbox)'
                                /\ op'.ix.msgs[v].id = index'[Inbox].msgs[u].id => u = v
    BY DEF OneUid
  <2>1. Here(Inbox, u, index'[Inbox].msgs[u].id) /\ index'[Inbox].msgs[u].id \in Nat \ {0}
    BY <1>1, <1>6
  <2>2. index'[Inbox].msgs[u].id <= appends
    BY <1>5, <2>1
  <2> QED
    BY <1>1, <1>2, <1>5, <2>1, <2>2 DEF NewHere
<1>8. ASSUME RewritingBox(Inbox)' PROVE OneUid(op.ix.msgs)'
  <2> SUFFICES ASSUME NEW u \in UIDs, op'.ix.msgs[u].id # 0
               PROVE  /\ op'.ix.msgs[u].id <= appends'
                      /\ \A v \in UIDs :
                           /\ index'[Inbox].msgs[v].id = op'.ix.msgs[u].id => u = v
                           /\ op'.ix.msgs[v].id = op'.ix.msgs[u].id => u = v
    BY DEF OneUid
  <2>1. \A v \in UIDs : \/ Here(Inbox, v, op'.ix.msgs[v].id)
                        \/ op'.ix.msgs[v].id = 0 \/ NewHere(Inbox, v)
    BY <1>1, <1>8
  <2>2. CASE Here(Inbox, u, op'.ix.msgs[u].id)
    <3>1. op'.ix.msgs[u].id \in Nat \ {0} /\ op'.ix.msgs[u].id <= appends
      BY <1>5, <1>6, <2>2
    <3> QED
      BY <1>1, <1>2, <1>5, <2>1, <2>2, <3>1 DEF NewHere
  <2>3. CASE NewHere(Inbox, u)
    <3>1. \A v \in UIDs : ~Here(Inbox, v, appends + 1)
      BY <1>2, <1>5
    <3> QED
      BY <1>1, <1>2, <2>1, <2>3, <3>1 DEF NewHere
  <2> QED
    BY <2>1, <2>2, <2>3
<1> QED
  BY <1>3, <1>7, <1>8 DEF IdsInv

-----------------------------------------------------------------------------
(* The theorems. *)

\* The invariant holds in every reachable state of the store: a call that
\* fails or is cut off by a crash at any system call leaves indexes and files
\* that the next call can rely on.
THEOREM Invariance == Spec => []Inv
<1>1. Inv /\ [Next]_vars => Inv'
  BY NextInv
<1> QED
  BY InitInv, <1>1, PTL DEF Spec

\* Type correctness of the store: the indexes, the files and the call in
\* progress always have the form the code gives them.
THEOREM TypeCorrect == Spec => []TypeOK
<1>1. Inv => TypeOK
  BY DEF Inv
<1> QED
  BY <1>1, Invariance, PTL

\* The body file of a listed message is never overwritten, half written or
\* unlinked unless its removal was asked for, over failing calls and crashes.
THEOREM BodiesAreSafe == Spec => []IndexedHasBody
<1>1. Inv => IndexedHasBody
  BY DEF Inv, IndexOK, BodyOK, IndexedHasBody
<1> QED
  BY <1>1, Invariance, PTL

\* A message that Append has acknowledged stays listed until its removal is
\* asked for; only an index torn by an interrupted write hides it.
THEOREM AckedIsKept == Spec => []AckedKept
<1>1. Inv => AckedKept
  BY DEF Inv, AckedOK, AckedKept, Lists
<1> QED
  BY <1>1, Invariance, PTL

\* A UID of INBOX names one message for ever, under one UIDVALIDITY.
THEOREM InboxUidsAreForever == Spec => []InboxUidForever
<1>1. Inv => InboxUidForever
  BY DEF Inv, LogOK
<1> QED
  BY <1>1, Invariance, PTL

\* Copy out of INBOX appends the body of the message it has listed, although
\* it reads the file without the lock.
THEOREM CopyIsFaithful == Spec => []CopyFromInboxFaithful
<1>1. Inv => CopyFromInboxFaithful
  BY DEF Inv, CopyOK
<1> QED
  BY <1>1, Invariance, PTL

\* Without faults the files on disk are exactly those of the messages that the
\* indexes list, whenever the lock is free.
THEOREM StoreIsExact == Spec => []StoreExact
<1>1. Inv => StoreExact
  BY DEF Inv, ExactOK, FileExact, StoreExact
<1> QED
  BY <1>1, Invariance, PTL
=============================================================================
