----------------------------- MODULE MailStore -----------------------------
(***************************************************************************)
(* The on-disk mail store of one account (mail/store.go, mail/flags.go).   *)
(*                                                                         *)
(* A mailbox is a directory with an index.json and one <uid>.eml file per  *)
(* message.  Every mutation runs under Store.mu, so at most one is in      *)
(* progress (`op'), but it is several system calls: os.WriteFile truncates *)
(* and then writes, Remove and RemoveAll unlink files one by one.  Between *)
(* two of them a call can fail, the process can die, and the unlocked Body *)
(* can read.  Copy is not one critical section: it takes a snapshot, looks *)
(* at the destination, and then reads a body and calls Append per message. *)
(*                                                                         *)
(* A mailbox name is a directory below the mail root, except that          *)
(* filepath.Join cleans the names "." and ".." to the mail root itself and *)
(* to the account's directory: `Holds' says whose directories a name's     *)
(* directory has inside.                                                   *)
(*                                                                         *)
(* Data abstraction: names are canonical ("" is "." spelt otherwise); the  *)
(* `id' of a message is the serial number of the Append that stored it     *)
(* (history, as are acked, doomed, uidLog and wiped), a body is the serial *)
(* number of the message it was first written for, flags are sets, the     *)
(* clock counts seconds.                                                   *)
(***************************************************************************)
EXTENDS Integers, FiniteSets

CONSTANTS Boxes,       \* canonical mailbox names
          Inbox,       \* "INBOX"
          Holds,       \* mailbox -> itself and the mailboxes inside its directory
          Flags,       \* message flags, \Recent among them
          Recent,      \* \Recent, which is never stored
          MaxAppends,  \* bound: calls of Append, and so the largest UID
          MaxTime,     \* bound: seconds that pass
          MaxFaults,   \* bound: failing calls and deaths of the process
          None         \* no mailbox

ASSUME BoxAssumption == Inbox \in Boxes /\ None \notin Boxes
ASSUME HoldsAssumption ==
    /\ Holds \in [Boxes -> SUBSET Boxes]
    /\ \A n \in Boxes : n \in Holds[n]
    /\ Holds[Inbox] = {Inbox}
ASSUME BoundAssumption ==
    MaxAppends \in Nat \ {0} /\ MaxTime \in Nat /\ MaxFaults \in Nat

VARIABLES
    index,    \* Boxes -> index.json
    files,    \* Boxes -> UIDs -> <uid>.eml
    now,      \* time.Now().Unix()
    op,       \* the call that holds Store.mu, and what it has left to do
    copier,   \* a Copy in progress
    appends,  \* calls of Append so far
    acked,    \* <<id, mailbox>> of the Appends that returned a UID
    doomed,   \* ids somebody has asked Remove or DeleteMailbox to delete
    uidLog,   \* [box, validity, uid, id] that clients could see
    wiped,    \* a mailbox with INBOX inside its directory was deleted
    faults

vars == <<index, files, now, op, copier, appends, acked, doomed, uidLog, wiped,
          faults>>
disk    == <<index, files>>
history == <<acked, doomed, uidLog, wiped>>

-----------------------------------------------------------------------------
UIDs  == 1 .. MaxAppends
Times == 0 .. MaxTime

NoFile  == -1     \* there is no such file
Partial == 0      \* truncated, not yet written
Bodies  == 1 .. MaxAppends

Message == [id : 0 .. MaxAppends, body : -1 .. MaxAppends, flags : SUBSET Flags]
NoMessage == [id |-> 0, body |-> 0, flags |-> {}]

\* mailboxIndex; msgs[u].id = 0 when no message has UID u.
Index == [st : {"none", "torn", "ok"}, validity : Times, next : Nat,
          msgs : [UIDs -> Message]]

Absent(st) == [st |-> st, validity |-> 0, next |-> 1,
               msgs |-> [u \in UIDs |-> NoMessage]]

\* newMailboxIndex: UIDVALIDITY is the time of creation.
NewIndex == [st |-> "ok", validity |-> now, next |-> 1,
             msgs |-> [u \in UIDs |-> NoMessage]]

Has(ix, u) == ix.msgs[u].id # 0
Lists(ix, id) == \E u \in UIDs : ix.msgs[u].id = id

\* readIndex: INBOX is made up on demand, and not written.
Readable(n) == index[n].st = "ok" \/ (index[n].st = "none" /\ n = Inbox)
ReadIndex(n) == IF index[n].st = "ok" THEN index[n] ELSE NewIndex

NoFiles == [u \in UIDs |-> NoFile]

NoOp == [pc |-> "free", box |-> None, ix |-> Absent("none"), uid |-> 1,
         body |-> NoFile, todo |-> {}, copying |-> FALSE]
Ops == [pc : {"free", "body", "files", "open", "write", "removeAll"},
        box : Boxes \cup {None}, ix : Index, uid : UIDs,
        body : -1 .. MaxAppends, todo : SUBSET UIDs, copying : BOOLEAN]
Unlocked == op.pc = "free"

NoCopy == [pc |-> "idle", from |-> None, to |-> None, todo |-> {},
           msgs |-> [u \in UIDs |-> NoMessage], body |-> NoFile]
Copies == [pc : {"idle", "dest", "read", "append", "wait"},
           from : Boxes \cup {None}, to : Boxes \cup {None},
           todo : SUBSET UIDs, msgs : [UIDs -> Message],
           body : -1 .. MaxAppends]

TypeOK ==
    /\ index \in [Boxes -> Index]
    /\ files \in [Boxes -> [UIDs -> -1 .. MaxAppends]]
    /\ now \in Times
    /\ op \in Ops
    /\ copier \in Copies
    /\ appends \in 0 .. MaxAppends
    /\ acked \in SUBSET ((1 .. MaxAppends) \X Boxes)
    /\ doomed \in SUBSET (1 .. MaxAppends)
    /\ uidLog \in SUBSET [box : Boxes, validity : Times, uid : UIDs,
                          id : 1 .. MaxAppends]
    /\ wiped \in BOOLEAN
    /\ faults \in 0 .. MaxFaults

Init ==
    /\ index = [n \in Boxes |-> Absent("none")]
    /\ files = [n \in Boxes |-> NoFiles]
    /\ now = 0
    /\ op = NoOp /\ copier = NoCopy
    /\ appends = 0
    /\ acked = {} /\ doomed = {} /\ uidLog = {} /\ wiped = FALSE
    /\ faults = 0

-----------------------------------------------------------------------------
(* flags.go.  Flag names are compared without case, so a list of them is a *)
(* set.                                                                    *)

normaliseFlags(fs) == fs \ {Recent}

applyFlags(old, fs, how) ==
    CASE how = "set"    -> normaliseFlags(fs)
      [] how = "add"    -> normaliseFlags(old \cup fs)
      [] how = "remove" -> old \ fs

-----------------------------------------------------------------------------
(* The calls: each takes the lock, decides, and leaves the system calls to *)
(* come in op.                                                             *)

Lock(call) == Unlocked /\ op' = call

\* writeIndex(n, ix)
Writing(n, ix) == [NoOp EXCEPT !.pc = "open", !.box = n, !.ix = ix]

CreateMailbox(n) ==
    /\ n # Inbox /\ index[n].st = "none"
    /\ Lock(Writing(n, NewIndex))
    /\ UNCHANGED <<disk, now, copier, appends, history, faults>>

\* The subscription bit itself is left out; the rewrite of the index is not.
SetSubscribed(n) ==
    /\ Readable(n)
    /\ Lock(Writing(n, ReadIndex(n)))
    /\ UNCHANGED <<disk, now, copier, appends, history, faults>>

SetFlags(n, uids, fs, how) ==
    /\ Readable(n)
    /\ LET old == ReadIndex(n)
           new == [u \in UIDs |->
                      IF u \in uids /\ Has(old, u)
                      THEN [old.msgs[u] EXCEPT !.flags = applyFlags(@, fs, how)]
                      ELSE old.msgs[u]]
       IN  Lock(Writing(n, [old EXCEPT !.msgs = new]))
    /\ UNCHANGED <<disk, now, copier, appends, history, faults>>

\* Mutant: UIDNext is not advanced.
Appended_SameNext(n, body, fs) ==
    LET old == IF index[n].st = "ok" THEN index[n] ELSE NewIndex
        msg == [id |-> appends + 1, body |-> body, flags |-> normaliseFlags(fs)]
    IN  [old EXCEPT !.msgs = [@ EXCEPT ![old.next] = msg]]

\* The index an Append will write: the mailbox is created if need be.
Appended(n, body, fs) ==
    LET old == IF index[n].st = "ok" THEN index[n] ELSE NewIndex
        msg == [id |-> appends + 1, body |-> body, flags |-> normaliseFlags(fs)]
    IN  [old EXCEPT !.next = @ + 1, !.msgs = [@ EXCEPT ![old.next] = msg]]

NextUid(n) == IF index[n].st = "ok" THEN index[n].next ELSE NewIndex.next

WriteMessage(n, body, fs, copying) ==
    /\ appends < MaxAppends
    /\ Lock([Writing(n, Appended(n, body, fs)) EXCEPT !.pc = "body",
                !.uid = NextUid(n), !.body = body, !.copying = copying])
    /\ files' = [files EXCEPT ![n][NextUid(n)] = Partial]
    /\ appends' = appends + 1
    /\ UNCHANGED <<index, now, history, faults>>

\* Mutant: an index that cannot be parsed counts as a mailbox that is missing.
StartAppend_OverTorn(n, body, fs, copying) == WriteMessage(n, body, fs, copying)

\* Append creates the body file first.
StartAppend(n, body, fs, copying) ==
    /\ index[n].st # "torn"
    /\ WriteMessage(n, body, fs, copying)

Append(n, fs) ==
    /\ StartAppend(n, appends + 1, fs, FALSE)
    /\ UNCHANGED copier

Kept(ix, gone) == [u \in UIDs |-> IF u \in gone THEN NoMessage ELSE ix.msgs[u]]

\* Mutant: UIDNext falls back to the highest UID that is left, plus one.
Without_Reclaims(ix, gone) ==
    LET left == {u \in UIDs : Has(ix, u) /\ u \notin gone}
    IN  [ix EXCEPT !.msgs = Kept(ix, gone),
                   !.next = CHOOSE k \in 1 .. MaxAppends + 1 :
                                /\ \A u \in left : u < k
                                /\ k = 1 \/ k - 1 \in left]

Without(ix, gone) == [ix EXCEPT !.msgs = Kept(ix, gone)]

\* Remove unlinks the body files, then writes the index without them.
Remove(n, uids) ==
    /\ Readable(n)
    /\ LET old  == ReadIndex(n)
           gone == {u \in uids : Has(old, u)}
       IN  /\ Lock([Writing(n, Without(old, gone))
                        EXCEPT !.pc = "files", !.todo = gone])
           /\ doomed' = doomed \cup {old.msgs[u].id : u \in gone}
    /\ UNCHANGED <<disk, now, copier, appends, acked, uidLog, wiped, faults>>

\* What somebody asks to have deleted with the mailbox n.
Inside(n) ==
    {id \in 1 .. MaxAppends : \E b \in Holds[n] :
        <<id, b>> \in acked \/ Lists(index[b], id)}

\* os.Stat finds the index even when it is torn.  The directory goes with all
\* it has inside: for "." that is every mailbox, INBOX among them (and for
\* ".." the account's user.json as well, which is not in this module).
DeleteMailbox(n) ==
    /\ n # Inbox /\ index[n].st # "none"
    /\ Lock([NoOp EXCEPT !.pc = "removeAll", !.box = n])
    /\ doomed' = doomed \cup Inside(n)
    /\ wiped' = (wiped \/ Inbox \in Holds[n])
    /\ UNCHANGED <<disk, now, copier, appends, acked, uidLog, faults>>

\* Mutant: only index.json is moved.
MoveFiles_Forgotten(from, to) == UNCHANGED files

MoveFiles(from, to) ==
    files' = [files EXCEPT ![to] = files[from], ![from] = NoFiles]

\* os.Rename moves the directory in one system call; it refuses a destination
\* directory that is still there with the files of an interrupted deletion, and
\* to move a directory into itself or onto one that has others inside.
RenameMailbox(from, to) ==
    /\ Unlocked
    /\ from # Inbox /\ to # Inbox /\ from # to
    /\ index[from].st # "none" /\ index[to].st = "none"
    /\ Holds[from] = {from} /\ Holds[to] = {to}
    /\ files[to] = NoFiles
    /\ index' = [index EXCEPT ![to] = index[from], ![from] = Absent("none")]
    /\ MoveFiles(from, to)
    /\ acked' = {<<a[1], IF a[2] = from THEN to ELSE a[2]>> : a \in acked}
    /\ uidLog' = uidLog \cup
           {[box |-> to, validity |-> index[from].validity, uid |-> u,
             id |-> index[from].msgs[u].id] :
                u \in {v \in UIDs : Has(index[from], v)}}
    /\ UNCHANGED <<now, op, copier, appends, doomed, wiped, faults>>

-----------------------------------------------------------------------------
(* The system calls of the call that holds the lock. *)

WriteBody ==
    /\ op.pc = "body"
    /\ files' = [files EXCEPT ![op.box][op.uid] = op.body]
    /\ op' = [op EXCEPT !.pc = "open"]
    /\ UNCHANGED <<index, now, copier, appends, history, faults>>

\* A file that is already gone counts as removed.
UnlinkBody ==
    /\ op.pc = "files"
    /\ \/ \E u \in op.todo :
            /\ \A v \in op.todo : u <= v
            /\ files' = [files EXCEPT ![op.box][u] = NoFile]
            /\ op' = [op EXCEPT !.todo = @ \ {u}]
       \/ op.todo = {} /\ op' = [op EXCEPT !.pc = "open"] /\ UNCHANGED files
    /\ UNCHANGED <<index, now, copier, appends, history, faults>>

OpenIndex ==
    /\ op.pc = "open"
    /\ index' = [index EXCEPT ![op.box] = Absent("torn")]
    /\ op' = [op EXCEPT !.pc = "write"]
    /\ UNCHANGED <<files, now, copier, appends, history, faults>>

\* The write that completes a call: the lock is released, and an Append
\* returns the UID to its caller.
WriteIndex ==
    /\ op.pc = "write"
    /\ index' = [index EXCEPT ![op.box] = op.ix]
    /\ op' = NoOp
    /\ IF op.body = NoFile
       THEN UNCHANGED <<acked, uidLog, copier>>
       ELSE LET id == op.ix.msgs[op.uid].id
            IN  /\ acked' = acked \cup {<<id, op.box>>}
                /\ uidLog' = uidLog \cup {[box |-> op.box, uid |-> op.uid,
                                 validity |-> op.ix.validity, id |-> id]}
                /\ copier' = IF op.copying THEN [copier EXCEPT !.pc = "read"]
                                           ELSE copier
    /\ UNCHANGED <<files, now, appends, doomed, wiped, faults>>

\* os.RemoveAll unlinks in directory order, which is any order.
RemoveAll ==
    /\ op.pc = "removeAll"
    /\ \/ \E n \in Holds[op.box], u \in UIDs :
            /\ files[n][u] # NoFile
            /\ files' = [files EXCEPT ![n][u] = NoFile]
            /\ UNCHANGED <<index, op>>
       \/ \E n \in Holds[op.box] :
            /\ index[n].st # "none"
            /\ index' = [index EXCEPT ![n] = Absent("none")]
            /\ UNCHANGED <<files, op>>
       \/ /\ \A n \in Holds[op.box] : index[n].st = "none" /\ files[n] = NoFiles
          /\ op' = NoOp
          /\ UNCHANGED disk
    /\ UNCHANGED <<now, copier, appends, history, faults>>

-----------------------------------------------------------------------------
(* Copy *)

StartCopy(from, to, uids) ==
    /\ copier.pc = "idle" /\ Unlocked /\ Readable(from)
    /\ copier' = [NoCopy EXCEPT !.pc = "dest", !.from = from, !.to = to,
                      !.todo = {u \in uids : Has(ReadIndex(from), u)},
                      !.msgs = ReadIndex(from).msgs]
    /\ UNCHANGED <<disk, now, op, appends, history, faults>>

CopyCheckDest ==
    /\ copier.pc = "dest" /\ Unlocked
    /\ copier' = IF Readable(copier.to) THEN [copier EXCEPT !.pc = "read"]
                                        ELSE NoCopy
    /\ UNCHANGED <<disk, now, op, appends, history, faults>>

NextCopy == CHOOSE u \in copier.todo : \A v \in copier.todo : u <= v

\* Body, without the lock.  The copy ends when it is through or the file is
\* not there.
CopyRead ==
    /\ copier.pc = "read"
    /\ copier' = IF copier.todo = {} \/ files[copier.from][NextCopy] = NoFile
                 THEN NoCopy
                 ELSE [copier EXCEPT !.pc = "append",
                                     !.body = files[copier.from][NextCopy]]
    /\ UNCHANGED <<disk, now, op, appends, history, faults>>

CopyAppend ==
    /\ copier.pc = "append"
    /\ StartAppend(copier.to, copier.body, copier.msgs[NextCopy].flags, TRUE)
    /\ copier' = [copier EXCEPT !.pc = "wait", !.todo = @ \ {NextCopy},
                                !.body = NoFile]

\* Append refuses: the destination cannot be read (or the bound is reached).
CopyAbort ==
    /\ copier.pc = "append" /\ Unlocked
    /\ index[copier.to].st = "torn" \/ appends = MaxAppends
    /\ copier' = NoCopy
    /\ UNCHANGED <<disk, now, op, appends, history, faults>>

-----------------------------------------------------------------------------
(* Faults and time *)

\* A system call fails: the call gives up and returns the error.
CallError ==
    /\ ~Unlocked /\ faults < MaxFaults
    /\ faults' = faults + 1
    /\ op' = NoOp
    /\ copier' = IF op.copying THEN NoCopy ELSE copier
    /\ UNCHANGED <<disk, now, appends, history>>

\* The process dies and is started again.
Crash ==
    /\ faults < MaxFaults
    /\ faults' = faults + 1
    /\ op' = NoOp /\ copier' = NoCopy
    /\ UNCHANGED <<disk, now, appends, history>>

Tick ==
    /\ now < MaxTime
    /\ now' = now + 1
    /\ UNCHANGED <<disk, op, copier, appends, history, faults>>

Call ==
    \E n \in Boxes :
        \/ CreateMailbox(n)
        \/ DeleteMailbox(n)
        \/ SetSubscribed(n)
        \/ \E fs \in SUBSET Flags : Append(n, fs)
        \/ \E uids \in SUBSET UIDs :
            \/ Remove(n, uids)
            \/ \E fs \in SUBSET Flags, how \in {"set", "add", "remove"} :
                    SetFlags(n, uids, fs, how)
        \/ \E to \in Boxes : RenameMailbox(n, to)

SystemCall == WriteBody \/ UnlinkBody \/ OpenIndex \/ WriteIndex \/ RemoveAll

Copy ==
    \/ \E from, to \in Boxes, uids \in SUBSET UIDs : StartCopy(from, to, uids)
    \/ CopyCheckDest \/ CopyRead \/ CopyAppend \/ CopyAbort

Next == Call \/ SystemCall \/ Copy \/ CallError \/ Crash \/ Tick

Spec == Init /\ [][Next]_vars

-----------------------------------------------------------------------------
(* Properties. *)

\* A message a readable index lists has its own complete body on disk, or no
\* file at all once somebody asked for its removal: Append never overwrites or
\* half-writes the file of a stored message and Remove never unlinks another
\* one, whatever call failed or crashed before, and also after orphaned files
\* were left.
IndexedHasBody ==
    \A n \in Boxes, u \in UIDs :
        index[n].st = "ok" /\ Has(index[n], u) =>
            \/ files[n][u] = index[n].msgs[u].body
            \/ files[n][u] = NoFile /\ index[n].msgs[u].id \in doomed

\* A message whose Append returned a UID stays listed in its mailbox (or under
\* the name it was renamed to) until somebody removes it; only an index torn
\* by an interrupted write can hide it.  No sequence of read-modify-writes of
\* index.json, Copy's included, loses another call's message.
AckedKept ==
    \A a \in acked :
        \/ a[1] \in doomed
        \/ index[a[2]].st = "torn"
        \/ index[a[2]].st = "ok" /\ \E u \in UIDs : index[a[2]].msgs[u].id = a[1]

SameName(a, b) == a.box = b.box /\ a.validity = b.validity /\ a.uid = b.uid

\* In INBOX a UID names one message for ever, and under one UIDVALIDITY: no
\* expunge, failed Append or crash makes Append hand it out again or renews the
\* mailbox.  Nothing but the deletion of a mailbox whose directory has INBOX
\* inside ends this.
InboxUidForever ==
    ~wiped => \A a, b \in uidLog : a.box = Inbox /\ b.box = Inbox =>
        /\ a.validity = b.validity
        /\ a.uid = b.uid => a.id = b.id

\* Without faults the store is exact whenever the lock is free: every index
\* is readable and the body files are those of the messages it lists.
StoreExact ==
    faults = 0 /\ Unlocked => \A n \in Boxes :
        /\ index[n].st # "torn"
        /\ \A u \in UIDs : files[n][u] =
              IF Has(index[n], u) THEN index[n].msgs[u].body ELSE NoFile

\* What Copy is about to append is the body of the message in its snapshot,
\* although Body reads without the lock, when the source is INBOX and INBOX was
\* not deleted under it.
CopyFromInboxFaithful ==
    copier.pc = "append" /\ copier.from = Inbox /\ ~wiped =>
        copier.body = copier.msgs[NextCopy].body

\* The first half of the comment on uidValidity, "must change whenever UIDs
\* are reused", for every mailbox name.
UidValidityChangesOnReuse ==
    \A a, b \in uidLog : SameName(a, b) => a.id = b.id

\* The comment on DeleteMailbox, "INBOX cannot be deleted": once it has a
\* message its index.json is there.
InboxCannotBeDeleted ==
    \A a \in acked : a[2] = Inbox => index[Inbox].st # "none"

-----------------------------------------------------------------------------
(* The inductive invariant behind these properties: what holds of an index  *)
(* on disk holds of the one that the call in progress is about to write,    *)
(* what it has unlinked by then is doomed, and a snapshot of INBOX that     *)
(* somebody still holds names the same messages as the index does now.      *)

Rewriting == {"body", "files", "open", "write"}
RewritingBox(n) == op.pc \in Rewriting /\ op.box = n
RemovingBox(n)  == op.pc = "removeAll" /\ n \in Holds[op.box]

Shape(ix) ==
    /\ ix.next \in 1 .. appends + 1
    /\ \A u \in UIDs : Has(ix, u) => u < ix.next

BodyOK(n, ix, u) ==
    Has(ix, u) => \/ files[n][u] = ix.msgs[u].body
                  \/ files[n][u] = NoFile /\ ix.msgs[u].id \in doomed

BlankOK ==
    \A n \in Boxes : index[n].st # "ok" => \A u \in UIDs : ~Has(index[n], u)

IndexOK ==
    \A n \in Boxes : index[n].st = "ok" =>
        Shape(index[n]) /\ \A u \in UIDs : BodyOK(n, index[n], u)

AckedOK ==
    \A a \in acked :
        /\ a[1] \in doomed \/ index[a[2]].st = "torn"
             \/ (index[a[2]].st = "ok" /\ Lists(index[a[2]], a[1]))
        /\ RewritingBox(a[2]) => a[1] \in doomed \/ Lists(op.ix, a[1])
        /\ RemovingBox(a[2]) => a[1] \in doomed

LogOK ==
    /\ ~wiped => \A a \in uidLog : a.box = Inbox =>
        /\ index[Inbox].st # "none"
        /\ index[Inbox].st = "ok" =>
             a.uid < index[Inbox].next /\ a.validity = index[Inbox].validity
        /\ RewritingBox(Inbox) =>
             /\ a.uid < op.ix.next /\ a.validity = op.ix.validity
             /\ op.body # NoFile => a.uid # op.uid
    /\ InboxUidForever

OpOK ==
    /\ op.pc # "free" => op.box \in Boxes
    /\ op.pc \in Rewriting =>
        /\ op.ix.st = "ok" /\ Shape(op.ix)
        /\ op.body # NoFile => /\ Has(op.ix, op.uid)
                               /\ op.ix.msgs[op.uid].body = op.body
                               /\ op.uid < op.ix.next
        /\ \A u \in UIDs :
             BodyOK(op.box, op.ix, u) \/ (op.pc = "body" /\ u = op.uid)
    /\ op.pc = "body" =>
        /\ op.body # NoFile
        /\ index[op.box].st = "ok" => ~Has(index[op.box], op.uid)
    /\ op.pc = "files" => \A u \in op.todo :
        /\ ~Has(op.ix, u)
        /\ index[op.box].st = "ok" /\ Has(index[op.box], u) =>
             index[op.box].msgs[u].id \in doomed
    /\ op.pc = "removeAll" =>
        /\ op.box # Inbox /\ (Inbox \in Holds[op.box] => wiped)
        /\ \A n \in Holds[op.box], u \in UIDs :
             index[n].st = "ok" /\ Has(index[n], u) =>
                 index[n].msgs[u].id \in doomed

\* ix gives UID u to the message that msgs had under it, or to nobody.
SameUid(ix, msgs, u) ==
    u < ix.next /\ (Has(ix, u) => ix.msgs[u].id = msgs[u].id)

\* A snapshot of INBOX, taken at any time: each of its messages has its own
\* body file or none, and no index gives its UID to another one.
SnapshotOK(msgs) ==
    \A u \in UIDs : msgs[u].id # 0 =>
        /\ files[Inbox][u] \in {NoFile, msgs[u].body}
        /\ index[Inbox].st # "none"
        /\ index[Inbox].st = "ok" => SameUid(index[Inbox], msgs, u)
        /\ RewritingBox(Inbox) =>
             SameUid(op.ix, msgs, u) /\ (op.body # NoFile => u # op.uid)

CopyOK ==
    /\ copier.pc # "idle" => copier.from \in Boxes /\ copier.to \in Boxes
    /\ \A u \in copier.todo : copier.msgs[u].id # 0
    /\ copier.pc = "append" => copier.todo # {} /\ copier.body # NoFile
    /\ op.copying => copier.pc = "wait"
    /\ copier.from = Inbox /\ ~wiped => SnapshotOK(copier.msgs)
    /\ CopyFromInboxFaithful

\* Without faults the files are those of the index, or of the index that the
\* call in progress will write, up to what it has left to do.
FileExact(n, ix, u) ==
    files[n][u] = IF Has(ix, u) THEN ix.msgs[u].body ELSE NoFile

ExactOK ==
    faults = 0 =>
        /\ \A n \in Boxes : Unlocked \/ (op.box # n /\ ~RemovingBox(n)) =>
             index[n].st # "torn" /\ \A u \in UIDs : FileExact(n, index[n], u)
        /\ op.pc \in Rewriting => \A u \in UIDs :
             \/ FileExact(op.box, op.ix, u)
             \/ op.pc = "body" /\ u = op.uid
             \/ op.pc = "files" /\ u \in op.todo

\* The mailbox is sound on disk and will be after the write in progress, and
\* every snapshot of INBOX keeps its meaning.
Inv ==
    /\ TypeOK
    /\ BlankOK
    /\ IndexOK
    /\ OpOK
    /\ AckedOK
    /\ LogOK
    /\ CopyOK
    /\ ExactOK
=============================================================================
