-------------------------- MODULE MailServerProofs --------------------------
(***************************************************************************)
(* Proofs about MailServer, for every set of clients, addresses, queue ids *)
(* and listeners and every number of failures: what a 250 promises, who    *)
(* may relay, what a copy costs and the order of Shutdown.                 *)
(***************************************************************************)
EXTENDS MailServer, FiniteSetTheorems, TLAPS

-----------------------------------------------------------------------------
(* The inductive invariant. *)

Addrs == Locals \cup Remotes

SessionPcs == {"none", "ready", "mail"} \cup InData
Sessions ==
    [pc : SessionPcs, account : Accounts \cup {None}, from : Addrs \cup {Nobody, None},
     rcpts : Seq(Addrs), todo : Seq(Addrs), remote : SUBSET Remotes,
     failed : BOOLEAN, qid : QIds \cup {None}]

ServerTypeOK ==
    /\ sess \in [Clients -> Sessions]
    /\ acked \in [Clients -> SUBSET Addrs]
    /\ stored \in [Clients -> [Locals -> Nat]]
    /\ DOMAIN origin = QIds
    /\ status \in [QIds -> {"new", "open", "accepted", "refused"}]
    /\ to \in [QIds -> SUBSET Remotes]
    /\ failures \in Nat /\ shutdowns \in Nat
    /\ main \in {"down", "starting", "serving"} \cup Stopping
    /\ next \in Nat /\ expired \in BOOLEAN

\* An unused id says nothing, a used one who may relay.
QueueOK ==
    \A q \in QIds :
        \/ status[q] = "new" /\ to[q] = {}
        \/ /\ status[q] # "new"
           /\ RoleOf[origin[q].client] \in Submission
           /\ origin[q].account # None
           /\ EqualFold(origin[q].from, AddressOf[origin[q].account])

Distinct(s) == \A i \in 1 .. Len(s) : \A j \in 1 .. Len(s) : s[i] = s[j] => i = j

\* Between transactions a session keeps nothing of the last one, and within
\* one it works on recipients without a 250, each named once; a remote one
\* takes a submission client.
SessionOK(c) ==
    /\ sess[c].pc \notin InData =>
           sess[c].todo = <<>> /\ sess[c].remote = {} /\ sess[c].failed = FALSE
    /\ sess[c].pc \in {"none", "ready"} => sess[c].rcpts = <<>>
    /\ Distinct(sess[c].rcpts) /\ Distinct(sess[c].todo)
    /\ Range(sess[c].rcpts) \cap acked[c] = {}
    /\ Range(sess[c].todo) \cup sess[c].remote \subseteq Range(sess[c].rcpts)
    /\ Range(sess[c].rcpts) \cap Remotes # {} => IsSubmission(c)
    /\ sess[c].pc \in {"mail"} \cup InData /\ IsSubmission(c) =>
           /\ sess[c].account # None
           /\ EqualFold(sess[c].from, AddressOf[sess[c].account])
    /\ sess[c].pc = "enqueue" =>
           /\ sess[c].todo = <<>>
           /\ sess[c].qid \in QIds /\ status[sess[c].qid] = "open"
           /\ origin[sess[c].qid].client = c /\ to[sess[c].qid] = sess[c].remote

\* What a 250 promises, and what is done of it before the reply.
Kept(c, a) ==
    \/ a \in Locals /\ stored[c][a] > 0
    \/ a \in Remotes /\ \E q \in Queued(c, a) : status[q] = "accepted"

KeptOK(c) ==
    /\ \A a \in acked[c] : Kept(c, a)
    /\ sess[c].pc \in InData /\ sess[c].failed = FALSE =>
           \A a \in Range(sess[c].rcpts) :
               a \in Range(sess[c].todo) \cup sess[c].remote \/ Kept(c, a)

Copies(c, a) == IF a \in Locals THEN stored[c][a] ELSE Cardinality(Queued(c, a))

\* Recipients Data has still to store for, or to hand to the queue.
Pending(c) ==
    Range(sess[c].todo) \cup (IF sess[c].pc = "data" THEN sess[c].remote ELSE {})

\* A running shutdown pays for the sessions it will cut off at its end.
Paid == IF main \in Stopping THEN failures + shutdowns - 1 ELSE failures + shutdowns

\* A copy that was not paid for has been confirmed, or is about to be.
Unpaid(c, a) ==
    IF a \in acked[c] THEN 1
    ELSE IF sess[c].pc \notin InData \/ a \notin Range(sess[c].rcpts) THEN 0
    ELSE (IF a \in Pending(c) THEN 0 ELSE 1) - (IF sess[c].failed = TRUE THEN 1 ELSE 0)

CopiesOK(c) ==
    \A a \in Addrs : /\ a \in Remotes => IsFiniteSet(Queued(c, a))
                     /\ Copies(c, a) <= Paid + Unpaid(c, a)

ClientOK(c) == SessionOK(c) /\ KeptOK(c) /\ CopiesOK(c)

\* The listeners of the SMTP servers that Shutdown has come to are closed, and
\* unless the time is over their sessions have ended.
LifeOK ==
    /\ main \in {"down", "serving"} => next = 1
    /\ main = "smtp" => \A i \in 1 .. Len(SmtpRoles) : i < next =>
           /\ SmtpRoles[i] \notin listening
           /\ expired \/ \A c \in Clients : RoleOf[c] = SmtpRoles[i] => ~Connected(c)
    /\ main \in {"queue", "wait"} =>
           /\ listening = {}
           /\ expired \/ \A c \in Clients : ~Connected(c)

ServerInv ==
    /\ ServerTypeOK
    /\ QueueOK
    /\ \A c \in Clients : ClientOK(c)
    /\ LifeOK

-----------------------------------------------------------------------------
(* Sequences of recipients. *)

LEMMA EmptyRange == Range(<<>>) = {} /\ Distinct(<<>>)
  BY DEF Range, Distinct

LEMMA AppendRange ==
    ASSUME NEW S, NEW s \in Seq(S), NEW a \in S
    PROVE  /\ Append(s, a) \in Seq(S)
           /\ Range(Append(s, a)) = Range(s) \cup {a}
           /\ Distinct(s) /\ a \notin Range(s) => Distinct(Append(s, a))
<1>1. /\ Append(s, a) \in Seq(S) /\ Len(Append(s, a)) = Len(s) + 1 /\ Len(s) \in Nat
      /\ \A i \in 1 .. Len(s) : Append(s, a)[i] = s[i]
      /\ Append(s, a)[Len(s) + 1] = a
  OBVIOUS
<1>2. DOMAIN s = 1 .. Len(s) /\ DOMAIN Append(s, a) = 1 .. (Len(s) + 1)
  BY <1>1
<1>3. Range(Append(s, a)) = Range(s) \cup {a}
  BY <1>1, <1>2 DEF Range
<1>4. ASSUME Distinct(s), a \notin Range(s) PROVE Distinct(Append(s, a))
  <2>1. \A i \in 1 .. Len(s) : s[i] # a
    BY <1>2, <1>4 DEF Range
  <2> QED
    BY <1>1, <1>4, <2>1 DEF Distinct
<1> QED
  BY <1>1, <1>3, <1>4

LEMMA TailRange ==
    ASSUME NEW S, NEW s \in Seq(S), s # <<>>
    PROVE  /\ Head(s) \in S /\ Tail(s) \in Seq(S)
           /\ Range(s) = {Head(s)} \cup Range(Tail(s))
           /\ Distinct(s) => Distinct(Tail(s)) /\ Head(s) \notin Range(Tail(s))
<1>1. /\ Head(s) \in S /\ Tail(s) \in Seq(S) /\ Len(s) \in Nat \ {0}
      /\ Len(Tail(s)) = Len(s) - 1 /\ Head(s) = s[1]
      /\ \A i \in 1 .. Len(s) - 1 : Tail(s)[i] = s[i + 1]
  OBVIOUS
<1>2. DOMAIN s = 1 .. Len(s) /\ DOMAIN Tail(s) = 1 .. Len(s) - 1
  BY <1>1
<1>3. Range(s) = {Head(s)} \cup Range(Tail(s))
  <2>1. ASSUME NEW x \in Range(s) PROVE x \in {Head(s)} \cup Range(Tail(s))
    <3>1. PICK i \in 1 .. Len(s) : x = s[i]
      BY <1>2 DEF Range
    <3>2. CASE i = 1
      BY <1>1, <3>1, <3>2
    <3>3. CASE i # 1
      <4>1. i - 1 \in 1 .. Len(s) - 1 /\ Tail(s)[i - 1] = s[i]
        BY <1>1, <3>3
      <4> QED
        BY <1>2, <3>1, <4>1 DEF Range
    <3> QED
      BY <3>2, <3>3
  <2>2. Head(s) \in Range(s)
    <3>1. 1 \in DOMAIN s /\ Head(s) = s[1]
      BY <1>1, <1>2
    <3> QED
      BY <3>1 DEF Range
  <2>3. ASSUME NEW x \in Range(Tail(s)) PROVE x \in Range(s)
    <3>1. PICK i \in 1 .. Len(s) - 1 : x = Tail(s)[i]
      BY <1>2 DEF Range
    <3>2. i + 1 \in DOMAIN s /\ x = s[i + 1]
      BY <1>1, <1>2, <3>1
    <3> QED
      BY <3>2 DEF Range
  <2> QED
    BY <2>1, <2>2, <2>3
<1>4. ASSUME Distinct(s) PROVE Distinct(Tail(s)) /\ Head(s) \notin Range(Tail(s))
  <2>1. Distinct(Tail(s))
    <3> SUFFICES ASSUME NEW i \in 1 .. Len(s) - 1, NEW j \in 1 .. Len(s) - 1,
                        Tail(s)[i] = Tail(s)[j]
                 PROVE  i = j
      BY <1>1 DEF Distinct
    <3>1. i + 1 \in 1 .. Len(s) /\ j + 1 \in 1 .. Len(s) /\ s[i + 1] = s[j + 1]
      BY <1>1
    <3>2. i + 1 = j + 1
      BY <1>4, <3>1 DEF Distinct
    <3> QED
      BY <3>2
  <2>2. ASSUME Head(s) \in Range(Tail(s)) PROVE FALSE
    <3>1. PICK i \in 1 .. Len(s) - 1 : s[1] = Tail(s)[i]
      BY <1>1, <1>2, <2>2 DEF Range
    <3>2. i + 1 \in 1 .. Len(s) /\ 1 \in 1 .. Len(s) /\ s[i + 1] = s[1]
      BY <1>1, <3>1
    <3>3. i + 1 = 1
      BY <1>4, <3>2 DEF Distinct
    <3> QED
      BY <3>3
  <2> QED
    BY <2>1, <2>2
<1> QED
  BY <1>1, <1>3, <1>4

-----------------------------------------------------------------------------
(* The initial state, and clients a step does not concern. *)

LEMMA PaidType ==
    ASSUME ServerTypeOK
    PROVE  Paid \in Int /\ failures + shutdowns \in Nat /\ Paid <= failures + shutdowns
  BY DEF ServerTypeOK, Paid

LEMMA NoSessionOK ==
    NoSession \in Sessions /\ NoSession.pc = "none" /\ NoSession.rcpts = <<>>
    /\ NoSession.todo = <<>> /\ NoSession.remote = {} /\ NoSession.failed = FALSE
<1>1. <<>> \in Seq(Addrs)
  OBVIOUS
<1> QED
  BY <1>1 DEF NoSession, Sessions, SessionPcs

LEMMA ServerInitInv == Init => ServerInv
<1> SUFFICES ASSUME Init PROVE ServerInv
  OBVIOUS
<1>1. /\ sess = [c \in Clients |-> NoSession] /\ acked = [c \in Clients |-> {}]
      /\ stored = [c \in Clients |-> [a \in Locals |-> 0]]
      /\ origin = [q \in QIds |-> NoOrigin] /\ listening = {} /\ main = "down"
      /\ next = 1 /\ expired = FALSE /\ shutdowns = 0 /\ failures = 0
      /\ status = [q \in QIds |-> "new"] /\ to = [q \in QIds |-> {}]
  BY DEF Init, SmtpInit, Q!Init
<1>2. ServerTypeOK
  <2>1. sess \in [Clients -> Sessions]
    BY <1>1, NoSessionOK
  <2> QED
    BY <1>1, <2>1 DEF ServerTypeOK
<1>3. QueueOK
  BY <1>1 DEF QueueOK
<1>4. ASSUME NEW c \in Clients PROVE ClientOK(c)
  <2>1. /\ sess[c].pc = "none" /\ sess[c].rcpts = <<>> /\ sess[c].todo = <<>>
        /\ sess[c].remote = {} /\ sess[c].failed = FALSE /\ acked[c] = {}
    BY <1>1, NoSessionOK
  <2>2. SessionOK(c)
    BY <2>1, EmptyRange DEF SessionOK, InData
  <2>3. KeptOK(c)
    BY <2>1 DEF KeptOK, InData
  <2>4. \A a \in Addrs : Queued(c, a) = {}
    BY <1>1 DEF Queued
  <2>5. \A a \in Addrs : Copies(c, a) = 0 /\ Paid + Unpaid(c, a) = 0
    <3>1. Paid = 0
      BY <1>1 DEF Paid, Stopping
    <3>2. \A a \in Addrs : Paid + Unpaid(c, a) = 0
      BY <2>1, <3>1 DEF Unpaid, InData
    <3>3. \A a \in Addrs : Copies(c, a) = 0
      BY <1>1, <2>4, FS_EmptySet DEF Copies
    <3> QED
      BY <3>2, <3>3
  <2>6. CopiesOK(c)
    BY <2>4, <2>5, FS_EmptySet DEF CopiesOK
  <2> QED
    BY <2>2, <2>3, <2>6 DEF ClientOK
<1>5. LifeOK
  BY <1>1 DEF LifeOK
<1> QED
  BY <1>2, <1>3, <1>4, <1>5 DEF ServerInv

\* What is queued in the name of c stays as it is.
QueueKeeps(c) ==
    \A q \in QIds :
        \/ UNCHANGED <<status[q], to[q], origin[q]>>
        \/ origin'[q].client # c /\ (status[q] = "new" \/ origin[q].client # c)

LEMMA QueuedKept ==
    ASSUME NEW c \in Clients, QueueKeeps(c), ServerInv
    PROVE  /\ \A a \in Remotes : Queued(c, a)' = Queued(c, a)
           /\ \A a \in Remotes : \A q \in Queued(c, a) : status'[q] = status[q]
           /\ \A q \in QIds : status[q] = "open" /\ origin[q].client = c =>
                 status'[q] = "open" /\ origin'[q].client = c /\ to'[q] = to[q]
<1>0. \A q \in QIds : status[q] = "new" => to[q] = {}
  BY DEF ServerInv, QueueOK
<1>1. ASSUME NEW a \in Remotes PROVE Queued(c, a)' = Queued(c, a)
  BY <1>0 DEF QueueKeeps, Queued
<1>2. ASSUME NEW a \in Remotes, NEW q \in Queued(c, a) PROVE status'[q] = status[q]
  BY <1>0, <1>2 DEF QueueKeeps, Queued
<1>3. ASSUME NEW q \in QIds, status[q] = "open", origin[q].client = c
      PROVE  status'[q] = "open" /\ origin'[q].client = c /\ to'[q] = to[q]
  BY <1>3 DEF QueueKeeps
<1> QED
  BY <1>1, <1>2, <1>3

LEMMA KeptStays ==
    ASSUME NEW c \in Clients, NEW a \in Addrs, Kept(c, a), ServerTypeOK,
           a \in Locals => stored'[c][a] \in Nat /\ stored'[c][a] >= stored[c][a],
           a \in Remotes => \A q \in Queued(c, a) : status[q] = "accepted" =>
                                q \in Queued(c, a)' /\ status'[q] = "accepted"
    PROVE  Kept(c, a)'
<1>1. CASE a \in Locals /\ stored[c][a] > 0
  <2>1. stored[c][a] \in Nat
    BY <1>1 DEF ServerTypeOK
  <2> QED
    BY <1>1, <2>1 DEF Kept
<1>2. CASE a \in Remotes /\ \E q \in Queued(c, a) : status[q] = "accepted"
  BY <1>2 DEF Kept
<1> QED
  BY <1>1, <1>2 DEF Kept

LEMMA CopiesType ==
    ASSUME ServerInv, NEW c \in Clients, NEW a \in Addrs
    PROVE  Copies(c, a) \in Nat
<1>1. CASE a \in Locals
  BY <1>1 DEF Copies, ServerInv, ServerTypeOK
<1>2. CASE a \notin Locals
  <2>1. IsFiniteSet(Queued(c, a))
    BY <1>2 DEF ServerInv, ClientOK, CopiesOK, Addrs
  <2> QED
    BY <1>2, <2>1, FS_CardinalityType DEF Copies
<1> QED
  BY <1>1, <1>2

LEMMA UnpaidType ==
    ASSUME NEW c \in Clients, NEW a \in Addrs
    PROVE  Unpaid(c, a) \in {-1, 0, 1}
  BY DEF Unpaid

LEMMA Bystander ==
    ASSUME ServerInv, NEW c \in Clients, QueueKeeps(c),
           sess'[c] = sess[c], acked'[c] = acked[c], stored'[c] = stored[c],
           Paid' \in Int, Paid' >= Paid
    PROVE  ClientOK(c)'
<1>0. ClientOK(c) /\ ServerTypeOK /\ Paid \in Int
  BY PaidType DEF ServerInv
<1>1. SessionOK(c)'
  <2>1. sess[c].pc = "enqueue" =>
          /\ status'[sess[c].qid] = "open" /\ to'[sess[c].qid] = sess[c].remote
          /\ origin'[sess[c].qid].client = c
    BY <1>0, QueuedKept DEF ClientOK, SessionOK
  <2> QED
    BY <1>0, <2>1 DEF ClientOK, SessionOK, IsSubmission
<1>2. KeptOK(c)'
  <2>1. \A a \in Addrs : Kept(c, a) => Kept(c, a)'
    <3>1. \A a \in Locals : stored'[c][a] \in Nat /\ stored'[c][a] >= stored[c][a]
      BY <1>0 DEF ServerTypeOK
    <3> QED
      BY <1>0, <3>1, QueuedKept, KeptStays
  <2>2. acked[c] \subseteq Addrs
    BY <1>0 DEF ServerTypeOK
  <2>3. Range(sess[c].rcpts) \subseteq Addrs
    BY <1>0 DEF ServerTypeOK, Sessions, Range
  <2> QED
    BY <1>0, <2>1, <2>2, <2>3 DEF ClientOK, KeptOK
<1>3. CopiesOK(c)'
  <2> SUFFICES ASSUME NEW a \in Addrs
               PROVE  /\ a \in Remotes => IsFiniteSet(Queued(c, a)')
                      /\ Copies(c, a)' <= Paid' + Unpaid(c, a)'
    BY DEF CopiesOK
  <2>1. a \in Remotes => Queued(c, a)' = Queued(c, a)
    BY QueuedKept
  <2>2. Copies(c, a)' = Copies(c, a) /\ Copies(c, a) \in Nat
    BY <2>1, CopiesType DEF Copies, Addrs
  <2>3. Unpaid(c, a)' = Unpaid(c, a)
    BY DEF Unpaid, Pending
  <2>4. Copies(c, a) <= Paid + Unpaid(c, a) /\ Unpaid(c, a) \in Int
    BY <1>0, UnpaidType DEF ClientOK, CopiesOK
  <2>5. Copies(c, a) <= Paid' + Unpaid(c, a)
    BY <1>0, <2>2, <2>4
  <2> QED
    BY <1>0, <2>1, <2>2, <2>3, <2>5 DEF ClientOK, CopiesOK
<1> QED
  BY <1>1, <1>2, <1>3 DEF ClientOK

-----------------------------------------------------------------------------
(* Start, Shutdown, and the relay: steps that no session takes. *)

\* The sessions, and what they have stored and queued, stay as they are.
LEMMA SessionsStand ==
    ASSUME ServerInv, UNCHANGED <<sess, acked, stored, origin, status, to>>,
           ServerTypeOK', Paid' >= Paid, LifeOK'
    PROVE  ServerInv'
<1>1. Paid' \in Int
  BY DEF ServerTypeOK, Paid
<1>2. \A c \in Clients : QueueKeeps(c)
  BY DEF QueueKeeps
<1>3. \A c \in Clients : ClientOK(c)'
  BY <1>1, <1>2, Bystander
<1>4. QueueOK'
  BY DEF ServerInv, QueueOK
<1> QED
  BY <1>3, <1>4 DEF ServerInv

LEMMA StartStep ==
    ASSUME ServerInv, Boot \/ StartRole \/ StartQueue
    PROVE  ServerInv'
<1>1. UNCHANGED <<sess, acked, stored, origin, status, to, failures, shutdowns, expired>>
  BY DEF Boot, StartRole, StartQueue, UnchangedMail, queueVars
<1>2. /\ main \in {"down", "starting"} /\ main' \in {"starting", "serving"}
      /\ main' = "serving" => next' = 1
      /\ next' \in {next, next + 1, 1}
  BY DEF Boot, StartRole, StartQueue
<1>3. ServerTypeOK'
  BY <1>1, <1>2 DEF ServerInv, ServerTypeOK
<1>4. Paid' = Paid /\ Paid \in Int
  BY <1>1, <1>2, PaidType DEF ServerInv, Paid, Stopping
<1>5. LifeOK'
  BY <1>2 DEF LifeOK
<1> QED
  BY <1>1, <1>3, <1>4, <1>5, SessionsStand

LEMMA ShutdownStep ==
    ASSUME ServerInv, BeginShutdown \/ CloseRest \/ QueueStopped
    PROVE  ServerInv'
<1>0. ServerTypeOK /\ LifeOK
  BY DEF ServerInv
<1>1. UNCHANGED <<sess, acked, stored, origin, status, to, failures, expired>>
  BY DEF BeginShutdown, CloseRest, QueueStopped, UnchangedMail, queueVars
<1>2. /\ main' \in {"smtp", "queue", "wait"} /\ next' \in {next, 1}
      /\ \/ main = "serving" /\ shutdowns' = shutdowns + 1
         \/ main \in Stopping /\ shutdowns' = shutdowns
  BY DEF BeginShutdown, CloseRest, QueueStopped, Stopping
<1>3. ServerTypeOK'
  BY <1>0, <1>1, <1>2 DEF ServerTypeOK, Stopping
<1>4. Paid' = Paid /\ Paid \in Int
  BY <1>0, <1>1, <1>2, PaidType DEF Paid, Stopping, ServerTypeOK
<1>5. LifeOK'
  <2>1. CASE BeginShutdown
    <3>1. main' = "smtp" /\ next' = 1
      BY <1>0, <2>1 DEF BeginShutdown, LifeOK
    <3>2. \A i \in 1 .. Len(SmtpRoles) : ~(i < next')
      BY <3>1
    <3> QED
      BY <3>1, <3>2 DEF LifeOK
  <2>2. CASE CloseRest
    <3>1. main = "smtp" /\ next > Len(SmtpRoles) /\ main' = "queue" /\ listening' = {}
      BY <2>2 DEF CloseRest
    <3>2. ASSUME ~expired, NEW c \in Clients PROVE ~Connected(c)
      <4>1. PICK i \in 1 .. Len(SmtpRoles) : RoleOf[c] = SmtpRoles[i]
        BY RolesAssumption DEF Range
      <4>2. i < next
        BY <1>0, <3>1, <4>1, RolesAssumption DEF ServerTypeOK
      <4> QED
        BY <1>0, <3>1, <3>2, <4>1, <4>2 DEF LifeOK
    <3> QED
      BY <1>1, <3>1, <3>2 DEF LifeOK, Connected
  <2>3. CASE QueueStopped
    <3>1. main = "queue" /\ main' = "wait" /\ listening' = listening
      BY <2>3 DEF QueueStopped
    <3> QED
      BY <1>0, <1>1, <3>1 DEF LifeOK, Connected
  <2> QED
    BY <2>1, <2>2, <2>3
<1> QED
  BY <1>1, <1>3, <1>4, <1>5, SessionsStand

LEMMA DrainStep ==
    ASSUME ServerInv, CloseSmtp \/ DrainSmtp
    PROVE  ServerInv'
<1>0. ServerTypeOK /\ LifeOK
  BY DEF ServerInv
<1>1. /\ UNCHANGED <<sess, acked, stored, origin, status, to, failures, shutdowns>>
      /\ main = "smtp" /\ UNCHANGED <<main, expired>> /\ next' \in {next, next + 1}
  BY DEF CloseSmtp, DrainSmtp, UnchangedMail, queueVars, lifeVars
<1>2. ServerTypeOK'
  BY <1>0, <1>1 DEF ServerTypeOK
<1>3. Paid' = Paid /\ Paid \in Int
  BY <1>0, <1>1, PaidType DEF Paid
<1>4. LifeOK'
  <2>1. CASE CloseSmtp
    <3>1. next' = next /\ listening' \subseteq listening
      BY <2>1 DEF CloseSmtp, lifeVars
    <3> QED
      BY <1>0, <1>1, <3>1 DEF LifeOK, Connected
  <2>2. CASE DrainSmtp
    <3>1. /\ next' = next + 1 /\ listening' = listening /\ SmtpRoles[next] \notin listening
          /\ expired \/ \A c \in Clients : RoleOf[c] = SmtpRoles[next] => ~Connected(c)
      BY <2>2 DEF DrainSmtp
    <3>2. \A i \in 1 .. Len(SmtpRoles) : i < next' => i < next \/ i = next
      BY <1>0, <3>1, RolesAssumption DEF ServerTypeOK
    <3> QED
      BY <1>0, <1>1, <3>1, <3>2 DEF LifeOK, Connected
  <2> QED
    BY <2>1, <2>2
<1> QED
  BY <1>1, <1>2, <1>3, <1>4, SessionsStand

LEMMA EnvironmentStep ==
    ASSUME ServerInv,
           \/ Expire \/ RelayEnds \/ RelayFails
           \/ \E q \in QIds : RelayServes(q) \/ RelayDrops(q)
           \/ \E r \in Range(Roles) : LoopEnds(r) \/ AcceptFails(r)
    PROVE  ServerInv'
<1>0. ServerTypeOK /\ LifeOK
  BY DEF ServerInv
<1>1. UNCHANGED <<sess, acked, stored, origin, listening, main, next, shutdowns>>
  BY DEF Expire, RelayEnds, RelayFails, RelayServes, RelayDrops, LoopEnds, AcceptFails, UnchangedMail,
     lifeVars
<1>2. UNCHANGED <<status, to>> /\ (failures' = failures \/ failures' = failures + 1)
  <2>1. CASE RelayFails
    <3>1. /\ status' = [m \in QIds |-> IF m \in {} THEN "refused" ELSE status[m]]
          /\ failures' = failures + 1 /\ to' = to
      BY <2>1 DEF RelayFails, Q!Fail
    <3> QED
      BY <1>0, <3>1 DEF ServerTypeOK
  <2>2. CASE \E q \in QIds : RelayServes(q) \/ RelayDrops(q)
    BY <2>2 DEF RelayServes, Q!Serve, RelayDrops, Q!Drop
  <2>3. CASE Expire \/ RelayEnds \/ \E r \in Range(Roles) : LoopEnds(r) \/ AcceptFails(r)
    BY <2>3 DEF Expire, RelayEnds, LoopEnds, AcceptFails, UnchangedMail, queueVars, Failure
  <2> QED
    BY <2>1, <2>2, <2>3
<1>3. expired' = expired \/ expired' = TRUE
  BY DEF Expire, RelayEnds, RelayFails, RelayServes, RelayDrops, LoopEnds, AcceptFails, lifeVars
<1>4. ServerTypeOK'
  <2>1. expired' \in BOOLEAN
    BY <1>0, <1>3 DEF ServerTypeOK
  <2>2. failures' \in Nat
    BY <1>0, <1>2 DEF ServerTypeOK
  <2> QED
    BY <1>0, <1>1, <1>2, <2>1, <2>2 DEF ServerTypeOK
<1>5. Paid' >= Paid
  <2>1. failures \in Nat /\ shutdowns \in Nat
    BY <1>0 DEF ServerTypeOK
  <2> QED
    BY <1>1, <1>2, <2>1 DEF Paid
<1>6. LifeOK'
  <2>1. \A c \in Clients : Connected(c)' <=> Connected(c)
    BY <1>1 DEF Connected
  <2> QED
    BY <1>0, <1>1, <1>3, <2>1 DEF LifeOK
<1> QED
  BY <1>1, <1>2, <1>4, <1>5, <1>6, SessionsStand

\* The process goes, and somebody has paid for the sessions it cuts off.
LEMMA GoneStep ==
    ASSUME ServerInv, Gone, failures' \in Nat, Paid' >= Paid + 1, to' = to,
           status' = [q \in QIds |-> IF q \in Unfinished THEN "refused" ELSE status[q]]
    PROVE  ServerInv'
<1>0. ServerTypeOK /\ QueueOK
  BY DEF ServerInv
<1>1. /\ UNCHANGED <<acked, stored, origin, shutdowns>> /\ main' = "down" /\ next' = 1
      /\ sess' = [c \in Clients |-> NoSession] /\ expired' = FALSE
  BY DEF Gone
<1>2. \A q \in QIds : /\ \/ status'[q] = status[q]
                         \/ status[q] = "open" /\ status'[q] = "refused"
                      /\ status'[q] \in {"new", "open", "accepted", "refused"}
  BY <1>0 DEF Unfinished, ServerTypeOK
<1>3. ServerTypeOK'
  <2>1. sess' \in [Clients -> Sessions]
    BY <1>1, NoSessionOK
  <2>2. status' \in [QIds -> {"new", "open", "accepted", "refused"}]
    BY <1>2
  <2>3. main' \in {"down", "starting", "serving"} \cup Stopping /\ next' \in Nat
    BY <1>1
  <2>4. expired' \in BOOLEAN
    BY <1>1
  <2> QED
    BY <1>0, <1>1, <2>1, <2>2, <2>3, <2>4 DEF ServerTypeOK
<1>4. QueueOK'
  BY <1>0, <1>1, <1>2 DEF QueueOK
<1>5. LifeOK'
  BY <1>1 DEF LifeOK
<1>6. ASSUME NEW c \in Clients PROVE ClientOK(c)'
  <2>0. ClientOK(c) /\ Paid \in Int /\ Paid' \in Int
    BY <1>0, <1>3, PaidType DEF ServerInv, Paid, ServerTypeOK
  <2>1. /\ sess'[c].pc = "none" /\ sess'[c].rcpts = <<>> /\ sess'[c].todo = <<>>
        /\ sess'[c].remote = {} /\ sess'[c].failed = FALSE
    BY <1>1, NoSessionOK
  <2>2. SessionOK(c)'
    BY <2>1, EmptyRange DEF SessionOK, InData
  <2>3. \A a \in Addrs : Queued(c, a)' = Queued(c, a)
    BY <1>1 DEF Queued
  <2>4. KeptOK(c)'
    <3>1. ASSUME NEW a \in acked[c] PROVE Kept(c, a)'
      <4>1. a \in Addrs /\ Kept(c, a)
        BY <1>0, <2>0 DEF ServerTypeOK, ClientOK, KeptOK
      <4>2. a \in Locals => stored'[c][a] \in Nat /\ stored'[c][a] >= stored[c][a]
        BY <1>0, <1>1 DEF ServerTypeOK
      <4>3. \A q \in Queued(c, a) : status[q] = "accepted" =>
              q \in Queued(c, a)' /\ status'[q] = "accepted"
        BY <1>2, <2>3, <4>1 DEF Queued
      <4> QED
        BY <1>0, <4>1, <4>2, <4>3, KeptStays
    <3> QED
      BY <1>1, <2>1, <3>1 DEF KeptOK, InData
  <2>5. ASSUME NEW a \in Addrs
        PROVE  /\ a \in Remotes => IsFiniteSet(Queued(c, a)')
               /\ Copies(c, a)' <= Paid' + Unpaid(c, a)'
    <3>1. Copies(c, a)' = Copies(c, a) /\ Copies(c, a) \in Nat
      BY <1>1, <2>3, CopiesType DEF Copies
    <3>2. /\ Copies(c, a) <= Paid + Unpaid(c, a)
          /\ a \in Remotes => IsFiniteSet(Queued(c, a))
      BY <2>0 DEF ClientOK, CopiesOK
    <3>3. Unpaid(c, a) \in {-1, 0, 1} /\ Unpaid(c, a)' \in {0, 1}
      BY <2>1, UnpaidType DEF Unpaid, InData
    <3>4. Copies(c, a) <= Paid' + Unpaid(c, a)'
      BY <2>0, <3>1, <3>2, <3>3
    <3> QED
      BY <2>3, <3>1, <3>2, <3>4
  <2> QED
    BY <2>2, <2>4, <2>5 DEF ClientOK, CopiesOK
<1> QED
  BY <1>3, <1>4, <1>5, <1>6 DEF ServerInv

LEMMA EndStep ==
    ASSUME ServerInv, Exit \/ Crash
    PROVE  ServerInv'
<1>0. failures \in Nat /\ shutdowns \in Nat
  BY DEF ServerInv, ServerTypeOK
<1>1. /\ Gone /\ to' = to
      /\ status' = [q \in QIds |-> IF q \in Unfinished THEN "refused" ELSE status[q]]
  BY DEF Exit, Crash, Q!Close, Q!Fail
<1>2. shutdowns' = shutdowns /\ main' = "down"
  BY <1>1 DEF Gone
<1>3. \/ main = "wait" /\ failures' = failures
      \/ failures' = failures + 1
  BY DEF Exit, Crash, Q!Close, Q!Fail
<1>4. failures' \in Nat /\ Paid' >= Paid + 1
  BY <1>0, <1>2, <1>3 DEF Paid, Stopping
<1> QED
  BY <1>1, <1>4, GoneStep

-----------------------------------------------------------------------------
(* A step of one session. *)

LEMMA SessionStep ==
    ASSUME ServerInv, NEW c \in Clients, NEW new \in Sessions,
           sess' = [sess EXCEPT ![c] = new], ClientOK(c)',
           new.pc = "none" \/ Connected(c) \/ RoleOf[c] \in listening,
           \A d \in Clients \ {c} : UNCHANGED <<acked[d], stored[d]>> /\ QueueKeeps(d),
           acked' \in [Clients -> SUBSET Addrs], stored' \in [Clients -> [Locals -> Nat]],
           DOMAIN origin' = QIds, to' \in [QIds -> SUBSET Remotes],
           status' \in [QIds -> {"new", "open", "accepted", "refused"}],
           QueueOK', UNCHANGED <<listening, lifeVars>>,
           failures' = failures \/ failures' = failures + 1
    PROVE  ServerInv'
<1>0. ServerTypeOK /\ LifeOK
  BY DEF ServerInv
<1>1. /\ sess' \in [Clients -> Sessions] /\ sess'[c] = new
      /\ \A d \in Clients \ {c} : sess'[d] = sess[d]
  BY <1>0 DEF ServerTypeOK
<1>2. UNCHANGED <<main, next, expired, shutdowns>>
  BY DEF lifeVars
<1>3. failures' \in Nat /\ failures \in Nat /\ shutdowns \in Nat
  BY <1>0 DEF ServerTypeOK
<1>4. ServerTypeOK'
  BY <1>0, <1>1, <1>2, <1>3 DEF ServerTypeOK
<1>5. Paid' \in Int /\ Paid' >= Paid
  BY <1>2, <1>3 DEF Paid
<1>6. \A d \in Clients \ {c} : ClientOK(d)'
  BY <1>1, <1>5, Bystander
<1>7. \A d \in Clients : Connected(d)' => Connected(d) \/ RoleOf[d] \in listening
  BY <1>1 DEF Connected
<1>8. LifeOK'
  <2>1. ASSUME NEW i \in 1 .. Len(SmtpRoles), main' = "smtp", i < next'
        PROVE  /\ SmtpRoles[i] \notin listening'
               /\ expired' \/ \A d \in Clients : RoleOf[d] = SmtpRoles[i] => ~Connected(d)'
    BY <1>0, <1>2, <1>7, <2>1 DEF LifeOK
  <2>2. ASSUME main' \in {"queue", "wait"}
        PROVE  listening' = {} /\ (expired' \/ \A d \in Clients : ~Connected(d)')
    BY <1>0, <1>2, <1>7, <2>2 DEF LifeOK
  <2> QED
    BY <1>0, <1>2, <2>1, <2>2 DEF LifeOK
<1> QED
  BY <1>4, <1>6, <1>8 DEF ServerInv

\* One that neither stores nor queues anything.
LEMMA QuietStep ==
    ASSUME ServerInv, NEW c \in Clients, NEW new \in Sessions, Session(c, new), ClientOK(c)',
           new.pc = "none" \/ Connected(c) \/ RoleOf[c] \in listening,
           UNCHANGED <<status, to>>, UNCHANGED lifeVars,
           failures' = failures \/ failures' = failures + 1
    PROVE  ServerInv'
<1>1. sess' = [sess EXCEPT ![c] = new] /\ UNCHANGED <<acked, stored, origin, listening>>
  BY DEF Session
<1>2. /\ acked' \in [Clients -> SUBSET Addrs] /\ stored' \in [Clients -> [Locals -> Nat]]
      /\ DOMAIN origin' = QIds /\ to' \in [QIds -> SUBSET Remotes]
      /\ status' \in [QIds -> {"new", "open", "accepted", "refused"}]
  BY <1>1 DEF ServerInv, ServerTypeOK
<1>3. \A d \in Clients \ {c} : UNCHANGED <<acked[d], stored[d]>> /\ QueueKeeps(d)
  BY <1>1 DEF QueueKeeps
<1>4. QueueOK'
  BY <1>1 DEF ServerInv, QueueOK
<1>5. UNCHANGED <<listening, lifeVars>>
  BY <1>1
<1> QED
  BY <1>1, <1>2, <1>3, <1>4, <1>5, SessionStep

\* The same, from what it does to the promises and to the account of copies.
LEMMA QuietClient ==
    ASSUME ServerInv, NEW c \in Clients, NEW new \in Sessions, Session(c, new),
           new.pc = "none" \/ Connected(c) \/ RoleOf[c] \in listening,
           UNCHANGED <<status, to>>, UNCHANGED lifeVars,
           failures' = failures \/ failures' = failures + 1,
           SessionOK(c)',
           new.pc \in InData /\ new.failed = FALSE =>
               \A a \in Range(new.rcpts) :
                   a \in Range(new.todo) \cup new.remote \/ Kept(c, a),
           \A a \in Addrs : Paid + Unpaid(c, a) <= Paid' + Unpaid(c, a)'
    PROVE  ServerInv'
<1>0. ServerTypeOK /\ ClientOK(c)
  BY DEF ServerInv
<1>1. /\ UNCHANGED <<acked, stored, origin>> /\ sess'[c] = new
      /\ Paid \in Int /\ Paid' \in Int
  <2>1. failures \in Nat /\ failures' \in Nat /\ shutdowns \in Nat /\ shutdowns' \in Nat
    BY <1>0 DEF ServerTypeOK, lifeVars
  <2> QED
    BY <1>0, <2>1 DEF Session, ServerTypeOK, Paid
<1>2. \A a \in Addrs : Queued(c, a)' = Queued(c, a) /\ (Kept(c, a) => Kept(c, a)')
  BY <1>1 DEF Queued, Kept
<1>3. KeptOK(c)'
  <2>1. acked[c] \subseteq Addrs /\ Range(new.rcpts) \subseteq Addrs
    BY <1>0 DEF ServerTypeOK, Sessions, Range
  <2> QED
    BY <1>0, <1>1, <1>2, <2>1 DEF KeptOK, ClientOK
<1>4. ASSUME NEW a \in Addrs
      PROVE  /\ a \in Remotes => IsFiniteSet(Queued(c, a)')
             /\ Copies(c, a)' <= Paid' + Unpaid(c, a)'
  <2>1. Copies(c, a)' = Copies(c, a) /\ Copies(c, a) \in Nat
    BY <1>1, <1>2, CopiesType DEF Copies
  <2>2. /\ Copies(c, a) <= Paid + Unpaid(c, a)
        /\ a \in Remotes => IsFiniteSet(Queued(c, a))
    BY <1>0 DEF ClientOK, CopiesOK
  <2>3. Unpaid(c, a) \in {-1, 0, 1} /\ Unpaid(c, a)' \in {-1, 0, 1}
    BY UnpaidType DEF Unpaid
  <2>4. Copies(c, a) <= Paid' + Unpaid(c, a)'
    BY <1>1, <2>1, <2>2, <2>3
  <2> QED
    BY <1>2, <2>1, <2>2, <2>4
<1>5. ClientOK(c)'
  BY <1>3, <1>4 DEF ClientOK, CopiesOK
<1> QED
  BY <1>5, QuietStep

-----------------------------------------------------------------------------
(* The commands. *)

\* A command outside DATA.
LEMMA IdleStep ==
    ASSUME ServerInv, NEW c \in Clients, NEW new \in Sessions, Session(c, new),
           UNCHANGED queueVars, UNCHANGED lifeVars,
           new.pc = "none" \/ Connected(c) \/ RoleOf[c] \in listening,
           sess[c].pc \notin InData, new.pc \notin InData,
           new.todo = <<>>, new.remote = {}, new.failed = FALSE,
           new.pc \in {"none", "ready"} => new.rcpts = <<>>,
           Distinct(new.rcpts), Range(new.rcpts) \cap acked[c] = {},
           Range(new.rcpts) \cap Remotes # {} => IsSubmission(c),
           new.pc = "mail" /\ IsSubmission(c) =>
               new.account # None /\ EqualFold(new.from, AddressOf[new.account])
    PROVE  ServerInv'
<1>0. ServerTypeOK /\ UNCHANGED <<status, to, failures>>
  BY DEF ServerInv, queueVars
<1>1. UNCHANGED <<acked, stored, origin>> /\ sess'[c] = new
  BY <1>0 DEF Session, ServerTypeOK
<1>2. SessionOK(c)'
  BY <1>0, <1>1, EmptyRange DEF SessionOK, InData, IsSubmission
<1>3. Paid' = Paid /\ Paid \in Int
  BY <1>0, PaidType DEF Paid, lifeVars
<1>4. \A a \in Addrs : Unpaid(c, a)' = Unpaid(c, a)
  BY <1>1 DEF Unpaid
<1>5. \A a \in Addrs : Paid + Unpaid(c, a) <= Paid' + Unpaid(c, a)'
  <2>1. \A a \in Addrs : Unpaid(c, a) \in Int
    BY UnpaidType
  <2> QED
    BY <1>3, <1>4, <2>1
<1> QED
  BY <1>0, <1>2, <1>5, QuietClient

LEMMA SessionFacts ==
    ASSUME ServerInv, NEW c \in Clients
    PROVE  /\ SessionOK(c) /\ KeptOK(c) /\ CopiesOK(c)
           /\ sess[c] \in Sessions /\ sess[c].rcpts \in Seq(Addrs)
           /\ sess[c].todo \in Seq(Addrs) /\ sess[c].remote \in SUBSET Remotes
           /\ sess[c].failed = TRUE \/ sess[c].failed = FALSE
           /\ acked[c] \in SUBSET Addrs
<1>1. sess[c] \in Sessions /\ acked[c] \in SUBSET Addrs
  BY DEF ServerInv, ServerTypeOK
<1>2. sess[c].failed \in BOOLEAN
  BY <1>1 DEF Sessions
<1> QED
  BY <1>1, <1>2 DEF ServerInv, ClientOK, Sessions

LEMMA ResetSessionOK ==
    ASSUME NEW s \in Sessions
    PROVE  /\ ResetSession(s) \in Sessions /\ ResetSession(s).pc = "ready"
           /\ ResetSession(s).rcpts = <<>> /\ ResetSession(s).todo = <<>>
           /\ ResetSession(s).remote = {} /\ ResetSession(s).failed = FALSE
<1>1. <<>> \in Seq(Addrs)
  OBVIOUS
<1> QED
  BY <1>1 DEF ResetSession, NoSession, Sessions, SessionPcs

LEMMA CommandStep ==
    ASSUME ServerInv, NEW c \in Clients, UNCHANGED lifeVars,
           \/ Connect(c) \/ Disconnect(c) \/ Reset(c) \/ DataRefused(c)
           \/ \E a \in Accounts : Auth(c, a)
           \/ \E from \in Senders[c] : Mail(c, from)
           \/ \E a \in Envelope[c] : Rcpt(c, a)
    PROVE  ServerInv'
<1>0. /\ SessionOK(c) /\ sess[c] \in Sessions /\ sess[c].rcpts \in Seq(Addrs)
  BY SessionFacts
<1>1. CASE Disconnect(c)
  BY <1>1, NoSessionOK, EmptyRange, IdleStep DEF Disconnect, InData
<1>2. CASE Connect(c)
  <2>1. /\ NewSession \in Sessions /\ NewSession.pc = "ready"
        /\ NewSession.rcpts = <<>> /\ NewSession.todo = <<>>
        /\ NewSession.remote = {} /\ NewSession.failed = FALSE
    BY NoSessionOK DEF NewSession, NoSession, Sessions, SessionPcs
  <2>2. /\ Session(c, NewSession) /\ UNCHANGED queueVars /\ RoleOf[c] \in listening
        /\ sess[c].pc = "none"
    BY <1>2 DEF Connect, Connected
  <2> QED
    BY <2>1, <2>2, EmptyRange, IdleStep DEF InData
<1>3. CASE Reset(c) \/ DataRefused(c)
  <2>1. /\ Session(c, ResetSession(sess[c])) /\ UNCHANGED queueVars /\ sess[c].pc = "mail"
    BY <1>3 DEF Reset, DataRefused, Receiving
  <2>2. PICK new \in Sessions : new = ResetSession(sess[c])
    BY <1>0, ResetSessionOK
  <2>3. /\ new.pc = "ready" /\ new.rcpts = <<>> /\ new.todo = <<>>
        /\ new.remote = {} /\ new.failed = FALSE
    BY <1>0, <2>2, ResetSessionOK
  <2> QED
    BY <2>1, <2>2, <2>3, EmptyRange, IdleStep DEF InData, Connected
<1>4. ASSUME NEW a \in Accounts, Auth(c, a) PROVE ServerInv'
  <2>1. /\ sess[c].pc \in {"ready", "mail"} /\ IsSubmission(c) /\ sess[c].account = None
        /\ Session(c, [sess[c] EXCEPT !.account = a]) /\ UNCHANGED queueVars
    BY <1>4 DEF Auth
  <2>2. sess[c].pc = "ready" /\ sess[c].rcpts = <<>>
    BY <1>0, <2>1 DEF SessionOK
  <2>3. PICK new \in Sessions : new = [sess[c] EXCEPT !.account = a]
    BY <1>0 DEF Sessions
  <2>4. /\ new.pc = "ready" /\ new.rcpts = <<>> /\ new.todo = <<>>
        /\ new.remote = {} /\ new.failed = FALSE
    BY <1>0, <2>2, <2>3 DEF Sessions, SessionOK, InData
  <2> QED
    BY <2>1, <2>2, <2>3, <2>4, EmptyRange, IdleStep DEF InData, Connected
<1>5. ASSUME NEW from \in Senders[c], Mail(c, from) PROVE ServerInv'
  <2>1. /\ sess[c].pc \in {"ready", "mail"} /\ MayUse(c, from) /\ UNCHANGED queueVars
        /\ Session(c, [sess[c] EXCEPT !.pc = "mail", !.from = from, !.rcpts = <<>>])
    BY <1>5 DEF Mail
  <2>2. from \in Addrs \cup {Nobody} /\ <<>> \in Seq(Addrs)
    BY ClientsAssumption DEF Addrs
  <2>3. PICK new \in Sessions :
          new = [sess[c] EXCEPT !.pc = "mail", !.from = from, !.rcpts = <<>>]
    BY <1>0, <2>2 DEF Sessions, SessionPcs
  <2>4. /\ new.pc = "mail" /\ new.rcpts = <<>> /\ new.todo = <<>> /\ new.from = from
        /\ new.remote = {} /\ new.failed = FALSE /\ new.account = sess[c].account
    BY <1>0, <2>1, <2>3 DEF Sessions, SessionOK, InData
  <2> QED
    BY <2>1, <2>3, <2>4, EmptyRange, IdleStep DEF InData, Connected, MayUse
<1>6. ASSUME NEW a \in Envelope[c], Rcpt(c, a) PROVE ServerInv'
  <2>1. /\ sess[c].pc = "mail" /\ a \notin Range(sess[c].rcpts) \cup acked[c]
        /\ RcptAllowed(c, a) /\ UNCHANGED queueVars
        /\ Session(c, [sess[c] EXCEPT !.rcpts = Append(@, a)])
    BY <1>6 DEF Rcpt
  <2>2. a \in Addrs /\ (a \in Remotes => IsSubmission(c))
    BY <2>1, ClientsAssumption DEF RcptAllowed, Addrs
  <2>3. /\ Append(sess[c].rcpts, a) \in Seq(Addrs)
        /\ Range(Append(sess[c].rcpts, a)) = Range(sess[c].rcpts) \cup {a}
        /\ Distinct(Append(sess[c].rcpts, a))
    BY <1>0, <2>1, <2>2, AppendRange DEF SessionOK
  <2>4. PICK new \in Sessions : new = [sess[c] EXCEPT !.rcpts = Append(@, a)]
    BY <1>0, <2>3 DEF Sessions
  <2>5. /\ new.pc = "mail" /\ new.rcpts = Append(sess[c].rcpts, a) /\ new.todo = <<>>
        /\ new.remote = {} /\ new.failed = FALSE
        /\ new.account = sess[c].account /\ new.from = sess[c].from
    BY <1>0, <2>1, <2>4 DEF Sessions, SessionOK, InData
  <2>6. /\ Distinct(new.rcpts) /\ Range(new.rcpts) \cap acked[c] = {}
        /\ Range(new.rcpts) \cap Remotes # {} => IsSubmission(c)
    BY <1>0, <2>1, <2>2, <2>3, <2>5 DEF SessionOK
  <2>7. IsSubmission(c) => new.account # None /\ EqualFold(new.from, AddressOf[new.account])
    BY <1>0, <2>1, <2>5 DEF SessionOK
  <2> QED
    BY <2>1, <2>4, <2>5, <2>6, <2>7, IdleStep DEF InData, Connected
<1> QED
  BY <1>1, <1>2, <1>3, <1>4, <1>5, <1>6

-----------------------------------------------------------------------------
(* DATA. *)

LEMMA PaidStep ==
    ASSUME ServerInv, UNCHANGED lifeVars
    PROVE  /\ Paid \in Int
           /\ failures' = failures => Paid' = Paid
           /\ failures' = failures + 1 => Paid' = Paid + 1
<1>1. failures \in Nat /\ shutdowns \in Nat /\ UNCHANGED <<main, shutdowns>>
  BY DEF ServerInv, ServerTypeOK, lifeVars
<1> QED
  BY <1>1 DEF Paid

\* A failing step pays for one more copy of everything.
LEMMA FailurePays ==
    ASSUME ServerInv, UNCHANGED lifeVars, NEW c \in Clients, NEW a \in Addrs,
           \/ failures' = failures /\ Unpaid(c, a) <= Unpaid(c, a)'
           \/ failures' = failures + 1 /\ Unpaid(c, a) - 1 <= Unpaid(c, a)'
    PROVE  Paid + Unpaid(c, a) <= Paid' + Unpaid(c, a)'
<1>1. Unpaid(c, a) \in {-1, 0, 1} /\ Unpaid(c, a)' \in {-1, 0, 1}
  BY DEF Unpaid
<1> QED
  BY <1>1, PaidStep

LEMMA DataBegins ==
    ASSUME ServerInv, NEW c \in Clients, UNCHANGED lifeVars, Data(c)
    PROVE  ServerInv'
<1>0. /\ SessionOK(c) /\ sess[c] \in Sessions
  BY SessionFacts
<1>1. /\ sess[c].pc = "mail" /\ UNCHANGED <<status, to, failures>>
      /\ Session(c, [sess[c] EXCEPT !.pc = "data", !.todo = sess[c].rcpts])
  BY DEF Data, Receiving, queueVars
<1>2. PICK new \in Sessions :
        new = [sess[c] EXCEPT !.pc = "data", !.todo = sess[c].rcpts]
  BY <1>0 DEF Sessions, SessionPcs, InData
<1>3. /\ new.pc = "data" /\ new.rcpts = sess[c].rcpts /\ new.todo = sess[c].rcpts
      /\ new.remote = {} /\ new.failed = FALSE
      /\ new.account = sess[c].account /\ new.from = sess[c].from
  BY <1>0, <1>1, <1>2 DEF Sessions, SessionOK, InData
<1>4. sess'[c] = new /\ acked' = acked
  BY <1>1, <1>2 DEF Session, ServerInv, ServerTypeOK
<1>5. SessionOK(c)'
  BY <1>0, <1>1, <1>3, <1>4 DEF SessionOK, InData, IsSubmission
<1>6. \A a \in Addrs : Unpaid(c, a)' = Unpaid(c, a)
  BY <1>1, <1>3, <1>4 DEF Unpaid, Pending, InData
<1>7. \A a \in Addrs : Paid + Unpaid(c, a) <= Paid' + Unpaid(c, a)'
  BY <1>1, <1>6, UnpaidType, PaidStep
<1> QED
  BY <1>1, <1>2, <1>3, <1>5, <1>7, QuietClient DEF Connected

\* The loop of Data at its next recipient.
LEMMA VisitFacts ==
    ASSUME ServerInv, NEW c \in Clients, NEW as, Visiting(c, as)
    PROVE  /\ sess[c].pc = "data" /\ Head(sess[c].todo) \in Addrs
           /\ Head(sess[c].todo) \in Range(sess[c].rcpts) \ acked[c]
           /\ Tail(sess[c].todo) \in Seq(Addrs) /\ Distinct(Tail(sess[c].todo))
           /\ Range(sess[c].todo) = {Head(sess[c].todo)} \cup Range(Tail(sess[c].todo))
           /\ Head(sess[c].todo) \notin Range(Tail(sess[c].todo))
<1>1. sess[c].pc = "data" /\ sess[c].todo # <<>>
  BY DEF Visiting
<1>2. SessionOK(c) /\ sess[c].todo \in Seq(Addrs)
  BY SessionFacts
<1>3. /\ Head(sess[c].todo) \in Addrs /\ Tail(sess[c].todo) \in Seq(Addrs)
      /\ Range(sess[c].todo) = {Head(sess[c].todo)} \cup Range(Tail(sess[c].todo))
      /\ Distinct(Tail(sess[c].todo)) /\ Head(sess[c].todo) \notin Range(Tail(sess[c].todo))
  BY <1>1, <1>2, TailRange DEF SessionOK
<1> QED
  BY <1>1, <1>2, <1>3 DEF SessionOK

LEMMA CollectStep ==
    ASSUME ServerInv, NEW c \in Clients, UNCHANGED lifeVars, Collect(c)
    PROVE  ServerInv'
<1>0. /\ SessionOK(c) /\ KeptOK(c) /\ sess[c] \in Sessions
      /\ sess[c].remote \in SUBSET Remotes
  BY SessionFacts
<1>1. /\ Visiting(c, Remotes) /\ UNCHANGED <<status, to, failures>>
      /\ Session(c, [sess[c] EXCEPT !.remote = @ \cup {Head(sess[c].todo)}, !.todo = Tail(@)])
  BY DEF Collect, queueVars
<1>2. PICK h \in Remotes : h = Head(sess[c].todo)
  BY <1>1 DEF Visiting
<1>3. /\ sess[c].pc = "data" /\ h \in Range(sess[c].rcpts)
      /\ Tail(sess[c].todo) \in Seq(Addrs) /\ Distinct(Tail(sess[c].todo))
      /\ Range(sess[c].todo) = {h} \cup Range(Tail(sess[c].todo))
  BY <1>1, <1>2, VisitFacts
<1>4. PICK new \in Sessions :
        new = [sess[c] EXCEPT !.remote = @ \cup {h}, !.todo = Tail(@)]
  BY <1>0, <1>3 DEF Sessions
<1>5. /\ new.pc = "data" /\ new.rcpts = sess[c].rcpts /\ new.todo = Tail(sess[c].todo)
      /\ new.remote = sess[c].remote \cup {h} /\ new.failed = sess[c].failed
      /\ new.account = sess[c].account /\ new.from = sess[c].from
  BY <1>0, <1>3, <1>4 DEF Sessions
<1>6. sess'[c] = new /\ acked' = acked
  BY <1>1, <1>2, <1>4 DEF Session, ServerInv, ServerTypeOK
<1>7. SessionOK(c)'
  BY <1>0, <1>3, <1>5, <1>6 DEF SessionOK, InData, IsSubmission
<1>8. \A a \in Addrs : Unpaid(c, a)' = Unpaid(c, a)
  <2>1. Pending(c)' = Pending(c)
    BY <1>3, <1>5, <1>6 DEF Pending
  <2> QED
    BY <1>3, <1>5, <1>6, <2>1 DEF Unpaid, InData
<1>9. \A a \in Addrs : Paid + Unpaid(c, a) <= Paid' + Unpaid(c, a)'
  BY <1>1, <1>8, UnpaidType, PaidStep
<1>10. new.failed = FALSE =>
         \A a \in Range(new.rcpts) : a \in Range(new.todo) \cup new.remote \/ Kept(c, a)
  BY <1>0, <1>3, <1>5 DEF KeptOK, InData
<1> QED
  BY <1>1, <1>2, <1>3, <1>4, <1>7, <1>9, <1>10, QuietClient DEF Connected

LEMMA StoreErrorStep ==
    ASSUME ServerInv, NEW c \in Clients, UNCHANGED lifeVars, StoreError(c)
    PROVE  ServerInv'
<1>0. SessionOK(c) /\ sess[c] \in Sessions
  BY SessionFacts
<1>1. /\ Visiting(c, Locals) /\ UNCHANGED <<status, to>> /\ failures' = failures + 1
      /\ Session(c, [sess[c] EXCEPT !.todo = Tail(@), !.failed = TRUE])
  BY DEF StoreError, Failure
<1>2. /\ sess[c].pc = "data"
      /\ Tail(sess[c].todo) \in Seq(Addrs) /\ Distinct(Tail(sess[c].todo))
      /\ Range(Tail(sess[c].todo)) \subseteq Range(sess[c].todo)
  BY <1>1, VisitFacts
<1>3. PICK new \in Sessions : new = [sess[c] EXCEPT !.todo = Tail(@), !.failed = TRUE]
  BY <1>0, <1>2 DEF Sessions
<1>4. /\ new.pc = "data" /\ new.rcpts = sess[c].rcpts /\ new.todo = Tail(sess[c].todo)
      /\ new.remote = sess[c].remote /\ new.failed = TRUE
      /\ new.account = sess[c].account /\ new.from = sess[c].from
  BY <1>0, <1>2, <1>3 DEF Sessions
<1>5. sess'[c] = new /\ acked' = acked
  BY <1>1, <1>3 DEF Session, ServerInv, ServerTypeOK
<1>6. SessionOK(c)'
  BY <1>0, <1>2, <1>4, <1>5 DEF SessionOK, InData, IsSubmission
<1>7. ASSUME NEW a \in Addrs PROVE Paid + Unpaid(c, a) <= Paid' + Unpaid(c, a)'
  <2>1. Pending(c)' \subseteq Pending(c)
    BY <1>2, <1>4, <1>5 DEF Pending
  <2>2. Unpaid(c, a) - 1 <= Unpaid(c, a)'
    BY <1>2, <1>4, <1>5, <2>1 DEF Unpaid, InData
  <2> QED
    BY <1>1, <2>2, FailurePays
<1> QED
  BY <1>1, <1>2, <1>3, <1>4, <1>6, <1>7, QuietClient DEF Connected

LEMMA StoreLocalStep ==
    ASSUME ServerInv, NEW c \in Clients, UNCHANGED lifeVars, StoreLocal(c)
    PROVE  ServerInv'
<1>0. /\ SessionOK(c) /\ KeptOK(c) /\ CopiesOK(c) /\ sess[c] \in Sessions
      /\ sess[c].remote \in SUBSET Remotes /\ acked[c] \in SUBSET Addrs /\ ServerTypeOK
      /\ sess[c].rcpts \in Seq(Addrs)
  BY SessionFacts DEF ServerInv
<1>1. /\ Visiting(c, Locals) /\ UNCHANGED <<acked, origin, listening>>
      /\ UNCHANGED <<status, to, failures>>
      /\ stored' = [stored EXCEPT ![c][Head(sess[c].todo)] = @ + 1]
      /\ sess' = [sess EXCEPT ![c].todo = Tail(@)]
  BY DEF StoreLocal, queueVars
<1>2. PICK h \in Locals : h = Head(sess[c].todo)
  BY <1>1 DEF Visiting
<1>3. /\ sess[c].pc = "data" /\ h \in Range(sess[c].rcpts) \ acked[c]
      /\ Tail(sess[c].todo) \in Seq(Addrs) /\ Distinct(Tail(sess[c].todo))
      /\ Range(sess[c].todo) = {h} \cup Range(Tail(sess[c].todo))
      /\ h \notin Range(Tail(sess[c].todo))
  BY <1>1, <1>2, VisitFacts
<1>4. PICK new \in Sessions : new = [sess[c] EXCEPT !.todo = Tail(@)]
  BY <1>0, <1>3 DEF Sessions
<1>5. /\ new.pc = "data" /\ new.rcpts = sess[c].rcpts /\ new.todo = Tail(sess[c].todo)
      /\ new.remote = sess[c].remote /\ new.failed = sess[c].failed
      /\ new.account = sess[c].account /\ new.from = sess[c].from
  BY <1>0, <1>3, <1>4 DEF Sessions
<1>6. sess' = [sess EXCEPT ![c] = new] /\ sess'[c] = new
  BY <1>0, <1>1, <1>4 DEF ServerTypeOK
<1>7. /\ stored' \in [Clients -> [Locals -> Nat]]
      /\ stored'[c][h] = stored[c][h] + 1
      /\ \A a \in Locals \ {h} : stored'[c][a] = stored[c][a]
      /\ \A d \in Clients \ {c} : stored'[d] = stored[d]
  <2>1. stored' = [stored EXCEPT ![c] = [stored[c] EXCEPT ![h] = stored[c][h] + 1]]
    BY <1>0, <1>1, <1>2 DEF ServerTypeOK
  <2>2. [stored[c] EXCEPT ![h] = stored[c][h] + 1] \in [Locals -> Nat]
    BY <1>0 DEF ServerTypeOK
  <2> QED
    BY <1>0, <2>1, <2>2 DEF ServerTypeOK
<1>8. SessionOK(c)'
  BY <1>0, <1>1, <1>3, <1>5, <1>6 DEF SessionOK, InData, IsSubmission
<1>9. \A a \in Addrs : Queued(c, a)' = Queued(c, a)
  BY <1>1 DEF Queued
<1>10. KeptOK(c)'
  <2>1. ASSUME NEW a \in Addrs, Kept(c, a) PROVE Kept(c, a)'
    <3>1. a \in Locals => stored'[c][a] \in Nat /\ stored'[c][a] >= stored[c][a]
      <4>1. ASSUME a \in Locals PROVE stored[c][a] \in Nat
        BY <1>0, <4>1 DEF ServerTypeOK
      <4>2. a \in Locals => stored'[c][a] \in {stored[c][a], stored[c][a] + 1}
        BY <1>7
      <4> QED
        BY <4>1, <4>2
    <3> QED
      BY <1>0, <1>1, <1>9, <2>1, <3>1, KeptStays
  <2>2. Kept(c, h)'
    <3>1. stored'[c][h] > 0
      BY <1>0, <1>7 DEF ServerTypeOK
    <3> QED
      BY <3>1 DEF Kept
  <2>3. Range(sess[c].rcpts) \subseteq Addrs
    BY <1>0 DEF Range
  <2>4. ASSUME sess'[c].failed = FALSE, NEW a \in Range(sess'[c].rcpts)
        PROVE  a \in Range(sess'[c].todo) \cup sess'[c].remote \/ Kept(c, a)'
    <3>1. a \in Range(sess[c].todo) \cup sess[c].remote \/ Kept(c, a)
      BY <1>0, <1>3, <1>5, <1>6, <2>4 DEF KeptOK, InData
    <3> QED
      BY <1>3, <1>5, <1>6, <2>1, <2>2, <2>3, <2>4, <3>1
  <2>5. ASSUME NEW a \in acked'[c] PROVE Kept(c, a)'
    BY <1>0, <1>1, <2>1, <2>5 DEF KeptOK
  <2> QED
    BY <2>4, <2>5 DEF KeptOK
<1>11. CopiesOK(c)'
  <2> SUFFICES ASSUME NEW a \in Addrs
               PROVE  /\ a \in Remotes => IsFiniteSet(Queued(c, a)')
                      /\ Copies(c, a)' <= Paid' + Unpaid(c, a)'
    BY DEF CopiesOK
  <2>1. /\ Copies(c, a) \in Nat /\ Copies(c, a) <= Paid + Unpaid(c, a)
        /\ a \in Remotes => IsFiniteSet(Queued(c, a))
    BY <1>0, CopiesType DEF CopiesOK
  <2>2. Paid' = Paid /\ Paid \in Int
    BY <1>1, PaidStep
  <2>3. CASE a = h
    <3>1. h \notin sess[c].remote
      BY <1>0, ClientsAssumption
    <3>2. Unpaid(c, a)' = Unpaid(c, a) + 1
      BY <1>1, <1>3, <1>5, <1>6, <2>3, <3>1 DEF Unpaid, Pending, InData
    <3>3. Copies(c, a)' = Copies(c, a) + 1
      BY <1>7, <2>3 DEF Copies
    <3>4. Unpaid(c, a) \in {-1, 0, 1}
      BY UnpaidType
    <3> QED
      BY <1>9, <2>1, <2>2, <3>2, <3>3, <3>4
  <2>4. CASE a # h
    <3>1. Unpaid(c, a)' = Unpaid(c, a)
      BY <1>1, <1>3, <1>5, <1>6, <2>4 DEF Unpaid, Pending, InData
    <3>2. Copies(c, a)' = Copies(c, a)
      BY <1>7, <1>9, <2>4 DEF Copies
    <3> QED
      BY <1>9, <2>1, <2>2, <3>1, <3>2
  <2> QED
    BY <2>3, <2>4
<1>12. ClientOK(c)' /\ Connected(c)
  BY <1>3, <1>8, <1>10, <1>11 DEF ClientOK, Connected
<1>13. /\ acked' \in [Clients -> SUBSET Addrs] /\ DOMAIN origin' = QIds
       /\ to' \in [QIds -> SUBSET Remotes]
       /\ status' \in [QIds -> {"new", "open", "accepted", "refused"}]
  BY <1>0, <1>1 DEF ServerTypeOK
<1>14. \A d \in Clients \ {c} : UNCHANGED <<acked[d], stored[d]>> /\ QueueKeeps(d)
  BY <1>1, <1>7 DEF QueueKeeps
<1>15. QueueOK' /\ UNCHANGED <<listening, lifeVars>>
  BY <1>1 DEF ServerInv, QueueOK
<1> QED
  BY <1>1, <1>6, <1>7, <1>12, <1>13, <1>14, <1>15, SessionStep

\* The reply is lost with the connection.
LEMMA ReplyLostStep ==
    ASSUME ServerInv, NEW c \in Clients, UNCHANGED lifeVars, ReplyLost(c)
    PROVE  ServerInv'
<1>1. /\ sess[c].pc = "data" /\ UNCHANGED <<status, to>> /\ failures' = failures + 1
      /\ Session(c, NoSession)
  BY DEF ReplyLost, Replying, Failure
<1>2. sess'[c] = NoSession /\ acked' = acked
  BY <1>1 DEF Session, ServerInv, ServerTypeOK
<1>3. SessionOK(c)'
  BY <1>2, NoSessionOK, EmptyRange DEF SessionOK, InData
<1>4. ASSUME NEW a \in Addrs PROVE Paid + Unpaid(c, a) <= Paid' + Unpaid(c, a)'
  <2>1. Unpaid(c, a) - 1 <= Unpaid(c, a)'
    BY <1>2, NoSessionOK DEF Unpaid, InData
  <2> QED
    BY <1>1, <2>1, FailurePays
<1> QED
  BY <1>1, <1>3, <1>4, NoSessionOK, QuietClient DEF InData

LEMMA ReplyStep ==
    ASSUME ServerInv, NEW c \in Clients, UNCHANGED lifeVars, Reply(c)
    PROVE  ServerInv'
<1>0. /\ SessionOK(c) /\ KeptOK(c) /\ CopiesOK(c) /\ sess[c] \in Sessions
      /\ sess[c].failed = TRUE \/ sess[c].failed = FALSE
      /\ acked[c] \in SUBSET Addrs /\ sess[c].rcpts \in Seq(Addrs) /\ ServerTypeOK
  BY SessionFacts DEF ServerInv
<1>1. /\ sess[c].pc = "data" /\ sess[c].todo = <<>> /\ sess[c].remote = {}
      /\ sess' = [sess EXCEPT ![c] = ResetSession(sess[c])]
      /\ UNCHANGED <<stored, origin, listening>> /\ UNCHANGED <<status, to, failures>>
  BY DEF Reply, Replying, queueVars
<1>2. PICK new \in Sessions : new = ResetSession(sess[c])
  BY <1>0, ResetSessionOK
<1>3. /\ new.pc = "ready" /\ new.rcpts = <<>> /\ new.todo = <<>>
      /\ new.remote = {} /\ new.failed = FALSE
  BY <1>0, <1>2, ResetSessionOK
<1>4. sess'[c] = new /\ Connected(c) /\ Pending(c) = {}
  BY <1>0, <1>1, <1>2, EmptyRange DEF ServerTypeOK, Connected, Pending
<1>5. SessionOK(c)'
  BY <1>3, <1>4, EmptyRange DEF SessionOK, InData
<1>6. CASE sess[c].failed = TRUE
  <2>1. acked' = acked
    BY <1>6 DEF Reply
  <2>2. Session(c, new)
    BY <1>1, <1>2, <2>1 DEF Session
  <2>3. ASSUME NEW a \in Addrs PROVE Unpaid(c, a)' = Unpaid(c, a)
    BY <1>1, <1>3, <1>4, <1>6, <2>1 DEF Unpaid, InData
  <2>4. \A a \in Addrs : Paid + Unpaid(c, a) <= Paid' + Unpaid(c, a)'
    BY <1>1, <2>3, UnpaidType, PaidStep
  <2> QED
    BY <1>1, <1>3, <1>4, <1>5, <2>2, <2>4, QuietClient DEF InData
<1>7. CASE sess[c].failed = FALSE
  <2>1. acked' = [acked EXCEPT ![c] = @ \cup Range(sess[c].rcpts)]
    BY <1>7 DEF Reply
  <2>2. Range(sess[c].rcpts) \subseteq Addrs
    BY <1>0 DEF Range
  <2>3. /\ acked' \in [Clients -> SUBSET Addrs]
        /\ acked'[c] = acked[c] \cup Range(sess[c].rcpts)
        /\ \A d \in Clients \ {c} : acked'[d] = acked[d]
    BY <1>0, <2>1, <2>2 DEF ServerTypeOK
  <2>4. \A a \in Addrs : Queued(c, a)' = Queued(c, a) /\ (Kept(c, a) => Kept(c, a)')
    BY <1>1 DEF Queued, Kept
  <2>5. KeptOK(c)'
    <3>1. ASSUME NEW a \in acked'[c] PROVE Kept(c, a)'
      <4>1. CASE a \in acked[c]
        BY <1>0, <2>4, <4>1 DEF KeptOK
      <4>2. CASE a \in Range(sess[c].rcpts)
        <5>1. Kept(c, a)
          BY <1>0, <1>1, <1>7, <4>2, EmptyRange DEF KeptOK, InData
        <5> QED
          BY <2>2, <2>4, <4>2, <5>1
      <4> QED
        BY <2>3, <3>1, <4>1, <4>2
    <3> QED
      BY <1>3, <1>4, <3>1 DEF KeptOK, InData
  <2>6. CopiesOK(c)'
    <3> SUFFICES ASSUME NEW a \in Addrs
                 PROVE  /\ a \in Remotes => IsFiniteSet(Queued(c, a)')
                        /\ Copies(c, a)' <= Paid' + Unpaid(c, a)'
      BY DEF CopiesOK
    <3>1. /\ Copies(c, a) <= Paid + Unpaid(c, a)
          /\ a \in Remotes => IsFiniteSet(Queued(c, a))
      BY <1>0 DEF CopiesOK
    <3>2. Copies(c, a)' = Copies(c, a)
      BY <1>1, <2>4 DEF Copies
    <3>3. Unpaid(c, a)' = Unpaid(c, a)
      BY <1>1, <1>3, <1>4, <1>7, <2>3 DEF Unpaid, InData
    <3>4. Paid' = Paid
      BY <1>1, PaidStep
    <3> QED
      BY <2>4, <3>1, <3>2, <3>3, <3>4
  <2>7. ClientOK(c)'
    BY <1>5, <2>5, <2>6 DEF ClientOK
  <2>8. /\ stored' \in [Clients -> [Locals -> Nat]] /\ DOMAIN origin' = QIds
        /\ to' \in [QIds -> SUBSET Remotes]
        /\ status' \in [QIds -> {"new", "open", "accepted", "refused"}]
    BY <1>0, <1>1 DEF ServerTypeOK
  <2>9. \A d \in Clients \ {c} : UNCHANGED <<acked[d], stored[d]>> /\ QueueKeeps(d)
    BY <1>1, <2>3 DEF QueueKeeps
  <2>10. QueueOK' /\ UNCHANGED <<listening, lifeVars>>
    BY <1>1 DEF ServerInv, QueueOK
  <2> QED
    BY <1>1, <1>2, <1>4, <2>3, <2>7, <2>8, <2>9, <2>10, SessionStep
<1> QED
  BY <1>0, <1>6, <1>7

-----------------------------------------------------------------------------
(* enqueue. *)

LEMMA EnqueueStartStep ==
    ASSUME ServerInv, NEW c \in Clients, UNCHANGED lifeVars, NEW q \in QIds, EnqueueStart(c, q)
    PROVE  ServerInv'
<1>0. /\ SessionOK(c) /\ KeptOK(c) /\ CopiesOK(c) /\ sess[c] \in Sessions
      /\ sess[c].remote \in SUBSET Remotes /\ acked[c] \in SUBSET Addrs /\ ServerTypeOK
      /\ sess[c].rcpts \in Seq(Addrs) /\ QueueOK
  BY SessionFacts DEF ServerInv
<1>1. /\ sess[c].pc = "data" /\ sess[c].todo = <<>> /\ sess[c].remote # {}
      /\ status[q] = "new" /\ to'[q] = sess[c].remote /\ Q!Submit(q)
      /\ sess' = [sess EXCEPT ![c].pc = "enqueue", ![c].qid = q]
      /\ origin' = [origin EXCEPT ![q] =
             [client |-> c, account |-> sess[c].account, from |-> sess[c].from]]
      /\ UNCHANGED <<acked, stored, listening>>
  BY DEF EnqueueStart
<1>2. /\ status' = [status EXCEPT ![q] = "open"] /\ UNCHANGED failures
      /\ \E rs \in (SUBSET Remotes) \ {{}} : to' = [to EXCEPT ![q] = rs]
  BY <1>1 DEF Q!Submit
<1>3. to' = [to EXCEPT ![q] = sess[c].remote]
  BY <1>0, <1>1, <1>2 DEF ServerTypeOK
<1>4. /\ DOMAIN origin' = QIds /\ to' \in [QIds -> SUBSET Remotes]
      /\ status' \in [QIds -> {"new", "open", "accepted", "refused"}]
      /\ acked' \in [Clients -> SUBSET Addrs] /\ stored' \in [Clients -> [Locals -> Nat]]
  BY <1>0, <1>1, <1>2, <1>3 DEF ServerTypeOK
<1>5. /\ status'[q] = "open" /\ to'[q] = sess[c].remote /\ origin'[q].client = c
      /\ origin'[q].account = sess[c].account /\ origin'[q].from = sess[c].from
      /\ \A p \in QIds \ {q} : UNCHANGED <<status[p], to[p], origin[p]>>
  BY <1>0, <1>1, <1>2, <1>3 DEF ServerTypeOK
<1>6. /\ IsSubmission(c) /\ sess[c].account # None
      /\ EqualFold(sess[c].from, AddressOf[sess[c].account])
  BY <1>0, <1>1 DEF SessionOK, InData
<1>7. QueueOK'
  BY <1>0, <1>5, <1>6 DEF QueueOK, IsSubmission
<1>8. \A d \in Clients \ {c} : UNCHANGED <<acked[d], stored[d]>> /\ QueueKeeps(d)
  BY <1>1, <1>5 DEF QueueKeeps
<1>9. PICK new \in Sessions : new = [sess[c] EXCEPT !.pc = "enqueue", !.qid = q]
  BY <1>0 DEF Sessions, SessionPcs, InData
<1>10. /\ new.pc = "enqueue" /\ new.rcpts = sess[c].rcpts /\ new.todo = <<>>
       /\ new.remote = sess[c].remote /\ new.failed = sess[c].failed /\ new.qid = q
       /\ new.account = sess[c].account /\ new.from = sess[c].from
  BY <1>0, <1>1, <1>9 DEF Sessions
<1>11. sess' = [sess EXCEPT ![c] = new] /\ sess'[c] = new
  BY <1>0, <1>1, <1>9 DEF ServerTypeOK
<1>12. SessionOK(c)'
  <2>1. /\ sess'[c].pc = "enqueue" /\ sess'[c].rcpts = sess[c].rcpts /\ sess'[c].todo = <<>>
        /\ sess'[c].remote = sess[c].remote /\ sess'[c].qid = q
        /\ sess'[c].account = sess[c].account /\ sess'[c].from = sess[c].from
    BY <1>10, <1>11
  <2> QED
    BY <1>0, <1>1, <1>5, <2>1, EmptyRange DEF SessionOK, InData, IsSubmission
<1>13. ASSUME NEW a \in Addrs
       PROVE  /\ q \notin Queued(c, a)
              /\ a \in sess[c].remote => Queued(c, a)' = Queued(c, a) \cup {q}
              /\ a \notin sess[c].remote => Queued(c, a)' = Queued(c, a)
              /\ \A p \in Queued(c, a) : p \in Queued(c, a)' /\ status'[p] = status[p]
  <2>1. to[q] = {}
    BY <1>0, <1>1 DEF QueueOK
  <2> QED
    BY <1>5, <2>1 DEF Queued
<1>14. KeptOK(c)'
  <2>1. ASSUME NEW a \in Addrs, Kept(c, a) PROVE Kept(c, a)'
    BY <1>1, <1>13, <2>1 DEF Kept
  <2>2. Range(sess[c].rcpts) \subseteq Addrs
    BY <1>0 DEF Range
  <2> QED
    BY <1>0, <1>1, <1>10, <1>11, <2>1, <2>2 DEF KeptOK, InData
<1>15. CopiesOK(c)'
  <2> SUFFICES ASSUME NEW a \in Addrs
               PROVE  /\ a \in Remotes => IsFiniteSet(Queued(c, a)')
                      /\ Copies(c, a)' <= Paid' + Unpaid(c, a)'
    BY DEF CopiesOK
  <2>1. /\ Copies(c, a) \in Nat /\ Copies(c, a) <= Paid + Unpaid(c, a)
        /\ a \in Remotes => IsFiniteSet(Queued(c, a))
    BY <1>0, CopiesType DEF CopiesOK
  <2>2. Paid' = Paid /\ Paid \in Int /\ Unpaid(c, a) \in {-1, 0, 1}
    BY <1>2, PaidStep, UnpaidType
  <2>3. CASE a \in sess[c].remote
    <3>1. a \in Remotes /\ a \notin Locals /\ a \in Range(sess[c].rcpts) /\ a \notin acked[c]
      BY <1>0, <2>3, ClientsAssumption DEF SessionOK
    <3>2. Unpaid(c, a)' = Unpaid(c, a) + 1
      <4>1. a \in Pending(c) /\ a \notin Pending(c)'
        BY <1>1, <1>10, <1>11, <2>3, EmptyRange DEF Pending
      <4> QED
        BY <1>1, <1>10, <1>11, <3>1, <4>1 DEF Unpaid, InData
    <3>3. /\ IsFiniteSet(Queued(c, a) \cup {q})
          /\ Cardinality(Queued(c, a) \cup {q}) = Cardinality(Queued(c, a)) + 1
      BY <1>13, <2>1, <3>1, FS_AddElement
    <3>4. Copies(c, a)' = Copies(c, a) + 1
      BY <1>13, <2>3, <3>1, <3>3 DEF Copies
    <3>5. IsFiniteSet(Queued(c, a)')
      BY <1>13, <2>3, <3>3
    <3>6. Copies(c, a)' <= Paid' + Unpaid(c, a)'
      BY <2>1, <2>2, <3>2, <3>4
    <3> QED
      BY <3>5, <3>6
  <2>4. CASE a \notin sess[c].remote
    <3>1. Unpaid(c, a)' = Unpaid(c, a)
      <4>1. a \notin Pending(c) /\ a \notin Pending(c)'
        BY <1>1, <1>10, <1>11, <2>4, EmptyRange DEF Pending
      <4> QED
        BY <1>1, <1>10, <1>11, <4>1 DEF Unpaid, InData
    <3>2. Copies(c, a)' = Copies(c, a)
      BY <1>1, <1>13, <2>4 DEF Copies
    <3> QED
      BY <1>13, <2>1, <2>2, <2>4, <3>1, <3>2
  <2> QED
    BY <2>3, <2>4
<1>16. ClientOK(c)' /\ Connected(c) /\ UNCHANGED <<listening, lifeVars>>
  BY <1>1, <1>12, <1>14, <1>15 DEF ClientOK, Connected
<1> QED
  BY <1>2, <1>4, <1>7, <1>8, <1>11, <1>16, SessionStep

\* enqueue returns: the message is accepted, or refused and the call has
\* failed.
LEMMA EnqueueEndStep ==
    ASSUME ServerInv, NEW c \in Clients, UNCHANGED lifeVars,
           EnqueueDone(c) \/ EnqueueError(c)
    PROVE  ServerInv'
<1>0. /\ SessionOK(c) /\ KeptOK(c) /\ CopiesOK(c) /\ sess[c] \in Sessions
      /\ sess[c].remote \in SUBSET Remotes /\ acked[c] \in SUBSET Addrs /\ ServerTypeOK
      /\ sess[c].rcpts \in Seq(Addrs) /\ QueueOK
  BY SessionFacts DEF ServerInv
<1>1. sess[c].pc = "enqueue" /\ UNCHANGED <<acked, stored, origin, listening>>
  BY DEF EnqueueDone, EnqueueError, Session
<1>2. PICK q \in QIds : q = sess[c].qid
  BY <1>0, <1>1 DEF SessionOK
<1>3. /\ status[q] = "open" /\ origin[q].client = c /\ to[q] = sess[c].remote
      /\ sess[c].todo = <<>>
  BY <1>0, <1>1, <1>2 DEF SessionOK
<1>4. \E x \in {"accepted", "refused"}, f \in BOOLEAN :
        /\ to' = to /\ status' = [status EXCEPT ![q] = x]
        /\ sess' = [sess EXCEPT ![c] = [sess[c] EXCEPT !.pc = "data", !.remote = {},
                                                       !.qid = None, !.failed = f]]
        /\ \/ x = "accepted" /\ f = sess[c].failed /\ failures' = failures
           \/ x = "refused" /\ f = TRUE /\ failures' = failures + 1
  <2>1. CASE EnqueueDone(c)
    <3>1. /\ to' = to /\ status' = [status EXCEPT ![q] = "accepted"] /\ failures' = failures
          /\ sess' = [sess EXCEPT ![c] =
                 [sess[c] EXCEPT !.pc = "data", !.remote = {}, !.qid = None]]
      BY <1>2, <2>1 DEF EnqueueDone, Q!Accept, Session
    <3>2. PICK f \in BOOLEAN : f = sess[c].failed
      BY <1>0 DEF Sessions
    <3>3. [sess[c] EXCEPT !.pc = "data", !.remote = {}, !.qid = None] =
            [sess[c] EXCEPT !.pc = "data", !.remote = {}, !.qid = None, !.failed = f]
      BY <1>0, <3>2 DEF Sessions
    <3> QED
      BY <3>1, <3>2, <3>3
  <2>2. CASE EnqueueError(c)
    <3>1. /\ to' = to /\ failures' = failures + 1
          /\ status' = [m \in QIds |-> IF m \in {q} THEN "refused" ELSE status[m]]
          /\ sess' = [sess EXCEPT ![c] =
                 [sess[c] EXCEPT !.pc = "data", !.remote = {}, !.qid = None, !.failed = TRUE]]
      BY <1>2, <2>2 DEF EnqueueError, Q!Fail, Session
    <3>2. status' = [status EXCEPT ![q] = "refused"]
      BY <1>0, <3>1 DEF ServerTypeOK
    <3> QED
      BY <3>1, <3>2
  <2> QED
    BY <2>1, <2>2
<1>5. PICK x \in {"accepted", "refused"}, f \in BOOLEAN :
        /\ to' = to /\ status' = [status EXCEPT ![q] = x]
        /\ sess' = [sess EXCEPT ![c] = [sess[c] EXCEPT !.pc = "data", !.remote = {},
                                                       !.qid = None, !.failed = f]]
        /\ \/ x = "accepted" /\ f = sess[c].failed /\ failures' = failures
           \/ x = "refused" /\ f = TRUE /\ failures' = failures + 1
  BY <1>4
<1>6. PICK new \in Sessions :
        new = [sess[c] EXCEPT !.pc = "data", !.remote = {}, !.qid = None, !.failed = f]
  BY <1>0 DEF Sessions, SessionPcs, InData
<1>7. /\ new.pc = "data" /\ new.rcpts = sess[c].rcpts /\ new.todo = <<>>
      /\ new.remote = {} /\ new.failed = f
      /\ new.account = sess[c].account /\ new.from = sess[c].from
  BY <1>0, <1>3, <1>6 DEF Sessions
<1>8. sess' = [sess EXCEPT ![c] = new] /\ sess'[c] = new
  BY <1>0, <1>5, <1>6 DEF ServerTypeOK
<1>9. /\ status' \in [QIds -> {"new", "open", "accepted", "refused"}]
      /\ status'[q] = x /\ \A p \in QIds \ {q} : status'[p] = status[p]
  BY <1>0, <1>5 DEF ServerTypeOK
<1>10. SessionOK(c)'
  BY <1>0, <1>1, <1>7, <1>8, EmptyRange DEF SessionOK, InData, IsSubmission
<1>11. \A a \in Addrs : Queued(c, a)' = Queued(c, a)
  BY <1>1, <1>5 DEF Queued
<1>12. KeptOK(c)'
  <2>1. ASSUME NEW a \in Addrs, Kept(c, a) PROVE Kept(c, a)'
    <3>1. \A p \in Queued(c, a) : status[p] = "accepted" => status'[p] = "accepted"
      BY <1>3, <1>9 DEF Queued
    <3> QED
      BY <1>1, <1>11, <2>1, <3>1 DEF Kept
  <2>2. Range(sess[c].rcpts) \subseteq Addrs
    BY <1>0 DEF Range
  <2>3. ASSUME f = FALSE, NEW a \in Range(sess[c].rcpts) PROVE Kept(c, a)'
    <3>1. x = "accepted" /\ sess[c].failed = FALSE
      BY <1>5, <2>3
    <3>2. CASE a \in sess[c].remote
      <4>1. q \in Queued(c, a)'
        BY <1>3, <1>11, <2>2, <2>3, <3>2 DEF Queued
      <4> QED
        BY <1>0, <1>9, <3>1, <3>2, <4>1 DEF Kept
    <3>3. CASE a \notin sess[c].remote
      <4>1. Kept(c, a)
        BY <1>0, <1>1, <1>3, <2>3, <3>1, <3>3, EmptyRange DEF KeptOK, InData
      <4> QED
        BY <2>1, <2>2, <2>3, <4>1
    <3> QED
      BY <3>2, <3>3
  <2>4. \A a \in acked'[c] : Kept(c, a)'
    BY <1>0, <1>1, <2>1 DEF KeptOK
  <2> QED
    BY <1>7, <1>8, <2>3, <2>4 DEF KeptOK
<1>13. CopiesOK(c)'
  <2> SUFFICES ASSUME NEW a \in Addrs
               PROVE  /\ a \in Remotes => IsFiniteSet(Queued(c, a)')
                      /\ Copies(c, a)' <= Paid' + Unpaid(c, a)'
    BY DEF CopiesOK
  <2>1. /\ Copies(c, a) \in Nat /\ Copies(c, a) <= Paid + Unpaid(c, a)
        /\ a \in Remotes => IsFiniteSet(Queued(c, a))
    BY <1>0, CopiesType DEF CopiesOK
  <2>2. Copies(c, a)' = Copies(c, a)
    BY <1>1, <1>11 DEF Copies
  <2>3. Pending(c) = {} /\ Pending(c)' = {}
    BY <1>1, <1>3, <1>7, <1>8, EmptyRange DEF Pending
  <2>4. \/ failures' = failures /\ Unpaid(c, a) <= Unpaid(c, a)'
        \/ failures' = failures + 1 /\ Unpaid(c, a) - 1 <= Unpaid(c, a)'
    <3>1. CASE f = sess[c].failed /\ failures' = failures
      <4>1. Unpaid(c, a)' = Unpaid(c, a) /\ Unpaid(c, a) \in {-1, 0, 1}
        BY <1>1, <1>7, <1>8, <2>3, <3>1, UnpaidType DEF Unpaid, InData
      <4> QED
        BY <3>1, <4>1
    <3>2. CASE failures' = failures + 1
      <4>1. Unpaid(c, a) - 1 <= Unpaid(c, a)'
        BY <1>1, <1>7, <1>8, <2>3 DEF Unpaid, InData
      <4> QED
        BY <3>2, <4>1
    <3> QED
      BY <1>5, <3>1, <3>2
  <2>5. Paid + Unpaid(c, a) <= Paid' + Unpaid(c, a)'
    BY <2>4, FailurePays
  <2>6. /\ Paid \in Int /\ Paid' \in Int /\ Unpaid(c, a) \in {-1, 0, 1}
        /\ Unpaid(c, a)' \in {-1, 0, 1}
    BY <1>5, PaidStep, UnpaidType DEF Unpaid
  <2>7. Copies(c, a) <= Paid' + Unpaid(c, a)'
    BY <2>1, <2>5, <2>6
  <2> QED
    BY <1>11, <2>1, <2>2, <2>7
<1>14. ClientOK(c)' /\ Connected(c) /\ UNCHANGED <<listening, lifeVars>>
  BY <1>1, <1>10, <1>12, <1>13 DEF ClientOK, Connected
<1>15. /\ acked' \in [Clients -> SUBSET Addrs] /\ stored' \in [Clients -> [Locals -> Nat]]
       /\ DOMAIN origin' = QIds /\ to' \in [QIds -> SUBSET Remotes]
  BY <1>0, <1>1, <1>5 DEF ServerTypeOK
<1>16. \A d \in Clients \ {c} : UNCHANGED <<acked[d], stored[d]>> /\ QueueKeeps(d)
  BY <1>1, <1>3, <1>5, <1>9 DEF QueueKeeps
<1>17. QueueOK'
  BY <1>0, <1>1, <1>3, <1>5, <1>9 DEF QueueOK
<1>18. failures' = failures \/ failures' = failures + 1
  BY <1>5
<1> QED
  BY <1>8, <1>9, <1>14, <1>15, <1>16, <1>17, <1>18, SessionStep

-----------------------------------------------------------------------------
(* The theorems. *)

LEMMA ServerNextInv ==
    ASSUME ServerInv, [Next]_vars
    PROVE  ServerInv'
<1>1. ASSUME NEW c \in Clients, Smtp(c) PROVE ServerInv'
  <2>1. (Command(c) \/ DataStep(c)) /\ UNCHANGED lifeVars
    BY <1>1 DEF Smtp
  <2>2. CASE Command(c)
    BY <2>1, <2>2, CommandStep, DataBegins DEF Command
  <2>3. CASE DataStep(c)
    BY <2>1, <2>3, CollectStep, StoreLocalStep, StoreErrorStep, EnqueueStartStep,
       EnqueueEndStep, ReplyStep, ReplyLostStep DEF DataStep
  <2> QED
    BY <2>1, <2>2, <2>3
<1>2. CASE Main
  BY <1>2, StartStep, DrainStep, ShutdownStep, EndStep DEF Main
<1>3. CASE UNCHANGED vars
  <2>1. UNCHANGED <<sess, acked, stored, origin, status, to>> /\ LifeOK' /\ ServerTypeOK'
    BY <1>3 DEF vars, smtpVars, queueVars, lifeVars, ServerInv, LifeOK, Connected,
       ServerTypeOK
  <2>2. Paid' = Paid /\ Paid \in Int
    BY <1>3, PaidType DEF vars, smtpVars, queueVars, lifeVars, Paid, ServerInv
  <2> QED
    BY <2>1, <2>2, SessionsStand
<1> QED
  BY <1>1, <1>2, <1>3, ShutdownStep, EnvironmentStep, EndStep DEF Next

LEMMA ServerInvariance == Spec => []ServerInv
  BY ServerInitInv, ServerNextInv, PTL DEF Spec

\* A 250 is kept: the local recipients of the transaction have the message,
\* the remote ones are in the queue's care, whatever fails or restarts.
THEOREM AcksAreKept == Spec => []AckedIsKept
<1>1. ServerInv => AckedIsKept
  BY DEF ServerInv, ClientOK, KeptOK, Kept, AckedIsKept
<1> QED
  BY <1>1, ServerInvariance, PTL

\* No sequence of commands makes the server an open relay: what it queues for
\* another domain comes from a logged-in account, under an address that is its
\* own up to case.
THEOREM NothingForgedIsRelayed == Spec => []NoForgedRelay
<1>1. ServerInv => NoForgedRelay
  BY DEF ServerInv, QueueOK, NoForgedRelay
<1> QED
  BY <1>1, ServerInvariance, PTL

\* Copies beyond the first are paid for by failures and shutdowns.
THEOREM CopiesArePaidFor == Spec => []CopiesPaidFor
<1>1. ASSUME ServerInv, NEW c \in Clients, NEW a \in Addrs
      PROVE  Copies(c, a) <= 1 + failures + shutdowns
  <2>1. Copies(c, a) <= Paid + Unpaid(c, a) /\ Copies(c, a) \in Nat
    BY <1>1, CopiesType DEF ServerInv, ClientOK, CopiesOK
  <2>2. /\ Paid \in Int /\ failures \in Nat /\ shutdowns \in Nat
        /\ Paid <= failures + shutdowns /\ Unpaid(c, a) \in {-1, 0, 1}
    BY <1>1, PaidType, UnpaidType DEF ServerInv, ServerTypeOK
  <2> QED
    BY <2>1, <2>2
<1>2. ServerInv => CopiesPaidFor
  <2>1. \A a \in Remotes : a \notin Locals
    BY ClientsAssumption
  <2> QED
    BY <1>1, <2>1 DEF CopiesPaidFor, Copies, Addrs
<1> QED
  BY <1>2, ServerInvariance, PTL

\* Shutdown stops the queue only when no session can hand it mail any more,
\* unless the time of the shutdown is over.
THEOREM QueueStopsLast == Spec => []DrainedBeforeQueueStops
<1>1. ServerInv => DrainedBeforeQueueStops
  BY DEF ServerInv, LifeOK, DrainedBeforeQueueStops
<1> QED
  BY <1>1, ServerInvariance, PTL
=============================================================================
