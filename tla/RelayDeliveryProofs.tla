------------------------ MODULE RelayDeliveryProofs ------------------------
(***************************************************************************)
(* The relay implements the safety part of Delivery, for every set of      *)
(* messages, recipients and domains and every bound: under the mapping of  *)
(* RelayDelivery the empty spool is an initial state of Delivery and every *)
(* step is a step of Delivery or changes nothing that it speaks of.        *)
(***************************************************************************)
EXTENDS RelayDelivery, RelayProofs

-----------------------------------------------------------------------------
(* Only recipients of the enqueue call are ever worked on. *)

AddressedOK ==
    /\ \A m \in Msgs : entry[m].st = "ok" => entry[m].to \subseteq envelope[m]
    /\ wpc \in InAttempt => rcpts \subseteq envelope[cur]

LEMMA AddressedInit == Init => AddressedOK
  BY DEF Init, NoEntry, AddressedOK, InAttempt, InRound

\* A step that writes no sidecar, and leaves the worker's recipients alone or
\* puts them away.
LEMMA AddressedKept ==
    ASSUME AddressedOK, UNCHANGED envelope,
           \A m \in Msgs : entry'[m] = entry[m] \/ entry'[m].st # "ok",
           \/ UNCHANGED <<rcpts, cur>> /\ (wpc' \in InAttempt => wpc \in InAttempt)
           \/ wpc' \notin InAttempt
    PROVE  AddressedOK'
  BY DEF AddressedOK

LEMMA AddressedStep ==
    ASSUME SpoolInv, AddressedOK, [Next]_vars
    PROVE  AddressedOK'
<1>0. /\ entry \in [Msgs -> Entries] /\ envelope \in [Msgs -> SUBSET Rcpts]
      /\ sub \in [Msgs -> SubStates]
  BY DEF SpoolInv, Inv, TypeOK
<1>1. ASSUME NEW m \in Msgs, NEW rs \in SUBSET Rcpts, EnqueueStart(m, rs)
      PROVE  AddressedOK'
  <2>1. /\ UNCHANGED <<entry, wpc, cur, rcpts>> /\ sub[m] = "idle"
        /\ envelope' = [envelope EXCEPT ![m] = rs]
    BY <1>1 DEF EnqueueStart, Spooling, worker, round
  <2>2. entry[m].st = "none"
    BY <2>1 DEF SpoolInv, Inv, EnqueueOK
  <2>3. wpc \in InAttempt => cur \in Msgs /\ cur # m
    BY <2>1 DEF SpoolInv, Inv, WorkerOK, Created, Spooled
  <2> QED
    BY <1>0, <2>1, <2>2, <2>3 DEF AddressedOK
<1>2. ASSUME NEW m \in Msgs, EnqueueEntry(m)
      PROVE  AddressedOK'
  <2>1. /\ UNCHANGED <<envelope, wpc, cur, rcpts>>
        /\ entry' = [entry EXCEPT ![m] = QueueEntry(envelope[m], 0)]
    BY <1>2 DEF EnqueueEntry, Spooling, worker, round
  <2> QED
    BY <1>0, <2>1 DEF AddressedOK, QueueEntry
<1>3. ASSUME NEW m \in Msgs,
             \/ EnqueueBody(m) \/ EnqueueOpen(m) \/ EnqueueSignal(m)
             \/ EnqueueBodyError(m) \/ EnqueueEntryError(m)
      PROVE  AddressedOK'
  <2>1. UNCHANGED <<envelope, wpc, cur, rcpts>>
    BY <1>3 DEF EnqueueBody, EnqueueOpen, EnqueueSignal, EnqueueBodyError,
       EnqueueEntryError, Spooling, worker, round
  <2>2. entry' = entry \/ entry' = [entry EXCEPT ![m] = Torn]
    BY <1>3 DEF EnqueueBody, EnqueueOpen, EnqueueSignal, EnqueueBodyError,
       EnqueueEntryError, spool
  <2>3. \A n \in Msgs : entry'[n] = entry[n] \/ entry'[n].st # "ok"
    BY <1>0, <2>2 DEF Torn
  <2> QED
    BY <2>1, <2>3, AddressedKept
<1>4. ASSUME NEW m \in Msgs, Attempt(m)
      PROVE  AddressedOK'
  <2>1. /\ UNCHANGED <<envelope, entry>> /\ entry[m].st = "ok"
        /\ cur' = m /\ rcpts' = entry[m].to
    BY <1>4 DEF Attempt, Visit, spool, client
  <2> QED
    BY <2>1 DEF AddressedOK
<1>5. CASE RewriteEntry
  <2>1. PICK c \in Msgs : cur = c
    BY <1>5 DEF RewriteEntry, BackToScan, SpoolInv, Inv, WorkerOK, InAttempt
  <2>2. /\ wpc = "rewriting" /\ wpc' = "scan" /\ UNCHANGED envelope
        /\ entry' = [entry EXCEPT ![c] = QueueEntry(deferred, attempts)]
    BY <1>5, <2>1 DEF RewriteEntry, BackToScan, client
  <2>3. deferred \subseteq envelope[c]
    BY <2>1, <2>2 DEF SpoolInv, RoundOK, InRewrite, AddressedOK, InAttempt
  <2> QED
    BY <1>0, <2>2, <2>3 DEF AddressedOK, QueueEntry, InAttempt, InRound
<1>6. CASE RewriteOpen \/ RemoveEntry
  <2>1. /\ UNCHANGED <<envelope, rcpts, cur>> /\ wpc \in InAttempt
        /\ \/ entry' = [entry EXCEPT ![cur] = Torn]
           \/ entry' = [entry EXCEPT ![cur] = NoEntry]
           \/ entry' = entry
    BY <1>6 DEF RewriteOpen, RemoveEntry, InWorker, InAttempt, client, round
  <2>2. \A n \in Msgs : entry'[n] = entry[n] \/ entry'[n].st # "ok"
    BY <1>0, <2>1 DEF Torn, NoEntry
  <2> QED
    BY <2>1, <2>2, AddressedKept
<1>7. CASE \/ AttemptDrop \/ AttemptStart \/ SendOk \/ SendTemporary \/ SendPermanent
           \/ \E d \in Domains : Resolve(d) \/ ResolveTemporary(d) \/ ResolvePermanent(d)
           \/ BouncePermanent \/ RoundEnd \/ GiveUp
  <2>1. UNCHANGED <<envelope, entry, rcpts, cur>> /\ wpc \in InAttempt
    BY <1>7 DEF AttemptDrop, AttemptStart, SendOk, SendTemporary, SendPermanent, Resolve,
       ResolveTemporary, ResolvePermanent, NextDomain, BouncePermanent, RoundEnd, GiveUp,
       InWorker, InAttempt, InRound, client, round, spool
  <2> QED
    BY <2>1, AddressedKept
<1>8. CASE RewriteError \/ RemoveBody \/ Exit \/ Crash
  <2>1. UNCHANGED <<envelope, entry>> /\ wpc' \notin InAttempt
    BY <1>8 DEF RewriteError, RemoveBody, BackToScan, Exit, Crash, Gone, InAttempt,
       InRound, client, spool
  <2> QED
    BY <2>1, AddressedKept
<1>9. CASE \/ ReadDir \/ FlushEnd \/ SelectStop \/ SelectWake \/ SelectTick
           \/ Start \/ Shutdown \/ UNCHANGED vars
           \/ \E m \in Msgs : Skip(m) \/ TimePasses(m)
  <2>1. /\ UNCHANGED <<envelope, entry, rcpts, cur>>
        /\ wpc' = wpc \/ wpc' \in {"scan", "select", "flush", "done"}
    BY <1>9 DEF ReadDir, FlushEnd, SelectStop, SelectWake, SelectTick, Start, Shutdown,
       vars, Skip, Visit, TimePasses, spool, client, round, worker
  <2> QED
    BY <2>1, AddressedKept DEF InAttempt, InRound
<1> QED
  BY <1>1, <1>2, <1>3, <1>4, <1>5, <1>6, <1>7, <1>8, <1>9
  DEF Next, Enqueue, Worker, Work, Deliver

LEMMA AddressedInvariance == Spec => [](SpoolInv /\ AddressedOK)
<1>1. Init => SpoolInv /\ AddressedOK
  BY SpoolInitInv, AddressedInit
<1>2. ASSUME SpoolInv, AddressedOK, [Next]_vars PROVE AddressedOK'
  BY <1>2, AddressedStep
<1> QED
  BY <1>1, <1>2, SpoolInvariance, PTL DEF Spec

-----------------------------------------------------------------------------
(* The initial states. *)

LEMMA InitRefines == Init => D!Init
<1> SUFFICES ASSUME Init PROVE D!Init
  OBVIOUS
<1>1. /\ wpc = "off" /\ crashes = 0 /\ ioErrors = 0
      /\ \A m \in Msgs : sub[m] = "idle" /\ unreported[m] = {}
      /\ envelope = [m \in Msgs |-> {}] /\ folded = {} /\ settled = [m \in Msgs |-> {}]
  BY DEF Init
<1>2. \A m \in Msgs : Status(m) = "new" /\ Lost(m) = {}
  BY <1>1 DEF Status, Lost, TornForGood, Spooled, InEnqueue
<1> QED
  BY <1>1, <1>2 DEF D!Init

-----------------------------------------------------------------------------
(* Steps that Delivery sees nothing of but, perhaps, a failure. *)

Failing == crashes' + ioErrors' = crashes + ioErrors + 1
Succeeding == crashes' + ioErrors' = crashes + ioErrors

LEMMA LostKept ==
    ASSUME NEW m \in Msgs, UNCHANGED <<envelope, settled>>, unreported'[m] = unreported[m],
           sub'[m] = "refused" <=> sub[m] = "refused",
           TornForGood(m)' <=> TornForGood(m)
    PROVE  Lost(m)' = Lost(m)
  BY DEF Lost, Done

\* Nothing is submitted, served or lost.
LEMMA QuietRefines ==
    ASSUME UNCHANGED <<envelope, folded, settled>>, Succeeding \/ Failing,
           \A m \in Msgs : Status(m)' = Status(m) /\ Lost(m)' = Lost(m)
    PROVE  [D!Next]_(D!vars)
<1>1. /\ [m \in Msgs |-> Status(m)]' = [m \in Msgs |-> Status(m)]
      /\ [m \in Msgs |-> Lost(m)]' = [m \in Msgs |-> Lost(m)]
  OBVIOUS
<1>2. CASE Succeeding
  BY <1>1, <1>2 DEF D!vars, Succeeding
<1>3. CASE Failing
  <2>1. PICK m \in Msgs : TRUE
    BY MsgsAssumption
  <2>2. D!Fail({})
    <3>1. {} \in SUBSET (envelope[m] \ settled[m])
      OBVIOUS
    <3>2. [k \in Msgs |-> Lost(k)]' =
             [n \in Msgs |-> IF n \in {} THEN {}
                             ELSE IF n = m THEN [k \in Msgs |-> Lost(k)][n] \cup {}
                             ELSE [k \in Msgs |-> Lost(k)][n]]
      BY <1>1
    <3>3. [k \in Msgs |-> Status(k)]' =
             [n \in Msgs |-> IF n \in {} THEN "refused" ELSE [k \in Msgs |-> Status(k)][n]]
      BY <1>1
    <3> QED
      BY <1>3, <3>1, <3>2, <3>3 DEF D!Fail, Failing
  <2>3. D!Next
    BY <2>2 DEF D!Next
  <2> QED
    BY <2>3
<1> QED
  BY <1>2, <1>3

\* The same, from what the code does: the client's side, the history and the
\* torn sidecars stay as they are.
LEMMA IdleRefines ==
    ASSUME SpoolInv, UNCHANGED <<client, settled, unreported, crashes>>,
           ioErrors' = ioErrors \/ ioErrors' = ioErrors + 1,
           \A m \in Msgs : TornForGood(m)' <=> TornForGood(m)
    PROVE  [D!Next]_(D!vars)
<1>1. Succeeding \/ Failing
  BY BoundsAssumption DEF SpoolInv, Inv, TypeOK, Succeeding, Failing
<1>2. UNCHANGED sub /\ UNCHANGED <<envelope, folded, settled>>
  BY DEF client
<1>3. \A m \in Msgs : Status(m)' = Status(m)
  BY <1>2 DEF Status
<1>4. \A m \in Msgs : Lost(m)' = Lost(m)
  BY <1>2, LostKept
<1> QED
  BY <1>1, <1>2, <1>3, <1>4, QuietRefines

-----------------------------------------------------------------------------
(* Steps that serve, or lose, recipients of the message in hand. *)

LEMMA ServeRefines ==
    ASSUME SpoolInv, NEW c \in Msgs, NEW rs \in SUBSET envelope[c],
           sub[c] # "idle", entry[c].st = "ok",
           UNCHANGED <<client, entry, unreported, crashes, ioErrors>>,
           cur' = cur, wpc # "rewriting", wpc' # "rewriting",
           settled' = [settled EXCEPT ![c] = @ \cup rs]
    PROVE  [D!Next]_(D!vars)
<1>0. settled \in [Msgs -> SUBSET Rcpts] /\ sub \in [Msgs -> SubStates]
  BY DEF SpoolInv, Inv, TypeOK
<1>1. UNCHANGED sub /\ UNCHANGED <<envelope, folded>>
  BY DEF client
<1>2. \A m \in Msgs : Status(m)' = Status(m)
  BY <1>1 DEF Status
<1>3. ASSUME NEW m \in Msgs PROVE Lost(m)' = Lost(m)
  <2>1. TornForGood(m)' <=> TornForGood(m)
    BY <1>1 DEF TornForGood, Rewriting
  <2>2. CASE m = c
    <3>1. ~TornForGood(m)
      BY <2>2 DEF TornForGood
    <3> QED
      BY <1>1, <2>1, <3>1 DEF Lost
  <2>3. CASE m # c
    <3>1. settled'[m] = settled[m]
      BY <1>0, <2>3
    <3> QED
      BY <1>1, <2>1, <3>1 DEF Lost, Done
  <2> QED
    BY <2>2, <2>3
<1>4. /\ [m \in Msgs |-> Status(m)]' = [m \in Msgs |-> Status(m)]
      /\ [m \in Msgs |-> Lost(m)]' = [m \in Msgs |-> Lost(m)]
  BY <1>2, <1>3
<1>5. Status(c) # "new"
  BY <1>0 DEF Status, SubStates, InEnqueue
<1>6. D!Serve(c)
  <2>1. rs \ settled[c] \in SUBSET (envelope[c] \ settled[c])
    OBVIOUS
  <2>2. settled' = [settled EXCEPT ![c] = @ \cup (rs \ settled[c])]
    BY <1>0
  <2> QED
    BY <1>1, <1>4, <1>5, <2>1, <2>2 DEF D!Serve
<1>7. D!Next
  BY <1>6 DEF D!Next
<1> QED
  BY <1>7

\* The failing step loses rs of message c, and may cut submissions off.
LEMMA FailRefines ==
    ASSUME NEW c \in Msgs, NEW rs \in SUBSET (envelope[c] \ settled[c]),
           NEW ms \in SUBSET Msgs, Failing, UNCHANGED <<envelope, folded, settled>>,
           \A m \in ms : Status(m) = "open" /\ Status(m)' = "refused" /\ Lost(m)' = {},
           \A m \in Msgs \ ms :
               Status(m)' = Status(m)
               /\ Lost(m)' = IF m = c THEN Lost(m) \cup rs ELSE Lost(m)
    PROVE  [D!Next]_(D!vars)
<1>1. [k \in Msgs |-> Lost(k)]' =
         [n \in Msgs |-> IF n \in ms THEN {}
                         ELSE IF n = c THEN [k \in Msgs |-> Lost(k)][n] \cup rs
                         ELSE [k \in Msgs |-> Lost(k)][n]]
  OBVIOUS
<1>2. [k \in Msgs |-> Status(k)]' =
         [n \in Msgs |-> IF n \in ms THEN "refused" ELSE [k \in Msgs |-> Status(k)][n]]
  OBVIOUS
<1>3. \A m \in ms : [k \in Msgs |-> Status(k)][m] = "open"
  OBVIOUS
<1>4. D!Fail(ms)
  BY <1>1, <1>2, <1>3 DEF D!Fail, Failing
<1>5. D!Next
  BY <1>4 DEF D!Next
<1> QED
  BY <1>5

\* bounce or the read of the body fails, or the report finds no account for the
\* spelling of the From: recipients in hand are dropped.
LEMMA DropRefines ==
    ASSUME SpoolInv, NEW c \in Msgs, NEW rs \in SUBSET envelope[c],
           ioErrors' = ioErrors + 1 \/ (c \in folded /\ ioErrors' = ioErrors),
           sub[c] # "idle", entry[c].st = "ok",
           UNCHANGED <<client, entry, settled, crashes>>,
           cur' = cur, wpc # "rewriting", wpc' # "rewriting",
           unreported' = [unreported EXCEPT ![c] = @ \cup (rs \ settled[c])]
    PROVE  [D!Next]_(D!vars)
<1>0. /\ unreported \in [Msgs -> SUBSET Rcpts] /\ sub \in [Msgs -> SubStates]
      /\ Failing \/ (c \in folded /\ Succeeding)
  BY BoundsAssumption DEF SpoolInv, Inv, TypeOK, Failing, Succeeding
<1>1. UNCHANGED sub /\ UNCHANGED <<envelope, folded, settled>>
  BY DEF client
<1>2. \A m \in Msgs : Status(m)' = Status(m)
  BY <1>1 DEF Status
<1>3. \A m \in Msgs : TornForGood(m)' <=> TornForGood(m)
  BY <1>1 DEF TornForGood, Rewriting
<1>4. ASSUME NEW m \in Msgs, m # c PROVE Lost(m)' = Lost(m)
  <2>1. unreported'[m] = unreported[m]
    BY <1>0, <1>4
  <2> QED
    BY <1>1, <1>3, <2>1, LostKept
<1>5. CASE sub[c] = "refused"
  <2>1. Lost(c)' = Lost(c)
    BY <1>1, <1>5 DEF Lost
  <2>2. \A m \in Msgs : Status(m)' = Status(m) /\ Lost(m)' = Lost(m)
    BY <1>2, <1>4, <2>1
  <2> QED
    BY <1>0, <1>1, <2>2, QuietRefines
<1>6. CASE sub[c] # "refused"
  <2>1. Lost(c)' = Lost(c) \cup (rs \ settled[c])
    <3>1. Lost(c) = unreported[c]
      BY <1>6 DEF Lost, TornForGood
    <3>2. Lost(c)' = unreported'[c]
      BY <1>1, <1>6 DEF Lost, TornForGood
    <3> QED
      BY <1>0, <3>1, <3>2
  <2>2. PICK ls \in SUBSET (envelope[c] \ settled[c]) : ls = rs \ settled[c]
    OBVIOUS
  <2>3. CASE Failing
    <3>1. PICK ms \in SUBSET Msgs : ms = {}
      OBVIOUS
    <3>2. \A m \in Msgs \ ms :
              Status(m)' = Status(m)
              /\ Lost(m)' = IF m = c THEN Lost(m) \cup ls ELSE Lost(m)
      BY <1>2, <1>4, <2>1, <2>2
    <3>3. \A m \in ms : Status(m) = "open" /\ Status(m)' = "refused" /\ Lost(m)' = {}
      BY <3>1
    <3> QED
      BY <1>1, <2>3, <3>2, <3>3, FailRefines
  <2>4. CASE c \in folded /\ Succeeding
    <3>1. /\ [k \in Msgs |-> Status(k)]' = [k \in Msgs |-> Status(k)]
          /\ [k \in Msgs |-> Lost(k)]' =
                [[k \in Msgs |-> Lost(k)] EXCEPT ![c] = @ \cup ls]
      BY <1>2, <1>4, <2>1, <2>2
    <3>2. [k \in Msgs |-> Status(k)][c] # "new"
      BY <1>0 DEF Status, SubStates, InEnqueue
    <3>3. D!Drop(c)
      BY <1>1, <2>4, <3>1, <3>2 DEF D!Drop, Succeeding
    <3>4. D!Next
      BY <3>3 DEF D!Next
    <3> QED
      BY <3>4
  <2> QED
    BY <1>0, <2>3, <2>4
<1> QED
  BY <1>5, <1>6

\* The rewrite of a sidecar fails: before it is truncated nothing happens,
\* after that the recipients it listed are lost.
LEMMA RewriteErrorRefines ==
    ASSUME SpoolInv, RewriteError
    PROVE  [D!Next]_(D!vars)
<1>0. /\ UNCHANGED <<client, settled, unreported, crashes>> /\ UNCHANGED entry
      /\ UNCHANGED sub /\ UNCHANGED <<envelope, folded, settled>>
      /\ wpc \in {"rewrite", "rewriting"} /\ wpc' = "scan" /\ ioErrors' = ioErrors + 1
  BY DEF RewriteError, BackToScan, Fault, client, history, spool
<1>1. Failing
  BY <1>0, BoundsAssumption DEF SpoolInv, Inv, TypeOK, Failing
<1>2. CASE wpc = "rewrite"
  <2>1. \A m \in Msgs : TornForGood(m)' <=> TornForGood(m)
    BY <1>0, <1>2 DEF TornForGood, Rewriting
  <2> QED
    BY <1>0, <2>1, IdleRefines
<1>3. CASE wpc = "rewriting"
  <2>1. PICK c \in Msgs : cur = c
    BY <1>3 DEF SpoolInv, Inv, WorkerOK, InAttempt
  <2>2. \A m \in Msgs : Status(m)' = Status(m)
    BY <1>0 DEF Status
  <2>3. ASSUME NEW m \in Msgs, m # c PROVE Lost(m)' = Lost(m)
    <3>1. TornForGood(m)' <=> TornForGood(m)
      BY <1>0, <2>1, <2>3 DEF TornForGood, Rewriting
    <3> QED
      BY <1>0, <3>1, LostKept
  <2>4. entry[c].st = "torn" /\ ~TornForGood(c)
    BY <1>3, <2>1 DEF SpoolInv, Inv, WorkerOK, TornForGood, Rewriting
  <2>5. CASE sub[c] \in Spooled
    <3>1. PICK ls \in SUBSET (envelope[c] \ settled[c]) : ls = envelope[c] \ Done(c)
      BY DEF Done
    <3>2. TornForGood(c)'
      BY <1>0, <2>4, <2>5 DEF TornForGood, Rewriting
    <3>3. Lost(c)' = Lost(c) \cup ls
      <4>1. Lost(c) = unreported[c]
        BY <2>4, <2>5 DEF Lost, Spooled
      <4>2. Lost(c)' = unreported[c] \cup (envelope[c] \ Done(c))
        BY <1>0, <2>5, <3>2 DEF Lost, Spooled, Done
      <4> QED
        BY <3>1, <4>1, <4>2
    <3>4. PICK ms \in SUBSET Msgs : ms = {}
      OBVIOUS
    <3>5. \A m \in Msgs \ ms :
              Status(m)' = Status(m)
              /\ Lost(m)' = IF m = c THEN Lost(m) \cup ls ELSE Lost(m)
      BY <2>2, <2>3, <3>3
    <3>6. \A m \in ms : Status(m) = "open" /\ Status(m)' = "refused" /\ Lost(m)' = {}
      BY <3>4
    <3> QED
      BY <1>0, <1>1, <3>5, <3>6, FailRefines
  <2>6. CASE sub[c] \notin Spooled
    <3>1. Lost(c)' = Lost(c)
      BY <1>0, <2>6 DEF Lost, TornForGood
    <3>2. \A m \in Msgs : Status(m)' = Status(m) /\ Lost(m)' = Lost(m)
      BY <2>2, <2>3, <3>1
    <3> QED
      BY <1>0, <1>1, <3>2, QuietRefines
  <2> QED
    BY <2>5, <2>6
<1> QED
  BY <1>0, <1>2, <1>3

-----------------------------------------------------------------------------
(* enqueue. *)

LEMMA EnqueueStartRefines ==
    ASSUME SpoolInv, NEW m \in Msgs, NEW rs \in (SUBSET Rcpts) \ {{}}, EnqueueStart(m, rs)
    PROVE  [D!Next]_(D!vars)
<1>0. sub \in [Msgs -> SubStates] /\ envelope \in [Msgs -> SUBSET Rcpts]
  BY DEF SpoolInv, Inv, TypeOK
<1>1. /\ sub[m] = "idle" /\ sub' = [sub EXCEPT ![m] = "body"]
      /\ envelope' = [envelope EXCEPT ![m] = rs]
      /\ folded' \in {folded, folded \cup {m}}
      /\ UNCHANGED <<entry, wpc, cur, settled, unreported, crashes, ioErrors>>
  BY DEF EnqueueStart, Spooling, worker, history
<1>2. /\ Status(m) = "new" /\ Status(m)' = "open"
      /\ \A n \in Msgs \ {m} : Status(n)' = Status(n)
  BY <1>0, <1>1 DEF Status, InEnqueue
<1>3. \A n \in Msgs : Lost(n)' = Lost(n)
  BY <1>0, <1>1 DEF Lost, TornForGood, Rewriting, Spooled, Done
<1>4. /\ [k \in Msgs |-> Status(k)]' = [[k \in Msgs |-> Status(k)] EXCEPT ![m] = "open"]
      /\ [k \in Msgs |-> Status(k)][m] = "new"
      /\ [k \in Msgs |-> Lost(k)]' = [k \in Msgs |-> Lost(k)]
  BY <1>2, <1>3
<1>5. D!Submit(m)
  BY <1>1, <1>4 DEF D!Submit
<1>6. D!Next
  BY <1>5 DEF D!Next
<1> QED
  BY <1>6

LEMMA EnqueueSignalRefines ==
    ASSUME SpoolInv, NEW m \in Msgs, EnqueueSignal(m)
    PROVE  [D!Next]_(D!vars)
<1>0. sub \in [Msgs -> SubStates]
  BY DEF SpoolInv, Inv, TypeOK
<1>1. /\ sub[m] = "signal" /\ sub' = [sub EXCEPT ![m] = "acked"]
      /\ UNCHANGED <<envelope, folded, entry, wpc, cur, settled, unreported, crashes, ioErrors>>
  BY DEF EnqueueSignal, Spooling, worker, history, spool
<1>2. /\ Status(m) = "open" /\ Status(m)' = "accepted"
      /\ \A n \in Msgs \ {m} : Status(n)' = Status(n)
  BY <1>0, <1>1 DEF Status, InEnqueue
<1>3. ASSUME NEW n \in Msgs PROVE Lost(n)' = Lost(n)
  <2>1. /\ sub'[n] = "refused" <=> sub[n] = "refused"
        /\ sub'[n] \in Spooled <=> sub[n] \in Spooled
    BY <1>0, <1>1 DEF Spooled
  <2>2. TornForGood(n)' <=> TornForGood(n)
    BY <1>1, <2>1 DEF TornForGood, Rewriting
  <2> QED
    BY <1>1, <2>1, <2>2, LostKept
<1>4. /\ [k \in Msgs |-> Status(k)]' = [[k \in Msgs |-> Status(k)] EXCEPT ![m] = "accepted"]
      /\ [k \in Msgs |-> Status(k)][m] = "open"
      /\ [k \in Msgs |-> Lost(k)]' = [k \in Msgs |-> Lost(k)]
  BY <1>2, <1>3
<1>5. D!Accept(m)
  BY <1>1, <1>4 DEF D!Accept
<1>6. D!Next
  BY <1>5 DEF D!Next
<1> QED
  BY <1>6

\* The steps of enqueue in between are its own affair.
LEMMA EnqueueWriteRefines ==
    ASSUME SpoolInv, NEW m \in Msgs, EnqueueBody(m) \/ EnqueueOpen(m) \/ EnqueueEntry(m)
    PROVE  [D!Next]_(D!vars)
<1>0. /\ sub \in [Msgs -> SubStates] /\ entry \in [Msgs -> Entries]
      /\ crashes \in Nat /\ ioErrors \in Nat
  BY BoundsAssumption DEF SpoolInv, Inv, TypeOK
<1>1. /\ sub[m] \in {"body", "entry", "entryOpen"}
      /\ sub' \in {[sub EXCEPT ![m] = x] : x \in {"entry", "entryOpen", "signal"}}
      /\ UNCHANGED <<envelope, folded, wpc, cur, settled, unreported, crashes, ioErrors>>
  BY DEF EnqueueBody, EnqueueOpen, EnqueueEntry, Spooling, worker, history
<1>2. /\ sub'[m] \in {"entry", "entryOpen", "signal"}
      /\ \A n \in Msgs \ {m} : sub'[n] = sub[n] /\ entry'[n] = entry[n]
      /\ sub'[m] \in Spooled => entry'[m].st = "ok"
  BY <1>0 DEF EnqueueBody, EnqueueOpen, EnqueueEntry, Spooling, Spooled, QueueEntry
<1>3. \A n \in Msgs : Status(n)' = Status(n)
  BY <1>1, <1>2 DEF Status, InEnqueue
<1>4. \A n \in Msgs : Lost(n)' = Lost(n)
  BY <1>1, <1>2 DEF Lost, TornForGood, Rewriting, Spooled, Done
<1>5. Succeeding
  BY <1>0, <1>1 DEF Succeeding
<1> QED
  BY <1>1, <1>3, <1>4, <1>5, QuietRefines

LEMMA EnqueueErrorRefines ==
    ASSUME SpoolInv, NEW m \in Msgs, EnqueueBodyError(m) \/ EnqueueEntryError(m)
    PROVE  [D!Next]_(D!vars)
<1>0. /\ sub \in [Msgs -> SubStates] /\ crashes \in Nat /\ ioErrors \in Nat
  BY BoundsAssumption DEF SpoolInv, Inv, TypeOK
<1>1. /\ sub[m] \in InEnqueue /\ sub' = [sub EXCEPT ![m] = "refused"]
      /\ UNCHANGED <<envelope, folded, entry, wpc, cur, settled, unreported, crashes>>
      /\ ioErrors' = ioErrors + 1
  BY DEF EnqueueBodyError, EnqueueEntryError, Spooling, Fault, worker, history, spool,
     InEnqueue
<1>2. PICK ms \in SUBSET Msgs : ms = {m}
  OBVIOUS
<1>3. PICK ls \in SUBSET (envelope[m] \ settled[m]) : ls = {}
  OBVIOUS
<1>4. \A n \in ms : Status(n) = "open" /\ Status(n)' = "refused" /\ Lost(n)' = {}
  BY <1>0, <1>1, <1>2 DEF Status, Lost, InEnqueue
<1>5. ASSUME NEW n \in Msgs, n # m PROVE Status(n)' = Status(n) /\ Lost(n)' = Lost(n)
  <2>1. sub'[n] = sub[n]
    BY <1>0, <1>1, <1>5
  <2> QED
    BY <1>1, <2>1 DEF Status, Lost, TornForGood, Rewriting, Done
<1>6. \A n \in Msgs \ ms :
          Status(n)' = Status(n)
          /\ Lost(n)' = IF n = m THEN Lost(n) \cup ls ELSE Lost(n)
  BY <1>2, <1>5
<1>7. Failing
  BY <1>0, <1>1 DEF Failing
<1> QED
  BY <1>1, <1>4, <1>6, <1>7, FailRefines

-----------------------------------------------------------------------------
(* The process goes. *)

\* What Gone does to a message, if the worker is not rewriting its sidecar.
LEMMA GoneCuts ==
    ASSUME SpoolInv, Gone, NEW m \in Msgs
    PROVE  /\ sub[m] \in InEnqueue =>
                  Status(m) = "open" /\ Status(m)' = "refused" /\ Lost(m)' = {}
           /\ sub[m] \notin InEnqueue => Status(m)' = Status(m)
           /\ sub[m] \notin InEnqueue /\ ~Rewriting(m) => Lost(m)' = Lost(m)
<1>0. sub \in [Msgs -> SubStates]
  BY DEF SpoolInv, Inv, TypeOK
<1>1. /\ sub'[m] = IF sub[m] \in InEnqueue THEN "refused" ELSE sub[m]
      /\ UNCHANGED <<entry, envelope, settled, unreported>> /\ wpc' = "off"
  BY DEF Gone, spool, history
<1>2. CASE sub[m] \in InEnqueue
  BY <1>0, <1>1, <1>2 DEF Status, Lost, InEnqueue
<1>3. CASE sub[m] \notin InEnqueue
  <2>1. sub'[m] = sub[m]
    BY <1>1, <1>3
  <2>2. Status(m)' = Status(m)
    BY <2>1 DEF Status
  <2>3. ASSUME ~Rewriting(m) PROVE Lost(m)' = Lost(m)
    <3>1. TornForGood(m)' <=> TornForGood(m)
      BY <1>1, <2>1, <2>3 DEF TornForGood, Rewriting
    <3> QED
      BY <1>1, <2>1, <3>1, LostKept
  <2> QED
    BY <1>3, <2>2, <2>3
<1> QED
  BY <1>2, <1>3

LEMMA ExitRefines ==
    ASSUME SpoolInv, Exit
    PROVE  [D!Next]_(D!vars)
<1>1. Gone /\ wpc = "done" /\ UNCHANGED <<envelope, folded, settled, crashes, ioErrors>>
  BY DEF Exit, Gone, history
<1>2. PICK ms \in SUBSET Msgs : ms = {m \in Msgs : sub[m] \in InEnqueue}
  OBVIOUS
<1>3. \A m \in ms : Status(m) = "open" /\ Status(m)' = "refused" /\ Lost(m)' = {}
  BY <1>1, <1>2, GoneCuts
<1>4. \A m \in Msgs \ ms : Status(m)' = Status(m) /\ Lost(m)' = Lost(m)
  BY <1>1, <1>2, GoneCuts DEF Rewriting
<1>5. /\ [k \in Msgs |-> Status(k)]' =
            [n \in Msgs |-> IF n \in ms THEN "refused" ELSE [k \in Msgs |-> Status(k)][n]]
      /\ [k \in Msgs |-> Lost(k)]' =
            [n \in Msgs |-> IF n \in ms THEN {} ELSE [k \in Msgs |-> Lost(k)][n]]
      /\ \A m \in ms : [k \in Msgs |-> Status(k)][m] = "open"
  BY <1>3, <1>4
<1>6. D!Close(ms)
  BY <1>1, <1>5 DEF D!Close
<1>7. D!Next
  BY <1>6 DEF D!Next
<1> QED
  BY <1>7

\* A crash cuts the enqueue calls off and loses the recipients of the sidecar
\* that the worker has truncated and not written.
LEMMA CrashRefines ==
    ASSUME SpoolInv, Crash
    PROVE  [D!Next]_(D!vars)
<1>0. crashes \in Nat /\ ioErrors \in Nat
  BY BoundsAssumption DEF SpoolInv, Inv, TypeOK
<1>1. /\ Gone /\ UNCHANGED <<entry, envelope, folded, settled, unreported, ioErrors>>
      /\ crashes' = crashes + 1 /\ wpc' = "off"
      /\ sub' = [m \in Msgs |-> IF sub[m] \in InEnqueue THEN "refused" ELSE sub[m]]
  BY DEF Crash, Gone, history, spool
<1>2. Failing
  BY <1>0, <1>1 DEF Failing
<1>3. PICK ms \in SUBSET Msgs : ms = {m \in Msgs : sub[m] \in InEnqueue}
  OBVIOUS
<1>4. \A m \in ms : Status(m) = "open" /\ Status(m)' = "refused" /\ Lost(m)' = {}
  BY <1>1, <1>3, GoneCuts
<1>5. PICK c \in Msgs : \A m \in Msgs : m # c => ~Rewriting(m)
  BY MsgsAssumption DEF Rewriting
<1>6. PICK ls \in SUBSET (envelope[c] \ settled[c]) :
        ls = IF Rewriting(c) /\ sub[c] = "acked" THEN envelope[c] \ Done(c) ELSE {}
  BY DEF Done
<1>7. ASSUME c \notin ms PROVE Lost(c)' = Lost(c) \cup ls
  <2>1. sub[c] \notin InEnqueue /\ sub'[c] = sub[c]
    BY <1>1, <1>3, <1>7
  <2>2. CASE ~Rewriting(c)
    BY <1>1, <1>6, <2>1, <2>2, GoneCuts
  <2>3. CASE Rewriting(c) /\ sub[c] = "acked"
    <3>1. entry[c].st = "torn"
      BY <2>3 DEF SpoolInv, Inv, WorkerOK, Rewriting
    <3>2. Lost(c) = unreported[c]
      BY <2>3 DEF Lost, TornForGood
    <3>3. TornForGood(c)'
      BY <1>1, <2>1, <2>3, <3>1 DEF TornForGood, Rewriting, Spooled
    <3>4. Lost(c)' = unreported[c] \cup (envelope[c] \ Done(c))
      BY <1>1, <2>1, <2>3, <3>3 DEF Lost, Done
    <3> QED
      BY <1>6, <2>3, <3>2, <3>4
  <2>4. CASE Rewriting(c) /\ sub[c] # "acked"
    <3>1. sub[c] \notin Spooled
      BY <2>1, <2>4 DEF Spooled, InEnqueue
    <3> QED
      BY <1>1, <1>6, <2>1, <2>4, <3>1 DEF Lost, TornForGood
  <2> QED
    BY <2>2, <2>3, <2>4
<1>8. \A m \in Msgs \ ms :
          Status(m)' = Status(m)
          /\ Lost(m)' = IF m = c THEN Lost(m) \cup ls ELSE Lost(m)
  BY <1>1, <1>3, <1>5, <1>7, GoneCuts
<1> QED
  BY <1>1, <1>2, <1>4, <1>8, FailRefines

-----------------------------------------------------------------------------
(* The worker. *)

LEMMA BounceRefines ==
    ASSUME SpoolInv, NEW c \in Msgs, cur = c, NEW rs \in SUBSET envelope[c], Bounce(rs),
           sub[c] # "idle", entry[c].st = "ok", UNCHANGED <<client, entry, crashes>>,
           cur' = cur, wpc # "rewriting", wpc' # "rewriting"
    PROVE  [D!Next]_(D!vars)
<1>1. CASE /\ settled' = [settled EXCEPT ![c] = @ \cup rs]
           /\ UNCHANGED <<unreported, ioErrors>>
  BY <1>1, ServeRefines
<1>2. CASE /\ Fault \/ (c \in folded /\ UNCHANGED ioErrors)
           /\ unreported' = [unreported EXCEPT ![c] = @ \cup (rs \ settled[c])]
           /\ UNCHANGED settled
  <2>1. ioErrors' = ioErrors + 1 \/ (c \in folded /\ ioErrors' = ioErrors)
    BY <1>2 DEF Fault
  <2> QED
    BY <1>2, <2>1, DropRefines
<1> QED
  BY <1>1, <1>2 DEF Bounce

LEMMA DeliverRefines ==
    ASSUME SpoolInv, AddressedOK, Deliver
    PROVE  [D!Next]_(D!vars)
<1>0. /\ entry \in [Msgs -> Entries] /\ unreported \in [Msgs -> SUBSET Rcpts]
      /\ settled \in [Msgs -> SUBSET Rcpts]
  BY DEF SpoolInv, Inv, TypeOK
<1>1. wpc \in InAttempt
  BY DEF Deliver, AttemptDrop, AttemptStart, Resolve, ResolveTemporary,
     ResolvePermanent, SendOk, SendTemporary, SendPermanent, BouncePermanent, RoundEnd,
     GiveUp, RewriteOpen, RewriteEntry, RewriteError, RemoveEntry, RemoveBody,
     InWorker, BackToScan, InAttempt, InRound
<1>2. PICK c \in Msgs : cur = c
  BY <1>1 DEF SpoolInv, Inv, WorkerOK
<1>3. /\ sub[c] # "idle" /\ rcpts \subseteq envelope[c]
      /\ wpc \in Holding => entry[c].st = "ok" /\ entry[c].to = rcpts
  BY <1>1, <1>2 DEF SpoolInv, Inv, WorkerOK, Created, Spooled, AddressedOK
<1>4. CASE AttemptDrop
  <2>1. /\ wpc = "attempt" /\ wpc' = "remove" /\ cur' = cur
        /\ UNCHANGED <<client, entry, settled, crashes>>
        /\ unreported' = [unreported EXCEPT ![c] = @ \cup (rcpts \ settled[c])]
        /\ (body[c] = "none" /\ ioErrors' = ioErrors) \/ Fault
    BY <1>2, <1>4 DEF AttemptDrop, InWorker, spool
  <2>2. entry[c].st = "ok" /\ entry[c].to = rcpts
    BY <1>3, <2>1 DEF Holding, InAttempt
  <2>3. CASE Fault
    <3>1. ioErrors' = ioErrors + 1
      BY <2>3 DEF Fault
    <3> QED
      BY <1>3, <2>1, <2>2, <3>1, DropRefines
  <2>4. CASE body[c] = "none" /\ ioErrors' = ioErrors
    <3>1. rcpts \subseteq settled[c] \cup unreported[c]
      BY <2>2, <2>4 DEF SpoolInv, Inv, EntriesOK, Done
    <3>2. unreported' = unreported
      BY <1>0, <2>1, <3>1
    <3>3. UNCHANGED sub
      BY <2>1 DEF client
    <3>4. \A m \in Msgs : TornForGood(m)' <=> TornForGood(m)
      BY <2>1, <3>3 DEF TornForGood, Rewriting
    <3> QED
      BY <2>1, <2>4, <3>2, <3>4, IdleRefines
  <2> QED
    BY <2>1, <2>3, <2>4
<1>5. CASE SendOk
  <2>1. /\ wpc = "send" /\ wpc' = "deliver" /\ cur' = cur
        /\ UNCHANGED <<client, entry, unreported, crashes, ioErrors>>
        /\ settled' = [settled EXCEPT ![c] = @ \cup At(dom)]
    BY <1>2, <1>5 DEF SendOk, InWorker, spool
  <2>2. PICK rs \in SUBSET envelope[c] : rs = At(dom)
    BY <1>3 DEF At
  <2>3. entry[c].st = "ok"
    BY <1>3, <2>1 DEF Holding, InAttempt, InRound
  <2> QED
    BY <1>3, <2>1, <2>2, <2>3, ServeRefines
<1>6. CASE BouncePermanent
  <2>1. /\ wpc = "bounce" /\ wpc' = "deliver" /\ cur' = cur /\ Bounce(At(dom))
        /\ UNCHANGED <<client, entry, crashes>>
    BY <1>6 DEF BouncePermanent, InWorker, spool
  <2>2. entry[c].st = "ok"
    BY <1>3, <2>1 DEF Holding, InAttempt, InRound
  <2>3. PICK rs \in SUBSET envelope[c] : Bounce(rs)
    BY <1>3, <2>1 DEF At
  <2> QED
    BY <1>2, <1>3, <2>1, <2>2, <2>3, BounceRefines
<1>7. CASE GiveUp
  <2>1. /\ wpc = "giveup" /\ wpc' = "remove" /\ cur' = cur /\ Bounce(deferred)
        /\ UNCHANGED <<client, entry, crashes>>
    BY <1>7 DEF GiveUp, InWorker, spool
  <2>2. entry[c].st = "ok" /\ deferred \subseteq rcpts
    BY <1>3, <2>1 DEF Holding, InAttempt, SpoolInv, RoundOK, InRewrite
  <2>3. PICK rs \in SUBSET envelope[c] : Bounce(rs)
    BY <1>3, <2>1, <2>2
  <2> QED
    BY <1>2, <1>3, <2>1, <2>2, <2>3, BounceRefines
<1>8. CASE \/ AttemptStart \/ SendTemporary \/ SendPermanent \/ RoundEnd \/ RemoveBody
           \/ \E d \in Domains : Resolve(d) \/ ResolveTemporary(d) \/ ResolvePermanent(d)
  <2>1. /\ UNCHANGED <<client, settled, unreported, crashes>> /\ UNCHANGED entry
        /\ ioErrors' = ioErrors \/ ioErrors' = ioErrors + 1
        /\ wpc # "rewriting" /\ wpc' # "rewriting"
    BY <1>8 DEF AttemptStart, SendTemporary, SendPermanent, RoundEnd, RemoveBody, Resolve,
       ResolveTemporary, ResolvePermanent, NextDomain, InWorker, BackToScan, AfterRound,
       GivesUp, Fault, client, spool, history, round
  <2>2. UNCHANGED sub
    BY <2>1 DEF client
  <2>3. \A m \in Msgs : TornForGood(m)' <=> TornForGood(m)
    BY <2>1, <2>2 DEF TornForGood, Rewriting
  <2> QED
    BY <2>1, <2>3, IdleRefines
<1>9. CASE RewriteOpen \/ RewriteEntry \/ RemoveEntry
  <2>1. /\ UNCHANGED <<client, settled, unreported, crashes>>
        /\ ioErrors' = ioErrors \/ ioErrors' = ioErrors + 1
        /\ wpc \in {"rewrite", "rewriting", "remove"}
    BY <1>9 DEF RewriteOpen, RewriteEntry, RemoveEntry, InWorker, BackToScan, Fault,
       client, history
  <2>2. UNCHANGED sub
    BY <2>1 DEF client
  <2>3. /\ \A m \in Msgs \ {c} : entry'[m] = entry[m] /\ ~Rewriting(m) /\ ~Rewriting(m)'
        /\ ~(entry[c].st = "torn" /\ ~Rewriting(c))
        /\ ~(entry'[c].st = "torn" /\ ~Rewriting(c)')
    <3>1. CASE RewriteOpen
      <4>1. /\ wpc = "rewrite" /\ wpc' = "rewriting" /\ cur' = c
            /\ entry' = [entry EXCEPT ![c] = Torn]
        BY <1>2, <3>1 DEF RewriteOpen, InWorker
      <4>2. entry[c].st = "ok"
        BY <1>3, <4>1 DEF Holding, InAttempt
      <4> QED
        BY <1>0, <1>2, <4>1, <4>2 DEF Rewriting
    <3>2. CASE RewriteEntry
      <4>1. /\ wpc = "rewriting" /\ wpc' = "scan"
            /\ entry' = [entry EXCEPT ![c] = QueueEntry(deferred, attempts)]
        BY <1>2, <3>2 DEF RewriteEntry, BackToScan
      <4> QED
        BY <1>0, <1>2, <4>1 DEF Rewriting, QueueEntry
    <3>3. CASE RemoveEntry
      <4>1. /\ wpc = "remove" /\ wpc' = "remove2"
            /\ entry' = [entry EXCEPT ![c] = NoEntry] \/ entry' = entry
        BY <1>2, <3>3 DEF RemoveEntry, InWorker
      <4>2. entry[c].st = "ok"
        BY <1>3, <4>1 DEF Holding, InAttempt
      <4> QED
        BY <1>0, <1>2, <4>1, <4>2 DEF Rewriting, NoEntry
    <3> QED
      BY <1>9, <3>1, <3>2, <3>3
  <2>4. \A m \in Msgs : TornForGood(m)' <=> TornForGood(m)
    BY <2>2, <2>3 DEF TornForGood
  <2> QED
    BY <2>1, <2>4, IdleRefines
<1> QED
  BY <1>4, <1>5, <1>6, <1>8, <1>9, <1>7, RewriteErrorRefines DEF Deliver

-----------------------------------------------------------------------------
(* The refinement. *)

LEMMA StepRefines ==
    ASSUME SpoolInv, AddressedOK, [Next]_vars
    PROVE  [D!Next]_(D!vars)
<1>1. CASE \E m \in Msgs : Enqueue(m)
  BY <1>1, EnqueueStartRefines, EnqueueSignalRefines, EnqueueWriteRefines,
     EnqueueErrorRefines DEF Enqueue
<1>2. CASE \/ ReadDir \/ FlushEnd \/ SelectStop \/ SelectWake \/ SelectTick
           \/ Start \/ Shutdown \/ UNCHANGED vars
           \/ \E m \in Msgs : Skip(m) \/ Attempt(m) \/ TimePasses(m)
  <2>1. /\ UNCHANGED <<client, settled, unreported, crashes>> /\ UNCHANGED entry
        /\ ioErrors' = ioErrors \/ ioErrors' = ioErrors + 1
        /\ UNCHANGED <<wpc, cur>> \/ (wpc # "rewriting" /\ wpc' # "rewriting")
    BY <1>2 DEF ReadDir, FlushEnd, SelectStop, SelectWake, SelectTick, Start, Shutdown,
       vars, Skip, Attempt, Visit, TimePasses, Fault, spool, client, round, worker,
       history, faults
  <2>2. UNCHANGED sub
    BY <2>1 DEF client
  <2>3. \A m \in Msgs : TornForGood(m)' <=> TornForGood(m)
    BY <2>1, <2>2 DEF TornForGood, Rewriting
  <2> QED
    BY <2>1, <2>3, IdleRefines
<1> QED
  BY <1>1, <1>2, DeliverRefines, ExitRefines, CrashRefines DEF Next, Worker, Work

\* Spool, worker, crashes, failing calls and shutdowns together do what
\* Delivery says: a message is accepted or refused once, only whom the client
\* named is served, and somebody is lost only in the very step that fails, or
\* in the step whose report finds no account for the spelling of the From;
\* never as the late result of a race or of an orderly shutdown.
THEOREM RelayImplementsDelivery == Spec => D!SafeSpec
<1>1. SpoolInv /\ AddressedOK /\ [Next]_vars => [D!Next]_(D!vars)
  BY StepRefines
<1> QED
  BY <1>1, InitRefines, AddressedInvariance, PTL DEF Spec, D!SafeSpec
=============================================================================
