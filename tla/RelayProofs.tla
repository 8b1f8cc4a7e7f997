---------------------------- MODULE RelayProofs ----------------------------
(***************************************************************************)
(* Proofs about Relay, for every set of messages, recipients and domains   *)
(* and every bound: Inv is inductive, and NothingLost, AttemptsBounded,    *)
(* NoSilentDrop and NoLostWakeup follow from it; SpoolInv extends it for   *)
(* SpoolExact and CopiesAccounted.                                         *)
(***************************************************************************)
EXTENDS Relay, TLAPS

\* The empty spool satisfies the invariant.
LEMMA InitInv == Init => Inv
<1> SUFFICES ASSUME Init PROVE Inv
  OBVIOUS
<1>1. TypeOK
  <2>1. entry \in [Msgs -> Entries]
    BY DEF Init, Entries, NoEntry
  <2>2. sub \in [Msgs -> SubStates] /\ wpc \in WorkerStates
    BY DEF Init, SubStates, WorkerStates
  <2>3. /\ attempts \in 0 .. MaxAttempts /\ hosts \in 0 .. MaxMX
        /\ crashes \in 0 .. MaxCrashes /\ ioErrors \in 0 .. MaxIoErrors
        /\ shutdowns \in 0 .. MaxShutdowns
        /\ lostAnswers \in 0 .. MaxLostAnswers
    BY BoundsAssumption DEF Init
  <2>4. /\ body \in [Msgs -> {"none", "part", "full"}]
        /\ envelope \in [Msgs -> SUBSET Rcpts]
        /\ settled \in [Msgs -> SUBSET Rcpts]
        /\ unreported \in [Msgs -> SUBSET Rcpts]
        /\ taken \in [Msgs -> [Rcpts -> Nat]]
    BY DEF Init
  <2> QED
    BY <2>1, <2>2, <2>3, <2>4 DEF Init, TypeOK
<1>2. EnqueueOK /\ EntriesOK
  BY DEF Init, EnqueueOK, EntriesOK, NoEntry, Spooled
<1>3. WorkerOK
  BY DEF Init, WorkerOK, InAttempt, InRound, Holding
<1>4. WakeOK /\ SilenceOK
  BY DEF Init, WakeOK, SilenceOK, NoEntry
<1> QED
  BY <1>1, <1>2, <1>3, <1>4 DEF Inv

-----------------------------------------------------------------------------
(* The steps of enqueue. *)

\* The lock is taken and the body file created: nothing lists it yet.
LEMMA EnqueueStartStep ==
    ASSUME Inv, NEW m \in Msgs, NEW to \in SUBSET Rcpts, EnqueueStart(m, to)
    PROVE  Inv'
<1>1. TypeOK'
  BY DEF Inv, EnqueueStart, Spooling, round, worker, history, network, TypeOK,
     SubStates, InEnqueue
<1>2. EnqueueOK'
  BY DEF Inv, EnqueueStart, Spooling, history, EnqueueOK, Spooled, Done
<1>3. EntriesOK'
  BY DEF Inv, EnqueueStart, Spooling, history, EntriesOK, Spooled,
     Created, Done
<1>4. WorkerOK'
  BY DEF Inv, EnqueueStart, Spooling, round, worker, history, WorkerOK,
     InAttempt, Spooled, Created, Done
<1>5. WakeOK'
  BY DEF Inv, EnqueueStart, Spooling, worker, WakeOK, Busy
<1>6. SilenceOK'
  BY DEF Inv, EnqueueStart, Spooling, history, SilenceOK, EnqueueOK
<1> QED
  BY <1>1, <1>2, <1>3, <1>4, <1>5, <1>6 DEF Inv

\* The body is complete before there is a sidecar.
LEMMA EnqueueBodyStep ==
    ASSUME Inv, NEW m \in Msgs, EnqueueBody(m)
    PROVE  Inv'
<1>1. TypeOK'
  BY DEF Inv, EnqueueBody, Spooling, round, worker, history, network, TypeOK,
     SubStates, InEnqueue
<1>2. EnqueueOK'
  BY DEF Inv, EnqueueBody, Spooling, history, TypeOK, EnqueueOK,
     Spooled, Done
<1>3. EntriesOK'
  BY DEF Inv, EnqueueBody, Spooling, history, EntriesOK, Spooled,
     Created, Done
<1>4. WorkerOK'
  BY DEF Inv, EnqueueBody, Spooling, round, worker, history, WorkerOK,
     Spooled, Created, Done
<1>5. WakeOK'
  BY DEF Inv, EnqueueBody, Spooling, worker, WakeOK, Busy
<1>6. SilenceOK'
  BY DEF Inv, EnqueueBody, Spooling, history, SilenceOK
<1> QED
  BY <1>1, <1>2, <1>3, <1>4, <1>5, <1>6 DEF Inv

\* The sidecar of a new id is created empty; the worker holds another id.
LEMMA EnqueueOpenStep ==
    ASSUME Inv, NEW m \in Msgs, EnqueueOpen(m)
    PROVE  Inv'
<1>1. TypeOK'
  BY DEF Inv, EnqueueOpen, Spooling, round, worker, history, network, TypeOK,
     Entries, Torn, SubStates, InEnqueue
<1>2. EnqueueOK'
  BY DEF Inv, EnqueueOpen, Spooling, history, TypeOK, EnqueueOK, Torn,
     Done
<1>3. EntriesOK'
  BY DEF Inv, EnqueueOpen, Spooling, history, TypeOK, EntriesOK, Torn,
     Done
<1>4. WorkerOK'
  BY DEF Inv, EnqueueOpen, Spooling, round, worker, history, WorkerOK,
     InAttempt, Holding, Spooled, Created, Done
<1>5. WakeOK'
  BY DEF Inv, EnqueueOpen, Spooling, worker, WakeOK, Busy
<1>6. SilenceOK'
  BY DEF Inv, EnqueueOpen, Spooling, history, SilenceOK, Torn
<1> QED
  BY <1>1, <1>2, <1>3, <1>4, <1>5, <1>6 DEF Inv

\* The sidecar lists the whole envelope, is due and has its body.
LEMMA EnqueueEntryStep ==
    ASSUME Inv, NEW m \in Msgs, EnqueueEntry(m)
    PROVE  Inv'
<1>1. TypeOK'
  BY DEF Inv, EnqueueEntry, Spooling, round, worker, history, network, TypeOK,
     Entries, QueueEntry, SubStates, InEnqueue
<1>2. EnqueueOK'
  BY DEF Inv, EnqueueEntry, Spooling, history, TypeOK, EnqueueOK,
     QueueEntry, Done
<1>3. EntriesOK'
  BY BoundsAssumption DEF Inv, EnqueueEntry, Spooling, history, TypeOK,
     EntriesOK, EnqueueOK, QueueEntry, Spooled, Created, Done
<1>4. WorkerOK'
  BY DEF Inv, EnqueueEntry, Spooling, round, worker, history, WorkerOK,
     InAttempt, Holding, Spooled, Created, Done
<1>5. WakeOK'
  BY DEF Inv, EnqueueEntry, Spooling, worker, WakeOK, Busy
<1>6. SilenceOK'
  BY DEF Inv, EnqueueEntry, Spooling, history, SilenceOK, EnqueueOK
<1> QED
  BY <1>1, <1>2, <1>3, <1>4, <1>5, <1>6 DEF Inv

\* From here on the message is accepted, and its wake-up is in the channel.
LEMMA EnqueueSignalStep ==
    ASSUME Inv, NEW m \in Msgs, EnqueueSignal(m)
    PROVE  Inv'
<1>1. TypeOK'
  BY DEF Inv, EnqueueSignal, Spooling, spool, round, worker, history, network,
     TypeOK, SubStates
<1>2. EnqueueOK'
  BY DEF Inv, EnqueueSignal, Spooling, spool, history, EnqueueOK,
     Spooled, Done
<1>3. EntriesOK'
  BY DEF Inv, EnqueueSignal, Spooling, spool, history, EntriesOK,
     Spooled, Created, Done
<1>4. WorkerOK'
  BY DEF Inv, EnqueueSignal, Spooling, spool, round, worker, history,
     WorkerOK, Spooled, Created, Done
<1>5. WakeOK'
  BY DEF Inv, EnqueueSignal, Spooling, worker, WakeOK
<1>6. SilenceOK'
  BY DEF Inv, EnqueueSignal, Spooling, spool, history, SilenceOK
<1> QED
  BY <1>1, <1>2, <1>3, <1>4, <1>5, <1>6 DEF Inv

\* A body that could not be written has no sidecar.
LEMMA EnqueueBodyErrorStep ==
    ASSUME Inv, NEW m \in Msgs, EnqueueBodyError(m)
    PROVE  Inv'
<1>1. TypeOK'
  BY BoundsAssumption DEF Inv, EnqueueBodyError, Spooling, Fault, spool, round,
     worker, history, network, TypeOK, SubStates
<1>2. EnqueueOK'
  BY DEF Inv, EnqueueBodyError, Spooling, spool, history, EnqueueOK,
     Spooled, Done
<1>3. EntriesOK'
  BY DEF Inv, EnqueueBodyError, Spooling, spool, history, EntriesOK,
     Created, Done
<1>4. WorkerOK'
  BY DEF Inv, EnqueueBodyError, Spooling, Fault, spool, round, worker,
     history, TypeOK, WorkerOK, Created, Done
<1>5. WakeOK'
  BY DEF Inv, EnqueueBodyError, Spooling, Fault, worker, TypeOK, WakeOK
<1>6. SilenceOK'
  BY DEF Inv, EnqueueBodyError, Spooling, Fault, TypeOK, SilenceOK
<1> QED
  BY <1>1, <1>2, <1>3, <1>4, <1>5, <1>6 DEF Inv

\* A body that is taken back has no readable sidecar.
LEMMA EnqueueEntryErrorStep ==
    ASSUME Inv, NEW m \in Msgs, EnqueueEntryError(m)
    PROVE  Inv'
<1>1. TypeOK'
  <2>1. sub' \in [Msgs -> SubStates]
    BY BoundsAssumption DEF Inv, EnqueueEntryError, Spooling, Fault,
       round, worker, history, TypeOK, SubStates
  <2>2. body' \in [Msgs -> {"none", "part", "full"}]
    BY BoundsAssumption DEF Inv, EnqueueEntryError, Spooling, Fault,
       round, worker, history, TypeOK, SubStates
  <2> QED
    BY <2>1, <2>2, BoundsAssumption DEF Inv, EnqueueEntryError, Spooling,
       Fault, round, worker, history, network, TypeOK, SubStates
<1>2. EnqueueOK'
  BY DEF Inv, EnqueueEntryError, Spooling, history, TypeOK, EnqueueOK,
     Spooled, Done
<1>3. EntriesOK'
  BY DEF Inv, EnqueueEntryError, Spooling, history, TypeOK, EntriesOK,
     Spooled, Created, Done
<1>4. WorkerOK'
  BY DEF Inv, EnqueueEntryError, Spooling, Fault, round, worker,
     history, TypeOK, WorkerOK, InAttempt, Spooled, Created, Done
<1>5. WakeOK'
  BY DEF Inv, EnqueueEntryError, Spooling, Fault, worker, TypeOK, WakeOK
<1>6. SilenceOK'
  BY DEF Inv, EnqueueEntryError, Spooling, Fault, TypeOK, SilenceOK
<1> QED
  BY <1>1, <1>2, <1>3, <1>4, <1>5, <1>6 DEF Inv

-----------------------------------------------------------------------------
(* The clock. *)

\* More entries are due.
LEMMA TimePassesStep ==
    ASSUME Inv, NEW m \in Msgs, TimePasses(m)
    PROVE  Inv'
<1>1. TypeOK'
  BY DEF Inv, TimePasses, client, signals, round, worker, history, network,
     faults, TypeOK
<1>2. EnqueueOK'
  BY DEF Inv, TimePasses, client, history, EnqueueOK, Done
<1>3. EntriesOK'
  BY DEF Inv, TimePasses, client, history, EntriesOK, Done
<1>4. WorkerOK'
  BY DEF Inv, TimePasses, client, round, worker, history, faults,
     WorkerOK, Done
<1>5. WakeOK'
  BY DEF Inv, TimePasses, client, signals, worker, faults, WakeOK, Busy
<1>6. SilenceOK'
  BY DEF Inv, client, TimePasses, history, faults, SilenceOK
<1> QED
  BY <1>1, <1>2, <1>3, <1>4, <1>5, <1>6 DEF Inv

-----------------------------------------------------------------------------
(* The steps of flush. *)

\* The listing holds every id that has a readable sidecar.
LEMMA ReadDirStep ==
    ASSUME Inv, ReadDir
    PROVE  Inv'
<1>1. TypeOK'
  BY BoundsAssumption DEF Inv, ReadDir, Fault, spool, client, signals, round,
     history, network, TypeOK, WorkerStates
<1>2. EnqueueOK'
  BY DEF Inv, ReadDir, spool, client, history, EnqueueOK, Done
<1>3. EntriesOK'
  BY DEF Inv, ReadDir, spool, client, history, EntriesOK, Done
<1>4. WorkerOK'
  BY DEF Inv, ReadDir, WorkerOK, InAttempt, InRound, Holding
<1>5. WakeOK'
  BY DEF Inv, ReadDir, Fault, spool, TypeOK, WakeOK
<1>6. SilenceOK'
  BY DEF Inv, client, ReadDir, Fault, spool, history, TypeOK, SilenceOK
<1> QED
  BY <1>1, <1>2, <1>3, <1>4, <1>5, <1>6 DEF Inv

\* An empty listing leaves no untried message behind without its wake-up.
LEMMA FlushEndStep ==
    ASSUME Inv, FlushEnd
    PROVE  Inv'
<1>1. TypeOK'
  BY DEF Inv, FlushEnd, spool, client, signals, round, history, network,
     faults, TypeOK, WorkerStates
<1>2. EnqueueOK'
  BY DEF Inv, FlushEnd, spool, client, history, EnqueueOK, Done
<1>3. EntriesOK'
  BY DEF Inv, FlushEnd, spool, client, history, EntriesOK, Done
<1>4. WorkerOK'
  BY DEF Inv, FlushEnd, WorkerOK, InAttempt, InRound, Holding
<1>5. WakeOK'
  BY DEF Inv, FlushEnd, spool, client, signals, faults, WakeOK,
     InAttempt, InRound, Busy
<1>6. SilenceOK'
  BY DEF Inv, client, FlushEnd, spool, history, faults, SilenceOK
<1> QED
  BY <1>1, <1>2, <1>3, <1>4, <1>5, <1>6 DEF Inv

\* An untried entry is due and readable, so it is never skipped.
LEMMA SkipStep ==
    ASSUME Inv, NEW m \in Msgs, Skip(m)
    PROVE  Inv'
<1>1. TypeOK'
  BY BoundsAssumption DEF Inv, Skip, Visit, Fault, spool, client, signals,
     round, history, network, TypeOK
<1>2. EnqueueOK'
  BY DEF Inv, Skip, Visit, spool, client, history, EnqueueOK, Done
<1>3. EntriesOK'
  BY DEF Inv, Skip, Visit, spool, client, history, EntriesOK, Done
<1>4. WorkerOK'
  BY DEF Inv, Skip, Visit, spool, client, round, history, WorkerOK, Done
<1>5. WakeOK'
  BY DEF Inv, Skip, Visit, Fault, spool, client, signals, TypeOK,
     WakeOK, EntriesOK, Busy
<1>6. SilenceOK'
  BY DEF Inv, client, Skip, Visit, Fault, spool, history, TypeOK, SilenceOK
<1> QED
  BY <1>1, <1>2, <1>3, <1>4, <1>5, <1>6 DEF Inv

\* The worker's memory is the sidecar it has just read.
LEMMA AttemptStep ==
    ASSUME Inv, NEW m \in Msgs, Attempt(m)
    PROVE  Inv'
<1>1. TypeOK'
  BY BoundsAssumption DEF Inv, Attempt, Visit, spool, client, signals, history,
     network, TypeOK, Entries, WorkerStates, InAttempt, EntriesOK
<1>2. EnqueueOK'
  BY DEF Inv, Attempt, Visit, spool, client, history, EnqueueOK, Done
<1>3. EntriesOK'
  BY DEF Inv, Attempt, Visit, spool, client, history, EntriesOK, Done
<1>4. WorkerOK'
  BY DEF Inv, Attempt, Visit, spool, client, history, TypeOK, EnqueueOK,
     WorkerOK, InEnqueue, InRound, Spooled, Created, Done, SubStates
<1>5. WakeOK'
  BY DEF Inv, Attempt, Visit, spool, client, signals, WakeOK, InAttempt,
     InRound, Busy
<1>6. SilenceOK'
  BY DEF Inv, client, Attempt, Visit, spool, history, SilenceOK
<1> QED
  BY <1>1, <1>2, <1>3, <1>4, <1>5, <1>6 DEF Inv

-----------------------------------------------------------------------------
(* The steps of attempt. *)

\* A missing body has nobody left to be told.
LEMMA AttemptDropStep ==
    ASSUME Inv, AttemptDrop
    PROVE  Inv'
<1>1. TypeOK'
  BY BoundsAssumption DEF Inv, AttemptDrop, InWorker, Fault, spool, client,
     signals, round, TypeOK, WorkerStates, InAttempt, WorkerOK, network
<1>2. EnqueueOK'
  BY DEF Inv, AttemptDrop, InWorker, spool, client, EnqueueOK, Done
<1>3. EntriesOK'
  BY DEF Inv, AttemptDrop, InWorker, spool, client, EntriesOK, Done
<1>4. WorkerOK'
  BY DEF Inv, AttemptDrop, InWorker, spool, client, round, TypeOK,
     WorkerOK, InAttempt, InRound, Holding, Done
<1>5. WakeOK'
  BY DEF Inv, AttemptDrop, InWorker, Fault, spool, client, signals,
     TypeOK, WakeOK, InAttempt, Busy
<1>6. SilenceOK'
  BY DEF Inv, AttemptDrop, InWorker, Fault, TypeOK, SilenceOK, WorkerOK,
     InAttempt, Holding
<1> QED
  BY <1>1, <1>2, <1>3, <1>4, <1>5, <1>6 DEF Inv

\* Every recipient is at a domain the round has still to visit.
LEMMA AttemptStartStep ==
    ASSUME Inv, AttemptStart
    PROVE  Inv'
<1>1. TypeOK'
  BY DomainOfAssumption, BoundsAssumption DEF Inv, AttemptStart, InWorker,
     spool, client, signals, history, network, TypeOK, WorkerStates, InAttempt,
     InRound, EntriesOK, WorkerOK, Holding
<1>2. EnqueueOK'
  BY DEF Inv, AttemptStart, InWorker, spool, client, history, EnqueueOK,
     Done
<1>3. EntriesOK'
  BY DEF Inv, AttemptStart, InWorker, spool, client, history, EntriesOK,
     Done
<1>4. WorkerOK'
  BY DEF Inv, AttemptStart, InWorker, spool, client, history, TypeOK,
     EntriesOK, WorkerOK, InAttempt, Holding, Done
<1>5. WakeOK'
  BY DEF Inv, AttemptStart, InWorker, spool, client, signals, WakeOK,
     InAttempt, InRound, Busy
<1>6. SilenceOK'
  BY DEF Inv, client, AttemptStart, InWorker, spool, history, SilenceOK
<1> QED
  BY <1>1, <1>2, <1>3, <1>4, <1>5, <1>6 DEF Inv

\* The domain leaves the pending ones and becomes the current one.
LEMMA ResolveStep ==
    ASSUME Inv, NEW d \in Domains, Resolve(d)
    PROVE  Inv'
<1>1. TypeOK'
  BY DEF Inv, Resolve, InWorker, NextDomain, spool, client, signals, history,
     network, TypeOK, WorkerStates, InAttempt, InRound
<1>2. EnqueueOK'
  BY DEF Inv, Resolve, InWorker, NextDomain, spool, client, history,
     EnqueueOK, Done
<1>3. EntriesOK'
  BY DEF Inv, Resolve, InWorker, NextDomain, spool, client, history,
     EntriesOK, Done
<1>4. WorkerOK'
  BY DEF Inv, Resolve, InWorker, NextDomain, spool, client, history,
     WorkerOK, InAttempt, InRound, Holding, Done
<1>5. WakeOK'
  BY DEF Inv, Resolve, InWorker, NextDomain, spool, client, signals,
     WakeOK, InAttempt, InRound, Busy
<1>6. SilenceOK'
  BY DEF Inv, client, Resolve, InWorker, NextDomain, spool, history, SilenceOK
<1> QED
  BY <1>1, <1>2, <1>3, <1>4, <1>5, <1>6 DEF Inv

\* The recipients of the domain are deferred.
LEMMA ResolveTemporaryStep ==
    ASSUME Inv, NEW d \in Domains, ResolveTemporary(d)
    PROVE  Inv'
<1>1. TypeOK'
  BY DEF Inv, ResolveTemporary, InWorker, NextDomain, spool, client, signals,
     history, network, TypeOK, At
<1>2. EnqueueOK'
  BY DEF Inv, ResolveTemporary, InWorker, NextDomain, spool, client,
     history, EnqueueOK, Done
<1>3. EntriesOK'
  BY DEF Inv, ResolveTemporary, InWorker, NextDomain, spool, client,
     history, EntriesOK, Done
<1>4. WorkerOK'
  BY DEF Inv, ResolveTemporary, InWorker, NextDomain, spool, client,
     history, WorkerOK, Done, At
<1>5. WakeOK'
  BY DEF Inv, ResolveTemporary, InWorker, NextDomain, spool, client,
     signals, WakeOK, Busy
<1>6. SilenceOK'
  BY DEF Inv, client, ResolveTemporary, InWorker, NextDomain, spool, history,
     SilenceOK
<1> QED
  BY <1>1, <1>2, <1>3, <1>4, <1>5, <1>6 DEF Inv

\* The domain is now the one to be bounced.
LEMMA ResolvePermanentStep ==
    ASSUME Inv, NEW d \in Domains, ResolvePermanent(d)
    PROVE  Inv'
<1>1. TypeOK'
  BY DEF Inv, ResolvePermanent, InWorker, NextDomain, spool, client, signals,
     history, network, TypeOK, WorkerStates, InAttempt, InRound
<1>2. EnqueueOK'
  BY DEF Inv, ResolvePermanent, InWorker, NextDomain, spool, client,
     history, EnqueueOK, Done
<1>3. EntriesOK'
  BY DEF Inv, ResolvePermanent, InWorker, NextDomain, spool, client,
     history, EntriesOK, Done
<1>4. WorkerOK'
  BY DEF Inv, ResolvePermanent, InWorker, NextDomain, spool, client,
     history, WorkerOK, InAttempt, InRound, Holding, Done
<1>5. WakeOK'
  BY DEF Inv, ResolvePermanent, InWorker, NextDomain, spool, client,
     signals, WakeOK, InAttempt, InRound, Busy
<1>6. SilenceOK'
  BY DEF Inv, client, ResolvePermanent, InWorker, NextDomain, spool, history,
     SilenceOK
<1> QED
  BY <1>1, <1>2, <1>3, <1>4, <1>5, <1>6 DEF Inv

\* A host that takes the message adds one copy per recipient of the domain.
LEMMA HostTakesType ==
    ASSUME TypeOK, HostTakes
    PROVE  taken' \in [Msgs -> [Rcpts -> Nat]]
<1>1. CASE cur \in Msgs
  <2>1. taken[cur] \in [Rcpts -> Nat]
    BY <1>1 DEF TypeOK
  <2>2. [r \in Rcpts |-> IF r \in At(dom) THEN taken[cur][r] + 1
                                         ELSE taken[cur][r]] \in [Rcpts -> Nat]
    BY <2>1
  <2> QED
    BY <1>1, <2>2 DEF TypeOK, HostTakes
<1>2. CASE cur \notin Msgs
  <2>1. taken' = taken
    BY <1>2 DEF TypeOK, HostTakes
  <2> QED
    BY <2>1 DEF TypeOK
<1> QED
  BY <1>1, <1>2

\* An unconfirmed transaction is counted and leaves the copies well typed.
LEMMA TakenOrNotType ==
    ASSUME TypeOK, TakenOrNot
    PROVE  /\ taken' \in [Msgs -> [Rcpts -> Nat]]
           /\ lostAnswers' \in 0 .. MaxLostAnswers
<1>1. CASE UNCHANGED network
  BY <1>1 DEF TypeOK, network
<1>2. CASE /\ lostAnswers < MaxLostAnswers /\ lostAnswers' = lostAnswers + 1
           /\ HostTakes
  BY <1>2, HostTakesType, BoundsAssumption DEF TypeOK
<1> QED
  BY <1>1, <1>2 DEF TakenOrNot

\* The recipients of the domain are settled.
LEMMA SendOkStep ==
    ASSUME Inv, SendOk
    PROVE  Inv'
<1>1. TypeOK'
  <2>1. taken' \in [Msgs -> [Rcpts -> Nat]]
    BY HostTakesType DEF Inv, SendOk
  <2>2. settled' \in [Msgs -> SUBSET Rcpts]
    BY DEF Inv, SendOk, TypeOK, At
  <2>3. hosts' \in 0 .. MaxMX /\ dom' \in Domains \cup {None}
    BY BoundsAssumption DEF SendOk
  <2> QED
    BY <2>1, <2>2, <2>3 DEF Inv, SendOk, InWorker, spool, client,
       signals, TypeOK, WorkerStates, InAttempt, InRound
<1>2. EnqueueOK'
  BY DEF Inv, SendOk, InWorker, spool, client, EnqueueOK, Done
<1>3. EntriesOK'
  BY DEF Inv, SendOk, InWorker, spool, client, EntriesOK, Done
<1>4. WorkerOK'
  BY DEF Inv, SendOk, InWorker, spool, client, TypeOK, WorkerOK,
     InAttempt, InRound, Holding, Done, At
<1>5. WakeOK'
  BY DEF Inv, SendOk, InWorker, spool, client, signals, WakeOK,
     InAttempt, InRound, Busy
<1>6. SilenceOK'
  BY DEF Inv, client, SendOk, InWorker, spool, SilenceOK
<1> QED
  BY <1>1, <1>2, <1>3, <1>4, <1>5, <1>6 DEF Inv

\* The next host is tried, or the recipients are deferred.
LEMMA SendTemporaryStep ==
    ASSUME Inv, SendTemporary
    PROVE  Inv'
<1>1. TypeOK'
  <2>1. /\ taken' \in [Msgs -> [Rcpts -> Nat]]
        /\ lostAnswers' \in 0 .. MaxLostAnswers
    BY TakenOrNotType DEF Inv, SendTemporary
  <2> QED
    BY <2>1, BoundsAssumption DEF Inv, SendTemporary, InWorker, spool,
       client, signals, TypeOK, WorkerStates, InAttempt, InRound, At
<1>2. EnqueueOK'
  BY DEF Inv, SendTemporary, InWorker, spool, client,
     EnqueueOK, Done
<1>3. EntriesOK'
  BY DEF Inv, SendTemporary, InWorker, spool, client,
     EntriesOK, Done
<1>4. WorkerOK'
  BY DEF Inv, SendTemporary, InWorker, spool, client, WorkerOK,
     InAttempt, InRound, Holding, Done, At
<1>5. WakeOK'
  BY DEF Inv, SendTemporary, InWorker, spool, client, signals, WakeOK,
     InAttempt, InRound, Busy
<1>6. SilenceOK'
  BY DEF Inv, client, SendTemporary, InWorker, spool, SilenceOK
<1> QED
  BY <1>1, <1>2, <1>3, <1>4, <1>5, <1>6 DEF Inv

\* The domain stays the current one, to be bounced.
LEMMA SendPermanentStep ==
    ASSUME Inv, SendPermanent
    PROVE  Inv'
<1>1. TypeOK'
  <2>1. /\ taken' \in [Msgs -> [Rcpts -> Nat]]
        /\ lostAnswers' \in 0 .. MaxLostAnswers
    BY TakenOrNotType DEF Inv, SendPermanent
  <2> QED
    BY <2>1, BoundsAssumption DEF Inv, SendPermanent, InWorker, spool,
       client, signals, TypeOK, WorkerStates, InAttempt, InRound
<1>2. EnqueueOK'
  BY DEF Inv, SendPermanent, InWorker, spool, client,
     EnqueueOK, Done
<1>3. EntriesOK'
  BY DEF Inv, SendPermanent, InWorker, spool, client,
     EntriesOK, Done
<1>4. WorkerOK'
  BY DEF Inv, SendPermanent, InWorker, spool, client, WorkerOK,
     InAttempt, InRound, Holding, Done
<1>5. WakeOK'
  BY DEF Inv, SendPermanent, InWorker, spool, client, signals, WakeOK,
     InAttempt, InRound, Busy
<1>6. SilenceOK'
  BY DEF Inv, client, SendPermanent, InWorker, spool, SilenceOK
<1> QED
  BY <1>1, <1>2, <1>3, <1>4, <1>5, <1>6 DEF Inv

\* The recipients of the domain are settled, or dropped by a fault.
LEMMA BouncePermanentStep ==
    ASSUME Inv, BouncePermanent
    PROVE  Inv'
<1>1. TypeOK'
  <2>1. settled' \in [Msgs -> SUBSET Rcpts]
    BY BoundsAssumption DEF Inv, BouncePermanent, InWorker, Bounce, Fault,
       spool, client, signals, TypeOK, WorkerStates, InAttempt, InRound,
       At
  <2>2. unreported' \in [Msgs -> SUBSET Rcpts]
    BY BoundsAssumption DEF Inv, BouncePermanent, InWorker, Bounce, Fault,
       spool, client, signals, TypeOK, WorkerStates, InAttempt, InRound,
       At
  <2> QED
    BY <2>1, <2>2, BoundsAssumption DEF Inv, BouncePermanent, InWorker, Bounce,
       Fault, spool, client, signals, TypeOK, WorkerStates, InAttempt, InRound,
       At, network
<1>2. EnqueueOK'
  <2>1. \A m \in Msgs : Done(m) \subseteq Done(m)'
    BY DEF Inv, BouncePermanent, Bounce, TypeOK, Done
  <2> QED
    BY <2>1 DEF Inv, BouncePermanent, InWorker, spool, client, EnqueueOK
<1>3. EntriesOK'
  BY DEF Inv, BouncePermanent, InWorker, Bounce, spool, client, TypeOK,
     EntriesOK, WorkerOK, Done
<1>4. WorkerOK'
  BY DEF Inv, BouncePermanent, InWorker, Bounce, spool, client, TypeOK,
     WorkerOK, InAttempt, InRound, Holding, Done, At
<1>5. WakeOK'
  BY DEF Inv, BouncePermanent, InWorker, Bounce, Fault, spool, client,
     signals, TypeOK, WakeOK, InAttempt, InRound, Busy
<1>6. SilenceOK'
  BY DEF Inv, client, BouncePermanent, InWorker, Bounce, Fault, spool, TypeOK,
     SilenceOK
<1> QED
  BY <1>1, <1>2, <1>3, <1>4, <1>5, <1>6 DEF Inv

\* With no domain left every recipient is deferred or done.
LEMMA RoundEndStep ==
    ASSUME Inv, RoundEnd
    PROVE  Inv'
<1>1. TypeOK'
  BY DEF Inv, RoundEnd, InWorker, AfterRound, spool, client, signals, round,
     history, network, TypeOK, WorkerStates, InAttempt
<1>2. EnqueueOK'
  BY DEF Inv, RoundEnd, InWorker, spool, client, history, EnqueueOK,
     Done
<1>3. EntriesOK'
  BY DEF Inv, RoundEnd, InWorker, spool, client, history, EntriesOK,
     Done
<1>4. WorkerOK'
  <2>1. CASE deferred = {}
    <3>1. wpc' = "remove"
      BY <2>1 DEF RoundEnd, InWorker, AfterRound
    <3>2. attempts < MaxAttempts \/ deferred = {}
      BY <2>1, BoundsAssumption DEF GivesUp, Inv, TypeOK
    <3> QED
      BY <2>1, <3>1, <3>2 DEF Inv, RoundEnd, InWorker, spool, client, round,
         history, WorkerOK, InAttempt, InRound, Holding, Done
  <2>2. CASE deferred # {} /\ GivesUp(attempts)
    <3>1. wpc' = "giveup"
      BY <2>2 DEF RoundEnd, InWorker, AfterRound
    <3>2. attempts = MaxAttempts
      BY <2>2, BoundsAssumption DEF GivesUp, Inv, TypeOK
    <3> QED
      BY <2>2, <3>1, <3>2 DEF Inv, RoundEnd, InWorker, spool, client, round,
         history, WorkerOK, InAttempt, InRound, Holding, Done
  <2>3. CASE deferred # {} /\ ~GivesUp(attempts)
    <3>1. wpc' = "rewrite"
      BY <2>3 DEF RoundEnd, InWorker, AfterRound
    <3>2. attempts < MaxAttempts \/ deferred = {}
      BY <2>3, BoundsAssumption DEF GivesUp, Inv, TypeOK
    <3> QED
      BY <2>3, <3>1, <3>2 DEF Inv, RoundEnd, InWorker, spool, client, round,
         history, WorkerOK, InAttempt, InRound, Holding, Done
  <2> QED
    BY <2>1, <2>2, <2>3
<1>5. WakeOK'
  BY DEF Inv, RoundEnd, InWorker, AfterRound, spool, client, signals,
     WakeOK, InAttempt, Busy
<1>6. SilenceOK'
  BY DEF Inv, client, RoundEnd, InWorker, spool, history, SilenceOK
<1> QED
  BY <1>1, <1>2, <1>3, <1>4, <1>5, <1>6 DEF Inv

\* The deferred recipients are settled, or dropped by a fault.
LEMMA GiveUpStep ==
    ASSUME Inv, GiveUp
    PROVE  Inv'
<1>1. TypeOK'
  <2>1. settled' \in [Msgs -> SUBSET Rcpts]
    BY DEF Inv, GiveUp, Bounce, TypeOK
  <2>2. unreported' \in [Msgs -> SUBSET Rcpts]
    BY DEF Inv, GiveUp, Bounce, TypeOK
  <2>3. ioErrors' \in 0 .. MaxIoErrors
    BY BoundsAssumption DEF Inv, GiveUp, Bounce, Fault, TypeOK
  <2> QED
    BY <2>1, <2>2, <2>3 DEF Inv, GiveUp, InWorker, spool, client, signals, round, TypeOK,
       WorkerStates, InAttempt, network
<1>2. EnqueueOK'
  <2>1. /\ UNCHANGED <<sub, entry, body, envelope>>
        /\ \A m \in Msgs : Done(m) \subseteq Done(m)'
    BY DEF Inv, GiveUp, InWorker, Bounce, spool, client, TypeOK, Done
  <2> QED
    BY <2>1 DEF Inv, EnqueueOK
<1>3. EntriesOK'
  BY DEF Inv, GiveUp, InWorker, Bounce, spool, client, TypeOK,
     EntriesOK, WorkerOK, Done
<1>4. WorkerOK'
  BY DEF Inv, GiveUp, InWorker, Bounce, spool, client, round, TypeOK,
     WorkerOK, InAttempt, Holding, Done
<1>5. WakeOK'
  BY DEF Inv, GiveUp, InWorker, Bounce, Fault, spool, client, signals,
     TypeOK, WakeOK, InAttempt, Busy
<1>6. SilenceOK'
  BY DEF Inv, client, GiveUp, InWorker, Bounce, Fault, spool, TypeOK, SilenceOK
<1> QED
  BY <1>1, <1>2, <1>3, <1>4, <1>5, <1>6 DEF Inv

-----------------------------------------------------------------------------
(* writeEntry and remove. *)

\* The sidecar is torn while the worker knows who is deferred.
LEMMA RewriteOpenStep ==
    ASSUME Inv, RewriteOpen
    PROVE  Inv'
<1>1. TypeOK'
  BY DEF Inv, RewriteOpen, InWorker, client, signals, round, history, network,
     TypeOK, Entries, Torn, WorkerStates, InAttempt
<1>2. EnqueueOK'
  BY DEF Inv, RewriteOpen, InWorker, client, history, EnqueueOK,
     WorkerOK, Torn, InAttempt, Spooled, Created, Done
<1>3. EntriesOK'
  BY DEF Inv, RewriteOpen, InWorker, client, history, EntriesOK, Torn,
     Done
<1>4. WorkerOK'
  BY DEF Inv, RewriteOpen, InWorker, client, round, history, TypeOK,
     WorkerOK, Torn, InAttempt, Holding, Done
<1>5. WakeOK'
  BY DEF Inv, RewriteOpen, InWorker, client, signals, WakeOK, InAttempt,
     Busy
<1>6. SilenceOK'
  BY DEF Inv, client, RewriteOpen, InWorker, history, SilenceOK, Torn
<1> QED
  BY <1>1, <1>2, <1>3, <1>4, <1>5, <1>6 DEF Inv

\* The new sidecar lists the deferred recipients and counts the round.
LEMMA RewriteEntryStep ==
    ASSUME Inv, RewriteEntry
    PROVE  Inv'
<1>1. TypeOK'
  BY BoundsAssumption DEF Inv, RewriteEntry, BackToScan, NoRound, client,
     signals, history, network, TypeOK, Entries, QueueEntry, WorkerStates,
     WorkerOK
<1>2. EnqueueOK'
  BY DEF Inv, RewriteEntry, BackToScan, client, history, EnqueueOK,
     WorkerOK, QueueEntry, InAttempt, Spooled, Created, Done
<1>3. EntriesOK'
  BY DEF Inv, RewriteEntry, BackToScan, client, history, EntriesOK,
     WorkerOK, QueueEntry, InAttempt, Done
<1>4. WorkerOK'
  BY DEF Inv, RewriteEntry, BackToScan, WorkerOK, InAttempt, InRound,
     Holding
<1>5. WakeOK'
  BY DEF Inv, RewriteEntry, BackToScan, client, signals, WakeOK,
     WorkerOK, QueueEntry, Busy
<1>6. SilenceOK'
  BY DEF Inv, client, RewriteEntry, BackToScan, history, SilenceOK, WorkerOK
<1> QED
  BY <1>1, <1>2, <1>3, <1>4, <1>5, <1>6 DEF Inv

\* A failed rewrite leaves the old sidecar or a torn one.
LEMMA RewriteErrorStep ==
    ASSUME Inv, RewriteError
    PROVE  Inv'
<1>1. TypeOK'
  BY BoundsAssumption DEF Inv, RewriteError, BackToScan, NoRound, Fault, spool,
     client, signals, history, network, TypeOK, WorkerStates
<1>2. EnqueueOK'
  BY DEF Inv, RewriteError, BackToScan, spool, client, history,
     EnqueueOK, Done
<1>3. EntriesOK'
  BY DEF Inv, RewriteError, BackToScan, spool, client, history,
     EntriesOK, Done
<1>4. WorkerOK'
  BY DEF Inv, RewriteError, BackToScan, WorkerOK, InAttempt, InRound,
     Holding
<1>5. WakeOK'
  BY DEF Inv, RewriteError, BackToScan, Fault, TypeOK, WakeOK
<1>6. SilenceOK'
  BY DEF Inv, RewriteError, BackToScan, Fault, TypeOK, SilenceOK
<1> QED
  BY <1>1, <1>2, <1>3, <1>4, <1>5, <1>6 DEF Inv

\* The sidecar goes first, when every recipient is done.
LEMMA RemoveEntryStep ==
    ASSUME Inv, RemoveEntry
    PROVE  Inv'
<1>1. TypeOK'
  <2>1. entry' \in [Msgs -> Entries]
    <3>1. NoEntry \in Entries
      BY DEF NoEntry, Entries
    <3> QED
      BY <3>1 DEF Inv, RemoveEntry, TypeOK
  <2>2. ioErrors' \in 0 .. MaxIoErrors
    BY BoundsAssumption DEF Inv, RemoveEntry, Fault, TypeOK
  <2> QED
    BY <2>1, <2>2 DEF Inv, RemoveEntry, InWorker, client, signals, round,
       history, network, TypeOK, WorkerStates, InAttempt
<1>2. EnqueueOK'
  BY DEF Inv, RemoveEntry, InWorker, client, history, TypeOK, EnqueueOK,
     WorkerOK, InAttempt, Spooled, Created, Done
<1>3. EntriesOK'
  <2>1. \A m \in Msgs : entry'[m] = entry[m] \/ entry'[m].st = "none"
    BY DEF Inv, RemoveEntry, TypeOK, NoEntry
  <2>2. /\ UNCHANGED <<sub, body, due>>
        /\ \A m \in Msgs : Done(m)' = Done(m)
    BY DEF RemoveEntry, InWorker, client, history, Done
  <2> QED
    BY <2>1, <2>2 DEF Inv, EntriesOK
<1>4. WorkerOK'
  BY DEF Inv, RemoveEntry, InWorker, Fault, client, round, history,
     TypeOK, WorkerOK, NoEntry, InAttempt, InRound, Holding, Done
<1>5. WakeOK'
  BY DEF Inv, RemoveEntry, InWorker, Fault, client, signals, TypeOK,
     WakeOK, InAttempt, Busy
<1>6. SilenceOK'
  <2>1. \A m \in Msgs : entry'[m] = entry[m] \/ entry'[m].st = "none"
    BY DEF Inv, RemoveEntry, TypeOK, NoEntry
  <2>2. UNCHANGED <<body, folded, unreported>> /\ (ioErrors' = 0 => ioErrors = 0)
    BY DEF Inv, TypeOK, RemoveEntry, InWorker, client, history, Fault
  <2> QED
    BY <2>1, <2>2 DEF Inv, SilenceOK
<1> QED
  BY <1>1, <1>2, <1>3, <1>4, <1>5, <1>6 DEF Inv

\* The body goes; a sidecar that could not be removed lists nobody new.
LEMMA RemoveBodyStep ==
    ASSUME Inv, RemoveBody
    PROVE  Inv'
<1>1. TypeOK'
  BY BoundsAssumption DEF Inv, RemoveBody, BackToScan, NoRound, Fault, client,
     signals, history, network, TypeOK, WorkerStates
<1>2. EnqueueOK'
  BY DEF Inv, RemoveBody, BackToScan, client, history, TypeOK,
     EnqueueOK, WorkerOK, InAttempt, Spooled, Created, Done
<1>3. EntriesOK'
  BY DEF Inv, RemoveBody, BackToScan, client, history, TypeOK,
     EntriesOK, WorkerOK, Done
<1>4. WorkerOK'
  BY DEF Inv, RemoveBody, BackToScan, WorkerOK, InAttempt, InRound,
     Holding
<1>5. WakeOK'
  BY DEF Inv, RemoveBody, BackToScan, Fault, client, signals, TypeOK,
     WakeOK, WorkerOK, Busy
<1>6. SilenceOK'
  BY DEF Inv, client, RemoveBody, BackToScan, Fault, history, TypeOK, SilenceOK,
     WorkerOK
<1> QED
  BY <1>1, <1>2, <1>3, <1>4, <1>5, <1>6 DEF Inv

-----------------------------------------------------------------------------
(* The select of run. *)

\* The worker ends only when stop is closed.
LEMMA SelectStopStep ==
    ASSUME Inv, SelectStop
    PROVE  Inv'
<1>1. TypeOK'
  BY DEF Inv, SelectStop, spool, client, signals, round, history, network,
     faults, TypeOK, WorkerStates
<1>2. EnqueueOK'
  BY DEF Inv, SelectStop, spool, client, history, EnqueueOK, Done
<1>3. EntriesOK'
  BY DEF Inv, SelectStop, spool, client, history, EntriesOK, Done
<1>4. WorkerOK'
  BY DEF Inv, SelectStop, WorkerOK, InAttempt, InRound, Holding
<1>5. WakeOK'
  BY DEF Inv, SelectStop, signals, WakeOK
<1>6. SilenceOK'
  BY DEF Inv, client, SelectStop, spool, history, faults, SilenceOK
<1> QED
  BY <1>1, <1>2, <1>3, <1>4, <1>5, <1>6 DEF Inv

\* The token is spent on a flush that has not read the directory yet.
LEMMA SelectWakeStep ==
    ASSUME Inv, SelectWake
    PROVE  Inv'
<1>1. TypeOK'
  BY DEF Inv, SelectWake, spool, client, round, history, network, faults,
     TypeOK, WorkerStates
<1>2. EnqueueOK'
  BY DEF Inv, SelectWake, spool, client, history, EnqueueOK, Done
<1>3. EntriesOK'
  BY DEF Inv, SelectWake, spool, client, history, EntriesOK, Done
<1>4. WorkerOK'
  BY DEF Inv, SelectWake, WorkerOK, InAttempt, InRound, Holding
<1>5. WakeOK'
  BY DEF Inv, SelectWake, WakeOK
<1>6. SilenceOK'
  BY DEF Inv, client, SelectWake, spool, history, faults, SilenceOK
<1> QED
  BY <1>1, <1>2, <1>3, <1>4, <1>5, <1>6 DEF Inv

\* A tick starts a flush.
LEMMA SelectTickStep ==
    ASSUME Inv, SelectTick
    PROVE  Inv'
<1>1. TypeOK'
  BY DEF Inv, SelectTick, spool, client, signals, round, history, network,
     faults, TypeOK, WorkerStates
<1>2. EnqueueOK'
  BY DEF Inv, SelectTick, spool, client, history, EnqueueOK, Done
<1>3. EntriesOK'
  BY DEF Inv, SelectTick, spool, client, history, EntriesOK, Done
<1>4. WorkerOK'
  BY DEF Inv, SelectTick, WorkerOK, InAttempt, InRound, Holding
<1>5. WakeOK'
  BY DEF Inv, SelectTick, WakeOK
<1>6. SilenceOK'
  BY DEF Inv, client, SelectTick, spool, history, faults, SilenceOK
<1> QED
  BY <1>1, <1>2, <1>3, <1>4, <1>5, <1>6 DEF Inv

-----------------------------------------------------------------------------
(* The life of the process. *)

\* A new process flushes first.
LEMMA StartStep ==
    ASSUME Inv, Start
    PROVE  Inv'
<1>1. TypeOK'
  BY DEF Inv, Start, spool, client, round, history, network, faults, TypeOK,
     WorkerStates
<1>2. EnqueueOK'
  BY DEF Inv, Start, spool, client, history, EnqueueOK, Done
<1>3. EntriesOK'
  BY DEF Inv, Start, spool, client, history, EntriesOK, Done
<1>4. WorkerOK'
  BY DEF Inv, Start, WorkerOK, InAttempt, InRound, Holding
<1>5. WakeOK'
  BY DEF Inv, Start, WakeOK
<1>6. SilenceOK'
  BY DEF Inv, client, Start, spool, history, faults, SilenceOK
<1> QED
  BY <1>1, <1>2, <1>3, <1>4, <1>5, <1>6 DEF Inv

\* Closing stop changes nothing else.
LEMMA ShutdownStep ==
    ASSUME Inv, Shutdown
    PROVE  Inv'
<1>1. TypeOK'
  BY BoundsAssumption DEF Inv, Shutdown, spool, client, round, worker, history,
     network, TypeOK
<1>2. EnqueueOK'
  BY DEF Inv, Shutdown, spool, client, history, EnqueueOK, Done
<1>3. EntriesOK'
  BY DEF Inv, Shutdown, spool, client, history, EntriesOK, Done
<1>4. WorkerOK'
  BY DEF Inv, Shutdown, spool, client, round, worker, history, WorkerOK,
     Done
<1>5. WakeOK'
  BY DEF Inv, Shutdown, WakeOK, worker
<1>6. SilenceOK'
  BY DEF Inv, client, Shutdown, spool, history, SilenceOK
<1> QED
  BY <1>1, <1>2, <1>3, <1>4, <1>5, <1>6 DEF Inv

\* What is on disk stays; a call in progress is never acknowledged.
LEMMA ExitStep ==
    ASSUME Inv, Exit
    PROVE  Inv'
<1>1. TypeOK'
  <2>1. sub' \in [Msgs -> SubStates]
    BY BoundsAssumption DEF Inv, Exit, Gone, NoRound, spool, history,
       TypeOK, SubStates, WorkerStates
  <2>2. wpc' \in WorkerStates /\ attempts' \in 0 .. MaxAttempts /\ hosts' \in 0 .. MaxMX
    BY BoundsAssumption DEF Inv, Exit, Gone, NoRound, spool, history,
       TypeOK, SubStates, WorkerStates
  <2>3. UNCHANGED <<spool, envelope, history, ioErrors, shutdowns>>
    BY BoundsAssumption DEF Inv, Exit, Gone, NoRound, spool, history,
       TypeOK, SubStates, WorkerStates
  <2> QED
    BY <2>1, <2>2, <2>3, BoundsAssumption DEF Inv, Exit, Gone, NoRound, spool,
       history, network, TypeOK, SubStates, WorkerStates
<1>2. EnqueueOK'
  BY DEF Inv, Exit, Gone, spool, history, EnqueueOK, Spooled, Done
<1>3. EntriesOK'
  BY DEF Inv, Exit, Gone, spool, history, EntriesOK, Created, Done
<1>4. WorkerOK'
  BY DEF Inv, Exit, Gone, WorkerOK, InAttempt, InRound, Holding
<1>5. WakeOK'
  BY DEF Inv, Exit, Gone, WakeOK
<1>6. SilenceOK'
  BY DEF Inv, Exit, Gone, spool, history, SilenceOK
<1> QED
  BY <1>1, <1>2, <1>3, <1>4, <1>5, <1>6 DEF Inv

\* What is on disk stays; a call in progress is never acknowledged.
LEMMA CrashStep ==
    ASSUME Inv, Crash
    PROVE  Inv'
<1>1. TypeOK'
  <2>1. sub' \in [Msgs -> SubStates]
    BY BoundsAssumption DEF Inv, Crash, Gone, NoRound, spool, history,
       TypeOK, SubStates, WorkerStates
  <2>2. wpc' \in WorkerStates /\ attempts' \in 0 .. MaxAttempts /\ hosts' \in 0 .. MaxMX
    BY BoundsAssumption DEF Inv, Crash, Gone, NoRound, spool, history,
       TypeOK, SubStates, WorkerStates
  <2>3. crashes' \in 0 .. MaxCrashes
    BY BoundsAssumption DEF Inv, Crash, Gone, NoRound, spool, history,
       TypeOK, SubStates, WorkerStates
  <2>4. UNCHANGED <<spool, envelope, history, ioErrors, shutdowns>>
    BY BoundsAssumption DEF Inv, Crash, Gone, NoRound, spool, history,
       TypeOK, SubStates, WorkerStates
  <2> QED
    BY <2>1, <2>2, <2>3, <2>4, BoundsAssumption DEF Inv, Crash, Gone, NoRound,
       spool, history, network, TypeOK, SubStates, WorkerStates
<1>2. EnqueueOK'
  BY DEF Inv, Crash, Gone, spool, history, EnqueueOK, Spooled, Done
<1>3. EntriesOK'
  BY DEF Inv, Crash, Gone, spool, history, EntriesOK, Created, Done
<1>4. WorkerOK'
  BY DEF Inv, Crash, Gone, WorkerOK, InAttempt, InRound, Holding
<1>5. WakeOK'
  BY DEF Inv, Crash, Gone, WakeOK
<1>6. SilenceOK'
  BY DEF Inv, Crash, Gone, spool, history, SilenceOK
<1> QED
  BY <1>1, <1>2, <1>3, <1>4, <1>5, <1>6 DEF Inv

-----------------------------------------------------------------------------
\* Every step of the relay keeps the invariant.
LEMMA NextInv == Inv /\ [Next]_vars => Inv'
<1> SUFFICES ASSUME Inv, [Next]_vars PROVE Inv'
  OBVIOUS
<1>1. ASSUME NEW m \in Msgs, Enqueue(m)
      PROVE  Inv'
  BY <1>1, EnqueueStartStep, EnqueueBodyStep, EnqueueOpenStep, EnqueueEntryStep,
     EnqueueSignalStep, EnqueueBodyErrorStep, EnqueueEntryErrorStep DEF Enqueue
<1>2. CASE Deliver
  <2>1. ASSUME NEW d \in Domains,
               Resolve(d) \/ ResolveTemporary(d) \/ ResolvePermanent(d)
        PROVE  Inv'
    BY <2>1, ResolveStep, ResolveTemporaryStep, ResolvePermanentStep
  <2>2. CASE SendOk \/ SendTemporary \/ SendPermanent
    BY <2>2, SendOkStep, SendTemporaryStep, SendPermanentStep
  <2>3. CASE RewriteOpen \/ RewriteEntry \/ RewriteError \/ RemoveEntry \/ RemoveBody
    BY <2>3, RewriteOpenStep, RewriteEntryStep, RewriteErrorStep,
       RemoveEntryStep, RemoveBodyStep
  <2> QED
    BY <1>2, <2>1, <2>2, <2>3, AttemptDropStep, AttemptStartStep,
       BouncePermanentStep, RoundEndStep, GiveUpStep DEF Deliver
<1>3. CASE Worker
  BY <1>3, <1>2, ReadDirStep, FlushEndStep, SkipStep, AttemptStep,
     SelectStopStep, SelectWakeStep, SelectTickStep DEF Worker, Work
<1>4. CASE UNCHANGED vars
  <2>1. TypeOK' /\ EnqueueOK' /\ EntriesOK'
    BY <1>4 DEF vars, spool, client, signals, round, worker, history, network,
       faults, Inv, TypeOK, EnqueueOK, EntriesOK, Done
  <2>2. WorkerOK' /\ WakeOK' /\ SilenceOK'
    BY <1>4 DEF vars, spool, client, signals, round, worker, history, faults,
       Inv, WorkerOK, WakeOK, SilenceOK, Done, Busy
  <2> QED
    BY <2>1, <2>2 DEF Inv
<1> QED
  BY <1>1, <1>3, <1>4, TimePassesStep, StartStep, ShutdownStep, ExitStep,
     CrashStep DEF Next

\* The invariant holds in every behaviour.
LEMMA Invariance == Spec => []Inv
  BY InitInv, NextInv, PTL DEF Spec

-----------------------------------------------------------------------------
\* The state of the relay always has its type; in particular the attempts of
\* the message in hand never exceed queueMaxAttempts.
THEOREM TypeCorrect == Spec => []TypeOK
<1>1. Inv => TypeOK
  BY DEF Inv
<1> QED
  BY <1>1, Invariance, PTL

\* No interleaving of enqueue and the worker, no crash and no failing system
\* call loses a recipient of an accepted message, torn sidecars and the
\* drops that the history records apart.
THEOREM NothingIsLost == Spec => []NothingLost
<1>1. Inv => NothingLost
  <2> SUFFICES ASSUME Inv, NEW m \in Msgs, sub[m] = "acked",
                      NEW r \in envelope[m], r \notin Done(m),
                      entry[m].st # "torn"
               PROVE  entry[m].st = "ok" /\ r \in entry[m].to /\ body[m] = "full"
    BY DEF NothingLost
  <2>1. entry[m].st = "ok" /\ r \in entry[m].to
    BY DEF Inv, EnqueueOK, Spooled
  <2> QED
    BY <2>1 DEF Inv, EntriesOK
<1> QED
  BY <1>1, Invariance, PTL

\* The relay drops a recipient without telling the sender only after a failing
\* call, or if the sender's address was spelt with other case than its ID.
THEOREM NoDropIsSilent == Spec => []NoSilentDrop
<1>1. Inv => NoSilentDrop
  BY DEF Inv, TypeOK, SilenceOK, NoSilentDrop
<1> QED
  BY <1>1, Invariance, PTL

\* The wake-up of a message nobody has tried is never lost.
THEOREM NoWakeupIsLost == Spec => []NoLostWakeup
<1>1. Inv => NoLostWakeup
  <2> SUFFICES ASSUME Inv, wpc = "select", ~stop, ioErrors = 0, NEW m \in Msgs,
                      sub[m] = "acked", entry[m].st = "ok", entry[m].attempts = 0
               PROVE  wake
    BY DEF NoLostWakeup
  <2>1. listing = {}
    BY DEF Inv, WakeOK
  <2> QED
    BY <2>1 DEF Inv, WakeOK, Busy, InAttempt, InRound
<1> QED
  BY <1>1, Invariance, PTL

-----------------------------------------------------------------------------
(***************************************************************************)
(* The spool and the copies.  SpoolExact and CopiesAccounted rest on whom  *)
(* the relay may still send a message to (Open): only a failing call or a  *)
(* crash ever adds somebody to them.                                       *)
(***************************************************************************)

InRewrite == {"giveup", "rewrite", "rewriting"}

\* Those that the round has not come to, and those it has put off.
Left == {r \in rcpts : \/ DomainOf[r] \in pending
                       \/ wpc # "deliver" /\ DomainOf[r] = dom
                       \/ r \in deferred}

\* The recipients of m that a later step, or a later round over the same
\* sidecar, sends the message to or reports as failed.
Open(m) ==
    IF ~Busy(m) \/ wpc \in {"attempt", "remove2"}
    THEN IF entry[m].st = "ok" THEN entry[m].to ELSE {}
    ELSE IF wpc = "remove" THEN {}
    ELSE IF wpc \in InRewrite THEN deferred
    ELSE Left

\* A round sorts the recipients by domain, and visits each domain once.
RoundOK ==
    /\ wpc \in InRound \cup InRewrite => deferred \subseteq rcpts
    /\ wpc \in InRewrite => deferred # {}
    /\ wpc \in InRound => \A r \in deferred :
         DomainOf[r] \notin pending /\ (wpc # "deliver" => DomainOf[r] # dom)
    /\ wpc \in {"send", "bounce"} => dom \in Domains \ pending

\* Nobody has heard of a message before it is spooled.
FreshOK ==
    \A m \in Msgs :
        /\ sub[m] \notin Created =>
             Done(m) = {} /\ \A r \in Rcpts : taken[m][r] = 0
        /\ sub[m] # "idle" => envelope[m] # {}

Paid == crashes + ioErrors + lostAnswers

\* A copy that was not paid for has closed its recipient.
CopiesOK ==
    \A m \in Msgs : \A r \in Rcpts :
        taken[m][r] <= Paid + (IF r \in Open(m) THEN 0 ELSE 1)

Exact(m) ==
    \/ /\ entry[m].st = "ok" /\ body[m] = "full"
       /\ entry[m].to = envelope[m] \ Done(m)
       /\ entry[m].to # {}
    \/ /\ entry[m].st = "none" /\ body[m] = "none"
       /\ Done(m) = envelope[m]

\* Without faults who is settled is closed, and the spool exact.
ExactOK ==
    NoFault => \A m \in Msgs :
        /\ Done(m) \subseteq envelope[m]
        /\ Open(m) \subseteq envelope[m] \ Done(m)
        /\ sub[m] \in Spooled /\ ~Busy(m) => Exact(m)
        /\ lostAnswers = 0 => \A r \in Rcpts : taken[m][r] = 0 \/ r \in Done(m)

SpoolInv ==
    /\ Inv
    /\ RoundOK
    /\ FreshOK
    /\ CopiesOK
    /\ ExactOK

\* The empty spool satisfies it.
LEMMA SpoolInitInv == Init => SpoolInv
<1> SUFFICES ASSUME Init PROVE SpoolInv
  OBVIOUS
<1>1. /\ wpc = "off" /\ crashes = 0 /\ ioErrors = 0 /\ lostAnswers = 0
      /\ \A m \in Msgs : /\ entry[m].st = "none" /\ sub[m] = "idle"
                         /\ Done(m) = {} /\ envelope[m] = {}
                         /\ \A r \in Rcpts : taken[m][r] = 0
  BY DEF Init, NoEntry, Done
<1>2. \A m \in Msgs : Open(m) = {} /\ ~Busy(m)
  BY <1>1 DEF Open, Busy, InAttempt, InRound
<1>3. RoundOK /\ FreshOK
  BY <1>1 DEF RoundOK, FreshOK, InRound, InRewrite
<1>4. CopiesOK
  BY <1>1, <1>2 DEF CopiesOK, Paid
<1>5. ExactOK
  BY <1>1, <1>2 DEF ExactOK, Spooled
<1> QED
  BY <1>3, <1>4, <1>5, InitInv DEF SpoolInv

-----------------------------------------------------------------------------
(* What a step does to the open recipients of a message, and for them. *)

Fails == crashes' = crashes + 1 \/ ioErrors' = ioErrors + 1

Counts ==
    \/ UNCHANGED <<crashes, ioErrors, lostAnswers>>
    \/ crashes' = crashes + 1 /\ UNCHANGED <<ioErrors, lostAnswers>>
    \/ ioErrors' = ioErrors + 1 /\ UNCHANGED <<crashes, lostAnswers>>
    \/ lostAnswers' = lostAnswers + 1 /\ UNCHANGED <<crashes, ioErrors>>

\* Unless it fails, a step opens nobody, the write of a new sidecar apart;
\* it settles only who was open, and closes them; and a copy goes to somebody
\* who was open, whom it settles and closes if the answer is not lost.
Effect(m) ==
    /\ \/ Open(m)' \subseteq Open(m)
       \/ Fails
       \/ sub[m] = "entryOpen" /\ Open(m)' = envelope[m]
    /\ Done(m) \subseteq Done(m)'
    /\ Done(m)' \ Done(m) \subseteq Open(m) \ Open(m)'
    /\ \A r \in Rcpts :
        \/ taken'[m][r] = taken[m][r]
        \/ /\ taken'[m][r] = taken[m][r] + 1 /\ r \in Open(m)
           /\ \/ lostAnswers' = lostAnswers + 1
              \/ r \in Done(m)' \ Open(m)'

\* What every step is shown to do.
Step == /\ \A m \in Msgs : Effect(m)
        /\ RoundOK'
        /\ Counts

\* A step that settles nobody and sends nothing.
LEMMA SilentEffect ==
    ASSUME UNCHANGED <<settled, unreported, taken>>, NEW m \in Msgs,
           \/ Open(m)' \subseteq Open(m)
           \/ Fails
           \/ sub[m] = "entryOpen" /\ Open(m)' = envelope[m]
    PROVE  Effect(m)
  BY DEF Effect, Done

\* The worker stands still.
LEMMA WorkerStands ==
    ASSUME SpoolInv, UNCHANGED worker, UNCHANGED <<settled, unreported, taken>>, Counts,
           \A m \in Msgs : \/ entry'[m] = entry[m]
                           \/ entry'[m].st # "ok"
                           \/ /\ sub[m] = "entryOpen"
                              /\ entry'[m] = QueueEntry(envelope[m], 0)
    PROVE  Step
<1>1. RoundOK'
  BY DEF SpoolInv, RoundOK, worker, round
<1>2. ASSUME NEW m \in Msgs PROVE Effect(m)
  <2>1. CASE entry'[m] = entry[m] \/ entry'[m].st # "ok"
    <3>0. Left' = Left /\ wpc' = wpc /\ cur' = cur /\ deferred' = deferred
      BY DEF Left, worker, round
    <3>1. Open(m)' \subseteq Open(m)
      BY <2>1, <3>0 DEF Open, Busy
    <3> QED
      BY <3>1, SilentEffect
  <2>2. CASE sub[m] = "entryOpen" /\ entry'[m] = QueueEntry(envelope[m], 0)
    <3>1. ~Busy(m)
      BY <2>2 DEF SpoolInv, Inv, WorkerOK, Busy, Created, Spooled
    <3>2. Open(m)' = envelope[m]
      BY <2>2, <3>1 DEF Open, Busy, worker, QueueEntry
    <3> QED
      BY <2>2, <3>2, SilentEffect
  <2> QED
    BY <1>2, <2>1, <2>2
<1> QED
  BY <1>1, <1>2 DEF Step

\* The worker is outside attempt before and after.
LEMMA WorkerAway ==
    ASSUME wpc \notin InAttempt, wpc' \notin InAttempt, Counts,
           UNCHANGED <<entry, settled, unreported, taken>>
    PROVE  Step
<1>1. RoundOK'
  BY DEF RoundOK, InAttempt, InRound, InRewrite
<1>2. ASSUME NEW m \in Msgs PROVE Effect(m)
  <2>1. Open(m)' \subseteq Open(m)
    BY DEF Open, Busy
  <2> QED
    BY <2>1, SilentEffect
<1> QED
  BY <1>1, <1>2 DEF Step

LEMMA EnqueueEffect ==
    ASSUME SpoolInv, NEW m \in Msgs, Enqueue(m)
    PROVE  Step
<1>1. UNCHANGED worker /\ UNCHANGED <<settled, unreported, taken>>
  BY DEF Enqueue, EnqueueStart, EnqueueBody, EnqueueOpen, EnqueueEntry, EnqueueSignal,
         EnqueueBodyError, EnqueueEntryError, Spooling, history, network
<1>2. Counts
  BY DEF Enqueue, EnqueueStart, EnqueueBody, EnqueueOpen, EnqueueEntry, EnqueueSignal,
         EnqueueBodyError, EnqueueEntryError, Spooling, history, network, Fault, Counts
<1>3. \/ entry' = entry
      \/ entry' = [entry EXCEPT ![m] = Torn]
      \/ /\ sub[m] = "entryOpen"
         /\ entry' = [entry EXCEPT ![m] = QueueEntry(envelope[m], 0)]
  BY DEF Enqueue, EnqueueStart, EnqueueBody, EnqueueOpen, EnqueueEntry, EnqueueSignal,
         EnqueueBodyError, EnqueueEntryError, Spooling, spool
<1>4. \A n \in Msgs : \/ entry'[n] = entry[n]
                      \/ entry'[n].st # "ok"
                      \/ /\ sub[n] = "entryOpen"
                         /\ entry'[n] = QueueEntry(envelope[n], 0)
  BY <1>3 DEF SpoolInv, Inv, TypeOK, Torn
<1> QED
  BY <1>1, <1>2, <1>4, WorkerStands

LEMMA OutsideEffect ==
    ASSUME SpoolInv,
           \/ \E m \in Msgs : TimePasses(m) \/ Skip(m)
           \/ ReadDir \/ FlushEnd \/ SelectStop \/ SelectWake \/ SelectTick
           \/ Start \/ Shutdown \/ Exit
    PROVE  Step
<1>1. Counts /\ UNCHANGED <<entry, settled, unreported, taken>>
  BY DEF TimePasses, Skip, Visit, ReadDir, FlushEnd, SelectStop, SelectWake, SelectTick,
         Start, Shutdown, Exit, Gone, spool, history, network, faults, Fault, Counts
<1>2. \/ UNCHANGED worker
      \/ wpc \notin InAttempt /\ wpc' \notin InAttempt
  BY DEF TimePasses, Skip, Visit, ReadDir, FlushEnd, SelectStop, SelectWake, SelectTick,
         Start, Shutdown, Exit, Gone, InAttempt, InRound
<1> QED
  BY <1>1, <1>2, WorkerStands, WorkerAway

LEMMA AttemptEffect ==
    ASSUME SpoolInv, NEW m \in Msgs, Attempt(m)
    PROVE  Step
<1>1. /\ wpc = "scan" /\ wpc' = "attempt" /\ UNCHANGED <<entry, settled, unreported, taken>>
      /\ UNCHANGED <<crashes, ioErrors, lostAnswers>>
  BY DEF Attempt, Visit, spool, history, network
<1>2. RoundOK'
  BY <1>1 DEF RoundOK, InRound, InRewrite
<1>3. ASSUME NEW n \in Msgs PROVE Effect(n)
  <2>1. Open(n)' = Open(n)
    BY <1>1 DEF Open, Busy, InAttempt, InRound
  <2> QED
    BY <1>1, <2>1, SilentEffect
<1> QED
  BY <1>1, <1>2, <1>3 DEF Step, Counts

\* A step of attempt: of the other messages it changes nothing.
LEMMA WorkerEffect ==
    ASSUME SpoolInv, NEW c \in Msgs, cur = c, wpc \in InAttempt,
           cur' = c \/ wpc' \notin InAttempt,
           \A m \in Msgs \ {c} : /\ entry'[m] = entry[m] /\ Done(m)' = Done(m)
                                 /\ taken'[m] = taken[m],
           Effect(c), RoundOK', Counts
    PROVE  Step
<1>1. ASSUME NEW m \in Msgs \ {c} PROVE Effect(m)
  <2>1. Open(m)' = Open(m)
    BY DEF Open, Busy
  <2> QED
    BY <2>1 DEF Effect
<1> QED
  BY <1>1 DEF Step

\* A step of the round that settles nobody and sends nothing.
LEMMA QuietRound ==
    ASSUME SpoolInv, NEW c \in Msgs, cur = c,
           AttemptStart \/ RoundEnd
             \/ \E d \in Domains : Resolve(d) \/ ResolveTemporary(d) \/ ResolvePermanent(d)
    PROVE  Step
<1>1. /\ wpc \in InAttempt /\ wpc' \in InAttempt /\ cur' = c /\ Counts
      /\ UNCHANGED <<entry, settled, unreported, taken, rcpts>>
  BY DEF AttemptStart, RoundEnd, AfterRound, Resolve, ResolveTemporary, ResolvePermanent,
         NextDomain, InWorker, spool, round, history, network, Counts, InAttempt, InRound
<1>0. \A m \in Msgs : Done(m)' = Done(m)
  BY <1>1 DEF Done
<1>2. CASE AttemptStart
  <2>1. /\ wpc = "attempt" /\ wpc' = "deliver" /\ deferred' = {}
    BY <1>2 DEF AttemptStart, InWorker
  <2>2. Open(c) = rcpts /\ Open(c)' \subseteq rcpts
    BY <1>1, <2>1 DEF Open, Left, Busy, InAttempt, InRound, InRewrite, SpoolInv, Inv, WorkerOK, Holding
  <2>3. RoundOK'
    BY <2>1 DEF RoundOK, InRewrite
  <2> QED
    BY <1>0, <1>1, <2>2, <2>3, SilentEffect, WorkerEffect
<1>3. ASSUME NEW d \in Domains,
             Resolve(d) \/ ResolveTemporary(d) \/ ResolvePermanent(d)
      PROVE  Step
  <2>1. /\ wpc = "deliver" /\ d \in pending /\ pending' = pending \ {d}
        /\ \/ wpc' \in {"send", "bounce"} /\ dom' = d /\ deferred' = deferred
           \/ wpc' = "deliver" /\ deferred' = deferred \cup At(d)
    BY <1>3 DEF Resolve, ResolveTemporary, ResolvePermanent, NextDomain, InWorker
  <2>2. /\ deferred \subseteq rcpts
        /\ \A r \in deferred : DomainOf[r] \notin pending
    BY <2>1 DEF SpoolInv, RoundOK, InRound
  <2>3. Open(c) = Left
    BY <2>1 DEF Open, Busy, InAttempt, InRound, InRewrite
  <2>4. Open(c)' = Left'
    <3>1. cur' = c /\ wpc' \in {"deliver", "send", "bounce"}
      BY <1>1, <2>1
    <3> QED
      BY <3>1 DEF Open, Busy, InAttempt, InRound, InRewrite
  <2>5. Open(c)' \subseteq Open(c)
    BY <1>1, <2>1, <2>3, <2>4 DEF Left, At
  <2>6. RoundOK'
    BY <1>1, <2>1, <2>2 DEF RoundOK, InRound, InRewrite, At
  <2> QED
    BY <1>0, <1>1, <2>5, <2>6, SilentEffect, WorkerEffect
<1>4. CASE RoundEnd
  <2>1. /\ wpc = "deliver" /\ pending = {} /\ wpc' = AfterRound /\ deferred' = deferred
    BY <1>4 DEF RoundEnd, InWorker, round
  <2>2. /\ wpc' = "remove" \/ (wpc' \in {"giveup", "rewrite"} /\ deferred # {})
    BY <2>1 DEF AfterRound
  <2>3. deferred \subseteq rcpts
    BY <2>1 DEF SpoolInv, RoundOK, InRound
  <2>4. Open(c) = deferred
    BY <2>1, <2>3 DEF Open, Left, Busy, InAttempt, InRound, InRewrite
  <2>5. Open(c)' \subseteq deferred
    BY <1>1, <2>1, <2>2 DEF Open, Busy, InAttempt, InRound, InRewrite
  <2>6. RoundOK'
    BY <1>1, <2>1, <2>2, <2>3 DEF RoundOK, InRound, InRewrite
  <2> QED
    BY <1>0, <1>1, <2>4, <2>5, <2>6, SilentEffect, WorkerEffect
<1> QED
  BY <1>2, <1>3, <1>4

\* The recipients at the domain in hand are open, and nothing else of the round
\* keeps them so.
LEMMA AtOpen ==
    ASSUME SpoolInv, NEW c \in Msgs, cur = c, wpc \in {"send", "bounce"}
    PROVE  /\ Open(c) = Left /\ At(dom) \subseteq Open(c)
           /\ dom \in Domains \ pending /\ deferred \subseteq rcpts
           /\ \A r \in deferred : DomainOf[r] \notin pending /\ DomainOf[r] # dom
<1>1. Open(c) = Left
  BY DEF Open, Busy, InAttempt, InRound, InRewrite
<1>2. At(dom) \subseteq Left
  BY DEF At, Left
<1> QED
  BY <1>1, <1>2 DEF SpoolInv, RoundOK, InRound

\* What is left when the recipients of the domain in hand are done with.
LEMMA DomainDone ==
    ASSUME SpoolInv, NEW c \in Msgs, cur = c, wpc \in {"send", "bounce"},
           wpc' = "deliver", cur' = c, UNCHANGED <<rcpts, pending, deferred>>
    PROVE  /\ Open(c)' \subseteq Open(c) /\ Open(c)' \cap At(dom) = {}
           /\ At(dom) \subseteq Open(c) /\ RoundOK'
<1>1. /\ Open(c) = Left /\ At(dom) \subseteq Open(c)
      /\ dom \in Domains \ pending /\ deferred \subseteq rcpts
      /\ \A r \in deferred : DomainOf[r] \notin pending /\ DomainOf[r] # dom
  BY AtOpen
<1>2. Open(c)' = Left'
  BY DEF Open, Busy, InAttempt, InRound, InRewrite
<1>3. Left' \subseteq Left /\ Left' \cap At(dom) = {}
  BY <1>1 DEF Left, At
<1>4. RoundOK'
  BY <1>1 DEF RoundOK, InRound, InRewrite
<1> QED
  BY <1>1, <1>2, <1>3, <1>4

LEMMA HostTakesCopies ==
    ASSUME SpoolInv, NEW c \in Msgs, cur = c, HostTakes
    PROVE  /\ \A m \in Msgs \ {c} : taken'[m] = taken[m]
           /\ \A r \in Rcpts : taken'[c][r] = IF r \in At(dom) THEN taken[c][r] + 1
                                                               ELSE taken[c][r]
<1>1. taken \in [Msgs -> [Rcpts -> Nat]]
  BY DEF SpoolInv, Inv, TypeOK
<1> QED
  BY <1>1 DEF HostTakes

LEMMA SendOkEffect ==
    ASSUME SpoolInv, NEW c \in Msgs, cur = c, SendOk
    PROVE  Step
<1>1. /\ wpc = "send" /\ wpc' = "deliver" /\ cur' = c /\ HostTakes
      /\ UNCHANGED <<rcpts, pending, deferred, entry, crashes, ioErrors, lostAnswers>>
      /\ settled' = [settled EXCEPT ![c] = @ \cup At(dom)] /\ unreported' = unreported
  BY DEF SendOk, InWorker, spool
<1>2. /\ Open(c)' \subseteq Open(c) /\ Open(c)' \cap At(dom) = {}
      /\ At(dom) \subseteq Open(c) /\ RoundOK'
  BY <1>1, DomainDone
<1>3. /\ Done(c)' = Done(c) \cup At(dom)
      /\ \A m \in Msgs \ {c} : Done(m)' = Done(m)
  BY <1>1 DEF SpoolInv, Inv, TypeOK, Done
<1>4. /\ \A m \in Msgs \ {c} : taken'[m] = taken[m]
      /\ \A r \in Rcpts : \/ taken'[c][r] = taken[c][r]
                          \/ r \in At(dom) /\ taken'[c][r] = taken[c][r] + 1
  BY <1>1, HostTakesCopies
<1>5. Effect(c)
  BY <1>2, <1>3, <1>4 DEF Effect
<1> QED
  BY <1>1, <1>2, <1>3, <1>4, <1>5, WorkerEffect DEF Counts, InAttempt, InRound

LEMMA TakenOrNotCopies ==
    ASSUME SpoolInv, NEW c \in Msgs, cur = c, TakenOrNot
    PROVE  /\ \A m \in Msgs \ {c} : taken'[m] = taken[m]
           /\ \/ UNCHANGED <<taken, lostAnswers>>
              \/ /\ lostAnswers' = lostAnswers + 1
                 /\ \A r \in Rcpts : \/ taken'[c][r] = taken[c][r]
                                     \/ r \in At(dom) /\ taken'[c][r] = taken[c][r] + 1
  BY HostTakesCopies DEF TakenOrNot, network

LEMMA SendErrorEffect ==
    ASSUME SpoolInv, NEW c \in Msgs, cur = c, SendTemporary \/ SendPermanent
    PROVE  Step
<1>1. /\ wpc = "send" /\ cur' = c /\ TakenOrNot
      /\ UNCHANGED <<entry, settled, unreported, rcpts, pending, crashes, ioErrors>>
      /\ \/ wpc' \in {"send", "bounce"} /\ UNCHANGED <<dom, deferred>>
         \/ wpc' = "deliver" /\ deferred' = deferred \cup At(dom)
  BY DEF SendTemporary, SendPermanent, InWorker, spool
<1>2. /\ Open(c) = Left /\ At(dom) \subseteq Open(c)
      /\ dom \in Domains \ pending /\ deferred \subseteq rcpts
      /\ \A r \in deferred : DomainOf[r] \notin pending /\ DomainOf[r] # dom
  BY <1>1, AtOpen
<1>3. Open(c)' = Left'
  <2>1. wpc' \in {"send", "bounce", "deliver"} /\ cur' = c
    BY <1>1
  <2> QED
    BY <2>1 DEF Open, Busy, InAttempt, InRound, InRewrite
<1>4. Left' \subseteq Left
  BY <1>1 DEF Left, At
<1>5. RoundOK'
  BY <1>1, <1>2 DEF RoundOK, InRound, InRewrite, At
<1>6. /\ \A m \in Msgs \ {c} : taken'[m] = taken[m]
      /\ \/ UNCHANGED <<taken, lostAnswers>>
         \/ /\ lostAnswers' = lostAnswers + 1
            /\ \A r \in Rcpts : \/ taken'[c][r] = taken[c][r]
                                \/ r \in At(dom) /\ taken'[c][r] = taken[c][r] + 1
  BY <1>1, TakenOrNotCopies
<1>7. Effect(c)
  BY <1>1, <1>2, <1>3, <1>4, <1>6 DEF Effect, Done
<1>8. Counts
  BY <1>1, <1>6 DEF Counts
<1> QED
  BY <1>1, <1>5, <1>6, <1>7, <1>8, WorkerEffect DEF InAttempt, InRound, Done

\* Whether the report about rs reaches the sender or not, they are done with.
LEMMA BounceFacts ==
    ASSUME SpoolInv, NEW c \in Msgs, cur = c, NEW rs, Bounce(rs), crashes' = crashes,
           UNCHANGED network
    PROVE  /\ \A m \in Msgs \ {c} : Done(m)' = Done(m) /\ taken'[m] = taken[m]
           /\ Done(c)' = Done(c) \cup rs
           /\ taken' = taken /\ Counts
<1>1. settled \in [Msgs -> SUBSET Rcpts] /\ unreported \in [Msgs -> SUBSET Rcpts]
  BY DEF SpoolInv, Inv, TypeOK
<1>2. taken' = taken /\ Counts
  BY DEF Bounce, Fault, network, Counts
<1>3. CASE settled' = [settled EXCEPT ![c] = @ \cup rs] /\ unreported' = unreported
  BY <1>1, <1>2, <1>3 DEF Done
<1>4. CASE /\ unreported' = [unreported EXCEPT ![c] = @ \cup (rs \ settled[c])]
           /\ settled' = settled
  BY <1>1, <1>2, <1>4 DEF Done
<1> QED
  BY <1>3, <1>4 DEF Bounce

LEMMA BounceEffect ==
    ASSUME SpoolInv, NEW c \in Msgs, cur = c, BouncePermanent \/ GiveUp
    PROVE  Step
<1>1. CASE BouncePermanent
  <2>1. /\ wpc = "bounce" /\ wpc' = "deliver" /\ cur' = c /\ Bounce(At(dom))
        /\ UNCHANGED <<rcpts, pending, deferred, entry>>
        /\ crashes' = crashes /\ UNCHANGED network
    BY <1>1 DEF BouncePermanent, InWorker, spool
  <2>2. /\ Open(c)' \subseteq Open(c) /\ Open(c)' \cap At(dom) = {}
        /\ At(dom) \subseteq Open(c) /\ RoundOK'
    BY <2>1, DomainDone
  <2>3. /\ \A m \in Msgs \ {c} : Done(m)' = Done(m) /\ taken'[m] = taken[m]
        /\ Done(c)' = Done(c) \cup At(dom)
        /\ taken' = taken /\ Counts
    BY <2>1, BounceFacts
  <2>4. Effect(c)
    BY <2>2, <2>3 DEF Effect
  <2> QED
    BY <2>1, <2>2, <2>3, <2>4, WorkerEffect DEF InAttempt, InRound
<1>2. CASE GiveUp
  <2>1. /\ wpc = "giveup" /\ wpc' = "remove" /\ cur' = c /\ Bounce(deferred)
        /\ entry' = entry /\ crashes' = crashes /\ UNCHANGED network
    BY <1>2 DEF GiveUp, InWorker, spool
  <2>2. Open(c) = deferred /\ Open(c)' = {}
    BY <2>1 DEF Open, Busy, InAttempt, InRound, InRewrite
  <2>3. /\ \A m \in Msgs \ {c} : Done(m)' = Done(m) /\ taken'[m] = taken[m]
        /\ Done(c)' = Done(c) \cup deferred
        /\ taken' = taken /\ Counts
    BY <2>1, BounceFacts
  <2>4. Effect(c)
    BY <2>2, <2>3 DEF Effect
  <2>5. RoundOK'
    BY <2>1 DEF RoundOK, InRound, InRewrite
  <2> QED
    BY <2>1, <2>3, <2>4, <2>5, WorkerEffect DEF InAttempt
<1> QED
  BY <1>1, <1>2

\* The end of attempt: the sidecar is rewritten or removed.
LEMMA EndEffect ==
    ASSUME SpoolInv, NEW c \in Msgs, cur = c,
           \/ AttemptDrop \/ RewriteOpen \/ RewriteEntry \/ RewriteError
           \/ RemoveEntry \/ RemoveBody
    PROVE  Step
<1>1. /\ wpc \in InAttempt /\ (cur' = c \/ wpc' \notin InAttempt) /\ Counts
      /\ UNCHANGED <<settled, taken>>
      /\ AttemptDrop \/ UNCHANGED unreported
  BY DEF AttemptDrop, RewriteOpen, RewriteEntry, RewriteError, RemoveEntry, RemoveBody,
         InWorker, BackToScan, spool, history, network, Fault, Counts, InAttempt, InRound
<1>2. /\ \A m \in Msgs \ {c} : entry'[m] = entry[m]
      /\ entry[c].to \in SUBSET Rcpts
  BY DEF AttemptDrop, RewriteOpen, RewriteEntry, RewriteError, RemoveEntry, RemoveBody,
         spool, SpoolInv, Inv, TypeOK, Entries
<1>3. CASE AttemptDrop
  <2>1. wpc = "attempt" /\ wpc' = "remove" /\ cur' = c
    BY <1>3 DEF AttemptDrop, InWorker
  <2>2. Open(c)' = {} /\ Open(c) = rcpts
    BY <2>1 DEF Open, Busy, InAttempt, InRound, InRewrite, SpoolInv, Inv, WorkerOK, Holding
  <2>3. RoundOK'
    BY <2>1 DEF RoundOK, InRound, InRewrite
  <2>4. /\ Done(c)' = Done(c) \cup rcpts
        /\ \A m \in Msgs \ {c} : Done(m)' = Done(m)
    BY <1>1, <1>3 DEF AttemptDrop, SpoolInv, Inv, TypeOK, Done
  <2>5. Effect(c)
    BY <1>1, <2>2, <2>4 DEF Effect
  <2> QED
    BY <1>1, <1>2, <2>3, <2>4, <2>5, WorkerEffect
<1>0. ASSUME wpc # "attempt"
      PROVE  /\ UNCHANGED <<settled, unreported, taken>>
             /\ \A m \in Msgs : Done(m)' = Done(m)
  BY <1>0, <1>1 DEF AttemptDrop, InWorker, Done
<1>4. CASE RewriteOpen
  <2>1. wpc = "rewrite" /\ wpc' = "rewriting" /\ cur' = c /\ UNCHANGED <<rcpts, deferred>>
    BY <1>4 DEF RewriteOpen, InWorker, round
  <2>2. Open(c)' = Open(c)
    BY <2>1 DEF Open, Busy, InAttempt, InRound, InRewrite
  <2>3. RoundOK'
    BY <2>1 DEF RoundOK, InRound, InRewrite, SpoolInv
  <2> QED
    BY <1>0, <1>1, <1>2, <2>1, <2>2, <2>3, SilentEffect, WorkerEffect
<1>5. CASE RewriteEntry
  <2>1. /\ wpc = "rewriting" /\ wpc' = "scan"
        /\ entry' = [entry EXCEPT ![c] = QueueEntry(deferred, attempts)]
    BY <1>5 DEF RewriteEntry, BackToScan
  <2>2. entry'[c].st = "ok" /\ entry'[c].to = deferred
    BY <2>1 DEF SpoolInv, Inv, TypeOK, QueueEntry
  <2>3. Open(c)' = deferred /\ Open(c) = deferred
    BY <2>1, <2>2 DEF Open, Busy, InAttempt, InRound, InRewrite
  <2>4. RoundOK'
    BY <2>1 DEF RoundOK, InRound, InRewrite
  <2> QED
    BY <1>0, <1>1, <1>2, <2>1, <2>3, <2>4, SilentEffect, WorkerEffect
<1>6. CASE RewriteError
  <2>1. wpc \in {"rewrite", "rewriting"} /\ wpc' = "scan" /\ Fails
    BY <1>6 DEF RewriteError, BackToScan, Fault, Fails
  <2>2. RoundOK'
    BY <2>1 DEF RoundOK, InRound, InRewrite
  <2> QED
    BY <1>0, <1>1, <1>2, <2>1, <2>2, SilentEffect, WorkerEffect
<1>7. CASE RemoveEntry
  <2>1. /\ wpc = "remove" /\ wpc' = "remove2"
        /\ entry' = [entry EXCEPT ![c] = NoEntry] \/ Fails
    BY <1>7 DEF RemoveEntry, InWorker, Fault, Fails
  <2>2. ASSUME entry' = [entry EXCEPT ![c] = NoEntry] PROVE Open(c)' = {}
    <3>1. entry'[c].st = "none"
      BY <2>2 DEF SpoolInv, Inv, TypeOK, NoEntry
    <3> QED
      BY <2>1, <3>1 DEF Open
  <2>3. RoundOK'
    BY <2>1 DEF RoundOK, InRound, InRewrite
  <2> QED
    BY <1>0, <1>1, <1>2, <2>1, <2>2, <2>3, SilentEffect, WorkerEffect
<1>8. CASE RemoveBody
  <2>1. wpc = "remove2" /\ wpc' = "scan" /\ entry' = entry
    BY <1>8 DEF RemoveBody, BackToScan
  <2>2. Open(c)' = Open(c)
    BY <2>1 DEF Open, Busy, InAttempt, InRound
  <2>3. RoundOK'
    BY <2>1 DEF RoundOK, InRound, InRewrite
  <2> QED
    BY <1>0, <1>1, <1>2, <2>1, <2>2, <2>3, SilentEffect, WorkerEffect
<1> QED
  BY <1>3, <1>4, <1>5, <1>6, <1>7, <1>8

LEMMA CrashEffect ==
    ASSUME SpoolInv, Crash
    PROVE  Step
<1>1. /\ wpc' = "off" /\ Fails /\ Counts /\ UNCHANGED <<settled, unreported, taken>>
  BY DEF Crash, Gone, history, network, Fails, Counts
<1>2. RoundOK'
  BY <1>1 DEF RoundOK, InRound, InRewrite
<1> QED
  BY <1>1, <1>2, SilentEffect DEF Step

\* Every step has the effect it should have.
LEMMA NextEffect ==
    ASSUME SpoolInv, [Next]_vars
    PROVE  Step
<1>1. CASE Deliver
  <2>1. wpc \in InAttempt
    BY <1>1 DEF Deliver, AttemptDrop, AttemptStart, Resolve, ResolveTemporary,
       ResolvePermanent, SendOk, SendTemporary, SendPermanent, BouncePermanent, RoundEnd,
       GiveUp, RewriteOpen, RewriteEntry, RewriteError, RemoveEntry, RemoveBody,
       InWorker, BackToScan, InAttempt, InRound
  <2>2. PICK c \in Msgs : cur = c
    BY <2>1 DEF SpoolInv, Inv, WorkerOK
  <2> QED
    BY <1>1, <2>2, QuietRound, SendOkEffect, SendErrorEffect, BounceEffect, EndEffect
    DEF Deliver
<1>2. CASE Worker
  BY <1>1, <1>2, OutsideEffect, AttemptEffect DEF Worker, Work
<1>3. CASE UNCHANGED vars
  <2>1. UNCHANGED worker /\ UNCHANGED <<settled, unreported, taken>> /\ Counts /\ entry' = entry
    BY <1>3 DEF vars, history, network, faults, spool, Counts
  <2> QED
    BY <2>1, WorkerStands
<1> QED
  BY <1>2, <1>3, EnqueueEffect, OutsideEffect, CrashEffect DEF Next

-----------------------------------------------------------------------------
(* The invariant holds after every step. *)

\* A message that is not spooled is open for nobody.
LEMMA FreshClosed ==
    ASSUME SpoolInv, NEW m \in Msgs, sub[m] \notin Created
    PROVE  Open(m) = {} /\ ~Busy(m)
<1>1. ~Busy(m) /\ entry[m].st # "ok"
  BY DEF SpoolInv, Inv, WorkerOK, EntriesOK, Busy
<1> QED
  BY <1>1 DEF Open

\* The client's side: an envelope is given once, and an id never becomes fresh
\* again.
LEMMA SubStep ==
    ASSUME SpoolInv, [Next]_vars, NEW m \in Msgs
    PROVE  /\ sub[m] \in Created => sub'[m] \in Created
           /\ envelope'[m] = envelope[m] \/ (sub[m] = "idle" /\ envelope'[m] # {})
           /\ sub'[m] # "idle" => sub[m] # "idle" \/ envelope'[m] # {}
           /\ \/ sub'[m] \in Spooled => sub[m] \in Spooled
              \/ EnqueueEntry(m)
<1>0. sub \in [Msgs -> SubStates] /\ envelope \in [Msgs -> SUBSET Rcpts]
  BY DEF SpoolInv, Inv, TypeOK
<1>1. CASE \E n \in Msgs : Enqueue(n)
  <2>1. PICK n \in Msgs : Enqueue(n)
    BY <1>1
  <2>2. CASE \E to \in (SUBSET Rcpts) \ {{}} : EnqueueStart(n, to)
    <3>1. PICK rs \in (SUBSET Rcpts) \ {{}} : EnqueueStart(n, rs)
      BY <2>2
    <3>2. /\ sub[n] = "idle" /\ sub' = [sub EXCEPT ![n] = "body"]
          /\ envelope' = [envelope EXCEPT ![n] = rs] /\ rs # {}
      <4>1. rs # {}
        BY <3>1
      <4>2. Spooling(n, "idle", "body") /\ envelope' = [envelope EXCEPT ![n] = rs]
        BY <3>1 DEF EnqueueStart
      <4> QED
        BY <4>1, <4>2 DEF Spooling
    <3>3. CASE m = n
      <4>1. sub[m] = "idle" /\ sub'[m] = "body" /\ envelope'[m] = rs
        BY <1>0, <3>2, <3>3
      <4> QED
        BY <3>2, <4>1 DEF Created, Spooled
    <3>4. CASE m # n
      <4>1. sub'[m] = sub[m] /\ envelope'[m] = envelope[m]
        BY <1>0, <3>2, <3>4
      <4> QED
        BY <4>1
    <3> QED
      BY <3>3, <3>4
  <2>3. CASE EnqueueBody(n) \/ EnqueueOpen(n) \/ EnqueueSignal(n) \/ EnqueueBodyError(n)
               \/ EnqueueEntryError(n)
    BY <1>0, <2>3 DEF EnqueueBody, EnqueueOpen, EnqueueSignal, EnqueueBodyError,
                      EnqueueEntryError, Spooling, Created, Spooled
  <2>4. CASE EnqueueEntry(n)
    <3>1. /\ sub[n] = "entryOpen" /\ sub' = [sub EXCEPT ![n] = "signal"]
          /\ envelope' = envelope
      BY <2>4 DEF EnqueueEntry, Spooling
    <3> QED
      BY <1>0, <2>4, <3>1 DEF Created, Spooled
  <2> QED
    BY <2>1, <2>2, <2>3, <2>4 DEF Enqueue
<1>2. CASE Crash \/ Exit
  BY <1>0, <1>2 DEF Crash, Exit, Gone, Created, Spooled, InEnqueue
<1>3. CASE \/ \E n \in Msgs : TimePasses(n)
           \/ Worker \/ Start \/ Shutdown \/ UNCHANGED vars
  <2>1. UNCHANGED client
    BY <1>3 DEF TimePasses, Start, Shutdown, vars, Worker, Work, Deliver,
       ReadDir, FlushEnd, Skip, Attempt, Visit, SelectStop, SelectWake, SelectTick,
       AttemptDrop, AttemptStart, Resolve, ResolveTemporary,
       ResolvePermanent, SendOk, SendTemporary, SendPermanent, BouncePermanent, RoundEnd,
       GiveUp, RewriteOpen, RewriteEntry, RewriteError, RemoveEntry, RemoveBody,
       InWorker, BackToScan
  <2> QED
    BY <2>1 DEF client
<1> QED
  BY <1>1, <1>2, <1>3 DEF Next

LEMMA FreshInvariance ==
    ASSUME SpoolInv, [Next]_vars
    PROVE  FreshOK'
<1> SUFFICES ASSUME NEW m \in Msgs
             PROVE  /\ sub'[m] \notin Created =>
                         Done(m)' = {} /\ \A r \in Rcpts : taken'[m][r] = 0
                    /\ sub'[m] # "idle" => envelope'[m] # {}
  BY DEF FreshOK
<1>1. Effect(m)
  BY NextEffect DEF Step
<1>2. /\ sub[m] \in Created => sub'[m] \in Created
      /\ envelope'[m] = envelope[m] \/ envelope'[m] # {}
      /\ sub'[m] # "idle" => sub[m] # "idle" \/ envelope'[m] # {}
  BY SubStep
<1>3. ASSUME sub'[m] \notin Created
      PROVE  Done(m)' = {} /\ \A r \in Rcpts : taken'[m][r] = 0
  <2>1. /\ Open(m) = {} /\ Done(m) = {} /\ \A r \in Rcpts : taken[m][r] = 0
    BY <1>2, <1>3, FreshClosed DEF SpoolInv, FreshOK
  <2> QED
    BY <1>1, <2>1 DEF Effect
<1> QED
  BY <1>2, <1>3 DEF SpoolInv, FreshOK

LEMMA CopiesInvariance ==
    ASSUME SpoolInv, [Next]_vars
    PROVE  CopiesOK'
<1> SUFFICES ASSUME NEW m \in Msgs, NEW r \in Rcpts
             PROVE  taken'[m][r] <= Paid' + (IF r \in Open(m)' THEN 0 ELSE 1)
  BY DEF CopiesOK
<1>1. Effect(m) /\ Counts
  BY NextEffect DEF Step
<1>2. /\ taken[m][r] \in Nat /\ crashes \in Nat /\ ioErrors \in Nat /\ lostAnswers \in Nat
  BY BoundsAssumption DEF SpoolInv, Inv, TypeOK
<1>3. /\ Paid \in Nat /\ Paid' \in {Paid, Paid + 1}
      /\ Fails \/ lostAnswers' = lostAnswers + 1 => Paid' = Paid + 1
  BY <1>1, <1>2 DEF Counts, Fails, Paid
<1>4. /\ taken[m][r] <= Paid + 1
      /\ r \in Open(m) => taken[m][r] <= Paid
  <2>1. taken[m][r] <= Paid + (IF r \in Open(m) THEN 0 ELSE 1)
    BY DEF SpoolInv, CopiesOK
  <2> QED
    BY <1>2, <1>3, <2>1
<1>5. CASE taken'[m][r] = taken[m][r]
  <2>1. CASE r \notin Open(m)' \/ Fails
    BY <1>2, <1>3, <1>4, <1>5, <2>1
  <2>2. CASE r \in Open(m)' /\ ~Fails
    <3>1. CASE r \in Open(m)
      BY <1>2, <1>3, <1>4, <1>5, <3>1
    <3>2. CASE sub[m] = "entryOpen"
      <4>1. taken[m][r] = 0
        BY <3>2 DEF SpoolInv, FreshOK, Created, Spooled
      <4>2. Paid' \in Nat
        BY <1>3
      <4>3. taken'[m][r] = 0
        BY <1>5, <4>1
      <4>4. PICK p \in Nat : p = Paid'
        BY <4>2
      <4>5. PICK q \in Nat : q = IF r \in Open(m)' THEN 0 ELSE 1
        OBVIOUS
      <4>6. 0 <= p + q
        OBVIOUS
      <4> QED
        BY <4>3, <4>4, <4>5, <4>6
    <3> QED
      BY <1>1, <2>2, <3>1, <3>2 DEF Effect
  <2> QED
    BY <2>1, <2>2
<1>6. CASE /\ taken'[m][r] = taken[m][r] + 1 /\ r \in Open(m)
           /\ lostAnswers' = lostAnswers + 1 \/ r \in Done(m)' \ Open(m)'
  BY <1>2, <1>3, <1>4, <1>6
<1> QED
  BY <1>1, <1>5, <1>6 DEF Effect

\* A message that attempt does not hold after the step: nothing has happened to
\* it, or its sidecar was written, or removed with its body.
LEMMA SpoolStep ==
    ASSUME SpoolInv, [Next]_vars, ~Fails, NEW m \in Msgs, sub'[m] \in Spooled, ~Busy(m)'
    PROVE  \/ /\ UNCHANGED <<entry[m], body[m], Done(m), envelope[m]>>
              /\ sub[m] \in Spooled /\ ~Busy(m)
           \/ EnqueueEntry(m)
           \/ Busy(m) /\ (RewriteEntry \/ RemoveBody) /\ sub[m] \in Spooled
<1>0. /\ entry \in [Msgs -> Entries] /\ body \in [Msgs -> {"none", "part", "full"}]
      /\ settled \in [Msgs -> SUBSET Rcpts] /\ sub \in [Msgs -> SubStates]
      /\ unreported \in [Msgs -> SUBSET Rcpts]
      /\ envelope \in [Msgs -> SUBSET Rcpts] /\ ioErrors \in Nat
  BY BoundsAssumption DEF SpoolInv, Inv, TypeOK
<1>1. sub[m] \in Spooled \/ EnqueueEntry(m)
  BY SubStep
<1>2. sub[m] \in Spooled => envelope'[m] = envelope[m]
  BY SubStep DEF Spooled
<1> SUFFICES ASSUME sub[m] \in Spooled
             PROVE  \/ UNCHANGED <<entry[m], body[m], Done(m)>> /\ ~Busy(m)
                    \/ Busy(m) /\ (RewriteEntry \/ RemoveBody)
  BY <1>1, <1>2
<1>3. ASSUME NEW n \in Msgs, Enqueue(n)
      PROVE  UNCHANGED <<entry[m], body[m], Done(m)>> /\ ~Busy(m)
  <2>1. UNCHANGED <<settled, unreported, wpc, cur>>
    BY <1>3 DEF Enqueue, EnqueueStart, EnqueueBody, EnqueueOpen, EnqueueEntry, EnqueueSignal,
            EnqueueBodyError, EnqueueEntryError, Spooling, history, worker
  <2>2. \/ UNCHANGED <<entry, body>>
        \/ sub[n] \notin Spooled /\ \A k \in Msgs \ {n} : entry'[k] = entry[k] /\ body'[k] = body[k]
    <3>1. CASE \E to \in (SUBSET Rcpts) \ {{}} : EnqueueStart(n, to)
      BY <1>0, <3>1 DEF EnqueueStart, Spooling, Spooled
    <3>2. CASE EnqueueBody(n) \/ EnqueueOpen(n) \/ EnqueueEntry(n) \/ EnqueueEntryError(n)
      BY <1>0, <3>2 DEF EnqueueBody, EnqueueOpen, EnqueueEntry, EnqueueEntryError, Spooling, Spooled
    <3>3. CASE EnqueueSignal(n) \/ EnqueueBodyError(n)
      BY <3>3 DEF EnqueueSignal, EnqueueBodyError, spool
    <3> QED
      BY <1>3, <3>1, <3>2, <3>3 DEF Enqueue
  <2> QED
    BY <2>1, <2>2 DEF Busy, Done
<1>4. CASE Deliver
  <2>1. /\ cur \in Msgs /\ wpc \in InAttempt
    <3>1. wpc \in InAttempt
      BY <1>4 DEF Deliver, AttemptDrop, AttemptStart, Resolve, ResolveTemporary,
         ResolvePermanent, SendOk, SendTemporary, SendPermanent, BouncePermanent, RoundEnd,
         GiveUp, RewriteOpen, RewriteEntry, RewriteError, RemoveEntry, RemoveBody,
         InWorker, BackToScan, InAttempt, InRound
    <3> QED
      BY <3>1 DEF SpoolInv, Inv, WorkerOK
  <2>2. \A k \in Msgs : k # cur =>
          entry'[k] = entry[k] /\ body'[k] = body[k] /\ Done(k)' = Done(k)
    <3>1. \/ entry' = entry
          \/ \E e : entry' = [entry EXCEPT ![cur] = e]
      BY <1>4 DEF Deliver, AttemptDrop, AttemptStart, Resolve, ResolveTemporary,
         ResolvePermanent, SendOk, SendTemporary, SendPermanent, BouncePermanent, RoundEnd,
         GiveUp, RewriteOpen, RewriteEntry, RewriteError, RemoveEntry, RemoveBody,
         NextDomain, spool
    <3>2. body' = body \/ body' = [body EXCEPT ![cur] = "none"]
      BY <1>4 DEF Deliver, AttemptDrop, AttemptStart, Resolve, ResolveTemporary,
         ResolvePermanent, SendOk, SendTemporary, SendPermanent, BouncePermanent, RoundEnd,
         GiveUp, RewriteOpen, RewriteEntry, RewriteError, RemoveEntry, RemoveBody,
         NextDomain, spool
    <3>3. /\ settled' = settled \/ \E e : settled' = [settled EXCEPT ![cur] = e]
          /\ unreported' = unreported \/ \E e : unreported' = [unreported EXCEPT ![cur] = e]
      BY <1>4 DEF Deliver, AttemptDrop, AttemptStart, Resolve, ResolveTemporary,
         ResolvePermanent, SendOk, SendTemporary, SendPermanent, BouncePermanent, RoundEnd,
         GiveUp, RewriteOpen, RewriteEntry, RewriteError, RemoveEntry, RemoveBody,
         NextDomain, Bounce, BackToScan, history
    <3> QED
      BY <1>0, <3>1, <3>2, <3>3 DEF Done
  <2>3. CASE m # cur
    BY <2>2, <2>3 DEF Busy
  <2>4. CASE m = cur
    <3>1. wpc' \notin InAttempt \/ cur' # m
      BY DEF Busy
    <3>2. RewriteEntry \/ RewriteError \/ RemoveBody
      BY <1>4, <2>4, <3>1 DEF Deliver, AttemptDrop, AttemptStart, Resolve, ResolveTemporary,
         ResolvePermanent, SendOk, SendTemporary, SendPermanent, BouncePermanent, RoundEnd,
         GiveUp, RewriteOpen, RemoveEntry, AfterRound, NextDomain, InWorker, InAttempt,
         InRound, round
    <3>3. ~RewriteError
      BY DEF RewriteError, Fault, Fails
    <3> QED
      BY <2>1, <2>4, <3>2, <3>3 DEF Busy
  <2> QED
    BY <2>3, <2>4
<1>5. CASE \/ \E n \in Msgs : TimePasses(n) \/ Skip(n) \/ Attempt(n)
           \/ ReadDir \/ FlushEnd \/ SelectStop \/ SelectWake \/ SelectTick
           \/ Start \/ Shutdown \/ Exit \/ UNCHANGED vars
  <2>1. UNCHANGED <<entry, body, settled, unreported>>
    BY <1>5 DEF TimePasses, Skip, Attempt, Visit, ReadDir, FlushEnd, SelectStop, SelectWake,
       SelectTick, Start, Shutdown, Exit, Gone, vars, spool, history
  <2>2. wpc \notin InAttempt \/ UNCHANGED <<wpc, cur>>
    BY <1>5 DEF TimePasses, Skip, Attempt, Visit, ReadDir, FlushEnd, SelectStop, SelectWake,
       SelectTick, Start, Shutdown, Exit, vars, worker, InAttempt, InRound
  <2> QED
    BY <2>1, <2>2 DEF Busy, Done
<1>6. ~Crash
  BY DEF Crash, Fails
<1> QED
  BY <1>3, <1>4, <1>5, <1>6 DEF Next, Worker, Work

LEMMA ExactInvariance ==
    ASSUME SpoolInv, [Next]_vars
    PROVE  ExactOK'
<1> SUFFICES ASSUME NoFault', NEW m \in Msgs
             PROVE  /\ Done(m)' \subseteq envelope'[m]
                    /\ Open(m)' \subseteq envelope'[m] \ Done(m)'
                    /\ sub'[m] \in Spooled /\ ~Busy(m)' => Exact(m)'
                    /\ lostAnswers' = 0 => \A r \in Rcpts : taken'[m][r] = 0 \/ r \in Done(m)'
  BY DEF ExactOK, NoFault
<1>1. /\ Effect(m) /\ Counts
      /\ crashes \in Nat /\ ioErrors \in Nat /\ lostAnswers \in Nat
  BY NextEffect, BoundsAssumption DEF Step, SpoolInv, Inv, TypeOK
<1>2. /\ NoFault /\ ~Fails
      /\ lostAnswers' = 0 => lostAnswers = 0 /\ lostAnswers' # lostAnswers + 1
  BY <1>1 DEF NoFault, Fails, Counts
<1>3. /\ Done(m) \subseteq envelope[m]
      /\ Open(m) \subseteq envelope[m] \ Done(m)
      /\ sub[m] \in Spooled /\ ~Busy(m) => Exact(m)
      /\ lostAnswers = 0 => \A r \in Rcpts : taken[m][r] = 0 \/ r \in Done(m)
  BY <1>2 DEF SpoolInv, ExactOK
<1>4. ASSUME sub[m] = "entryOpen" PROVE Done(m) = {} /\ Open(m) = {}
  BY <1>4, FreshClosed DEF SpoolInv, FreshOK, Created, Spooled
<1>5. Done(m)' \subseteq envelope'[m] /\ Open(m)' \subseteq envelope'[m] \ Done(m)'
  <2>1. CASE envelope'[m] = envelope[m]
    BY <1>1, <1>2, <1>3, <1>4, <2>1 DEF Effect
  <2>2. CASE sub[m] = "idle"
    <3>1. Open(m) = {} /\ Done(m) = {}
      BY <2>2, FreshClosed DEF SpoolInv, FreshOK, Created, Spooled
    <3> QED
      BY <1>1, <1>2, <2>2, <3>1 DEF Effect
  <2> QED
    BY <2>1, <2>2, SubStep
<1>6. ASSUME lostAnswers' = 0, NEW r \in Rcpts PROVE taken'[m][r] = 0 \/ r \in Done(m)'
  BY <1>1, <1>2, <1>3, <1>6 DEF Effect
<1>7. ASSUME sub'[m] \in Spooled, ~Busy(m)' PROVE Exact(m)'
  <2>1. CASE /\ UNCHANGED <<entry[m], body[m], Done(m), envelope[m]>>
             /\ sub[m] \in Spooled /\ ~Busy(m)
    BY <1>3, <2>1 DEF Exact
  <2>2. CASE EnqueueEntry(m)
    <3>1. /\ sub[m] = "entryOpen" /\ UNCHANGED <<body, envelope, settled, unreported>>
          /\ entry' = [entry EXCEPT ![m] = QueueEntry(envelope[m], 0)]
      BY <2>2 DEF EnqueueEntry, Spooling, history
    <3>2. entry'[m].st = "ok" /\ entry'[m].to = envelope[m]
      BY <3>1 DEF SpoolInv, Inv, TypeOK, QueueEntry
    <3>3. body[m] = "full" /\ envelope[m] # {}
      BY <3>1 DEF SpoolInv, Inv, EnqueueOK, FreshOK
    <3> QED
      BY <1>4, <3>1, <3>2, <3>3 DEF Exact, Done
  <2>3. CASE Busy(m) /\ RewriteEntry /\ sub[m] \in Spooled
    <3>1. /\ wpc = "rewriting" /\ cur = m /\ UNCHANGED <<body, envelope, settled, unreported>>
          /\ entry' = [entry EXCEPT ![m] = QueueEntry(deferred, attempts)]
      BY <2>3 DEF RewriteEntry, BackToScan, Busy, client, history
    <3>2. entry'[m].st = "ok" /\ entry'[m].to = deferred
      BY <3>1 DEF SpoolInv, Inv, TypeOK, QueueEntry
    <3>3. /\ body[m] = "full" /\ deferred # {}
          /\ rcpts \subseteq deferred \cup Done(m)
          /\ envelope[m] \subseteq rcpts \cup Done(m)
      BY <2>3, <3>1 DEF SpoolInv, Inv, WorkerOK, RoundOK, InRewrite, InAttempt
    <3>4. Open(m) = deferred /\ Done(m)' = Done(m)
      BY <3>1 DEF Done, Open, Busy, InAttempt, InRewrite
    <3>5. deferred = envelope[m] \ Done(m)
      BY <1>3, <3>3, <3>4
    <3> QED
      BY <3>1, <3>2, <3>3, <3>4, <3>5 DEF Exact
  <2>4. CASE Busy(m) /\ RemoveBody /\ sub[m] \in Spooled
    <3>1. /\ wpc = "remove2" /\ cur = m /\ UNCHANGED <<entry, envelope, settled, unreported>>
          /\ body' = [body EXCEPT ![m] = "none"]
      BY <1>2, <2>4 DEF RemoveBody, BackToScan, Busy, client, history, Fault, Fails
    <3>2. entry[m].st = "none" /\ body'[m] = "none"
      BY <1>2, <3>1 DEF SpoolInv, Inv, WorkerOK, TypeOK, NoFault
    <3>3. /\ rcpts \subseteq Done(m) /\ envelope[m] \subseteq rcpts \cup Done(m)
      BY <2>4, <3>1 DEF SpoolInv, Inv, WorkerOK, InAttempt
    <3>4. Done(m) = envelope[m]
      BY <1>3, <3>3
    <3>5. Done(m)' = Done(m)
      BY <3>1 DEF Done
    <3> QED
      BY <3>1, <3>2, <3>4, <3>5 DEF Exact
  <2> QED
    BY <1>2, <1>7, <2>1, <2>2, <2>3, <2>4, SpoolStep
<1> QED
  BY <1>5, <1>6, <1>7

LEMMA SpoolInvariance == Spec => []SpoolInv
<1>1. ASSUME SpoolInv, [Next]_vars PROVE SpoolInv'
  BY <1>1, NextInv, NextEffect, FreshInvariance, CopiesInvariance, ExactInvariance
  DEF SpoolInv, Step
<1> QED
  BY <1>1, SpoolInitInv, PTL DEF Spec

-----------------------------------------------------------------------------
(* The theorems. *)

\* Without faults the spool holds a message exactly as long as somebody is not
\* done with, and lists exactly them, over any number of graceful shutdowns.
THEOREM SpoolIsExact == Spec => []SpoolExact
<1>1. SpoolInv => SpoolExact
  BY DEF SpoolInv, ExactOK, SpoolExact, Exact, Spooled
<1> QED
  BY <1>1, SpoolInvariance, PTL

\* Every copy beyond the first that a recipient gets is paid for by a crash, a
\* failing call or a lost answer, and without them nobody is sent a message,
\* or reported as failed, that a host has taken for him.
THEOREM CopiesAreAccounted == Spec => []CopiesAccounted
<1>1. ASSUME SpoolInv PROVE CopiesAccounted
  <2>1. ASSUME NEW m \in Msgs, NEW r \in Rcpts
        PROVE  taken[m][r] <= 1 + crashes + ioErrors + lostAnswers
    <3>1. taken[m][r] <= Paid + (IF r \in Open(m) THEN 0 ELSE 1)
      BY <1>1 DEF SpoolInv, CopiesOK
    <3>2. taken[m][r] \in Nat /\ crashes \in Nat /\ ioErrors \in Nat /\ lostAnswers \in Nat
      BY <1>1, BoundsAssumption DEF SpoolInv, Inv, TypeOK
    <3> QED
      BY <3>1, <3>2 DEF Paid
  <2>2. ASSUME NoFault, lostAnswers = 0, wpc \in {"send", "bounce", "giveup"},
               NEW r \in Open(cur)
        PROVE  r \notin Done(cur) /\ taken[cur][r] = 0
    <3>1. cur \in Msgs
      BY <1>1, <2>2 DEF SpoolInv, Inv, WorkerOK, InAttempt, InRound
    <3>2. r \in Rcpts /\ r \notin Done(cur)
      BY <1>1, <2>2, <3>1 DEF SpoolInv, ExactOK, Inv, TypeOK
    <3> QED
      BY <1>1, <2>2, <3>1, <3>2 DEF SpoolInv, ExactOK
  <2>3. ASSUME wpc \in {"send", "bounce"} PROVE At(dom) \subseteq Open(cur)
    <3>1. PICK c \in Msgs : cur = c
      BY <1>1, <2>3 DEF SpoolInv, Inv, WorkerOK, InAttempt, InRound
    <3> QED
      BY <1>1, <2>3, <3>1, AtOpen
  <2>4. ASSUME wpc = "giveup" PROVE deferred = Open(cur)
    BY <2>4 DEF Open, Busy, InAttempt, InRewrite
  <2> QED
    BY <2>1, <2>2, <2>3, <2>4 DEF CopiesAccounted
<1> QED
  BY <1>1, SpoolInvariance, PTL

-----------------------------------------------------------------------------
(***************************************************************************)
(* The rounds.  What the sidecar does not tell of has been paid for by a   *)
(* crash or a failing call (RoundsOK, in Relay).                           *)
(***************************************************************************)

RoundsInv == SpoolInv /\ RoundsOK

LEMMA Payment ==
    ASSUME NEW r \in Nat, NEW n \in Nat, NEW c \in Nat, NEW i \in Nat,
           NEW c2 \in Nat, NEW i2 \in Nat, c + i <= c2 + i2, r <= n + c + i
    PROVE  r <= n + c2 + i2
  OBVIOUS

LEMMA LatePayment ==
    ASSUME NEW r \in Nat, NEW n \in Nat, NEW u \in {0, 1}, NEW u2 \in {0, 1},
           NEW c \in Nat, NEW i \in Nat, NEW c2 \in Nat, NEW i2 \in Nat,
           u + c + i <= u2 + c2 + i2, r <= n + u + c + i
    PROVE  r <= n + u2 + c2 + i2
  OBVIOUS

LEMMA PaidWhenDropped ==
    ASSUME NEW u \in {0, 1}, NEW u2 \in {0, 1},
           NEW c \in Nat, NEW i \in Nat, NEW c2 \in Nat, NEW i2 \in Nat,
           c + i <= c2 + i2, u2 = u \/ u = 0 \/ 1 + c + i <= c2 + i2
    PROVE  u + c + i <= u2 + c2 + i2
  OBVIOUS

LEMMA RoundsTypes ==
    ASSUME SpoolInv, [Next]_vars
    PROVE  /\ rounds \in [Msgs -> Nat] /\ attempts \in Nat /\ MaxAttempts \in Nat
           /\ \A m \in Msgs : entry[m].attempts \in Nat /\ entry'[m].attempts \in Nat
           /\ \A m \in Msgs : Uncounted(m) \in {0, 1} /\ Uncounted(m)' \in {0, 1}
           /\ crashes \in Nat /\ ioErrors \in Nat /\ crashes' \in Nat /\ ioErrors' \in Nat
           /\ crashes + ioErrors <= crashes' + ioErrors'
           /\ Fails => 1 + crashes + ioErrors <= crashes' + ioErrors'
<1>1. Inv /\ Inv' /\ Counts
  BY NextInv, NextEffect DEF SpoolInv, Step
<1>2. /\ crashes \in Nat /\ ioErrors \in Nat /\ crashes' \in Nat /\ ioErrors' \in Nat
  BY <1>1, BoundsAssumption DEF Inv, TypeOK
<1>3. \/ crashes' = crashes /\ ioErrors' = ioErrors
      \/ crashes' = crashes + 1 /\ ioErrors' = ioErrors
      \/ crashes' = crashes /\ ioErrors' = ioErrors + 1
  BY <1>1 DEF Counts
<1>4. /\ crashes + ioErrors <= crashes' + ioErrors'
      /\ Fails => 1 + crashes + ioErrors <= crashes' + ioErrors'
  <2>1. CASE crashes' = crashes /\ ioErrors' = ioErrors
    BY <1>2, <2>1 DEF Fails
  <2>2. CASE crashes' = crashes + 1 /\ ioErrors' = ioErrors
    BY <1>2, <2>2 DEF Fails
  <2>3. CASE crashes' = crashes /\ ioErrors' = ioErrors + 1
    BY <1>2, <2>3 DEF Fails
  <2> QED
    BY <1>3, <2>1, <2>2, <2>3
<1>5. /\ rounds \in [Msgs -> Nat] /\ attempts \in Nat /\ MaxAttempts \in Nat
      /\ \A m \in Msgs : entry[m].attempts \in Nat /\ entry'[m].attempts \in Nat
  BY <1>1, BoundsAssumption DEF Inv, TypeOK, Entries
<1> QED
  BY <1>2, <1>4, <1>5 DEF Uncounted

\* A bound that held still does: payments only grow.
LEMMA StillPaid ==
    ASSUME SpoolInv, [Next]_vars, NEW r \in Nat, NEW n \in Nat, r <= n + crashes + ioErrors
    PROVE  r <= n + crashes' + ioErrors'
  BY RoundsTypes, Payment, Zenon

\* A step that begins no round of m and leaves its sidecar, or makes it
\* unreadable: what was uncounted still is, or the step fails.
LEMMA RoundsStay ==
    ASSUME SpoolInv, [Next]_vars, NEW m \in Msgs, RoundsOf(m),
           rounds'[m] = rounds[m],
           entry'[m] = entry[m] \/ entry'[m].st # "ok",
           Uncounted(m)' = Uncounted(m) \/ Uncounted(m) = 0 \/ Fails
    PROVE  RoundsOf(m)'
<1>1. /\ rounds[m] \in Nat /\ entry[m].attempts \in Nat /\ MaxAttempts \in Nat
      /\ Uncounted(m) \in {0, 1} /\ Uncounted(m)' \in {0, 1}
      /\ crashes \in Nat /\ ioErrors \in Nat /\ crashes' \in Nat /\ ioErrors' \in Nat
      /\ crashes + ioErrors <= crashes' + ioErrors'
      /\ Fails => 1 + crashes + ioErrors <= crashes' + ioErrors'
  BY RoundsTypes
<1>2. sub'[m] \notin Created => sub[m] \notin Created
  BY SubStep
<1>3. rounds'[m] <= MaxAttempts + crashes' + ioErrors'
  <2>1. rounds[m] <= MaxAttempts + crashes + ioErrors
    BY DEF RoundsOf
  <2>2. rounds[m] <= MaxAttempts + crashes' + ioErrors'
    BY <1>1, <2>1, StillPaid, Zenon
  <2> QED
    BY <2>2
<1>4. ASSUME entry'[m].st = "ok"
      PROVE  rounds'[m] <= entry'[m].attempts + Uncounted(m)' + crashes' + ioErrors'
  <2>1. rounds[m] <= entry[m].attempts + Uncounted(m) + crashes + ioErrors
    BY <1>4 DEF RoundsOf
  <2>2. Uncounted(m) + crashes + ioErrors <= Uncounted(m)' + crashes' + ioErrors'
    BY <1>1, PaidWhenDropped, Zenon
  <2>3. rounds[m] <= entry[m].attempts + Uncounted(m)' + crashes' + ioErrors'
    BY <1>1, <2>1, <2>2, LatePayment, Zenon
  <2>4. entry'[m] = entry[m]
    BY <1>4
  <2> QED
    BY <2>3, <2>4, Zenon
<1> QED
  BY <1>2, <1>3, <1>4 DEF RoundsOf

\* The worker stands still, or is outside attempt before and after.
LEMMA RoundsElsewhere ==
    ASSUME RoundsInv, [Next]_vars, rounds' = rounds,
           UNCHANGED worker \/ (wpc \notin InAttempt /\ wpc' \notin InAttempt \ {"attempt"}),
           \A m \in Msgs : \/ entry'[m] = entry[m]
                           \/ sub[m] \notin Created /\ entry'[m].st # "ok"
                           \/ sub[m] \notin Created /\ entry'[m].attempts = 0
    PROVE  RoundsOK'
<1>1. \A m \in Msgs : Uncounted(m)' = Uncounted(m)
  BY DEF Uncounted, Busy, worker
<1>2. ASSUME NEW m \in Msgs PROVE RoundsOf(m)'
  <2>1. CASE entry'[m] = entry[m] \/ entry'[m].st # "ok"
    BY <1>1, <2>1, RoundsStay DEF RoundsInv, RoundsOK
  <2>2. CASE sub[m] \notin Created /\ entry'[m].attempts = 0
    <3>1. rounds[m] = 0
      BY <2>2 DEF RoundsInv, RoundsOK, RoundsOf
    <3>2. /\ MaxAttempts \in Nat /\ Uncounted(m)' \in {0, 1}
          /\ crashes' \in Nat /\ ioErrors' \in Nat
      BY RoundsTypes DEF RoundsInv
    <3>3. ASSUME NEW n \in Nat, NEW u \in {0, 1}, NEW c \in Nat, NEW i \in Nat
          PROVE  0 <= n + c + i /\ 0 <= 0 + u + c + i
      BY <3>3
    <3>4. 0 <= MaxAttempts + crashes' + ioErrors' /\ 0 <= 0 + Uncounted(m)' + crashes' + ioErrors'
      BY <3>2, <3>3, Zenon
    <3>5. rounds'[m] = 0
      BY <3>1
    <3> QED
      BY <2>2, <3>4, <3>5, Zenon DEF RoundsOf
  <2> QED
    BY <2>1, <2>2
<1>3. CASE wpc' \notin InAttempt \ {"attempt"}
  BY <1>2, <1>3 DEF RoundsOK, InAttempt, InRound
<1>4. CASE UNCHANGED worker /\ wpc \in InAttempt
  <2>1. cur \in Msgs /\ sub[cur] \in Created
    BY <1>4 DEF RoundsInv, SpoolInv, Inv, WorkerOK
  <2>2. entry'[cur] = entry[cur] /\ UNCHANGED <<wpc, cur, attempts>>
    BY <1>4, <2>1 DEF worker, round
  <2>3. /\ wpc = "rewriting" => rounds[cur] <= attempts + crashes + ioErrors
        /\ wpc \in InRound \cup {"giveup", "rewrite"} => attempts = entry[cur].attempts + 1
    BY DEF RoundsInv, RoundsOK
  <2>4. wpc = "rewriting" => rounds[cur] <= attempts + crashes' + ioErrors'
    <3>1. rounds[cur] \in Nat /\ attempts \in Nat
      BY <2>1, RoundsTypes DEF RoundsInv
    <3> QED
      BY <2>3, <3>1, StillPaid, Zenon DEF RoundsInv
  <2> QED
    BY <1>2, <2>2, <2>3, <2>4 DEF RoundsOK
<1>5. wpc \notin InAttempt /\ UNCHANGED worker => wpc' \notin InAttempt
  BY DEF worker
<1> QED
  BY <1>3, <1>4, <1>5

\* A step of attempt that begins no round and leaves the sidecars alone, or
\* makes that of the message unreadable, and does not count the round.
LEMMA RoundsWithin ==
    ASSUME RoundsInv, [Next]_vars, wpc \in InAttempt, rounds' = rounds,
           \A m \in Msgs : entry'[m] = entry[m] \/ entry'[m].st # "ok",
           \/ wpc \in {"attempt", "remove2"}
           \/ wpc' \in InAttempt \ {"attempt", "remove2"} /\ cur' = cur
           \/ Fails
           \/ entry'[cur].st # "ok",
           wpc' # "rewriting",
           wpc' \in InRound \cup {"giveup", "rewrite"} =>
               wpc \in InRound /\ attempts' = attempts /\ cur' = cur /\ entry' = entry
    PROVE  RoundsOK'
<1>1. ASSUME NEW m \in Msgs PROVE RoundsOf(m)'
  <2>1. CASE Uncounted(m)' = Uncounted(m) \/ Uncounted(m) = 0 \/ Fails
    BY <2>1, RoundsStay DEF RoundsInv, RoundsOK
  <2>2. CASE m = cur /\ entry'[m].st # "ok"
    <3>1. rounds[m] <= MaxAttempts + crashes + ioErrors /\ sub[m] \in Created
      BY <2>2 DEF RoundsInv, RoundsOK, RoundsOf, SpoolInv, Inv, WorkerOK
    <3>2. rounds[m] \in Nat /\ MaxAttempts \in Nat
      BY RoundsTypes DEF RoundsInv
    <3>3. rounds[m] <= MaxAttempts + crashes' + ioErrors'
      BY <3>1, <3>2, StillPaid, Zenon DEF RoundsInv
    <3>4. sub'[m] \in Created
      BY <3>1, SubStep DEF RoundsInv
    <3> QED
      BY <2>2, <3>3, <3>4 DEF RoundsOf
  <2>3. \/ Uncounted(m)' = Uncounted(m) \/ Uncounted(m) = 0 \/ Fails
        \/ m = cur /\ entry'[m].st # "ok"
    BY DEF Uncounted, Busy
  <2> QED
    BY <2>1, <2>2, <2>3
<1>2. wpc' \in InRound \cup {"giveup", "rewrite"} => attempts' = entry'[cur'].attempts + 1
  BY DEF RoundsInv, RoundsOK, InAttempt, InRound
<1> QED
  BY <1>1, <1>2 DEF RoundsOK

LEMMA AttemptStartRounds ==
    ASSUME RoundsInv, [Next]_vars, AttemptStart
    PROVE  RoundsOK'
<1>1. PICK c \in Msgs : cur = c
  BY DEF RoundsInv, SpoolInv, Inv, WorkerOK, AttemptStart, InWorker, InAttempt
<1>2. /\ wpc = "attempt" /\ wpc' = "deliver" /\ cur' = c /\ UNCHANGED <<entry, crashes, ioErrors>>
      /\ attempts' = attempts + 1 /\ rounds' = [rounds EXCEPT ![c] = @ + 1]
  BY <1>1 DEF AttemptStart, InWorker, spool
<1>3. /\ rounds \in [Msgs -> Nat] /\ MaxAttempts \in Nat
      /\ entry[c].attempts \in Nat /\ crashes \in Nat /\ ioErrors \in Nat
  BY RoundsTypes DEF RoundsInv
<1>4. /\ attempts = entry[c].attempts /\ entry[c].st = "ok"
      /\ entry[c].attempts < MaxAttempts /\ sub[c] \in Created
  BY <1>1, <1>2 DEF RoundsInv, SpoolInv, Inv, WorkerOK, EntriesOK, Holding, InAttempt
<1>5. Uncounted(c) = 0 /\ Uncounted(c)' = 1
  BY <1>1, <1>2 DEF Uncounted, Busy, InAttempt, InRound
<1>6. RoundsOf(c)'
  <2>1. rounds[c] <= entry[c].attempts + 0 + crashes + ioErrors
    BY <1>4, <1>5 DEF RoundsInv, RoundsOK, RoundsOf
  <2>2. rounds[c] \in Nat /\ rounds'[c] = rounds[c] + 1
    BY <1>2, <1>3
  <2>3. ASSUME NEW r \in Nat, NEW n \in Nat, NEW k \in Nat, NEW x \in Nat, NEW y \in Nat,
               n < k, r <= n + 0 + x + y
        PROVE  r + 1 <= k + x + y /\ r + 1 <= n + 1 + x + y
    BY <2>3
  <2>4. /\ rounds[c] + 1 <= MaxAttempts + crashes + ioErrors
        /\ rounds[c] + 1 <= entry[c].attempts + 1 + crashes + ioErrors
    BY <1>3, <1>4, <2>1, <2>2, <2>3, Zenon
  <2>5. sub'[c] \in Created
    BY <1>4, SubStep DEF RoundsInv
  <2> QED
    BY <1>2, <1>5, <2>2, <2>4, <2>5 DEF RoundsOf
<1>7. ASSUME NEW m \in Msgs, m # c PROVE RoundsOf(m)'
  <2>1. rounds'[m] = rounds[m] /\ entry'[m] = entry[m]
    BY <1>2, <1>3, <1>7
  <2>2. Uncounted(m)' = Uncounted(m)
    BY <1>1, <1>2, <1>7 DEF Uncounted, Busy
  <2> QED
    BY <2>1, <2>2, RoundsStay DEF RoundsInv, RoundsOK
<1> QED
  BY <1>2, <1>4, <1>6, <1>7 DEF RoundsOK

LEMMA RewriteRounds ==
    ASSUME RoundsInv, [Next]_vars, RewriteOpen \/ RewriteEntry
    PROVE  RoundsOK'
<1>1. PICK c \in Msgs : cur = c
  BY DEF RoundsInv, SpoolInv, Inv, WorkerOK, RewriteOpen, RewriteEntry, InWorker, BackToScan,
         InAttempt
<1>2. /\ rounds' = rounds /\ UNCHANGED <<crashes, ioErrors>>
  BY DEF RewriteOpen, RewriteEntry, InWorker, BackToScan, history
<1>3. /\ rounds[c] \in Nat /\ MaxAttempts \in Nat /\ attempts \in Nat
      /\ entry[c].attempts \in Nat /\ crashes \in Nat /\ ioErrors \in Nat
  BY RoundsTypes DEF RoundsInv
<1>4. /\ wpc \in {"rewrite", "rewriting"} /\ sub[c] \in Created
      /\ rounds[c] <= MaxAttempts + crashes + ioErrors
  BY <1>1 DEF RoundsInv, RoundsOK, RoundsOf, SpoolInv, Inv, WorkerOK, RewriteOpen, RewriteEntry,
         InWorker, BackToScan, InAttempt
<1>5. entry \in [Msgs -> Entries]
  BY DEF RoundsInv, SpoolInv, Inv, TypeOK
<1>6. sub'[c] \in Created
  BY <1>4, SubStep DEF RoundsInv
<1>7. ASSUME NEW m \in Msgs, m # c PROVE RoundsOf(m)'
  <2>1. entry'[m] = entry[m]
    BY <1>1, <1>5, <1>7 DEF RewriteOpen, RewriteEntry
  <2>2. Uncounted(m) = 0
    BY <1>1, <1>7 DEF Uncounted, Busy
  <2> QED
    BY <1>2, <2>1, <2>2, RoundsStay DEF RoundsInv, RoundsOK
<1>8. CASE RewriteOpen
  <2>1. /\ wpc = "rewrite" /\ wpc' = "rewriting" /\ cur' = c /\ attempts' = attempts
        /\ entry'[c] = Torn
    BY <1>1, <1>5, <1>8 DEF RewriteOpen, InWorker, round
  <2>2. attempts = entry[c].attempts + 1 /\ entry[c].st = "ok" /\ Uncounted(c) = 1
    BY <1>1, <2>1 DEF RoundsInv, RoundsOK, SpoolInv, Inv, WorkerOK, Holding, InAttempt,
       Uncounted, Busy
  <2>3. rounds[c] <= attempts + crashes + ioErrors
    BY <2>2 DEF RoundsInv, RoundsOK, RoundsOf
  <2>4. RoundsOf(c)'
    BY <1>2, <1>4, <1>6, <2>1 DEF RoundsOf, Torn
  <2> QED
    BY <1>2, <1>7, <2>1, <2>3, <2>4 DEF RoundsOK, InRound
<1>9. CASE RewriteEntry
  <2>1. /\ wpc = "rewriting" /\ wpc' = "scan"
        /\ entry'[c] = QueueEntry(deferred, attempts)
    BY <1>1, <1>5, <1>9 DEF RewriteEntry, BackToScan
  <2>2. rounds[c] <= attempts + crashes + ioErrors
    BY <1>1, <2>1 DEF RoundsInv, RoundsOK
  <2>3. Uncounted(c)' = 0 /\ entry'[c].attempts = attempts
    BY <2>1 DEF Uncounted, Busy, InAttempt, InRound, QueueEntry
  <2>4. rounds[c] <= attempts + 0 + crashes + ioErrors
    BY <1>3, <2>2
  <2>5. RoundsOf(c)'
    BY <1>2, <1>4, <1>6, <2>3, <2>4 DEF RoundsOf
  <2> QED
    BY <1>7, <2>1, <2>5 DEF RoundsOK, InRound
<1> QED
  BY <1>8, <1>9

\* The other steps of attempt.
LEMMA DeliverRounds ==
    ASSUME RoundsInv, [Next]_vars, Deliver
    PROVE  RoundsOK'
<1>1. CASE \/ \E d \in Domains : Resolve(d) \/ ResolveTemporary(d) \/ ResolvePermanent(d)
           \/ SendOk \/ SendTemporary \/ SendPermanent \/ BouncePermanent
  <2>1. /\ wpc \in InRound /\ wpc' \in InRound /\ UNCHANGED <<entry, cur, attempts, rounds>>
    BY <1>1 DEF Resolve, ResolveTemporary, ResolvePermanent, NextDomain, SendOk, SendTemporary,
       SendPermanent, BouncePermanent, InWorker, InRound, spool, history
  <2> QED
    BY <2>1, RoundsWithin DEF InAttempt, InRound
<1>2. CASE RoundEnd \/ GiveUp
  <2>1. /\ wpc \in {"deliver", "giveup"} /\ wpc' \in {"remove", "giveup", "rewrite"}
        /\ wpc = "giveup" => wpc' = "remove"
        /\ UNCHANGED <<entry, cur, attempts, rounds>>
    BY <1>2 DEF RoundEnd, GiveUp, AfterRound, InWorker, spool, history, round
  <2> QED
    BY <2>1, RoundsWithin DEF InAttempt, InRound
<1>3. CASE AttemptDrop \/ RewriteError \/ RemoveBody
  <2>1. /\ wpc \in InAttempt /\ wpc' \in {"remove", "scan"} /\ UNCHANGED <<entry, rounds>>
        /\ wpc \in {"attempt", "remove2"} \/ Fails
    BY <1>3 DEF AttemptDrop, RewriteError, RemoveBody, InWorker, BackToScan, InAttempt, spool,
       history, Fault, Fails
  <2> QED
    BY <2>1, RoundsWithin DEF InAttempt, InRound
<1>4. CASE RemoveEntry
  <2>1. /\ wpc = "remove" /\ wpc' = "remove2" /\ UNCHANGED rounds
        /\ entry' = [entry EXCEPT ![cur] = NoEntry] \/ (Fails /\ entry' = entry)
    BY <1>4 DEF RemoveEntry, InWorker, history, Fault, Fails
  <2>2. entry \in [Msgs -> Entries] /\ cur \in Msgs
    BY <2>1 DEF RoundsInv, SpoolInv, Inv, TypeOK, WorkerOK, InAttempt
  <2>3. /\ \A m \in Msgs : entry'[m] = entry[m] \/ entry'[m].st # "ok"
        /\ Fails \/ entry'[cur].st # "ok"
    BY <2>1, <2>2 DEF NoEntry
  <2> QED
    BY <2>1, <2>3, RoundsWithin DEF InAttempt, InRound
<1> QED
  BY <1>1, <1>2, <1>3, <1>4, AttemptStartRounds, RewriteRounds DEF Deliver

LEMMA EnqueueRounds ==
    ASSUME RoundsInv, [Next]_vars, NEW n \in Msgs, Enqueue(n)
    PROVE  RoundsOK'
<1>1. /\ sub \in [Msgs -> SubStates] /\ entry \in [Msgs -> Entries]
  BY DEF RoundsInv, SpoolInv, Inv, TypeOK
<1>2. UNCHANGED worker /\ rounds' = rounds
  BY DEF Enqueue, EnqueueStart, EnqueueBody, EnqueueOpen, EnqueueEntry, EnqueueSignal,
         EnqueueBodyError, EnqueueEntryError, Spooling, history
<1>3. \/ entry' = entry
      \/ sub[n] = "entry" /\ entry' = [entry EXCEPT ![n] = Torn]
      \/ sub[n] = "entryOpen" /\ entry' = [entry EXCEPT ![n] = QueueEntry(envelope[n], 0)]
  BY DEF Enqueue, EnqueueStart, EnqueueBody, EnqueueOpen, EnqueueEntry, EnqueueSignal,
         EnqueueBodyError, EnqueueEntryError, Spooling, spool
<1>4. \A m \in Msgs : \/ entry'[m] = entry[m]
                      \/ sub[m] \notin Created /\ entry'[m].st # "ok"
                      \/ sub[m] \notin Created /\ entry'[m].attempts = 0
  BY <1>1, <1>3 DEF Torn, QueueEntry, Created, Spooled
<1> QED
  BY <1>2, <1>4, RoundsElsewhere

LEMMA NextRounds ==
    ASSUME RoundsInv, [Next]_vars
    PROVE  RoundsOK'
<1>1. CASE \/ \E m \in Msgs : TimePasses(m) \/ Skip(m) \/ Attempt(m)
           \/ ReadDir \/ FlushEnd \/ SelectStop \/ SelectWake \/ SelectTick
           \/ Start \/ Shutdown \/ Exit \/ UNCHANGED vars
  <2>1. UNCHANGED <<entry, rounds>>
    BY <1>1 DEF TimePasses, Skip, Attempt, Visit, ReadDir, FlushEnd, SelectStop, SelectWake,
       SelectTick, Start, Shutdown, Exit, Gone, spool, history, vars
  <2>2. \/ UNCHANGED worker
        \/ wpc \notin InAttempt /\ wpc' \notin InAttempt \ {"attempt"}
    BY <1>1 DEF TimePasses, Skip, Attempt, Visit, ReadDir, FlushEnd, SelectStop, SelectWake,
       SelectTick, Start, Shutdown, Exit, Gone, InAttempt, InRound, vars
  <2> QED
    BY <2>1, <2>2, RoundsElsewhere
<1>2. CASE Crash
  <2>1. wpc' = "off" /\ UNCHANGED <<entry, rounds>> /\ Fails
    BY <1>2 DEF Crash, Gone, spool, history, Fails
  <2>2. CASE wpc \in InAttempt
    BY <2>1, <2>2, RoundsWithin DEF InAttempt, InRound
  <2>3. CASE wpc \notin InAttempt
    BY <2>1, <2>3, RoundsElsewhere DEF InAttempt, InRound
  <2> QED
    BY <2>2, <2>3
<1> QED
  BY <1>1, <1>2, DeliverRounds, EnqueueRounds DEF Next, Worker, Work

LEMMA RoundsInvariance == Spec => []RoundsInv
<1>1. Init => RoundsInv
  <2> SUFFICES ASSUME Init PROVE RoundsInv
    OBVIOUS
  <2>1. \A m \in Msgs : rounds[m] = 0 /\ entry[m].st # "ok"
    BY DEF Init, NoEntry
  <2>2. MaxAttempts \in Nat /\ crashes = 0 /\ ioErrors = 0
    BY BoundsAssumption DEF Init
  <2>3. \A m \in Msgs : RoundsOf(m)
    BY <2>1, <2>2 DEF RoundsOf
  <2> QED
    BY <2>3, SpoolInitInv DEF RoundsInv, RoundsOK, InRound, Init
<1>2. ASSUME RoundsInv, [Next]_vars PROVE RoundsInv'
  <2>1. SpoolInv'
    BY <1>2, NextInv, NextEffect, FreshInvariance, CopiesInvariance, ExactInvariance
    DEF RoundsInv, SpoolInv, Step
  <2> QED
    BY <1>2, <2>1, NextRounds DEF RoundsInv
<1> QED
  BY <1>1, <1>2, PTL DEF Spec

\* A message is tried in at most queueMaxAttempts rounds, and one more for each
\* crash or failing call: those are the rounds whose Attempts++ never reached
\* the sidecar.  The sidecar never shows a spent budget, and attempt gives up
\* on the last round.
THEOREM AttemptsAreBounded == Spec => []AttemptsBounded
<1>1. RoundsInv => AttemptsBounded
  BY DEF RoundsInv, RoundsOK, RoundsOf, SpoolInv, Inv, EntriesOK, WorkerOK, AttemptsBounded
<1> QED
  BY <1>1, RoundsInvariance, PTL
=============================================================================
