------------------------------- MODULE Relay -------------------------------
(***************************************************************************)
(* The outbound relay of the mail server (mail/relay.go): SMTP sessions    *)
(* spool accepted mail with queue.enqueue while one worker goroutine,      *)
(* queue.run, flushes the spool until shutdown.                            *)
(*                                                                         *)
(* A spooled message is two files, the body <id>.eml and the sidecar       *)
(* <id>.json.  os.WriteFile truncates and then writes, so every write is   *)
(* two steps and the process can die between them.  enqueue holds q.mu;    *)
(* the worker never takes it, so the two interleave on the file system.    *)
(*                                                                         *)
(* Data abstraction: a message is its queue id; an entry keeps the         *)
(* recipients and the attempt count; NextTry is the membership of the id   *)
(* in `due' (the time has come); remote hosts answer as they please.       *)
(***************************************************************************)
EXTENDS Integers, FiniteSets

CONSTANTS Msgs,          \* queue ids
          Rcpts,         \* remote recipients
          Domains,       \* their mail domains
          DomainOf,      \* SplitAddress(rcpt).domain
          MaxAttempts,   \* queueMaxAttempts (12 in config.go)
          MaxMX,         \* bound: MX hosts a domain resolves to
          MaxCrashes,    \* bound: deaths of the process
          MaxIoErrors,   \* bound: failing system calls and sender lookups
          MaxShutdowns,  \* bound: graceful shutdowns
          MaxLostAnswers, \* bound: transactions a host took and did not confirm
          None           \* no message, no domain

ASSUME DomainOfAssumption == DomainOf \in [Rcpts -> Domains]
ASSUME BoundsAssumption ==
    /\ MaxAttempts \in Nat \ {0}
    /\ MaxMX \in Nat \ {0}
    /\ MaxCrashes \in Nat /\ MaxIoErrors \in Nat /\ MaxShutdowns \in Nat
    /\ MaxLostAnswers \in Nat
ASSUME NoneAssumption == None \notin Msgs /\ None \notin Domains

VARIABLES
    entry,       \* Msgs -> the file <id>.json
    body,        \* Msgs -> the file <id>.eml: "none", "part" or "full"
    due,         \* ids whose NextTry has come
    sub,         \* Msgs -> progress of the enqueue call that makes the id
    envelope,    \* Msgs -> recipients of that call
    folded,      \* ids whose From is the sender's address only up to case
    wake,        \* the channel q.wake (capacity 1) holds a token
    stop,        \* the channel q.stop is closed
    wpc,         \* where the worker is
    listing,     \* names flush has read from the directory and not visited
    cur,         \* the entry attempt works on: id, To, Attempts
    rcpts,
    attempts,
    pending,     \* domains the loop of attempt has not visited
    deferred,    \* recipients that failed temporarily this round
    dom,         \* domain being delivered, and the MX hosts still to try
    hosts,
    settled,     \* history: recipients relayed, or bounced to the sender
    unreported,  \* history: recipients dropped without telling the sender
    rounds,      \* history: Msgs -> delivery rounds begun
    taken,       \* history: copies a remote host has accepted, by recipient
    lostAnswers, \* accepted transactions whose confirmation was lost
    crashes, ioErrors, shutdowns

spool   == <<entry, body, due>>
client  == <<sub, envelope, folded>>
signals == <<wake, stop>>
round   == <<rcpts, attempts, pending, deferred, dom, hosts>>
worker  == <<wpc, listing, cur, round>>
network == <<taken, lostAnswers>>
history == <<settled, unreported, rounds, network>>
faults  == <<crashes, ioErrors, shutdowns>>
vars    == <<spool, client, signals, worker, history, faults>>

-----------------------------------------------------------------------------
(* A sidecar is missing, unparseable, or a queueEntry. *)
NoEntry == [st |-> "none", to |-> {}, attempts |-> 0]
Torn    == [st |-> "torn", to |-> {}, attempts |-> 0]
QueueEntry(to, n) == [st |-> "ok", to |-> to, attempts |-> n]

Entries == [st : {"none", "torn", "ok"}, to : SUBSET Rcpts, attempts : Nat]

InEnqueue == {"body", "entry", "entryOpen", "signal"}
SubStates == InEnqueue \cup {"idle", "acked", "refused"}

InRound == {"deliver", "send", "bounce"}
InAttempt == InRound \cup {"attempt", "giveup", "rewrite", "rewriting",
                           "remove", "remove2"}
WorkerStates == InAttempt \cup {"off", "flush", "scan", "select", "done"}

Running == wpc # "off"
At(d) == {r \in rcpts : DomainOf[r] = d}
Fault == ioErrors < MaxIoErrors /\ ioErrors' = ioErrors + 1
Done(m) == settled[m] \cup unreported[m]

TypeOK ==
    /\ entry \in [Msgs -> Entries]
    /\ body \in [Msgs -> {"none", "part", "full"}]
    /\ due \in SUBSET Msgs
    /\ sub \in [Msgs -> SubStates]
    /\ envelope \in [Msgs -> SUBSET Rcpts]
    /\ folded \in SUBSET Msgs
    /\ wake \in BOOLEAN /\ stop \in BOOLEAN
    /\ wpc \in WorkerStates
    /\ listing \in SUBSET Msgs
    /\ cur \in Msgs \cup {None}
    /\ rcpts \in SUBSET Rcpts
    /\ attempts \in 0 .. MaxAttempts
    /\ pending \in SUBSET Domains
    /\ deferred \in SUBSET Rcpts
    /\ dom \in Domains \cup {None}
    /\ hosts \in 0 .. MaxMX
    /\ settled \in [Msgs -> SUBSET Rcpts]
    /\ unreported \in [Msgs -> SUBSET Rcpts]
    /\ rounds \in [Msgs -> Nat]
    /\ taken \in [Msgs -> [Rcpts -> Nat]]
    /\ lostAnswers \in 0 .. MaxLostAnswers
    /\ crashes \in 0 .. MaxCrashes
    /\ ioErrors \in 0 .. MaxIoErrors
    /\ shutdowns \in 0 .. MaxShutdowns

NoRound ==
    /\ cur' = None /\ rcpts' = {} /\ attempts' = 0
    /\ pending' = {} /\ deferred' = {} /\ dom' = None /\ hosts' = 0

Init ==
    /\ entry = [m \in Msgs |-> NoEntry]
    /\ body = [m \in Msgs |-> "none"]
    /\ due = {}
    /\ sub = [m \in Msgs |-> "idle"]
    /\ envelope = [m \in Msgs |-> {}] /\ folded = {}
    /\ wake = FALSE /\ stop = FALSE
    /\ wpc = "off" /\ listing = {}
    /\ cur = None /\ rcpts = {} /\ attempts = 0
    /\ pending = {} /\ deferred = {} /\ dom = None /\ hosts = 0
    /\ settled = [m \in Msgs |-> {}]
    /\ unreported = [m \in Msgs |-> {}]
    /\ rounds = [m \in Msgs |-> 0]
    /\ taken = [m \in Msgs |-> [r \in Rcpts |-> 0]]
    /\ lostAnswers = 0
    /\ crashes = 0 /\ ioErrors = 0 /\ shutdowns = 0

-----------------------------------------------------------------------------
(* enqueue, called by an SMTP session at the end of DATA.  q.mu admits one *)
(* call at a time; the id is fresh.  The session kept the From as the      *)
(* client spelt it, which MAIL compares without regard to case.            *)

Spooling(m, from, to) ==
    /\ Running /\ sub[m] = from
    /\ sub' = [sub EXCEPT ![m] = to]
    /\ UNCHANGED <<worker, history, crashes, shutdowns, stop>>

\* Mutant: the sidecar is written before the body.
EnqueueStart_EntryFirst(m, to) ==
    /\ \A n \in Msgs : sub[n] \notin InEnqueue
    /\ Spooling(m, "idle", "body")
    /\ envelope' = [envelope EXCEPT ![m] = to]
    /\ folded' \in {folded, folded \cup {m}}
    /\ entry' = [entry EXCEPT ![m] = QueueEntry(to, 0)]
    /\ due' = due \cup {m}
    /\ UNCHANGED <<body, wake, ioErrors>>

EnqueueStart(m, to) ==
    /\ \A n \in Msgs : sub[n] \notin InEnqueue
    /\ Spooling(m, "idle", "body")
    /\ envelope' = [envelope EXCEPT ![m] = to]
    /\ folded' \in {folded, folded \cup {m}}
    /\ body' = [body EXCEPT ![m] = "part"]
    /\ UNCHANGED <<entry, due, wake, ioErrors>>

EnqueueBody(m) ==
    /\ Spooling(m, "body", "entry")
    /\ body' = [body EXCEPT ![m] = "full"]
    /\ UNCHANGED <<entry, due, envelope, folded, wake, ioErrors>>

EnqueueOpen(m) ==
    /\ Spooling(m, "entry", "entryOpen")
    /\ entry' = [entry EXCEPT ![m] = Torn]
    /\ UNCHANGED <<body, due, envelope, folded, wake, ioErrors>>

EnqueueEntry(m) ==
    /\ Spooling(m, "entryOpen", "signal")
    /\ entry' = [entry EXCEPT ![m] = QueueEntry(envelope[m], 0)]
    /\ due' = due \cup {m}
    /\ UNCHANGED <<body, envelope, folded, wake, ioErrors>>

\* q.signal() and the return that lets the session answer 250.
EnqueueSignal(m) ==
    /\ Spooling(m, "signal", "acked")
    /\ wake' = TRUE
    /\ UNCHANGED <<spool, envelope, folded, ioErrors>>

\* Creating or writing the body failed: what was written stays.
EnqueueBodyError(m) ==
    /\ Fault
    /\ Spooling(m, "body", "refused")
    /\ UNCHANGED <<spool, envelope, folded, wake>>

\* writeEntry failed: the body is removed (that may fail too), a sidecar that
\* was already truncated stays.
EnqueueEntryError(m) ==
    /\ Fault
    /\ \/ Spooling(m, "entry", "refused")
       \/ Spooling(m, "entryOpen", "refused")
    /\ \E b \in {"none", "full"} : body' = [body EXCEPT ![m] = b]
    /\ UNCHANGED <<entry, due, envelope, folded, wake>>

Enqueue(m) ==
    \/ \E to \in (SUBSET Rcpts) \ {{}} : EnqueueStart(m, to)
    \/ EnqueueBody(m)
    \/ EnqueueOpen(m)
    \/ EnqueueEntry(m)
    \/ EnqueueSignal(m)
    \/ EnqueueBodyError(m)
    \/ EnqueueEntryError(m)

-----------------------------------------------------------------------------
(* flush: list the directory, then visit the sidecars one by one. *)

ReadDir ==
    /\ wpc = "flush"
    /\ \/ /\ wpc' = "scan"
          /\ listing' = {m \in Msgs : entry[m].st # "none"}
          /\ UNCHANGED ioErrors
       \/ /\ Fault
          /\ wpc' = "select"
          /\ UNCHANGED listing
    /\ UNCHANGED <<spool, client, signals, cur, round, history,
                   crashes, shutdowns>>

\* Mutant: flush drains q.wake when it is through.
FlushEnd_DrainsWake ==
    /\ wpc = "scan" /\ (listing = {} \/ stop)
    /\ wpc' = "select" /\ listing' = {}
    /\ wake' = FALSE
    /\ UNCHANGED <<spool, client, stop, cur, round, history, faults>>

FlushEnd ==
    /\ wpc = "scan" /\ (listing = {} \/ stop)
    /\ wpc' = "select" /\ listing' = {}
    /\ UNCHANGED <<spool, client, signals, cur, round, history, faults>>

Visit(m) ==
    /\ wpc = "scan" /\ ~stop /\ m \in listing
    /\ listing' = listing \ {m}
    /\ UNCHANGED <<spool, client, signals, history, crashes, shutdowns>>

\* The sidecar cannot be read or parsed, or its time has not come.
Skip(m) ==
    /\ Visit(m)
    /\ \/ (entry[m].st # "ok" \/ m \notin due) /\ UNCHANGED ioErrors
       \/ Fault
    /\ UNCHANGED <<wpc, cur, round>>

\* readEntry succeeds on an entry that is due: attempt(entry).
Attempt(m) ==
    /\ Visit(m)
    /\ entry[m].st = "ok" /\ m \in due
    /\ wpc' = "attempt" /\ cur' = m
    /\ rcpts' = entry[m].to /\ attempts' = entry[m].attempts
    /\ UNCHANGED <<pending, deferred, dom, hosts, ioErrors>>

-----------------------------------------------------------------------------
(* attempt: one delivery round for the entry in the worker's memory. *)

InWorker(from, to) ==
    /\ wpc = from /\ wpc' = to
    /\ UNCHANGED <<client, signals, listing, crashes, shutdowns>>

\* The body is missing, or reading it fails: the message is dropped.
AttemptDrop ==
    /\ InWorker("attempt", "remove")
    /\ \/ body[cur] = "none" /\ UNCHANGED ioErrors
       \/ Fault
    /\ unreported' = [unreported EXCEPT ![cur] = @ \cup (rcpts \ settled[cur])]
    /\ UNCHANGED <<spool, cur, round, settled, rounds, network>>

AttemptStart ==
    /\ InWorker("attempt", "deliver")
    /\ body[cur] # "none"
    /\ attempts' = attempts + 1
    /\ rounds' = [rounds EXCEPT ![cur] = @ + 1]
    /\ pending' = {DomainOf[r] : r \in rcpts}
    /\ deferred' = {}
    /\ UNCHANGED <<spool, cur, rcpts, dom, hosts, settled, unreported, network,
                   ioErrors>>

\* The map of groupByDomain is iterated in any order; a smarthost counts as
\* one host, and mxHosts may fail for now or for good.
NextDomain(d) ==
    /\ d \in pending
    /\ pending' = pending \ {d}
    /\ UNCHANGED <<spool, cur, rcpts, attempts, history, ioErrors>>

Resolve(d) ==
    /\ InWorker("deliver", "send") /\ NextDomain(d)
    /\ dom' = d /\ hosts' \in 1 .. MaxMX
    /\ UNCHANGED deferred

ResolveTemporary(d) ==
    /\ InWorker("deliver", "deliver") /\ NextDomain(d)
    /\ deferred' = deferred \cup At(d)
    /\ UNCHANGED <<dom, hosts>>

ResolvePermanent(d) ==
    /\ InWorker("deliver", "bounce") /\ NextDomain(d)
    /\ dom' = d
    /\ UNCHANGED <<deferred, hosts>>

\* The host has answered DATA with 250 for everybody at dom.
HostTakes ==
    taken' = [taken EXCEPT ![cur] =
                 [r \in Rcpts |-> IF r \in At(dom) THEN @[r] + 1 ELSE @[r]]]

\* sendTo returned an error: the host refused, or it has the message and the
\* answer to DATA was lost, or QUIT failed after it.
TakenOrNot ==
    \/ UNCHANGED network
    \/ /\ lostAnswers < MaxLostAnswers /\ lostAnswers' = lostAnswers + 1
       /\ HostTakes

\* sendTo: one SMTP transaction with the next host for every recipient at dom.
SendOk ==
    /\ InWorker("send", "deliver")
    /\ settled' = [settled EXCEPT ![cur] = @ \cup At(dom)]
    /\ HostTakes
    /\ dom' = None /\ hosts' = 0
    /\ UNCHANGED <<spool, cur, rcpts, attempts, pending, deferred,
                   unreported, rounds, lostAnswers, ioErrors>>

SendTemporary ==
    /\ \/ /\ hosts > 1
          /\ InWorker("send", "send")
          /\ hosts' = hosts - 1
          /\ UNCHANGED <<dom, deferred>>
       \/ /\ hosts = 1
          /\ InWorker("send", "deliver")
          /\ deferred' = deferred \cup At(dom)
          /\ dom' = None /\ hosts' = 0
    /\ TakenOrNot
    /\ UNCHANGED <<spool, cur, rcpts, attempts, pending, settled, unreported,
                   rounds, ioErrors>>

SendPermanent ==
    /\ InWorker("send", "bounce")
    /\ TakenOrNot
    /\ hosts' = 0
    /\ UNCHANGED <<spool, cur, rcpts, attempts, pending, deferred, dom,
                   settled, unreported, rounds, ioErrors>>

\* bounce stores a report in the INBOX of the account that FindByID finds for
\* the From.  If that cannot be done (user.json is unreadable, Append fails)
\* nobody is told.  Nor is the sender when the From is spelt unlike his ID: two
\* accounts may match it up to case, and then nobody is found, or it is the ID
\* of another account, which gets the report.
Bounce(rs) ==
    \/ /\ settled' = [settled EXCEPT ![cur] = @ \cup rs]
       /\ UNCHANGED <<unreported, ioErrors>>
    \/ /\ Fault \/ (cur \in folded /\ UNCHANGED ioErrors)
       /\ unreported' = [unreported EXCEPT ![cur] = @ \cup (rs \ settled[cur])]
       /\ UNCHANGED settled

BouncePermanent ==
    /\ InWorker("bounce", "deliver")
    /\ Bounce(At(dom))
    /\ dom' = None
    /\ UNCHANGED <<spool, cur, rcpts, attempts, pending, deferred, hosts, rounds,
                   network>>

\* Mutant: one round too many.
GivesUp_Late(n) == n > MaxAttempts

GivesUp(n) == n >= MaxAttempts

\* Mutant: giving up without the bounce.
AfterRound_NoBounce ==
    IF deferred = {} \/ GivesUp(attempts) THEN "remove" ELSE "rewrite"

AfterRound ==
    CASE deferred = {}     -> "remove"
      [] deferred # {} /\ GivesUp(attempts)  -> "giveup"
      [] deferred # {} /\ ~GivesUp(attempts) -> "rewrite"

RoundEnd ==
    /\ pending = {}
    /\ InWorker("deliver", AfterRound)
    /\ UNCHANGED <<spool, cur, round, history, ioErrors>>

GiveUp ==
    /\ InWorker("giveup", "remove")
    /\ Bounce(deferred)
    /\ UNCHANGED <<spool, cur, round, rounds, network>>

-----------------------------------------------------------------------------
(* writeEntry of the deferred recipients, and remove: the sidecar, then    *)
(* the body.  Errors are only logged.                                      *)

\* attempt returns to the loop of flush.
BackToScan(from) ==
    /\ wpc = from /\ wpc' = "scan"
    /\ NoRound
    /\ UNCHANGED <<client, signals, listing, history, crashes, shutdowns>>

RewriteOpen ==
    /\ InWorker("rewrite", "rewriting")
    /\ entry' = [entry EXCEPT ![cur] = Torn]
    /\ UNCHANGED <<body, due, cur, round, history, ioErrors>>

\* Mutant: entry.To keeps the recipients that were served.
RewriteEntry_AllRcpts ==
    /\ BackToScan("rewriting")
    /\ entry' = [entry EXCEPT ![cur] = QueueEntry(rcpts, attempts)]
    /\ due' = due \ {cur}
    /\ UNCHANGED <<body, ioErrors>>

RewriteEntry ==
    /\ BackToScan("rewriting")
    /\ entry' = [entry EXCEPT ![cur] = QueueEntry(deferred, attempts)]
    /\ due' = due \ {cur}
    /\ UNCHANGED <<body, ioErrors>>

RewriteError ==
    /\ Fault
    /\ BackToScan("rewrite") \/ BackToScan("rewriting")
    /\ UNCHANGED spool

RemoveEntry ==
    /\ InWorker("remove", "remove2")
    /\ \/ entry' = [entry EXCEPT ![cur] = NoEntry] /\ UNCHANGED ioErrors
       \/ Fault /\ UNCHANGED entry
    /\ UNCHANGED <<body, due, cur, round, history>>

RemoveBody ==
    /\ BackToScan("remove2")
    /\ \/ body' = [body EXCEPT ![cur] = "none"] /\ UNCHANGED ioErrors
       \/ Fault /\ UNCHANGED body
    /\ UNCHANGED <<entry, due>>

-----------------------------------------------------------------------------
(* run: select on stop, wake and the ticker, chosen at random among the    *)
(* ready ones.                                                             *)

\* Mutant: the stop case flushes and does not return.
SelectStop_Flushes ==
    /\ wpc = "select" /\ stop
    /\ wpc' = "flush"
    /\ UNCHANGED <<spool, client, signals, listing, cur, round, history,
                   faults>>

SelectStop ==
    /\ wpc = "select" /\ stop
    /\ wpc' = "done"
    /\ UNCHANGED <<spool, client, signals, listing, cur, round, history,
                   faults>>

SelectWake ==
    /\ wpc = "select" /\ wake
    /\ wpc' = "flush" /\ wake' = FALSE
    /\ UNCHANGED <<spool, client, stop, listing, cur, round, history, faults>>

SelectTick ==
    /\ wpc = "select"
    /\ wpc' = "flush"
    /\ UNCHANGED <<spool, client, signals, listing, cur, round, history,
                   faults>>

Deliver ==
    \/ AttemptDrop \/ AttemptStart
    \/ \E d \in Domains : Resolve(d) \/ ResolveTemporary(d) \/ ResolvePermanent(d)
    \/ SendOk \/ SendTemporary \/ SendPermanent
    \/ BouncePermanent \/ RoundEnd \/ GiveUp
    \/ RewriteOpen \/ RewriteEntry \/ RewriteError
    \/ RemoveEntry \/ RemoveBody

\* Everything the worker does short of the choice in select.
Work ==
    \/ ReadDir \/ FlushEnd
    \/ \E m \in Msgs : Skip(m) \/ Attempt(m)
    \/ Deliver

Worker == Work \/ SelectStop \/ SelectWake \/ SelectTick

-----------------------------------------------------------------------------
(* The clock, and the life of the process. *)

\* time.Now() passes the NextTry of a backed-off entry.
TimePasses(m) ==
    /\ entry[m].st = "ok" /\ m \notin due
    /\ due' = due \cup {m}
    /\ UNCHANGED <<entry, body, client, signals, worker, history, faults>>

\* Server.Start: a fresh queue over the spool left on disk.
Start ==
    /\ wpc = "off"
    /\ wpc' = "flush" /\ wake' = FALSE /\ stop' = FALSE
    /\ UNCHANGED <<spool, client, listing, cur, round, history, faults>>

\* Server.Shutdown calls queue.shutdown: close(q.stop), then wait for done.
Shutdown ==
    /\ Running /\ ~stop /\ shutdowns < MaxShutdowns
    /\ stop' = TRUE /\ shutdowns' = shutdowns + 1
    /\ UNCHANGED <<spool, client, wake, worker, history, crashes, ioErrors>>

\* The process is gone: its memory is lost and a session that was in enqueue
\* never answers.
Gone ==
    /\ wpc' = "off" /\ listing' = {} /\ wake' = FALSE /\ stop' = FALSE
    /\ NoRound
    /\ sub' = [m \in Msgs |-> IF sub[m] \in InEnqueue THEN "refused" ELSE sub[m]]
    /\ UNCHANGED <<spool, envelope, folded, history, ioErrors, shutdowns>>

\* Mutant: queue.shutdown does not wait for the worker to be done.
Exit_NoWait ==
    /\ Running /\ stop
    /\ Gone
    /\ UNCHANGED crashes

\* main returns after queue.shutdown; a session that outlived the shutdown
\* timeout of the SMTP server is cut off.
Exit ==
    /\ wpc = "done"
    /\ Gone
    /\ UNCHANGED crashes

Crash ==
    /\ Running /\ crashes < MaxCrashes
    /\ Gone
    /\ crashes' = crashes + 1

Next ==
    \/ \E m \in Msgs : Enqueue(m) \/ TimePasses(m)
    \/ Worker
    \/ Start \/ Shutdown \/ Exit \/ Crash

Spec == Init /\ [][Next]_vars

-----------------------------------------------------------------------------
(* Properties. *)

\* Every recipient of an accepted message has been relayed to, or reported to
\* the sender, or is still listed by a readable sidecar whose body is
\* complete; the exceptions are a sidecar torn by a write that was cut off and
\* the recipients dropped without a report (NoSilentDrop says when).  enqueue,
\* attempt, writeEntry and remove keep it in every interleaving, over crashes
\* too.
NothingLost ==
    \A m \in Msgs : sub[m] = "acked" =>
        \A r \in envelope[m] :
            \/ r \in Done(m)
            \/ entry[m].st = "torn"
            \/ entry[m].st = "ok" /\ r \in entry[m].to /\ body[m] = "full"

NoFault == crashes = 0 /\ ioErrors = 0
Busy(m) == wpc \in InAttempt /\ cur = m

\* Without faults the spool is exact whenever the worker is not inside attempt
\* for the message: both files are there and list exactly the recipients that
\* are not done with, or both are gone and everybody is done with, that is,
\* relayed to or reported (NoSilentDrop has the one exception).  A graceful
\* shutdown in the middle of a flush (queue.shutdown waits for the worker)
\* leaves nothing torn, orphaned or listed twice.
SpoolExact ==
    NoFault => \A m \in Msgs : sub[m] = "acked" /\ ~Busy(m) =>
        \/ /\ entry[m].st = "ok" /\ body[m] = "full"
           /\ entry[m].to = envelope[m] \ Done(m)
           /\ entry[m].to # {}
        \/ /\ entry[m].st = "none" /\ body[m] = "none"
           /\ Done(m) = envelope[m]

\* Every copy of a message beyond the first that some host takes for the same
\* recipient is paid for by a fault: a crash between sendTo and the rewrite of
\* the sidecar, a failing rewrite or remove, or a host whose confirmation was
\* lost (sendTo returns the error of QUIT, so the round counts as failed).
\* Rounds, several hosts and graceful restarts never duplicate mail by
\* themselves, nor is somebody reported as failed after a host has taken the
\* message or after an earlier report.
CopiesAccounted ==
    /\ \A m \in Msgs : \A r \in Rcpts :
           taken[m][r] <= 1 + crashes + ioErrors + lostAnswers
    /\ NoFault /\ lostAnswers = 0 =>
           /\ wpc \in {"send", "bounce"} => \A r \in At(dom) :
                  r \notin Done(cur) /\ taken[cur][r] = 0
           /\ wpc = "giveup" => \A r \in deferred :
                  r \notin Done(cur) /\ taken[cur][r] = 0

\* A message is tried in at most queueMaxAttempts rounds, and in one more for
\* each crash or failing call: Attempts++ is in memory until the sidecar is
\* rewritten, so a round that is cut off, or whose rewrite or removal fails, is
\* not counted.  A graceful shutdown and the restarts that re-read the sidecar
\* cost nothing.  attempt gives up on the last round and not before.
AttemptsBounded ==
    /\ \A m \in Msgs : rounds[m] <= MaxAttempts + crashes + ioErrors
    /\ \A m \in Msgs : entry[m].st = "ok" => entry[m].attempts < MaxAttempts
    /\ wpc = "giveup" => attempts = MaxAttempts

\* The relay drops a recipient without telling the sender only when a call
\* fails (a system call, or the lookup of the sender while user.json is being
\* rewritten), or when the sender spelt its address with other case than its
\* ID: never because of a crash between the two files of enqueue or of remove,
\* nor of a race with flush that leaves attempt without a body.
NoSilentDrop ==
    \A m \in Msgs : unreported[m] # {} => ioErrors > 0 \/ m \in folded

\* When the worker waits in select, a message nobody has tried yet has a
\* wake-up pending: the token that enqueue leaves in the channel of capacity 1
\* is never lost to a flush that listed the directory too early.
NoLostWakeup ==
    wpc = "select" /\ ~stop /\ ioErrors = 0 =>
        \A m \in Msgs :
            sub[m] = "acked" /\ entry[m].st = "ok" /\ entry[m].attempts = 0
                => wake

\* What the comment on type queue promises: nothing that was accepted is lost
\* when the process dies, that is, every recipient not settled is still listed
\* by a readable sidecar once the process is gone.
AcceptedSurvivesCrash ==
    wpc = "off" =>
        \A m \in Msgs : sub[m] = "acked" =>
            \A r \in envelope[m] \ Done(m) :
                entry[m].st = "ok" /\ r \in entry[m].to /\ body[m] = "full"

-----------------------------------------------------------------------------
(* The inductive invariant behind NothingLost, AttemptsBounded and          *)
(* NoLostWakeup: what each stage of enqueue has put on disk, what the       *)
(* worker's memory knows about the entry it holds, and where a message that *)
(* nobody has tried yet will be found.                                      *)

Spooled == {"signal", "acked"}
Created == Spooled \cup {"refused"}
Holding == InAttempt \ {"rewriting", "remove2"}

EnqueueOK ==
    \A m \in Msgs :
        /\ sub[m] \in {"idle", "body", "entry"} => entry[m].st = "none"
        /\ sub[m] \in {"entry", "entryOpen"} => body[m] = "full"
        /\ sub[m] = "entryOpen" => entry[m].st = "torn"
        /\ sub[m] \in Spooled => \A r \in envelope[m] :
               \/ r \in Done(m)
               \/ entry[m].st = "torn"
               \/ entry[m].st = "ok" /\ r \in entry[m].to

EntriesOK ==
    \A m \in Msgs : entry[m].st = "ok" =>
        /\ sub[m] \in Created
        /\ entry[m].attempts < MaxAttempts
        /\ entry[m].attempts = 0 => m \in due
        /\ \/ body[m] = "full"
           \/ body[m] = "none" /\ entry[m].to \subseteq Done(m)

WorkerOK ==
    /\ wpc \in InAttempt =>
        /\ cur \in Msgs /\ sub[cur] \in Created
        /\ sub[cur] \in Spooled => envelope[cur] \subseteq rcpts \cup Done(cur)
    /\ wpc \in Holding => entry[cur].st = "ok" /\ entry[cur].to = rcpts
    /\ wpc = "attempt" => attempts = entry[cur].attempts
    /\ wpc \in InRound \cup {"giveup", "rewrite", "rewriting"} =>
        body[cur] = "full" /\ attempts > 0
    /\ wpc \in InRound => \A r \in rcpts :
        \/ DomainOf[r] \in pending
        \/ wpc # "deliver" /\ DomainOf[r] = dom
        \/ r \in deferred \cup Done(cur)
    /\ wpc \in {"giveup", "rewrite", "rewriting"} =>
        rcpts \subseteq deferred \cup Done(cur)
    /\ wpc = "giveup" => attempts = MaxAttempts
    /\ wpc \in {"rewrite", "rewriting"} => attempts < MaxAttempts
    /\ wpc \in {"remove", "remove2"} => rcpts \subseteq Done(cur)
    /\ wpc = "rewriting" => entry[cur].st = "torn"
    /\ wpc = "remove2" /\ entry[cur].st # "none" =>
        entry[cur].st = "ok" /\ entry[cur].to = rcpts /\ ioErrors > 0

WakeOK ==
    /\ wpc = "done" => stop
    /\ wpc \in {"off", "flush", "select", "done"} => listing = {}
    /\ ~stop /\ ioErrors = 0 => \A m \in Msgs :
        sub[m] = "acked" /\ entry[m].st = "ok" /\ entry[m].attempts = 0 =>
            wake \/ wpc \in {"off", "flush"} \/ m \in listing \/ Busy(m)

SilenceOK ==
    ioErrors = 0 => \A m \in Msgs :
        /\ m \notin folded => unreported[m] = {}
        /\ entry[m].st = "ok" => body[m] = "full"

\* The rounds that the sidecar does not tell of were paid for, the one in
\* progress apart.
Uncounted(m) == IF Busy(m) /\ wpc \notin {"attempt", "remove2"} THEN 1 ELSE 0

RoundsOf(m) ==
    /\ rounds[m] <= MaxAttempts + crashes + ioErrors
    /\ sub[m] \notin Created => rounds[m] = 0
    /\ entry[m].st = "ok" =>
         rounds[m] <= entry[m].attempts + Uncounted(m) + crashes + ioErrors

RoundsOK ==
    /\ \A m \in Msgs : RoundsOf(m)
    /\ wpc \in InRound \cup {"giveup", "rewrite"} =>
        attempts = entry[cur].attempts + 1
    /\ wpc = "rewriting" => rounds[cur] <= attempts + crashes + ioErrors

\* A message the worker neither holds nor will visit has its wake-up, a
\* sidecar it holds is what it read, and every recipient of a spooled message
\* is accounted for at every step of enqueue and of attempt.
Inv ==
    /\ TypeOK
    /\ EnqueueOK
    /\ EntriesOK
    /\ WorkerOK
    /\ WakeOK
    /\ SilenceOK

-----------------------------------------------------------------------------
(* Liveness.  The worker goroutine keeps running (network calls end, in an *)
(* answer or an error), select is fair among its ready cases, the clock    *)
(* advances, and the process is started again when it is down.             *)

Fairness ==
    /\ WF_vars(Work)
    /\ SF_vars(SelectStop) /\ WF_vars(SelectTick)
    /\ \A m \in Msgs : WF_vars(TimePasses(m))
    /\ WF_vars(Start) /\ WF_vars(Exit)

FairSpec == Spec /\ Fairness

\* queue.shutdown returns: once stop is closed the worker reaches done, even
\* when wake-ups and ticks keep coming.
ShutdownReturns == stop ~> wpc \in {"done", "off"}
=============================================================================
