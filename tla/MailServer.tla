----------------------------- MODULE MailServer -----------------------------
(***************************************************************************)
(* The life of the mail server (mail/server.go, and serve in main.go):     *)
(* Start binds the listeners one by one and then starts the relay worker;  *)
(* Shutdown drains the SMTP servers one after the other, closes everything *)
(* else, waits for the worker and for the serving goroutines, and then     *)
(* main returns and takes the sessions that are left with it.              *)
(*                                                                         *)
(* It composes SmtpSession with Delivery, which works on the queue while   *)
(* the worker runs.  POP3 and IMAP take part with their listeners.         *)
(***************************************************************************)
EXTENDS SmtpSession

CONSTANTS Roles,         \* sequence: the listeners in the order of Start
          SmtpRoles,     \* sequence: those served by go-smtp
          PopRoles       \* those served by servePOP3

ASSUME RolesAssumption ==
    /\ Range(SmtpRoles) \cup PopRoles \subseteq Range(Roles)
    /\ Range(SmtpRoles) \cap PopRoles = {}
    /\ Submission \subseteq Range(SmtpRoles)
    /\ RoleOf \in [Clients -> Range(SmtpRoles)]

VARIABLES
    main,       \* where Start, serve or Shutdown is
    next,       \* the listener Start binds, or Shutdown drains, next
    loops,      \* roles with a serving goroutine in the wait group
    relayLoop,  \* queue.run: "off", "running" or "stopping"
    expired     \* the 15 seconds of the shutdown context are over

lifeVars == <<main, next, loops, relayLoop, expired, shutdowns>>
vars == <<smtpVars, lifeVars>>

Stopping == {"smtp", "queue", "wait"}

Init ==
    /\ SmtpInit /\ listening = {}
    /\ main = "down" /\ next = 1
    /\ loops = {} /\ relayLoop = "off"
    /\ expired = FALSE /\ shutdowns = 0

-----------------------------------------------------------------------------
(* Start. *)

UnchangedMail == UNCHANGED <<sess, acked, stored, origin, queueVars>>

Boot ==
    /\ main = "down"
    /\ main' = "starting"
    /\ UnchangedMail
    /\ UNCHANGED <<listening, next, loops, relayLoop, expired, shutdowns>>

\* listen, and the goroutine that serves the role: it is open at once.
StartRole ==
    /\ main = "starting" /\ next <= Len(Roles)
    /\ listening' = listening \cup {Roles[next]}
    /\ loops' = loops \cup {Roles[next]}
    /\ next' = next + 1
    /\ UnchangedMail
    /\ UNCHANGED <<main, relayLoop, expired, shutdowns>>

\* Mutant: the worker is not started.
StartQueue_Never ==
    /\ main = "starting" /\ next > Len(Roles)
    /\ main' = "serving" /\ next' = 1
    /\ UnchangedMail
    /\ UNCHANGED <<listening, loops, relayLoop, expired, shutdowns>>

StartQueue ==
    /\ main = "starting" /\ next > Len(Roles)
    /\ main' = "serving" /\ next' = 1
    /\ relayLoop' = IF RelayOn THEN "running" ELSE "off"
    /\ UnchangedMail
    /\ UNCHANGED <<listening, loops, expired, shutdowns>>

-----------------------------------------------------------------------------
(* Shutdown, called by serve after a signal or the end of the HTTP server. *)

BeginShutdown ==
    /\ main = "serving" /\ MayFail
    /\ main' = "smtp" /\ shutdowns' = shutdowns + 1
    /\ UnchangedMail
    /\ UNCHANGED <<listening, next, loops, relayLoop, expired>>

Expire ==
    /\ main \in Stopping /\ ~expired
    /\ expired' = TRUE
    /\ UnchangedMail
    /\ UNCHANGED <<listening, main, next, loops, relayLoop, shutdowns>>

\* smtp.Server.Shutdown (external): close the listener, then wait for its
\* connections until the context ends.
CloseSmtp ==
    /\ main = "smtp" /\ next <= Len(SmtpRoles)
    /\ SmtpRoles[next] \in listening
    /\ listening' = listening \ {SmtpRoles[next]}
    /\ UnchangedMail
    /\ UNCHANGED lifeVars

\* Mutant: the listener stays open while its connections are awaited.
DrainSmtp_Open ==
    /\ main = "smtp" /\ next <= Len(SmtpRoles)
    /\ expired \/ \A c \in Clients : RoleOf[c] = SmtpRoles[next] => ~Connected(c)
    /\ next' = next + 1
    /\ UnchangedMail
    /\ UNCHANGED <<listening, main, loops, relayLoop, expired, shutdowns>>

DrainSmtp ==
    /\ main = "smtp" /\ next <= Len(SmtpRoles)
    /\ SmtpRoles[next] \notin listening
    /\ expired \/ \A c \in Clients : RoleOf[c] = SmtpRoles[next] => ~Connected(c)
    /\ next' = next + 1
    /\ UnchangedMail
    /\ UNCHANGED <<listening, main, loops, relayLoop, expired, shutdowns>>

\* The IMAP servers and all listeners are closed, then queue.shutdown closes
\* q.stop ...
CloseRest ==
    /\ main = "smtp" /\ next > Len(SmtpRoles)
    /\ main' = "queue" /\ next' = 1
    /\ listening' = {}
    /\ relayLoop' = IF RelayOn THEN "stopping" ELSE "off"
    /\ UnchangedMail
    /\ UNCHANGED <<loops, expired, shutdowns>>

\* ... and waits for q.done, which the worker closes after the attempt it is
\* in.
RelayEnds ==
    /\ relayLoop = "stopping"
    /\ relayLoop' = "off"
    /\ UnchangedMail
    /\ UNCHANGED <<listening, main, next, loops, expired, shutdowns>>

QueueStopped ==
    /\ main = "queue" /\ relayLoop = "off"
    /\ main' = "wait"
    /\ UnchangedMail
    /\ UNCHANGED <<listening, next, loops, relayLoop, expired, shutdowns>>

\* A serving goroutine ends when its listener is closed.
LoopEnds(r) ==
    /\ r \in loops \ listening
    /\ loops' = loops \ {r}
    /\ UnchangedMail
    /\ UNCHANGED <<listening, main, next, relayLoop, expired, shutdowns>>

\* servePOP3 returns on any error of Accept; the listener is not closed.
AcceptFails(r) ==
    /\ r \in loops \cap listening \cap PopRoles
    /\ Failure
    /\ loops' = loops \ {r}
    /\ UNCHANGED <<sess, acked, stored, origin, listening>>
    /\ UNCHANGED <<main, next, relayLoop, expired, shutdowns>>

\* The process is gone, and with it every session.
Gone ==
    /\ main' = "down" /\ next' = 1 /\ expired' = FALSE
    /\ listening' = {} /\ loops' = {} /\ relayLoop' = "off"
    /\ sess' = [c \in Clients |-> NoSession]
    /\ UNCHANGED <<acked, stored, origin, shutdowns>>

Unfinished == {q \in QIds : status[q] = "open"}

\* Mutant: wg.Wait waits for the sessions too, which nobody ends.
Exit_WaitsForSessions ==
    /\ main = "wait" /\ loops = {}
    /\ \A c \in Clients : ~Connected(c)
    /\ Gone
    /\ Q!Close(Unfinished)

\* wg.Wait returns, Shutdown returns and main returns.
Exit ==
    /\ main = "wait" /\ loops = {}
    /\ Gone
    /\ Q!Close(Unfinished)

\* The process dies; or Start failed to bind a listener, or main found
\* GIN_TRUSTED_PROXIES invalid after startMail, and main returned without a
\* shutdown.
Crash ==
    /\ main # "down" /\ MayFail
    /\ Gone
    /\ Q!Fail(Unfinished)

-----------------------------------------------------------------------------
(* The queue, as Delivery describes it, while its worker runs. *)

RelayServes(q) ==
    /\ relayLoop # "off"
    /\ Q!Serve(q) /\ served' # served
    /\ UNCHANGED <<sess, acked, stored, origin, listening, lifeVars>>

\* The report on a message whose From was spelt otherwise finds no account.
RelayDrops(q) ==
    /\ relayLoop # "off"
    /\ Q!Drop(q) /\ lost' # lost
    /\ UNCHANGED <<sess, acked, stored, origin, listening, lifeVars>>

RelayFails ==
    /\ relayLoop # "off" /\ MayFail
    /\ Q!Fail({}) /\ lost' # lost
    /\ UNCHANGED <<sess, acked, stored, origin, listening, lifeVars>>

Main ==
    \/ Boot \/ StartRole \/ StartQueue
    \/ CloseSmtp \/ DrainSmtp \/ CloseRest
    \/ QueueStopped \/ Exit

Smtp(c) == (Command(c) \/ DataStep(c)) /\ UNCHANGED lifeVars

Next ==
    \/ \E c \in Clients : Smtp(c)
    \/ Main \/ BeginShutdown \/ Expire \/ Crash
    \/ RelayEnds \/ RelayFails
    \/ \E q \in QIds : RelayServes(q) \/ RelayDrops(q)
    \/ \E r \in Range(Roles) : LoopEnds(r) \/ AcceptFails(r)

Spec == Init /\ [][Next]_vars

\* The goroutines run, the clock advances, and somebody starts the process
\* again.  Nothing is assumed of the clients.
Fairness ==
    /\ WF_vars(Main) /\ WF_vars(Expire) /\ WF_vars(RelayEnds)
    /\ \A r \in Range(Roles) : WF_vars(LoopEnds(r))
    /\ \A q \in QIds : WF_vars(RelayServes(q))
    /\ \A c \in Clients : WF_vars(DataStep(c) /\ UNCHANGED lifeVars)

FairSpec == Spec /\ Fairness

-----------------------------------------------------------------------------
(* Properties. *)

\* The SMTP servers are drained before the queue is stopped: as long as the
\* shutdown context has not ended no session is left that could still hand the
\* stopped queue a message, although the servers are drained one after the
\* other and the later ones keep accepting clients meanwhile.
DrainedBeforeQueueStops ==
    main \in {"queue", "wait"} /\ ~expired =>
        \A c \in Clients : ~Connected(c)

\* Data answers 451 when one recipient of several fails, although the others
\* have their copy, and the client sends it again: each copy beyond the first
\* is paid for by a failing call, a lost reply, a crash, or a shutdown that did
\* not wait for the reply, and never by the order of commands.
CopiesPaidFor ==
    \A c \in Clients :
        /\ \A a \in Locals : stored[c][a] <= 1 + failures + shutdowns
        /\ \A a \in Remotes :
               Cardinality(Queued(c, a)) <= 1 + failures + shutdowns

\* Shutdown returns, whatever clients, sessions and serving goroutines do: an
\* idle SMTP connection costs at most the 15 seconds of the context.
ShutdownEnds == main = "smtp" ~> main = "down"

\* End to end: a remote recipient for whom DATA was answered 250 is relayed
\* to, reported, or lost by a failure or with a report that found no account,
\* even when the reply was given while the queue was being stopped, and over
\* restarts.
AckedMailArrives ==
    \A c \in Clients : \A a \in Remotes :
        a \in acked[c] ~> \E q \in Queued(c, a) : a \in served[q] \cup lost[q]
=============================================================================
