--------------------------- MODULE RelayDelivery ---------------------------
(***************************************************************************)
(* The spool and the worker of Relay implement Delivery.  A recipient that *)
(* is neither settled nor dropped is lost when the sidecar of its message  *)
(* is torn and nobody is in the middle of writing it: not the enqueue call *)
(* that creates it, nor the worker that rewrites it.                       *)
(***************************************************************************)
EXTENDS Relay

\* An unused queue id exists: Delivery tells a failure by what it may lose.
ASSUME MsgsAssumption == Msgs # {}

Status(m) ==
    CASE sub[m] = "idle"         -> "new"
      [] sub[m] \in InEnqueue    -> "open"
      [] sub[m] = "acked"        -> "accepted"
      [] sub[m] = "refused"      -> "refused"

Rewriting(m) == wpc = "rewriting" /\ cur = m
TornForGood(m) == sub[m] \in Spooled /\ entry[m].st = "torn" /\ ~Rewriting(m)

Lost(m) ==
    IF sub[m] = "refused" THEN {}
    ELSE unreported[m] \cup (IF TornForGood(m) THEN envelope[m] \ Done(m) ELSE {})

D == INSTANCE Delivery WITH
         status   <- [m \in Msgs |-> Status(m)],
         to       <- envelope,
         folded   <- folded,
         served   <- settled,
         lost     <- [m \in Msgs |-> Lost(m)],
         failures <- crashes + ioErrors

\* The relay implements Delivery: whatever enqueue, flush, attempt, the remote
\* hosts, crashes and shutdowns do, every step serves somebody not served
\* before, or loses somebody only if it is itself the step that fails or the
\* step whose report has no clear addressee (a torn sidecar or a drop without a
\* report is never the late result of a race or of a graceful shutdown), or
\* changes nothing that was promised; and everybody is served or lost in the
\* end.
ImplementsDelivery == D!Spec
=============================================================================
