------------------------------ MODULE Delivery ------------------------------
(***************************************************************************)
(* What the relay promises to the SMTP sessions that hand it mail, without *)
(* the spool, the worker or the remote hosts: a message is accepted or     *)
(* refused; the recipients of an accepted message are served (relayed to,  *)
(* or reported to the sender) or lost, which happens only in the very step *)
(* in which something fails, or when the sender used another spelling of   *)
(* its address; and in the end nobody is left over.                        *)
(***************************************************************************)
EXTENDS Naturals

CONSTANTS Msgs, Rcpts

VARIABLES status,   \* Msgs -> "new", "open", "accepted" or "refused"
          to,       \* Msgs -> the recipients submitted
          folded,   \* messages from an address that is the sender's up to case
          served,   \* Msgs -> recipients relayed to or reported
          lost,     \* Msgs -> recipients nobody will hear of
          failures  \* failing calls and deaths of the process so far

vars == <<status, to, folded, served, lost, failures>>

Init ==
    /\ status = [m \in Msgs |-> "new"]
    /\ to = [m \in Msgs |-> {}] /\ folded = {}
    /\ served = [m \in Msgs |-> {}]
    /\ lost = [m \in Msgs |-> {}]
    /\ failures = 0

Submit(m) ==
    /\ status[m] = "new"
    /\ status' = [status EXCEPT ![m] = "open"]
    /\ \E rs \in (SUBSET Rcpts) \ {{}} : to' = [to EXCEPT ![m] = rs]
    /\ folded' \in {folded, folded \cup {m}}
    /\ UNCHANGED <<served, lost, failures>>

Accept(m) ==
    /\ status[m] = "open"
    /\ status' = [status EXCEPT ![m] = "accepted"]
    /\ UNCHANGED <<to, folded, served, lost, failures>>

\* Recipients of a submitted message are served.
Serve(m) ==
    /\ status[m] # "new"
    /\ \E rs \in SUBSET (to[m] \ served[m]) :
           served' = [served EXCEPT ![m] = @ \cup rs]
    /\ UNCHANGED <<status, to, folded, lost, failures>>

\* Nobody learns what became of some recipients: the report about them found
\* no account, or another one.
Drop(m) ==
    /\ status[m] # "new" /\ m \in folded
    /\ \E rs \in SUBSET (to[m] \ served[m]) :
           lost' = [lost EXCEPT ![m] = @ \cup rs]
    /\ UNCHANGED <<status, to, folded, served, failures>>

\* An orderly end of the process cuts submissions off; it loses nothing.
Close(ms) ==
    /\ \A m \in ms : status[m] = "open"
    /\ status' = [m \in Msgs |-> IF m \in ms THEN "refused" ELSE status[m]]
    /\ lost' = [m \in Msgs |-> IF m \in ms THEN {} ELSE lost[m]]
    /\ UNCHANGED <<to, folded, served, failures>>

\* A failure may cut submissions off as well, and lose recipients of one
\* message that were not served.
Fail(ms) ==
    /\ \A m \in ms : status[m] = "open"
    /\ status' = [m \in Msgs |-> IF m \in ms THEN "refused" ELSE status[m]]
    /\ failures' = failures + 1
    /\ \E m \in Msgs : \E rs \in SUBSET (to[m] \ served[m]) :
           lost' = [n \in Msgs |-> IF n \in ms THEN {}
                                   ELSE IF n = m THEN lost[n] \cup rs
                                   ELSE lost[n]]
    /\ UNCHANGED <<to, folded, served>>

Next ==
    \/ \E m \in Msgs : Submit(m) \/ Accept(m) \/ Serve(m) \/ Drop(m)
    \/ \E ms \in SUBSET Msgs : Close(ms) \/ Fail(ms)

\* Nobody is left over.
Promise ==
    \A m \in Msgs :
        status[m] = "accepted" ~> to[m] \subseteq served[m] \cup lost[m]

SafeSpec == Init /\ [][Next]_vars

Spec == SafeSpec /\ Promise
=============================================================================
