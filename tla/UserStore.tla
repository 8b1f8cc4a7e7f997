----------------------------- MODULE UserStore -----------------------------
(***************************************************************************)
(* The account store and the HTTP handlers that change it (auth/auth.go,   *)
(* auth/totp.go, auth/profile.go): one user.json per UID.                  *)
(*                                                                         *)
(* register and updateProfile hold UserStore.mu from their read to the end *)
(* of writeUser.  The TOTP and recovery-code handlers hold it only while   *)
(* they read (verifyPassword, loadUsers); they change their copy and call  *)
(* writeUser without it.  writeUser is os.WriteFile: open and truncate,    *)
(* then write from offset 0.                                               *)
(*                                                                         *)
(* Data abstraction: passwords and tokens are checked by the environment's *)
(* choice of requests; a secret, a profile and a recovery code are serial  *)
(* numbers, fresh when they are made.                                      *)
(***************************************************************************)
EXTENDS Integers, FiniteSets

CONSTANTS Threads,     \* goroutines serving HTTP requests
          Ids,         \* user IDs
          Emails,      \* e-mail addresses, up to case
          MaxUsers,    \* bound: registrations
          MaxSerial,   \* bound: secrets, code pairs and profiles made
          MaxFaults,   \* bound: failing writes and deaths of the process
          None         \* no thread

ASSUME ThreadAssumption == None \notin Threads
ASSUME BoundAssumption ==
    MaxUsers \in Nat \ {0} /\ MaxSerial \in Nat /\ MaxFaults \in Nat

VARIABLES
    file,     \* UIDs -> user.json
    mu,       \* holder of UserStore.mu
    th,       \* Threads -> what the handler is about to write
    serial,   \* serial numbers handed out
    abs,      \* history: UIDs -> the record if handlers ran one at a time
    overlap,  \* history: UIDs two handlers have worked on at the same time
    used,     \* history: recovery code -> tokens issued for it
    faults

vars == <<file, mu, th, serial, abs, overlap, used, faults>>

-----------------------------------------------------------------------------
UIDs    == 1 .. MaxUsers
Serials == 0 .. MaxSerial
Codes   == 0 .. 2 * MaxSerial + 1

\* user.json: missing, not JSON, or a user.  secret = 0 is the empty string.
Users == [st : {"none", "torn", "ok"}, id : Ids \cup {None},
          email : Emails \cup {None}, secret : Serials, verified : BOOLEAN,
          codes : SUBSET Codes, profile : Serials]

Blank(st) == [st |-> st, id |-> None, email |-> None, secret |-> 0,
              verified |-> FALSE, codes |-> {}, profile |-> 0]

\* Mutant: one code too many.
NewCodes_Extra(n) == {2 * n, 2 * n + 1, 2 * n + 2}

\* The two codes that stand for the ten of generateRecoveryCodes.
NewCodes(n) == {2 * n, 2 * n + 1}

Requests == [do : {"register", "sign", "verify", "fail", "unsign", "recover",
                   "edit"},
             arg : Codes]

Idle == [pc |-> "idle", uid |-> 1, rec |-> Blank("none"),
         req |-> [do |-> "edit", arg |-> 0]]
Handlers == [pc : {"idle", "open", "write"}, uid : UIDs, rec : Users,
             req : Requests]

TypeOK ==
    /\ file \in [UIDs -> Users]
    /\ mu \in Threads \cup {None}
    /\ th \in [Threads -> Handlers]
    /\ serial \in Serials
    /\ abs \in [UIDs -> Users]
    /\ overlap \in SUBSET UIDs
    /\ used \in [Codes -> Nat]
    /\ faults \in 0 .. MaxFaults

Init ==
    /\ file = [u \in UIDs |-> Blank("none")]
    /\ mu = None
    /\ th = [t \in Threads |-> Idle]
    /\ serial = 0
    /\ abs = [u \in UIDs |-> Blank("none")]
    /\ overlap = {}
    /\ used = [c \in Codes |-> 0]
    /\ faults = 0

-----------------------------------------------------------------------------
InFlight(t, u) == th[t].pc # "idle" /\ th[t].uid = u

\* Mutant: a record that does not parse is skipped.
Loadable_Skips == TRUE

\* loadUsers: one user.json that does not parse fails the whole call.
Loadable == \A u \in UIDs : file[u].st # "torn"

\* Mutant: the secret goes, the rest stays.
NoTotp_SecretOnly(u) == [u EXCEPT !.secret = 0]

NoTotp(u) == [u EXCEPT !.secret = 0, !.verified = FALSE, !.codes = {}]

\* The assignments of the other handlers.
NewSecret(u, key) == [u EXCEPT !.secret = key, !.verified = FALSE, !.codes = {}]
Verified(u, key)  == [u EXCEPT !.verified = TRUE, !.codes = NewCodes(key)]
Spent(u, code)    == [u EXCEPT !.codes = @ \ {code}]
Edited(u, values) == [u EXCEPT !.profile = values]

\* What a request does to the record: to the handler's copy, and to abs.
Effect(req, u) ==
    CASE req.do = "sign"             -> NewSecret(u, req.arg)
      [] req.do = "verify"           -> Verified(u, req.arg)
      [] req.do \in {"fail", "unsign"} -> NoTotp(u)
      [] req.do = "recover"          -> Spent(u, req.arg)
      [] req.do = "edit"             -> Edited(u, req.arg)
      [] OTHER -> u

\* A handler of thread t has read user u and goes on to write it.
Handle(t, u, req) ==
    /\ th[t].pc = "idle" /\ mu = None
    /\ file[u].st = "ok"
    /\ th' = [th EXCEPT ![t] = [pc |-> "open", uid |-> u, req |-> req,
                                rec |-> Effect(req, file[u])]]
    /\ overlap' = IF \E s \in Threads : InFlight(s, u)
                  THEN overlap \cup {u} ELSE overlap
    /\ UNCHANGED <<file, abs, used, faults>>

Fresh == serial < MaxSerial /\ serial' = serial + 1

TotpSign(t, u) ==
    /\ Loadable /\ ~file[u].verified
    /\ Fresh
    /\ Handle(t, u, [do |-> "sign", arg |-> serial + 1])
    /\ UNCHANGED mu

TotpVerify(t, u) ==
    /\ Loadable
    /\ file[u].secret # 0 /\ ~file[u].verified
    /\ \/ Fresh /\ Handle(t, u, [do |-> "verify", arg |-> serial + 1])
       \/ Handle(t, u, [do |-> "fail", arg |-> 0]) /\ UNCHANGED serial
    /\ UNCHANGED mu

TotpUnsign(t, u) ==
    /\ Loadable
    /\ file[u].secret # 0
    /\ Handle(t, u, [do |-> "unsign", arg |-> 0])
    /\ UNCHANGED <<mu, serial>>

RecoveryCodeLogin(t, u, c) ==
    /\ Loadable
    /\ file[u].verified /\ c \in file[u].codes
    /\ Handle(t, u, [do |-> "recover", arg |-> c])
    /\ UNCHANGED <<mu, serial>>

\* The handler keeps UserStore.mu until its write is done.
Keeps(t) == mu' = t

\* updateProfile reads this one user, and keeps the lock.
UpdateProfile(t, u) ==
    /\ Fresh
    /\ Handle(t, u, [do |-> "edit", arg |-> serial + 1])
    /\ Keeps(t)

\* register, under the lock: no user has the ID or the address; the UID is
\* one more than the largest.
NextUID(u) ==
    LET taken == {v \in UIDs : file[v].st = "ok"}
    IN  \E last \in {0} \cup taken : u = last + 1 /\ \A v \in taken : v <= last

\* Mutant: the address is not compared.
Unclaimed_IdOnly(id, email) ==
    \A v \in UIDs : file[v].st = "ok" => file[v].id # id

Unclaimed(id, email) ==
    \A v \in UIDs : file[v].st = "ok" => file[v].id # id /\ file[v].email # email

Register(t, id, email, u) ==
    /\ th[t].pc = "idle" /\ mu = None /\ Loadable
    /\ Unclaimed(id, email)
    /\ NextUID(u)
    /\ th' = [th EXCEPT ![t] =
                [pc |-> "open", uid |-> u, req |-> [do |-> "register", arg |-> 0],
                 rec |-> [Blank("ok") EXCEPT !.id = id, !.email = email]]]
    /\ Keeps(t)
    /\ UNCHANGED <<file, serial, abs, overlap, used, faults>>

-----------------------------------------------------------------------------
(* writeUser *)

Unlock(t) == mu' = IF mu = t THEN None ELSE mu

OpenUser(t) ==
    /\ th[t].pc = "open"
    /\ file' = [file EXCEPT ![th[t].uid] = Blank("torn")]
    /\ th' = [th EXCEPT ![t].pc = "write"]
    /\ UNCHANGED <<mu, serial, abs, overlap, used, faults>>

\* Fields that are left out when empty decide which of two records is longer.
Weight(u) == (IF u.secret # 0 THEN 1 ELSE 0) + (IF u.verified THEN 1 ELSE 0)
             + Cardinality(u.codes)

\* The file is empty unless another handler has written it since both of them
\* truncated it; then the end of a longer record stays behind the new one.
\* Which of two different profiles is longer is left open.
Overwrite(old, new) ==
    CASE old.st # "ok" -> {new}
      [] old.st = "ok" /\ old.profile # new.profile -> {Blank("torn"), new}
      [] old.st = "ok" /\ old.profile = new.profile ->
            IF Weight(old) > Weight(new) THEN {Blank("torn")} ELSE {new}

\* The write, and the answer: a recovery-code login now issues its token.
WriteUser(t) ==
    /\ th[t].pc = "write"
    /\ LET u == th[t].uid
           r == th[t].req
       IN  /\ \E new \in Overwrite(file[u], th[t].rec) :
                    file' = [file EXCEPT ![u] = new]
           /\ abs' = [abs EXCEPT ![u] = IF r.do = "register" THEN th[t].rec
                                        ELSE Effect(r, @)]
           /\ used' = IF r.do = "recover" THEN [used EXCEPT ![r.arg] = @ + 1]
                                          ELSE used
    /\ th' = [th EXCEPT ![t] = Idle]
    /\ Unlock(t)
    /\ UNCHANGED <<serial, overlap, faults>>

\* writeUser fails, before or after the file was truncated: 500.
WriteError(t) ==
    /\ faults < MaxFaults /\ th[t].pc # "idle"
    /\ faults' = faults + 1
    /\ th' = [th EXCEPT ![t] = Idle]
    /\ Unlock(t)
    /\ UNCHANGED <<file, serial, abs, overlap, used>>

Crash ==
    /\ faults < MaxFaults
    /\ faults' = faults + 1
    /\ th' = [t \in Threads |-> Idle] /\ mu' = None
    /\ UNCHANGED <<file, serial, abs, overlap, used>>

Next ==
    \/ \E t \in Threads :
        \/ \E u \in UIDs :
            \/ TotpSign(t, u) \/ TotpVerify(t, u) \/ TotpUnsign(t, u)
            \/ \E c \in Codes : RecoveryCodeLogin(t, u, c)
            \/ UpdateProfile(t, u)
            \/ \E id \in Ids, email \in Emails : Register(t, id, email, u)
        \/ OpenUser(t) \/ WriteUser(t) \/ WriteError(t)
    \/ Crash

Spec == Init /\ [][Next]_vars

-----------------------------------------------------------------------------
(* Properties. *)

\* No two accounts share an ID or an e-mail address, although registrations
\* race with the unlocked writes of the TOTP handlers, which can make files
\* unreadable or overwrite each other, and with crashes.
AccountsDistinct ==
    \A u, v \in UIDs : file[u].st = "ok" /\ file[v].st = "ok" /\ u # v =>
        file[u].id # file[v].id /\ file[u].email # file[v].email

\* Whatever handlers overlap, a readable record is consistent: recovery codes
\* exist only with TOTP verified, and TOTP is verified only with a secret, so
\* that TotpLoginHandler and RecoveryCodeLoginHandler agree on who has TOTP.
TotpConsistent ==
    \A u \in UIDs : file[u].st = "ok" =>
        /\ file[u].codes # {} => file[u].verified
        /\ file[u].verified => file[u].secret # 0

\* A user on whom no two handlers have overlapped has the record that running
\* the requests one at a time gives: handlers of other users, registrations
\* and profile edits in between change nothing, and the file is readable.
SerialWhenAlone ==
    faults = 0 =>
        \A u \in UIDs \ overlap :
            (\A t \in Threads : ~InFlight(t, u)) => file[u] = abs[u]

\* What APIS.md promises of recovery codes: each can be used once.
RecoveryCodeOnce == \A c \in Codes : used[c] <= 1

-----------------------------------------------------------------------------
(* The inductive invariant behind AccountsDistinct and TotpConsistent: abs  *)
(* knows the identity of every account, files and handlers in flight agree  *)
(* with it, and a registration in flight holds the lock and a new identity. *)

SameIdentity(u, v) == u.id = v.id /\ u.email = v.email
Disjoint(u, v) == u.id # v.id /\ u.email # v.email
Consistent(u) == /\ u.codes # {} => u.verified
                 /\ u.verified => u.secret # 0

FilesOK ==
    \A u \in UIDs :
        /\ abs[u].st \in {"none", "ok"}
        /\ abs[u].st = "ok" => file[u].st # "none"
        /\ file[u].st = "ok" =>
            abs[u].st = "ok" /\ SameIdentity(file[u], abs[u]) /\ Consistent(file[u])

IdentitiesOK ==
    \A u, v \in UIDs : abs[u].st = "ok" /\ abs[v].st = "ok" /\ u # v =>
        Disjoint(abs[u], abs[v])

HandlerOK(t) ==
    LET h == th[t]
    IN  /\ h.rec.st = "ok" /\ Consistent(h.rec)
        /\ h.req.do \in {"sign", "verify", "edit"} => h.req.arg \in Serials
        /\ IF h.req.do = "register"
           THEN /\ mu = t /\ abs[h.uid].st = "none"
                /\ \A v \in UIDs : abs[v].st = "ok" => Disjoint(abs[v], h.rec)
           ELSE abs[h.uid].st = "ok" /\ SameIdentity(h.rec, abs[h.uid])

HandlersOK == \A t \in Threads : th[t].pc # "idle" => HandlerOK(t)

\* Every account has one identity, which its file and every handler at work on
\* it carry, and no record that is stored or about to be stored is torn
\* between TOTP states.
Inv == TypeOK /\ FilesOK /\ IdentitiesOK /\ HandlersOK
=============================================================================
