-------------------------- MODULE UserStoreProofs --------------------------
(* Proofs about UserStore, for every number of threads, users and faults. *)
EXTENDS UserStore, TLAPS

-----------------------------------------------------------------------------
(* The operators the handlers are built from. *)

\* Clearing the TOTP fields leaves a record of the same user.
LEMMA NoTotpKeepsIdentity ==
    ASSUME NEW u \in Users
    PROVE  /\ NoTotp(u) \in Users /\ NoTotp(u).st = u.st
           /\ SameIdentity(NoTotp(u), u) /\ Consistent(NoTotp(u))
<1>1. 0 \in Serials
  BY BoundAssumption DEF Serials
<1> QED
  BY <1>1 DEF NoTotp, Users, SameIdentity, Consistent

\* No request changes who the user is, and a record stays a record.
LEMMA EffectKeepsIdentity ==
    ASSUME NEW r \in Requests, NEW u \in Users,
           r.do \in {"sign", "verify", "edit"} => r.arg \in Serials
    PROVE  /\ Effect(r, u) \in Users
           /\ Effect(r, u).st = u.st
           /\ SameIdentity(Effect(r, u), u)
<1> USE BoundAssumption DEF Requests, Users, Serials, Codes, SameIdentity
<1>1. CASE r.do = "sign"
  BY <1>1 DEF Effect, NewSecret, Verified, Spent, Edited
<1>2. CASE r.do = "verify"
  <2>1. NewCodes(r.arg) \in SUBSET Codes
    BY <1>2 DEF NewCodes
  <2> QED
    BY <1>2, <2>1 DEF Effect, NewSecret, Verified, Spent, Edited
<1>3. CASE r.do = "fail"
  <2>1. Effect(r, u) = NoTotp(u)
    BY <1>3 DEF Effect, NewSecret, Verified, Spent, Edited
  <2> QED
    BY <2>1, NoTotpKeepsIdentity
<1>7. CASE r.do = "unsign"
  <2>1. Effect(r, u) = NoTotp(u)
    BY <1>7 DEF Effect, NewSecret, Verified, Spent, Edited
  <2> QED
    BY <2>1, NoTotpKeepsIdentity
<1>4. CASE r.do = "recover"
  BY <1>4 DEF Effect, NewSecret, Verified, Spent, Edited
<1>5. CASE r.do = "edit"
  BY <1>5 DEF Effect, NewSecret, Verified, Spent, Edited
<1>6. CASE r.do = "register"
  BY <1>6 DEF Effect, NewSecret, Verified, Spent, Edited
<1> QED
  BY <1>1, <1>2, <1>3, <1>4, <1>5, <1>6, <1>7

\* Two overlapping writes leave the last record or garbage, never a mixture
\* that parses.
LEMMA OverwriteIsNewOrTorn ==
    ASSUME NEW old, NEW new, NEW x \in Overwrite(old, new)
    PROVE  x = new \/ x = Blank("torn")
  BY DEF Overwrite

\* A missing and an unreadable user.json are records too.
LEMMA BlankType == \A st \in {"none", "torn", "ok"} : Blank(st) \in Users
  BY BoundAssumption DEF Blank, Users, Serials, Codes

-----------------------------------------------------------------------------
\* The empty store satisfies the invariant.
LEMMA InitInv == Init => Inv
<1> SUFFICES ASSUME Init PROVE Inv
  OBVIOUS
<1>1. TypeOK
  <2>1. Idle \in Handlers
    BY BlankType, BoundAssumption DEF Idle, Handlers, UIDs, Requests, Codes
  <2> QED
    BY <2>1, BlankType, BoundAssumption DEF Init, TypeOK, Serials
<1>2. FilesOK /\ IdentitiesOK /\ HandlersOK
  BY DEF Init, FilesOK, IdentitiesOK, HandlersOK, HandlerOK, Blank, Idle
<1> QED
  BY <1>1, <1>2 DEF Inv

\* A handler that has read a user and changed its copy keeps the invariant,
\* whether it keeps the lock or not.
LEMMA HandleInv ==
    ASSUME Inv, NEW t \in Threads, NEW u \in UIDs, NEW req \in Requests,
           Handle(t, u, req), req.do # "register",
           req.do \in {"sign", "verify", "edit"} => req.arg \in Serials,
           Consistent(Effect(req, file[u])),
           serial' \in Serials, mu' \in {None, t}
    PROVE  Inv'
<1>1. /\ file[u] \in Users /\ file[u].st = "ok"
      /\ abs[u].st = "ok" /\ SameIdentity(file[u], abs[u])
  BY DEF Inv, TypeOK, FilesOK, Handle
<1>2. /\ Effect(req, file[u]) \in Users
      /\ Effect(req, file[u]).st = "ok"
      /\ SameIdentity(Effect(req, file[u]), abs[u])
  BY <1>1, EffectKeepsIdentity DEF SameIdentity
<1>3. th' = [th EXCEPT ![t] = [pc |-> "open", uid |-> u, req |-> req,
                               rec |-> Effect(req, file[u])]]
  BY DEF Handle
<1>4. TypeOK'
  <2>1. th' \in [Threads -> Handlers]
    BY <1>2, <1>3 DEF Inv, TypeOK, Handlers
  <2> QED
    BY <2>1 DEF Inv, TypeOK, Handle
<1>5. FilesOK' /\ IdentitiesOK'
  BY DEF Inv, FilesOK, IdentitiesOK, Handle
<1>6. HandlersOK'
  <2> SUFFICES ASSUME NEW s \in Threads, th'[s].pc # "idle"
               PROVE  HandlerOK(s)'
    BY DEF HandlersOK
  <2>1. CASE s = t
    <3>1. th'[s] = [pc |-> "open", uid |-> u, req |-> req,
                    rec |-> Effect(req, file[u])]
      BY <2>1, <1>3 DEF Inv, TypeOK
    <3>2. abs' = abs
      BY DEF Handle
    <3> QED
      BY <3>1, <3>2, <1>1, <1>2 DEF HandlerOK
  <2>2. CASE s # t
    <3>1. th'[s] = th[s] /\ th[s].req.do # "register"
      BY <2>2, <1>3, ThreadAssumption DEF Inv, TypeOK, HandlersOK, HandlerOK, Handle
    <3> QED
      BY <3>1 DEF Inv, HandlersOK, HandlerOK, Handle
  <2> QED
    BY <2>1, <2>2
<1> QED
  BY <1>4, <1>5, <1>6 DEF Inv

-----------------------------------------------------------------------------
(* One lemma per handler. *)

\* The requests the handlers make have their type.
LEMMA RequestType ==
    ASSUME NEW do \in {"register", "sign", "verify", "fail", "unsign",
                       "recover", "edit"},
           NEW arg \in Codes
    PROVE  [do |-> do, arg |-> arg] \in Requests
  BY DEF Requests

\* A fresh serial number is in range.
LEMMA SerialType ==
    ASSUME Inv, Fresh
    PROVE  serial + 1 \in Serials /\ serial + 1 \in Codes /\ serial' \in Serials
                /\ serial + 1 # 0
  BY BoundAssumption DEF Inv, TypeOK, Fresh, Serials, Codes

\* TotpSignHandler: a new secret, not verified, without codes.
LEMMA TotpSignInv ==
    ASSUME Inv, NEW t \in Threads, NEW u \in UIDs, TotpSign(t, u)
    PROVE  Inv'
<1> DEFINE req == [do |-> "sign", arg |-> serial + 1]
<1>1. Fresh /\ Handle(t, u, req) /\ mu' = None
  BY DEF TotpSign, Handle
<1>2. req \in Requests /\ req.arg \in Serials /\ serial' \in Serials
  BY <1>1, RequestType, SerialType
<1>3. Consistent(Effect(req, file[u]))
  BY <1>1, SerialType DEF Effect, NewSecret, Verified, Spent, Edited, Consistent, Inv, TypeOK, Users
<1> QED
  BY <1>1, <1>2, <1>3, HandleInv

\* TotpVerifyHandler: codes come with verification; a wrong code clears all.
LEMMA TotpVerifyInv ==
    ASSUME Inv, NEW t \in Threads, NEW u \in UIDs, TotpVerify(t, u)
    PROVE  Inv'
<1>1. CASE Fresh /\ Handle(t, u, [do |-> "verify", arg |-> serial + 1])
  <2> DEFINE req == [do |-> "verify", arg |-> serial + 1]
  <2>1. req \in Requests /\ req.arg \in Serials /\ serial' \in Serials
    BY <1>1, RequestType, SerialType
  <2>2. Consistent(Effect(req, file[u]))
    <3>1. file[u] \in Users /\ file[u].secret # 0
      BY DEF TotpVerify, Inv, TypeOK
    <3>2. Effect(req, file[u]) = [file[u] EXCEPT !.verified = TRUE,
                                     !.codes = NewCodes(serial + 1)]
      BY DEF Effect, NewSecret, Verified, Spent, Edited
    <3> QED
      BY <3>1, <3>2 DEF Consistent, Users
  <2>3. mu' = None
    BY <1>1 DEF TotpVerify, Handle
  <2> QED
    BY <1>1, <2>1, <2>2, <2>3, HandleInv
<1>2. CASE Handle(t, u, [do |-> "fail", arg |-> 0]) /\ UNCHANGED serial
  <2> DEFINE req == [do |-> "fail", arg |-> 0]
  <2>1. req \in Requests /\ serial' \in Serials
    BY <1>2, RequestType, BoundAssumption DEF Codes, Inv, TypeOK
  <2>2. Consistent(Effect(req, file[u]))
    BY NoTotpKeepsIdentity DEF Effect, NewSecret, Verified, Spent, Edited, Inv, TypeOK
  <2>3. mu' = None
    BY <1>2 DEF TotpVerify, Handle
  <2> QED
    BY <1>2, <2>1, <2>2, <2>3, HandleInv
<1> QED
  BY <1>1, <1>2 DEF TotpVerify

\* TotpUnsignHandler clears secret, verification and codes together.
LEMMA TotpUnsignInv ==
    ASSUME Inv, NEW t \in Threads, NEW u \in UIDs, TotpUnsign(t, u)
    PROVE  Inv'
<1> DEFINE req == [do |-> "unsign", arg |-> 0]
<1>1. Handle(t, u, req) /\ mu' = None
  BY DEF TotpUnsign, Handle
<1>2. req \in Requests /\ serial' \in Serials
  BY RequestType, BoundAssumption DEF TotpUnsign, Codes, Inv, TypeOK
<1>3. Consistent(Effect(req, file[u]))
  BY NoTotpKeepsIdentity DEF Effect, NewSecret, Verified, Spent, Edited, Inv, TypeOK
<1> QED
  BY <1>1, <1>2, <1>3, HandleInv

\* RecoveryCodeLoginHandler takes one code off a verified record.
LEMMA RecoveryCodeLoginInv ==
    ASSUME Inv, NEW t \in Threads, NEW u \in UIDs, NEW c \in Codes,
           RecoveryCodeLogin(t, u, c)
    PROVE  Inv'
<1> DEFINE req == [do |-> "recover", arg |-> c]
<1>1. Handle(t, u, req) /\ mu' = None
  BY DEF RecoveryCodeLogin, Handle
<1>2. req \in Requests /\ serial' \in Serials
  BY RequestType DEF RecoveryCodeLogin, Inv, TypeOK
<1>3. file[u] \in Users /\ Consistent(file[u])
  BY <1>1 DEF Inv, TypeOK, FilesOK, Handle
<1>4. Consistent(Effect(req, file[u]))
  BY <1>3 DEF Effect, NewSecret, Verified, Spent, Edited, Consistent, Users
<1> QED
  BY <1>1, <1>2, <1>4, HandleInv

\* updateProfile leaves identity and TOTP alone.
LEMMA UpdateProfileInv ==
    ASSUME Inv, NEW t \in Threads, NEW u \in UIDs, UpdateProfile(t, u)
    PROVE  Inv'
<1> DEFINE req == [do |-> "edit", arg |-> serial + 1]
<1>1. Fresh /\ Handle(t, u, req) /\ mu' = t
  BY DEF UpdateProfile, Keeps
<1>2. req \in Requests /\ req.arg \in Serials /\ serial' \in Serials
  BY <1>1, RequestType, SerialType
<1>3. file[u] \in Users /\ Consistent(file[u])
  BY <1>1 DEF Inv, TypeOK, FilesOK, Handle
<1>4. Consistent(Effect(req, file[u]))
  BY <1>3 DEF Effect, NewSecret, Verified, Spent, Edited, Consistent, Users
<1> QED
  BY <1>1, <1>2, <1>4, HandleInv

\* register holds the lock, has seen every account and takes a new identity.
LEMMA RegisterInv ==
    ASSUME Inv, NEW t \in Threads, NEW id \in Ids, NEW email \in Emails,
           NEW u \in UIDs, Register(t, id, email, u)
    PROVE  Inv'
<1> DEFINE new == [Blank("ok") EXCEPT !.id = id, !.email = email]
           h == [pc |-> "open", uid |-> u,
                 req |-> [do |-> "register", arg |-> 0], rec |-> new]
<1>1. new \in Users /\ new.st = "ok" /\ new.id = id /\ new.email = email
         /\ Consistent(new)
  <2>1. Blank("ok") \in Users /\ Blank("ok").st = "ok" /\ Consistent(Blank("ok"))
    BY BlankType DEF Blank, Consistent
  <2> QED
    BY <2>1 DEF Users, Consistent
<1>2. th' = [th EXCEPT ![t] = h] /\ mu = None /\ mu' = t
  BY DEF Register, Keeps
<1>3. h \in Handlers
  BY <1>1, RequestType, BoundAssumption DEF Handlers, Codes
<1>4. TypeOK'
  BY <1>2, <1>3 DEF Inv, TypeOK, Register
<1>5. FilesOK' /\ IdentitiesOK'
  BY DEF Inv, FilesOK, IdentitiesOK, Register
\* Every file can be read, so the accounts register has seen are all there are.
<1>6. \A v \in UIDs : abs[v].st = "ok" => file[v].st = "ok" /\ Disjoint(abs[v], new)
  BY <1>1 DEF Inv, TypeOK, FilesOK, Users, Register, Unclaimed, Loadable,
             SameIdentity, Disjoint
<1>7. abs[u].st = "none"
  <2>1. file[u].st # "ok"
    BY DEF Register, NextUID, UIDs
  <2> QED
    BY <2>1, <1>6 DEF Inv, FilesOK
<1>8. HandlersOK'
  <2> SUFFICES ASSUME NEW s \in Threads, th'[s].pc # "idle"
               PROVE  HandlerOK(s)'
    BY DEF HandlersOK
  <2>1. abs' = abs
    BY DEF Register
  <2>2. CASE s = t
    <3>1. th'[s] = h
      BY <2>2, <1>2 DEF Inv, TypeOK
    <3> QED
      <4>1. h.rec = new /\ h.uid = u /\ h.req.do = "register"
        OBVIOUS
      <4> HIDE DEF h, new
      <4> QED
        BY <4>1, <3>1, <2>1, <2>2, <1>1, <1>2, <1>6, <1>7 DEF HandlerOK
  <2>3. CASE s # t
    <3>1. th'[s] = th[s] /\ th[s].req.do # "register"
      BY <2>3, <1>2, ThreadAssumption DEF Inv, TypeOK, HandlersOK, HandlerOK
    <3> QED
      BY <3>1, <2>1 DEF Inv, HandlersOK, HandlerOK
  <2> QED
    BY <2>2, <2>3
<1> QED
  BY <1>4, <1>5, <1>8 DEF Inv

-----------------------------------------------------------------------------
(* One lemma per step of writeUser. *)

\* Truncating user.json leaves nothing readable.
LEMMA OpenUserInv ==
    ASSUME Inv, NEW t \in Threads, OpenUser(t)
    PROVE  Inv'
<1>1. /\ th[t] \in Handlers /\ th[t].pc = "open"
      /\ th' = [th EXCEPT ![t].pc = "write"]
      /\ file' = [file EXCEPT ![th[t].uid] = Blank("torn")]
  BY DEF Inv, TypeOK, OpenUser
<1>2. TypeOK'
  <2>1. th' \in [Threads -> Handlers]
    BY <1>1 DEF Inv, TypeOK, Handlers
  <2>2. file' \in [UIDs -> Users]
    BY <1>1, BlankType DEF Inv, TypeOK
  <2> QED
    BY <2>1, <2>2 DEF Inv, TypeOK, OpenUser
<1>3. FilesOK'
  BY <1>1 DEF Inv, TypeOK, FilesOK, OpenUser, Blank, Handlers
<1>4. IdentitiesOK'
  BY DEF Inv, IdentitiesOK, OpenUser
<1>5. HandlersOK'
  BY <1>1 DEF Inv, TypeOK, HandlersOK, HandlerOK, OpenUser, Handlers
<1> QED
  BY <1>2, <1>3, <1>4, <1>5 DEF Inv

\* The write stores the handler's record, or leaves the file unreadable.
LEMMA WriteUserInv ==
    ASSUME Inv, NEW t \in Threads, WriteUser(t)
    PROVE  Inv'
<1> DEFINE u == th[t].uid
           r == th[t].req
           rec == th[t].rec
<1>1. /\ th[t] \in Handlers /\ th[t].pc = "write" /\ u \in UIDs
      /\ r \in Requests /\ rec \in Users /\ rec.st = "ok" /\ Consistent(rec)
      /\ r.do \in {"sign", "verify", "edit"} => r.arg \in Serials
  BY DEF Inv, TypeOK, HandlersOK, HandlerOK, WriteUser, Handlers
<1>2. PICK new \in Overwrite(file[u], rec) : file' = [file EXCEPT ![u] = new]
  BY DEF WriteUser
<1>3. new = rec \/ new = Blank("torn")
  BY OverwriteIsNewOrTorn
<1>4. abs[u] \in Users
  BY <1>1 DEF Inv, TypeOK
<1>5. PICK a \in Users :
         /\ abs' = [abs EXCEPT ![u] = a]
         /\ a.st = "ok" /\ SameIdentity(a, rec)
         /\ r.do # "register" => SameIdentity(a, abs[u]) /\ abs[u].st = "ok"
  <2>1. CASE r.do = "register"
    BY <2>1, <1>1 DEF WriteUser, SameIdentity
  <2>2. CASE r.do # "register"
    <3>1. abs[u].st = "ok" /\ SameIdentity(rec, abs[u])
      BY <2>2, <1>1 DEF Inv, HandlersOK, HandlerOK
    <3>2. abs' = [abs EXCEPT ![u] = Effect(r, abs[u])]
      BY <2>2 DEF WriteUser
    <3>3. /\ Effect(r, abs[u]) \in Users /\ Effect(r, abs[u]).st = abs[u].st
          /\ SameIdentity(Effect(r, abs[u]), abs[u])
      BY <1>1, <1>4, EffectKeepsIdentity
    <3> QED
      BY <3>1, <3>2, <3>3, <2>2 DEF SameIdentity
  <2> QED
    BY <2>1, <2>2
<1>6. th' = [th EXCEPT ![t] = Idle]
  BY DEF WriteUser
<1>7. Idle \in Handlers
  BY BlankType, BoundAssumption DEF Idle, Handlers, UIDs, Requests, Codes
<1>8. TypeOK'
  <2>1. file' \in [UIDs -> Users]
    BY <1>1, <1>2, <1>3, BlankType DEF Inv, TypeOK
  <2>2. used' \in [Codes -> Nat]
    BY <1>1 DEF Inv, TypeOK, WriteUser, Requests
  <2>3. mu' \in Threads \cup {None}
    BY DEF Inv, TypeOK, WriteUser, Unlock
  <2>4. th' \in [Threads -> Handlers] /\ abs' \in [UIDs -> Users]
    BY <1>5, <1>6, <1>7 DEF Inv, TypeOK
  <2> QED
    BY <2>1, <2>2, <2>3, <2>4 DEF Inv, TypeOK, WriteUser
<1>9. FilesOK'
  BY <1>1, <1>2, <1>3, <1>5 DEF Inv, TypeOK, FilesOK, Blank, SameIdentity
\* Only a registration brings a new identity, and it was new when it took the
\* lock it still holds.
<1>10. \A v \in UIDs \ {u} : abs[v].st = "ok" => Disjoint(abs[v], a)
  <2>1. CASE r.do = "register"
    BY <2>1, <1>1, <1>5 DEF Inv, HandlersOK, HandlerOK, SameIdentity, Disjoint
  <2>2. CASE r.do # "register"
    BY <2>2, <1>1, <1>5 DEF Inv, IdentitiesOK, SameIdentity, Disjoint
  <2> QED
    BY <2>1, <2>2
<1>11. IdentitiesOK'
  BY <1>1, <1>5, <1>10 DEF Inv, TypeOK, IdentitiesOK, Disjoint
<1>12. HandlersOK'
  <2> SUFFICES ASSUME NEW s \in Threads, th'[s].pc # "idle"
               PROVE  HandlerOK(s)'
    BY DEF HandlersOK
  <2>1. s # t /\ th'[s] = th[s]
    BY <1>6 DEF Inv, TypeOK, Idle
  <2>2. th[s].pc # "idle" /\ th[s].uid \in UIDs /\ HandlerOK(s)
    BY <2>1 DEF Inv, TypeOK, HandlersOK, HandlerOK, Handlers
  <2>3. CASE th[s].req.do = "register"
    \* The other thread registers, so this one does not and its user is known.
    <3>1. mu = s /\ mu' = s /\ r.do # "register"
      BY <2>1, <2>2, <2>3, <1>1 DEF Inv, HandlersOK, HandlerOK, WriteUser, Unlock
    <3>2. SameIdentity(a, abs[u]) /\ abs[u].st = "ok" /\ th[s].uid # u
      BY <3>1, <2>2, <2>3, <1>5 DEF HandlerOK
    <3>3. abs'[th[s].uid].st = "none"
      BY <3>2, <2>2, <2>3, <1>5 DEF Inv, TypeOK, HandlerOK
    <3>4. \A v \in UIDs : abs'[v].st = "ok" => Disjoint(abs'[v], th[s].rec)
      BY <3>2, <2>2, <2>3, <1>1, <1>5
         DEF Inv, TypeOK, HandlerOK, SameIdentity, Disjoint
    <3> QED
      BY <3>1, <3>3, <3>4, <2>1, <2>2, <2>3 DEF HandlerOK
  <2>4. CASE th[s].req.do # "register"
    <3>1. abs[th[s].uid].st = "ok" /\ SameIdentity(th[s].rec, abs[th[s].uid])
      BY <2>2, <2>4 DEF HandlerOK
    <3>2. CASE th[s].uid = u
      <4>1. r.do # "register"
        BY <3>1, <3>2, <1>1 DEF Inv, HandlersOK, HandlerOK
      <4>2. abs'[th[s].uid] = a
        BY <3>2, <1>1, <1>5 DEF Inv, TypeOK
      <4> QED
        BY <4>1, <4>2, <3>1, <3>2, <2>1, <2>2, <2>4, <1>5 DEF SameIdentity, HandlerOK
    <3>3. CASE th[s].uid # u
      <4>1. abs'[th[s].uid] = abs[th[s].uid]
        BY <3>3, <2>2, <1>5 DEF Inv, TypeOK
      <4> QED
        BY <4>1, <3>1, <2>1, <2>2, <2>4 DEF HandlerOK
    <3> QED
      BY <3>2, <3>3
  <2> QED
    BY <2>3, <2>4
<1> QED
  BY <1>8, <1>9, <1>11, <1>12 DEF Inv

\* A handler that fails only lets go of the lock.
LEMMA WriteErrorInv ==
    ASSUME Inv, NEW t \in Threads, WriteError(t)
    PROVE  Inv'
<1>1. Idle \in Handlers
  BY BlankType, BoundAssumption DEF Idle, Handlers, UIDs, Requests, Codes
<1>2. TypeOK'
  BY <1>1, BoundAssumption DEF Inv, TypeOK, WriteError, Unlock
<1>3. FilesOK' /\ IdentitiesOK'
  BY DEF Inv, FilesOK, IdentitiesOK, WriteError
<1>4. HandlersOK'
  BY DEF Inv, TypeOK, HandlersOK, HandlerOK, WriteError, Unlock, Idle
<1> QED
  BY <1>2, <1>3, <1>4 DEF Inv

\* A crash leaves the files as they are.
LEMMA CrashInv ==
    ASSUME Inv, Crash
    PROVE  Inv'
<1>1. Idle \in Handlers
  BY BlankType, BoundAssumption DEF Idle, Handlers, UIDs, Requests, Codes
<1>2. TypeOK'
  BY <1>1, BoundAssumption DEF Inv, TypeOK, Crash
<1>3. FilesOK' /\ IdentitiesOK'
  BY DEF Inv, FilesOK, IdentitiesOK, Crash
<1>4. HandlersOK'
  BY DEF HandlersOK, HandlerOK, Crash, Idle
<1> QED
  BY <1>2, <1>3, <1>4 DEF Inv

\* Every step of UserStore preserves the invariant.
LEMMA NextInv == Inv /\ [Next]_vars => Inv'
<1> SUFFICES ASSUME Inv, [Next]_vars PROVE Inv'
  OBVIOUS
<1>1. CASE UNCHANGED vars
  BY <1>1 DEF vars, Inv, TypeOK, FilesOK, IdentitiesOK, HandlersOK, HandlerOK
<1>2. CASE Next
  BY <1>2, TotpSignInv, TotpVerifyInv, TotpUnsignInv, RecoveryCodeLoginInv,
     UpdateProfileInv, RegisterInv, OpenUserInv, WriteUserInv, WriteErrorInv,
     CrashInv DEF Next
<1> QED
  BY <1>1, <1>2

\* The invariant holds in every reachable state.
LEMMA Invariance == Spec => []Inv
  BY InitInv, NextInv, PTL DEF Spec

-----------------------------------------------------------------------------
\* UserStore's state always has its type.
THEOREM TypeCorrect == Spec => []TypeOK
<1>1. Inv => TypeOK
  BY DEF Inv
<1> QED
  BY <1>1, Invariance, PTL

\* No two accounts ever share an ID or an e-mail address, whatever handlers
\* run concurrently, fail or are cut off by a crash.
THEOREM AccountsAreDistinct == Spec => []AccountsDistinct
<1>1. Inv => AccountsDistinct
  BY DEF Inv, FilesOK, IdentitiesOK, AccountsDistinct, SameIdentity, Disjoint
<1> QED
  BY <1>1, Invariance, PTL

\* Every readable record is consistent about TOTP, however the unlocked writes
\* of the TOTP handlers overlap.
THEOREM TotpIsConsistent == Spec => []TotpConsistent
<1>1. Inv => TotpConsistent
  BY DEF Inv, FilesOK, TotpConsistent, Consistent
<1> QED
  BY <1>1, Invariance, PTL

-----------------------------------------------------------------------------
(* Serial execution.  While nothing has failed, a user on whom no two       *)
(* handlers have overlapped has at most one handler at work; its file is    *)
(* what serial execution gives until that handler truncates it, and the     *)
(* handler is about to store what serial execution will give.               *)

AtMostOne(u) ==
    \A s, t \in Threads : InFlight(s, u) /\ InFlight(t, u) => s = t

AtRest(u) == (\A t \in Threads : ~InFlight(t, u)) => file[u] = abs[u]

AtWork(u) ==
    \A t \in Threads : InFlight(t, u) =>
        /\ file[u] = IF th[t].pc = "open" THEN abs[u] ELSE Blank("torn")
        /\ th[t].req.do # "register" => th[t].rec = Effect(th[t].req, abs[u])

AloneOK(u) == AtMostOne(u) /\ AtRest(u) /\ AtWork(u)

SerialInv == Inv /\ (faults = 0 => \A u \in UIDs \ overlap : AloneOK(u))

\* What an action does not touch stays as it was: the file and the serial
\* record of v, and every handler that works or starts to work on v.
LEMMA AloneFrame ==
    ASSUME NEW v \in UIDs, AloneOK(v),
           file'[v] = file[v], abs'[v] = abs[v],
           \A s \in Threads : InFlight(s, v)' <=> InFlight(s, v),
           \A s \in Threads : InFlight(s, v) => th'[s] = th[s]
    PROVE  AloneOK(v)'
<1>1. AtMostOne(v)'
  BY DEF AloneOK, AtMostOne
<1>2. AtRest(v)'
  BY DEF AloneOK, AtRest
<1>3. AtWork(v)'
  <2> SUFFICES ASSUME NEW s \in Threads, InFlight(s, v)'
               PROVE  /\ file'[v] = IF th'[s].pc = "open" THEN abs'[v]
                                    ELSE Blank("torn")
                      /\ th'[s].req.do # "register" =>
                            th'[s].rec = Effect(th'[s].req, abs'[v])
    BY DEF AtWork
  <2>1. InFlight(s, v) /\ th'[s] = th[s]
    OBVIOUS
  <2> QED
    BY <2>1 DEF AloneOK, AtWork
<1> QED
  BY <1>1, <1>2, <1>3 DEF AloneOK

\* A step of thread t on user u does not concern another user v.
LEMMA OtherUser ==
    ASSUME Inv, NEW t \in Threads, NEW u \in UIDs, NEW v \in UIDs, v # u,
           AloneOK(v),
           th[t].pc = "idle" \/ th[t].uid = u,
           th'[t].pc = "idle" \/ th'[t].uid = u,
           \A s \in Threads \ {t} : th'[s] = th[s],
           file'[v] = file[v], abs'[v] = abs[v]
    PROVE  AloneOK(v)'
<1>1. ~InFlight(t, v) /\ ~InFlight(t, v)'
  BY DEF InFlight
<1>2. \A s \in Threads : InFlight(s, v)' <=> InFlight(s, v)
  BY <1>1 DEF InFlight
<1>3. \A s \in Threads : InFlight(s, v) => th'[s] = th[s]
  BY <1>1
<1> QED
  BY <1>2, <1>3, AloneFrame

\* A handler that is the only one to have read the user works on the record
\* that serial execution gives; with a second one the user has overlapped.
LEMMA HandleSerial ==
    ASSUME SerialInv, NEW t \in Threads, NEW u \in UIDs, NEW req,
           Handle(t, u, req), req.do # "register", faults' = 0,
           NEW v \in UIDs \ overlap'
    PROVE  AloneOK(v)'
<1> DEFINE new == [pc |-> "open", uid |-> u, req |-> req,
                   rec |-> Effect(req, file[u])]
<1>1. /\ th[t].pc = "idle" /\ th' = [th EXCEPT ![t] = new]
      /\ file' = file /\ abs' = abs /\ faults = 0
  BY DEF Handle
<1>2. th'[t] = new /\ \A s \in Threads \ {t} : th'[s] = th[s]
  BY <1>1 DEF SerialInv, Inv, TypeOK
<1>3. v \notin overlap /\ (v = u => \A s \in Threads : ~InFlight(s, u))
  BY DEF Handle
<1>4. Inv /\ AloneOK(v)
  BY <1>1, <1>3 DEF SerialInv
<1>5. CASE v # u
  <2>1. th'[t].uid = u
    BY <1>2
  <2>2. file'[v] = file[v] /\ abs'[v] = abs[v]
    BY <1>1
  <2> HIDE DEF new
  <2> QED
    BY <1>1, <1>2, <1>4, <1>5, <2>1, <2>2, OtherUser
<1>6. CASE v = u
  <2>1. \A s \in Threads : InFlight(s, u)' <=> s = t
    BY <1>2, <1>3, <1>6 DEF InFlight
  <2>2. AtMostOne(u)' /\ AtRest(u)'
    BY <2>1 DEF AtMostOne, AtRest
  <2>3. file[u] = abs[u]
    BY <1>3, <1>4, <1>6 DEF AloneOK, AtRest
  <2>4. AtWork(u)'
    BY <1>1, <1>2, <2>1, <2>3 DEF AtWork
  <2> QED
    BY <1>6, <2>2, <2>4 DEF AloneOK
<1> QED
  BY <1>5, <1>6

\* The new UID of a registration has no file and no handler at work on it.
LEMMA RegisterSerial ==
    ASSUME SerialInv, NEW t \in Threads, NEW id \in Ids, NEW email \in Emails,
           NEW u \in UIDs, Register(t, id, email, u), faults' = 0,
           NEW v \in UIDs \ overlap'
    PROVE  AloneOK(v)'
<1> DEFINE new == [pc |-> "open", uid |-> u,
                   req |-> [do |-> "register", arg |-> 0],
                   rec |-> [Blank("ok") EXCEPT !.id = id, !.email = email]]
<1>1. /\ th[t].pc = "idle" /\ th' = [th EXCEPT ![t] = new]
      /\ file' = file /\ abs' = abs /\ faults = 0 /\ overlap' = overlap
      /\ mu = None /\ Loadable /\ NextUID(u)
  BY DEF Register
<1>2. th'[t] = new /\ \A s \in Threads \ {t} : th'[s] = th[s]
  BY <1>1 DEF SerialInv, Inv, TypeOK
<1>3. Inv /\ AloneOK(v)
  BY <1>1 DEF SerialInv
<1>4. CASE v # u
  <2>1. th'[t].uid = u
    BY <1>2
  <2>2. file'[v] = file[v] /\ abs'[v] = abs[v]
    BY <1>1
  <2> HIDE DEF new
  <2> QED
    BY <1>1, <1>2, <1>3, <1>4, <2>1, <2>2, OtherUser
<1>5. CASE v = u
  <2>1. file[u].st # "ok"
    BY <1>1 DEF NextUID, UIDs
  <2>2. abs[u].st # "ok"
    BY <1>1, <1>3, <2>1 DEF Inv, TypeOK, FilesOK, Loadable, Users
  <2>3. \A s \in Threads : ~InFlight(s, u)
    <3> SUFFICES ASSUME NEW s \in Threads, InFlight(s, u) PROVE FALSE
      OBVIOUS
    <3>1. HandlerOK(s) /\ th[s].uid = u
      BY <1>3 DEF Inv, HandlersOK, InFlight
    <3>2. mu = s
      BY <2>2, <3>1 DEF HandlerOK
    <3> QED
      BY <1>1, <3>2, ThreadAssumption
  <2>4. \A s \in Threads : InFlight(s, u)' <=> s = t
    BY <1>2, <2>3 DEF InFlight
  <2>5. AtMostOne(u)' /\ AtRest(u)'
    BY <2>4 DEF AtMostOne, AtRest
  <2>6. file[u] = abs[u]
    BY <1>3, <1>5, <2>3 DEF AloneOK, AtRest
  <2>7. AtWork(u)'
    BY <1>1, <1>2, <2>4, <2>6 DEF AtWork
  <2> QED
    BY <1>5, <2>5, <2>7 DEF AloneOK
<1> QED
  BY <1>4, <1>5

\* The handler at work truncates the file, and still knows what to store.
LEMMA OpenUserSerial ==
    ASSUME SerialInv, NEW t \in Threads, OpenUser(t), faults' = 0,
           NEW v \in UIDs \ overlap'
    PROVE  AloneOK(v)'
<1>1. PICK u \in UIDs : u = th[t].uid
  BY DEF SerialInv, Inv, TypeOK, Handlers
<1>2. /\ th[t].pc = "open" /\ th' = [th EXCEPT ![t].pc = "write"]
      /\ file' = [file EXCEPT ![u] = Blank("torn")]
      /\ abs' = abs /\ faults = 0 /\ overlap' = overlap
  BY <1>1 DEF OpenUser
<1>3. /\ th'[t].pc = "write" /\ th'[t].uid = u
      /\ th'[t].req = th[t].req /\ th'[t].rec = th[t].rec
      /\ \A s \in Threads \ {t} : th'[s] = th[s]
  BY <1>1, <1>2 DEF SerialInv, Inv, TypeOK, Handlers
<1>4. Inv /\ AloneOK(v)
  BY <1>2 DEF SerialInv
<1>5. CASE v # u
  <2>1. file'[v] = file[v] /\ abs'[v] = abs[v]
    BY <1>2, <1>5 DEF SerialInv, Inv, TypeOK
  <2> QED
    BY <1>1, <1>3, <1>4, <1>5, <2>1, OtherUser
<1>6. CASE v = u
  <2>1. InFlight(t, u)
    BY <1>1, <1>2 DEF InFlight
  <2>2. \A s \in Threads : InFlight(s, u) => s = t
    BY <1>4, <1>6, <2>1 DEF AloneOK, AtMostOne
  <2>3. \A s \in Threads : InFlight(s, u)' <=> s = t
    BY <1>3, <2>2 DEF InFlight
  <2>4. AtMostOne(u)' /\ AtRest(u)'
    BY <2>3 DEF AtMostOne, AtRest
  <2>5. file'[u] = Blank("torn")
    BY <1>2 DEF SerialInv, Inv, TypeOK
  <2>6. th[t].req.do # "register" => th[t].rec = Effect(th[t].req, abs[u])
    BY <1>4, <1>6, <2>1 DEF AloneOK, AtWork
  <2>7. AtWork(u)'
    BY <1>2, <1>3, <2>3, <2>5, <2>6 DEF AtWork
  <2> QED
    BY <1>6, <2>4, <2>7 DEF AloneOK
<1> QED
  BY <1>5, <1>6

\* The write finds the file as its own truncation left it, and stores the
\* record that serial execution gives.
LEMMA WriteUserSerial ==
    ASSUME SerialInv, NEW t \in Threads, WriteUser(t), faults' = 0,
           NEW v \in UIDs \ overlap'
    PROVE  AloneOK(v)'
<1>1. PICK u \in UIDs : u = th[t].uid
  BY DEF SerialInv, Inv, TypeOK, Handlers
<1>2. PICK r : r = th[t].req
  OBVIOUS
<1>3. PICK new \in Overwrite(file[u], th[t].rec) :
            file' = [file EXCEPT ![u] = new]
  BY <1>1 DEF WriteUser
<1>4. /\ th[t].pc = "write" /\ th' = [th EXCEPT ![t] = Idle]
      /\ abs' = [abs EXCEPT ![u] = IF r.do = "register" THEN th[t].rec
                                   ELSE Effect(r, abs[u])]
      /\ faults = 0 /\ overlap' = overlap
  BY <1>1, <1>2 DEF WriteUser
<1>5. th'[t].pc = "idle" /\ \A s \in Threads \ {t} : th'[s] = th[s]
  BY <1>4 DEF SerialInv, Inv, TypeOK, Idle
<1>6. Inv /\ AloneOK(v)
  BY <1>4 DEF SerialInv
<1>7. CASE v # u
  <2>1. file'[v] = file[v] /\ abs'[v] = abs[v]
    BY <1>3, <1>4, <1>7 DEF SerialInv, Inv, TypeOK
  <2> QED
    BY <1>1, <1>5, <1>6, <1>7, <2>1, OtherUser
<1>8. CASE v = u
  <2>1. InFlight(t, u)
    BY <1>1, <1>4 DEF InFlight
  <2>2. \A s \in Threads : InFlight(s, u) => s = t
    BY <1>6, <1>8, <2>1 DEF AloneOK, AtMostOne
  <2>3. \A s \in Threads : ~InFlight(s, u)'
    BY <1>5, <2>2 DEF InFlight
  <2>4. file[u].st = "torn"
    <3>1. file[u] = Blank("torn")
      BY <1>4, <1>6, <1>8, <2>1 DEF AloneOK, AtWork
    <3> QED
      BY <3>1 DEF Blank
  <2>5. new = th[t].rec
    BY <1>3, <2>4 DEF Overwrite
  <2>6. file'[u] = th[t].rec
    BY <1>3, <2>5 DEF SerialInv, Inv, TypeOK
  <2>7. r.do # "register" => th[t].rec = Effect(r, abs[u])
    BY <1>2, <1>6, <1>8, <2>1 DEF AloneOK, AtWork
  <2>8. abs'[u] = IF r.do = "register" THEN th[t].rec ELSE Effect(r, abs[u])
    BY <1>4 DEF SerialInv, Inv, TypeOK
  <2>9. file'[u] = abs'[u]
    BY <2>6, <2>7, <2>8
  <2> QED
    BY <1>8, <2>3, <2>9 DEF AloneOK, AtMostOne, AtRest, AtWork
<1> QED
  BY <1>7, <1>8

\* The handlers that start with a read are instances of Handle.
LEMMA HandlerSerial ==
    ASSUME SerialInv, NEW t \in Threads, NEW u \in UIDs,
           \/ TotpSign(t, u) \/ TotpVerify(t, u) \/ TotpUnsign(t, u)
           \/ \E c \in Codes : RecoveryCodeLogin(t, u, c)
           \/ UpdateProfile(t, u),
           faults' = 0, NEW v \in UIDs \ overlap'
    PROVE  AloneOK(v)'
<1>1. CASE TotpSign(t, u)
  BY <1>1, HandleSerial DEF TotpSign
<1>2. CASE TotpVerify(t, u)
  <2>1. \/ Handle(t, u, [do |-> "verify", arg |-> serial + 1])
        \/ Handle(t, u, [do |-> "fail", arg |-> 0])
    BY <1>2 DEF TotpVerify
  <2> QED
    BY <2>1, HandleSerial
<1>3. CASE TotpUnsign(t, u)
  BY <1>3, HandleSerial DEF TotpUnsign
<1>4. ASSUME NEW c \in Codes, RecoveryCodeLogin(t, u, c)
      PROVE  AloneOK(v)'
  BY <1>4, HandleSerial DEF RecoveryCodeLogin
<1>5. CASE UpdateProfile(t, u)
  BY <1>5, HandleSerial DEF UpdateProfile
<1> QED
  BY <1>1, <1>2, <1>3, <1>4, <1>5

\* Every step preserves the invariant; a failing write or a crash ends it.
LEMMA NextSerial == SerialInv /\ [Next]_vars => SerialInv'
<1> SUFFICES ASSUME SerialInv, [Next]_vars PROVE SerialInv'
  OBVIOUS
<1>1. Inv'
  BY NextInv DEF SerialInv
<1>2. ASSUME faults' = 0, NEW v \in UIDs \ overlap'
      PROVE  AloneOK(v)'
  <2>1. CASE UNCHANGED vars
    <3>1. AloneOK(v)
      BY <1>2, <2>1 DEF vars, SerialInv
    <3> QED
      BY <2>1, <3>1 DEF vars, AloneOK, AtMostOne, AtRest, AtWork, InFlight
  <2>2. ASSUME NEW t \in Threads, NEW u \in UIDs,
               \/ TotpSign(t, u) \/ TotpVerify(t, u) \/ TotpUnsign(t, u)
               \/ \E c \in Codes : RecoveryCodeLogin(t, u, c)
               \/ UpdateProfile(t, u)
        PROVE  AloneOK(v)'
    BY <1>2, <2>2, HandlerSerial
  <2>3. ASSUME NEW t \in Threads, NEW u \in UIDs, NEW id \in Ids,
               NEW email \in Emails, Register(t, id, email, u)
        PROVE  AloneOK(v)'
    BY <1>2, <2>3, RegisterSerial
  <2>4. ASSUME NEW t \in Threads, OpenUser(t)
        PROVE  AloneOK(v)'
    BY <1>2, <2>4, OpenUserSerial
  <2>5. ASSUME NEW t \in Threads, WriteUser(t)
        PROVE  AloneOK(v)'
    BY <1>2, <2>5, WriteUserSerial
  <2>6. ~Crash /\ \A t \in Threads : ~WriteError(t)
    BY <1>2 DEF SerialInv, Inv, TypeOK, Crash, WriteError
  <2> QED
    BY <2>1, <2>2, <2>3, <2>4, <2>5, <2>6 DEF Next
<1> QED
  BY <1>1, <1>2 DEF SerialInv

\* A user on whom no two handlers have overlapped has the record that running
\* the requests one at a time gives, as long as no write has failed.
THEOREM AloneIsSerial == Spec => []SerialWhenAlone
<1>1. Init => SerialInv
  <2> SUFFICES ASSUME Init PROVE SerialInv
    OBVIOUS
  <2>1. \A t \in Threads, u \in UIDs : ~InFlight(t, u)
    BY DEF Init, InFlight, Idle
  <2>2. \A u \in UIDs : AloneOK(u)
    BY <2>1 DEF Init, AloneOK, AtMostOne, AtRest, AtWork
  <2> QED
    BY <2>2, InitInv DEF SerialInv
<1>2. SerialInv => SerialWhenAlone
  BY DEF SerialInv, AloneOK, AtRest, SerialWhenAlone
<1> QED
  BY <1>1, <1>2, NextSerial, PTL DEF Spec
=============================================================================
