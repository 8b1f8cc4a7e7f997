------------------------------ MODULE Identity ------------------------------
(***************************************************************************)
(* The pure functions of the account service: the look-up of a recipient   *)
(* (auth/account.go), login tokens (auth/token.go) and the schema of the   *)
(* profile (auth/profile.go).                                              *)
(*                                                                         *)
(* A user ID of the look-up is [word, case]: two IDs with one word differ  *)
(* in case only.  A token is its text, a sequence of characters, with Sig  *)
(* for the 64 hex digits of the HMAC and `signed' for the text that the    *)
(* HMAC was computed from.                                                 *)
(***************************************************************************)
EXTENDS Integers, Sequences, FiniteSets, SequencesExt

(* Look-up.  users is what loadUsers returns, in the order of the directory. *)

NoAccount == 0

FoldedMatches(users, id) == {i \in DOMAIN users : users[i].word = id.word}

\* Mutant: the first user that matches without case is taken.
Folded_First(users, id) ==
    IF FoldedMatches(users, id) = {} THEN NoAccount
    ELSE CHOOSE i \in FoldedMatches(users, id) :
            \A j \in FoldedMatches(users, id) : i <= j

\* The one account that matches without case, if it is the only one.
Folded(users, id) ==
    IF Cardinality(FoldedMatches(users, id)) = 1
    THEN CHOOSE i \in FoldedMatches(users, id) : TRUE
    ELSE NoAccount

\* The position of the account in users, or NoAccount.
FindByID(users, id) ==
    LET exact == {i \in DOMAIN users : users[i] = id}
    IN  IF exact # {} THEN CHOOSE i \in exact : \A j \in exact : i <= j
        ELSE Folded(users, id)

-----------------------------------------------------------------------------
(* Tokens *)

Under  == "_"
Prefix == <<"a", "a", "t">>
Sig    == "#"
Digits == <<"0", "1", "2", "3", "4", "5">>

\* strconv.FormatInt; the times are small here.
FormatInt(n) == <<Digits[n + 1]>>

Issue(id, now) ==
    LET payload == Prefix \o <<Under>> \o id \o <<Under>> \o FormatInt(now)
    IN  [text |-> payload \o <<Under, Sig>>, signed |-> payload]

\* Mutant: the first separator is taken.
Separator_First(s) == CHOOSE i \in DOMAIN s :
                          s[i] = Under /\ \A j \in 1 .. i - 1 : s[j] # Under

Separator(s) == CHOOSE i \in DOMAIN s :
                    s[i] = Under /\ \A j \in i + 1 .. Len(s) : s[j] # Under

\* cutLast(s, "_")
cutLast(s) ==
    IF Under \notin ToSet(s) THEN [ok |-> FALSE, before |-> <<>>, after |-> <<>>]
    ELSE [ok |-> TRUE, before |-> SubSeq(s, 1, Separator(s) - 1),
          after |-> SubSeq(s, Separator(s) + 1, Len(s))]

idPattern(id) == id # <<>> /\ Sig \notin ToSet(id)

Refusal == [ok |-> FALSE, id |-> <<>>]

Fresh(age, validSecs) == age >= 0 /\ age < validSecs

Verify(token, now, validSecs) ==
    LET sig    == cutLast(token.text)
        stamp  == cutLast(sig.before)
        prefix == Prefix \o <<Under>>
        id     == SubSeq(stamp.before, Len(prefix) + 1, Len(stamp.before))
        times  == {t \in 0 .. 5 : stamp.after = FormatInt(t)}
    IN  IF /\ sig.ok /\ stamp.ok
           /\ IsPrefix(prefix, stamp.before) /\ idPattern(id)
           /\ times # {}
           /\ sig.after = <<Sig>> /\ sig.before = token.signed
           /\ \A t \in times : Fresh(now - t, validSecs)
        THEN [ok |-> TRUE, id |-> id]
        ELSE Refusal

-----------------------------------------------------------------------------
(* The profile schema.  An entry of ALLOWED_PROFILE_KEY is [name, type,    *)
(* vis], vis = "" when it has two parts.                                   *)

Types == {"string", "number", "bool"}

Field(type, private, immutable, builtin) ==
    [type |-> type, private |-> private, immutable |-> immutable, builtin |-> builtin]

builtinFields == [k \in {"username", "register"} |->
    IF k = "username" THEN Field("string", FALSE, FALSE, TRUE)
                      ELSE Field("number", FALSE, TRUE, TRUE)]

\* Mutant: an entry may declare a built-in key again.
Declarable_Builtin(fields, name) ==
    name # "" /\ (name \notin DOMAIN fields \/ fields[name].builtin)

Declarable(fields, name) == name # "" /\ name \notin DOMAIN fields

Declare(schema, entry) ==
    IF /\ schema.ok
       /\ Declarable(schema.fields, entry.name)
       /\ entry.type \in Types /\ entry.vis \in {"", "public", "private"}
    THEN [schema EXCEPT !.fields =
             [k \in DOMAIN @ \cup {entry.name} |->
                 IF k = entry.name
                 THEN Field(entry.type, entry.vis = "private", FALSE, FALSE)
                 ELSE @[k]]]
    ELSE [schema EXCEPT !.ok = FALSE]

ParseProfileSchema(entries) ==
    FoldLeft(Declare, [ok |-> TRUE, fields |-> builtinFields], entries)

\* A value is known by its JSON type.
accepts(fields, key, type) ==
    key \in DOMAIN fields /\ ~fields[key].immutable /\ fields[key].type = type

visible(fields, key, authenticated) ==
    key \in DOMAIN fields /\ (authenticated \/ ~fields[key].private)

\* The first half of ProfileEditHandler: all changes or none.
EditedKeys(fields, content) ==
    IF \A i \in DOMAIN content : accepts(fields, content[i].key, content[i].type)
    THEN {content[i].key : i \in DOMAIN content}
    ELSE {}
=============================================================================
