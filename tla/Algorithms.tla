----------------------------- MODULE Algorithms -----------------------------
(***************************************************************************)
(* The pure functions of MailText and Identity against reference           *)
(* definitions, over all inputs up to a bound.  An input grows by one      *)
(* character (recipient, user, entry, response) per step, so that a        *)
(* violated property comes with a short input.                             *)
(***************************************************************************)
EXTENDS MailText, Identity

CONSTANTS Alphabet,  \* for each kind of input, what it is made of
          Bound      \* bound: for each kind of input, its length

Kinds == {"name", "body", "address", "rcpts", "login",
          "users", "id", "schema"}

ASSUME AlgorithmAssumption ==
    /\ DOMAIN Alphabet = Kinds /\ DOMAIN Bound = Kinds
    /\ Alphabet["name"] \subseteq Nat /\ Alphabet["rcpts"] \subseteq Seq(Nat)

VARIABLES kind, input

Init == kind \in Kinds /\ input = <<>>

Grow ==
    /\ Len(input) < Bound[kind]
    /\ \E c \in Alphabet[kind] : input' = Append(input, c)
    /\ UNCHANGED kind

Next == Grow

Spec == Init /\ [][Next]_<<kind, input>>

-----------------------------------------------------------------------------
(* Mail text *)

Latin1(name) == \A i \in DOMAIN name : name[i] < 256

\* The names whose directory filepath.Join cleans away.
Stray == {<<>>, <<Dot>>, <<Dot, Dot>>}

\* A mailbox has a directory of its own right in the mail root, LIST shows it
\* under its canonical name, and that name opens the directory it was found in:
\* encodeMailboxName and decodeMailboxName invert each other, percent signs,
\* delimiters, dots and control characters included.  Two kinds of name are
\* excepted: with a rune above 0xFF (%02X writes more digits than are read
\* back), and "", "." and ".." (the mail root and the directory above it).
ListedNameOpens ==
    kind = "name" /\ Latin1(input) /\ CanonicalMailbox(input) \notin Stray =>
        LET dir    == mailboxDir(input)
            listed == ListedName(Last(dir))
        IN  /\ Front(dir) = MailRoot /\ Slash \notin ToSet(Last(dir))
            /\ listed = CanonicalMailbox(input)
            /\ mailboxDir(listed) = dir

\* A text without the CR of its CRLF line ends.
Unix(s) == FlattenSeq([i \in DOMAIN s |->
    IF s[i] = CR /\ i < Len(s) /\ s[i + 1] = LF THEN <<>> ELSE <<s[i]>>])

CrlfLines(wire) ==
    LET pieces == Cut(wire, <<CR, LF>>).pieces
    IN  [k \in DOMAIN pieces |-> SubSeq(pieces[k], 1, Len(pieces[k]) - 2)]

\* What a POP3 client reads: lines up to the one that is a dot, unstuffed; the
\* answer is over exactly there.
ClientReads(wire, lines) ==
    LET sent == CrlfLines(wire)
        last == Len(sent)
    IN  /\ sent[last] = <<Dot>>
        /\ \A k \in 1 .. last - 1 : sent[k] # <<Dot>>
        /\ lines = [k \in 1 .. last - 1 |->
                       IF sent[k] # <<>> /\ sent[k][1] = Dot THEN Tail(sent[k]) ELSE sent[k]]

TopLines(lines, n) ==
    LET blank == {k \in DOMAIN lines : lines[k] = <<>>}
        head  == IF blank = {} THEN Len(lines)
                 ELSE CHOOSE k \in blank : \A j \in blank : k <= j
    IN  SubSeq(lines, 1, IF head + n < Len(lines) THEN head + n ELSE Len(lines))

Trimmed(text) == [k \in DOMAIN Lines(text) |-> TrimRight(Lines(text)[k], {CR, LF})]

\* A message on its way from DATA to a POP3 client: normaliseLineEndings leaves
\* no LF without a CR, changes nothing else and nothing the second time; what
\* the client reads after RETR are the lines that were sent, and after TOP n
\* the header, the blank line and n lines.  No line of dots ends the answer
\* early, and an empty message, a missing header, stray CRs and a last line
\* without CRLF are no exception.
ClientReadsMessage ==
    kind = "body" =>
        LET body  == normaliseLineEndings(input)
            lines == Trimmed(input)
        IN  /\ \A i \in DOMAIN body : body[i] = LF => i > 1 /\ body[i - 1] = CR
            /\ Unix(body) = Unix(input)
            /\ normaliseLineEndings(body) = body
            /\ ClientReads(writeDotted(body, -1), lines)
            /\ \A n \in 0 .. 2 : ClientReads(writeDotted(body, n), TopLines(lines, n))

\* The last @ with something on both sides, and no blank anywhere.
Ats(a) == {i \in 2 .. Len(a) - 1 : a[i] = At /\ \A j \in i + 1 .. Len(a) : a[j] # At}
WellFormed(a) == Ats(a) # {} /\ ToSet(a) \cap Blanks = {}
DomainPart(a) == LET i == CHOOSE k \in Ats(a) : TRUE
                 IN  ToLower(SubSeq(a, i + 1, Len(a)))

\* An address, also in brackets, among blanks and in another case.
Spellings(a) ==
    <<a, <<Lt>> \o a \o <<Gt>>, <<32>> \o a \o <<32>>, ToLower(a), a>>

\* groupByDomain puts every recipient that is an address into the group of its
\* domain, as often as it was given, however it is spelt, and no other group:
\* attempt forgets nobody and sends nobody the message twice.  What is no
\* address is in no group, and no group is empty.
GroupsPartition ==
    kind = "rcpts" \/ (kind = "address" /\ input = Bare(input)) =>
        LET rcpts  == IF kind = "rcpts" THEN input ELSE Spellings(input)
            groups == groupByDomain(rcpts)
            Times(s, r) == Cardinality({i \in DOMAIN s : s[i] = r})
        IN  /\ \A r \in ToSet(rcpts), d \in DOMAIN groups :
                 Times(groups[d], r) =
                     IF WellFormed(Bare(r)) /\ d = DomainPart(Bare(r))
                     THEN Times(rcpts, r) ELSE 0
            /\ DOMAIN groups = {DomainPart(Bare(r)) :
                                   r \in {x \in ToSet(rcpts) : WellFormed(Bare(x))}}

User == <<117>>
Secret == <<112>>

\* The responses of the exchange: what follows the missing initial response.
Given(rs) == IF rs # <<>> /\ rs[1] = Nil THEN Tail(rs) ELSE rs

\* AUTH LOGIN succeeds exactly when the client's first response is the user and
\* its second the password, whether or not it sent an initial response; an
\* empty user name is a user name, so it cannot keep the exchange going.
LoginTakesTwo ==
    kind = "login" /\ (\A i \in 2 .. Len(input) : input[i] # Nil) =>
        LET answer == LoginAnswer({<<User, Secret>>}, input)
        IN  /\ answer = "done" <=> Given(input) = <<User, Secret>>
            /\ Len(Given(input)) > 2 => answer = "error"

-----------------------------------------------------------------------------
(* Accounts *)

Ids == Alphabet["users"]
DistinctIds == \A i, j \in DOMAIN input : i # j => input[i] # input[j]

\* Whatever the order of the directory, a recipient resolves to the same
\* account: the one with exactly that ID, or else the only one that differs in
\* case; mail for an ambiguous ID goes to nobody.
LookupUnambiguous ==
    kind = "users" /\ DistinctIds =>
        \A id \in Ids :
            LET found    == FindByID(input, id)
                backward == FindByID(Reverse(input), id)
            IN  /\ (found = 0) = (backward = 0)
                /\ found # 0 => input[found] = Reverse(input)[backward]
                /\ id \in ToSet(input) => found # 0 /\ input[found] = id

\* A token gives back the ID it was issued for, underscores and all, from the
\* second it was issued until it expires and not afterwards, and a signature
\* fits no other text.
TokenRoundTrip ==
    kind = "id" /\ idPattern(input) =>
        \A t, now \in 0 .. 5 :
            LET token  == Issue(input, t)
                result == Verify(token, now, 3)
                other  == Verify([token EXCEPT !.text = Issue(input \o <<"a">>, t).text], now, 3)
            IN  /\ result.ok <=> now \in t .. t + 2
                /\ result.ok => result.id = input
                /\ ~other.ok

ValueTypes == Types \cup {"null"}
Names == {e.name : e \in Alphabet["schema"]}
Requests == [key : Names, type : ValueTypes]

\* No ALLOWED_PROFILE_KEY lets a client write register, hides username, changes
\* a built-in type, shows a private key to a stranger or lets a request with
\* one refused change make another; the order of the entries makes no
\* difference.
SchemaGuards ==
    kind = "schema" =>
        LET schema == ParseProfileSchema(input)
            fields == schema.fields
        IN  schema.ok =>
                /\ \A r, q \in Requests :
                      LET edited == EditedKeys(fields, <<r, q>>)
                      IN  /\ "register" \notin edited
                          /\ edited # {} => /\ edited = {r.key, q.key}
                                            /\ {r.type, q.type} \subseteq Types
                /\ visible(fields, "username", FALSE)
                /\ accepts(fields, "username", "string")
                /\ \A e \in ToSet(input) :
                      visible(fields, e.name, FALSE) = (e.vis # "private")
                /\ ParseProfileSchema(Reverse(input)) = schema
=============================================================================
