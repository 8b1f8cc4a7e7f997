------------------------------ MODULE MailText ------------------------------
(***************************************************************************)
(* The pure functions of the mail server on text: mailbox names and their  *)
(* directories (store.go), line endings and SASL LOGIN (smtp.go), the      *)
(* multi-line answers of POP3 (pop3.go), addresses (address.go) and the    *)
(* domains of a message's recipients (relay.go).                           *)
(*                                                                         *)
(* Text is a sequence of code points.  "INBOX" is shortened to "I", so     *)
(* that its spellings "I" and "i" fit into short names.                    *)
(***************************************************************************)
EXTENDS Integers, Sequences, FiniteSets, SequencesExt

LF == 10
CR == 13
Percent == 37
Dot == 46
Slash == 47
Zero == 48
Lt == 60
Gt == 62
At == 64
Blanks == {9, LF, CR, 32}

Lower(c) == IF c \in 65 .. 90 THEN c + 32 ELSE c
ToLower(s) == [i \in DOMAIN s |-> Lower(s[i])]
EqualFold(s, t) == ToLower(s) = ToLower(t)

\* Positions of the first and last character that is not in the cut set.
FirstNot(s, cut) ==
    CHOOSE k \in 1 .. Len(s) + 1 :
        /\ k = Len(s) + 1 \/ s[k] \notin cut
        /\ \A i \in 1 .. k - 1 : s[i] \in cut
LastNot(s, cut) ==
    CHOOSE k \in 0 .. Len(s) :
        /\ k = 0 \/ s[k] \notin cut
        /\ \A i \in k + 1 .. Len(s) : s[i] \in cut
TrimRight(s, cut) == SubSeq(s, 1, LastNot(s, cut))
TrimBoth(s, cut) == SubSeq(s, FirstNot(s, cut), LastNot(s, cut))

-----------------------------------------------------------------------------
(* Mailbox names and directories *)

Inbox == <<73>>

CanonicalMailbox(name) ==
    LET n == TrimBoth(name, {Slash})
    IN  IF EqualFold(n, Inbox) THEN Inbox ELSE n

\* The characters a directory name keeps.
Safe == (65 .. 90) \cup (97 .. 122) \cup (48 .. 57) \cup {Dot, 45, 95}

HexDigit(d) == IF d < 10 THEN Zero + d ELSE 55 + d
HexValue(c) == IF c < 58 THEN c - Zero ELSE c - 55
Powers == <<1, 16, 256, 4096, 65536, 1048576>>

\* %02X has two digits at least, and more for a rune above 0xFF.
Width(r) == CHOOSE w \in 2 .. 6 : r < 16 * Powers[w] /\ (w = 2 \/ r >= Powers[w])
Hex(r) == [i \in 1 .. Width(r) |-> HexDigit((r \div Powers[Width(r) - i + 1]) % 16)]

EncodeRune(r) == IF r \in Safe THEN <<r>> ELSE <<Percent>> \o Hex(r)

encodeMailboxName(name) == FoldLeft(LAMBDA dir, r : dir \o EncodeRune(r), <<>>, name)

\* Mutant: an escape at the very end is not recognised.
Escaped_NotLast(dir, i) == dir[i] = Percent /\ i + 2 < Len(dir)

\* In a directory name every % is followed by two hex digits.
Escaped(dir, i) == dir[i] = Percent /\ i + 2 <= Len(dir)

decodeMailboxName(dir) ==
    LET from[i \in 1 .. Len(dir) + 1] ==
            IF i > Len(dir) THEN <<>>
            ELSE IF Escaped(dir, i)
            THEN <<16 * HexValue(dir[i + 1]) + HexValue(dir[i + 2])>> \o from[i + 3]
            ELSE <<dir[i]>> \o from[i + 1]
    IN  from[1]

\* A path is the sequence of its elements below the account's directory;
\* filepath.Join cleans it.
MailRoot == <<"mail">>

Join(path, elem) ==
    CASE elem \in {<<>>, <<Dot>>} -> path
      [] elem = <<Dot, Dot>>      -> Front(path)
      [] OTHER                    -> Append(path, elem)

mailboxDir(name) == Join(MailRoot, encodeMailboxName(CanonicalMailbox(name)))

\* What ListMailboxes shows for an entry of the mail root: the first name is
\* INBOX.
ListedName(entry) ==
    LET name == decodeMailboxName(entry)
    IN  IF CanonicalMailbox(name) = Inbox THEN Inbox ELSE name

-----------------------------------------------------------------------------
(* Line endings, and what POP3 sends *)

BareLF(raw, i) == raw[i] = LF /\ (i = 1 \/ raw[i - 1] # CR)

normaliseLineEndings(raw) ==
    FlattenSeq([i \in DOMAIN raw |->
                   IF BareLF(raw, i) THEN <<CR, LF>> ELSE <<raw[i]>>])

EndsWith(s, sep) ==
    /\ Len(sep) <= Len(s)
    /\ \A i \in 1 .. Len(sep) : s[Len(s) - Len(sep) + i] = sep[i]

\* A text cut after every separator: the pieces, and what follows the last one.
CutChar(sep, r, c) ==
    LET rest == Append(r.rest, c)
    IN  IF EndsWith(rest, sep) THEN [pieces |-> Append(r.pieces, rest), rest |-> <<>>]
        ELSE [pieces |-> r.pieces, rest |-> rest]
Cut(s, sep) ==
    FoldLeft(LAMBDA r, c : CutChar(sep, r, c), [pieces |-> <<>>, rest |-> <<>>], s)

\* What ReadString('\n') returns, one call after the other.
Lines(body) ==
    LET r == Cut(body, <<LF>>)
    IN  IF r.rest = <<>> THEN r.pieces ELSE Append(r.pieces, r.rest)

\* Mutant: only a line that is a dot is stuffed.
Stuffed_DotOnly(line) == IF line = <<Dot>> THEN <<Dot>> \o line ELSE line

Stuffed(line) == IF line # <<>> /\ line[1] = Dot THEN <<Dot>> \o line ELSE line

\* One round of the loop of writeDotted; bodyLines is negative for RETR.
WriteLine(bodyLines, w, line) ==
    LET trimmed == TrimRight(line, {CR, LF})
        blank   == ~w.headerDone /\ trimmed = <<>>
        counts  == w.headerDone /\ bodyLines >= 0
    IN  IF w.stop \/ (counts /\ w.emitted >= bodyLines)
        THEN [w EXCEPT !.stop = TRUE]
        ELSE [w EXCEPT !.headerDone = @ \/ blank,
                       !.emitted = IF counts THEN @ + 1 ELSE @,
                       !.out = @ \o Stuffed(trimmed) \o <<CR, LF>>]

writeDotted(body, bodyLines) ==
    FoldLeft(LAMBDA w, line : WriteLine(bodyLines, w, line),
             [headerDone |-> bodyLines < 0, emitted |-> 0, stop |-> FALSE,
              out |-> <<>>],
             Lines(body)).out \o <<Dot, CR, LF>>

-----------------------------------------------------------------------------
(* Addresses *)

Bare(addr) ==
    LET a == TrimBoth(addr, Blanks)
        b == IF a # <<>> /\ a[1] = Lt THEN Tail(a) ELSE a
    IN  IF b # <<>> /\ Last(b) = Gt THEN Front(b) ELSE b

\* strings.LastIndex(addr, "@")
AtSign(a) == IF At \in ToSet(a) THEN CHOOSE i \in DOMAIN a :
                  a[i] = At /\ \A j \in i + 1 .. Len(a) : a[j] # At
             ELSE 0

Malformed == [ok |-> FALSE, local |-> <<>>, domain |-> <<>>]

SplitAddress(addr) ==
    LET a      == Bare(addr)
        at     == AtSign(a)
        local  == SubSeq(a, 1, at - 1)
        domain == ToLower(SubSeq(a, at + 1, Len(a)))
    IN  IF \/ at <= 1 \/ at = Len(a)
           \/ ToSet(local) \cap Blanks # {}
           \/ ToSet(domain) \cap (Blanks \cup {At}) # {}
        THEN Malformed
        ELSE [ok |-> TRUE, local |-> local, domain |-> domain]

\* A map with one more key, or another value for it.
Put(map, key, value) ==
    [k \in DOMAIN map \cup {key} |-> IF k = key THEN value ELSE map[k]]

\* Mutant: the last recipient of a domain replaces the others.
AddRecipient_Replaces(grouped, rcpt) ==
    LET a == SplitAddress(rcpt)
    IN  IF a.ok THEN Put(grouped, a.domain, <<rcpt>>) ELSE grouped

AddRecipient(grouped, rcpt) ==
    LET a     == SplitAddress(rcpt)
        group == IF a.domain \in DOMAIN grouped THEN grouped[a.domain] ELSE <<>>
    IN  IF a.ok THEN Put(grouped, a.domain, Append(group, rcpt)) ELSE grouped

groupByDomain(rcpts) == FoldLeft(AddRecipient, [d \in {} |-> <<>>], rcpts)

-----------------------------------------------------------------------------
(* SASL LOGIN: what loginServer makes of the client's responses.  Nil is   *)
(* the missing initial response, <<>> an empty line.                       *)

Nil == <<0>>

\* Mutant: an empty line counts as no response.
NoResponse_Empty(r) == r = Nil \/ r = <<>>

NoResponse(r) == r = Nil

Text(r) == IF r = Nil THEN <<>> ELSE r

\* logins are the pairs that the authenticate callback takes; go-smtp ends the
\* exchange at the first error.
LoginNext(logins, l, r) ==
    CASE l.answer = "error" -> l
      [] l.answer # "error" /\ l.step = 0 ->
            IF NoResponse(r) THEN [l EXCEPT !.answer = "Username:"]
            ELSE [l EXCEPT !.step = 1, !.username = Text(r), !.answer = "Password:"]
      [] l.answer # "error" /\ l.step = 1 ->
            IF <<l.username, Text(r)>> \in logins THEN [l EXCEPT !.step = 2, !.answer = "done"]
            ELSE [l EXCEPT !.answer = "error"]
      [] l.answer # "error" /\ l.step = 2 -> [l EXCEPT !.answer = "error"]

LoginAnswer(logins, responses) ==
    FoldLeft(LAMBDA l, r : LoginNext(logins, l, r),
             [step |-> 0, username |-> <<>>, answer |-> "none"], responses).answer
=============================================================================
