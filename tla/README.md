# Astraccounts in TLA+

A formal model of the Astraccounts server (`auth/`, `mail/`, `main.go`): TLA+
modules for its stateful parts and its pure algorithms, TLC configurations that
check them on small instances, and TLAPS proofs of their safety properties for
every value of the constants. `PROJECT.json` maps every definition to the lines it models.

## The system

| Part | State | Operations | Talks to |
|---|---|---|---|
| Outbound relay (`mail/relay.go`) | spool directory: `<id>.eml` + `<id>.json` per message; channels `wake`, `stop`, `done` | `enqueue` (many SMTP sessions, one at a time under `q.mu`), one worker: `run` / `flush` / `attempt` | remote MX hosts or a smarthost, DNS, the mail store (bounces), the user store (`FindByID`) |
| Mail store (`mail/store.go`, `flags.go`) | per mailbox `index.json` + `<uid>.eml` files; `Store.mu` | create, delete, rename, subscribe, append, flag, copy, remove, snapshot, body | file system; called by SMTP, IMAP, POP3 and the relay |
| POP3 (`mail/pop3.go`) | per connection: account, snapshot, marks | PASS, RETR, TOP, DELE, RSET, QUIT, … | mail store, user store |
| IMAP (`mail/imap.go`) | none of its own beyond the mailbox name (the go-imap library keeps the session) | SELECT, FETCH, SEARCH, APPEND, STORE, COPY, EXPUNGE | mail store |
| SMTP (`mail/smtp.go`) | per connection: account, sender, recipients | AUTH, MAIL, RCPT, RSET, DATA | mail store, relay, user store, DKIM |
| Mail server (`mail/server.go`) | listeners, wait group, `closed` | Start, Shutdown | all of the above |
| User store and HTTP handlers (`auth/`) | `user.json` per UID; `UserStore.mu` | register, login, profile edit and view, TOTP sign / verify / unsign / login, recovery-code login | file system |
| Account look-up, tokens, configuration (`auth/account.go`, `token.go`, `mail/config.go`) | none that changes | `FindByID`, `Issue`, `Verify`, `ConfigFromEnv` (not modelled) | called by the parts above |
| Logger, scripts | none the program depends on | | |

What makes this code hard to get right, and hard to test:

* **Concurrency.** The relay worker shares the spool with `enqueue` without a
  lock; `Body` reads without `Store.mu`; `Copy` is several critical sections;
  the TOTP handlers write `user.json` without `UserStore.mu`.
* **Crashes.** All state is in files that `os.WriteFile` truncates and rewrites
  in place, and operations touch two or more files.
* **Partial failure.** One domain of a message fails, one unlink of several
  fails, the bounce itself fails, DATA stores for one recipient and fails for
  the next, a host takes a message and its confirmation is lost.
* **Order and staleness.** POP3 numbers, IMAP sequence numbers and UIDs must keep
  their meaning while others expunge and deliver; IMAP decides on a snapshot and
  acts under a later lock.
* **Liveness.** A wake-up channel of capacity one, a bounded number of retries,
  a shutdown that drains servers, stops the queue and waits for goroutines.

The full list, at its lines, is `hazards` in `PROJECT.json`.

## Modules

| Module | Models |
|---|---|
| `Relay` | the spool, `enqueue`, the worker, start, shutdown, crash |
| `MailStore` | the store of one account, system call by system call, with one `Copy` in progress |
| `Delivery` | the abstract specification: what the relay promises to those who hand it mail |
| `RelayDelivery` | the refinement mapping from `Relay` to `Delivery` |
| `Pop3` | POP3 sessions composed with `MailStore` (EXTENDS it and uses its actions) |
| `ImapSession` | IMAP sessions composed with `MailStore` in the same way |
| `SmtpSession` | SMTP sessions, their clients, and the calls of the store and of the queue |
| `MailServer` | start, shutdown and restart of the server, composed with `SmtpSession` and `Delivery` |
| `MailText` | mailbox names, line endings, POP3's multi-line answers, addresses, SASL LOGIN |
| `Identity` | `FindByID`, login tokens, the profile schema |
| `Algorithms` | the two modules of pure functions against reference definitions |
| `UserStore` | `user.json` files, registration, profile edits, TOTP and recovery-code handlers |
| `RelayProofs`, `RelayDeliveryProofs`, `MailServerProofs`, `MailStoreProofs`, `Pop3Proofs`, `ImapProofs`, `UserStoreProofs`, `AlgorithmsProofs` | the inductive invariants and the theorems about the module of that name |
| `MC*` | the instances for TLC |

How they fit together: `MailServer` and `SmtpSession` use the queue through
`Delivery`, and `RelayDelivery` shows that the real queue is a `Delivery`; so
what `MailServer` establishes of acknowledged mail holds with the spool and the
worker in its place. POP3 and IMAP sessions meet in the store, whose system
calls they interleave with.

Definitions named `X_Y` after a comment "Mutant" are deliberate errors, kept
next to the definition `X` they falsify; the specification does not use them.
Each property is known to fail when the mutant listed for it takes `X`'s place.

### Relay

`entry[m]` is the sidecar (missing, torn or a `queueEntry` reduced to recipients
and attempts), `body[m]` the `.eml` file (none, part, full). `os.WriteFile` is
two steps. `NextTry` is membership in `due`: `TimePasses` adds an entry once its
backoff is over. The worker's locals are `listing` (what `os.ReadDir` returned),
`cur`, `rcpts`, `attempts`, `pending`, `deferred`, `dom`, `hosts`. Each system
call and each answer of a remote host is an action; DNS and hosts answer as they
please (`Resolve*`, `Send*`). A smarthost behaves as a domain with one host.
`settled` and `unreported` are history: recipients relayed to or bounced, and
recipients dropped without a report to the sender. A call that fails is counted in
`ioErrors`, and so is a sender lookup that fails because a `user.json` is unreadable
at that moment. `folded` holds the messages whose From differs in case from the
sender's address: `MAIL` accepts it, and `bounce` may then find two accounts and
report to nobody, or find another account and report to that one, with no call
failing. `rounds` is history: the delivery rounds begun, which the sidecar's count
does not tell after a crash. `Gone` is what both a crash and an orderly exit do to memory.

`taken` and `lostAnswers` are the hosts' view: `taken[m][r]` counts the copies
that hosts have confirmed with a 250 to DATA. `sendTo` returns the error of QUIT
and of a confirmation that does not arrive, so a host may have the message and
the round counts as failed (`TakenOrNot`).

Left out: the length of the backoff, the text of messages, recipients whose
address does not parse (RCPT refuses them; `GroupsPartition` covers the
function), and a process death that loses data already handed to the kernel
(there is no `fsync` in the code; the model's crashes lose the process, not the
machine).

### Delivery and the refinement

`Delivery` knows a message as new, open, accepted or refused and its recipients
as served (relayed to or reported) or lost. It may lose recipients only in a
step that counts a failure, or (`Drop`) when the From is `folded`; an orderly exit
loses nothing, and `Promise` says that nobody is left over. `RelayDelivery` maps
`settled` to served and, to lost, what was dropped without a report and the
recipients of a sidecar that is torn and that nobody is writing.
`ImplementsDelivery` is the whole of it, with its liveness.

### MailStore

`index[n]` is `index.json`, `files[n][u]` the body file. `op` is the call that
holds `Store.mu` and the system calls it has left. A message's `id` is the serial
number of its `Append`; a body is the serial number of the message it was
written for, so a copied message has its own id and its source's body. `acked`,
`doomed` and `uidLog` are history. `CallError` ends a call at any system call,
`Crash` ends everything. One account is enough: `Store.mu` is shared by all
accounts but no call touches two of them. Flags are sets, which is what
`normaliseFlags` and `hasFlag` make of a list compared without case. Mailbox
names are canonical model values. `Holds[n]` is the mailboxes whose directories lie
in that of `n`: `n` alone, except for the names `.` and `..`, which `filepath.Join`
cleans to the mail root and the account's directory, so that `DeleteMailbox` takes
every mailbox with it. `wiped` is history: such a deletion has reached INBOX. (For
`..` it also takes `user.json`, which this module does not have.) A leftover empty directory is not told from a
missing one.

### Pop3

A session is its state, the snapshot of PASS and the marked UIDs. Message numbers
are positions in the snapshot. RETR reads the body without the lock and flags the
message in a separate call. QUIT hands the marks to `Store.Remove`. Other sessions
and SMTP deliveries interleave at every system call. Credentials and TLS decide
only whether PASS succeeds.

### ImapSession

`imapMailbox` is a name, so a session is the selected mailbox and the command in
progress. STORE, COPY and EXPUNGE are two steps: `resolve` (or `Deleted`) on a
snapshot under one lock, and the store's call under the next, with everything
else in between. FETCH and SEARCH take a snapshot and read body after body
without the lock. `shown`, `meant`, `swept` and `flagged` are history: what the
client has been shown, which of it the command names, what EXPUNGE found
flagged, and what has ever carried `\Deleted`. CREATE, DELETE, RENAME and
SUBSCRIBE are one call of the store each and are actions of `MailStore`.

### SmtpSession and MailServer

A client has one message and sends it, over as many connections and transactions
as it takes, to the recipients it has no 250 for. Any command may come at any
time that go-smtp admits it; credentials are right or the command has no effect.
Addresses are equal up to case when `Fold` maps them to one representative; an
account has one of the spellings, and the instance has two accounts whose IDs
differ in case only. A client names a recipient once per transaction, which `Rcpt`
does not enforce (`smtp.go:178` appends without looking): with a recipient named
twice, two copies are what it asked for. DATA is one step per recipient in the order of RCPT (stored, failed, or collected
for the queue), the call of `enqueue` and the reply. An INBOX is
reduced to the number of copies of a message; `MailStore` models `Append` itself.
`MailServer` adds `main` (`startMail`, `serve`), `Start` listener by listener,
`Shutdown` step by step with the context's 15 seconds (`expired`), the wait group
(`loops`) and the worker (`relayLoop`). A `Crash` is also what `main` does when it
returns early after `startMail`. `failures + shutdowns` counts every failing call,
lost reply, crash and shutdown, so properties can say what they cost.

### MailText, Identity

Text is a sequence of code points, and INBOX is the one letter `I`, so that
every name of five characters includes all spellings of it, percent signs, dots,
delimiters and a rune above 0xFF. A path is the sequence of its elements, which
`Join` cleans. A token's HMAC is ideal. A loop over a text or a list is
a fold whose step is one round of it.

### UserStore

A handler reads the record with the lock held, decides, and then opens and writes
the file; `register` and `updateProfile` keep the lock until then (`Keeps`), the
TOTP handlers do not. When two handlers have both truncated the file, the second
write starts at offset 0 over the first record: if that is longer, its end
remains and the file does not parse (`Overwrite`). Secrets, profiles and codes
are serial numbers; two codes stand for the ten. `abs` is what running the
requests one at a time in the order of their writes would give, `overlap` the
users two handlers have been at work on together, `used` the tokens issued per
code. Passwords, tokens and TOTP codes are right or wrong by the choice of the
request.

## Runs

| Run | Instance | Distinct states | Shows |
|---|---|---|---|
| `relay_faults` | 1 message, 2 recipients at 2 domains, 2 rounds, 2 MX, 1 crash, 1 error, 1 lost answer, 1 shutdown, fair | 714,766 | `ImplementsDelivery`, `NothingLost`, `SpoolExact`, `CopiesAccounted`, `AttemptsBounded`, `NoSilentDrop`, `NoLostWakeup`, `ShutdownReturns` |
| `smtp` | 2 clients, 2 SMTP listeners and POP3, accounts bob and Bob, 1 remote address, a spelling that fits both accounts, 1 failure or shutdown, fair | 465,336 | `AckedIsKept`, `CopiesPaidFor`, `NoForgedRelay`, `DrainedBeforeQueueStops`, `ShutdownEnds`, `AckedMailArrives` |
| `store_faults` | INBOX and `.`, 2 appends, 2 seconds, 2 faults | 3,180,050 | `IndexedHasBody`, `AckedKept`, `InboxUidForever`, `CopyFromInboxFaithful`, the inductive invariant `Inv` |
| `store_rename` | INBOX and two mailboxes, 2 appends, no faults, symmetric mailboxes | 667,266 | `StoreExact` |
| `pop3` | 2 sessions, 3 deliveries, 1 fault, symmetric sessions | 708,414 | `OnlyMarkedRemoved`, `InboxIsDeliveredMinusRemoved`, `RetrFaithful` |
| `imap` | 2 sessions, 2 appends, 1 fault, symmetric sessions | 2,512,907 | `OnlyFlaggedExpunged`, `ExpungeEffective`, `HitsWhatWasShown`, `FetchFaithful` |
| `users` | 2 handlers, 2 IDs, 2 addresses, 2 users, 3 serials, 1 fault, all symmetric | 365,058 | `AccountsDistinct`, `TotpConsistent`, `SerialWhenAlone` |
| `algorithms` | names to 5 characters, messages to 6, addresses to 5, 3 recipients, 4 responses, 3 users, IDs to 4, 2 schema entries | 54,380 | `ListedNameOpens`, `ClientReadsMessage`, `GroupsPartition`, `LoginTakesTwo`, `LookupUnambiguous`, `TokenRoundTrip`, `SchemaGuards` |

What the properties that take several actors say:

* `CopiesAccounted`, `CopiesPaidFor`: mail is delivered at least once; each copy
  beyond the first costs a crash, a failing call, a lost answer or, for SMTP
  clients, a shutdown that did not wait for the reply.
* `AttemptsBounded`: a message is tried in `queueMaxAttempts` rounds, plus one for
  each crash or failing call: `Attempts++` (`relay.go:196`) is in memory until the
  sidecar is rewritten, so a round that is cut off is not counted.
* `NoSilentDrop`: the sender is not told of a dropped recipient when a call failed, or
  when it spelt its own address with other case; no race and no crash adds to that.
* `AckedIsKept`, `AckedMailArrives`: a 250 to DATA holds for every recipient of
  the transaction, also when it is given while the queue is being stopped. For a
  local recipient it says that the message was put into the INBOX; what a torn
  index does to it later is `MailStore`'s `AckedKept`.
* `NoForgedRelay`: relayed mail comes from an authenticated account under an address
  that is its own up to case. When two IDs differ in case only, that may be the exact
  address of the other account.
* `DrainedBeforeQueueStops`: the servers are drained one after the other, and
  within the context's time no session is left when the queue stops.
* `OnlyFlaggedExpunged`, `ExpungeEffective`: EXPUNGE removes, under a second lock,
  the messages it found flagged under the first and no others. A message whose
  `\Deleted` is taken off in between goes as well: the property says "flagged at some
  time", not "flagged when removed".
* `HitsWhatWasShown`: between the snapshot of STORE or COPY and the call that follows,
  UIDs keep their meaning always; sequence numbers do until another session expunges
  something the client was shown, and then a command may hit a neighbour.
* `InboxUidForever`: no UID of INBOX is handed out twice, and all of them belong
  to one UIDVALIDITY, until INBOX is deleted with the mail root (`store_dot`).

Why the bounds are enough for what is asked: two recipients at two domains give
a round that serves one and defers or bounces the other; two rounds give one that is not the last and the last; one message
suffices for the worker's races with `enqueue`. What takes more, such as a `signal`
that finds the channel full or a domain with two recipients, is left to the theorems,
which hold for any number. Two appends give a UID that could be reused, and a third
delivery in `pop3` a number that is neither its UID nor outside the mailbox. Two handlers are
enough for every overlap the code can have pairwise. In `smtp` one failure is
enough for a retry, a restart and an expired shutdown. In `algorithms` every branch
of the functions has inputs on both sides. The proofs below remove the bounds where they apply.

Runs that show a disagreement between the code and what is said of it:

| Run | What it shows |
|---|---|
| `relay_crash` | A crash while `attempt` rewrites a sidecar loses the deferred recipients; the comment on `queue` says nothing is lost. |
| `store_reuse` | Deleting and creating a mailbox within one second reuses UIDs under one UIDVALIDITY; the comment on `uidValidity` says it must change. |
| `store_dot` | CREATE and DELETE of the mailbox `.` remove the mail root with INBOX; the comment on `DeleteMailbox` says INBOX cannot be deleted. |
| `users_codes` | Two concurrent logins with one recovery code both succeed; APIS.md says once. |

Seen while modelling, without a run of their own: an INBOX nothing was written to
has a new UIDVALIDITY every second (`store.go:142`; no UID has been handed out
then); `Copy` from a mailbox that is deleted and created again under it can store
another message's body; a mailbox name with a rune above 0xFF is listed under
another name (`store.go:99`); eleven delays of the retry ladder add up to about 34.6
hours, where `config.go:23` says roughly two days; `ProfileViewHandler` reads
`user.json` without the lock and answers 500 while it is being rewritten
(`profile.go:225`); one failing `Accept` (in practice: no file descriptor left) ends
`servePOP3` for good and leaves its listener open (`pop3.go:30`), although it "accepts
POP3 connections until the listener is closed"; the account Bob may submit mail under
bob's exact address (`smtp.go:142`, `auth.go:69`), although `Mail` "refuses to send on
behalf of anyone else"; a bounce to a sender who spelt its address with other case goes
to nobody, or to another account, when two IDs differ in case only
(`relay.go:435-444`), although "Senders are always local"; EXPUNGE removes a message
that another session unflags while it waits for the lock (`imap.go:336-344`).

### Deadlock

Deadlock is checked in the relay runs (the ticker always allows a step), in
`smtp` (the process can always be started) and in `store_faults` and
`store_rename`. The other passing runs end because requests, sessions, deliveries
and inputs are bounded.

### Fairness

`FairSpec` of `Relay` assumes weak fairness of the worker's own steps (a goroutine
that can run does; dials and answers end, in success or an error), strong fairness
of the stop case of `select` (Go chooses at random among ready cases, so a case
that is ready again and again is taken), weak fairness of the ticker and of time,
and that the process is started again (`Restart=on-failure`, DEPLOY.md) and exits
after `shutdown`. Nothing is assumed of remote hosts: they may fail for ever,
which is why `Promise` of `Delivery` rests on the bound on attempts. The recipients
of a torn sidecar are lost, see `relay_crash`.

`FairSpec` of `MailServer` assumes that `main`, the serving goroutines, the worker
and the sessions inside DATA run, that the clock reaches the end of the context,
that the queue serves what it can (its promise), and that the process is started
again. Nothing is assumed of clients: they may stay connected for ever, which is
why `ShutdownEnds` rests on the context.

## Proofs

All proofs are checked by TLAPS with its SMT, Zenon and LS4 backends. They assume
only what the modules `ASSUME`: the bounds are natural numbers, `DomainOf` maps
recipients to domains, `None` is no message, domain, thread or mailbox, INBOX is a
mailbox, a mailbox's directory has itself inside and INBOX's no other
(`HoldsAssumption`), every address has a representative up to case, the flags a command sets are flags other than `\Recent`, and listeners
and clients have roles. `RelayDelivery` also assumes that there is a queue id, and
`Algorithms` that mailbox names and recipients are made of code points.
Every inductive invariant was first checked with TLC on the instance of the run.

**Relay** (`RelayProofs`). `NothingLost` is not inductive: a step of `attempt`
depends on what the worker's memory says about the sidecar it read rounds ago.
`Inv` adds: `EnqueueOK` (which files exist at each stage of `enqueue`, and every
recipient accounted for from the write of the sidecar on), `EntriesOK` (a
readable sidecar has its full body, or all its recipients are done), `WorkerOK`
(until it rewrites or removes it the sidecar on disk is what the worker holds;
each recipient of the round is still to visit, being served, deferred or done),
`WakeOK` (an untried message has a wake-up, is listed, is being worked on, or a
listing is to come) and `SilenceOK` (without failing calls nothing is dropped but
what is `folded`). One lemma per action shows that it preserves `Inv`. Theorems: `TypeCorrect`,
`NothingIsLost`, `AttemptsAreBounded`, `NoDropIsSilent`, `NoWakeupIsLost`.

`SpoolExact` and `CopiesAccounted` need to know whom the relay may still send a
message to: `Open(m)`, from the sidecar while nobody works on it and from the
worker's memory during a round. Serving closes a recipient, and only a crash or a
failing call reopens one; so a copy that was not paid for has closed its recipient
(`CopiesOK`), and without faults whoever is settled is closed (`ExactOK`).
Theorems: `SpoolIsExact`, `CopiesAreAccounted`. For the rounds, `RoundsOK` says that
those the sidecar does not tell of are paid for by a crash or a failing call, the one
in progress apart.

**The refinement** (`RelayDeliveryProofs`). `RelayImplementsDelivery` is
`Spec => D!SafeSpec`: the empty spool maps to an initial state of `Delivery`, and
each action to one of its steps or to a stutter. Most steps of the worker are
stutters; the write of a sidecar, a settled domain, a drop, a failing call, a report
without a clear addressee, an exit and a crash are not. The proof uses `SpoolInv` and `AddressedOK` (the worker works
only on recipients the client named). With it, what `MailServer` shows over
`Delivery` holds over the spool.

**MailStore** (`MailStoreProofs`). Between two system calls of `Append` or
`Remove` the disk is in no state the properties describe. `Inv` says of an index
what it says twice: of `index.json`, and of the index that the call holding
`Store.mu` is about to write (`IndexOK`, `OpOK`). What has been unlinked by then is
doomed, which is why a failing call may stop anywhere. `LogOK` keeps every UID of
INBOX ever handed out below the next one, `AckedOK` finds an acknowledged message
in both indexes, `SnapshotOK` says that a snapshot of INBOX taken at any time has
its own body files or none and that no index gives its UIDs away, and `ExactOK` is
the faultless case. What concerns INBOX alone holds until it is `wiped`. Theorems: `Invariance`, `TypeCorrect`, `BodiesAreSafe`,
`AckedIsKept`, `InboxUidsAreForever`, `CopyIsFaithful`, `StoreIsExact`.

**POP3 and IMAP** (`Pop3Proofs`, `ImapProofs`) extend the store's invariant with
`SnapshotOK` of every session's snapshot (nothing wipes INBOX under the sessions,
whose commands do not delete mailboxes): it is kept by every step of the store, so
that sessions need no invariant about each other. `PopInv` adds that marks are UIDs
of the snapshot and, without faults, the books of what was delivered, is coming and
was removed (`BooksOK`). `ImapInv` adds what has become of the messages a client was
shown (`Standing`: still there under their UID, or doomed, and nothing new below
them), what a resolved command names of them (`ResolvedOK`), what EXPUNGE holds from
one lock to the next (`SweptOK`), that `\Deleted` is on logged messages only
(`FlagsOK`), and that a message belongs to one mailbox (`OwnerOK`). Theorems:
`RemovedWereMarked`, `RetrIsFaithful`, `InboxIsExact`; `FetchIsFaithful`,
`ExpungedWereFlagged`, `ExpungeIsEffective`, `CommandsHitWhatWasShown`.

**SMTP and the server** (`MailServerProofs`). A 250 covers all recipients at once,
but they are served one by one. `KeptOK` therefore says of a transaction without an
error that each of its recipients is still to visit, collected for the queue, or
kept. `CopiesOK` counts: copies never exceed what was paid by failures and
shutdowns plus one that is confirmed or about to be (`Unpaid`), where a transaction
that has failed owes its client a repetition and a running shutdown pays for the
sessions it will cut off. `SessionOK` ties sender, account and role together within
a transaction and `QueueOK` carries that over to the queue. `LifeOK` knows which
listeners `Shutdown` has closed and drained. Theorems: `AcksAreKept`,
`NothingForgedIsRelayed`, `CopiesArePaidFor`, `QueueStopsLast`.

**UserStore** (`UserStoreProofs`). `AccountsDistinct` speaks of readable files,
but a file can be unreadable while a registration checks for duplicates. `Inv`
therefore keeps identities in `abs`, which a torn file does not erase
(`FilesOK`, `IdentitiesOK`), and says of each handler in flight that it carries
the identity of its account or, for a registration, holds the lock and a new one
(`HandlersOK`). That `loadUsers` fails on an unreadable file is what makes
`register` sound. For `SerialWhenAlone`, `SerialInv` adds that a user without an
overlap has at most one handler at work, which is about to store what serial
execution gives (`AloneOK`); a new UID has none, since other handlers need an
account and registrations the lock. Theorems: `TypeCorrect`,
`AccountsAreDistinct`, `TotpIsConsistent`, `AloneIsSerial`.

**Algorithms** (`AlgorithmsProofs`). The pure functions, for inputs of any length.
Without recursion and folds: `LookupIsUnambiguous` (a match that is the only one
stays the only one when the directory is reversed) and `TokensRoundTrip` (`cutLast`
takes off exactly the part that `Issue` put last; the clock still runs over the
model's six seconds).

The others are folds or recursive functions, and TLAPS can neither use the library's
induction theorems, whose parameter is an operator, nor take a recursive definition
for granted. `Induction` and `SeqInduction` are therefore about sets: a set of
numbers that has 0 and with every number the next, or of sequences that has the
empty one and with every sequence its extensions, is all of them, and a proof applies
them to the set of those for which its statement holds. `FoldExists` shows that the
recursive function behind `FoldLeft` exists. From it comes, for each loop of the code,
one lemma of the form "after one more element the result is one more round"
(`CutAppend`, `WriteAppend`, ...), and what a loop computes is then an invariant of it:

* `LoginExchangeTakesTwo`: what `loginServer` expects next and what it has been told.
* `SchemaIsGuarded`: a field of the schema is a built-in one or an entry's, and the
  reversed list gives the same function since no name is accepted twice.
* `GroupsArePartitioned`: after each recipient, every group holds its addresses as
  often as they have been given (`Grouped`); and `SplitAddress` finds the last `@` of
  every spelling of an address.
* `ListedNamesOpen`: a name other than the empty one, `.` and `..` is encoded to none
  of them, so that `Join` adds one element; the directory name is the concatenation of the escaped runes,
  `decodeMailboxName` reads it from its end, two hexadecimal digits give back every
  byte, and `CanonicalMailbox` is idempotent.
* `ClientsReadMessages`: the text grows by one character, and so do its normal form
  (`IsNormal`) and its lines, which differ in nothing but their ends (`SameCut`); no
  line has an LF in it, so that a client cuts what is sent just where the loop ended a
  line (`CutLine`); the loop is before, in or past the part that TOP sends (`WriterAt`);
  and stuffing can be undone (`StuffedBack`). `DottedReads` holds for every number of
  lines a client may ask for, the run's property for up to two.

Only model-checked, because TLAPS does not reach it, is liveness under fairness:
`ShutdownReturns`, `ShutdownEnds`, `AckedMailArrives`, and the `Promise` part of
`ImplementsDelivery`.

## Not modelled

* The text of headers: Received, the Date, Message-ID and From that submission
  adds, DKIM signatures, bounces; no decision depends on it.
* The layout of IMAP FETCH responses and the matching of SEARCH (go-imap's
  helpers), LIST and STATUS, and POP3's commands that change no state.
* TLS, the loading of certificates and keys, timeouts of idle connections.
* The HTTP server, routing and the read-only handlers; password hashing.
* `ConfigFromEnv`: one pass over independent values, without state or order.
* File systems that do not tell case apart; power failure (no `fsync`).
* The logger and the scripts, on which nothing the program does depends.

## What is left

Every safety property a run checks is also proved. Left are action properties worth
stating on top of the invariants, such as what one call of the store may change in a
mailbox it does not name, and `TokenRoundTrip` for a clock without bounds.
