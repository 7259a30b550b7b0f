# Foxy Gram Server in TLA+

Foxy Gram Server is a Telegram bot that keeps a group chat free of strangers: a user who is
not verified has to solve a captcha before their messages may stay, and the messages of
verified users are stored in a database. An HTTP server next to it lets an administrator
verify users. Paths below are relative to the repository (`internal/...`, `cmd/main.go`).

This directory holds a model of the program's own logic, what TLC checks of it on small
instances and what TLAPS proves of it for every instance. `PROJECT.json` maps every
definition to the lines it translates.

## 1. The system

| Component | State it keeps | Operations | Where |
|---|---|---|---|
| Verified and banned users | tables `verified`, `banned`; a ristretto cache entry `_verified#<id>` per user | `IsVerifiedUser`, `VerifyUser`, `VerifyUsers`, `BanUser`, `IsBannedUser`, `ClearCache` | `internal/storage/storage.go:140-157, 410-549` |
| Captcha flow | table of captchas; captcha photos in the chat; the cleaner's snapshot | captcha middleware, callback of the keyboard, cleaner goroutine, captcha queries | `internal/telegram/middlewares.go:324-406`, `telegram.go:144-323`, `cmd/main.go:189-211`, `internal/model/captcha.go` |
| Gate | the buffer `bot.Updates`; per update how far its handler has come | `Bot.Start`, the goroutine for stories, `verifyUserMiddleware`, `verifyUserWithLocalDB`, the configured lists | `internal/telegram/telegram.go`, `middlewares.go` |
| Message store | tables of chats, users and messages; cache entries `_chat#<id>`, `_user#<id>` with the hash of the row last saved | `storeMessagesMiddleware`, `UpsertMessage`, `UpsertChats`, `UpsertUsers` | `middlewares.go:408-`, `storage.go:209-343`, `internal/converters` |
| Key-value store | table `kv`; cache entries `_kv#<key>` | `KVSet`, `KVDelete`, `KVGet` | `storage.go:345-410` |
| Process lifecycle | the goroutines of the process, the channel of signals | `run`, `waitExitSignal`, `Server.Shutdown`, `Telegram.Stop` | `cmd/main.go`, `internal/server/server.go` |
| HTTP API | per request what it has written | authorization, panic recovery, `POST /admin/verify`, health check, echo, files | `internal/server` |
| Dialects | the driver the configuration names | what transactions keep off each other | `internal/storage/dialectors.go` |
| Metrics | open or closed | events, `Close` | `internal/metrics` |
| Configuration, logging, HTTP client, tools | read-only or write-only | | `internal/config`, `log`, `httpclient`, `tools` |

How they interact. telebot runs the handler of every update in a goroutine of its own; the
handler passes the gate (one query of the verified users through the cache, one question to
Telegram about the sender's role, a query of the bans), then the captcha middleware, then the
lists of the configuration and the message store, which starts a further goroutine per message.
The callback of the captcha keyboard and the admin API call `VerifyUser` and `VerifyUsers` and so
open the gate. The cleaner goroutine deletes captchas behind the handlers' back. Everything
shares one `Storage`, that is one database and one cache whose own goroutine applies new keys
late and may drop, refuse or evict any of them.

What is hard:

- *handlers of one user at once*: look up, generate, send, save a captcha; read, modify and
  write a whole captcha row without a version;
- *a cache in front of a table* that is written before the transaction (`VerifyUser`, the message
  store, the key-value store), not at all (`VerifyUsers`, `BanUser`), or with an answer read
  earlier (`IsVerifiedUser`, `KVGet`), and whose writes take effect late or never;
- *time*: a captcha expires between its query and its check; the cleaner's snapshot ages; a ban
  runs out;
- *failure*: a query, a write or a call of Telegram fails at any step, a reply is lost, the process
  dies between two steps;
- *two tables in one transaction*: what others see and lock between its statements depends on the
  database the configuration names;
- *the end of the process*: two goroutines wait for one signal, time limits race the work, requests
  and handlers are still running.

What makes each part correct:

- verified users: a cached "yes" is justified (`CacheInv`) or goes away (`FalseYesIsForgotten`);
  verified and banned exclude each other (`Exclusive`), and each method changes both tables at once
  or not at all (`ImplementsTables`, `TxInv`);
- captchas: only the right digits under one's own captcha verify (`VerifiedBySolving`); a stored
  captcha can always be solved (`InputNeverComplete`, `LiveCaptchaIsShown`,
  `PhotoShowsStoredCode`); one captcha at a time (`OneLiveCaptcha`,
  `RowsAreDistinct`); nothing is left over (`SolvedCaptchaIsGone`, `ExpiredCaptchasAreRemoved`);
- gate: nothing of a user nobody spoke for is stored (`StoredIsTrusted`) or stays in the chat once its
  update was handled (`HandledIsSilenced`); a banned user gets no captcha (`AskedIsNotBanned`). Behind the cache: nobody
  gets in whom nobody was right to verify (`StoredIsEntitled`), no error silences a verified user
  (`FirmIsHeard`), every message is decided (`MessagesAreDecided`);
- message store: what was reported stored gives way only to what is reported stored
  (`StoredIsKept`), a commit touches no message but its own (`CommitsItsOwn`), and a stored message
  refers to stored rows (`ReferencesAreStored`);
- key-value store: it is a map whose gets may be late but make nothing up (`ImplementsMap`), and no
  value of a failed write stays in the cache (`CachedWasStored`);
- HTTP API: an answer says what happened to the tables (`AnswerTellsOutcome`), nobody is verified
  without the secret (`OnlyAuthorisedVerify`), and a request that stored something is answered before
  a good exit (`StoredIsAnswered`);
- lifecycle: a good exit has finished its work (`GracefulExit`); once woken, the process ends
  (`WokenStops`); a server that cannot listen ends it (`ListenFailureStops`).

## 2. The modules

The modules build on each other as follows (an arrow reads "uses"):

    Admission -> VerifiedStore -> Ristretto <- KVStore => KVMap
                 VerifiedStore => Tables <= Transactions
    Service -> Lifecycle,  Service -> AdminAPI -> Tables
    CaptchaFlow,  Gate,  MessageStore -> Ristretto

(`=>` reads "implements"). `Tables`, `VerifiedStore` and `AdminAPI` so agree on what a call does to
the tables: `AdminAPI` takes the abstract `Tables!Verify` for `VerifyUsers`, and `Transactions` shows
with which databases the statements of the code amount to it.

`Tables` - state: the tables `verified` and `banned` (`none`, `active`, `expired`). It is the abstract
specification of what `VerifyUser`, `VerifyUsers`, `BanUser` and `IsBannedUser` promise.

`Ristretto` is the cache, one *cell* per key: the value `Get` returns and the operations the
cache's goroutine has yet to apply. It has only operators, so that three modules share it.
`SetOutcomes` says what `cacheSet` may leave (replaced at once when the key is held; otherwise
buffered or dropped), `Deleted` what `cacheDel` leaves (gone at once, and a removal queued behind
what is buffered), `DrainOutcomes` what the cache's goroutine does with the oldest buffered
operation (apply, or refuse), `Evicted` eviction. It is modelled from the library's documented
contract and from the calls `storage.go` makes.

`VerifiedStore` - state: `cache`, the two tables, per goroutine the statement it executes next
(`call`), and as a history variable the users `BanUser` was called for since the start (`revoked`).
`VerifyUser` is three actions, since the cache is set before the transaction and a failed transaction
is undone after it: `VerifyUser`, then `CommitVerifyUser` or `FailVerifyUser` followed by
`UndoVerifyUser`. `IsVerifiedUser` that misses the cache is `IsVerifiedUser`, `ReadVerified`,
`FillVerified`; a hit changes nothing. `IsBannedUser` writes only when it finds a ban that has run
out (`DropBan`). A transaction is one step. `Restart` keeps the tables only. `Calls` selects the
methods that are called.

`Transactions` - state: the driver, the committed tables, and per goroutine its transaction: the
statement that comes next, the rows it has deleted and inserted. `Begin`, `Delete`, `Insert` (once
per batch), `Commit`; `Rollback` and `Crash` at any point. `RowLocks` are the rows a transaction has
written. `Alone` is SQLite's one writer. `GapLocks` are InnoDB's, which at its default isolation
level locks the place in the index where a `DELETE` found nothing. PostgreSQL and TiDB have neither.

`Admission` - `VerifiedStore` with one goroutine per message and per completing press, and the
middleware chain on top: `handler` says how far each has come, `asking`, `promoting` and `dropping`
being inside a call of `Storage`. The history variables `entitled` (whom an administrator's role, a
solved captcha or the API was a reason to verify) and `firm` (verified when the process started) are
what its properties speak of. The API, time, the cache's goroutine and restarts go on next to it.

`AdminAPI` - state: per request where it is (authorization, handler, transaction, on its way out),
what was written to the connection, what the client saw, whether it panicked and whether it stored
something; and the two tables. The answers of `response.go` are operators (`Ok`, `Failure`,
`SetError`). `Leave` is the way out through the middlewares: chi's `Timeout` adds 504 if it is late,
`Recovered` adds 500 after a panic, net/http adds 200 if nothing was written, and the answer may not
arrive at all.

`Service` composes `Lifecycle` and `AdminAPI`: a request arrives when the listener accepts it, its
steps need a running process, and its answer is what `Shutdown` waits for.

`CaptchaFlow` - state: the rows of the table, the photos in the chat, the verified users, per
handler what it waits for next and its copy of a row, and the cleaner's snapshot. Each action is
one wait for the database or for Telegram and the code that follows it. The middleware is
`MessageArrives`, `LookupForMessage`, `SendCaptcha`, `SaveCaptcha`; the callback is `Press`,
`LookupForPress`, `CheckExpired`/`CheckMessage`/`ApplyButton`, `EditPhoto` (after a refresh),
`ValidateInput`, and then `StorePress`, or `VerifySolver`, `CloseMessage`, `CloseRow`, or for an
expired captcha `DropRow`, `DropMessage`; the cleaner is `CleanerTick`, `CleanerDeleteRow`,
`CleanerDeleteMessage`. A digit is *right* or *wrong* at its place. Every code has the same time
to live, so the n-th code generated gets the n-th deadline, and time is the number of deadlines
passed. `Faults` selects failing queries (`read`), writes, generation, calls of Telegram that do
nothing (`telegram`), calls that take effect but return an error (`reply`) and a `crash`. A message of
any user may reach the middleware, also of one who is verified: the gate before it asks a cache that
may not know it, and the API or a role in the chat verifies users who have a captcha. Two history
variables: `solved`, the captchas solved so far, and `strays`, the photos deleted by a press under
them because *another* message's captcha had expired (`telegram.go:158`).

`Gate` - state: the buffer, how far each update has come and whether an error was logged on its
way, the messages in the chat, and sets for the verified, banned, kicked and asked users. It sees
the other two components as sets: their cached and concurrent insides are `Admission` and
`CaptchaFlow`. The cache in front of `verified` may be ahead of the table (`VerifyUser` sets it before
a transaction that may fail) and behind it (`VerifyUsers` does not tell it). `Verify` allows for both:
it may answer "yes" of everybody somebody *began* to verify (`vouched`) and "no" of everybody who was
not verified from the start (`firm`). `IgnoreVia` is the option of that name (`telegram.go:49`); an
update of the kind `via` is then given up before the chain looks at it.
`StartTakes` and `StoryTakes` are the two readers of the buffer; `Verify`, `AskRole`,
`VerifyAdmin`, `DeleteMessage`, `CheckBan`, `Kick`, `AskToSolve`, `Store` the chain. `SolveCaptcha` and
`VerifyUsers` are what others do to the tables; a captcha may be solved whose `VerifyUser` fails.

`MessageStore` - state: Telegram's chats with their messages and names, the cache, the tables as
committed (`db`) and as the writing transaction sees them (`tx`), the writer, the goroutines and
the messages reported stored. `Begin`, `UpsertChats`, `UpsertUsers`, `SaveMessage`, `Commit` are
the statements of `UpsertMessage`; each may end in `Rollback`, which undoes the tables and not the
cache. The hash is without collisions, except that of a row with a seen time all that is known is
that it is the hash of no other row.

`KVMap` is the abstract map. Nothing waits for anything there: `Try` announces a value, `Set` puts an
announced value in the map, `Find` answers an announced value and `FindNone` that there is none, which
only a key without a value may be answered. `KVStore` is `KVSet`, `KVDelete` and `KVGet` over cache and
table, by any number of goroutines and with a cache that is late, drops, refuses and evicts; it
implements the map (`ImplementsMap`: `map <- kv`, the answer of the last get and `tried` are the same
variables). `tried` and `held`, the values `KVSet` was called with and those the row has had, are
history variables.

`Lifecycle` - the statement `run` executes next, the channel of signals (capacity one), the two
goroutines of `waitExitSignal`, the HTTP server with its requests, the poller and the handlers. A
signal before `signal.Notify` kills the process, one after `close(sigCh)` makes the runtime's
sender panic, and so does an event a handler logs to the metrics after they are closed.

`MC*.tla` give the constants values. Operators named "Mutant" in a comment are plausible bugs of
the operator that follows them; each property is known to fail for one of them.

## 3. What TLC checks

| Run | Configuration | Instance | Shows |
|---|---|---|---|
| `verified_cache` | `MCVerifiedStore_cache` | 1 user, 3 goroutines, all methods, buffer 2, fair | `CacheInv`, `Exclusive`, `FalseYesIsForgotten` |
| `tables` | `Transactions_tables` | 2 users, 2 goroutines, all methods, batches of 1, SQLite and MySQL | `TxInv`, `ImplementsTables` |
| `captcha_concurrent` | `MCCaptchaFlow_concurrent` | 2 users, 2 handlers, 1 digit, 2 codes, crashes | `FlowInv`, `RowsAreDistinct`, `LiveCaptchaIsShown`, `VerifiedBySolving` |
| `captcha_sequential` | `MCCaptchaFlow_sequential` | 1 user, 1 handler and the cleaner, 2 digits, 3 codes, Telegram fails, fair | `InputNeverComplete`, `OneLiveCaptcha`, `PhotoShowsStoredCode`, `LiveCaptchaIsShown`, `SolvedCaptchaIsGone`, `ExpiredCaptchasAreRemoved` |
| `gate_faults` | `MCGate_faults` | 2 updates of an administrator, a user or a blacklisted user, with `IgnoreVia`, buffer 1, every fault | `StoredIsTrusted`, `AskedIsNotBanned`, `HandledIsSilenced` |
| `admission` | `MCAdmission_restarts` | 2 users (one an administrator), 2 messages, 1 press, the API, buffer 1, fair | `StoredIsEntitled`, `FirmIsHeard`, `MessagesAreDecided` |
| `message_kept` | `MCMessageStore_kept` | 2 chats: one of 2 messages with 1 edit each, one of 1 message, renamed once; 2 goroutines, failing statements, crashes | `StoredIsKept`, `ReferencesAreStored`, `CommitsItsOwn` |
| `kv_map` | `KVStore_map` | 1 key, 2 values, 3 goroutines, buffer 3, failing statements | `CachedWasStored`, `ImplementsMap` |
| `service` | `MCService_service` | 2 requests (one of six kinds, one that verifies), 2 signals, 1 update, every fault, fair | `AnswerTellsOutcome`, `OnlyAuthorisedVerify`, `StoredIsAnswered`, `GracefulExit`, `WokenStops`, `ListenFailureStops` |

One run of each module also checks its type invariant.

Bounds and why they are enough. Cells of different users or keys do not interact, so one user and
three goroutines show every order of a query, a failing and a succeeding `VerifyUser`; a buffer of
two holds a "true" and the removal behind it, or two values. Two transactions are what it takes to
cross each other, two users and batches of one what it takes to die between two batches. Two handlers
are what it takes for one to act between another's read and write; `MaxGenerated` bounds codes, hence
captchas and deadlines: with three there is a captcha, its refreshed code and a further captcha. Two
users are needed to press under each other's photo. In `captcha_concurrent` there is no `write` fault,
with which the run takes too long (3.8 million states, no error): to the others a handler whose write
is lost is one that is cut off before it, as by a crash, or takes no further step (only after a lost
`VerifyUser` does a handler go on), and the theorems have every fault. In `admission` two messages of one user race each
other and the press that verifies the user, and a full buffer of one blocks the removal after a
failed write. In `service` one request meets every state of the shutdown while another is in its
transaction; two signals wake both goroutines, the second may also come too early, be lost or hit
the closed channel. In `kv_map` the third goroutine deletes or reads while two set, and a buffer of
three holds two values and a removal. In `message_kept` the two chats share a message number, so each
can take the other's place. `MaxSent`, `MaxEdits`, `Brief`, `PendingLimit`, `BufferLimit`, `BatchSize`, `MaxUpdates`
and `MaxSignals` are the other bounds; all are guards named in the modules. Symmetry is used only in
runs without liveness properties.

Fairness, and why the code justifies it. Weak fairness of the steps of a goroutine: the Go
scheduler runs every goroutine that can go on, and calls of the database and of Telegram return or
fail. `UndoVerifyUser` is strongly fair: `cacheDel` blocks while the cache's buffer is full, and a
sender blocked on a Go channel is served before later ones; in `Admission` the same holds of the
handler inside that call (`Undoing`), and the cache's goroutine keeps draining. The cleaner's timer
fires and time passes. No fairness is assumed of users, of signals, of restarts, of requests being
finished, or of the cache evicting anything.

Deadlock is not checked where the system really may stop: `Lifecycle` and `Service` (the process
ends), `Gate` and `MessageStore` (all messages have been handled).

### Disagreements between the code and what it says of itself

Three runs expect a violation; `PROJECT.json` lists them as findings:

| Configuration | Property | What TLC shows |
|---|---|---|
| `MCGate_stolen` | `StrangersAreSilenced` | the goroutine for stories (`telegram.go:130`) takes an update that is no story and drops it |
| `Lifecycle_onesignal` | `SignalStops` | one signal wakes one of the two waiting goroutines (`main.go:96, 111`), and the process goes on |
| `MCAdmission_heard` | `VerifiedIsHeard` | `VerifyUsers` (`storage.go:497`) leaves a cached "no": the messages of a user the API has verified are still deleted |

Further configurations document counterexamples of the same kind. They are not part of the list of
runs; `tlc -config X_y.cfg X` shows each one:

| Configuration | Property | What TLC shows |
|---|---|---|
| `MCVerifiedStore_race` | `VerifiedIsRecognised` | `IsVerifiedUser` caches a "no" it read before `VerifyUser` committed |
| `MCVerifiedStore_ban` | `BannedIsNotRecognised` | `BanUser` leaves a cached "yes" (nothing calls `BanUser` yet) |
| `MCVerifiedStore_freshban` | `ActiveBanStands` | `IsBannedUser` deletes a ban given after its query |
| `Transactions_rows` | `Exclusive` | with PostgreSQL `VerifyUser` and `BanUser` of one user interleave and leave the user in both tables |
| `MCCaptchaFlow_twocaptchas` | `OneLiveCaptcha` | two messages of one user at once give two captchas (`middlewares.go:343-388`), though "User already has a captcha, skip the current message" |
| `MCCaptchaFlow_stalephoto` | `PhotoShowsStoredCode` | a press stored after a refresh brings the old code back under the new photo |
| `MCCaptchaFlow_revived` | `CleanerSparesLive` | the cleaner deletes a captcha refreshed after its snapshot |
| `MCCaptchaFlow_others` | `DropsItsOwn` | a user whose captcha expires under way, pressing under another user's photo, deletes that photo (`telegram.go:158`, whose log line calls it the "captcha message") |
| `MCCaptchaFlow_told` | `ToldIsVerified` | "You have been verified!" after `VerifyUser` failed |
| `MCCaptchaFlow_resets` | `PressResetsExpiration` | "Reset the expiration time" (`telegram.go:295`) assigns a field nothing reads |
| `MCGate_latekick` | `KickedIsBanned` | a user verified between the query of the ban and the call of Telegram is kicked |
| `MCMessageStore_rollback` | `CacheIsStored` | the cache keeps hashes of rows that were rolled back |
| `MCMessageStore_edits` | `LastEditIsStored` | the goroutine of an edit overtakes the one of its message |
| `MCMessageStore_seen` | `SeenStaysSeen` | a message naming its sender twice clears the sender's `last_seen` |
| `MCMessageStore_chats` | `StoredStaysOwn` | messages of two chats share their primary key, though it is to be a "Unique message identifier" (`message.go:18`): the later one takes the place of the earlier |
| `KVStore_race` | `CachedIsStored` | a value read early, or applied late, outlives a later change of the row |
| `MCService_upgrade` | `PanicIsAnError` | a panic in the handler of a request with `Connection: Upgrade` is answered with 200 (`server.go:258`); a health check that panics in its deferred logging (`server.go:129`) has answered before |
| `Lifecycle_handlers` | `HandlersFinish` | the process exits while handlers of updates run |
| `Lifecycle_lateevent` | `LastStepsSucceed` | a handler logs an event after the metrics were closed (`main.go:133`), and the process ends in a panic |

## 4. What TLAPS proves

For any users, goroutines, messages, requests, capacities, faults and bounds. The only assumptions
are the `ASSUME`s of the modules, which TLC evaluates in every run, and the conditions named below,
which are hypotheses of the theorems that need them: `Sound` and the absence of some faults are
conditions on the constants, `Serial` one on the behaviour. Every safety invariant, every refinement
and every action property the runs check is stated by one of these theorems.

`RistrettoProofs` has the lemmas on cells that the proofs of three modules share: the outcome of every
operation of the cache is a cell, and which values it holds.

`AdmissionProofs`, about `VerifiedStore`

- `TypeCorrect` (`TypeOK`); `NeverBoth` (`Exclusive`): inductive together with the types, as each of
  the three transactions keeps it by itself.
- `StoreImplementsTables`: cache, failed writes and restarts are invisible in the tables.
- `CacheIsBacked` (`CacheInv`). Its first conjunct, `YesIsBacked`, is not inductive: a
  buffered "yes" becomes visible when the cache applies it, and a goroutine may be about to cache a
  "yes" it has read. `CacheInv` adds both: a "yes" at place *i* of the buffer is backed by the table,
  by a running `VerifyUser`, by a removal queued *behind place i*, or is one `BanUser` left there, and
  an answer in hand is still true of the table. The proof goes cell by cell: one lemma per operation
  of the cache, then one step per action.

`TransactionsProofs`, under `Sound` (the driver is neither PostgreSQL nor TiDB, or `BanUser` is never called, as is
so today)

- `TypeCorrect`, without `Sound`; `TransactionsAreWhole` (`TxInv`); `TransactionsImplementTables`
  (`ImplementsTables`); `NeverBoth` (`Exclusive`). The commit of a transaction is whole in the abstract
  sense only if its first `DELETE` still covers all there is to delete. `TxInv` says so
  (`NothingSlippedIn`) and adds why: no two transactions in opposite directions are both past their
  first statement for one user (`NoCrossing`), since the gap lock of the one keeps the other from
  inserting, and a row has one writer (`LocksAreExclusive`). Commit then maps to `Tables!Verify` or
  `Tables!Ban`, `DropBan` to `Forget`, everything else to a stutter. `NeverBoth` follows from the
  refinement, as `Exclusive` is inductive in `Tables`.

`CaptchaFlowProofs`

- `TypeCorrect` (`TypeOK`); `FlowIsSound` (`FlowInv`); `NeverComplete` (`InputNeverComplete`);
  `OnlyBySolving` (`VerifiedBySolving`), with any number of handlers, faults and restarts. `FlowInv`
  adds to `InputNeverComplete` what is true of the copy of a row in each handler's hands at each
  statement (`Sound`): whose it is, under which message it was pressed and how long its input is. The
  proof groups the actions and treats the three things a step can disturb (the table, the counters
  and the chat, the handlers) by lemmas of their own.
- `RowsStayDistinct` (`RowsAreDistinct`). Not inductive: a handler may put back a copy of a row that
  was deleted. `KeysInv` adds that an id belongs to one message for good, in the table and in the
  copies, and that a message just sent is nobody else's. Only two steps make new keys
  (`KeysAfterLookup`, `KeysAfterSave`); all others are instances of one lemma (`KeysKept`).
- `LiveIsShown` (`LiveCaptchaIsShown`), with any handlers, users, faults and restarts, wherever users
  press. A live captcha can lose its photo in three ways: it was solved and its row not yet deleted,
  somebody's expired captcha took the photo with it (`strays`, the case of `MCCaptchaFlow_others`), or
  it was refreshed after the cleaner's snapshot. The theorem says that there is no fourth. It rests on
  `MadeInv`, which compares numbers drawn at different times: a message comes first, then code and
  deadline together, so whatever the cleaner has in its snapshot was sent before a deadline that has
  passed, and a captcha with that message that was never refreshed has expired for good. `ShownInv`
  adds the rows in hand, and why a handler is where it is.
- The properties of updates handled in order. telebot starts a goroutine per update, and the
  documented configurations show that `OneLiveCaptcha` and `PhotoShowsStoredCode` fail when two updates
  of one user are handled at once. The theorems say that nothing else breaks them: their hypothesis
  `[]Serial` is that the updates *of one user* never overlap, while any number of other users' updates,
  the cleaner and the deadlines interleave with them. The code does not enforce it.
  - `OneLive` (`OneLiveCaptcha`), with failed writes and restarts; without failed queries, as one that
    fails lets the middleware send a second captcha. `LiveInv`: while a captcha is being made for a
    user there is none to solve, and while a press is handled the only one is the one in hand.
  - `SolvedIsGone` (`SolvedCaptchaIsGone`), without restarts and failed writes. `SolvedInv` follows the
    solver from `ValidateInput` to the deletion: until then the handler that solved it is the only one
    that works for its user, and no other has a copy of the row to put back. It speaks of captchas, not
    of users: a user the API verifies keeps a captcha until it expires.
  - `PhotoShowsCode` (`PhotoShowsStoredCode`), through any number of refreshes, without restarts, failed
    writes and lost answers of Telegram. `PhotoInv`: a row and its photo disagree only while a handler
    is between the change of the one and of the other, and `KeysInv` tells the photos of two rows apart.
- `ToldAreVerified` (`ToldIsVerified`): who is told "You have been verified!" is, unless a write fails;
  so the failed `VerifyUser` of `MCCaptchaFlow_told` is the only way to break it.

  The five invariants were checked with TLC first, with two users and two handlers. The proofs share
  four lemmas that say what a step is made of (`LookupStep`, `FindStep`, `WorkStep`, `ArrivalStep`),
  and each invariant has one that reduces a step to the handler that takes it (`LiveOfHandler`,
  `SolvedOfHandler`, `PhotoOfHandler`, `ShownOfHandler`).

`MessageStoreProofs`

- `MessageTypeCorrect` (`TypeOK`); `MessagesAreSound` (`MessageInv`); `ReferencesStay`
  (`ReferencesAreStored`); `StoredStay` (`StoredIsKept`), for any chats. With more than one the id of a
  message does not tell its chat, so a stored message may be replaced (`MCMessageStore_chats`); what is
  promised is that only one that is reported stored itself replaces it. Neither promise is
  inductive: a transaction is judged by what it commits, so `MessageInv` has it in the tables that the
  transaction sees (`Complete(tx)`, `Committing`), and says that these lose no message the committed
  ones have (`Kept`), which every rollback and crash restores.
- `MessagesStay` and `CommitsTouchTheirOwn` (`CommitsItsOwn`): a commit stores its own message, and the
  one it replies to if that was missing, and changes no other, whatever was committed or rolled back
  since its goroutine started. `Isolation` gives it: from its first statement a goroutine has the lock,
  and sees the messages as they were committed last.

`GateProofs`

- `GateTypeCorrect` (`TypeOK`); `OnlyTrustedIsStored` (`StoredIsTrusted`); `NobodyBannedIsAsked`
  (`AskedIsNotBanned`); `StrangersAreHandled` (`HandledIsSilenced`). `GateInv` says of every update what
  its place in the chain tells of its sender (`Fits`): only administrators are promoted, only those
  somebody spoke for get to the store, nobody banned gets to the captcha, and past the deletion the
  message of anybody else is gone or the failure logged. They hold whatever the cache answers within
  what `Verify` allows; that the cache answers no more is `NobodySlipsIn` and `NobodyFirmIsSilenced`.

`AdmissionProofs`, about `Admission`

- `AdmissionTypeCorrect` (`AdmissionTypeOK`); `NobodySlipsIn` (`StoredIsEntitled`);
  `NobodyFirmIsSilenced` (`FirmIsHeard`). `AdmissionInv` follows both promises through the cache: every
  "yes" in a cell, at any place of its buffer or in a handler's hands is of an entitled user, and no
  "no" anywhere is of a firm one. `BanUser` has no place in the chain, so the tables only grow.
- `AdmissionUsesStore`: every behaviour of `Admission` is one of `VerifiedStore`, whose theorems hold
  of it too.

`KVStoreProofs`

- `KVTypeCorrect`; `CacheHoldsStored` (`CachedWasStored`); `StoreIsAMap` (`ImplementsMap`), for any number
  of goroutines and any buffer. `KVInv` says of every value in a cell, at any place of its buffer or in
  a goroutine's hands that somebody has set it, and of every value that never reached the table that
  its `KVSet` is still running or its removal queued behind it.

`ServiceProofs`

- `ExitIsGraceful` and `ServiceExitIsGraceful` (`GracefulExit`), from `ExitInv`: how far `run` has come
  implies how far the two goroutines have. `ServiceImplementsLifecycle`: every behaviour of `Service` is
  one of `Lifecycle`, so what is proved of the one holds of the other.
- `ServiceTypeCorrect` (`ServiceTypeOK`): with it, that the server counts exactly the requests under
  way. `AnswersAreTrue` (`AnswerTellsOutcome`), from `AnswerInv`: what a request has written is true of
  the tables, a request to verify that panics has stored nothing, and only `VerifyUsers` changes the
  tables, which it never takes anything from. `OnlyTheSecretVerifies` (`OnlyAuthorisedVerify`), from
  the same invariant: past `middlewareAuthorization` a request to an `/admin` route had the secret.
  `StoredIsAnsweredAlways` (`StoredIsAnswered`) combines
  the three.

Only model-checked: liveness under fairness (`FalseYesIsForgotten`, `ExpiredCaptchasAreRemoved`,
`MessagesAreDecided`, `WokenStops`, `ListenFailureStops`), which is out of the prover's reach.

## 5. Assumptions and what is left out

- Databases. SQLite lets one transaction write at a time. InnoDB's `DELETE` locks gaps at
  `REPEATABLE READ`, its default, which the code does not change; a server set to `READ COMMITTED`
  behaves like PostgreSQL here (this is the mutant `InsertIntoGaps`). A transaction is one step in
  `VerifiedStore`, `Admission` and `AdminAPI`, which `Transactions` justifies for SQLite and MySQL. A
  deadlock the database resolves is a `Rollback`.
- Libraries. net/http sends 200 if a handler has written nothing and waits in `Shutdown` for requests
  it has accepted; chi's `Timeout` only cancels a context, which no handler looks at, and writes 504
  on the way out; a signal sent to a closed channel and an event sent to a closed InfluxDB writer
  panic. These are marked external in `PROJECT.json`.
- `Prompt = TRUE` (the cache's goroutine is faster than callers) is assumed in some of the documented
  counterexamples of `MessageStore` only, where it makes the trace shorter.
- `PhotoShowsStoredCode`, `OneLiveCaptcha` and their neighbours are properties of updates handled one
  after the other; the documented configurations show that they fail with two handlers. Without a
  `write` fault: a solved captcha whose deletion fails does stay until the cleaner comes.
- `LiveCaptchaIsShown` speaks of captchas that were never refreshed; `MCCaptchaFlow_revived` shows why.
- There is one chat in `CaptchaFlow`, `Gate` and `Admission`. Captions, pictures and log lines are left
  out, except that `Gate` records whether an error was logged.
- `FirmIsHeard` speaks of users verified when the process started: one verified later can be silenced
  by a stale "no" (`MCAdmission_heard`).
- `HandledIsSilenced` speaks of updates that were handled. One the wrong reader drops is not
  (`MCGate_stolen`), and one that `IgnoreVia` gives up stays in the chat, as configured.
- The tidb driver has MySQL's dialect but no gap locks, so it counts with PostgreSQL (`Sound`).
- A sender that is nil (`converters.go:30`) and albums are not modelled.

Not modelled: configuration, logging, the HTTP client and the tools; they keep no state a decision
depends on. Of the metrics only their end is modelled (`CloseMetrics`, `LateEvent`), as nothing reads
an event; of the users of storage only `UpsertUser`, as nothing uses the answers of the others; of the
dialects only the locking, as the rest is connection settings.

## 6. Plan

Done, in this order: `Ristretto` and `VerifiedStore` with their proofs, `CaptchaFlow` with its
proofs, `Gate`, `MessageStore`, `KVMap` and `KVStore`, `Lifecycle`; then `Tables` and `Transactions`,
`AdminAPI` and `Service`, `Admission`, and the proofs of these, of `Gate`, of `KVStore` and of
`RowsAreDistinct`; then the proofs of `MessageStore`, of `OnlyAuthorisedVerify`, and of what
`CaptchaFlow` promises a user whose updates are handled in order.

Left, the most important first:

1. An abstract specification of the captcha flow (a user is asked, then verified or not) that
   `CaptchaFlow` implements, and the liveness of photos without a captcha.
2. `Admission` with bans that are given while it runs, once something calls `BanUser`.
