# A formal model of air_widget

TLA+ modules that model the core of the `air_widget` service (Go, `src/`), the
TLC configurations that check them on small instances, and proofs checked by
TLAPS. The modules follow the source: each definition names the code it stands
for in the `map` of `PROJECT.json`, and `PROJECT.json` also lists the runs, the
mutants (a plausible bug for every property of a passing run), the hazards and
the findings.

## The system

One process serves the web widgets of many users (owners). For each user it
keeps at most one *instance* (`*Bot`) in the registry `User.bot`. Visitors
(*respondents*) read answers through Server-Sent Events and send messages with
POST requests. Everything runs in goroutines: one per HTTP request, one per
preload, one per worker of the shutdown, plus timers.

| Component | Source | State | Operations | Hard part |
|---|---|---|---|---|
| Bot registry | `internal/widget/widget.go`, `web-handlers.go` | `User.bot` (a `sync.Map`), each instance's context and `shutdownCh`, `channels.Widget_enabled` | `StartBots`, `createBot`, `RestartBot`, `StopBot`, `StopUserBot`, handlers of enable, disable, restart | no lock per user: requests for one user interleave call by call |
| SSE streams | `web-handlers.go` 544-813, `widget.go` | `activeConnections` and its mutex, `endDialogCh`, the gauge `SSEConnections` | `handleEvents`, its deferred function, the grace timer | many connections, three error exits, timers that outlive their handler, restarts under open streams |
| First interaction and messages | `widget.go` 532-550 and 626-717, `cache.go` | `knownUsers`, the keys in Redis, CRM dialogs | `handleData`, `handleMessage`, `preloadFirstInteraction`, `LoadUser`, `Set` | three calls between the decision and the announcement; crashes, expiry, a preload in the background |
| Widget configuration | `helpers.go`, `widget.go` 140-148, `web-handlers.go` | the slice of allowed origins, the issued code, `maxConnections` | `ParseWidgetConfig`, `NormalizeOrigin`, `originAllowed`, `maxConnect`, `handleWidgetCode` | a slice that two functions share; a `uint8`; a row parsed twice at two times |
| Shutdown | `internal/app/app.go`, `internal/db/db.go`, `widget.go` 223-253, `cmd/main.go` | `DoneCh`, the bus of producers, the exit channel | `Run`, `StopBots`, `HandlerClose`, `CloseDoneCh` | an emergency timer beside the orderly path; bots that appear while others are stopped |
| User channels and StartCh | `widget.go` 572-623, `web-handlers.go` 366-423, 458-507 and 581-736, `app.go` 193-215 | `StartCh` (capacity 1), a respondent's `Ch` with `RxCh` and `TxCh`, the sessions behind it | `initializeUserChannels` and its two callers, `Starter`, `handleData`, the loop of `handleEvents`, `CleanDialogData` | a failure after the model has created the channel; several tabs and several sessions on one channel; a channel cleaned under its readers |
| Operator mode | `operator.go`, `metrics.go` | a flag per dialog, a gauge, the operator's stream | `SetOperatorMode`, `DisableOperatorMode` | overlapping calls; six steps with early returns |
| Tokens and authorization | `internal/exam/exam.go`, `web-handlers.go` | none of its own (signed tokens that clients keep) | code, exam, validate, refresh, ticket, and the checks of data, dialog, events, username | renewal by two routes, expiry, four sources of truth read one after the other |
| HTTP, repository, metrics, entities | `internal/delivery`, `internal/repository`, `internal/metrics`, `internal/domain` | none with a protocol | routing, SQL, registration | none |
| air-common (external) | `go.mod` | model router, start point, CRM, endpoint | - | modelled only where the code meets it |

How they meet: `createBot` stores the instance that `handleEvents`,
`handleData` and `handleReadDialog` look up. `StopUserBot` closes
`shutdownCh`, which the loop of `handleEvents` selects on, and waits for
`activeConnections` to drop. A restart cancels the context of the old instance
and leaves its streams where they are. The context of an instance is also the
context of its Redis calls. The limit of connections comes from the
configuration. A signal ends in `StopBots`, which stops every stored bot.

What makes each component correct:

- registry: no `shutdownCh` is closed twice; what is stored is alive; what was
  replaced is stopped; every stop returns;
- streams: the counter is exact and bounded, the gauge follows it; an instance
  that is shut drains; the dialog of the last respondent to leave ends, of one
  who is back does not;
- first interaction: a contact is recorded before it is announced and found
  after a restart; the CRM gets the message that opens a dialog;
- configuration: a code admits the origins asked for, the limit is two
  connections for each;
- shutdown: the process exits; the database closes after its users; no bot
  stored at the signal is forgotten, whatever handlers do to it meanwhile;
- channels: an accepted start becomes a session; a channel without one has an
  explanation; an answer goes out once, to the respondent who asked, or is lost
  for a known reason;
- operator mode: the gauge is the number of dialogs taken over, and the model
  resumes after the flag of that take-over was cleared;
- tokens: whatever was renewed belongs to one session of a code that admits it,
  and every grant goes back to an exam that checked row, instance and
  subscription.

## Modules

| Module | Models | EXTENDS / INSTANCE |
|---|---|---|
| `BotInstances` | abstract life of instances: none, built, serving, withdrawn or replaced, shut | |
| `BotRegistry` | the registry and the requests that change it, one call per action | refines `BotInstances` (`Life`) |
| `StreamSlots` | abstract promise of `handleEvents`: a slot taken once, given back once, a dialog ended only when nobody is connected | |
| `SSEStream` | `handleEvents` from the lookup to the end of its timer | INSTANCE `BotInstances` (`Life`), refines `StreamSlots` (`Slots`) |
| `FirstContact` | `handleMessage`, the cache, the preload | |
| `WidgetConfig` | the parser of the configuration and its callers | |
| `Shutdown` | the end of the process | |
| `Conversation` | abstract promise to a respondent: asked, pending, answered or lost | |
| `UserChannels` | starts, channels, sessions, streams: the way of a message | refines `Conversation` (`Talk`) |
| `OperatorMode` | the flags of dialogs, their gauge, the disable | |
| `WidgetAuth` | codes, tokens and the checks of the routes, over a clock | |
| `MC...` | symmetry sets and constants for TLC | the module named |
| `...Proofs` (one for each component) | theorems | the module named, `TLAPS` |

`BotRegistry` and `SSEStream` compose through `BotInstances`: the stream
handlers rely on nothing about the registry but the abstract life
(`SSEStream!Lifecycle` is a step of `BotInstances`), and the registry is shown,
by TLC and by proof, to implement it. The three modules about a connection
divide `handleEvents` between them: `WidgetAuth` has its checks before
admission, `SSEStream` the slot, the loop's ends and the timer, `UserChannels`
the channel and what is read from it.

### How the modules correspond to the code

**BotRegistry.** A request is a goroutine: `pc` is its next call, `subject` the
user, `held` the `*Bot` in its local variable. `createBot` is
`read, subscribe, load, cancel, build, store` (the SQL query, the configuration
and the subscription, `u.bot.Load`, `existingBot.cancel()`, `initializeBot`,
`u.bot.Store`); `StopUserBot` is `take, close, wait, kill` (`LoadAndDelete`,
`close(shutdownCh)`, the loop, `cancel()`). Every early return is
`SubscriptionRefused` or `CreateFails`. At `wait` each pass of the loop is one of
`Drained` (the counter is 0), `TickerFires`, `TimeoutFires`, `ContextDone`:
`Close` starts the timer, `left` counts the ticks it has, and no pass starts it
again.

**SSEStream.** A connection `c` is a goroutine and later its timer. `found` is
the state after the lookup, `Admit`/`Refuse` the block under the mutex,
`Count` the gauge after it, `Attach`, `InitChannels`, `InitFails`,
`AttachAgain`, `Release` the channel and the error exits, `serving` and
`writing` the loop, `closing` and `settle` the deferred function (`Disconnect`,
`Settle`), `grace`, `end`, `clean` the callback of `time.AfterFunc`. `Tick` is
the clock of the timers. For `StreamSlots` a connection is `in` while it holds a
slot (`Holding`), `left` while its timer is to fire, `ending` while the timer
ends a dialog and `out` otherwise (`PhaseOf`); the counter, the gauge, the
channels and the clock are not visible there.

**FirstContact.** `Receive` is the lookup of `handleData`; `LoadKnown`,
`StoreKnown`, `CallSet` and `SetLands`/`SetFails`, `Notify`,
`GetCh`/`NoChannel`, `SendToCRM`, `Answer` are the calls of `handleMessage` in
order. The preload is `ScanBegins`, `ScanEnds`, `Warm` for each id,
`Preloaded`; the scan returns what was there all the time and possibly what
came or went meanwhile, as SCAN does. A write is split in the call and its
arrival: the context is looked at before the command is sent, not after.
`Crash` loses the memory and may or may not lose the writes under way.

**WidgetConfig.** The loop over the origins is one action per element,
writing into `urls`, the slice shared with the caller. An origin is a record
of what `NormalizeOrigin` tells apart. `maxConnect` has the width of the code
(`% 256`).

**Shutdown.** `app` is the shutdown goroutine of `Run`, `alarm` its emergency
goroutine, `saver` the goroutine of `StopBots`, `worker[u]` one `StopUserBot`,
`db` `HandlerClose` and `main`. When `main` returns nothing else moves
(`Alive`). The web server is not stopped: before and after the signal handlers
store an instance, over another one too (`Store`), take one out
(`RequestTakes`) and open streams of what is stored (`OpenStream`). A worker
takes what is stored when it comes (`WorkerTakes`, `hand`), which may be another
instance than `Range` saw. `due` remembers the instances stored at the signal,
of which `StopReachesAll` speaks.

**UserChannels.** A handler is at `model` (the three calls to the model
router), `send` (the `select` on `StartCh`), `again` (the second `GetCh` of
`handleEvents`) or `open` (its loop); `via` tells `handleReadDialog` from
`handleEvents`, whose rest differs (`Sent`). `GetOrSetRespGPT` is external: it
creates the channel of a respondent who has none, also when a later call of the
handler fails. `Starter` takes a start out of `StartCh` and begins a session;
starts carry a number, so one instance may have several sessions on a channel.
Sessions are external and answer what they read from `RxCh` (`Listen`,
`Reply`), one message at a time, until their context is done or their channel
closed (`EndSession`). What they send into the error channel of `StartSession`,
which `Starter` only logs, is `AnswerFails` for one message and `SessionFails`
for a session that cannot begin or ends by it. `Take` is a receive from `TxCh` with its write: the
message reaches the client or is gone with it. `Clean` is `CleanDialogData`;
it may come at any time here, `SSEStream` has when. Three history variables
carry the promises: `due`, the accepted starts that should have a session,
`excused`, the channels of which a client was told or the log knows, and
`failed`, the messages whose session logged an error.

**OperatorMode.** A call is at `flag` (`Store` or `Delete`), `count` (`Range`,
one `Visit` for each key, with the freedom `sync.Map` allows), `set` (the
gauge); a disable goes on with `find`, `notice`, `resume`, `close`, each with
its error or early return. The operator's stream is in another service:
`Close` asks for its end and logs a failure, and no state here depends on it.
`taken` numbers the take-overs of a dialog and a message for the
model carries the number it ends.

**WidgetAuth.** A request is at `row`, `bot`, `balance`, `sign` or `serve`,
whichever its route has; `World` changes the row, the instance and the
subscription between them. `met` remembers what held at some time of the
request, `exams` how every session began, `Asked` says which facts the code of a
route asks about. Tokens are never taken back, so `tokens` only grows, and a request may
come with any of them. `Refresh` reads expired tokens, as `ParseExpiredToken`
does; which age the orchestrator refuses is its own affair.

## Runs

| Run | Module | What it shows |
|---|---|---|
| `registry_requests` | BotRegistry | three requests for one user: `ShutOnce`, `RegisteredLive`; every stop returns, although its loop may find a connection open each time it looks, and a cancelled instance leaves the registry; without overlapping creations nothing is left unstopped (`SerialStops`); `BotInstances` is implemented |
| `registry_concurrent` (violation) | BotRegistry | two creations for one user leave an instance unstopped |
| `streams` | SSEStream | the counter is exact on every path; the gauge is right as long as no handler takes an error exit (`GaugeRight`); `StreamSlots` is implemented, so the timer spares a respondent who is back on its instance; a shut instance drains; the dialog of the last of two visitors to leave ends |
| `stream_restart` (violation) | SSEStream | the timer ends the dialog of a respondent who is back on the instance of a restart |
| `contact_safety` | FirstContact | `RecordedFirst`, `WarmCovers`, `DialogOpened` with restarts, crashes, expiry and failing calls |
| `contact_once` (violation) | FirstContact | a respondent is announced as new twice |
| `config_forms` | WidgetConfig | codes admit exactly what was asked for; two slots for each distinct origin as long as they fit a `uint8` |
| `shutdown_safety` | Shutdown | `CloseAfterProducers`, and `StopReachesAll` while handlers store, replace and take out instances; the process exits whatever hangs |
| `shutdown_save` (violation) | Shutdown | the bots are stopped in time, and the database closes while contexts are saved |
| `channels` | UserChannels | `StartsServed`, `SilentExplained`, with sessions that fail and two on one channel; `Conversation` is implemented; `LossExplained`; a message waits for ever only if its session or its reader goes (`MessageAnswered`); no stream stays on a closed channel (`ClosedChannelLeft`) |
| `auth` | WidgetAuth | `SessionRooted` and `GrantsBacked` while the world changes between the checks |
| `operator` | OperatorMode | `QuietGauge`, `ResumeHeard` with overlapping calls on dialogs that are taken over twice |

### Bounds

- `BotRegistry`: one user, three requests, three instances: conflicts are
  between requests for one user, of which three cover create-create-stop.
  That users do not disturb each other is in the theorems, which hold for any
  number of them. `Bots` bounds the instances ever built; a request begins
  only while one is left, so no run stops because it ran out. `Patience = 1`
  tick for the 50 of the code (5 s by 100 ms): what matters is that the loop
  goes round before the timer is over, and again.
- `SSEStream`: two instances (a stored and a replaced one), two connections of
  two visitors against `Limit = 1`, the smallest limit for which two compete for
  a slot and one is refused (`Limit = 2` in `stream_restart`, where both must
  be in; the theorems have every limit up to 255). `Room = 3`: instances built
  and visitors with anything on the server are three at most, so there are
  either two visitors of one instance or one visitor and a restart; both at once
  is beyond the liveness check, and the theorems have it. `EndCap = 1` as in the
  code; `Grace` one tick, enough for a reconnect before the timer and for timers
  of two connections to overlap. `GaugeBound` caps new streams, because the
  leaking gauge has no bound.
- `FirstContact`: with Redis (the theorems cover a process without it too);
  one respondent, for respondents share no state but the handler; two handlers, the fewest that race; two instances, the fewest that
  restart or crash. Counting announcements stops at 2.
- `WidgetConfig`: every list of up to three origins out of eight forms of two
  hosts, and lists of 127 and 128 hosts, the longest for which the limit fits
  its width and the first for which it does not; a clock of three values, so
  that a row expires before, between or after its two parses.
- `Shutdown`: two users, two instances (both stored at the signal, or one that
  replaces, or one that is stored late), two producers, and the listener.
- `UserChannels`: one respondent and one instance, which may be cancelled or
  stopped; two channels, of which the second replaces a cleaned one; two
  handlers, the fewest that send two starts, read one `TxCh` or find the queue
  full; one message; two numbers for starts, so that two sessions listen on one
  channel; `StartCap = 1` as in the code. The liveness properties follow one
  handler (`Watched`), for handlers are all alike. The liveness sets this size.
  A second respondent, or the instance of a restart, is more than it can carry:
  that an answer never crosses to another respondent, and that starts and
  answers survive the change of instances, is what the theorems add, which hold
  for any number of them.
- `OperatorMode`: two dialogs, so that a count can miss one; two calls; two
  take-overs of each dialog, so that a late message of the first meets the flag
  of the second; two places in `RxCh`.
- `WidgetAuth`: one user and respondent, two origins, two sessions, two
  requests; a clock of two values with `TTL = 1`, so that a token is good at
  first and expired after a tick; one code at a time.

### Fairness

`BotRegistry`: weak fairness of each request once it has begun; the Go scheduler
runs a runnable goroutine, external calls have timeouts, the ticker of
`StopUserBot` ticks, and its timer, which stays ready once it is, is not passed
over for ever. No connection has to end (`Drained`), no context to be cancelled,
no request to begin. `SSEStream`: weak
fairness of the handler's own steps, of a write's return (a client that stays
reads), and of the clock; strong fairness of `ShutdownSeen`, for a `select`
chooses at random among its ready cases. Disconnections and
`LongPollingTimeout` are not relied upon. `Shutdown`: only the emergency timer
and the database goroutine with `main`; producers, workers and the saver may
hang for ever. `UserChannels`: weak fairness of a handler's steps, of `Take`
and of `Leave` while there is a reason to leave that stays, of `Starter`, and
of each session, which ends what it took with an answer or an error (the model
has a timeout); `Take` and `Leave` are both ready
only at the end of a stream, where either is an end of the wait. Clients,
`LongPollingTimeout`, `EndSession`, `SessionFails` and the timers are not relied upon. The
other modules check safety only.

### Findings

Each is a violation run, with the quoted text in `PROJECT.json`:

- two concurrent creations for a user leave an instance running unstopped
  (`ReplacedIsStopped`). Nothing else does: `SerialStops` says that the property
  holds in every behaviour in which creations for a user do not overlap
  (`OneCreates`), so a lock for each user around `createBot` would repair it,
  and `StopUserBot` needs none;
- after a restart, the timer of the old instance ends the dialog of a
  respondent who reconnected to the new one (`ReconnectKeepsDialog`); while no
  instance is replaced or withdrawn under its handlers it does not
  (`KeepsDialogUndisturbed`);
- a respondent may be announced as new again: the preload does not finish
  before the bot is available, and a write with the context of a replaced
  instance fails (`FirstOnce`). `FirstOnceCalm` names what is enough: the newest
  instance handles messages after its preload, no key is lost, and a respondent
  has one message at a time;
- the database may close, and the process exit, while contexts are saved, even
  if the bots were stopped in time and there was no emergency
  (`SavedBeforeClose`).

Other promises of the repository that the code does not keep. No run states them
as they are written; the properties and theorems say how far they do hold, and
each is listed with its hazard:

| Promise | What the code does | What holds |
|---|---|---|
| help of `SSEConnections`, "Current active SSE connections." (`metrics.go:40`) | the error exits 595 and 604 of `handleEvents` leave it one too high for good | `GaugeRight`: exact in every behaviour without such an exit |
| help of `OperatorModeDialogs`, "Current number of dialogs in operator mode." (`metrics.go:35`) | of two overlapping calls the older count may be published last | `QuietGauge` after a quiet call; `SerialCallsCount`: overlap is the only cause |
| a common limit of connections to a bot (`widget.go:81`) | the counter is one of the instance, a restart begins another while the old streams stay | `UserStreamsBounded`: a limit for each instance that still drains |
| two connections for each allowed URL (`widget.go:141`) | `uint8(len * 2)` is 0 at 128 | `TwoPerOrigin` up to 127 distinct origins; `LimitLost` at 128 |
| `refresh` and `ticket` answer 402 (`doc/openapi.yaml:125`, `:202`) | no code in `src/` looks at the subscription there; the branches at 297 and 536 read the error text of external calls, and `checkUserSubscription` (`widget.go:419`) has no caller | `GrantsBacked`: only the exam, once, met the subscription |
| "graceful termination of active connections" (`README.md:28`) | once the context is done `StopUserBot` need not wait, and the process may exit under streams that were not told | nothing in its place |

Behaviour the models have of which the repository promises nothing: timers of
earlier disconnections cut a later grace period short; a full `endDialogCh`
drops a dialog; the dialog of a visitor who leaves while another one is
connected, or while an attempt is about to fail, is never ended; a stop does not
reach streams of a replaced instance; a bot stored during the shutdown may be
left running; a failed start, and a session that fails, leave a channel that
later requests find with nobody listening; a disable that returns early or
whose `CloseOperatorSSE` fails leaves the operator's stream; a renewed token
outlives `AuthTokenTTL` any number of times although the comment at `exam.go:16`
reads as a lifetime. `connectionLimitMiddleware` (`widget.go:552-569`)
has no caller and is left out.

## Proofs

The theorems hold for any finite or infinite sets and any bounds the
assumptions allow. All need only the assumptions named in the modules (the
"none" values are not elements, `Limit` is a `uint8`, `Conns` and `Dialogs` are
finite for the counting). Every invariant and every action property that a
passing run checks is a theorem, and so are the three refinements.

Each violation run shows a property that the code does not keep. Theorems of the
form `Spec /\ []H => P` say when it does, and so that the run has found the whole
cause: `SerialStopsOld` (`H`: creations for a user do not overlap),
`KeepsDialogUndisturbed` (no instance is replaced or withdrawn under its
handlers), `FirstOnceCalm` (what the comment in `handleMessage` takes for
granted); `SerialCallsCount` and `StopsEveryBot` do the same for two weaknesses
listed with the hazards, the gauge of overlapping calls and the bot stored during
the shutdown, and `GaugesRight` for the gauge of the streams. `H` rules out interleavings, and in `FirstOnceCalm` a lost key:
with `H` the modules still start, restart, stop, connect, announce, crash and
shut down, and the mutant of `SerialStops` breaks it without an overlap.
`SavedBeforeClose` has no such theorem: nothing in the code waits for the saver,
so only luck keeps it. Only `SerialStops` and `GaugeRight` are also properties of
a run: TLC does not take `[]H => [][A]_vars`, and for
`FirstOnce` a run would spend most of its time in states that `H` excludes; there
the theorem stands alone.

- `BotRegistryProofs`. `TypeCorrect`, `ShutsOnce`, `KeepsRegisteredLive`,
  `OnlyLivePublished`, `Refinement` (`Spec => ImplementsInstances`). Neither
  `ShutOnce` nor `RegisteredLive` is inductive: the second closer could come
  from an instance that is stored twice, or held by a builder while it is
  stored. `IInv` adds who may know an instance: nobody before it is built
  (`UnbuiltUnknown`), only its builder until it is stored (`NewIsPrivate`),
  nobody who would store, close or kill it while it is stored
  (`StoredIsWhole`), and only requests of its own user after that
  (`HeldIsOwn`). The refinement maps an instance to a stage by where it is
  held; each action is shown to be one abstract step or a stutter. That an
  instance which left the registry never returns (`OnlyLivePublished`) needs the
  same invariant. For `SerialStopsOld` two facts are added that only hold without
  overlap: what a creating request has found is still what is stored
  (`OldInHand`), and a request at none of these steps holds nothing
  (`EmptyHanded`).
- `SSEStreamProofs`. `TypeCorrect` and `SlotsAccounted`: the counter equals
  the number of connections in `Holding` at that instance and does not pass the
  limit. By cardinalities: `Admit` adds one to the set of holders and to the
  counter, `Release` and `Disconnect` remove one from both, every other step
  keeps the set. Below a limit of at most 255 the `% 256` never acts.
  `GaugesRight` counts the open streams of a user in the same way
  (`CountedOf`): every step keeps the equality but `Release`, which takes a
  handler out of them and leaves the gauge, and which `NoErrorExit` rules out.
  `KeepsDialog` follows from
  `SlotAccounting`: the timer acts only at a counter of 0, and then no
  connection of the instance is a holder. `KeepsInstance` adds that a handler
  keeps an instance of its respondent's user, of which one serves at a time, and
  gives `KeepsDialogUndisturbed`; `ShutOnlyDrains` is the safety half of
  `ShutDrains`. `UserStreamsBounded` sums over the instances of a user:
  `FibreBound` (a finite set mapped to `n` values, at most `K` elements to each,
  has at most `K * n`) is proved by a least counterexample (`LeastNatural`, from
  the theorems about well-founded relations), for induction with an operator
  parameter is not available. `SlotsRefinement` (`Spec => ImplementsSlots`) needs
  the exact counter twice, for the guard of `Enter` and for that of `EndDialog`:
  the code looks at the number, the abstract specification at the connections.
- `FirstContactProofs`. `TypeCorrect`, `RecordsFirst`, `PreloadCovers`,
  `OpensDialog`. `NotifyRecorded` follows a contact from the write to the
  announcement; `PreloadOwes` follows it from Redis through the scan to
  `knownUsers`; `KnownExplained` says that whoever is known anywhere has a
  first message that reached the CRM, was cut off, or is under way, and
  `ExplainedKept` that this is never lost. For `FirstOnceCalm`, `OnceInv` says
  that the newest instance knows whoever was announced, or its preload is going
  to tell it (`NewestKnows`, `NewestOwes`), and that a message on its way to the
  announcement is of a respondent without one (`FirstIsNew`).
- `ShutdownProofs`. `TypeCorrect`, `ClosesAfterProducers`, `StopsAll`.
  `BusClosed` says who can have closed `DoneCh` before the alarm: the goroutine
  that has seen every producer return. `StopsAll` has to hold against handlers
  that overwrite, take out and store again. `InMap` ties the map to the stages:
  an instance is stored under one user, and one that a worker holds is out of
  the map. `Swept` says of each user whose stored instance is due that `Range`
  has still to visit the key or a worker to take it; what a handler puts there
  instead is new, hence not due. `StopsEveryBot` adds that if nothing is stored
  after the signal every stored bot was stored at the signal (`Listed`).
- `WidgetConfigProofs`. `TypeCorrect`, `CodesAdmit`, `TwoSlotsEach`
  (`2 * n` slots for `n` distinct origins wherever that fits a `uint8`),
  `LimitLost` (none for 128). Both are `CountedSlots`, the width written out.
  `Normalised` is the loop invariant: what is before the index is normalised
  and met once, the rest is as it was written; `Issued` says that a finished
  parse used that very list.
- `UserChannelsProofs`. `TypeCorrect`, `NoStartLost`, `SilencesExplained`,
  `LossesExplained`, `Conversing` (`Spec => ImplementsConversation`). `Kept`
  says that what `GetCh` finds is open and the respondent's own (`Found`), that
  the stored instance is not shut (`Stored`), that sessions have channels
  (`Reached`) and that a start which is due could still be served (`Wanted`);
  the first two theorems after the types rest on it. `Traced` adds where a
  message can be: in one queue, once, or with one session (`Queued`,
  `Answered`), accepted (`Known`), in a channel that is somebody's (`Housed`),
  read only by streams of that respondent (`Own`). For the refinement the
  pending messages are those anywhere on the channels a respondent ever had:
  a post is `Ask`, a receive `Answer`, or `Lose` if the client had left, the
  end of a session `Lose` or nothing, every other step a stutter. A message put
  into two places, or a channel that changes hands, would break `Answer`.
- `OperatorModeProofs`. `TypeCorrect`, `QuietCallsCount`, `SerialCallsCount`,
  `ResumesHeard`. `Alone`: a call that no other overlapped counts all keys and
  nothing else; `Ended`: every number in `RxCh`, and
  the one a disable carries, is of a take-over that has ended.
- `WidgetAuthProofs`. `TypeCorrect`, `SessionsRooted`, `GrantsAreBacked`.
  `Rooted` extends the property from the tokens to what requests carry: the
  claim of a renewal is that of a session, the claim of an exam is admitted by
  its code; distinct sessions have distinct jtis. `Backed` says for each step
  of each route which facts the request has met, `Granted` adds that every exam
  that signed had met all five.

Only model-checked: liveness (`StopReturns`, `DeadBotLeaves`, `ShutDrains`,
`DialogEnds`, `SignalExits`, `MessageAnswered`, `ClosedChannelLeft`), which is
beyond the prover.

## Not modelled

HTTP routing and CORS (stateless), SQL statements and the scan of a row, metrics
other than `SSEConnections` and `OperatorModeDialogs`, the encryption of rows,
the text of messages and files, JSON, and `air-common` itself: the model router,
the sessions, the orchestrator that signs and reads tokens, the CRM appear
as the module that calls them needs them; the operators' streams, which another
service keeps, do not appear at all. Whether
`StartSession` refuses a second session on a channel is unknown here, so the
model lets it run. The answer of a handler is not modelled where nothing else
depends on it. `BotRegistry` and `SSEStream` are composed through `BotInstances`
and not in one state space: what the streams need of the registry is that
abstract life, which is proved of it.
