# Release notifier: verification project

The repository is a Go service that mails people about new GitHub releases: an
HTTP API takes subscriptions, a scanner polls GitHub, and a separate notifier
process sends the e-mails that API and scanner put on a NATS JetStream stream.
This directory holds TLA+ models of it, the TLC runs that check them and the
TLAPS proofs about them. Line numbers below refer to `src/`.

## 1. Inventory

| Part | State it keeps | Operations | Works with |
|---|---|---|---|
| HTTP API and service (`internal/app/api`, `service/service.go`) | none of its own; requests run concurrently | `Subscribe`, `ConfirmSubscription`, `Unsubscribe`, `GetSubscriptions` | Postgres, GitHub (cached), the publisher |
| Repository and schema (`repository.go`, `db/migrations`) | `subscriptions`, `confirmation_tokens`, `watched_repos`; unique indexes, cascade | one transaction (`CreateSubscriptionWithToken`), single statements otherwise | API, scanner |
| Scanner (`scanner.go`, `workerpool.go`) | the ticker's slot, the pool's semaphore, `rateLimitHit` per run | `Run`, `runOnce`, `checkRepo`, `WorkerPool.Run` | all of the above |
| GitHub client and cache (`github`, `cache`) | Redis keys `gh:latest:*`, `gh:validate:*`, ten minutes each | `GetLatestRelease`, `ValidateRepo` | scanner, API |
| Publisher (`email_notifier.go`, `composer.go`, `natspublisher`, `notify`) | none | one e-mail command per recipient, with a `Nats-Msg-Id` | JetStream |
| Streams (`natsbus`) | `NOTIFICATIONS` with a dedup window of three scan intervals, `NOTIFY_DLQ` | `Connect`, `EnsureStreams`, `SetDedupWindow` | both processes |
| Notifier (`internal/notifier`, `cmd/notifier`) | durable consumer on the server; buffer, one callback, orphaned sends in the process | ack / nak / DLQ and term, drain | JetStream, SMTP |
| Start-up and shutdown (`cmd/app/main.go`) | none | migrate, connect, start the scanner, serve, shut down | everything |
| Middleware, metrics, logging, templates, configuration parsing | none that matters to the properties | | |

What is hard in it, with what must be right in each case:

- **Concurrent requests.** `Subscribe` checks, asks GitHub, inserts and publishes
  in four separate calls; `ConfirmSubscription` reads a token, updates a row and
  deletes the token in three. Others run in between, each call can fail or fail
  to report a success, and the process can die after any of them. Right means:
  one row per (email, repo), a pending row keeps its token, a deleted row never
  returns, and what was answered of a row is never undone.
- **Notify before the cursor.** The scanner sends a release to a list of
  recipients it read earlier and then moves one cursor for all of them. Right
  means: the cursor never passes an e-mail that is not in the stream, and the
  retries this costs do not store second copies.
- **Pool and rate limit.** Jobs run in parallel and learn of a rate limit from a
  flag they read once. Right means: a bound on parallel jobs, no overlap of
  runs, and a bound on the calls made after the limit was met.
- **At-least-once delivery.** Timers run while messages wait, acks get lost, SMTP
  goroutines outlive their handler, the DLQ publish can fail, the process drains
  or crashes. Right means: nothing is settled that was neither mailed nor parked,
  nothing is parked early, and what can still be delivered is mailed.

- **The two processes together.** The scanner moves a cursor, the notifier sends
  mail, each crashes on its own, and only a stream connects them. Right means:
  what people get is what a service without any of these parts would promise.
- **Start and restart.** The app may be cut off in the middle of a migration; both
  processes create the same stream and only one of them knows its dedup window;
  window, schema and consumer outlive the processes. Right means: an app that
  serves has the newest schema, its cursors and its own window.

The full list, with the line of each hazard and the properties aimed at it, is
`hazards` in `PROJECT.json`.

## 2. Modules

| Module | Models | Used by |
|---|---|---|
| `Scanner` | scanner, worker pool, release cache, cursor, confirmed subscribers, dedup window | `MCScanner`, `ScannerProofs` |
| `Delivery` | the notifier on top of a JetStream consumer | `MCDelivery`, `DeliveryProofs` |
| `Subscriptions` | the three writing API operations over the two tables | `MCSubscriptions`, `SubscriptionsProofs` |
| `Lifecycle` | abstract specification: what the API promises of one subscription | instantiated by `Subscriptions` as `Life` |
| `Pipeline` | `Scanner` and `Delivery` composed over the stream | `MCPipeline`, `PipelineProofs` |
| `Notifications` | abstract specification: what the service promises of a release | instantiated by `Pipeline` as `Promise` |
| `Migrations` | the four up migrations on their tables, and golang-migrate's versions | `Startup` |
| `Startup` | both processes from start to work, again and again | `MCStartup`, `StartupProofs` |
| `MC*` | constants and symmetry for TLC | the `.cfg` files |
| `*Proofs` | inductive invariants, lemmas and theorems | TLAPS |

### Scanner

A job of `runOnce` is a record `worker[r]` whose `pc` is the next call it makes:
`fetch` (GitHub through the cache), `load` (`GetWatchedRepo` and the decision),
`list` (recipients), `send` (one publish per step), `save` or `silent` (the
upsert of the cursor). `Dispatch` takes a slot of the semaphore and reads
`rateLimitHit`; every way a job can end frees the slot. `StartScan`, `EndScan`
and `Tick` are `Scanner.Run`: one run at a time, a ticker channel that holds one
tick, and a tick that may be drained after a long run (`EndScan`). `Cancel` is
SIGTERM, `Restart` the end of the process at any point, which does not wait for
the scanner (`main.go:133`).

Tags are numbered in order of publication, so that properties can say "older";
the modelled code only ever compares them for equality, as `IsNewRelease` does.
The broker's memory of an e-mail is `age`: the scan intervals begun since it was
last stored. Inside the window a second publish of the same id surely changes
nothing; later it may or may not. A failed publish may have been stored. A
database error after the commit of `SaveWatchedRepoTag` is a `Save`, one before
it a `JobFails`. `latest`, `subs` and `base` change at any time: people confirm
and leave, and GitHub moves on, between any two steps of a scan. `base`,
`copies`, `lateCalls` and `outlived` are history the properties need.

`watched` is `NoRow` where `watched_repos` has no row and `NoTag` where its row has
the empty tag that migration 0003 leaves for a repository with subscribers and
no scan; `Backfilled` says which repositories may start like that.

The cache lags behind GitHub by its ten minutes, so `IsNewRelease`, an
inequality, is not by itself a guarantee that releases are announced in order.
`CursorMovesForward` says what is: a cursor goes back only if a scan's `GET` and
`SETEX` both failed and an older answer stayed in Redis (`outlived`). In that case
it does go back, and the older release is announced again.

### Delivery

A delivery is a pair of a message and `NumDelivered`, and `stage` says where the
client has it: buffered, sending, about to park, ack or term. `Start` is the
decoding in `NewHandler` (`AfterDecode`: a malformed command is
parked unsent), `SendSucceeds` and `SendFails` the two ends of
`SMTPMailer.Send` (the second includes an accepted mail whose answer was lost,
and the handler's timeout that leaves an orphan), `AfterFailure` is `classify`,
`Park` the DLQ publish and `Settle` the ack or term, which may be lost. The
server is external and modelled by what the consumer's configuration asks of it:
`Deliver` up to `MaxDeliver` times, `Expire` for `AckWait` and for the delay of
a nak. The timer can end at any moment after the delivery, so a late ack, a
redelivery while the first handler is busy, and deliveries used up in the buffer
are all there.

### Subscriptions and Lifecycle

A subscribe request, the row it may create and its two tokens share one name.
`sub[s]` is the next call of request `s` or the status it was answered with,
`click[c]` the same for a request that follows a link; `lost` is a request cut
off by `Crash`. Each action is one call of the handler with its outcomes: done,
failed, or done and reported as failed. `Follow` needs the e-mail: tokens are
random UUIDs nobody else knows. `Lifecycle` has no requests: it lets a
subscription be created when its pair is free, mailed while pending, confirmed
and deleted only by who was mailed. `row` and `mailed` map to the variables of
the same name.

### Pipeline and Notifications

`Pipeline` extends `Scanner` and instantiates `Delivery` as `D`. A message of the
notifier is a copy of an e-mail the scanner's stream took (`Messages`,
`InStream`), and nothing else is shared. A step is the scanner's, the
notifier's, or the end of the outages, which both see. The API takes part by
what the scanner sees of it: `Confirm` and `Unsubscribe` at any time.

`Notifications` has no scanner, cache, stream or consumer: releases come out,
people confirm and leave, a release is handed over to somebody who confirmed, the
announcement advances when everybody has it who waited for it, and what was
handed over is mailed or parked. `Promise` maps `cursor` to `watched` and the three
sets to the e-mails the stream stored, SMTP accepted and the DLQ took.
`Relapses` is `RedisFaults`, for the reason given above. `HandOver` asks that
the recipient ever confirmed, not that he is confirmed now: the scanner sends to
a list it read earlier. It does not ask that the release be newer than the
subscription either: the cursor belongs to the repository, and one that stayed
behind while nobody was subscribed makes the next subscriber get an old release.

### Startup and Migrations

`app` and `notifier` name the next call of `run` in `cmd/app/main.go` and
`cmd/notifier/main.go`. `AppEnds` and `NotifierEnds` are every way a process ends:
a failed call, SIGTERM, a crash. What survives it are the schema's version and
tables and the streams. A migration takes three steps (`NextFile`, `ApplyFile`,
`FileApplied`), so an app can end before the file, after it, or after its
version is marked clean; `UpFails` is `ErrDirty` or a unique index that cannot be
built. The tables are abstracted to what the four files read or change: pair,
`confirmed`, `deleted_at` and `last_seen_tag` of a subscription, and the cursor.
A tag is a number and `Rank` the place of its string, because `MAX` in 0003
compares strings. `before` is the table the first process found, which need not
be empty: 0001 is written for databases provisioned before it.

Streams keep their dedup window until somebody sets another. `CreateNotifications`
is the tolerated `ErrStreamNameAlreadyInUse`; `SetDedupWindow` the update.

## 3. What TLC checks

Bounds are `CONSTANTS` of the modules; each `.cfg` gives them.

| Run | Instance | Shows |
|---|---|---|
| `scanner_pool` | 3 repositories, 1 user, 1 tag, pool of 2 | `TypeOK`, `PoolBounded`, `RateLimitStopsCalls` |
| `scanner_mail` | 1 repository, 2 users, 2 tags, window of 3 intervals, Redis faults | `CursorOnlyAfterMail`, `CursorMovesForward`, `NoCopyInsideWindow`, `NoMailBehindCursor` |
| `scanner_live` | 1 repository, 1 user, 3 tags, Redis faults, fairness | `ReleaseReachesSubscriber` |
| `delivery` | one good and one malformed command, 3 deliveries each, fairness | `TypeOK`, `SettledMeansHandled`, `ParkedOnlyWhenDue`, `HealthyMeansMailed`, `LastChanceKept` |
| `subscriptions` | 3 subscribe requests (2 for one pair), 3 link requests, faults | `TypeOK`, `PendingHasToken`, `AnswersAreFinal`, `ImplementsLifecycle` |
| `pipeline` | 1 repository with an empty cursor, or none yet, 1 user, 1 tag, 1 copy, 2 deliveries, faults and crashes of both processes, fairness | `ImplementsNotifications`, `ReleaseIsMailed` |
| `startup` | all tables of 2 subscriptions over 2 addresses, 1 repository and 3 tags, none, v9 and v10, sorted as strings; intervals of -1, 0, 1 and 5 minutes; fairness | `TypeOK`, `WindowFollowsInterval`, `ServesEverySubscriber`, `DirtyHasCause`, `BothStart` |

Why these bounds are enough for the cases that matter: three jobs on two slots
make one wait and let two meet the rate limit together; one repository suffices
for the mail properties because cursor, recipients and e-mails of different
repositories share only the pool and the flag, which `scanner_pool` covers; two
users separate "one send failed" from "all did"; two tags give a cursor
something to move between and an older tag to come back from a stale cache, a
third in `scanner_live` lets a release be replaced before anybody saw it;
three deliveries have a first, a middle and a last; with two requests for one
pair and three clicks a confirm, another confirm and an unsubscribe of the same
subscription overlap, and the second request can arrive before, during and after
the life of the first. In `pipeline` the empty cursor of the backfill makes the
first release one to announce, so a single tag has the whole way from GitHub to
the mail server; more than one release, and their order, are `scanner_mail`'s
and, for every number of them, the proof's. In `startup` two rows are enough for
a pair to occur twice and for one subscriber to lag behind another, and two
positive intervals for a window that an earlier app left. `MaxCopies` only caps a history counter. The window of
`scanner_mail` is three intervals because `DedupWindow` says so; `Startup` shows
that it really is when the app serves.

Every run sets `CHECK_DEADLOCK FALSE`: releases, requests and messages are
finite in number, so each bounded instance may really come to rest.

### Disagreements found

Five runs check one statement each that the repository makes and the code does
not keep; TLC's counterexample is the scenario.

- `scanner_first` (`FirstSightingMissesNobody`): `scanner.go:156-157` says that
  at first sighting "the release predates every subscription". A release between
  the confirmation and the repository's first scan is recorded silently.
- `scanner_once` (`ExactlyOneEmail`): `scanner.go:167-169` says "exactly one email
  per subscriber". The broker remembers an id for three intervals; retries that
  go on for longer store another copy. What is left of the claim is proved:
  inside the window there is no second copy (`NoCopyInsideWindow`), and once the
  cursor has reached the release there never is one (`PassedReleaseStaysSilent`,
  as long as Redis does not fail).
- `delivery_lost` (`FailedParkIsRetried`): `subscriber.go:108` naks a failed DLQ
  publish "so a failed park stays redeliverable instead of being lost". On the last
  delivery, the usual one to be parked, the server will not redeliver, and the
  command is in neither place. The property speaks of the step of the failed
  park only: a last delivery that got lost on its way, or with the process, costs
  the command its last chance too (`LastOneLost`), and no comment denies that.
  Without failures nothing is lost (`StableLosesNothing`).
- `subscribe_race` (`DuplicateIsConflict`): a duplicate is documented as 409
  (`swagger.yaml:40-41`); the loser of a race is answered 500. If no call fails
  and no process dies, that is the only way to a 500 for a subscribe (`InternalErrorMeansRival`).
- `subscribe_resend` (`ConflictMeansMailed`): a subscribe is answered 200,
  "confirmation email sent" (`handler.go:43`, `swagger.yaml:35`), also when the
  publish failed and was only logged (`service.go:134-142`).
  `docs/system-design.md:157` says the user can then request a resend; asking
  again is refused with 409 as long as the pending row is there. As long as no
  call fails and nothing crashes, a 200 is never wrong about the e-mail
  (`ResendNeededOnlyAfterFailure`). A crash between commit and publish leaves the
  same row, but its request was told nothing.

Two more statements are known not to hold and have no run of their own: a
confirm link is answered 200 although the row was deleted between its two calls
(`AnswersAreFinal` admits it, and says only that nothing is left to confirm),
and the comment of 0003 on the first scan (section 6).

## 4. Fairness

`Scanner!Fairness`: time passes (`Tick`), Go runs every goroutine and every call
has a deadline (`Job`, `StartScan`, `EndScan`), cache entries expire, a process
told to stop ends and is restarted by its supervisor, and outages end
(`Stabilise`), after which no call fails. All of it is weak fairness. Nothing is
assumed about subscribers, releases or when an outage ends.

`Delivery!Fairness`: timers end, the callback and the orphaned sends run, a
drained process is restarted. `Deliver` is strongly fair: a drain can switch it
off again and again, but a server that may deliver infinitely often does. There
is no assumption that failures end; `HealthyMeansMailed` speaks of the runs in
which they do.

`Pipeline!PipelineFairness` is Scanner's for the environment, and weak fairness of
each process and of the server as a whole: the app goes on, the notifier goes on,
timers end and messages in the stream are delivered. `ReleaseIsMailed` has an
exit for a message whose deliveries were all used up, as the configuration
allows only `MaxDeliver`.

`Startup!FairSpec`: each process goes on, and the supervisor starts it again
(`restart: unless-stopped` in `docker-compose.yml`). Nothing is assumed about when
the outages end, or that they do: `BothStart` speaks of the runs in which they
did, and leaves out a schema that waits for a repair by hand.

## 5. What is proved

The proofs hold for every value of the constants that satisfies the named
assumptions of the modules: finitely many repositories, natural bounds, at least
one delivery, `PairOf` a function. Every safety property that a passing run
checks, invariant, action property or refinement, is a theorem. Each component
follows one inductive invariant.

- **`ScannerProofs`.** `ScannerInv` is the conjunction of six parts, each with a
  step lemma; `ScannerIsSafe` takes the seven safety properties from it. It is
  stated of `WideSpec`, whose steps include the end of the outages, so that it
  serves `Spec`, `FairSpec` (`SpecIsWide`) and the composition alike.
  - `TypeOK`, and `PoolInv`, which adds to `PoolBounded` that no job exists
    outside a run.
  - `LimitInv`: `RateLimitStopsCalls` alone is not inductive, for a job that
    passed the flag may call later. `LimitInv` counts late calls and jobs still
    about to call together, and says the sum leaves one slot out, that of the job
    that met the limit.
  - `MailInv` says what a job knows of its tag: it is at most GitHub's, a silent
    save has no known cursor to move, and as long as no send failed every
    subscriber older than the release is still in the loop or has the e-mail.
    From it follows `CursorFollowsMail` (an action property).
  - `NotifyInv`: a job that lists, sends or saves has a known cursor to move, and its
    tag is another one. `MailsAreAhead` needs it and the order below.
  - `OrderInv`: the cursor is never ahead of GitHub and, unless an answer outlived a
    newer one, cursor, the tag a job holds and the cached answer are in that
    order, as far as each of them is there. From it follows `CursorStaysInOrder`.

  `RetriesAreDeduplicated` follows from what one step can do to the broker's
  memory (`BrokerEffect`), for which the dedup id must be the e-mail.
  `PassedReleaseStaysSilent` combines both: without Redis faults a cursor never
  goes back, and no e-mail is sent behind it.
- **`DeliveryProofs`.** `DeliveryInv` adds to the checked invariants that a
  delivery at hand was made by the server (`HeldIsMade`), that one about to be
  parked is malformed or the last (`ParkingIsDue`), and that one about to be
  settled was handled (`SettlingIsHandled`). All handler steps are instances of
  one lemma, `ClientKeeps`. `NoLastChanceLost` is the action property
  `LastChanceKept`: a command has a chance (`HasChance`) as long as it has a
  delivery left, its last one in the client, or its end behind it, and only
  the loss of the last delivery, the end of the process or a failed park can
  take it (`LastOneLost`), never what the callback decides. That is where a wrong
  `classify` would lose a message. Once failures are over there is none of
  these (`StepKeepsSafe`), which gives `StableLosesNothing`.
- **`Lifecycle` and `SubscriptionsProofs`.** The abstract life cycle has its own
  invariant (`LifeInvariant`: one live row per pair, nobody confirmed without the
  e-mail) and keeps deleted rows deleted (`DeletedForGood`); both are short, since
  it has no requests. For the API, `RowInv` relates a row to its token, its e-mail
  and the request that creates it (before the insert there is no row, before the
  publish nobody else can touch it); `ClickInv` relates a link request to the row
  it is about; `RivalInv` adds that a 409 had a rival. From them follow the invariants
  (`AnswersBind` among them, which is about rows and not about e-mails) and `RefinesLifecycle`: the
  initial states map to initial states and every step to a step of `Lifecycle` or
  a stutter. Through it the theorems about `Lifecycle` hold of the tables
  (`OneConfirmedByMail`, `DeletedStaysDeleted`). `CalmInv` holds as long as no
  call fails and no process dies, and gives the two theorems that bound the
  findings: then a 200 means that the e-mail is in the stream, and a 500 that a
  rival was faster.
- **`Notifications` and `PipelineProofs`.** Of the abstract service it is proved
  that it mails only who confirmed (`NobodyElseIsMailed`) and that, once whoever
  waited is served, nobody is ever passed over (`ServedForGood`).
  `RefinesNotifications` uses `LinkInv`: the scanner's invariants, that a recipient
  at hand ever confirmed, and that the notifier holds, mails or parks only copies
  that the stream took. It carries the two over to the composition
  (`OnlySubscribersAreMailed`, `NobodyIsPassedOver`). `ScannerUndisturbed` and
  `NotifierUndisturbed` show that each process behaves in the composition as it
  does alone; hence `ScannerIsSafeHere` and `NotifierIsSafeHere`, the second
  through an instance of `DeliveryProofs` for the pipeline's messages.
- **`StartupProofs`.** `IndInv` ties the tables to the version: no file adds, removes
  or moves a subscription (`KeptInv`), from the second file on there is one per
  pair (`IndexInv`), and the third leaves every confirmed repository with a tag that
  one of its subscribers had (`BackfillInv`, through `BackfillTakesATag`), for every
  `Rank`; a process migrates on a dirty version and is past its migrations only
  on the newest (`PhaseInv`).

Model-checked only: `ReleaseReachesSubscriber`, `HealthyMeansMailed`,
`ReleaseIsMailed` and `BothStart`, because liveness under fairness is beyond the
prover. The violations are shown by TLC too.

## 6. Not modelled, and limits

- Durations within a scan interval, HTTP and SMTP wire formats, e-mail text.
- `GetSubscriptions` (reads only), API-key and request-id middleware, metrics,
  logging, templates and the web page.
- `ValidateRepo`'s cache; `Subscriptions` lets GitHub's answer be anything, which
  includes every answer a stale entry can give.
- Two instances of the app: the deployment has one (`docs/system-design.md:93`).
- Down migrations, which the program never runs; NULL in `last_seen_tag`, whose
  default is the empty string (a repository with nothing else would make 0003
  fail); the tables while the app serves,
  which are the business of `Subscriptions` and `Scanner`.
- `SCAN_INTERVAL=0`: it passes `Validate`, `main.go:122` computes the window from it
  and the server takes its default of two minutes, while `scanner.New` scans every
  five. `Startup` has this behaviour, and `WindowFollowsInterval` leaves it out,
  for it does not hold there: no retry of a later scan would be deduplicated.
- Soft-deleted subscriptions: 0002 drops the column and keeps the rows, so one
  without a live twin is a subscription again, against the comment at
  `0002_drop_soft_delete.up.sql:3-4`. `Migrations` has this behaviour; the
  properties speak of the subscriptions that were not deleted. One with a twin
  makes the migration fail, for good (`DirtyHasCause`).
  Used confirmation tokens had `deleted_at` set as well (`:8`, `:11`) and can be
  found again; their links confirm rows that are confirmed, as after a `DropToken`
  that failed, so `Migrations` has no tokens.
- The comment of 0003 says the first scan after it does not re-notify. `MAX`
  compares strings: between v9 and v10 it keeps v9, and whoever has seen v10 gets
  it again. Where nobody was ever scanned the cursor is the empty tag, and the
  first scan announces instead of recording silently. `Migrations` and `Scanner`
  (`Rank`, `Backfilled`) have both; no property says the comment.
- A release deleted or withdrawn, after which GitHub answers an older tag:
  `latest` only grows. `CursorMovesForward`, and with it `PassedReleaseStaysSilent`,
  rest on that: after a withdrawal the cursor would follow GitHub back.
- A publish that the NATS client gives up (`publisher.go:30`) and the server stores
  only after later steps: `Send` stores it in its own step, or not at all.
- `subscriber.go:81-84`, the count of 1 when a delivery has no metadata: deliveries
  of a JetStream consumer always have it.
- A shutdown by SIGTERM ends requests in flight, since `ListenAndServe` returns
  when `Shutdown` begins and `run` with it (`main.go:144-158`);
  `docs/system-design.md:322` says they are drained. In `Subscriptions` that is a
  `Crash`.
- `pipeline` runs without Redis faults and with one release; the proof has neither
  limit.

## 7. Plan

1. *(done)* `Scanner`, `Delivery`, `Subscriptions` with `Lifecycle`; runs and proofs.
2. *(done)* `Startup` on `Migrations`; run and proofs.
3. *(done)* `Pipeline` and its refinement of `Notifications`; run and proofs.
4. Composing `Subscriptions` with `Pipeline`, in place of the scanner's `Confirm` and
   `Unsubscribe`; so far the two meet only in `subs`.
5. `ReleaseCache`: both cached operations with their sentinels and negative
   entries. Of the two, `GetLatestRelease` is in `Scanner` already.
