# A TLA+ model of the World Cup prediction service

The service collects predictions of the World Cup group draw. A user logs in with
a one-time code sent to a phone, stores a prediction (teams under the keys of the
groups), and an admin request has every prediction scored against the real draw:
by worker processes fed through RabbitMQ, or, in the older mode, by one loop inside
the API process. State is shared by three stores: PostgreSQL (`users`, `sessions`,
`predictions`, `results`, `teams`), Redis (codes, cooldowns, counters, cached
session ids, cached groups, two progress statistics) and RabbitMQ (the job queue
and its dead-letter queue). Nothing is locked, and only single statements are
transactions, so what is hard in this code is what may happen between two awaits.

All paths below are relative to `src/src/` unless they start with `docs/` or name
a file at the top of the repository.

## 1. Inventory

| Part | Source | State | Operations | What makes it correct |
|---|---|---|---|---|
| Prediction pipeline | `prediction/prediction.service.ts`, `prediction/prediction.processor.ts` | tables `predictions`, `results`; Redis `prediction:stats:total`, `prediction:stats:processed` | store a prediction; trigger: select unscored rows, set statistics, publish one job each; job: look for a row, score, insert, INCR | a queued prediction gets a result or a dead letter; one row per prediction; statistics agree with the rows |
| RabbitMQ client | `rabbitmq/rabbitmq.service.ts` | connection, channel with its write buffer, declared queues, prefetch, header `x-retry-count` | connect, declare, publish, depth, health, purge; consume, ack, republish with a raised count, nack to the DLQ | no job is lost, retried for ever or dead-lettered early; a job published is handed over; a query does not cost the channel |
| Worker process | `worker.ts`, `docker-compose.yml` | the handlers in flight | start, die, be restarted | a death anywhere loses nothing |
| Scoring | `prediction/scoring.service.ts`, `prediction/helpers`, `prediction/mappers` | none | payload to score and details | the published table; details agree with the total |
| Synchronous batch | `prediction/prediction.service.ts` | offset, current page | page through all predictions, score, save page by page | every prediction is scored, none twice |
| Group data | `prediction/services/group-data.service.ts`, `database/seeds` | Redis `correct-groups`; table `teams` | read through the cache, load, reseed | no stale draw for ever |
| One-time codes | `auth/otp.service.ts`, `auth/auth.service.ts` | Redis keys of one phone: code, two cooldowns, attempt counter | send, verify, clean up | sends spaced, a code used once, guesses bounded, nobody locked out |
| Sessions | `auth/auth.service.ts`, `auth/guards/auth.guard.ts` | table `sessions`; Redis `session:token:`, `session:refresh:` | log in, validate, refresh, log out of one or all | only a current token gets in; a valid one is not refused; logout is final |
| Session cleanup | `auth/services/session-cleanup.service.ts` | none | find and delete expired rows | never deletes a live session |
| User registration | `auth/services/user.service.ts` | table `users` | normalise the phone, find or create | one user per phone; only a first login can fail at the UNIQUE column |
| Check for concurrent sessions | `auth/services/fraud-detection.service.ts` | none | look for sessions from other addresses, log | a session from elsewhere is noticed |
| Failure counters, audit log, metrics | `auth/services`, `common/services` | counters, log lines, gauges | count and write | nothing reads them back to decide anything |
| Guards for admin, metrics and rate limits | `common/guards`, `auth/guards` | rate-limit keys | compare a header; count requests | see section 7 |
| SMS, configuration, HTTP shell | `sms`, `config`, `common/config`, controllers | none | call a provider; read the environment; wiring | - |

How they meet: the HTTP controllers call one service method per request. The
pipeline's API half and worker half meet only in the queue, in `results` and in the
two statistics; what a publish does on its way there is the RabbitMQ client's. A
verified code is followed by user registration, the check for concurrent sessions and
the login of the session model. Every guarded endpoint runs the validation first. The synchronous
batch and the workers share the scorer and the cached groups.

What is hard: handlers, requests and workers interleave at every await; check-then-act
pairs are two statements (existing row and insert, cooldown and SETEX, INCR and
EXPIRE, find user and insert, load session and save); RabbitMQ redelivers after a
crash or a lost connection; a retry is a publish and an acknowledgement; all requests
of a process share one channel that is opened once; caches
outlive what they were read from; keys and rows expire between two reads.
`PROJECT.json` lists these hazards one by one, each at its line, with the properties
that would notice; a hazard that the code does not prevent says so in its note, with what the
properties establish in its place.

## 2. Modules

| Module | Models | Checked by | Proofs |
|---|---|---|---|
| `PredictionPipeline` | pipeline, worker's half of the RabbitMQ client, worker process | `MCPredictionPipeline` (four configurations) | `PredictionPipelineProofs` |
| `ScoringLifecycle` | what the pipeline promises of one prediction (abstract) | refined in `MCPredictionPipelineLive.cfg` | refinement in `PredictionPipelineProofs` |
| `BrokerClient` | the API process's half of the RabbitMQ client: one channel, declarations, publishes, queries | `MCBrokerClient` | `BrokerClientProofs` |
| `Scoring` | scorer, helper, mapper | `MCScoring` (two configurations) | `ScoringProofs` |
| `SyncBatch` | synchronous batch, group cache, seed script | `MCSyncBatch` | `SyncBatchProofs` |
| `OtpFlow` | sending and verifying codes | `MCOtpFlow` | `OtpFlowProofs` |
| `OneTimeCode` | what the codes of one key promise (abstract) | refined by `OtpFlow` in `MCOtpFlow.cfg` | refinement in `OtpFlowProofs` |
| `PhoneLogin` | accepted code, registration, check for concurrent sessions, session row | `MCPhoneLogin` | `PhoneLoginProofs` |
| `SessionAuth` | sessions, guard, cleanup | `MCSessionAuth` (two configurations) | `SessionAuthProofs` |
| `SessionTable` | what sessions promise: one table, each request answered in one instant (abstract) | refined by `SessionAuth` in `MCSessionAuth.cfg` | in the module itself; refinement in `SessionAuthProofs` |

How they compose. `PredictionPipeline` takes a publish as one step; `BrokerClient` opens
that step and shows when it is right to (`AnsweredMeansHandedOver`). `PhoneLogin` has the
codes of several phones, stored, accepted and deleted as `OneTimeCode` allows and `OtpFlow`
implements for one phone with every Redis call, and goes on where `OtpFlow` ends: that is
an argument over the two texts, not a theorem. `PhoneLogin` ends with the row `SessionAuth` begins with. `SyncBatch` uses the worth of a draw and
`Scoring` says what a draw makes of a payload.

Conventions. One action is what the code does between two awaits that other actors
could tell apart. A process, handler or request has a program counter in `pc`
(`trigPc` for triggers), named for the step to come; an early return is the state it
leads to. Whatever the code holds in a local variable across an await is a variable of
the model (`todo`, `job`, `token`, `sess`, `groups`, `page`), because that is where it
goes stale. Variables marked *history* are read by no guard; they let a property speak
of the past. Definitions headed *Mutant of X* are not part of any specification: each
is X with a plausible bug, kept to confirm that the properties notice it.

### PredictionPipeline
`ready[j]` counts the ready messages of job `j` (prediction and retry count, which is
all a handler reads of a message), `dlq` the dead-lettered ones, `results[p]` the rows.
A slot is one of the `Prefetch` handlers a worker may run; a slot with a message whose
worker's connection is open is an unacknowledged message. `CreatePrediction`,
`SelectUnprocessed`, `ReadTotal`, `SetTotal`, `SetProcessed`, `PublishJob` are the
API's half. `Deliver` is RabbitMQ's; `CheckExisting`, `ScorePrediction`, `SaveResult`,
`CountProcessed` are `processPredictionJob`; `AckJob`, `Republish`, `AckOriginal`,
`DeadLetter` are `processMessage` and `handleMessageRetry`. `HandlerFault` is a
rejected database or Redis call. An INSERT or INCR whose handler was ended, or stopped
waiting for it, may still be on its way (`Abandon`): `inflight` counts such INSERTs per
prediction, `lateCounts` such INCRs, and `LateInsert` and `LateCount` carry one out at any
later time, after the redelivered or republished job has looked for a row too, or never.
`Resend` is ioredis sending an unanswered command again after it reconnects
(`redis/redis.service.ts:14-24` leaves that on): the INCR, the SET of the total or the
reset of `processed` is carried out and its caller goes on waiting.
`Disconnect` closes a connection under a running process: the code only logs it, its
handlers go on, RabbitMQ hands their jobs out again, and the first acknowledgement on
the closed channel throws into an unhandled rejection that ends the process
(`ChannelClosed`). `Crash` ends it anywhere. Docker restarts it in both cases.

Publishes are unconfirmed in the code. A publish lost on its way equals one never made:
the row has no result and the next trigger selects it again; `FailTrigger` covers it
for a trigger. A *retry* whose publish is lost after its original is acknowledged is
outside the model (RabbitMQ is taken to keep what was written to an open channel).

### BrokerClient
`wire` is what the process has written and RabbitMQ has not read. `Call` is a request
with a reply (declare, depth, health, purge): amqplib keeps one outstanding per channel
and queues the others, so it waits until nobody is `waiting`. `AssertNext` walks
`assertQueue`'s four declarations in `Order`; `publishToQueue` repeats them for each job
(`asserted` is reset by `SendJob`). `SendJob` is `sendToQueue`: it writes at once, gets no
confirmation, and returns `false` from `HighWater` on for a job it has written all the
same, which the trigger then does not count (`queuedCount`). `Refuse` is any call on a
closed channel. RabbitMQ's steps are `Declare`, `AcceptJob`, `Answer` and
`CloseOnMissing`: a passive declare (or purge) of a missing queue is answered by closing
the channel; nothing listens for the channel's `error` event, so the process may go on
with a dead channel or end. `Disconnect` and `Crash` cut the wire; `Connect` happens at the
start of a process only. Workers declare the same objects on channels of their own.

### Scoring
A payload maps each key to a JSON value, of which the code asks what a `Set` made of it
contains (`items`) and which ids its `.includes` finds (`names`). Nothing checks a payload
before it is stored, so a list may name ids of no team, and a value may be a text (a `Set`
of its characters, `includes` by substring), a `null` (an empty `Set`, no `includes`) or
something no `Set` can be made of (`Values`). `Scorable` says which of them throw: the last
kind always, a `null` when the search for Iran comes to it, which the first three rules
return before (`NullBeforeIran`). Keys come back from
`jsonb` in the database's order (`KeyOrder`), which decides which list `findGroupWithTeam`
sees first. `ResultOf` is `scoreUser` with the stored details, and the one action `Score`
gives a payload its row. `TableScore` is the published table, stated over assignments of
teams to groups and independent of the code's loops. The assumptions on the draw are what
table `teams` and its seed give: each team in one group, at most four to a group.

### SyncBatch
A row of `predictions` has its `created_at` from the start of its transaction and is
visible from the commit, so rows need not appear in the order of the paging
(`BeginInsert`, `CommitInsert`), and two rows may have the same. The pages are ordered by
`created_at` alone, so each query may put tied rows in an order of its own (`Orders`; the
database's clock is taken not to step back, `Now`). The batch reads the cached groups or loads and caches
them, then fetches, scores and saves page by page; one unscorable payload ends it. The
seed script clears and refills the teams in two statements. New runs give teams new
ids, so a draw is a number.

### OtpFlow
One phone. A key carries the ticks it has left; `Tick` may fall between any two Redis
calls. A send names the code it generates. `validFor` is the `expiresAt` inside the
JSON, taken before SETEX runs and thus sometimes short of the key. The unawaited DEL of
an expired code is a step that follows the answer (`DeleteLate`). The counter has lives:
one ends when its key expires or is deleted, and the numbers INCR gives out begin again
(`life`). `lives[c]` are the lives that can number a guess compared with code `c`, `faced[v]`
the code verification `v` was compared with, whenever its INCR ran. A command that ioredis
sends twice is not modelled here: an INCR carried out twice only makes the counter larger,
and a SETEX or EXPIRE starts its time over.

### OneTimeCode
`code`, `issued` and `accepted` of one key; `Store`, `Abandon`, `Accept`, `Drop`. Under
`OtpFlow`'s mapping a send that ends before its SETEX abandons its code, a verification
that passes the comparison is `Accept`, and every DEL and expiry is `Drop`.

### PhoneLogin
A spelling is a sequence of characters, since what `normalizePhoneNumber` does to them is
what decides who shares an account (`Normalize`); Redis keys are per spelling, `users` per
normalised phone. `AcceptOtp` is a `verifyOtp` whose comparison succeeded, `DeleteOtp` and
`DeleteAttempts` its cleanup, `FindUser`, `UpdateUser`, `InsertUser` are
`findOrCreateUser`, `CheckConcurrent` and `InsertSession` the first half of
`createSession`. `Kept` lists the characters one of `normalizePhoneNumber`'s replacements
keeps, by their positions (an assumption of `MCPhoneLogin` compares it with `SelectSeq`,
which the provers cannot look into). `Dial`, on the side of the property, is what the phone
means: digits of other alphabets (`LocalDigits`), which `IsPhoneNumber('IR')` accepts, count
as the digit they stand for (`AsciiOf`), where the code drops them. A login names the id of the row it may insert into `users` and of its
session; ids never collide. `Fail` ends a login anywhere, its code already spent.
Verifications that do not succeed change nothing here but the counter, which is
`OtpFlow`'s.

### SessionAuth
A login names its session and refresh token, a login or refresh names the access token
it generates; so `rows[s]` is the token whose hash the row holds. `accessCache` maps a
token (its prefix) to a session id. `Validate` is the guard with the cache path, the
invalidation, the search of the newest `RecentLimit` rows *of all users*, and the
re-caching. A refresh loads an entity, and `save` is the three steps TypeORM makes of
it: select by id, then UPDATE or INSERT. The INSERT is what revives a row deleted in
between. `Fail` ends a request whose call rejects. In the guard the code answers such a
request with 401 (`auth/guards/auth.guard.ts:103-107`), as if its token were no good; here
it is `failed`, not `rejected`, and so outside `RejectedForCause`.

### SessionTable
`held[s]` is the token under which session `s` is in the table, `given[t]` the session a
token is made for, `stage[r]` what has become of a request. Under `SessionAuth`'s mapping
(`Stage`, `Given`, `Presented`, `ActsFor`) `held` is the rows; a guarded request is let in
at the query that finds its token's row (`LoadCached` or `SearchRecent`) and a refresh
begins where it loads one; all before that stutters, and Redis is not in the picture: a key
that outlives what it was read from lets nobody in, and one that lapsed early only ends a
request, as any failure may. That a refresh puts
back a session removed meanwhile (`Rotate`) is part of what the code promises, and so of
the abstraction.

## 3. Runs

All bounds are constants of the configurations; budgets are the only bounds that are
not the program's own.

| Run | Question | Instance | Outcome |
|---|---|---|---|
| `pipeline` | Are jobs lost, rows or counts unaccounted for, jobs dead-lettered early? When do the two claims below hold? | 1 prediction, 2 workers, prefetch 1, 2 triggers, 2 retries, 1 crash, 1 disconnect, 2 failed or resent calls | holds, 2.2 M states |
| `pipeline_live` | Does the pipeline implement the lifecycle, and come to rest? | 1 good and 1 malformed prediction, 2 workers, 1 trigger, 2 retries, one of each failure, fair | holds, 0.6 M states |
| `duplicate_rows` | Is a prediction scored into one row? | 1 prediction, prefetch 2, 2 triggers, no failure | violated |
| `complete_means_done` | Do the statistics tell when all is done? | 2 predictions, 1 worker, 2 triggers, no failure | violated |
| `scoring` | Is the code's score the published one? | 12 teams in 3 groups, all complete payloads up to exchange of like teams, a family of partial ones and of texts, nulls and objects, ids of no team | holds, 9488 states |
| `scoring_full_marks` | Do 100 points mean all teams? | same | violated |
| `sync_batch` | What does a batch leave out, repeat or cache? | 3 predictions (1 malformed), ties in `created_at`, 2 batches, page of 2, 1 reseed, 1 failure, fair | holds, 2.3 M states |
| `otp` | Spacing, single use, guesses per life of the counter, lock-out; does it implement `OneTimeCode`? | 2 sends, 2 verifications, expiry 2, cooldown 2, window 1, 1 attempt, 1 failure | holds, 1.9 M states |
| `sessions` | Who is admitted, refused, revived; is it all one table (`SessionTable`)? | 2 logins, 1 refresh, 2 guarded requests, limits 1, 1 lapse, 1 failure | holds, 0.5 M states |
| `sessions_logout` | Is logout final? | 1 login, 2 refreshes, 2 guarded requests, no failure, no lapse | violated |
| `broker` | Do routes stand, are answered jobs handed over, who costs the channel, does every trigger end? | 2 triggers (of 2 and 1 jobs), 1 query, 1 worker, high water 2, 1 disconnect, 1 crash, fair | holds, 0.1 M states |
| `login` | Who shares an account, who fails at the UNIQUE column, what goes unnoticed? | 3 logins from 2 addresses, 2 codes, 7 spellings of 2 subscribers (2 in Persian digits), check limit 1, 1 failure | holds, 0.3 M states |

Why these bounds are enough to be of use:
- *pipeline*: every duplicate needs two holders of one prediction's job, so one
  prediction, two workers and two triggers meet all pairs of holders, with failures
  before, between and after. The two failed calls are exactly what a good prediction
  needs to be dead-lettered at two retries, so `DeadLetterNeedsFaults` is at its limit. Predictions
  share only the statistics; the second one comes in with `pipeline_live` and
  `complete_means_done`.
- *sync_batch*: three predictions over pages of two give a full page, a short page and
  a page shifted by a late commit, and ties of two and of all three rows lie on either
  side of a page's edge or across it.
- *otp*: one allowed attempt makes the second guess the forbidden one; windows of one
  and two ticks make every key run out before, with or after each other.
- *sessions*: limits of one make "one other session is newer" the case where the
  database fallback misses a row; the one lapse may strike a key, which leads there,
  or a row, which the cleanup then removes. Both sessions belong to one user, so
  `DeleteAll` removes one or both. The refinement takes the place of the type invariant
  here, which TLAPS proves (`TypeCorrect`).
- *scoring*: three groups are the fewest in which two, three and four teams can be wrong
  with a group left whole; the partial payloads bring unknown keys and ids, double
  listings, and texts, nulls and objects in the first, a later or an unknown key. The smaller draw is no loss: the proofs are for
  every draw.
- *broker*: two triggers and one query are enough for one to wait for another's reply
  while a third party declares, closes or cuts; a high-water mark of two makes the
  second job on the wire the one `sendToQueue` returns `false` for; one crash may strike
  the API process or the worker between two declarations. The query is any of depth,
  health and purge.
- *login*: five spellings are one subscriber behind `09`, `+98`, `98` (punctuated)
  and `0098`, and another one, so every branch of the normalisation and every pair of
  prefixes meets; two more are these subscribers in Persian digits; a limit of one makes a single newer session hide an older one, and the
  third login is the one it is hidden from. Two codes let two logins share one code or
  come with one each.

What the passing properties say beyond their names is in the comment above each. Some
are worth pointing out.
- `RowsBoundedByCopies`: the check for an existing row absorbs a retry or a redelivery only
  if the row of the handler before is already there to be seen. Beyond that, rows are
  doubled by a second trigger, by a lost connection, by a death between republishing and
  acknowledging, and by an INSERT of a dead or failed handler that commits after the next
  handler's check (`slipped`); the property counts one row for each of these and shows that
  there are no others.
- `CounterAccountsForRows`: the counter and the rows drift apart in both directions, and the
  property says by how much: ahead by commands sent twice, behind by failures, and by what a
  reset threw away (`wiped`), which is added back. What the drift does to a reader is
  `complete_means_done`.
- `ClaimsHoldOnce`: the two claims that runs refute, under the conditions that make them true.
- `RejectedForCause` (sessions) names all reasons for a valid access token to be turned away,
  among them the one a user cannot see: the key lapsed and other users' sessions fill the
  search. Refresh tokens, requests whose call failed, and clients that never received their
  token are outside it.
- `RejectedForCause` (codes) is about answers *rejected*; a verification over the attempt
  limit ends *limited* and is answered 429.
- `SpacedSends` counts from the start of one send to the start of the next. `docs/API.md:224`
  and `README.md:157` state the limit without a condition; sends that overlap, and sends
  whose SMS failed, are outside the property, and the time between two texts can be shorter
  because the keys are set before the SMS is out.
- `GuessBudget` is per life of the counter. A code faces more than `MaxAttempts` guesses when
  the counter's window ends while it is stored, or when a cleanup of another verification
  deletes the counter; guesses numbered before it was stored count too.
- `BatchCoversAll` and `PagesInOrder` speak of rows that share their `created_at` with no
  other; a tied row can be skipped or stored twice, and `RepeatNeedsLateCommitOrTie` bounds
  the repeats.
- `AnsweredMeansHandedOver` says that the count a trigger reports is too low and its jobs are
  none the less all on their way. `UnnoticedNeedsOverlap` says what the take of the check for
  concurrent sessions can hide; that overlapping logins do not see each other is outside it.

## 4. Fairness

- *Pipeline*: weak fairness of `Deliver` per job (RabbitMQ delivers what is ready while
  a consumer has room) and of each slot's handler (Node runs a handler on when its
  await settles; calls that never settle are not modelled). Nothing forces users,
  triggers, crashes or faults, and no write in flight need ever arrive. Because `Disconnect` is bounded below the number of
  workers, one worker keeps its connection; with all connections lost and idle, nothing
  in the code would reconnect, and jobs would wait for a restart. With that, and with
  failures bounded, `QueueDrains` and the `NeverStuck` part of the lifecycle hold.
- *SyncBatch*: a key with a time to live expires. `StaleDrawFades` needs that, and that
  reseeding and batches are finitely many; no request need go on.
- *BrokerClient*: RabbitMQ reads what is written, a process that ended is started again
  (`restart: unless-stopped`), and a trigger that has begun goes on when it can. Nothing
  makes a request arrive, and no fairness is asked of workers or of losses. With that
  every trigger that began ends (`TriggersEnd`), though its call may be outstanding when
  the channel dies.
- *OtpFlow*, *OneTimeCode*, *PhoneLogin*, *SessionAuth*, *SessionTable* and *Scoring* state safety only, and end when all requests
  are answered; deadlock is not an error there, nor in *SyncBatch* and *BrokerClient*, which stop when
  all is answered and consumed. The pipeline has an explicit `Rest`, so
  deadlock is checked for it.

## 5. Proofs

The eight modules with proofs hold for all values of the constants that meet the named
assumptions: any finite sets of predictions and workers, any requests, any prefetch,
retry limit, page size, check limit, time to live and budget, any draw, any payload, any
phone. The assumptions ask for types, finiteness where something is counted, the
distinctness of the null values, (`PhoneLogin`) at least one spelling, and (`Scoring`)
what table `teams` says of a draw. Each state machine has an inductive
invariant, named below by its parts; TLC checked the invariants on the small instances
before they were proved.

`PredictionPipelineProofs` (`IInv`)
- `TypeCorrect`: `Spec => []TypeOK`, from `StepTypeOK`, one step per action.
- `NoJobLost`: `Spec => []NoLostPrediction`. The property alone is not inductive:
  acknowledging removes a holder, which is harmless only because a row exists by then
  (`RowBeforeAck`). With it, `LiveKept` shows that a step that takes away the last
  live message of a prediction leaves a row or a dead letter, and `OutcomeKept` that
  those stay. Redeliveries make a message ready as they take it from its holder
  (`RequeueFacts`, `DuplicatedFacts`, from the cardinality theorems).
- `RowsPerCopy`: `Spec => []RowsBoundedByCopies`. `RowsPaidFor` is a potential: a row, or a
  handler past the check, stands for a copy of the job or for an INSERT that slipped past a
  check; while there is no row, every ready message and every handler stands for a copy. Messages are counted one by one, as pairs of a
  job and a number (`Numbered`), so that one more or less is one element (`OneMore`,
  `OneLess`); a lost connection makes no more messages ready than it held, by an
  injection into the unacknowledged slots (`RequeuedMessages`).
- `CounterAccounts`: `Spec => []CounterAccountsForRows`, from `CountsPaidFor`. Above: what was
  counted, is about to be or is on its way is at most the stored rows and the commands sent
  twice. Below: the rows, those in flight among them, are at most what was counted or wiped,
  the handlers about to count, the failed calls, and `Prefetch` for each time a worker's
  handlers were ended (`Ended`).
- `DeadLettersPaidFor`: `Spec => []DeadLetterNeedsFaults`, from `RetriesNeedFaults`: a
  header of n has n failed calls in its past, whoever held the message.
- `ClaimsHold`: `Spec => []ClaimsHoldOnce`, the conditions under which the two claims that
  runs refute are true. While no job is handed out twice (`copies`), no INSERT slipped past
  a check and no command was sent twice, `RowsPerCopy` leaves one row to a prediction; then the rows map one to one to predictions, and if the total
  covers all that were handed out, the upper half of `CounterAccounts` leaves room for none without an
  outcome.
- `RefinesLifecycle`: every behaviour is one of `ScoringLifecycle`'s safety part under
  the mapping `Status`. It needs that queued messages are of stored, queued predictions
  (`OnlyQueuedJobs`), or a delivery could start a status from nothing.

`BrokerClientProofs` (`CoreInv`, then `IndInv`)
- `TypeCorrect`, `RoutesAlwaysStand`, `ChannelKept`: from `CoreInv`. Every frame on the wire
  is in place and at most one is a call (`WireWellFormed`); whatever a process has behind it
  of `Order` is declared; so a queue that exists had its route first, and a query that names
  a declared object is answered.
- `AnswersAreComplete`: `Spec => []AnsweredMeansHandedOver`. While a trigger's wire was
  never cut, what arrived and what is on the wire add up to what it sent; `JobsAppend` and
  `JobsTail` say how the positions of its jobs change as the wire grows and is read.

`OtpFlowProofs` (`IndInv`, `GuessesNumbered`)
- `TypeCorrect`; `RefinesOneTimeCode`: `OtpFlow` implements `OneTimeCode`.
- `SendsAreSpaced` from `CooldownCovers`: whoever set the first cooldown key has it cover the
  time since it began. `CodesSpentOnce` from `NewestInKey` and `SpentIsGone`: the key holds
  the newest code or nothing, and an accepted one is gone when its verification is done.
  `RejectionsHaveCause` from `DelFindsOld` and `GoodCodeStays`: a DEL to come finds an old or
  a used code, so a good one stays. `CountersEnd` is inductive with the types.
- `GuessesBounded`: `Spec => []GuessBudget`. The numbers one life of the counter gives out are
  all different, and every guess that reaches a code has its number from a life that reaches
  it (`GuessesNumbered`), so the guesses map one to one into `lives[c] \X (1 .. MaxAttempts)`.

`PhoneLoginProofs` (`IndInv`)
- `TypeCorrect`; `KnownNeverConflict` from `KnownHaveAccounts`: accounts are not taken back.
- `OneAccount`: finished logins share an account exactly if their *normalised* phones are
  equal, from `AccountsAreOwned` and `AccountsAreFound`.
- `AccountsTellNumbers`: `Spec => []OneAccountPerNumber`, the same in terms of the phones as
  dialled, for phones in ASCII (`AsciiDialsKept`); phones in other digits alone are all one
  string (`LocalKeepsNothing`). `NormalizeTellsSubscribers` says that normalised phones of any length are equal
  exactly when prefix and subscriber are, 98 and +98 being one: what is kept of a spelling is
  again a sequence (`KeptIsSequence`), a phone is its prefix and its rest
  (`PhoneFromParts`), and so is what is dialled (`DialledParts`). A character is any string;
  `Chars` adds "+" to them, because the provers do not know a literal to be a string.
- `UnnoticedOverlap`: `Spec => []UnnoticedNeedsOverlap`, with `RowsAreRanked` and
  `SightedHaveRows`: among the newest `CheckLimit` sessions all are from the login's own
  address, and by the least-number principle one outside has that many newer ones.

`SyncBatchProofs` (`IndInv`)
- `TypeCorrect`, `BatchesCoverAll`, `PagesStayInOrder`, `RepeatsAreExplained`, for whatever
  order each query puts tied rows in. A row's rank, the number of visible older rows, only
  grows as late rows commit (`BelowGrows`), and its place in a page is its rank and at most
  the rows tied with it more (`PlaceAndRank`); a row without a tie is at its rank
  (`PlaceOfAlone`). So whatever has a rank before the offset and no tie has been stored
  (`NothingSkipped`). `RepeatsPaidFor` splits a rank into rows that were there and rows that
  arrived (`RankSplit`): each further row of a prediction needs the offset to pass it again,
  hence another late arrival before it or another row tied with it.

`ScoringProofs`
- A score is computed in one step, so these are proofs about operators; that the row is the
  one `ResultOf` makes of the payload is the lemma `TypeCorrect`.
- `DetailsFitTotals`: `Spec => []DetailsAgreeWithTotal`, for every payload the code scores, texts
  and nulls included: what is listed is misplaced or correct (`ListedIsSplit`), and Iran's group counts only
  when perfect (`IranGroupIsPerfect`).
- `PublishedTable`: `Spec => []MatchesScoringTable`. The code counts pairs of a key and a
  team, the table counts teams. A complete prediction lists as many pairs as there are
  teams (`ListedByTheTeams`), so each team is listed once (`CompleteIsAssignment`), pairs
  and teams match (`MisplacedAreWrong`, `RightTeamsUnderKey`), and the conditions of the
  code are the table's (`CodeSeesTheTable`); the chain of early returns picks the best.
- `FullMarksOfComplete`: the claim `scoring_full_marks` refutes holds of complete predictions.
- `CorrectionsPay`: `Spec => []CorrectingNeverCosts`. Two and three wrong teams are compared by
  equality, and the case between them and none cannot come up (`NeverOneWrong`); a group with
  three right teams keeps them or becomes whole. That needs groups of at most four
  (`GroupSizeAssumption`): with five, a fourth right team would end the 20 points for three.

`SessionTable` (`IInv`, proved in the module itself)
- `BoundTokens`: `Spec => []TokensAreBound`: a session holds only tokens made for it, and who
  is let in is let in as the user whose session the token was made for.

`SessionAuthProofs` (`IInv`)
- `TypeCorrect`.
- `RefinesTable`: `Spec => ImplementsTable`, one lemma per group of actions (`IssuerSteps`,
  `GuardedSteps`, `GuardedLooks`, `LogoutSteps`, `TimeSteps`, `FailStep`), over `StageMoves`,
  which says what a step of a program counter is in the table. It rests on `IInv`: a loaded
  row is let in only by its current token, and what a refresh saves is what it was given.
- `TokensActForTheirUser`: `BoundTokens` carried over to the code's requests.
- `StaleTokensStayOut`: `Spec => []NoStaleAdmission`. The guard reads the row well
  after the request began, and a re-cached key may name a row that has changed since.
  The strengthening `NeverCurrentAgain` says that a token that is not its row's current
  one when a request starts never becomes it again: rows are only written with the
  writer's own, new token.
- `RejectionsHaveCause`: `Spec => []RejectedForCause`. A token is in a row or in Redis only
  for the session it was made for (`TokensKnowTheirSession`); an answered token is not
  cached only if its key lapsed or its row has moved on (`UncachedForCause`); what brought a
  request to the search is remembered (`SearchedForCause`); and each cause, once given,
  stays (`LostStaysLost`).
- `RevivalNeedsRace`: `Spec => []OnlyRacedRefreshRevives`, from `RacesAreKnown`: a
  refresh that holds a deleted session raced its deletion, or another one that did has
  put the row back.

Only model-checked: liveness (`QueueDrains`, `NeverStuck`, `StaleDrawFades`,
`TriggersEnd`), which rests on fairness and is out of the prover's reach; and that `Kept`
selects as `SelectSeq` does, which is recursive (an assumption of `MCPhoneLogin` that TLC
evaluates over the run's spellings).

## 6. Where code and words differ

Shown by a run:
- Two copies of a job handled at once store two rows (`duplicate_rows`);
  `prediction.processor.ts:84` and its test promise a check for already processed ones.
- The statistics keep the first trigger's total, so the monitor prints "Processing
  complete!" early (`complete_means_done`).
- 100 points for a payload that lists no team, or few, all rightly
  (`scoring_full_marks`), against "All teams correctly placed".
- A refresh that overlaps a logout brings the session back (`sessions_logout`).

Shown by a passing run, in what its property has to admit:
- `queueAllPredictionsForProcessing` "returns the number of predictions queued"
  (`prediction/prediction.service.ts:76`) and counts only those `sendToQueue` returned true
  for, while all are queued (`AnsweredMeansHandedOver`).
- `isHealthy` swallows the error of its check, "which is fine"
  (`rabbitmq/rabbitmq.service.ts:262`): the server closes the channel over the missing queue
  and the method answers true, now and on the dead channel. `ChannelKeptByQueries` excepts
  it. Neither `isHealthy` nor `purgeQueue` is called in the program.
- A depth query before anybody declared the queue costs the process its channel as well,
  and no channel is opened again (`ChannelKeptByQueries` holds from the declaration on).
- "Normalizes a phone number to a standard format" (`auth/services/user.service.ts:70`)
  leaves `09...`, `0098...` and `+98...` of one subscriber three accounts; codes, cooldowns
  and counters are kept per spelling as typed (`OneAccountPerNumber`).
- `IsPhoneNumber('IR')` (`auth/dto/send-otp.dto.ts:9`) accepts a phone in Persian or
  Arabic-Indic digits, and `normalizePhoneNumber`, which "Removes spaces, dashes"
  (`auth/services/user.service.ts:71`), removes these digits too: different subscribers
  normalise to the same, empty string and share an account (`OneAccountPerNumber`, second
  half). What becomes of a phone that mixes the alphabets is not stated.
- "Check if already processed" (`prediction/prediction.processor.ts:84`) also misses a row
  whose INSERT, of a handler that died or gave up, commits after it (`RowsBoundedByCopies`).
- The counter of processed predictions counts twice what ioredis sends twice, and misses
  what failed between INSERT and INCR (`CounterAccountsForRows`).
- The batch orders its pages by `created_at` alone, so of rows created at one instant some
  may be skipped and some stored twice (`BatchCoversAll`, `RepeatNeedsLateCommitOrTie`).
- The limit on guesses holds per life of the counter, not per code (`GuessBudget`), and the
  one on sends not for sends that overlap (`SpacedSends`).
- A failing query or Redis call in the guard is answered 401, which tells the client that its
  token is no good (`Fail` in `SessionAuth`).
- The window of the check for concurrent sessions is compared with `expiresAt`
  (`auth/services/fraud-detection.service.ts:63`), so it leaves out no session that lives.

Seen while reading, without a run: the nested body of a prediction documented in
`docs/API.md` (a `groups` object) is stored and can never be scored, no `Set` being made of
its one value; `docs/API.md` announces 100 requests a minute per IP and the guard for it is applied
to no controller; `deleteSession` says it invalidates the Redis cache
(`auth/auth.service.ts:244`) and does not, which `NoStaleAdmission` shows to be harmless for
admission; the access token's 900 seconds (`README.md:144`) end only its cache key, the
database fallback goes on accepting the token while the row lives; the synchronous mode
scores every prediction again each time it is triggered, while the controller speaks of
unprocessed ones (`prediction/prediction.controller.ts:105`).

## 7. Not modelled

- Audit log, metrics, failure counters and the pattern checks of a phone: written or logged,
  never read to decide anything.
- Rate limiting guard: in no request's path. Admin and metrics guards, IP check of the
  auth guard (off by default): stateless comparisons.
- Configuration checks, HTTP shell, DTO validation, SMS providers (a step that succeeds
  or fails in `OtpFlow`), migrations (their constraints, or the lack of them, are in the
  guards).
- Read-only queries: leaderboard, results, status, session lists. `getUserByPhone` and
  `updateLastLogin` are called by nothing.
- bcrypt, random tokens and prefixes: ideal; no two tokens share a prefix.
- Commands that ioredis sends twice, outside the pipeline; late commits of INSERTs of logins
  and sessions whose request has failed.

## 8. Plan

Done: the pipeline with its abstract life cycle, the RabbitMQ client, the scorer, the
synchronous batch, codes with their abstraction, logins, sessions with theirs; all safety
properties of the passing runs are proved.

Left, in this order:
1. An abstract trigger (jobs selected, handed over, counted) that `BrokerClient` implements,
   so that the one-step publish of `PredictionPipeline` is a theorem and no longer only an
   argument (section 2).
2. `RateLimitingGuard` as a component on its own: its counter, window and what
   `docs/API.md` announces, should it be applied.
3. A composition of `OtpFlow` with `PhoneLogin`, with commands sent twice in both.
4. The cleanup's counts against its deletions, should anything come to read them.
