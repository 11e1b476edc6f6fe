# TLA+ models of ais-pkg

ais-pkg is a library of infrastructure packages for Go services: Kafka and RocketMQ adapters, a Redis
lock, an idempotency checker, a tenant-aware repository over GORM, staged shutdown, gRPC and HTTP
servers wired through fx. This directory models the parts of it whose correctness depends on
interleavings, failures and orderings. Every module names the Go file it is translated from, and
`PROJECT.json` gives the lines each definition stands for.

To run a check: `tlc -config MCShutdown.cfg MCShutdown`. To check the proofs: `tlapm ShutdownProofs.tla`, and likewise
the other modules named `*Proofs`.

## 1. The system and its components

| component | state | operations | hard behaviour | what makes it correct |
|---|---|---|---|---|
| `shutdown` | hooks, `once`, `done`, result channel per group | `RegisterHook*`, `Shutdown`, `Wait` | hook goroutines outlive their group, two timeouts, several callers | priority order, honest verdict, runs once, terminates |
| `cache/redis` lock | key and TTL in Redis; `value`, `acquired`, `extendCancel` | `Acquire*`, `Release`, `Extend`, auto-extension | expiry against renewal, lost answers, old goroutines, crashes | mutual exclusion under a lease, one live loop, no eternal lock |
| `idempotency` | one Redis key per event | `Check`, `Mark`, `CheckAndMark` in three modes | lost answers, degradation, two consumers | at most once / at least once, each in its usage |
| `mq/kafka` consumer | session, marks, committed offset; `cancel`, `client` | `ConsumeClaim`; `Subscribe`, `Start`, `Close` | eviction in a handler, lost commits, retries; concurrent `Start`, abort | no message passed over; one consume goroutine |
| `mq/kafka` producer | `closed`, sarama's channels, per-send result channel | `SendSync`, `SendAsync`, `Close`, `handleAsyncErrors` | sends racing `Close`, results after `ctx.Err()` | every message answered, `Close` final and terminating |
| `repository` | rows; transaction in ctx; tenant context in ctx | create, update, upsert, delete, find, count, page, aggregate; `Execute`, `Transaction`, `ExecInTransaction` | nesting, statements that miss the transaction, scoping of every statement | transactions are units of work, reads and writes stay in scope |
| `transport/grpc` | probe listener, serving goroutine, error channels, GracefulStop's goroutine | fx `OnStart`, `OnStop`; recovery of panics | first Accept racing errors and ctx; a drain that hangs | `OnStart` honest, `OnStop` complete, and bounded for handlers that heed their ctx |
| `transport/http` | ready and error channels, serving goroutine | fx `OnStart`, `OnStop` | readiness racing errors and ctx; cleanup of a start given up | the same, as far as fiber's Shutdown reaches |
| `mq`, `mq/rocketmq` | registry of backends; producer, push consumer, transaction listener | constructors and fx hooks; sends, transactional sends, consumption | lost messages, replies and answers; check-back; process death; order of hooks | a transaction message follows its transaction; nothing is lost or settled against the handler |
| `middleware` | nonce store, global and default limiter | one call per request | a nonce forgotten too early; limiters replaced or made by concurrent requests | headers accepted once, limits kept |
| `errors`, `response` | registry of HTTP statuses, resolver | conversions to and from gRPC, responses | the registry changing under a look-up; errors nobody converted | statuses that were current; answers faithful to the service that failed |
| `ulid` | clock, monotonic entropy, mutex | `Generate` | clock standing still or going back | unique, ascending |
| `validator` | two caches | `Validate` | concurrent fill | cached equals computed |
| `metrics`, `logger`, `database`, `conf`, `cache/redis` client | none, or set-up only | constructors, wrappers | none | - |

How they meet: the consumer's handler calls the idempotency checker and usually the repository inside
one unit of work; checker and lock share a Redis; fx constructs the message queue's clients and the
servers, starts and stops them in order (`Application`); a request passes limiter, authentication, handler,
a call to another service and the error handler (`Requests`); the shutdown manager runs what registered a hook. Callers pass tenant, transaction and deadline through
`context.Context`.

## 2. What is modelled

| module | source | is composed with |
|---|---|---|
| `StagedShutdown` | abstract: stages in priority order | implemented by `Shutdown` |
| `Shutdown` | `shutdown/shutdown.go` | `ShutdownProofs` proves it |
| `LeaseLock` | abstract: a lock with a time to live, where only who asked is granted it, and only its holder's sessions renew it or give it up | implemented by `RedisLock` |
| `RedisLock` | `cache/redis/lock.go` and the scripts in it | `RedisLockProofs` |
| `Idempotency` | `idempotency/checker.go` | extended by `Consuming` |
| `Consuming` | `mq/kafka/consumer.go`, `ConsumeClaim` and the consumer configuration | its handler calls `Idempotency`; `ConsumingProofs` |
| `KafkaLifecycle` | `mq/kafka/consumer.go`, `Subscribe`, `Start`, `abortStart`, `Close`, `signalReady` | `KafkaLifecycleProofs` |
| `KafkaProducer` | `mq/kafka/producer.go` | `KafkaProducerProofs` |
| `UnitOfWork` | abstract: transactions with parts nested in them | implemented by `Repository` |
| `Repository` | `repository/*.go` but `validation.go` | `RepositoryProofs` |
| `RocketMQ` | `mq/rocketmq/adapter.go`, `producer.go`, `consumer.go`, `transaction.go` | extended by `Application` |
| `Application` | `mq/fx.go`, `mq/factory.go`, `mq/rocketmq/fx.go`, `transport/grpc/server.go`, `transport/http/server.go` | composes `RocketMQ` and both servers under fx; `ApplicationProofs` (the queue, then the hooks and servers) |
| `AuthHeader` | `middleware/auth_header.go` | extended by `Requests` |
| `Errors` | `errors/errors.go`, `response/response.go`, `middleware/error.go` (functions of an error) | extended by `Requests` |
| `Requests` | `middleware/ratelimit.go`, `middleware/apikey.go`, the registry of `errors/errors.go`, recovery in `transport/grpc/server.go` | composes `AuthHeader` and `Errors`; `RequestsProofs` |

`MC*` modules give the constants; each property in a module has its comment there.

**Shutdown.** `once`, `pc`, `snapshot`, `pending`, `group` are the winner's state in `Shutdown` and
`performShutdown`; `hook[h]` is the goroutine `executeHookGroup` starts, which outlives the group.
`Snapshot`, `CheckGroup`, `StartGroup`, `Collect*` and `Report` follow the loop line by line; where
Go's `select` may pick either of two ready cases the model has both disjuncts. `ContextEnds` is the
global timeout or the caller's ctx, `HookTimeout` the hook's own, which only cancels a context.

**RedisLock.** One user goroutine per instance (acquisitions are serialised by `acquireMu`), plus
auto-extension goroutines in `Slot`s: an old one can still be in its call when the next starts. A
Redis command is sent, served, and may fail at any moment, before or after the server ran it.
Time is a `Tick` on the TTL; the ticker, back-off, `MaxLifetime` and ctx may fire at any moment,
which includes every timing the durations could produce. `lease` is a ghost: the time for
which the user may count on the lock, measured from the moment the successful command was *sent*.
In `LeaseLock` a session is a goroutine with a call under way, and `asked` what each has asked for; `Asked` reads it off the
commands in flight. A renewal or a deletion that is served for a client without the lock, which the scripts' comparison of
the value excludes, is no step of `LeaseLock`.

**Consuming.** Any member may be given the partition, also while another is in its handler
(`Evict`), and the group fences the loser's commits. `Receive`, `CheckStep`, `Process`, `MarkStep`,
`Succeed`, `Retry`, `Skip`, `StopClaim` are `ConsumeClaim` and the handler it calls; the handler wraps
its work in `Check`/`Mark` or in `CheckAndMark`, as README.md shows both, and returns the checker's
error where the README's example ignores it. `runs` counts how often the business code took effect.

**KafkaLifecycle.** One `Run` per call of `Start`, with its goroutine `loop[r]`, its ctx and its ready
channel (named after it). `StartCall`, `StartReset`, `StartArm`, `StartLaunch` are the pieces of `Start`
between which other goroutines run: the mutex is given back before `cancel` is set, and `signalReady`
takes only `readyMu`. `StartFails` is an error or the start timer, then `abortStart` in three steps; its
stop timer may fire at any moment. The group is in one `Consume` at a time.

**KafkaProducer.** `SendCheck` reads `closed` under the lock, `Offer` sends after the unlock.
`TakeResult`, `DeliverSync` and `DeliverAsync` are `handleAsyncErrors`; `Drain` is sarama's own `Close` reading
the result channels at the same time and throwing away what it reads.

**Repository.** `overlay[c]` is what the caller's open transaction has written; `frames[c]` the nest
of transaction functions, with whether each carries the transaction in ctx. Each operation is an
action that runs on the transaction or the pool according to `WithContext`, and on the rows
`InScope`. `meant` is a ghost: what the statements the caller gave the transaction have
written, maintained from the caller's point of view and not from the connection used. `UnitOfWork` sees only the
table, `overlay` and which functions are parts on their own: all but an Execute in the ctx of an Execute.

**RocketMQ.** Each message is sent at most once; `call` is where its send is, `stored` what the broker has of
it, `told` the answers about its local transaction under way, `delivery` where it is on the consumer's side.
`PlainResult` and `HalfResult` have the disjuncts of a lost message and a lost reply. `local` is the local
transaction, which belongs to the service; a listener may always answer Unknow, and Commit or Rollback
only of what has been committed or rolled back. `Handle` answers for a whole batch, as `toRocketConsumeResult` does.

**Application.** `parts` is a deployment: constructors run in this order and append `hooks`; `numStarted`
counts those started. Each server is a record of its hook, its serving goroutine and its channels:
`GrpcServe` is the first `Accept` of `startupProbeListener`, `GrpcStartReturns` both selects of `OnStart`,
`GrpcStartCancelled` and `GrpcStopCut` the `s.Stop()` behind `ctx.Done()`, after which the code waits for
`serveDone` and `stopped`. `waitForServerStartup` may take any ready case of its select; its cleanup is
`Shutdown`, which misses an app that is about to serve. `Forced` is `grpc.Server.Stop`: it cancels the handlers' ctx, and a handler
may go on all the same, for as long as it likes, which `GracefulStop` waits for. `NewProcess` is a crash or an exit at any moment.

**AuthHeader, Errors, Requests.** A header set is signed once and reaches the service with several requests.
`VerifyHeaders` is `Verify` up to the timestamp, `Seen` the nonce store: it reads the clock (`t`) before it takes the
lock, so calls may come in another order than their times. A failure is a record of what `errors.As` can find in the
chain and of whose text it carries. `Call` has a callee that converts its error, one that panics, and what grpc-go makes of
everything else (`Unconverted`): an error returned as it is goes out as Unknown with its own text, since the interceptors
convert panics only, and a transport failure has a text of grpc-go's. `LookUp` is the critical section of `resolveHTTPStatus` and
`CallResolver` what follows it; `possible` is a ghost, the statuses that were current meanwhile, and `passed` another,
the requests a limiter has let through in its period.

### Outside the code

sarama, go-redis, GORM, RocketMQ's client, fx, grpc-go, fiber, the limiter library, the brokers, Redis and the database are modelled from how `src/` uses them,
and marked external in the map:
a partition is a log, a group has generations, and a fenced member's commit does nothing; a
Redis command is atomic, may fail before or after taking effect, and is not run later once its caller has
given up; SQL statements are atomic, isolation is read committed, a written row is locked until its
transaction ends, and a failed statement changes nothing. GORM's nested `Transaction` is a savepoint.
RocketMQ's broker asks about a half message up to `MaxChecks` times and then discards it, and redelivers a refused
batch up to `MaxReconsumeTimes` times before the dead letters. fx looks at its ctx before each hook, undoes a failed
Start and calls no OnStop for a hook whose OnStart failed. grpc's `Serve` goes on after a temporary error of Accept, and
`Stop` closes every connection but waits for no handler, while `GracefulStop` does. fiber's `Shutdown` waits for requests, without a deadline unless it has a ctx, and
closes nothing in an app that has not begun to serve.

## 3. Runs

| run | question | instance |
|---|---|---|
| `shutdown` | order, honest verdict, once, termination, refinement of `StagedShutdown` | 3 hooks in groups of 2 and 1, 2 callers |
| `lock` | leases, mutual exclusion, one live loop, refinement of `LeaseLock` | a renewing instance with 2 acquisitions and 2 slots, a competitor with 1; TTL 2; symmetric slots |
| `lock_live` | loss noticed, no eternal lock | the renewing instance alone |
| `consuming` | at least once, at most once, who may repeat work | 2 members, 2 messages, 5 configurations; symmetric members |
| `kafka_lifecycle` | a started consumer runs and can be stopped; `Start` and `Close` end | 3 calls of `Start` by one goroutine, 2 calls of `Close` at any moment |
| `producer` | every result reaches who is owed it, late senders, `Close` | 2 `SendSync` (one with a ctx that ends), 1 `SendAsync`, 2 `Close` |
| `repository` | what is meant for a transaction is in it, its reads see it, tenant scope, refinement of `UnitOfWork` | 2 callers in 4 constellations of tenant, department and role, 2 rows, 2 initial tables |
| `application` | honest starts, clean stops, phases that only a deaf handler holds up, transaction messages | a worker (producer, consumer) with one transaction message and one plain one, and a service with both servers; 2 processes |
| `requests` | headers accepted once, limits, current statuses, faithful answers | 2 requests with the same headers; 3 services: header authentication, rate limits, API keys with 2 changes of the registry; symmetric requests |
| `consuming_newest`, `consuming_exists`, `repository_upsert` | a statement of the documentation that the code does not keep | as above |

Most runs have an invariant `Inv`: the types of the module's variables together with the facts about one goroutine or
one record that the deeper properties rest on (who may be where, what is refused, what is closed).

Deadlock is not checked: every system modelled here ends (all hooks done, all messages handled, no
statements left).

**Bounds, and why they suffice.**
- Shutdown needs two hooks in one group (racing results) and a later group; a third caller would only
  block as the second does. The proofs hold for any number.
- RedisLock: `MaxValue` bounds the uuids drawn (2 and 1), enough for release, expiry, takeover by the
  other instance and a second acquisition against the old goroutine; `Slot` (2) bounds goroutines that
  coexist, and an acquisition needs a free slot. `ExtendTries` is 1 and `RetryTimes` 1 in `lock`, 2 in
  `lock_live` (3 in the code); a higher number repeats states. TTL 2 lets
  a key be renewed half-way.
- Consuming: `Last` 2 messages, so a commit can pass over one; `MaxRetries` 2 (3 in the code), which
  has a first failure, a repeat and a last; `MaxRuns` 2 distinguishes never, once and more. The
  five configurations pair each value of `skip_on_error`, `auto_commit`, `initial_offset`, usage and mode
  with the others where they meet; a missing Redis client is one of them.
- KafkaLifecycle: three calls of `Start` give a first that runs, one that meets the old goroutine, and one
  that meets a closed client. They are made by one goroutine (`After`), as the package's fx hook does:
  with two concurrent calls `Inv` and `StartedMeansRunning` fail, since both pass the look at `cancel`
  (listed as a hazard).
- Producer: every pair of (sender kind, closer) and a sender that has to be refused by the second
  closer's time.
- Repository: caller `a` makes 2 statements in up to 2 nested functions, `b` 1 statement alone. One
  statement before, inside or after the inner function, and one of another caller at any point, is
  what the unit properties need; each caller has one open transaction. Batches are of all rows,
  `Models` and `Requests` carry a foreign tenant, a foreign department, a zero value, an unknown column
  and an allow-list.

- Application: two runs of the process let a message of the first be settled by the second; `MaxChecks` 2 lets the
  broker ask while the local transaction is open and again after; `MaxReconsumeTimes` 1 has a refusal that comes back and one
  that is final; `BatchMax` 2 batches both messages. `MaxRequests` 1 is a request that hangs, or that is there when a
  server stops. The two deployments share no variable but fx's, so their product would add orders of independent steps;
  the proofs hold for every deployment.
- Requests: `Horizon` 9 ends the clock after every combination of a timestamp `Drift` (1) early or late, an age up to
  `MaxAge` (1) plus `Skew` (3) and a call that stalls (`Stall` 1) has passed. `Drift + Stall < Skew` is an assumption
  (`AuthAssumption`): with more of either, a nonce can be forgotten while its header still passes. With the defaults, 30
  seconds of skew stand against a fraction of a second cut off a timestamp, clocks that differ and a stalled goroutine.
  `MaxAge` negative (no limit on the age) is not modelled. `changes` 2 lets a registration and a resolver change
  between look-up and call; `Limit` 1 is reached by the second request.

**Fairness.** Safety runs use `Safety` or need none. Liveness is stated under weak fairness of:
goroutines the Go scheduler runs (`Winner`, `SendStep`, `ResultsStep`, `CloseStep`, `LoopStep`, `StartStep`), timers
(`ContextEnds`, `Tick`, `StartFails`, `CtxEnds` for a bounded ctx), and calls that end because the client library
has timeouts (`UserReturns`, `Serve`, `BrokerAnswers`, `Drain`, `ChannelsClose`) or end once
told to (`LoopStops`, `ClientCloses`: a `Consume` nobody stops may hang for ever). In
`Shutdown` a hook need never return: `ShutdownEnds` does not assume it; `HookSends` only says that the buffered
send after a return is not blocked. Nobody has to call anything. `NoEternalLock`
carries its own premise `LifetimesEnd`, since only `MaxLifetime` (or the ctx) bounds an auto-extension.
In
`Application` fx and the servers' goroutines run, fx's timeouts expire and Accept of a stopped server fails. Nothing is
assumed of handlers, brokers and the RocketMQ client: the deadlines of the HTTP server bound a connection's I/O and not a
handler, and `Stop` of gRPC cancels a ctx that a handler may ignore. `PhasesEnd` therefore says that Start and Stop end
unless `HeldUp` holds from some moment on, that is, unless a handler goes on for ever in one of the two places where the code waits for it
without a deadline. That a message is decided or settled in the end is the broker's promise and not stated. Consuming, Repository and Requests have safety
properties only: brokers and databases promise no progress, and a request may be given up at any point.

**Findings.** Each violation run quotes, in PROJECT.json, the line it refutes.
- With the default `initial_offset` newest a failed first message is lost (consumer.go:425), against
  config.go:152.
- `CheckAndMark` answers "processed" for an event only marked (checker.go:230), against line 200.
- `UpsertBatch` overwrites rows of other tenants on a key conflict (crud.go:348), against tenant.go:12.

Noticed while modelling, and without a run of their own:
- A hook timeout does not let the others go on: `executeHookGroup` waits for the hook's result
  (shutdown.go:245) and the later groups are skipped, against shutdown/config.go:16.
- `Release` may be followed by the lock-lost callback (lock.go:233), against the comment at 237.
- `mq.ConsumerOnlyModule` stands under "does not start the consumer" (mq/fx.go:90), but its `ProvideConsumer`
  appends an `OnStart` that starts it (mq/fx.go:77).
- `OnStart` of gRPC fails on a temporary error of the first Accept while `Serve` goes on (grpc/server.go:252), and fx does
  not call its `OnStop`; `CancelledStartEnds` is therefore stated for starts given up for the ctx.
- An HTTP start given up before the app serves leaves it serving (http/server.go:342): the property speaks of apps that the
  cleanup found serving.
- The comment that `Stop` makes `GracefulStop` return at once (grpc/server.go:280) holds for handlers that heed their ctx:
  grpc-go's `GracefulStop` waits for the others, and `OnStop` with it (`HeldUp`).
- The cleanup of a given-up HTTP start calls `Shutdown` without a deadline (http/server.go:343, 383), so a request already
  being served can keep `OnStart` from returning (`HeldUp`).
- `FromGRPCError` takes over the text of any status (errors.go:239) and the error handler answers it: the text of an error
  that a callee did not convert, or of a transport failure with the address dialled, reaches the HTTP caller, though
  `ToGRPCError` and `safeErrorMessage` withhold such texts. `AnswersAreFaithful` names this as the one exception.
- Not covered because the models assume them away: a DEL delayed in the network past its caller and applied to the
  next acquisition with the same value (lock.go:316), a repository bound by `WithTx` called with a ctx of another
  transaction (transaction.go:47), counts and lists of a page that disagree at read committed (page.go:98), a
  fiber.Error that is answered instead of the BizError around it (middleware/error.go:40).

## 4. Proofs

`ShutdownProofs` proves, for any sets of hooks and callers and any priorities in `Int`
(`PrioAssumption`, the only assumption):

`CallersWait` (Inv), `GroupsInOrder` (PriorityOrder), `SuccessIsHonest` (SuccessMeansAllRan), `RunOnce`
(NeverRestarted), `ManagerIsStaged` (ImplementsStaged).

None of the safety properties is inductive. `PriorityOrder` compares running hooks with finished ones
and says nothing of what the winner still has in `pending`, so a step that starts a group
could break it. `IInv` adds
- `OnceInv`: `pc` tells where the Once, `done` and the verdict stand, and nobody returned earlier;
- `SplitInv`: exactly the hooks of `snapshot \ pending` have been started, and a result that was read
  comes from a goroutine that has exited;
- `OrderInv`: everything started has a smaller priority than everything pending, and of two started
  hooks of different priorities the earlier one's result was read;
- `CollectInv`: between groups everything started was collected unless the context ended; while
  collecting this holds of the earlier groups;
- `VerdictInv`: "ok" only with everything collected, "timeout" only after the context ended.

`NextGroupIsLeast` says what `groupByPriority` yields. `CallerStep`, `HookStep` and the winner's
steps each preserve `IInv` (`Invariance`); the properties follow from it, and the refinement maps each
winner step to `Plan`, `Launch`, `Close` or a stutter.

`ApplicationProofs` proves, for any messages, bounds and deployments (`RocketMQAssumption`, `ApplicationAssumption`):
`ApplicationRunsQueue`, that a service takes only steps of `RocketMQ`'s own specification; `MQInvariance`; and from both
`CommittedIsVisible` (VisibleOnlyIfCommitted) and `MessagesAreKept` (the last three parts of Inv). A message becomes visible
on an answer given earlier, so the invariant `MQInv` adds to the types and to what is proved `Decided` (a Commit on its
way is about a transaction that has committed, and a committed transaction's call is past it, so nothing can take the
commit back) and `CallsTell` (nothing is at the broker before the call that puts it there). `SendDecided`, `OtherDecided`,
`SendKeeps`, `OtherKeeps` and `DeliveryKeeps` treat the kinds of step one by one.

`ApplicationProofs` goes on from there and proves, for any deployment, number of runs and of requests: `AppInvariance`,
`ServersStopClean` (StopIsClean) and `ConsumerFirst` (Inv). fx may stop, cut or undo a start at any hook, so
`AppInv` says where fx is while a hook is under way (`Underfoot`), that the queue's OnStops still to come are those of the
hooks below `numStarted` (`QueueHooks`; a consumer is appended after the producer it was given, hence stopped
before it), and that `GracefulStop` is only past once the goroutine has left and no request is open (`Clean`).
`StartsAreEarned` (StartIsEarned) follows because only the last step of each OnStart reports its server up (`UpIsReported`).

`RequestsProofs` proves, for any requests, headers, policies, ages and clocks with `Drift + Stall < Skew`
(`AuthAssumption`): `AuthInvariance`, `RequestsAuthenticate` (the pipeline implements `AuthSpec`) and `NoReplay`
(AcceptedOnce). The invariant behind it says that a verification that is under way read the clock at most `Stall` ago and
its header was fresh then, and that the nonce of an accepted header is kept with an expiry that no later passing
verification can have reached.

`RequestsProofs` then proves about the whole pipeline, for any services, failures, registered codes, statuses, resolvers and
limit (`ErrorsAssumption`, `RequestsAssumption`): `PipeInvariance`, `OnlyAdmitted` (Inv), `StatusWasCurrent`
(StatusIsCurrent) and `FaithfulAnswers` (AnswersAreFaithful). What a handler fails with is in `Failure`: a chain has a
text of its own exactly if it holds a BizError or a fiber.Error. `FaithfulAnswers` says that the code and text a service
meant arrive, and that another text does only if it was `Relayed`: taken over by FromGRPCError from a status that
ToGRPCError did not make. Each property speaks of answers only, so `PipeInv` says
what a request carries before: a failed one an error that names what its handler meant, or Internal if the callee's code
does not travel (`Meant`); a looked-up one a status that was current at some time since (`Looked`); past the guard an
accepted header (`Admitted`); and no limiter has let more through than it has counted (`Counted`).

`RepositoryProofs` proves, for any callers, rows, tenants, contexts, inputs and depths (`RepositoryAssumption`: there is a
caller, and the ids are finite, which a page's total needs): `UnitsArePending` (Inv), `UnitsEndWhole` (UnitEndsWhole),
`ReadsAreScoped` (ReadsStayInScope), `TransactionsSeeTheirWrites` (OwnWritesAreSeen), `WritesAreScoped`
(WritesStayInScope) and `TransactionsAreUnits` (ImplementsUnits). What the connection holds and what the
caller meant could part when a function returns: one rolls back to `saved`, the other to `savedMeant`. `Nested` therefore
says of every function under way which kind it may be: the outermost, and no other, began the transaction; what joins is an
Execute in the ctx of another; what began a savepoint is not, and saved both alike. `Paging` carries the
tenant context of a page from its count to its list. For the writes, `WritesPermitted` shows for each operation that it
may do to each row what it does, and `PermittedChanges` that this is all that changes. The refinement adds that nothing is
pending outside transactions (`Idle`), and maps each statement to `Alone` or `Within`, each call to `Enter`, each return to
`Leave` or `End` (`WritesOfUnits`, `ReadsOfUnits`, `BeginsOfUnits`, `EndsOfUnits`).

`RedisLockProofs` proves, for any instances, slots, times to live and numbers of attempts (`LockAssumption`):
`LeaseIsBacked` (LeaseBacked), `Exclusion` (MutualExclusion), `OneLoop` (Inv) and `LockIsLease` (ImplementsLease).
`LeaseBacked` is not inductive, since an answer turns into a lease long after the command was served. The invariant
therefore bounds what each call in flight has granted: a SETNX or renewal served when it was young has left its value in
the key, for at least TTL less its age (`UserGranted`). For an old auto-extension goroutine (`SlotGranted`) this can
fail, because `Release` may delete the key between its renewal and the answer; but then the user is outside, and
nobody brings that value back, because values are drawn afresh. `UserCalls`, `SlotCalls` and `Values` say
whose value each call has; that makes another instance's command harmless. For the refinement `AskedTyped` and `OwnRequests` say
that what is asked for in the abstract lock is what some goroutine has in flight; `ServeRefines` shows, from the values, that a
renewal or deletion Redis carries out is the holder's own.

`ConsumingProofs` proves, for any members, messages, retries and configurations (`ConsumingAssumption`):
`CommittedIsSettled` (NothingPassedOver), `AnsweredIsDone` (AnsweredTookEffect), `WorkIsDoneOnce` (Inv) and
`OnlyRacersRepeat` (RepeatsAreRaces). `Positions` and `Behind` say that a member has nothing to commit but the offset it
has come to, and that all before it is settled. `OnlyRacersRepeat` is about the window between `Check` and `Mark`: once the key of a
message is written nobody starts its work, and who was past `Check` by then repeats it at most once. `MarkedTookEffect` and `MarkedIsTaken` give a key of the checker its meaning in the two usages: the work
was done, or one member may do it and nobody else. `CommittedWorkIsDone` draws both together: from
the oldest message on, without SkipOnError and with Check and Mark, what is committed has been done; and
`OldestLosesNothing` shows that the loss of run `consuming_newest` needs that setting.

`KafkaProducerProofs` proves, for any senders and callers of `Close` (`ProducerAssumption`): `CloseIsTheEnd` (Inv). Its
invariant follows the one Close that does the work: how far it has come tells how far sarama's producer and
`handleAsyncErrors` have, and where messages can still be. `NothingIsForgotten`, the part of Inv behind
`EveryMessageIsAnswered` that needs no fairness, rests on `Tracks`: where a message is tells what its sender and its fate
are, only a Close throws results away, and only a result delivered is in a sender's channel.

`KafkaLifecycleProofs` proves, for any calls of `Start` and `Close`: `NobodyIsOutOfReach` (Inv) and `AnsweredMeansRunning`
(StartedMeansRunning). Both assume `OneCaller(rank)`, that the calls of `Start` follow each other, and without it both are
false (see the hazard at consumer.go:128). The invariant says what `cancel`, the ready channel and the client hold at
each point of the call that is under way, and that every live goroutine's CancelFunc is in `cancel` or in the hands of a
`Close`.

Only model-checked: liveness, since it needs ENABLED (ShutdownEnds, EveryHookGetsItsTurn, LossIsNoticed, NoEternalLock,
CallsEnd, EveryMessageIsAnswered, BoundedSendsReturn, CloseEnds, CancelledStartEnds, PhasesEnd), and the three
refuted properties. Every invariant, action property and refinement that a passing run checks is a theorem.
UnitEndsWhole is proved but in no run: it follows from Inv and ImplementsUnits, which are.
No module uses RECURSIVE.

## 5. Plan

In this order.
1. Proofs: the part of each liveness property that needs no fairness, as `NothingIsForgotten` is of EveryMessageIsAnswered.
2. `Repository` with models that ignore tenants, query options, and a second transaction of one caller.
3. The `ulid` generator and the `validator` caches, against reference definitions of monotonicity and of validation.
4. prefork's child processes and the health endpoints of `transport/http`.

Not modelled, and why: `repository/validation.go` recognises strings and keeps no state (what it refuses is a failing
statement); RocketMQ's Broadcasting mode (adapter.go:180), in which every process consumes alone and its client drops what a handler refuses,
while the model is of a group in Clustering mode; CORS, SASL/SCRAM adapters, metrics, logger, database and conf construct objects or convert values, and so do the
gRPC client factory, TLS and size limits; expiry of idempotency keys (24 hours against redeliveries within
minutes); panicking hooks and callbacks end the process; callbacks that call back into the producer wait for
themselves (listed as a hazard); of two goroutines that call the consumer's Start at once, both start (listed as a hazard).
