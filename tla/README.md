# TLA+ verification of config_manager

config_manager is a Telegram bot process. It scrapes proxy configs from channels and
subscription links, validates and stores them, publishes the new ones to a channel, and
serves stored configs to users. This directory holds TLA+ models of it, the TLC
configurations that check them on small instances, and theorems that TLAPS proves for every
value of the constants. Paths without a directory are relative to the root of the repository.

Everything in the process runs on one asyncio event loop. A step of a model is therefore
what a coroutine does between two awaits that suspend it: nothing else on the loop can
interleave with it. Other things that happen at any point are the end of the process, the
outcome of a request or a query, and the end of a sleep.

## The system

| component | code | state | operations | hard part |
|---|---|---|---|---|
| publish queue | `publisher/queue.py` | bounded FIFO, unfinished count | put, get_item, task_done, stop | full queue blocks producers and stop() |
| publisher | `publisher/broadcaster.py` | pool task, workers, item in hand, retry count | start, worker, send_message, stop | several workers, timeouts that hide a success, dying workers, cancellation |
| scraper job | `main.py:95`, `database/crud.py:518-583` | sources to do, seen hashes, batch, saved rows to enqueue | scraper_job, batch_save_configs | two jobs overlap; check and insert are apart; failures, cancellation |
| process life cycle | `main.py:164-234` | which services run | post_init, post_shutdown | order of shutdown, crashes between commit and publish |
| geo rate limiter | `core/utils.py:161` | time stamps, lock | acquire | sleeping inside the lock |
| validator | `processor/validator.py` | seen hashes, country cache | validate_one, validate_batch | ten validations at a time share the caches |
| scrapers | `scraper/base.py`, `scraper/subscription.py` | statistics of sources | fetch, parse, scrape_all | retries, failing sources, sources edited meanwhile |
| registry | `database/crud.py`, `main.py:37-92` | users, admins, VIPs, clean IPs, sources | add, remove, toggle, seed, migrate | partial seeding, duplicates |
| dialogues | `app/handlers/*.py` | flags in `user_data` | buttons, texts, documents | long sequences leave stale flags |
| database layer | `database/session.py`, `database/connection.py` | engine and factory singletons | get, close, with_retry | use after close |
| migrations | `database/migrations/` | schema_migrations | initialize, apply, roll back | upgrade and record are two transactions |
| performance tester | `core/white_configs_perf_tester.py` | a task, a directory and perhaps a proxy process for each row, results | evaluate_white_configs, the score | bounded concurrency, measurements that raise or are cancelled |
| IP rotation, exports | `core/ip_manager.py`, `app/handlers/admin.py:698-1001` | none | apply_ips_to_configs, the two queries | rotation, rows without host, texts that cannot be rewritten |

How they interact: `post_init` starts the publisher, a scheduler that calls `scraper_job`
every interval, and one `scraper_job` of its own. Jobs call the scrapers, the validator
(which calls the rate limiter) and `crud`, then put what they saved in the queue, whose
workers post it. `post_shutdown` stops the scheduler, cancels the first job and waits for it,
stops the publisher and closes the database. The dialogues work on the registry and read the
config table, measure its newest rows and export them. python-telegram-bot handles updates one at a time here
(`concurrent_updates` is not set), so dialogues do not interleave with each other.

What makes each component correct, in one line: the queue and the publisher never publish an
item twice except by a retry, and lose none while a worker is left; a job hands out what it
stored, once; the life cycle keeps this through crashes and ends when asked to; the limiter
keeps its rate and starves nobody; the validator keeps one result per hash and asks for each
host within the rate; the scrapers report what they fetched; the registry has no duplicates
and survives restarts; a dialogue changes a table by the right of whoever answers, and finds
what earlier steps left for it; a migration that is recorded was applied, in order; a
measurement leaves nothing behind and the best of what was measured is exported.

## Modules

* `Broadcaster` models `PublishQueue` and `Broadcaster`. A worker is `idle` (in `get_item`),
  in `send` (a POST is in flight), in `backoff` (before a retry) or in `pause` (after
  `task_done`), and may end `stopped` (by the sentinel), `cancelled` or `dead` (an exception
  that is not caught). `Get`, `GetStop`, `PostOk`, `PostThrottled`, `PostRefused`,
  `PostFailed`, `Raise`, `Wake` are the paths of `worker` and `send_message`; `Put`, `Stop`,
  `StopJoined` those of the callers. A failed POST may or may not have reached the channel.
  `queue.put(None)` does not suspend when there is room, so `stop()` puts the sentinel and
  cancels the pool in one step; only survivors of a pool in which a worker died ever see the
  sentinel. A worker dies when `resp.json()` of a 429 is not the expected object
  (`broadcaster.py:55`), because `send_message` catches timeouts and client errors only.
* `ScraperJob` models `scraper_job` with `batch_save_configs`. `Validate` is one turn of the
  loop over the sources up to `validate_batch`; `CheckExisting` and `Commit` are the two
  halves of `batch_save_configs`; `Enqueue` is one `queue.put`; `SaveFails` is the
  `except` of the loop; `Cancel` is a `CancelledError`, which a job meets at whatever await
  it stands. Configs are modelled by their hashes, and a batch is a set: the scrapers leave
  one config per hash in a source (`scraper/base.py:217`, `scraper/subscription.py:184`). The
  order in which a batch is inserted is chosen at the commit. Which configs a scrape finds
  and which are valid is nondeterministic. A commit that the job does not see return
  (cancelled, or the connection lost) may have taken effect.
* `Pipeline` composes the two, sharing the rows put in the queue, with `post_init`
  (`PostInit`, `Fire`), `post_shutdown` (`BeginShutdown` ... `CloseDb`) and `Crash`. Only the
  table survives the end of a process. `scheduler.shutdown(wait=False)` (APScheduler 3.11,
  `AsyncIOScheduler`) only queues a callback of the loop, which stops the firings and cancels
  the scheduled job without awaiting it; `BeginShutdown` goes on meanwhile. The variable
  `scheduler` says where that callback stands. The loop's ready queue is first in, first out,
  so between the two (`closing`) the scheduled job has at most the one turn that was ready
  before: it may end a commit and put its rows, until it comes to its next await (`due`); a
  firing that is ahead of the callback only creates a task. `SchedulerClosed` is the
  callback. The first job is cancelled at once and awaited if it still runs; otherwise
  `post_shutdown` goes on to `stop()` in the same turn (`StopOrWait`). Whatever it does after
  an await of its own comes behind the callback. The 5 s limit of `wait_for` (`main.py:218`)
  is left out: when it expires `wait_for` still waits for the cancelled task, so it changes
  nothing.
* `ChannelFeed` is the abstract specification: rows are stored, shown a bounded number of
  times, and once given up never shown again. `Pipeline!ImplementsFeed` is the refinement,
  with `retired` mapped to the stored rows that are in no queue, hand or outbox.
* `GeoRateLimiter` models `_GeoRateLimiter.acquire`. Time is in ticks, and stamps are kept as
  ages, so the state is finite without a bound on time. Callers queue for the lock in order,
  the head may sleep with it, any of them may be cancelled, a sleeper may be woken late.
* `Selection` has the list comprehension: `Select(s, places)` keeps the entries of a list at
  some places, in their order. It is `SelectSeq`, which is recursive and of which nothing could
  be proved; TLC evaluates an assumption of `MCValidator` that the two agree on short lists.
* `Validator` extends it to `ConfigValidator` and `fetch_country_code`: `Batch`, `Entering` and
  `Outcomes` are `validate_batch` with its semaphore; `Seen`, `NoLookup`, `Ask`, `Answer` and
  `Finish` the paths of `validate_one` between its awaits; `Cancelled` what `gather` does to
  the validations of a cancelled job. It follows one job's validator through its batches;
  of the other job only the calls of the limiter are modelled (`OtherCalls`), since nothing
  else is shared. Ping is left out: `scraper_job` switches it off.
* `SourceTable` and `Registry` are what `crud.py` does to the tables of sources, and of users,
  admins, VIPs and clean IPs: one operator per function. The functions that commit row by row
  may leave a part of their work.
* `ScrapeSources` models `scrape_all` with the table it reads: `PostInit`, `SeedOne` and
  `SeedEnds` are `seed_default_sources`; `AdminAdds` and `AdminToggles` the dialogues that
  write the table; `Begin`, `ReadSources`, `FetchOk`, `FetchFails`, `Return` a scrape. The
  results are the dictionary that `scrape_all` keys by name. A seed that is cut off leaves a
  part of the default sources, and later starts find a table that is not empty.
* `Dialogues` models `app/handlers`: `user_data` as a set of keys for each user, one action
  per handler that changes it or a table. A handler runs to its end before the next update is
  looked at, so it is one step; only the two that send a text to many users (`AnswerBroadcast`)
  take many, because the process may end between them. `Priority` is the order in which the
  text handlers look for their keys. `PostInit` includes `migrate_admins_json`. Buttons that
  only show something, and `scraper_toggle`, whose flag nothing but its own label reads, are left out.
  `MCAdminRemoval` adds a history of the admins the owner removed.
* `Migrations` models `run_migrations` and `rollback_migration`, which operators call by hand
  and may cut short at any point. `Initialize` reads `schema_migrations`; `Skip`, `Upgrade`,
  `UpgradeFails`, `Record`, `RecordFails` are the paths of `apply_migration`, in which the
  upgrade and the record are two transactions; `Downgrade` and `Delete` are the rollback. What
  a script holds is chosen once, at the beginning: whether `split(";")` cuts a statement in two
  (`body`), whether a statement fails when its effect is already there (`once`), and whether
  its downgrade takes the effects back (`undo`; that of `001_initial_schema` does not). `applied`
  and `ever` are histories: the versions that took effect, and that were recorded. The model
  is that of PostgreSQL, where an upgrade that fails leaves nothing.
* `PerfTester` models `evaluate_white_configs`: `Enters` is the semaphore, `PortFails` ...
  `Round` the paths of `_perf_for_one` between its awaits, `Ends` its `finally`; `Collect` and
  `CollectRaises` the loop over `as_completed`; `Cancelled` and `Swallowed` what a cancelled
  measurement does. `Score` and `TopOf` are the score, the stable sort and the cut.
* `IpRotation` has the rewriting of a config as operators, on texts that are records of what
  `detect_protocol`, `extract_host` and `apply_ip_to_config` read.
* `Exports` composes the two with the table: the queries of `handle_admin_text`
  (`NewestFirst`, `Base`), the answers that start a measurement (`AnswerPerfCount`) or rewrite
  configs (`AnswerIpCount`), and the commits of jobs meanwhile (`Save`). In `Dialogues` the two
  answers are steps that change `user_data` only; here they have their contents.
* `MC...` modules instantiate them for TLC. `..._proof` modules hold the theorems.

Definitions marked as mutants in the modules are wrong variants of an action. They are used
by no specification; substituted for the action they break the property they are listed for
in `PROJECT.json`, which shows that the property says something about the code.

## Runs

| run | checks | result |
|---|---|---|
| `broadcaster` | items in one place and counted as unfinished, bound on posts, what stop() leaves behind, every item finished while a worker is left | holds |
| `pipeline_safe` | two jobs over one table through shutdown, crashes and restarts: what is published is stored, each row is handed out once, at most one row per job and hash; what jobs may still do once the shutdown has begun; refinement of `ChannelFeed` | holds |
| `pipeline_live` | saved rows are served, jobs end, shutdown ends, while a worker is left | holds |
| `job_overlap_duplicates` | one row per hash ("strict idempotency by config_hash", `crud.py:563`) | violated: both jobs check before either commits |
| `pipeline_hang` | shutdown always ends (`main.py:200`) | violated: no worker is left and the queue is full |
| `validator` | at most 2 * Limit - 1 calls in a window, sorted stamps, at most `MaxConcurrent` lookups of a host by one validator, one result for a config over all batches, batches and callers do not wait for ever | holds |
| `limiter_documented` | at most Limit calls in a window (`utils.py:165`) | violated: the list is cleared with calls still in the window |
| `sources` | two scrapes while admins edit the table: sources stay apart, no result is overwritten, a table that was edited is not seeded, a scrape ends | holds |
| `dialogues` | tables change by the right of the moment, a text to many comes at most once to each and sending ends, `ip_count` has `config_count` | holds |
| `admin_returns` | a removed admin stays removed until the owner adds him again (`admin.py:531`) | violated: each start reads `admins.json` again |
| `migrations` | two operators at once, cut short anywhere: what is recorded was applied and lacks its effects only where its downgrade takes them back, the order of the files, nothing at or behind a script that cannot run; a run ends | holds |
| `exports` | measurements leave nothing behind, no row is lost or counted twice, a failure is final, the best alive configs are exported, clean IPs are spread evenly and reach every link that can carry them, an evaluation ends | holds |

Some observations the models make plain and no run is spent on. After a worker died,
`stop()` reaches one survivor with its single sentinel; the rest wait on the queue until the
process ends (`StopEndsPool` says "unless a worker had died" for that reason). And a row
whose job is cut off between commit and put is never published: later scrapes find it stored
(`SavedIsServed` starts from the rows a save gave back to a running job). A config whose
lookup answers with null for the country gets no result, nor do the later configs of its
host: the docstring of `fetch_country_code` (`utils.py:207`) speaks of a code or "UN", but
None is returned and stored, and `inject_watermark` raises on it (`Finish`). In the
dialogues a key stays until its handler, `back_main` or a restart removes it, so a text may
answer an older question than the last one put: it goes to the first key in the order of the
code, and `user.py` comes before `admin.py`. Three answers (`awaiting_ip_single`,
`awaiting_ip_bulk`, `awaiting_white_perf_count`) do not look at the right again;
`ChangesByRight` therefore leaves `cleanIps` out.

Two more places where the code and its texts differ. Whenever no source is active,
`scrape_all` fetches the default ones, those that were switched off included
(`ReadSources`); its docstring (`base.py:269`) speaks of an empty database.
`migrate_admins_json` reads `admins.json` at every start and leaves it in its place
(`main.py:48`), so an admin whom the file names comes back after the owner removed him: the
run `admin_returns`.

At the shutdown, `post_shutdown` may come to the sentinel before the scheduler's callback has
run: with the first job done and room in the queue nothing between `main.py:211` and `:225`
suspends. The one turn of the scheduled job that `QuietShutdown` grants may then put rows
behind the sentinel, where no worker takes them; they are stored and, like those cut off
between commit and put, not published later.

Of the migrations: the function in `schema.sql:73-79` has semicolons in its body, which
`001_initial_schema.py:35` cuts apart, so PostgreSQL refuses it and this migration can never be
recorded (`NothingPastFailure`). Were the function whole, the triggers behind it
(`schema.sql:82-89`) lack IF NOT EXISTS, and a process that ends between upgrade and record
would leave a database on which the upgrade fails from then on. A rollback that is
cut off between its downgrade and the deletion of the record (`manager.py:116-120`) leaves a
record without its effects, which later runs pass over; `RecordedIsApplied` makes this one
exception. The one downgrade there is does nothing, so a rollback of it removes the record and
leaves the schema. `RecordsInOrder` speaks of the versions recorded at some time: a run that
read the table before a rollback goes on behind it and may record a version whose predecessor
is no longer recorded. `manager.py` lies in the directory of migrations and is always pending;
it is logged as an error and passed over.

Of the exports: created_at is the server's time at the commit, so the newest rows of one batch
come in any order. A vmess link that only the lenient decoder of `extract_host` reads, and a
link without a server, go out as they were stored though they are counted as new. The rotation
begins at the first config for each IP, and the file repeats lines when there are fewer base
configs than lines per IP. A base config may have another clean IP for its host than those
chosen. A process that ends during a measurement leaves its directories, and perhaps its proxy
processes, which nothing removes: `cleanup_temp_files` has no caller; and the directory
`cfg_<id>` around a measurement's own stays in any case.

### Bounds

Two jobs are all there can be: one from `post_init` and one of the scheduler
(`max_instances=1`). Two configs let batches be disjoint, overlap or agree, and let a commit
have several rows. Two workers are enough for the pool's interactions, which are pairwise
(the same item in two hands, a survivor beside a dead one); proofs cover any number. A queue
of one or two is full while a batch is enqueued; in `pipeline_safe` it has two places, so
that a row and the sentinel fit together, and a scrape has two sources, so that a job meets
what it has saved before. There and in `pipeline_live` one worker is enough, as pairs of
workers are the subject of `broadcaster`. `MaxRows` is 3 in `pipeline_*`, one row more of a
config than the two jobs may store; a commit without room can only fail. `pipeline_live` has
batches of one row and a queue of one place, in which the rows of both jobs wait; its worker
does not die, since after the death of the only one its properties promise nothing.
`MaxRetries` is 1 in `broadcaster` and 0 in `pipeline_*`: retries do not touch the jobs.
`PublishLimit` is the number of configs, but for `pipeline_live`. The sources are two defaults and one whose name collides with one of them, so that
an admin's addition can meet a seed; one retry is enough for a fetch to fail after it was
tried again. The dialogues have the owner and one more user, who may be made admin and VIP
and be unmade, and whom `admins.json` names: any hazard there takes one who answers and one
who takes his right away. Two
keys at a time (`MaxKeys`) let an answer find another key before its own, and hold both
numbers of `configs_per_ip`; the proofs cover any number. The validator has three configs,
two of them of one host, and a semaphore of two, so that both ask before either stores an
answer and the third waits; with one caller of the other job they are four callers for two
calls in a window of three ticks, so that callers wait behind a sleeper and the window is
refilled: the bound of 3 calls is reached. The migrations have two operators, two versions that
can be applied, with any script each, and `manager.py` behind them: enough for a run to have
read the table before another records or rolls back. The exports have one row of each kind
there is (two links that differ in their server only and so become the same line, a JSON document, a vmess link decoded only
leniently, a trojan link, one without a server), saved in three commits; at most three are
measured (`RowLimit`), two at a time, so that one waits while one fails; a connection takes
100 or 700 ms, on both sides of the score's steps; 1 or 2 are exported, and 1 or 4 lines for
each of up to two IPs, fewer and more than there are base configs. Safety runs use symmetry where there are no
liveness properties.

### Fairness

Weak fairness of each worker, each job, the scheduler's callback, `post_shutdown` once it has
begun, the lock's holder and the clock: one condition for each task, not for each of its
steps. The event loop runs every ready coroutine; a POST ends
within its 15 s (`broadcaster.py:53`); queries, commits and sleeps end; `asyncio.Queue`
wakes waiting putters as places become free. Weak fairness of a job's put is enough because
the putters it competes with put finitely many rows. A scrape has weak fairness because its
requests have timeouts and its retries a limit, sending a text to many because every request
ends by an answer or a timeout. A measurement has it because each of its rounds and its wait
for the port have a timeout, the collection because it resumes when a task is done, and a call
of the migrations because queries end. Nothing is assumed of the scheduler's trigger, of a request
to shut down, of the start of another process, of crashes, of new batches, or of the other job's calls of the limiter.
`CHECK_DEADLOCK FALSE` appears where the system may stop: a publisher that was stopped, or
lost its workers.

## Proofs

`ScraperJob_proof`: `JobSafety` (types, `HandedOnce`) for any set of jobs, configs and
bounds. `HandedOnce` is part of the inductive invariant `JobInv`, which adds that only a job
in `enqueue` has an outbox and that a job in `commit` has something to commit: without the
latter a commit of nothing would give an empty outbox to a job that then enqueues its first
row. `AloneStoresOnce` proves that at most one job suffices for `NoDuplicateRows`, by adding
that a batch about to be committed is not stored: exactly what a second job destroys.

`Broadcaster_proof`: `BroadcasterSafety` (types, `ItemInOnePlace`, `PostBound`,
`JoinAccounting`) and `StopIsFinal` (`StopEndsPool`) for any workers, capacity and
retry limit. The bound on posts is not inductive: `WorkerShape` ties the posts of the item a
worker holds to its retry count, and `ItemShape` says that an item in the queue was not
posted yet, which needs `ItemInOnePlace`. `PoolInv` says how `_task` may have ended.

`OverlapBound` (`DuplicateBound`) counts, for a hash, its rows and the jobs about to save it:
a job only joins the second count when the first is zero, and moves from one to the other
when it commits, so the sum never exceeds the number of jobs.

`Pipeline_proof` composes them. `StepOfJobs` and `StepOfPool` show that a step of the pipeline
is a step of the jobs (or the end of them all) and a step of the publisher (or its end); that
a put is a step of the publisher, behind the sentinel too, needs `HandedOnce` of the jobs (the
row was never put before). `ControlInv` ties the phases to the scheduler's callback and to who
is cancelled: the first job when the shutdown has begun, the scheduled one when the callback
has run. The invariant is the conjunction of the components' with it. From it follow
`PipelineSafety` (`PublishedIsStored`), `PipelineHandsOnce` (`HandedOnce`),
`PipelineDuplicateBound` (`DuplicateBound`), `ShutdownIsQuiet`
(`QuietShutdown`) and `Refinement` (`ImplementsFeed`), whose step uses what the components'
proofs say of one step: the table only grows, only new rows enter an outbox, only what a
worker holds is posted, only a put makes a row wait. The first lemmas of the module say that
the instances `J`, `B` of the model and `JP`, `BP` of the proofs define the same formulas.

`Dialogues_proof` looks at a step three times. For `user_data` (`StepData`) it adds one key, removes
one or all of them, or is the answer that keeps the number; hence `SecondNumberAfterFirst`
(`IpCountHasConfigCount`). For the tables it keeps types. For a text to many
(`HandlerBetweenSends`) no handler starts while one is being sent, so those in `left` are still
registered and were not yet reached: `TextReachesOnce` (`OnceEach`), which needs that nothing
was sent when a handler starts, the last conjunct of `DialogueInv`. `TablesChangeByRight`
(`ChangesByRight`) follows from what an answer does to its key.

`Migrations_proof`: `MigrationsInvariant` (`MigrationsInv`) for any files and any number of
operators and scripts. `RecordedIsApplied` and `RecordsInOrder` are not inductive: a call that
has read the table, or stands between upgrade and record, carries facts that rollbacks of
others do not destroy. They are stated about the histories `applied` and `ever`, to which a
rollback does nothing; of the effects themselves the invariant says that only a downgrade
takes them away. `RecordedOnlyAfterUpgrade`, `RecordedInOrder` (`RecordsInOrder`) and
`NothingRecordedPastFailure` (`NothingPastFailure`) follow.

`Exports_proof`: `ExportsInvariant` (`PerfInv`), for any rows, places, rounds and latencies.
The invariant ties `task` to the rest: who runs has a directory, who is in `ended` or `results`
is not live, and no two places hold the same row. A measurement
either begins, makes a round or ends (`MeasureStep`), so the number of running ones grows only
where the semaphore had a place. `MeasurementsCleanUp` (`NoLeftovers`), `ResultsOfAll`
(`EachRowOnce`) and `FailureIsFinal` (`NothingStartsAfterFailure`) follow from it. `ScoreMonotone`
is about the score alone: better measurements never score lower.

What is exported is proved in the same module, from `ExportsInv`: `PerfInv`, that a finished
evaluation holds the sorted results (`BestInv`), and that the export under way is one the
two functions can make. The place of a result is one more than the number of results ahead of
it; that these places are `1 .. n`, each taken once, is a count (`PlaceFact`: a
smaller place has a smaller set of results ahead, and an injection of `1 .. n` into itself is
onto), and with it come the order and the cut. Since a dead config scores 0 and an alive one
more, dropping the dead from the cut drops a tail: `ReportOfTheBest` (`ReportIsBest`).
Line `k` of the second file belongs to the IP `(k - 1) \div count` and to the base config at
`((k - 1) % count) % n` (`LinesFact`); that no line is dropped as a trojan link, and that a link
with a server leaves with a clean IP, is said of one line (`CleanLinesOnly`, `CleanHostsOnly`).
The lines of a config with an IP are those at its places in the rotation; they are counted
by an injection of its places for each full pass into them, and one of them into its places for
each pass begun (`ServedEnough`, `ServedAtMost`); hence `RotationIsEven` (`EvenRotation`). Configs that differ only in the server become one text
(`SameLine`); their lines cannot be told apart and are counted together (`Twins`).

`Validator_proof`: `ValidatorInvariant` (`BatchInv`), for any configs, hosts, callers, limit and
window, with the line of the limiter taken apart from the books of the validator (`LineInv`,
`Books`). The bound on lookups is not inductive; as long as a host's country is unknown, those
that ever asked for it are the ones that hold the semaphore now, and there are at most
`MaxConcurrent` of them. `LookupsBounded` and `NoResultTwice` follow.

The limiter is proved on its own and carried over. `LimiterInvariant` (`LimiterInv`) compares
the list of stamps with the calls of the last window, counted from their ends: they are equal
where both have entries, and what only the list has is older than a window. What only the
window has are calls forgotten by `clear()`. They number at most `Limit - 1`: a sleeper's wait
and the age of the oldest stamp add up to more than a window, so that when it is woken the
oldest of the (at most `Limit`) calls of the list has left the window, and the new one is in
the list. Pruning the list and the passage of time drop a beginning of a sorted list
(`SelectInterval`, `YoungFact`). `ValidatorImplementsLimiter` shows `Spec => LimiterSpec`: a step of
the validator or of the other job is one of the limiter or leaves it alone, which gives
`RateBounded` (`RateBound`) and `StampsInOrder` (`StampsSorted`) for the limiter as it is used.

`ScrapeSources_proof`: `SourcesInvariant` (`SourcesInv`) for any sources, jobs and retries: names
are apart in the table, hence in the plan of a scrape that has read it, hence nothing planned
has the name of something already fetched. `NoResultLost` (`ResultsKept`) follows, and
`SeedingIsFirst` (`SeedsUntouchedTable`) from what is known of the table while it is seeded.

The assumptions are those the modules state about their constants; TLC evaluates them in
every run. `ScraperJobAssumption` is a hypothesis of the theorems about `ScraperJob`, and
`Pipeline_proof` proves it of the jobs in the pipeline (`Assumptions`). `BroadcasterInv`,
`DialogueInv`, `BatchInv` and `SourcesInv` are also checked by TLC; TLC agrees with
`MigrationsInv`, `PerfInv` and `LimiterInv` on the instances of their runs too, whose
configurations list what follows from them.

Only model-checked: every liveness property (fairness and ENABLED are beyond the prover). Every
invariant and every action property of a passing run, and the refinement, is a theorem.

## Not modelled

Menus, logging, settings, the installer and the text conversions (regular expressions,
base64, watermarks, flags) have no state or interleaving. `core/ping_tester.py` is not reached
from a registered handler, `services/` and `service/` are not imported by `main.py` and do
not run as they are. `with_retry`, the parsing of IP lists in `core/ip_manager.py` and
`cleanup_temp_files` have no caller. The queries that only show rows to a user
(`get_last_configs`, `filter_configs`, the statistics) change nothing and are left out. In
`IpRotation` an IPv6 address in brackets is left out: reading and writing both take what
precedes its first colon for the server. The retry loop of `main()` around `run_polling` depends on what
python-telegram-bot does with its event loop, which is outside the repository.

## What would come next

1. `with_retry`, should something call it.
2. The retry loop of `main()`, with python-telegram-bot's shutdown as an external module.
