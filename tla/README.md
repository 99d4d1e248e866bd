# Saver backend: TLA+ verification

This directory models the Saver backend (FastAPI, PostgreSQL, Redis, RabbitMQ)
in TLA+, checks the models with TLC on small instances and proves theorems
about them with TLAPS for every instance. `PROJECT.json` lists the runs, the
mutants each property is tested with, the source lines every definition
translates, the hazards and the theorems. Paths below are relative to the
repository; the program is under `src/`.

## Inventory

| Component | State | Operations | What is hard, and what makes it correct |
|---|---|---|---|
| Search tickets and query states (`src/search/store.py`) | Redis hashes: one ticket per magicCode, one query state per query hash, each with a TTL; one counter per user | four Lua scripts, DEL, two reads, the rate limit | Scripts are atomic, everything else interleaves; keys expire at any instant. A stored result is final; a live ticket points at a query Redis knows. |
| Search API (`src/search/routes.py`) | none of its own: handlers between awaits | `POST /search`, `GET /search/{magicCode}` | Replies are lost after the command took effect; two GETs race for one code. A code is exchanged once, for the stored result. |
| Search command publisher (`src/search/publisher.py`) | one executor thread, its job queue, one blocking connection; exchange, bindings and queues in the broker | start, publish, heartbeat, close | Any broker operation may fail half-way through configuration; heartbeat, publishes, cancellation and close share the thread. A normal return means a queued command; close is final. |
| Search worker (`src/search/worker.py`) | the command in hand, its broker connection | deliver, two reads, engine run, two scripts, ack / reject / requeue | Redelivery, runs that outlive their connection, crashes between write and ack. No accepted job is lost, every command ends. |
| Engine pipeline (`src/search/engine/pipeline.py`, `planner.py`, `query_adapter.py`, `providers.py`, `extensions.py`) | one run: the plan, the calls in flight, the candidates | plan, ask the selected providers at once, ask the web providers in turn, fuse, rank, select, answer | Calls end in any order, fail, are retried or cut off. One provider's failure must neither lose the others' candidates nor go unreported, and a search ends. |
| Ranking and fusion (`engine/retrieval.py`, `engine/reasoning.py`) | pure | deduplicate, fuse, rank, select | Duplicates within and across batches, ties, limits. Agreement of two providers comes first in the fusion; the selection leaves out nothing better but for diversity. |
| Analysis and answers (`engine/analysis.py`, `answer.py`, `anomaly.py`, `schema.py`), providers (`naver.py`, `kakao.py`, `config.py`), `cli.py` | none | calls of external services, validation | The answer says what happened to the calls. |
| Accounts (`src/auth/`) | rows of users, the provider's link, signed session and state cookies | login, session check, withdrawal | Withdrawal is an external unlink followed by a retried delete, and logins interleave with both. Only the session's own account is touched, and an account cut off half-way is on record. |
| Blog (`src/blog/`) | rows of blogs | list, write, change, delete | The session check and the write are two transactions. A blog belongs to the row it was written under. |
| News (`src/news/`), special days (`src/special_days/`) | read-only tables | keyset pages | Pages over a table that changes; equal and missing dates. Every item that stays is given once. |
| Weather (`src/weather/`) | forecasts in PostgreSQL, a Redis cache, a lock per process | current, forecast | Concurrent misses; old rows written to the cache late. |
| Schema and lifespan (`src/database_init.py`, `src/app.py`) | tables; pool, Redis clients, publisher | start, stop | Cascades and foreign keys the others rely on; what start-up acquired when it fails, and what shutdown then releases. |

Interactions: the POST handler writes Redis and submits to the publisher's
thread, which speaks to the broker; the broker delivers to workers; workers
write Redis; GET handlers read Redis. No component of the search path calls
another directly, so every guarantee to the client is a relation between Redis,
the queue and the processes' program counters. Accounts, blog and weather share
PostgreSQL, and the weather cache shares Redis with the search keys.

## Modules

### SearchJobs, the life of a search

`SearchJobs.tla` composes POST handlers, the queue, workers, GET handlers and
the clock of Redis.

* State. `ticket`, `query`, `result` are the fields of the two kinds of Redis
  key ("absent" stands for no key). `sub` and `attempt` are the program counter
  of a POST handler; `wpc`, `job`, `linked`, `seen`, `found` that of a worker
  with its local variables and whether its broker connection is still the one the
  command came on; `rpc`, `code`, `got` that of a GET handler. `queued` counts
  the copies of a command in the durable queue. `waiting`, `consumed` and
  `delivered` are history: they guard no step.
* Actions. Each Lua script is one operator named as in the code
  (`CREATE_TICKET`, `MARK_PUBLISH_FAILED`, `COMPLETE_QUERY`, `FAIL_QUERY`), used
  by the handler or worker step that runs it. Every other Redis command and
  broker call is a step. A lost reply is the command's effect followed by a retry
  or an error (`CreateReplyLost`, `WriteReplyLost`, `DeleteReplyLost`); a process
  that dies leaves its handler or command behind (`SubmitDies`, `WorkerCrash`,
  `GetDies`); `LoseLink` is a worker whose connection is lost while it works on.
* Data. A query is a model value, a result a model value, a run of the engine any
  answer or an exception. Session check, rate limit and validation precede
  `Submit` and change nothing here. A GET of an absent or failed ticket changes
  nothing and is left out as a step.
* `QueryCoversTicket` says whether the configured TTLs keep a query as long as its
  tickets. With the defaults (300 s and 600 s) they do, because `CREATE_TICKET`
  renews both; nothing in the code demands it, so the runs take both values.
  SearchLifetimes shows what stands behind the constant.

`SearchContract.tla` is the abstract specification: open codes, at most one
answer per query, and a delivery that closes a code and hands out the answer
stored at that instant. SearchJobs implements it under `QueryCoversTicket` with
`open` mapped to the tickets that are PENDING or COMPLETED and `answer` to
`result`.

### SearchPublisher, the thread between handlers and broker

`SearchPublisher.tla` refines what SearchJobs calls publish, confirm and failure:
the executor's queue (`jobs`), its thread (`cur`, `pc`, `try`), the
connection (`conn`, where "broken" is a lost peer nobody has noticed, and
`confirming`), the application's `phase`, the heartbeat task (`beating`),
`publish()` calls (`call`) and the broker (`bound`, and `copies`, which counts
what was ever queued). Several processes share one broker. The broker starts with
the legacy queue bound, as the comment in `_connect` says an earlier version left
it.

`Open`, `Unbind`, `Bind`, `ConfirmDelivery` are the operations of `_connect`
in its order; `Flush`, `Send`, `Acked` those of an attempt of `_publish`;
`StartFails`, `AttemptFails` and `BeatFails` are the three handlers of an error
raised by any of them (`Raises`). `Skip` is the executor passing over a job whose
future was cancelled. `Close` waits for the process's handlers, as the server
does before it ends the lifespan; `Cancel` is the server giving up on a handler
instead. `exchange_declare` and `queue_declare` change nothing the properties
see and are part of the step into `Unbind`.

### WeatherCache, the misses of one route

`WeatherCache.tla` is `GET /weather/current` in several processes: the Redis key
they share (`stored`), each process's `asyncio.Lock` as the line of handlers at
it (`line`, its head holds the lock), and each handler's place (`pc`), its
`cache_available` (`sure`) and the issue it has read (`seen`). An issue is a
number, which the collector, an external program, increases (`Collect`).
`FirstRead` is the look at the cache before the lock, `SecondRead` the one under it,
`Load` the query, `Write` the SET. A payload that does not parse counts as a miss
and leaves the cache usable; an error of Redis makes the handler skip the rest of
its cache steps (`FirstReadFails`, `SecondReadFails`). A SET without a reply has
been applied, never will be, or still will be (`Unconfirmed`, `LateSet`).
`reads`, `put` and `lapses` are history. A hit changes nothing and is no step.
Other programs and the TTL may change the key at any time (`Expire`).

### SearchLifetimes, the clock of the search keys

`SearchLifetimes.tla` is the same scripts seen from the other side: what each does
to the deadline of a key. `ticketLeft`, `queryLeft` and `countLeft` are the time
left, `Tick` takes one unit off each of them and removes the keys whose time is up.
`CREATE_TICKET`, `MARK_PUBLISH_FAILED` and `FINISH_QUERY` (what `COMPLETE_QUERY` and
`FAIL_QUERY` have in common) set the EXPIREs the Lua scripts set, with three
separate TTLs, since the API and the worker each read their own. `RATE_LIMIT` counts
a request before it is let in or refused and gives a deadline to a counter that was
just created and to no other.
`age` is history: how long ago each of a user's latest `2 * Limit + 1` submissions was
let in, up to `Window`. What SearchJobs has in detail (publishing, workers, polls) is
here a script that may run at any time.

The module assumes positive TTLs and nothing of their order, as the code does.
`QueryOutlives` is exactly the guard of SearchJobs' `ExpireQuery` under
`QueryCoversTicket`; it is proved for every TTL with `TicketTTL <= QueryTTL` and
`TicketTTL <= ResultTTL`, the condition this module defines under the same name, and
the run's TTLs satisfy it. So the runs and theorems of SearchJobs with that constant
TRUE speak of every deployment that keeps this order. The order is needed: with
either TTL one unit shorter than a ticket's, TLC finds `QueryOutlives` violated in this
instance. Nothing in the code checks it (the hazard at `src/search/store.py:102`), so a
deployment that breaks it has only `NoLostJob`, which `jobs_short_ttl` checks and
SearchJobsProofs proves without the order.

### SearchEngine, one search

`SearchEngine.tla` is what a worker runs between a command and its result. `registered`
is the registry, any subset of the providers that a worker starts with; `calls` is
the provider calls of `IntelligentSearchEngine.search` in order, each with the requests it has
made (`asked`), its state and its documents; `standIns` the web providers still to
be asked when a public one found nothing. `Analyze` picks any plan the schema
lets through and selects providers as `RuleBasedPlanner.plan` does; `Respond`, `LookUp`
(a provider in memory), `RequestFails`, `ResponseInvalid` and `Timeout` end or
continue a call in any order; `Gathered`, `AskNext` and `FallbackEnds` are the code
after `gather`. `Settle` runs everything that happens there without an await: the
ranker's min-max term and its order (`Totals`, `Ranking`), `diverse_select`
(`Diverse`) and the slice, on candidates fused by reciprocal rank with duplicates
within and across batches (`Fusion`). `AnswerWithout`, `AnswerFrom` and `AnswerFails`
are `generate_answer`.

Data: a document is a record of the URL it normalizes to, its provider, its authority
(which breaks ties of the ranking, then the id) and its weight (authority, then
freshness, which decides what stands for a URL). What lexical matching and the
rerank add is its merit, nondeterministic per query and any integer: `HybridRanker`'s
weights only have to sum to 1, and the rerank adds to that. A provider may list
one document several times. Scores are integers, exact in the ranks that occur
(`Unit` is divisible by every 60 + rank, which an assumption states).

Sorting, filtering and concatenating are stated by one operator, `InLine(S, before)`:
the sequence whose n-th element is the one with n - 1 others before it. That is what
`sorted`, a comprehension and `extend` compute, said in first-order terms, so that the
proofs can speak of it for any input; folds and operators that take operators could only be
run. In the same way `Stands` is the document no other of its URL replaces
instead of a loop over them, and `Diverse` the set of sequences (of one element) each of whose
places is taken by the best of the rest.

### Accounts, and what they own

`Accounts.tla` composes login, withdrawal and the blog on one set of tables. `rows`
and `blogs` are the tables with the cascade between them; `linked` and `flows` are
Kakao's side, external: who is linked to the application, and for every OAuth flow
who signed in and whether its code is still good. `jar` is each browser's cookies,
the session and one state per kind of flow. `req` is the requests: `at` is the await
a request stands at, and the cookies it came with are read once, when it begins
(`LoginCallback`, `WithdrawCallback`, `Call`). `CheckSession` is
`get_current_user_id` in a transaction of its own; `Exchange` the token and the
profile; `Upsert`, `LoginReply` the rest of a login; `Unlink`, then `DeleteRow`,
`DeleteFails`, `DeleteUnheard` (the delete has run and its answer is lost) up to
`Attempts` times, then `WithdrawReply`, the rest of a withdrawal. `WriteBlog` and
`ChangeBlog` are the second transaction of a blog write. `Crash` ends a request
anywhere. `born`, `severed`, `noted` and a blog's `row` and `by` are history:
which insertion of a row a blog or a withdrawal belongs to, which requests' unlinks
Kakao has carried out, and what the log, a lost outcome or a login racing the
unlink accounts for.

### NewsPages, a client on a changing table

`NewsPages.tla` is `GET /news/latest/page` followed from cursor to cursor while the
collector, external, inserts rows, changes their dates and drops feeds between the
requests (`Insert`, `Redate`, `DropFeed`). `Precedes` is the ORDER BY, `After` the WHERE clause with its
cases for missing dates, as the code writes them: that the two agree is a lemma,
not a definition. `GetPage` is the handler: one row more than asked tells whether there
is a next cursor.

## Runs

TLC's deadlock check is off in every run: all submissions made, tickets expired
and processes closed, the system stops rightly.

| Run | Instance | Shows |
|---|---|---|
| `jobs` | two codes for one query, two workers, two GET handlers, two answers, one failure, TTLs in order | `TypeOK`; `OneDelivery`: a code is exchanged at most once; `TicketBacked`: a live ticket has a live query; `ReadIsCurrent`: the result read before DEL is the stored one when DEL succeeds; `NoLostJob`: a 202 that waits has its command queued or in a worker's hands; `ResultFinal`: no step replaces, clears or fails a result; `ImplementsContract` |
| `jobs_short_ttl` | one GET handler, two failures, TTLs in any order | `NoLostJob` needs no order of TTLs; two failures reach the 503 after the second publish attempt while copies of the command live on |
| `jobs_live` | two codes, one worker, two failures, fair | `PostEnds`, `CommandEnds`, `JobEnds` |
| `delete_reply_lost` | one of each, one failure | violated: `DeletedAfterReturn` (below) |
| `publisher` | two processes, three commands (two on one thread), two failures | `TypeOK`; `ConfirmedIsQueued`: a normal return means a queued command; `LegacyGetsNothing`; `AtMostTwice`: two copies at most; `ClosedForGood`: a closed publisher has no job and no connection |
| `publisher_live` | one process, two commands, two failures, fair | `PublishEnds`, `CloseEnds` |
| `weather` | two processes, three requests (two in one process), one new issue, two expiries or failures, fair | `TypeOK`; `ReadsArePaidFor`: one query per process and one more for each expiry or failure; `OwnWritesInOrder`: a process's confirmed writes never go back; `RequestEnds` |
| `lifetimes` | two codes of one query, one user; TTLs 3, 4 and 3; two submissions in a window of 3, fair clock | `TypeOK`; `QueryOutlives`: a live ticket's query outlives it; `BurstLimit`: no span of a window's length lets in more than twice the limit; `LockoutEnds`: a refused user is let in again, however often it asks |
| `engine` | three providers, one of them in memory and one with a retry; six documents, three of one URL, of two weights; plans of two targets, two results, fair | `TypeOK`; `NothingLost`: every document found is a candidate, itself or the one that stands for its URL, which is no lighter than the first of that URL in any call, the earliest call's of equals; `AgreedFirst`: what two calls agree on is, in the fused list, ahead of what one found; `ResultsWellChosen`: as many distinct results as fit, out of order for diversity only; `AnswerHonest`: the answer says what happened to the calls; `SearchEnds` |
| `accounts` | two users, two browsers, two requests, three flows, one blog | `TypeOK`; `BlogsBelong`: a blog belongs to the row it was written under; `OrphansAreKnown`: a row without a link is being deleted or is accounted for; `SessionsAreOwn`: a session comes from its own browser's login flow; `WithdrawnIsGone`: a withdrawal that answers has deleted what it began with; `OnlyOwnAccount`: links are cut and rows deleted only for their own user |
| `news_pages` | four ids, two publishers, two dates and none, pages of one or two, two changes | `TypeOK`; `ReadOnce`: no item twice under one date, none that stays skipped |
| `both_queues` | one process, one command | violated: `BothQueuesServed` (below) |

Bounds. Two codes for one query is the smallest instance in which a submission
meets another's job, result, failure or expiry, since codes of different queries
share no key. Two workers make two attempts at one command run at once, two
GET handlers race for one code, two answers tell one attempt's result from
another's. `MaxFaults` bounds failures: one already gives a redelivery, a
duplicate or a lost reply next to every interleaving, two reach the second publish
failure. `queued` and `copies` are unbounded in the specifications and stay small
because failures are few. In the publisher two commands on one thread queue
behind each other and behind heartbeats, and a second process shows that what
one does to the broker's bindings does not mislead the other. In WeatherCache
two requests in one process meet at its lock and the third, in another, changes
the key between their reads; `MaxLapses` bounds expiries, failures and
cancellations together, `MaxIssue` new issues. In SearchLifetimes the TTLs are the
smallest that differ, so that a query renewed late and a ticket created early meet,
and two submissions in three units reach the limit twice around a window's
end. In SearchEngine two web providers agree on a URL one of them found
twice, once as heavy as the other's and once heavier, and the third is the public one whose silence starts the fallback. Accounts
takes two of everything that can be mixed up; the third flow lets a user come
back after a withdrawal, which one blog written before or after it tells apart.
NewsPages has four rows in three ranks of date, so that page ends fall inside ties and
inside the undated rows, and two changes move a row across a cursor or drop the
cursor's own row. Permuting codes,
workers, readers and answers (commands of one process, in the publisher; users,
browsers and requests in Accounts; publishers in NewsPages) is a
symmetry, used in runs of safety properties only.

Fairness. A handler or worker able to take its next step takes it
(`WF(Post(c))`, `WF(Work(w))`): the event loop and the consumer loop run what is
ready, the engine's HTTP calls have timeouts, and an idle consumer is sent what
is queued. In the publisher the executor's thread runs (`WF(Thread(p))`), broker
operations end by an answer, an error or their five-second timeouts, and
`shutdown` follows the release. In WeatherCache a handler at the lock goes on when
the lock is its own and its command has an answer (`WF(Step(r))`; `asyncio.Lock`
is first come, first served). In
SearchLifetimes time passes (`WF(Tick)`). In SearchEngine a provider may stay
silent for ever: what is relied on is the time limit around each call and the
providers in memory (`WF` of `CallEnds`), and that the engine goes on once no call is
outstanding (`[]<>~Ready`, which says what weak fairness of its own steps would:
one of them is enabled exactly when `Ready` holds, and a search takes finitely
many). Submissions, polls, heartbeats, failures, expiry in SearchJobs
and the end of the service carry no fairness: nothing relies on them. Accounts and
NewsPages have safety properties only: nothing in the code makes a user come back or a
client ask for the next page.

Each property has a mutant: a variant of one mapped operator with a plausible bug
(section "Faulty variants" of each module), under which TLC finds it violated.

## Findings

* `delete_reply_lost`. `README.md:10-12` and the route's description say the code
  is deleted after the 200 was returned. The handler deletes it first
  (`src/search/routes.py:252`): when DEL's reply is lost, or the process
  dies, the code is gone and its result was never sent.
* `both_queues`. `README.md:66-68` says each of the two queues receives a copy of
  every command, and `tests/test_search.py:641-647` expects both bindings;
  `_connect` unbinds the legacy queue (`src/search/publisher.py:102-105`), as
  `README.md:20-21` says.

## Proofs

All are theorems of `Spec` for any values of the constants that satisfy the
module's assumption (functions have their domains, the "no value" constants are
outside the sets, names of jobs differ, in SearchEngine documents are finitely many
with different ids, the weight follows the authority and `Unit` is a common multiple).
Two have a further hypothesis, `QueriesOutlive` the order of the TTLs and
`AgreedComeFirst` a bound, below. TLC
evaluates the assumptions on every run.

`SearchJobsProofs.tla`

* `TypeCorrect`, then `StepEffects`: every step does to Redis one of a handful of
  things (create, mark, complete, fail, delete, expire, nothing). The invariants
  below are proved against those effects and not against each action.
* `DeliveredOnce` from `DeliveryInv`: a code with a delivery has no ticket and its
  POST handler can create none. `OneDelivery` alone is not inductive, since it
  says nothing of a handler that would create the ticket again.
* `ResultsAreFinal`, an action property, from the guards of the scripts.
* `TicketsAreBacked` and `ReadsAreCurrent` from `BackingInv`, which ties every
  live ticket to its query and every reader about to DEL to the stored result.
* `SearchImplementsContract`: initial states map to initial states, and every step
  maps to a step of SearchContract or a stutter, using the two invariants above.
* `JobsAreNotLost` from `JobInv`, which extends `NoLostJob` to handlers still
  waiting for a confirmation: a command is in flight as soon as it was published.

`SearchPublisherProofs.tla`

* `TypeCorrect`.
* `ClosesForGood` from `JobInv`: in each phase, what the thread and its queue may
  hold. A close job is always the last in the queue and nothing follows it, so
  nothing runs after the release.
* `ConfirmedAreQueued` and `LegacyIsSilent` from `WireInv`: wherever an attempt or
  a start stopped in `_connect`, a connection that is not in confirm mode with
  exactly the intelligent queue bound is either being configured, or left
  by a failed start in a process that will never take a request from its queue. It
  uses `JobInv` for that last part.
* `SentAtMostTwice` from `CopyInv`: a request is in its process's queue at most once and
  there or in the thread's hands, not both; while it waits no copy has been sent, and while
  the thread has it no more than the tries begun.

`SearchLifetimesProofs.tla`

* `TypeCorrect` holds more than types: a key is there exactly while it has time left.
* `QueriesOutlive`, under `QueryCoversTicket`: `QueryOutlives` is inductive together with it. Only
  `CREATE_TICKET` sets a live ticket's deadline, and it renews the query's in the
  same script; `FINISH_QUERY` gives `ResultTTL`, at least a ticket's whole life; a
  tick takes one from both.
* `BurstsLimited` from `BurstInv`, which says what a counter stands for: the latest
  submissions, as many as it has let in, are those of its window; those before came before
  the window began, and all but `Limit` of them a whole window ago. So at the moment a
  counter is created anew at most `Limit` submissions are younger than a window.

`WeatherCacheProofs.tla`

* `TypeCorrect` with `LineInv`: a lock's line has each handler once, exactly those its process
  has not answered, and only the one at the head is past the lock.
* `WritesInOrder`, an action property, from `OrderInv`: what the holder is about to
  write is no older than what its process wrote last, since it has read PostgreSQL after it
  was given the lock.
* `QueriesArePaidFor` from `ReadInv`, a bill for each process: queries made, plus handlers
  at the lock that will not look at the cache again, plus one if a query is under way or the
  cache is empty and nobody is about to fill it, never exceed failures and expiries plus one.

`NewsPagesProofs.tla`

* `TypeCorrect`, with the length of a page (`PageIs`).
* `EverythingReadOnce` from `Inv`: the cursor parts what has been given from what
  remains. Everything given comes no later than the cursor, and every row left
  alone that comes no later than the cursor has been given. `AfterIsPrecedes` is the
  lemma that the WHERE clause with its cases for NULL is the order of the ORDER BY,
  and `PrecedesTotal` that the id breaks every tie.

`AccountsProofs.tla`

* `TypeCorrect`, then what a step can do to one part of the state: to the tables
  (`Tables`), to a request (`Requested`), to flows (`FlowsGrow`), to cookies (`Jars`).
* `BlogsKeepTheirAuthor` from `Owned`: every blog's author has a row, the one it was
  written under. The foreign key makes it true at the write, the cascade keeps it.
* `WithdrawalsAreDone` from `Withdrawing`: the row a withdrawal has read is the
  latest or an earlier one, and one that answers has seen it go.
* `SessionsAreOwned` and `AccountsAreOwn` from `Cookied` (a state cookie is the number
  of a flow that its browser began) and `Aimed` (what the flow of a request says
  of its user at each stage, and that one which deletes has unlinked).
* `OrphansAreAccounted`: `OrphansAreKnown` is inductive together with `Aimed`, since
  only a withdrawal of the user itself may end while its row waits to be deleted.

`SearchEngineOrder.tla`, lemmas on the operators of SearchEngine, for every input

* `Lined`: `InLine` lists a finite set once each, in order, if the pairs are a strict total
  order on it. `Filtered`, `Concatenated`, `Sorted`, `Fused` and `RankedBy` say what it
  gives for `Within`, `Chained`, providers, `Fusion` and `Ranking`.
* `StandsIs`: what stands for a URL is one call's first document of it, no lighter than any
  other call's first and heavier than every earlier one's.
* `SumExists`, `Scored`: the recursive sum in `Score` is the partial sums of what the batches
  add. `Agreement`: two batches' shares exceed any one's at ranks up to 61.

The library's induction theorems take an operator and cannot be used here. What needs induction
(that the n-th element exists, that the sum does) is proved by `Least`, the least
counterexample, from the well-foundedness of the natural numbers
(`WFMin` and `NatLessThanWellFounded`), which speak of sets.

`SearchEngineProofs.tla`

* `TypeCorrect` from `TypeInv`, with the sequences' types spelled out.
* `CallInv` is what the later ones share: a call that did not succeed has no documents;
  selected providers are all web ones or none is; in the fallback every call but the web ones
  has ended empty; a plan whose targets were all unregistered is the only one without calls.
  `BecomesSettled` and `StaysSettled` reduce each property to the one step in which
  `Settle` happens, in one of three ways.
* `FoundIsKept`, `AgreedComeFirst`, `ResultsChosenWell` then follow from the lemmas on
  `Fusion`, `Ranking`, `Diverse` and the slice.
* `AgreedComeFirst` has the hypothesis `MaxBatch <= 61`. It is exact: at rank 62 in two calls
  a URL scores 2/122, as much as another at rank 1 in one. `SEARCH_MAX_CANDIDATES` is 20 by
  default; nothing in `config.py:114` keeps it under 62. It speaks of the fused list: the ranker
  gives the ranks a weight of 0.20 beside the merits, and may put another document first. (Kakao cuts its page at 50 and Naver
  at 100, so between those two it first fails at rank 77; the model has no such cuts.)
* `AnswersHonestly` from `AnswerInv`: once settled there are results exactly when a call
  found a document (`FoundShows`, which needs `NothingLost` in one direction).

Model-checked only: the liveness properties (`PostEnds`, `CommandEnds`, `JobEnds`,
`PublishEnds`, `CloseEnds`, `RequestEnds`, `LockoutEnds`, `SearchEnds`), because the
prover has no rules for fairness. Every invariant and action property the passing runs check is
a theorem.

## Plan

Done: all modules above, and a proof of every safety property the runs check. Left, most
important first:

1. A statement that SearchPublisher implements what SearchJobs assumes of publishing (at
   most two copies, a confirmation only for a queued command), as a refinement of an
   abstract publisher both could name.
2. That exactly one sequence is in `Diverse(seq, total, spread)`: its elements are
   determined one after another, which `Least` can show.
3. `SearchEngine` as an implementation of the nondeterministic run of SearchJobs' worker:
   one result or a failure.

## Not modelled

* The text of the language model, HTTP, and the parsing of JSON and HTML by the search
  providers: SearchEngine takes any plan the schema lets through and any batch.
  The graph, claim fusion and follow-up flags, which `from_payload` never sets,
  and execution metadata and nuggets, which no property looks at.
* A command the worker refuses to read. Those the API sends it accepts, with one
  exception the models leave out: the API limits the raw query to 200 characters and
  the worker the normalized one (`src/search/worker.py:106`), which NFKC and case folding can
  lengthen. `NoLostJob`, `CommandEnds` and `JobEnds` are claims about all other commands.
* Handlers that read once and change nothing: `GET /auth/me`, `/news/latest`, the list of
  publishers, special days, the weather routes other than `/current`. A backend
  without a weather cache, which `lifespan` never starts.
* The lifespan itself (`src/app.py`): one task acquires and releases in order; what goes
  wrong when a close raises is listed under the hazards.
* `weather/grid.py`: floating-point projection, out of TLC's reach.
* `cli.py`, `log.py`, deployment files: printing and configuration.
* In SearchJobs, Redis itself losing data; in SearchPublisher, another program
  binding the legacy queue again; in Accounts, a user cutting the link on Kakao's own
  pages. Three things Accounts has and no property forbids, because the code promises
  nothing of them: a session cookie in another browser names a user again who
  withdrew and came back, a withdrawal's late retry deletes the row that a login
  made in between, and a login that read its profile before the unlink keeps or
  re-creates the row after it (`OrphansAreKnown` takes that row as accounted for).
