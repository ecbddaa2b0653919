# WoOdoo in TLA+

WoOdoo synchronises the products, stock, images and orders of an Odoo database
and a WooCommerce store: a FastAPI application, Celery workers behind a Redis
broker, a PostgreSQL database and a Next.js frontend. This directory holds a
TLA+ model of the parts in which order, concurrency and failure decide whether
the result is right, the TLC configurations that check it, and proofs that
TLAPS checks. Paths below are relative to `src/`.

## Inventory

| component | state | operations | what makes it correct | hard because | module |
|---|---|---|---|---|---|
| Sync pipeline and task queue (`backend/tasks/orchestrator.py`, `phase_runner.py`, `celery_app.py`, `models/database.py`) | rows of `sync_executions`, messages, advisory locks, one session per worker | create, dispatch, deliver, load, lock, four phases, complete, fail, retry, acknowledge | one worker per execution and job, final outcomes, counters that add up, every dispatched execution ends | workers die at any step, messages come twice, a session survives its own failure | `SyncPipeline`, `ExecutionLifecycle` |
| Product sync (`sync/engines/products.py`, `sync/mappings.py`, `sync/hashing.py`) | `product_mappings`, the products of the store | look up, skip, create, update, record | no change missed, no duplicate, the store comes to mirror Odoo | store and database do not change together; runs of different jobs overlap | `ProductSync` |
| Category sync (`sync/engines/categories.py`) | `category_mappings`, the category tree of the store, the lookup table of a run | read, sort, look up, create, rename, record | the store has every category under its name, and a category is under its parent | parents are resolved once, by what a run knows then; the store acts before the mapping commits | `CategorySync` |
| Jobs and schedule (`jobs/`, `tasks/scheduler.py`, `main.py`, the three jobs pages) | `sync_jobs`, the Beat schedule in the memory of the API process, forms and cached lists | create, edit, enable, delete, run now | the schedule follows the rows, an edit changes what the user changed | two stores for one fact, requests that overlap, restarts | `JobTable`, `JobForm`, `JobDesk` |
| Retry and review (`tasks/retry.py`, `review_queue.py`, `logs/page.tsx`) | `sync_logs`, messages, the review list | attempt, schedule, exhaust, retry, retry all, dismiss | a pending item has a task, attempts are bounded, the screen is right | commit and dispatch are two steps, workers die, answers overtake lists | `ReviewQueue`, `LogsPage` |
| Orders (`orders/`, `orders/page.tsx`) | `order_mappings`, sale orders in Odoo, the form and the list | sync, delete mapping, list | one sale order per order, a reported order is listed | check-then-create, retried creates, crashes | `OrderSync`, `OrdersPage` |
| Connections (`api/connections.py`, `connections/page.tsx`) | `connections`, three forms, a cached list | save and test, list | a form names the row it saved | handlers outlive their page, lists arrive late | `ConnectionTable`, `ConnectionsPage` |
| Health (`connections/health.py`, `health_router.py`) | connection status, failure counters in Redis | check all, test, switch, delete | status agrees with the stores, off stays off | checks overlap and write what they loaded long before | `ConnectionHealth` |
| Setup (`setup/router.py`, `setup/page.tsx`, `SetupGuard.tsx`) | step, results of tests, `setup_completed` | steps, status, redirect | a first run ends in the wizard, a completed one never returns there | answers to pages that were left | `SetupWizard`, `ConnectionDesk` |
| Progress (`ws/`, `useWebSocketSync.ts`, `SyncProgressOverlay.tsx`) | sockets, Redis subscriptions, the hook's refs, the overlay | publish, broadcast, reconnect, dismiss | one line per page, the last event is shown, retries end | one listener per socket, lists that change while they are walked, timers | `ProgressRelay`, `ProgressOverlay`, `SyncSocket` |
| Stock, images, clients, webhooks | mappings, sessions of the stores, keys in Redis | | | | partly, see "Not modelled" |
| Matching, authentication, configuration, other pages | | | | little or no state | not modelled |

How they interact. The API and the Beat process create executions and send
messages; workers take them, hold a transaction and an advisory lock for most
of a run, call Odoo and the store, and write mappings and counters. The
browser reaches the API through pages that cache lists and whose handlers go
on when the page is left. Health checks and the connections API share
`connections`; the wizard and the connections page write it. A run publishes
progress to Redis, the API relays it to sockets, the hook feeds the overlay.

`PROJECT.json` lists every component with its files, and under `hazards` the
places where each of these difficulties bites, with the properties that would
catch it.

How the modules are composed. Each server component is a module of its own
with its variables, one action per step of a handler, and no assumption about
who calls it; the page over it EXTENDS it. `ConnectionDesk` is the composition
of `ConnectionTable` (server), `SetupWizard` and `ConnectionsPage` (one browser
tab); `JobDesk` that of `JobTable` and `JobForm`; `SyncSocket` that of
`ProgressRelay` and `ProgressOverlay`; `LogsPage` EXTENDS `ReviewQueue`,
`OrdersPage` EXTENDS `OrderSync`. Every one that is checked has an `MC` module
with the values that a configuration cannot write, and a `_proofs` module;
`Connections_proofs` is that of `ConnectionDesk` and of `ConnectionHealth`. A
definition named in a comment as a "bug form" is no part of any specification:
it is what a plausible mistake would look like, and each property is checked to
fail when one of them takes the place of the definition it varies.

## The modules

### ExecutionLifecycle

What a reader of `sync_executions` may rely on: an execution is created running,
is attempted by at most one worker at a time, counts up only while it is
attempted, and ends once.

### SyncPipeline

State: `row` is the committed table, `undispatched`, `ready`, `task` and `owned`
are the path of a message from the Beat wrapper through the broker to a worker,
`pc` is where a worker is in `_run_sync_pipeline`, `snap` the `SyncExecution`
object in its session, `delta` its flushed and uncommitted increments, `session`
what PostgreSQL and SQLAlchemy still accept, `lock` the advisory locks, `tally` a
history of the counts of all committed phases.

| code | action |
|---|---|
| `jobs/service.py` `trigger_execution`, `jobs/router.py` run endpoint | `RunJobEndpoint` |
| `tasks/scheduler.py` wrapper task | `BeatCreate`, `BeatDispatch`, `BeatDispatchFails` |
| `webhooks/processor.py` `_dispatch_sync` | `WebhookDispatch` |
| start of the task, load of execution and job | `Deliver`, `Load`, `LoadMissing` |
| `pg_advisory_xact_lock` and the status check | `Enter`, `Skip`, `LockRaises` |
| client constructors | `ClientRaises` |
| `run_phase` around each engine | `EngineReturns`, `EngineRaises`, `FlushFails`, `StatementFails`, `BrokenPhase` |
| commit of the image engine | `ImageCommit` |
| end and except branch | `Complete`, `CompleteRaises`, `FailExecution`, `FailUpdateRaises` |
| `autoretry`, acknowledgement, limits | `Retry`, `GiveUp`, `Ack`, `SoftLimitCancels`, `SoftLimitRaises`, `Kill`, `Crash`, `Redeliver` |

One transaction spans a run, up to the commits of the image engine. The session
has `expire_on_commit=False`, so that a run decides on the copy it loaded; this is
why `snap` and `row` are two variables. The engines appear as the counts they
return, or as an exception, or as a statement that breaks the session.

`_get_wc_client` of this commit passes a keyword its constructor does not have,
so that no phase of the committed code reaches the store. The constant
`Deployments` holds the variants to check: `"committed"` with that `TypeError`,
`"repaired"` without it. The properties are checked for both.

### ProductSync

State: `odoo` is the version of the content of each template and variant,
`store` the products and variations, `mappings` the committed rows of
`product_mappings`, `own` the rows a run has flushed, `plan` the versions it has
read, and `pc`, `todo`, `item`, `found`, `product`, `made` the local variables of
`sync_products` and its two helpers. What Odoo has to offer is one of `Catalogues`:
the variants of each template, `sku`, the SKU each content is sent with, and
`invalid`, the contents that do not pass `model_validate`. `written`, `restored` and `overlapped` are
history: what each article has received, whether an older content has been
brought back in Odoo, whether two runs have overlapped.

| code | action |
|---|---|
| `sync_products`: one read of the templates, up to its limit; it raises | `Begin`; `ReadFails` |
| `get_mapping_by_odoo_id`, `_get_variant_mapping`, `diff_hashes` | `SkipUnchanged`, `NeedsCall` |
| `create_product`, `create_variation` | `Create` |
| `update_product`, `update_variation` | `Update` |
| a 404, a SKU that is taken, a variant that does not validate | `Rejected` |
| a call that fails, an answer that does not arrive | `CallRefused`, `AnswerLost` |
| `search_or_create`, `create_mapping` | `SaveNew` |
| `update_mapping` | `SaveHash` |
| `get_product_variants`, up to its limit | `FetchVariants` |
| commit or rollback of the run | `CommitRun`, `RollbackRun` |
| users of Odoo and of the store | `Edit`, `MerchantDeletes` |

`get_mapping_by_odoo_id` returns the first row with the template's id in no
particular order, and the rows of variants carry that id: `Rows` offers all of
them. A content is a version number and stands for its hash; the hash of a
template never equals that of a variant, whose fields differ. An edit that
normalisation hides from the hash is not an edit of the model. The number of
variants of a template does not change.

The two reads ask for 1000 templates and 500 variants (`odoo.py:290`, `:300`) without
an order or a second page: `Pages` is all of them where they fit, and any so many of
them where they do not. `model_validate` raises for the whole list if one record does
not pass (`:292`, `:302`): a template that does not ends the phase before it has done
anything, a variant that does not ends its template after step 1. WooCommerce takes a
SKU for one product or variation only, so that a create or an update with the SKU of
another article is refused (`SkuTaken`). Of runs that wait for each other's row
locks PostgreSQL rolls one back, which is a case of `RollbackRun`.

A row has no id of its own in the model: each is inserted for an article that
was just created, and is identified by it.

### CategorySync

State: `odoo` and `store` are the two trees, `mappings` the committed rows of
`category_mappings`, `own` the rows a run has flushed, `plan` and `order` what it
has read and sorted, `at` its place in the list (it walks it twice), `lookup` the
table `odoo_to_woo`, `kept` the row the variable `existing` of the first loop still
refers to: SQLAlchemy keeps an object alive while something refers to it, and does
not refresh it on a later SELECT. `mishaps`, `overlapped`, and the fields `cat` and
`meant` of a category of the store are history: what has struck each category, and
which one of Odoo, under which parent, the store was last written for.

| code | action |
|---|---|
| `get_categories`, `_topological_sort` | `Begin` |
| first loop, over the existing mappings | `Read` |
| second loop: mapped and same name; otherwise | `SkipUnchanged`, `NeedsCall` |
| `create_category`, `update_category` | `Call`, `CallRejected`, `CallRefused`, `AnswerLost` |
| `search_or_create`, `create_mapping` | `KeepRow`, `SaveNew`, `InsertFails` |
| `update_mapping` | `SaveName` |
| commit or rollback of the run | `CommitRun`, `RollbackRun` |
| users of Odoo and of the store | `Edit`, `MerchantDeletes` |

`get_categories` reads at most 500 categories (`Limit`), in no particular order.
`TopologicalSort` is the iteration of passes of the code. Its branch for cycles is
in the model, but Odoo has no recursive categories, so that no run takes it. Of the
store it is assumed that it refuses a second category of one name under one parent,
and ids it does not know, and that the children of a deleted category go to its
parent; these are WooCommerce's rules, which the code does not check. A name is a
version of the name of one category: that two categories have the same name is left
out. A row that another run has inserted and not committed makes an INSERT wait
(`Contended`); it then fails or goes on.

### ConnectionTable, SetupWizard, ConnectionsPage, ConnectionDesk

One browser tab in which a user goes back and forth between the wizard, the
dashboard and the connections page. `conns` are the rows of `connections`;
`calls` the save-and-test handlers that have not ended, each with the visit it
was started from, since a handler goes on when its page is left and only its
updates of the page's state are without effect then; `section` the forms;
`fetch`, `cache`, `stale` the react-query list; `reqs` the requests of the
guard and of the wizard's last steps. `hasty` and `missed` are history: they
mark the two races of the code that the properties exempt (below).

| code | action |
|---|---|
| `handleSaveAndTestOdoo`, `handleSaveAndTestWc`, `useSaveAndTest` | `SaveAndTest`, then `ServerCreates` or `ServerUpdates`, `Saved`, `ServerTests`, `Answered`; `RequestLost`, `MethodNotAllowed`, `Abandon` |
| `SetupGuard` effect and its cleanup | `Mount`, `ServerStatus`, `CheckPasses`, `Redirect`, `CheckIgnored`, `CheckFails` |
| wizard steps, `handleCreateJob`, `handleFinish` | `GoNext`, `GoBack`, `StepOdoo`, `StepWooCommerce`, `StepCurrency`, `StepFirstJob`, `StepComplete` and the answers of their requests |
| `setup/router.py` | `ServerStatus`, `ServerFirstJob`, `ServerComplete` |
| list query and effect of the connections page | `OpenPage`, `ServerLists`, `ListArrives`, `ListFails`, `Invalidate` |

### JobTable, JobForm, JobDesk

`rows` is `sync_jobs` and `beat` the Beat entries, which live only in the
memory of the API process. A handler is a chain of steps (`Load`, `Commit`,
`Refresh`, `Reschedule`) because each await lets others in. `JobForm` is the
five steps of the two form pages, with `base` the row an edit form was read
from (it copies the mappings without their `enabled`, which the API then fills in as
true: mappings are `"valid"`, all enabled, or `"muted"`, one disabled); `JobDesk` adds the list page with its toggle, run and delete buttons, its
cache, other clients of the API, restarts (`ServerRestarts`) and lost answers.
Which schedules register is modelled by what `register_job_schedule` does with
them: an interval and a cron expression are registered, an invalid or empty one
raises, after the row was committed. `excused` marks the jobs for which a
restart, or two overlapping updates, leaves the entry behind.

Two differences between pages and API lie in a client library that the
repository does not contain: the pages send `sync_direction` where the API has
`direction`, and the list reads `items` where the API answers `jobs`. The
constant `Adapts` says which of them the library makes good.

### ReviewQueue, LogsPage

`log` is `sync_logs`, `queued` the messages of `retry_single_item`, `worker` the
tasks, `calls` the requests. `Take`, `Unmapped`, `Attempt`, `ScheduleRetry` are
the task; `Crash` loses a whole worker at any step, whose message is delivered
again; `Kill` loses its child process or exceeds the hard limit, where the message
is acknowledged (`task_acks_late` without `task_reject_on_worker_lost`,
`celery_app.py:28-31`); `DatabaseFails` is a statement or a commit that raises, or
the soft limit: the session it leaves fails `handle_sync_failure` as well
(`retry.py:64`, `:204`), so that the log stays as it was. `ScheduleFails` and
`DispatchFails` are a broker that cannot be reached after the commit. `Load`,
`Commit`, `Dispatch` are `retry`, `retry-all` and `dismiss`, which look at no
status, `RequestFails` a request whose statement raises. What the sync of one item
ends in is a free choice: the code has a placeholder there. `stranded` has the logs
whose dispatch or task ended so that nothing is left to retry them, until a task is
queued for them again. `LogsPage` is the review tab with its cached list (any
`PageSize` of the failed logs, when there are more), the buttons that wait, and
their mutations' invalidation.

### ProgressRelay, ProgressOverlay, SyncSocket

Every socket has an endpoint with a Redis subscription of its own, and each
endpoint broadcasts to the sockets of all: `queue[s]` is what endpoint `s` has
heard, `cast[s]` how far its walk over `active` has come. The walk is over a list
that others change: `Depart` moves the place (`Shifts`). `SyncSocket` has the
refs of the hook as variables; `Connect`, `Disconnect`, `Unmount` are the page,
`OnOpen`, `OnMessage`, `OnClose`, `TimerFires`, `LostTimerFires` the browser.
`lostTimers` are reconnect timers whose handle a second close has overwritten.
`ProgressOverlay` is the component with its timer.

### OrderSync, OrdersPage

A request goes through `Check`, `Create`, `Insert`, `Commit`, one await after the
other; `Create` counts how often the Odoo client's retries (`Attempts`, 3) have
created the order when answers were lost. `paid` is history: it counts each
duplicate with its cause (an overlap, a lost answer, a failed commit or crash,
a deleted mapping), so that `DuplicatesPaidFor` says there is no other.
`newer` has the order of the rows' ids: `GET /api/orders` returns its first page
only, of the newest `PageSize` rows (20), and the page asks for no other.
`OrdersPage` is the form with its feedback and the list query.

### ConnectionHealth

Bulk checks (`Begin`, then `Probe`, `Unreadable` and `Count` per connection,
`Commit`), the requests that test and switch a connection (`TestConnection`,
`Switch`, `Answer`, `Write`), and `Delete`. A check holds the rows it loaded at the start
and writes, in one commit, the columns it has changed; the counters in Redis
are changed as it goes. `Die` ends a check or its access to Redis. `off` is
history: the connections a user has switched off; a check that had loaded one
of them before the switch and writes over it takes it out of `off` (`since`).

## Runs

| run | question | result |
|---|---|---|
| `pipeline` | two executions of a job, two workers, crashes, a database error, a lost dispatch, no message twice | holds: one worker per execution, no stale run, counters add up, every dispatched execution ends, `ExecutionLifecycle` implemented |
| `pipeline_redelivery` | one execution, every fault once, a running message delivered again | holds: types, exclusion until the images phase, no leaked lock, never reopened |
| `products` | successive runs over a simple or a two-variant template, with and without SKUs and invalid records, two edits, any two of four faults | holds: one row per item, no missed change, the store comes to mirror Odoo where it can be read and no SKU is taken |
| `products_overlap` | two overlapping runs over two simple templates of which each reads one, an edit, same faults | holds: types, stored hashes are of contents the store has received, a bounded number of duplicates |
| `categories` | successive or overlapping runs over a small tree, any two edits, faults, deletions or overlaps | holds: a failure spreads no further than the children of the category it strikes, categories that were only refused come to be in the store under their names |
| `desk` | a user between wizard, guard and connections page, requests lost, handlers that outlive pages | holds: currencies shown are those of stored rows, one connection per section, the form names the new row, no late redirect, a first run ends in the wizard |
| `jobs` | list and forms of jobs against the server, another client, a restart or a lost answer | holds: Beat entries follow the rows, an untouched edit changes nothing but that disabled mappings are enabled |
| `review` | two items, two workers, two requests, one fault | holds: a pending item has a task, attempts are bounded, no settled item stays on screen |
| `progress` | two sockets, events from several endpoints, one broken connection or restart, reconnects | holds: one line, the last event shown, only the user hides a running sync, the hook gives up |
| `orders` | three requests for two orders, one fault, one deleted mapping | holds: duplicates only for a reason, a reported order is listed, or the list is a full page of newer ones |
| `health` | two connections, Beat's check and one by request, a user's requests | holds: off stays off, statuses come to follow the stores |
| `doc_phases_run` | a failure in one phase does not prevent the others from running (`docs/sync-engine.md:16`) | violated by the code of this commit: the store client is built outside the isolation of a phase and raises, so that the run ends before its first phase |

Where a property needs a premise, it states it, with history variables where the
premise is about the past. The properties of the `pipeline` run hold only when no
message is delivered twice, which is why that run has no redelivery in its
budget, and the theorems about them assume `DeliveredOnce`. `NoMissedUpdate` and
`EventuallyMirrored` exempt restored contents in the cases their comments name, and
`EventuallyMirrored` what cannot be read or whose SKU is taken.

Where the code loses a race, the property cannot claim it, and its premise takes out
exactly the states that race leads to. Five properties are to be read with this in
mind. `BeatFollowsRow` leaves out the jobs two requests have overlapped on, and all
jobs after a restart, until a request that is alone reschedules them (`excused`).
`OffStaysOff` leaves out a connection that was switched off while a check was under
way that had read it before (`since`). `ShowsLastEvent` leaves out what follows a
removal in the middle of a broadcast (`disturbed`), and with `OneLine` a connect before
the former socket's close was reported (`replaced`). `AttemptsBounded` and
`NotLeftOnScreen` leave out logs that two tasks or requests worked on at a time
(`shared`). What they show is that these races are the only ways to the bad state; that
the races do lead there is said in the section on where code and words differ.

`CHECK_DEADLOCK FALSE` stands where a user may simply stop; `SyncPipeline`,
`ProductSync` and `CategorySync` are checked for deadlock.

### Bounds

Two workers and two executions of one job are the least that lets executions
follow and overlap each other on a job and on a worker; a third adds no new pair.
`MaxRetries = 1` has a first and a last attempt. Every kind of fault of the
pipeline has a budget of its own, so that each combination of one fault of each
kind occurs where the budget is 1. An engine that returns reports one item
(`Clean`); in `pipeline_redelivery` every engine raises (`Never`), which still
counts an error.

`products` has one template, of either shape, with two variants, as many as a
variable product has at least; contents 0 and 1; two edits, as many as it takes to
restore a content; two faults of any kinds, as many as it takes for a duplicate
and then a failure of the run that repairs it. Its catalogues (`Successive`) have
each shape without SKUs, with one SKU for each item, a simple template with a SKU for
each content, and templates or variants that do not validate until they are edited;
its limits are never exceeded, which leaves that case to `products_overlap` and to the
theorems. `products_overlap` has two templates, of which `TemplateLimit = 1` lets a
run read either, without SKUs or with one for each content, one of whose contents may
not validate, and one edit. They are simple: with variants, two runs may wait for each other's rows, which is PostgreSQL's to resolve, and the state space exceeds what is feasible to check.

`categories` starts from a category with one below it, to which a third may be
added; `Limit` is 2, so that with three of them a parent may not be read. Two events
in all, each an edit, a fault, a deletion or an overlap: enough for a fault at a
parent and an edit of its child, or a move and then a lost answer. Two workers.

`desk`: two presses of buttons that send, one lost request, two changes of path:
enough for a handler to outlive its page and find a new one, or for two handlers
of one form to overlap. Besides the two rows that presses create, a first row may
be there from before. `jobs`: two jobs (one edited while another is seen), two
requests of the pages, one of another client, two visits, one failure, two values
of filters, mappings with and without a disabled one, and of the six kinds of schedules one that registers, one that raises,
and none. `review`: two items, of which one has a mapping, two workers, two
requests, one retry, one fault, which may be of any kind; the page of the list has
room for both (`PageSize`), so that two are retried at once; the proofs are for any
size. `progress`: two sockets, which are used again once
forgotten by both sides; two events; two connects; one break or restart; more
connects or drops add states beyond what is feasible. `orders`: three requests
are the least for two that overlap and a third that comes after; two visits; a page
of one row, so that the second order pushes the first off.
`health`: two connections, two checks, one request at a time and three events in
all, where a store that goes down, a check that dies, and a request each cost one.
The failure counters stop at the threshold, 3, beyond which nothing depends on
them.

### Fairness

`SyncPipeline`: weak fairness of each worker's steps together (a process that is
up goes on; the choice among the outcomes of an engine is free) and of
`BeatDispatch` (the wrapper goes on to its next statement). Faults are never
fair. Nothing is assumed of `RunJobEndpoint`. `ProductSync`: weak fairness of the
steps of a run and of `Begin`, since a schedule starts run after run; edits are
bounded, so that Odoo eventually stops changing. `CategorySync`:
weak fairness of the steps of runs and of `Begin` taken together, of whichever run;
no fault is owed, and faults are bounded like edits. `ConnectionDesk`: servers answer
and the browser runs its handlers; the user owes nothing, and no failure is owed.
`SyncSocket`: the browser delivers what it has and runs its timers; the server owes
nothing, so that `GivesUp` is about the hook alone. `ConnectionHealth`: Beat starts
its check again and again, and a check or request that has begun goes on.

Fairness of what Beat starts (`Begin(Beat)` of `ConnectionHealth`, `Begin` of
`ProductSync` and `CategorySync`, `BeatDispatch`) is that of the schedule in
`tasks/scheduler.py`, not of `docker-compose.yml`: its `beat` service (`:129`) starts
Beat on `backend.celery_app`, whose schedule is empty, as its workers run that
application too. In that deployment nothing is ever started by Beat.

## Proofs

The theorems hold for every value of the constants allowed by the named
assumptions, which TLC evaluates in the runs. Each safety property is first
checked by a run, then derived from an inductive invariant.

- `SyncPipeline_proofs`, under every fault and redelivery: `TypeCorrect` needs
  that rows never disappear and keep their job (`RowsStay`), since a worker looks
  its row up again. `ExclusiveUntilImagesHolds` and `NoLeakedLockHolds` come from
  `LockInv`: a worker in the categories or products phase with a usable session
  holds the lock of its job, and whoever holds a lock is in the pipeline for that
  job. The first half alone is not inductive: a release by another worker could
  take the lock away. `NeverReopenedHolds` needs only what each commit writes.
- The same module, under `DeliveredOnce` (no redelivery): `OneWorkerHolds` from
  `TokenInv`, which says where an execution is: not yet there, with the wrapper, in
  one message, or with one worker. `NoStaleRunHolds` and `CountersAddUpHolds` from
  `OnceInv`, which adds `RunInv`: the copy of a run in the pipeline has the status
  of the row, and its counters are those of the row plus what the run has flushed;
  this is what makes it right to write the values of a copy. A step of one worker
  keeps it for the others because, by `OneWorkerPerExecution`, it touches no row
  they work on. `ImplementsLifecycleHolds` is the refinement: by the same invariant
  every step is one of `ExecutionLifecycle`, or changes nothing a reader can see.
- `ProductSync_proofs`: `ProductTypes`; `HashWasWrittenHolds`, through `WrittenInv`,
  which adds what a run has in hand between the answer of the store and the row;
  `MappedOnceHolds`, through `MappedInv`, which adds that, while no two runs have
  overlapped, at most one run is under way (`Solo`), what it has looked up is still
  what it would find (`LookedUpHolds`), and the committed rows and those it has
  flushed are of distinct items. `DuplicatesPaidForHolds` goes on from there, through
  `PaidInv`: an article is never held for two items (`OneItem`); until a row of a
  template is committed, each of its products is that of a run still holding it, or
  of an answer or transaction that was lost; from the commit on, no lookup misses,
  and what can still come are the runs that were racing (`PaidFor`). It counts, so it
  assumes that Workers is finite. `NoMissedUpdateHolds` needs three more layers
  (`NothingMissed`). `NamesInv`: rows, and what a run has in hand, name articles of
  their own item; this is where a variant must belong to one template. `GrowsInv`:
  until an old content is restored, no stored hash is ahead of the article it
  answers for, and no article ahead of Odoo. `ExactInv`: without losses, a stored
  hash is the content of its article, but for the row about to be recorded and for
  the hash of a variable product that the code leaves in a variant's row.
- `Connections_proofs`, about `ConnectionDesk`: `NoLateRedirectHolds`, through `GuardInv`: the guard
  asks on no path it excludes (`ReqsOK`), and as long as the user has not left a
  wizard that was completing, he is in it while the completing request is under way
  (`Waits`). At the moment setup becomes completed there is then no status request
  whose answer would be heard, and later ones are answered "completed".
  `CurrencyOfStoredHolds`, `OneConnectionPerVisitHolds` and `KeepsNewRowHolds` come
  from `DeskInv`: a form of the mounted page has one handler at most; those of pages
  that were left name no row made in this visit; a second row of a visit is paid for
  by a lost answer; and on the connections page each row of the visit is on its form,
  or on the list under way, or its handler has still to ask for the list.
- The same module, about `ConnectionHealth`: `HealthTypes` and `OffStaysOffHolds`, through
  `HealthInv`: a check that holds a row its user has since switched off knows it
  (`Informed`), so that no commit writes over it.
- `JobDesk_proofs`: `BeatFollowsRowHolds` and `UntouchedEditOnlyEnablesHolds`, through
  `JobsInv`: a handler that is alone with its job (`Alone`) has a copy as good as the
  row (`Fresh`), and a form is what the page makes of the row it was read from, whose
  mappings are among those a row can have (`TypeOK`).
  `JobTypesHold` adds `DeskTypes`: whatever a body brings has the type of the field
  it is for (`BodyOK`), so that rows stay jobs, and pages that appear without the user
  opening them are paid for by saves: visits, plus the saves still waited for, never
  exceed MaxVisits plus the requests sent (`Visits`). It assumes that the user opens
  at least one page (the first) and that the table has room for at least one job.
- `LogsPage_proofs`: `LogsTypes`, `PendingHasTaskHolds` and `AttemptsBoundedHolds`,
  through `LogsInv`: a message, task or dispatch accounts for a pending log (`Owned`), and
  attempts made plus attempts a task can still make stay within the bound
  (`Bounded`). `NotLeftOnScreenHolds`, through `TidyInv`: an unshared log is pending
  as long as anything of it is due, so that only a request of the page, or one the
  page has not heard of, takes it out of the failed logs.
- `SyncSocket_proofs`: `HiddenByUserHolds`, through `OverlayInv` (an armed timer
  means a completed sync), and `OneLineHolds`, through `LineInv`: as long as no
  connect came before a close was reported, at most one of socket, timer and lost
  timer is there, and it is the one the hook's refs name. `SocketTypesHold`, through
  `TypesInv`: no timer is lost without a call of connect of its own, since each socket in
  use and each timer goes back to one. `ShowsLastEventHolds`, through `ArrivesInv`: the
  last typed event published is still due to the socket in use at some endpoint (`Due`),
  or is the last on its wire (`Ends`), or is shown and the wire silent. That a removal
  keeps it due, unless it shifts the place of a broadcast, is a lemma on the list
  (`WithoutBehind`); that no message is read from a socket the hook has given up is
  `ConnInv` (a connection that has ended carries no event). Both assume that Sockets is
  finite.
- `OrdersPage_proofs`: `OrderTypes` and `DuplicatesPaidForHolds`, through
  `OrdersInv` (`WithinRight`): the sale orders Odoo has of an order, plus the
  requests about to create one, never exceed what is paid for, plus one if the order
  is mapped or some request is past the check. `SuccessIsListedHolds`,
  through `ListInv`: while the page reports a success and has dropped no list request,
  the list on the screen, or the one about to arrive, covers the order (`Covers`), or
  one is still to be served (`OnItsWay`). To cover it is to have it or to be a full
  page of orders that came after it; as an order gets a row, and with it an id, only
  while it has none, a page goes on covering what it covers (`CoverStays`).
- `CategorySync_proofs`: `ParentsComeFirst`, about `TopologicalSort` alone, for every
  tree without a cycle and every list of its rows. `Pass` is a fold, so that it is
  first shown to obey the equation of a step (`PassSteps`: the fold is taken of the
  greatest index, and a function on all subsets of the indices that obeys it exists);
  then a pass keeps parents first (`PassSorts`) and takes at least one category
  (`SomeReady`: what is left has a category whose parent is not left, as there is no
  cycle), so that as many passes as there are categories leave nothing. The
  induction over passes is a lemma of the module (`Induction`), from the library's
  fact that an injection of a finite set into itself is a surjection.
  `TreeKeptHolds` uses it, through `Inv`. `TreeKept` is not inductive: it says where a
  category ends up, not what a run knew when it put it there. `OrderOK` says that the
  plan of a run lists parents first, and `Processed` that what is before its place in
  the plan is known to it or was struck by something; so that a category is put at
  the top for want of a parent only if something happened to the parent. `PlacedOK`
  keeps where it was put, `MappedOK` and `IdsOK` that the ids of the mappings and of
  the runs are of their own category, and `CleanOK` that a category nothing happened to
  has one id, that of its mapping or of the run that has it in hand, so that it is under
  that parent and not under a second copy. It assumes that Cats, what Odoo can ever
  have, is finite.

What only TLC checks: liveness (`DispatchedEnds`, `EventuallyMirrored`,
`EventuallyNamed`, `FirstRunReachesWizard`, `GivesUp`, `StatusFollowsStore`), since
fairness and ENABLED are beyond the prover. Every safety property of the passing runs
is a theorem.

## Where the code and its words, or two parts of it, differ

`findings` in `PROJECT.json` has the one that a run shows. Others were met while
modelling; the models follow the code, or take the stated reading.

Pipeline and products. `_get_wc_client` passes a keyword its constructor does not
have, so that no phase of the committed code reaches the store. A retry of a run
that failed finds `failed` and returns at once (`orchestrator.py:88-93`,
`:177-187`). A failed flush of the categories phase fails the pipeline, against
`docs/sync-engine.md:16`. Where the store client can be built (`"repaired"`), the
commit of the image engine ends the transaction that holds the advisory lock, so that
a second worker enters the pipeline of a job whose images and stock are still under
way, against `docs/sync-engine.md:210` (this is why `ExclusiveUntilImages` stops at
the images). "Run Now" creates an execution and dispatches nothing
(`jobs/router.py:102`, `docs/getting-started.md:62`). The hash of a variable
product may be stored in a variant's row, so that restoring an old content is not
seen (`mappings.py:79`, `docs/sync-engine.md:64`).

A product that the store has created while its answer or the run's transaction was
lost has no row, and where it carries a SKU the create of every later run is refused
for that SKU: it is never adopted, and the item is not synced until somebody deletes
the product (without a SKU each such loss leaves a duplicate instead). The optional
texts of `OdooProductTemplate` and `OdooProductProduct` do not accept the `False` with
which Odoo answers an empty one (`schemas/odoo.py:39-45`, `:54-69`): one template with an
empty one, be it the reference, the barcode, the description or the image, fails the products
phase for all of them (`clients/odoo.py:292`, `products.py:156`). Beyond 1000
templates, or 500 variants of one, which of them are synced is up to Odoo.
`EventuallyMirrored` names these cases as `Blocked` and `Unread`, and promises nothing
there: a template's blocked or unreadable variant also excuses the variants after it,
since the exception skips what is left of the template (`products.py:182`).

The workers of docker-compose
run `backend.celery_app`, not `backend.tasks.celery_app`.

Of two overlapping runs that update one product, the older content may reach the
store last while the newer hash is stored last (`products.py:241`): `NoMissedUpdate`
claims nothing of runs that overlap. The webhook's debounce key is set before the
dispatch (`webhooks/processor.py:73`), so that a dispatch that fails silences the next
notifications.

Categories. "Ensure parent categories are created before children"
(`docs/sync-engine.md:23`) holds of the order of the calls only. A category whose parent
was refused, lost, or not among the 500 that were read, is created as a top category
(`categories.py:173-175`), and as only names are compared (`:182`) it stays there, as
does one that is moved in Odoo, until its name changes; a change of name in a run
that did not read the parent moves it to the top. After a lost answer or a lost
transaction the store refuses to create the category again where it is, at every run. The mapping
of a category that the merchant deleted is never removed: its renames and its new
children are refused for good. Overlapping runs may leave a child under a second copy
of its parent.

Setup and connections. The first job of the wizard always fails: its default
mappings say "bidirectional", which `FieldMappingRule` does not allow
(`setup/router.py:170-175`, `jobs/schemas.py:18`). The wizard's second save posts
to a route that does not exist (`MethodNotAllowed`). The guard never takes back
`checked`. WordPress credentials are stored as one more WooCommerce row, and the
WooCommerce form then takes its id (`connections/page.tsx:366`, `:480`). A save
and test that overtake the first list are overwritten by the older row for the
next minute (`missed`). A user who leaves the wizard while it completes may be
sent back (`hasty`).

Jobs. Besides the two differences behind `Adapts`: new jobs with the default
mappings are refused; the edit form does not know `interval_seconds` and `type`,
and `update_job` ignores a null schedule; the edit form drops the `enabled` of a
mapping (`edit/page.tsx:698-703`), so that any save switches disabled mappings on
(`jobs/schemas.py:19`); the edit form is filled from a cached
row and its save re-enables a job that was deleted meanwhile, although the dialog
says "cannot be undone" (`jobs/page.tsx:768`); a save that succeeds leads to the
list from anywhere and does not invalidate it; `trigger_execution` ignores
`is_enabled`; Beat entries live in the API process only, where a restart empties them
and of two overlapping updates the older may reschedule last; and in Next 16 the `params`
of the edit page is a promise.

Review. The API answers an object where the page expects an array.
Two retry requests make two tasks, which count and write the same log and may leave
more attempts behind than the limit.
`handle_sync_failure` is only called by `retry_single_item`; retry and dismiss look
at no status. A dispatch that fails after its commit strands a pending log
(`stranded`), as does a task that loses its child, exceeds its time limit, or meets a
database error: nothing sweeps such logs, and the review list shows only those that
have failed. The list has the 20 newest and the page asks for no other page, so that
"retry all" leaves the rest. A list on its way while the other tab is open counts as fresh.

Progress. The hook is mounted by no page, `RedisPublisher` is called by nobody,
and `phase_runner` publishes messages without a type (`Untyped`). The publisher
nests the fields the hook reads at the top, and the hook ignores execution ids. A
connect while the former socket is closing starts a second line of reconnects
(`replaced`). With n sockets every event arrives n times. A removal during a
broadcast passes over a socket, and a stale duplicate may reopen the overlay
(`disturbed`). A token that has expired is accepted, then closed, so that the
hook, whose count starts over at each open, reconnects for ever.

Orders. The API answers `status` and an object of items where the page reads
`success` and an array. The Odoo client repeats a create whose answer was lost. Two
requests for one order may both find no mapping and both create; the second commit
then violates uniqueness. A sync reported while the page's first list is on its
way leaves that list stale (`missed`). An order that is synced once more is answered
"synced" (`orders/sync.py:85`) and does not come back to the first page, which is all
that is shown: under the success message it may not be listed.

Health. One active connection whose credentials cannot be decrypted ends every
bulk check. A check that loaded a connection before it was switched off may set it
active again (this is what `off` leaves out). A connection deleted during a check
may undo the check's commit for all. The counters' expiry of one hour is left out:
every failing check renews it.

Other pages. The settings page saves to `/api/settings`, which no route serves,
and names `default_customer_id` what the backend reads as
`generic_odoo_customer_id`. Dashboard and settings read `.items` of a plain list,
under the cache key that the connections page uses for another shape.

## Not modelled

- Category sync from WooCommerce to Odoo (`sync_categories_wc_to_odoo`): no code
  calls it. Categories of the same name.
- Stock and images: what they send, batches and the media library. The commit of
  the image engine is in `SyncPipeline`, as it ends transaction and lock.
- Webhooks: the dispatch is an action of `SyncPipeline`. Debounce and origin keys
  are windows of time whose only effect is whether that dispatch happens.
- Clients: refused calls, lost answers and repeated creates are in `ProductSync` and
  `OrderSync`; re-authentication and pagination keep nothing across calls.
- Matching: suggestions are computed and not stored; a confirmation writes a row.
- Authentication, configuration, encryption: one administrator, a signed token,
  environment settings. The bodies of requests are taken to be authorised.
- Dashboard, explorer and settings pages: queries that are rendered, placeholder
  endpoints, and a form whose route does not exist. The executions tab of the logs
  page changes nothing.
- Within the modelled components: the normalisation of field values, rate limits,
  the wording of errors, `skipped_count` (it moves with `synced_count`), latencies,
  versions and notifications of health checks, partners, lines and prices of
  orders, names and descriptions of jobs, and time itself (a limit, an expiry, a
  minute of staleness or a timer may strike at any moment).
